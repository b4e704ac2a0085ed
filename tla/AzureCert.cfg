SPECIFICATION Spec
CONSTANTS
    t1 = t1
    t2 = t2
    h1 = h1
    h2 = h2
    s1 = s1
    Threads = {t1, t2}
    Hackathons = {h1, h2}
    Subscriptions = {s1}
    MaxKeys = 3
    CanRestart = TRUE
    None = None
SYMMETRY Symmetric
INVARIANTS
    TypeOK
    UnusedKeyGoes
    
PROPERTIES
    KeyInUseKept
