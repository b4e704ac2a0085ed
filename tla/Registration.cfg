SPECIFICATION Spec
CONSTANTS
    t1 = t1
    t2 = t2
    u1 = u1
    u2 = u2
    u3 = u3
    Threads = {t1, t2}
    Users = {u1, u2, u3}
    SuperAdmins = {u1}
    Limits = {0, 1}
    MaxHackathons = 1
    MaxAdmins = 3
    MaxRegistrations = 3
    OneAtATime = TRUE
    CanRestart = TRUE
    None = None
SYMMETRY Symmetric
INVARIANTS
    TypeOK
    CreatorIsAdmin
    AdminRowsBounded
    
    
