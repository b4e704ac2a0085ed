SPECIFICATION FairSpec
CONSTANTS
    t1 = t1
    t2 = t2
    n1 = n1
    Threads = {t1, t2}
    Names = {n1}
    MaxTemplates = 2
    MaxFiles = 2
    CanRestart = TRUE
    None = None
INVARIANTS
    TypeOK
    RowHasFile
    
    CacheIsCurrent
PROPERTIES
    Converges
