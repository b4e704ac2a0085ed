SPECIFICATION FairSpec
CONSTANTS
    t1 = t1
    t2 = t2
    t3 = t3
    e1 = e1
    e2 = e2
    e3 = e3
    u1 = u1
    u2 = u2
    p1 = p1
    p2 = p2
    h1 = h1
    h2 = h2
    Threads = {t1, t2}
    Users = {u1}
    DefaultUser = DefaultUser
    Admins = {}
    Templates = {p1}
    AzureTemplates = {}
    Exprs = {e1}
    NumVE = 2
    PreAllocate = 1
    AlaudaFlags = {FALSE}
    OneAtATime = FALSE
    CanRestart = FALSE
    None = None
    Hosts = {h1}
    MaxCount = 2
INVARIANTS
    HostedInv
    StopFindsContainer
    RunningHoldsPorts

    
