SPECIFICATION Spec
CONSTANTS
    t1 = t1
    t2 = t2
    e1 = e1
    e2 = e2
    e3 = e3
    h1 = h1
    Threads = {t1, t2}
    Exprs = {e1, e2}
    Hosts = {h1}
    NumPorts = 2
    Wanted <- MCWanted
    PortLimit = 5
    HostPortMaxNum = 1
    Snapshots = TRUE
    Polls = TRUE
    CanRestart = FALSE
    None = None
SYMMETRY Symmetric
INVARIANTS
    BuildingPortsDistinct
