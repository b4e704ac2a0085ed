SPECIFICATION Spec
CONSTANTS
    t1 = t1
    t2 = t2
    u1 = u1
    u2 = u2
    u3 = u3
    n1 = n1
    n2 = n2
    Threads = {t1, t2}
    Users = {u1, u2}
    Admins = {u1, u2}
    Names = {n1, n2}
    Ops = {"create", "join", "update", "dismiss", "leave", "approve", "deny", "kick", "promote"}
    MaxTeams = 2
    MaxMembers = 2
    OneAtATime = TRUE
    CanRestart = TRUE
    None = None
SYMMETRY Symmetric
INVARIANTS
    TypeOK
    OneTeamPerUser
    TeamInv
PROPERTIES
    KeepsPromise
