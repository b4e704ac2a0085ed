SPECIFICATION Spec
CONSTANTS
    t1 = t1
    t2 = t2
    u1 = u1
    u2 = u2
    u3 = u3
    n1 = n1
    n2 = n2
    Threads = {t1, t2}
    Users = {u1, u2}
    Admins = {}
    Names = {n1, n2}
    Ops = {"create", "join", "dismiss", "leave", "kick"}
    MaxTeams = 2
    MaxMembers = 3
    OneAtATime = FALSE
    CanRestart = FALSE
    None = None
SYMMETRY Symmetric
INVARIANTS
    OneTeamPerUser
