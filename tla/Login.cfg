SPECIFICATION Spec
CONSTANTS
    t1 = t1
    t2 = t2
    github = github
    live = live
    gitcafe = gitcafe
    qq = qq
    mysql = mysql
    e1 = e1
    e2 = e2
    p1 = p1
    p2 = p2
    Threads = {t1, t2}
    Accounts = {github, live, gitcafe, qq, mysql}
    Provider <- MCProvider
    Emails = {e1, e2}
    EmailsOf <- MCEmailsOf
    Owner <- MCOwner
    Presets <- MCPresets
    Patient = TRUE
    CanRestart = TRUE
    None = None
SYMMETRY Symmetric
INVARIANTS
    TypeOK
    SameAccount
    LinkedByEmail
    
    EmailHasOneRow
