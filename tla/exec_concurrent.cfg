SPECIFICATION FairSpec
CONSTANTS
    g1 = g1
    g2 = g2
    engineer = engineer
    dba = dba
    s1 = s1
    x1 = x1
    x2 = x2
    t1 = t1
    t2 = t2
    NoGroup = NoGroup
    Group = {g1, g2}
    Chain <- MCChain
    User = {engineer, dba}
    Creator = engineer
    Superuser = {}
    Reviewer = {dba}
    ResourceGroupUser = {engineer, dba}
    Member <- MCMember
    BanSelfAudit = TRUE
    Session = {s1}
    Executor = {engineer}
    ExecSession = {x1}
    Task = {t1, t2}
    MaxCrash = 1
INVARIANTS
    TypeOK
    OnlyApprovedRuns
    NoWaitInVain
PROPERTIES
    StartsWhileApproved
    WaitsEnd
    ClosedStaysClosed
    ImplementsApproval
