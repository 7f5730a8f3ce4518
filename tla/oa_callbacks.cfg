SPECIFICATION OaFairSpec
CONSTANTS
    g1 = g1
    g2 = g2
    engineer = engineer
    leader = leader
    dba = dba
    s1 = s1
    d1 = d1
    d2 = d2
    k1 = k1
    k2 = k2
    NoGroup = NoGroup
    Group = {g1, g2}
    Chain <- MCChain
    User = {engineer, leader, dba}
    Creator = engineer
    Superuser = {}
    Reviewer = {leader, dba}
    ResourceGroupUser = {engineer, leader, dba}
    Member <- MCMember
    BanSelfAudit = TRUE
    Session = {s1}
    Executor = {engineer}
    Delivery = {d1, d2}
    Instance = {k1}
    NoInstance = NoInstance
    OaAuditor <- MCAuditor
    OaApprover <- MCApprover
    MaxSend = 2
CHECK_DEADLOCK FALSE
INVARIANTS
    OaTypeOK
    NoFreeLevel
    ReleasedCovered
    CalmRowsAgree
PROPERTIES
    EventForItsLevel
    OaDecides
