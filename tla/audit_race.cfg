SPECIFICATION AuditSpec
CONSTANTS
    g1 = g1
    g2 = g2
    engineer = engineer
    leader = leader
    dba = dba
    root = root
    s1 = s1
    s2 = s2
    NoGroup = NoGroup
    Group = {g1, g2}
    Chain <- MCChain
    User = {engineer, leader, dba, root}
    Creator = engineer
    Superuser = {root}
    Reviewer = {engineer, leader, dba}
    ResourceGroupUser = {engineer, leader, dba}
    Member <- MCMember
    BanSelfAudit = TRUE
    Session = {s1, s2}
    Executor = {engineer, dba, root}
PROPERTIES
    ClosedStaysClosed
