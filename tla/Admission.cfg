SPECIFICATION FairSpec
CONSTANTS
    None = None
    Conns = {c1, c2, c3}
    Configs <- AllConfigs
    Grants <- SomeGrants
    MaxFailures = 2
    FreeFailures = 2
    FirstLockout = 1
    MaxLockout = 2
    ClockSkew = 1
    MaxDraws = 2
    MaxClock = 2
INVARIANTS
    TypeOK
    GuessesBounded
    LockedMeansNoExchange
    GrantOnce
    AdmittedAsRequired
    HostShowsTruth
PROPERTIES
    AskEnds
CHECK_DEADLOCK FALSE
