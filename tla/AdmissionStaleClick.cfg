SPECIFICATION Spec
CONSTANTS
    None = None
    Conns = {c1, c2}
    Configs <- WindowOnly
    Grants <- SomeGrants
    MaxFailures = 2
    FreeFailures = 2
    FirstLockout = 1
    MaxLockout = 2
    ClockSkew = 1
    MaxDraws = 1
    MaxClock = 0
INVARIANTS
    ConsentGiven
CHECK_DEADLOCK FALSE
