SPECIFICATION UpdateSpec
CONSTANTS
    None = None
    Conns = {c1, c2}
    Configs <- UnderService
    Grants <- TwoGrants
    MaxFailures = 2
    FreeFailures = 2
    FirstLockout = 1
    MaxLockout = 2
    ClockSkew = 1
    MaxDraws = 1
    MaxClock = 2
    MaxRestarts = 2
INVARIANTS
    OldSessionsSurvive
CHECK_DEADLOCK FALSE
