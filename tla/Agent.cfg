SPECIFICATION AgentSpec
CONSTANTS
    StreamBound = 3
    QueueRoom = 1
    FrameBound = 2
    MailBound = 2
    RestartFirst = 1
    RestartMax = 4
    Keys = {"Ctrl"}
    Links = {1, 2}
    Extent = 1920
    Desk = 4480
    Place = 2560
    EventBound = 2
    FloorKbps = 300
    MinFps = 5
    CalmToProbe = 2
    Settle = 2
    RememberOveruse = 20
    LeastLimit = 100
    SharpKbit = 80
    FreeBound = 3
    Ceilings <- TwoCeilings
    Capacities = {350, 900}
    FrameMost = 60
    RepairMost = 150
    Buffer = 300
    LookupFirst = 2
    LookupMax = 4
    ReconnectFirst = 1
    ReconnectMax = 4
    DialBound = 3
    FaultBound = 2
    ComingBound = 1
    Consoles = {"s1", "s2"}
    AgentBound = 2
    DeathBound = 1
    BackoffFirst = 1
    BackoffMax = 2
    TokenBound = 2
    AdminBound = 2
    OutageBound = 1
    CrashBound = 1
    LogLimit = 3
    EventLens = {1, 2}
    EventMost = 7
    RefuseMost = 2
    StartMost = 3
INVARIANTS
    SessionSafe
    HostSafe
PROPERTIES
    AgentSteps
    AgentLives
CHECK_DEADLOCK FALSE
