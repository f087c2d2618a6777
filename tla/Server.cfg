SPECIFICATION ServerSpec
CONSTANTS
    Clients = {x, y}
    SignInKeys = {"ip", "name"}
    Passwords = {1, 2}
    Attempts = 2
    AttemptWindow = 2
    LoginLifetime = 1
    SecretBound = 2
    AskBound = 3
    ClockBound = 3
    People = {"ann", "bob"}
    Askers = {x, y}
    JobBound = 3
    StartBound = 1
    Machines = {"k1"}
    Managers = {w1}
    Roles = {1}
    RowBound = 1
    SerialBound = 3
    TokenUses = 1
    Packages = {1, 2}
    VersionOf <- SameVersions
    Uploaders = {x, y}
    Fetchers = {x, y}
    Downloads = 1
    ChangeBound = 5
    Sessions = {1, 2}
    Sizes = {1, 2}
    Ceiling = 3
    QueueBound = 1
    InboxLimit = 1
    PacketBound = 2
    Addresses = {x, y}
    TryLimit = 2
    TryWindow = 2
    TimeBound = 4
    TryBound = 4
    Lifetime = 26
    RenewEvery = 12
    Slack = 1
    Pages = {p1}
    HourBound = 75
    Procs = {x, y}
    MakeBound = 3
    WriteBound = 2
    RunBound = 3
    Viewers = {x, y}
    Devices = {d1}
    Prints = {1, 2}
    TroubleBound = 1
INVARIANTS
    SignInSafe
    UsersSafe
    FleetSafe
    ReleasesSafe
    RelaySafe
    
PROPERTIES
    ServerSteps
SYMMETRY Alike
CHECK_DEADLOCK FALSE
