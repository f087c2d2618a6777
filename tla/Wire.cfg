SPECIFICATION WireSpec
CONSTANTS
    Inside <- TwoAndOne
    Server = "s"
    KindsOf <- StrictAndLoose
    PacketMost = 4
    ForgetBound = 1
    ViewerEnds = {"v1"}
    AgentEnds = {"a1", "a2"}
    Bindings = {1, 2}
    Typed <- SpacedOrNot
    SecretKinds = {"one time", "access", "unreasonable"}
    HeaderLen = 2
    MaxLen = 3
    Lens = {1, 3, 4}
    SendMost = 2
    ClockWindow = 2
    NowBound = 4
    PingBound = 3
    DriftMost = 1
    LinkMost = 2
    Bytes3 = {0, 1, 5}
    IdrByte = 5
    UnitLen = 3
    UnitMost = 2
    InFlightMost = 3
    Behind = 1
    FrameBound2 = 6
    MissBound = 4
INVARIANTS
    WireSafe
    ReadersSafe
CHECK_DEADLOCK FALSE
