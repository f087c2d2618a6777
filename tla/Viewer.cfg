SPECIFICATION ViewerSpec
CONSTANTS
    Nv12Ring = 3
    Depth = 2
    PicBound2 = 2
    TurnBound = 2
    GlitchBound = 1
    LateBound = 1
    Slots = 2
    PicBound = 4
    Addresses = {"lan", "wan"}
    ComeBackFor = 4
    ComeBackFirst = 1
    ComeBackMax = 2
    EndBound = 3
    GrantBound = 3
    BackFor = 6
    BackMax = 4
    KeyframeEvery = 2
    ByeBound = 2
    OutBound = 2
    Sides = {"viewer", "agent"}
    Copyable = {"a", "b", "crcrlf", "image"}
    CopyBound = 2
    SlipBound = 2
INVARIANTS
    ScreenSafe
    ViewerSafe
PROPERTIES
    ViewerSteps
    ViewerLives
CHECK_DEADLOCK FALSE
