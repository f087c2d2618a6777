SPECIFICATION LinkFairSpec
CONSTANTS
    None = None
    Half = 7
    MaxGapNacks = 2
    MaxRememberedGaps = 2
    InputIds = {12, 13, 0, 1}
    MaxPending = 2
    Timings <- AlwaysDue
    MaxTime = 0
    LastArrival = 0
    FirstId = 12
    FrameQueue = 1
    MaxCtrl = 1
    MaxChunks = 1
    MaxFrames = 4
    MaxChanges = 3
    MaxRestarts = 1
    MaxLosses = 2
    SentFrames = 2
PROPERTIES
    DecodedAgainstReference
    OnlySilenceLeavesNoPicture
CHECK_DEADLOCK FALSE
