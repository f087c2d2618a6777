SPECIFICATION FairSpec
CONSTANTS
    None = None
    Half = 7
    MaxGapNacks = 2
    MaxRememberedGaps = 2
    InputIds = {13, 0, 1}
    MaxPending = 3
    MaxChunks = 2
    Timings <- OneTick
    MaxTime = 4
    LastArrival = 2
INVARIANTS
    DeadlineNotLate
    PendingAfterSettled
PROPERTIES
    CallsReturn
    HeldFramesSettle
