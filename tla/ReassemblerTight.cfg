SPECIFICATION Spec
CONSTANTS
    None = None
    Half = 7
    MaxGapNacks = 2
    MaxRememberedGaps = 2
    InputIds = {12, 13, 0, 1, 2}
    MaxPending = 2
    MaxChunks = 2
    Timings <- AlwaysDue
    MaxTime = 0
    LastArrival = 0
INVARIANTS
    TypeOK
    GapsAreGaps
PROPERTIES
    DecoderPromise
    SkippingAsksForKeyframe
