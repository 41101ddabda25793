SPECIFICATION FairSpec
CONSTANTS
    MaxLoop = 2
    MaxBatch = 2
    FallbackIds = FALSE
    MaxDBFail = 1
CHECK_DEADLOCK FALSE
INVARIANTS
    Paired
    EffectsRecorded
    HandlesReadable
PROPERTIES
    NoLateEffect
    LoopEnds
