SPECIFICATION FairSpec
CONSTANTS
    Workers = {w1, w2}
    NTasks = 2
    Titles = {"a", "b"}
    Files <- MixedFiles
    MaxFaults = 1
    MaxCrash = 1
    MaxOthers = 1
    MaxOverlap = 1
CHECK_DEADLOCK FALSE
INVARIANTS
    
    NoLineLost
    SuccessIsSearchable
PROPERTIES
    UploadsFinish
