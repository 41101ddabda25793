SPECIFICATION StreamSpec
CONSTANTS
    Conversations <- AskedWith
    MaxLines = 7
    MaxCalls = 2
    StopsAtStart = FALSE
CHECK_DEADLOCK FALSE
INVARIANTS
    RequestPaired
    
    CutRunsNothing
PROPERTIES
    ImplementsEventStream
