SPECIFICATION StreamSpec
CONSTANTS
    Conversations <- AskedWith
    MaxLines = 7
    MaxCalls = 2
    StopsAtStart = TRUE
CHECK_DEADLOCK FALSE
PROPERTIES
    ImplementsEventStream
