SPECIFICATION FairSpec
CONSTANTS
    Senders = {s1}
    MaxChunks = 2
    MaxConns = 2
    MaxMissed = 2
    AckCmds = {"", "ack"}
CHECK_DEADLOCK FALSE
INVARIANTS
    LostIsTold
    TableIsExact
PROPERTIES
    
    EverythingEnds
