SPECIFICATION FairSpec
CONSTANTS
    Deliveries = {m1, m2, m3}
    Keys = {"kc"}
    Digests = {"d1", "d2"}
    Owners = {"u1", "u2"}
    Requests <- LiveRequests
    NoKey = NoKey
    Anonymous = Anonymous
    NoOne = NoOne
    Spaced = TRUE
    MaxDBFail = 0
    MaxCrash = 1
    MaxForeign = 0
CHECK_DEADLOCK FALSE

    
PROPERTIES
    TurnsSettle
