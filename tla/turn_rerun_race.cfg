SPECIFICATION Spec
CONSTANTS
    Deliveries = {m1, m2, m3}
    Keys = {"kc"}
    Digests = {"d1", "d2"}
    Owners = {"u1", "u2"}
    Requests <- ReplyOnly
    NoKey = NoKey
    Anonymous = Anonymous
    NoOne = NoOne
    Spaced = FALSE
    MaxDBFail = 0
    MaxCrash = 0
    MaxForeign = 0
CHECK_DEADLOCK FALSE
INVARIANTS
    AtMostOneExecutor
