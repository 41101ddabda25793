SPECIFICATION Spec
CONSTANTS
    Deliveries = {m1, m2, m3}
    Keys = {"kw", "kc"}
    Digests = {"d1", "d2"}
    Owners = {"u1", "u2"}
    Requests <- AllRequests
    NoKey = NoKey
    Anonymous = Anonymous
    NoOne = NoOne
    Spaced = TRUE
    MaxDBFail = 1
    MaxCrash = 1
    MaxForeign = 1
CHECK_DEADLOCK FALSE
SYMMETRY DeliverySymmetry
INVARIANTS
    ReplayIsGenuine
    EffectsRepeatOnlyAfterFailure
    UnfinishedHasCause
PROPERTIES
    ImplementsClaim
