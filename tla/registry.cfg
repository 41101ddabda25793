SPECIFICATION FairSpec
CONSTANTS
    Callers = {c1}
    MaxOps = 2
    Servers = {s}
    Names = {a}
    Channels = {ch}
CHECK_DEADLOCK FALSE
INVARIANTS
    
    OnePolicy
PROPERTIES
    AllReturn
