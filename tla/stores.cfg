SPECIFICATION StoresSpec
CONSTANTS
    Actors = {p1, p2}
    Editors = {p1, p2}
    DocKeys = {"k", "j"}
    Texts = {"t", "u"}
    Files <- Csv
    MaxDocs = 3
    MaxDocRequests = 4
    MaxDocFaults = 1
    DocLimit = 2
    Callers = {p1, p2}
    Users = {"u1", "u2"}
    Keepers = {"u2"}
    Keys = {"k", "K"}
    Alike <- AlikeKeys
    Contents = {"note", "rule"}
    Score <- Scores
    MaxMemories = 2
    MaxMemRequests = 3
    MatchLimit = 1
    SyncLimit = 2
    PromoteW2S = 1
    PromoteS2L = 2
    MaxMemFaults = 1
    Askers = {p1, p2}
    Owners = {"u1", "u2"}
    Names = {"n"}
    Metas = {m1, m2}
    Places = {"web"}
    Published <- OnWebOrNot
    Paths = {"f"}
    MaxSkills = 2
    MaxSkillRequests = 4
    Tasks = {p1, p2}
    Operations = {"o1", "o2", "o3"}
    Subjects = {"a", "b"}
    Documents <- Docs
    Prefixes <- Under
    MaxCaps = 4
    MaxCapRequests = 2
    MaxCapFaults = 1
    CapLimit = 1
    RecallLimit = 2
    Readers = {p1, p2}
    Parties <- Requesters
    Sizes = {8001}
    Settings <- Cuts
    Limits <- PageSizes
    MaxCalls = 2
    MaxRecFaults = 1
SYMMETRY ActorSymmetry
CHECK_DEADLOCK FALSE
INVARIANTS
    ImportedIsThere
    
    OnlyOwnShown
    ShownAreCandidates
    PreviewFits
    PagesAreTheWhole
PROPERTIES
    
    OnlyMissedOrTaggedGo
