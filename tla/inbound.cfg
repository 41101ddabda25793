SPECIFICATION Spec
CONSTANTS
    Msgs = {m}
    Modes = {"wecom-ws", "wecom-http", "feishu-ws", "feishu-http"}
    Kinds = {"text", "blank", "reset", "image", "voice", "other", "stranger", "noid", "forged"}
    MaxDeliveries = 3
    MaxDeltas = 2
    MaxCrashes = 1
CHECK_DEADLOCK FALSE
INVARIANTS
    
    SecondChance
    StreamsEnd
