SPECIFICATION Spec
CONSTANTS
    Turns = {t1, t2, t3}
    Prompts = {p}
    NoText = NoText
    WebConv = web
    MaxHistory = 1
    MaxTokens = 2
    MaxOverlap = 2
    MaxFaults = 1
    MaxResets = 1
    MaxExpiries = 1
SYMMETRY Symmetry
CHECK_DEADLOCK FALSE
INVARIANTS
    ResetForgets
    

    
