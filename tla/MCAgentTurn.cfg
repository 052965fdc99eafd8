SPECIFICATION Spec
CONSTANTS
    MaxCalls = 3
    MaxAttempts = 2
    Actions = {"gated", "free"}
    Gated = {"gated"}
    Requestable = {"free"}
    MaxTools = 2
    Followups = {"f1"}
    MaxEdits = 1
INVARIANTS
    Licensed
    EffectsOnRecord
    HeardOnce
    
PROPERTY DeniedStands
CHECK_DEADLOCK FALSE
