SPECIFICATION Spec
CONSTANTS
    N = 3
    DependsOn <- Chain
    MaxParallel = 1
    Seconds = {1}
    NoCommit = NoCommit
    Outcomes = {"Completed", "Waiting", "Failed"}
    MaxEdits = 1
    MaxFaults = 1
    MaxSpawned = 1
INVARIANTS
    SlotsKept
    
PROPERTIES
    CancelledStartsNothing
    StatusSettles
CHECK_DEADLOCK FALSE
