\* A fresh task, one client at a time, two attempts, any process may die: without symmetry.
CONSTANTS
    Workers = {w1, w2}
    Clients = {c1}
    None = None
    MaxRevision = 3
    ClientsDie = TRUE
SPECIFICATION FairSpec
PROPERTIES Settles CancelledStops
CHECK_DEADLOCK FALSE
