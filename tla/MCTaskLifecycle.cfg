\* A fresh task, one client at a time, three attempts, any process may die.
CONSTANTS
    Workers = {w1, w2, w3}
    Clients = {c1}
    None = None
    MaxRevision = 2
    ClientsDie = TRUE
SPECIFICATION Spec
INVARIANTS OneExecutor RevisionNamesOutcome AppliedNeverRuns
PROPERTIES OutcomeStands
SYMMETRY Attempts
\* A finished, discarded or exhausted task rests with nobody acting on it.
CHECK_DEADLOCK FALSE
