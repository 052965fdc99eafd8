SPECIFICATION FairSpec
CONSTANTS
    Attempts = {w1, w2, f1}
    Detached = {w1, w2}
    Users = {u1, u2}
    None = none
INVARIANTS NeverBoth ExportsCurrent
PROPERTY HandoffTakenUp
