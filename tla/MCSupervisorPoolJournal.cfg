SPECIFICATION Spec
CONSTANTS
    s1 = s1
    s2 = s2
    Shells = {s1, s2}
    Keys = {"k1", "k2"}
    Release <- Updated
    Limit = 2
    MaxStarts = 2
    MaxFaults = 0
INVARIANTS
    JournaledFirst
CHECK_DEADLOCK FALSE
