SPECIFICATION FairSpec
CONSTANTS
    s1 = s1
    s2 = s2
    Shells = {s1, s2}
    Keys = {"k1", "k2"}
    Release <- Updated
    Limit = 1
    MaxStarts = 2
    MaxFaults = 2
INVARIANTS
    
    
    Matched
PROPERTIES
    Ensured
CHECK_DEADLOCK FALSE
