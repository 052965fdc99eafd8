SPECIFICATION FairSpec
CONSTANTS
    Places = {"root", "sub"}
    Within <- Nested
    MaxLines = 2
    MaxAbandons = 1
INVARIANTS
    CancelledAsTold
    Aligned
    AuthorityTyped
PROPERTIES
    Answered
    
