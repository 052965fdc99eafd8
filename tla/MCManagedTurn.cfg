SPECIFICATION Spec
CONSTANTS
    MaxLines = 2
    Text <- Again
    Replies = 2
    Early = {1}
    MaxAttempts = 2
    QueueLimit = 3
    Fallback = TRUE
    MaxFaults = 2
INVARIANTS
    FallbackOnce
    AnswerOnce
    
    EndedWhenTold
CHECK_DEADLOCK FALSE
