SPECIFICATION FairSpec
CONSTANTS
    MaxLines = 1
    Text <- Again
    Replies = 2
    Early = {1}
    MaxAttempts = 3
    QueueLimit = 3
    Fallback = TRUE
    MaxFaults = 4
PROPERTIES
    Returns
CHECK_DEADLOCK FALSE
