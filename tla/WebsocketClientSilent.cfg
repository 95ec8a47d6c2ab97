SPECIFICATION FairSpec
CONSTANTS
    Senders = {x1}
    MaxAttempts = 2
    MaxSockets = 3
    MaxReads = 2
PROPERTY
    SilentIsReplaced
CHECK_DEADLOCK FALSE
