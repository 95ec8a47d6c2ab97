SPECIFICATION FairSpec
CONSTANTS
    Senders = {x1}
    MaxAttempts = 2
    MaxSockets = 3
    MaxReads = 1
INVARIANTS
    NoSocketLeak
    ClosedForGood
PROPERTIES
    BrokenIsReplaced
    ConnCloseReturns
CHECK_DEADLOCK FALSE
