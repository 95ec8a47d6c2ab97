SPECIFICATION DeliverySpec
CONSTANTS
    Events = {e1}
    Copies = 1
    Subs = {p1, p2}
    MaxDeliver = 2
    MaxAttempts = 2
    MaxRestarts = 1
    Lossy = 1
INVARIANT AtLeastOnce
CHECK_DEADLOCK FALSE
