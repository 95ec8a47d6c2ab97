SPECIFICATION FairSpec
CONSTANTS
    orders = orders
    fills = fills
    p1 = p1
    p2 = p2
    p3 = p3
    nested = nested
    s1 = s1
    s2 = s2
    Nobody = Nobody
    PublishCalls = {p1, p2, p3}
    SubscribeCalls = {s1, s2}
    CloseCalls = {z1}
    Topics = {orders}
    Topic <- MCTopic
    CalledBy <- MCCalledBy
    Follows <- MCFollows
    Cancellable = {p2, s1}
    Capacity = 2
INVARIANTS
    NoSendOnClosed
    SentToAll
    PublishOrderKept
PROPERTIES
    AcceptedIsHandled
    CloseEndsHandlers
    CallsReturn
CHECK_DEADLOCK FALSE
