SPECIFICATION FairSpec
CONSTANTS
    orders = orders
    fills = fills
    p1 = p1
    p2 = p2
    p3 = p3
    nested = nested
    s1 = s1
    s2 = s2
    Nobody = Nobody
    PublishCalls = {p1, p2, p3, nested}
    SubscribeCalls = {s1}
    CloseCalls = {z1}
    Topics = {orders, fills}
    Topic <- MCChainTopic
    CalledBy <- MCChainCalledBy
    Follows <- MCAnyOrder
    Cancellable = {}
    Capacity = 1
PROPERTIES
    CallsReturn
CHECK_DEADLOCK FALSE
