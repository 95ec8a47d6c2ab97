SPECIFICATION FairSpec
CONSTANTS
    h1 = h1
    h2 = h2
    api1 = api1
    api2 = api2
    api = api
    web = web
    first = first
    again = again
    other = other
    d = d
    q = q
    Nothing = Nothing
    Handles = {h1, h2}
    Ids = {api1, api2}
    Names = {api}
    RegisterCalls = {first, other}
    DeregisterCalls = {d}
    DiscoverCalls = {q}
    Handle <- MCHandle
    Id <- MCId
    Name <- MCName
    Serial = FALSE
    TTL = 3
    Leaving = {h1}
    MaxFailures = 1
INVARIANTS
    RegisteredStaysListed
    DeregisteredIsGone
    DiscoverComplete
PROPERTIES
    DeadIsForgotten
CHECK_DEADLOCK FALSE
