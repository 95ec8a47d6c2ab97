SPECIFICATION Spec
CONSTANTS
    h1 = h1
    h2 = h2
    api1 = api1
    api2 = api2
    api = api
    web = web
    first = first
    again = again
    other = other
    d = d
    q = q
    Nothing = Nothing
    Handles = {h1, h2}
    Ids = {api1, api2}
    Names = {api, web}
    RegisterCalls = {first, again}
    DeregisterCalls = {}
    DiscoverCalls = {q}
    Handle <- MCHandle
    Id <- MCId
    Name <- MCRenamed
    Serial = TRUE
    TTL = 3
    Leaving = {}
    MaxFailures = 0
INVARIANT
    DiscoveredByName
CHECK_DEADLOCK FALSE
