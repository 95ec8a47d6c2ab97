SPECIFICATION Spec
CONSTANTS
    db = db
    api = api
    Services = {db, api}
    DependsOn <- MCDependsOn
    Policy <- MCPolicy
    MaxRetries <- MCMaxRetries
    Delayed = {api}
    StartCalls = {c1}
    StopCalls = {z1}
    NoContext = NoContext
    Serial = TRUE
    CountBound = 3
PROPERTY
    WaitsForHealthyDependencies
CHECK_DEADLOCK FALSE
