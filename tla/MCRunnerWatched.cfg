SPECIFICATION Spec
CONSTANTS
    db = db
    api = api
    Services = {db, api}
    DependsOn <- MCDependsOn
    Policy <- MCWatchedDatabase
    MaxRetries <- MCDatabaseRetries
    Delayed = {}
    StartCalls = {c1, c2}
    StopCalls = {}
    NoContext = NoContext
    Serial = FALSE
    CountBound = 3
INVARIANTS
    OnlyCurrentContextLive
    StartsAfterDependencies
    RestartBudget
SYMMETRY StartSymmetry
CHECK_DEADLOCK FALSE
