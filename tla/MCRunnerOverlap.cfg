SPECIFICATION Spec
CONSTANTS
    db = db
    api = api
    Services = {db, api}
    DependsOn <- MCDependsOn
    Policy <- MCPolicy
    MaxRetries <- MCMaxRetries
    Delayed = {}
    StartCalls = {c1, c2}
    StopCalls = {z1}
    NoContext = NoContext
    Serial = FALSE
    CountBound = 3
INVARIANTS
    OnlyCurrentContextLive
    StartsAfterDependencies
    RestartBudget
SYMMETRY StartSymmetry
CHECK_DEADLOCK FALSE
