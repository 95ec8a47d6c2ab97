SPECIFICATION FairSpec
CONSTANTS
    db = db
    api = api
    Services = {db, api}
    DependsOn <- MCDependsOn
    Policy <- MCPolicy
    MaxRetries <- MCTwoRetries
    Delayed = {api}
    StartCalls = {c1, c2}
    StopCalls = {z1, z2}
    NoContext = NoContext
    Serial = TRUE
    CountBound = 4
INVARIANTS
    OnlyCurrentContextLive
    StartsAfterDependencies
    NoMonitorAfterStop
    NeverRestartedAreStopped
    RestartBudget
    DependentsStopFirst
    RunningFlagsAgree
PROPERTIES
    CallsReturn
    FailedIsRestarted
CHECK_DEADLOCK FALSE
