SPECIFICATION SortSpec
CONSTANTS
    Names = {a, b, c}
    MaxDeps = 2
INVARIANTS
    DependenciesFirst
    CycleExactlyReported
CHECK_DEADLOCK FALSE
