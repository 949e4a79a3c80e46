SPECIFICATION CaSpec
CONSTANTS
    LastRun = 3
    Task <- ChainTask
    Node <- ChainNode
    InputNode <- ChainInput
    Deps <- ChainDeps
    TaskNode <- ChainTaskNode
    Behavior <- RefreshTwice
    Code <- ThreeCode
    Given <- ThreeSame
    Saver = {}
    Impure = {"a"}
    Unpicklable = {}
    OnDisk = TRUE
    Workers = 1
    Overlap = FALSE
    DeleteAnytime = FALSE
    MaxWorld = 2
    MaxCrashes = 0
    MaxDeletes = 0
    NoTask = NoTask
    None = None
INVARIANT NeverGoesBack
CHECK_DEADLOCK FALSE
