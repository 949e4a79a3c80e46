SPECIFICATION CaSpec
CONSTANTS
    LastRun = 2
    Task <- ChainTask
    Node <- ChainNode
    InputNode <- ChainInput
    Deps <- ChainDeps
    TaskNode <- ChainTaskNode
    Behavior <- IgnoreA
    Code <- SameCode
    Given <- SameGiven
    Saver = {}
    Impure = {}
    Unpicklable = {"a"}
    OnDisk = TRUE
    Workers = 1
    Overlap = FALSE
    DeleteAnytime = FALSE
    MaxWorld = 0
    MaxCrashes = 0
    MaxDeletes = 0
    NoTask = NoTask
    None = None
INVARIANT IgnoredLeaveNothing
CHECK_DEADLOCK FALSE
