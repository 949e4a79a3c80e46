SPECIFICATION CaSpec
CONSTANTS
    LastRun = 2
    Task <- ChainTask
    Node <- ChainNode
    InputNode <- ChainInput
    Deps <- ChainDeps
    TaskNode <- ChainTaskNode
    Behavior <- OptIn
    Code <- SameCode
    Given <- SameGiven
    Saver = {}
    Impure = {}
    Unpicklable = {}
    OnDisk = TRUE
    Workers = 1
    Overlap = FALSE
    DeleteAnytime = FALSE
    MaxWorld = 0
    MaxCrashes = 0
    MaxDeletes = 0
    NoTask = NoTask
    None = None
INVARIANT NoWastedWork
CHECK_DEADLOCK FALSE
