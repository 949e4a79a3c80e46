SPECIFICATION CaSpec
CONSTANTS
    LastRun = 2
    Task <- ChainTask
    Node <- ChainNode
    InputNode <- ChainInput
    Deps <- ChainDeps
    TaskNode <- ChainTaskNode
    Behavior <- Twice
    Code <- SameCode
    Given <- SameGiven
    Saver = {}
    Impure = {}
    Unpicklable = {}
    OnDisk = TRUE
    Workers = 1
    Overlap = FALSE
    DeleteAnytime = FALSE
    MaxWorld = 0
    MaxCrashes = 1
    MaxDeletes = 0
    NoTask = NoTask
    None = None
INVARIANT LoadFailureIsMiss
CHECK_DEADLOCK FALSE
