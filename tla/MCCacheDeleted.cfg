SPECIFICATION CaSpec
CONSTANTS
    LastRun = 2
    Task <- ChainTask
    Node <- ChainNode
    InputNode <- ChainInput
    Deps <- ChainDeps
    TaskNode <- ChainTaskNode
    Behavior <- Twice
    Code <- SameCode
    Given <- SameGiven
    Saver = {}
    Impure = {}
    Unpicklable = {}
    OnDisk = TRUE
    Workers = 1
    Overlap = FALSE
    DeleteAnytime = TRUE
    MaxWorld = 0
    MaxCrashes = 0
    MaxDeletes = 1
    NoTask = NoTask
    None = None
INVARIANT RightResults
CHECK_DEADLOCK FALSE
