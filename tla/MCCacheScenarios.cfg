SPECIFICATION ScSpec
CONSTANTS
    LastRun = 3
    Task <- ChainTask
    Node <- ChainNode
    InputNode <- ChainInput
    Deps <- ChainDeps
    TaskNode <- ChainTaskNode
    Behavior <- MixedBehavior
    Code <- ThreeCode
    Given <- LaterInput
    Saver = {}
    Impure = {}
    Unpicklable = {}
    OnDisk = TRUE
    Workers = 1
    Overlap = TRUE
    DeleteAnytime = FALSE
    MaxWorld = 0
    MaxCrashes = 1
    MaxDeletes = 0
    NoTask = NoTask
    None = None
INVARIANT EachHistoryIsRight
PROPERTY BlocksSucceed
CHECK_DEADLOCK FALSE
