SPECIFICATION CaSpec
CONSTANTS
    LastRun = 3
    Task <- ChainTask
    Node <- ChainNode
    InputNode <- ChainInput
    Deps <- ChainDeps
    TaskNode <- ChainTaskNode
    Behavior <- EditBehavior
    Code <- ThreeCode
    Given <- LaterInput
    Saver = {"b"}
    Impure = {}
    Unpicklable = {}
    OnDisk = TRUE
    Workers = 1
    Overlap = FALSE
    DeleteAnytime = FALSE
    MaxWorld = 0
    MaxCrashes = 0
    MaxDeletes = 0
    NoTask = NoTask
    None = None
INVARIANT RightResults
CHECK_DEADLOCK FALSE
