SPECIFICATION CaSpec
CONSTANTS
    LastRun = 1
    Task <- ItemsTask
    Node <- ItemsNode
    InputNode <- ItemsInput
    Deps <- ItemsDeps
    TaskNode <- ItemsTaskNode
    Behavior <- ItemsBehavior
    Code <- ItemsCode
    Given <- ItemsGiven
    Saver = {}
    Impure = {}
    Unpicklable = {}
    OnDisk = TRUE
    Workers = 2
    Overlap = FALSE
    DeleteAnytime = FALSE
    MaxWorld = 0
    MaxCrashes = 0
    MaxDeletes = 0
    NoTask = NoTask
    None = None
INVARIANT AlwaysVersioned
CHECK_DEADLOCK FALSE
