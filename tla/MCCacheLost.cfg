SPECIFICATION CaSpec
CONSTANTS
    LastRun = 1
    Task <- ItemsTask
    Node <- ItemsNode
    InputNode <- ItemsInput
    Deps <- ItemsDeps
    TaskNode <- ItemsTaskNode
    Behavior <- ItemsBehavior
    Code <- ItemsCode
    Given <- ItemsGiven
    Saver = {}
    Impure = {"p"}
    Unpicklable = {}
    OnDisk = TRUE
    Workers = 2
    Overlap = FALSE
    DeleteAnytime = FALSE
    MaxWorld = 1
    MaxCrashes = 0
    MaxDeletes = 0
    NoTask = NoTask
    None = None
INVARIANT StoresAreSound
CHECK_DEADLOCK FALSE
