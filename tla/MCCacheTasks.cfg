SPECIFICATION CaSpec
CONSTANTS
    LastRun = 2
    Task <- PairTask
    Node <- PairNode
    InputNode <- PairInput
    Deps <- PairDeps
    TaskNode <- PairTaskNode
    Behavior <- PairBehavior
    Code <- PairCode
    Given <- PairGiven
    Saver = {}
    Impure = {"z"}
    Unpicklable = {}
    OnDisk = TRUE
    Workers = 1
    Overlap = TRUE
    DeleteAnytime = FALSE
    MaxWorld = 1
    MaxCrashes = 1
    MaxDeletes = 1
    NoTask = NoTask
    None = None
INVARIANT RightResults
INVARIANT StoresAreSound
PROPERTY OnlyMissesAreComputed
CHECK_DEADLOCK FALSE
