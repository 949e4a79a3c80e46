SPECIFICATION CaSpec
CONSTANTS
    LastRun = 2
    Task <- ChainLevels
    Node <- ChainNode
    InputNode <- ChainInput
    Deps <- ChainDeps
    TaskNode <- LevelNode
    Behavior <- Twice
    Code <- SameCode
    Given <- SameGiven
    Saver = {}
    Impure = {}
    Unpicklable = {}
    OnDisk = TRUE
    Workers = 1
    Overlap = FALSE
    DeleteAnytime = FALSE
    MaxWorld = 0
    MaxCrashes = 0
    MaxDeletes = 0
    NoTask = NoTask
    None = None
INVARIANT VersionsAreKnown
CHECK_DEADLOCK FALSE
