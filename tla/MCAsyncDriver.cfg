SPECIFICATION ADSpec
CONSTANTS
    N = 3
    Graphs <- AllGraphs
INVARIANT GraphHookIsLast
PROPERTY EverythingEnds
PROPERTY ImplementsNodeRun
CHECK_DEADLOCK FALSE
