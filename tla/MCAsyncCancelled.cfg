SPECIFICATION ADSpec
CONSTANTS
    N = 3
    Graphs <- AllGraphs
INVARIANT ToldTheTruth
CHECK_DEADLOCK FALSE
