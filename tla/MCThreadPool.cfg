SPECIFICATION TPSpec
CONSTANTS
    N = 3
    Graphs <- AllGraphs
    Callers = {c1, c2}
    MaxWorkers = 2
    Idle = Idle
INVARIANT NeverAllBlocked
PROPERTY EveryCallerEnds
PROPERTY ImplementsNodeRun
CHECK_DEADLOCK FALSE
