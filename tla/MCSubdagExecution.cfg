SPECIFICATION SESpec
CONSTANTS
    N = 4
    Requests <- AllRequests
INVARIANT ComputesWhatIsAsked
INVARIANT ArgumentsAreWhole
PROPERTY ImplementsNodeRun
CHECK_DEADLOCK FALSE
