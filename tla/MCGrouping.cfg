SPECIFICATION GSpec
CONSTANTS
  None = None
  Nodes <- MCNodes
  Dags <- MCDags
  Requests <- MCRequests
  RoleLists <- AllLists
  Order = "ascending"
INVARIANTS
  SupportedIsPlanned
  NodesInOneGroup
  PlansAreWellFormed
  InputsAreProduced
  OutputsAreComputed
CHECK_DEADLOCK FALSE
