SPECIFICATION GSpec
CONSTANTS
  None = None
  Nodes <- MCNodes
  Dags <- MCDags
  Requests <- MCRequests
  RoleLists <- Sequence
  Order = "ascending"
INVARIANT GroupsAreUnique
CHECK_DEADLOCK FALSE
