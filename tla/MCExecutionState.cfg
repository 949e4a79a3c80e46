SPECIFICATION ESSpec
CONSTANTS
  url = url
  load = load
  expand = expand
  block = block
  collect = collect
  split = split
  part = part
  merge = merge
  total = total
  None = None
  BaseTasks <- Plan
  BaseDeps <- PlanDeps
  Purpose <- PlanPurpose
  Spawner <- PlanSpawner
  CollectFrom <- PlanCollectFrom
  MaxGroups = 2
INVARIANTS
  TypeOK
  QueueConsistent
  DependenciesFirst
  EnqueuesCompleteDependents
  InputsInCache
  CollectsEveryElement
  SuccessfulIsComplete
  NeverAllBlocked
PROPERTIES
  StatesAdvance
CHECK_DEADLOCK FALSE
