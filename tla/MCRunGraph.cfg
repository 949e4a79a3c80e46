SPECIFICATION RGSpec
CONSTANTS
  url = url
  conf = conf
  expand = expand
  block = block
  collect = collect
  total = total
  count = count
  None = None
  BaseDeps <- PlanDeps
  Purpose <- PlanPurpose
  Spawner <- PlanSpawner
  CollectFrom <- PlanCollectFrom
  BaseTasks = {url, conf, expand, block, collect, total}
  CountReads = {}
  PlanIsSound = TRUE
  Requested = {total, url}
  MaxGroups = 3
  MaxTasks = 2
INVARIANTS
  ReturnsWholeResult
  NothingLeftRunning
  HeldIsTracked
  PoolLimit
PROPERTIES
  ESSpec
  ImplementsTaskGraph
  Termination
