SPECIFICATION RGSpec
CONSTANTS
  url = url
  conf = conf
  expand = expand
  block = block
  collect = collect
  total = total
  count = count
  None = None
  BaseDeps <- PlanDeps
  Purpose <- PlanPurpose
  Spawner <- PlanSpawner
  CollectFrom <- PlanCollectFrom
  BaseTasks = {}
  CountReads = {}
  PlanIsSound = TRUE
  Requested = {}
  MaxGroups = 2
  MaxTasks = 2
PROPERTIES
  Termination
