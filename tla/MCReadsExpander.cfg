SPECIFICATION RGSpec
CONSTANTS
  url = url
  conf = conf
  expand = expand
  block = block
  collect = collect
  total = total
  count = count
  None = None
  BaseDeps <- PlanDeps
  Purpose <- PlanPurpose
  Spawner <- PlanSpawner
  CollectFrom <- PlanCollectFrom
  BaseTasks = {url, conf, expand, block, collect, count}
  CountReads = {expand}
  PlanIsSound = FALSE
  Requested = {collect, count}
  MaxGroups = 2
  MaxTasks = 2
INVARIANTS
  EnqueuesCompleteDependents
