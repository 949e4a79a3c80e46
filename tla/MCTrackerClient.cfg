SPECIFICATION TCSpec
CONSTANTS
  main_thread = main_thread
  pool_thread = pool_thread
  run1 = run1
  run2 = run2
  None = None
  Main = main_thread
  Producers <- Threads
  Updates <- UpdatesOf
  RunOf <- RunOfThread
  MainUpdates = 2
  PoolUpdates = 2
  MaxBatch = 2
INVARIANTS
  InOrder
  OnlyStopLoses
  ExitDelivers
PROPERTIES
  EventuallyDelivered
  ProcessExits
