CONSTANTS
  Threads = {t1, t2}
  Service = Service
  Nobody = Nobody
  Room = 1
  SpuriousWakeups = TRUE
SPECIFICATION FairSpec
INVARIANTS
  TypeOK
  WorldStopped
  HandlerOutsideAllocation
  RetryAfterCollection
  NoDeadlock
PROPERTIES
  CollectsOnDemand
  CollectionCompletes
  SomeCallReturns
\* A thread that start_the_world() overtakes stops everything (WorldRestart.cfg).
CHECK_DEADLOCK FALSE
