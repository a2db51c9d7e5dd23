CONSTANTS
  Threads = {main, t1, t2}
  Main = main
  Null = Null
SPECIFICATION FairSpec
INVARIANTS
  TypeOK
  RegistryExact
  KnownTargets
  EveryoneStopped
  ScanIsSafe
  EveryoneScanned
  StopGetsOn
PROPERTY StopReturns
\* The barrier of stop_the_world() may never open (ThreadsExit.cfg).
CHECK_DEADLOCK FALSE
