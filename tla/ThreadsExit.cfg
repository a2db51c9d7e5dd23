\* The run that refutes StopAlwaysReturns.
CONSTANTS
  Threads = {main, t1}
  Main = main
  Null = Null
SPECIFICATION FairSpec
PROPERTY StopAlwaysReturns
CHECK_DEADLOCK FALSE
