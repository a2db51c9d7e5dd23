\* The run that refutes ThreadsGoOn.
CONSTANTS
  Threads = {t1, t2}
  Service = Service
  Nobody = Nobody
  Room = 1
  SpuriousWakeups = FALSE
SPECIFICATION FairSpec
PROPERTY ThreadsGoOn
CHECK_DEADLOCK FALSE
