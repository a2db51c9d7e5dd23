CONSTANTS
  NodeCount = 5
  HeapSize = 3
  MaxRequest = 1
  Requests <- RequestSizes
SPECIFICATION Spec
INVARIANT FreshAfterSweep
CHECK_DEADLOCK FALSE
