CONSTANTS
  NodeCount = 3
  HeapSize = 5
  MaxRequest = 3
  Requests <- RequestSizes
SPECIFICATION ReallocSpec
INVARIANTS
  ReallocTypeOK
  SearchFinds
  CopyStaysInside
  HeapPartitioned
  
  LookupFinds
PROPERTY SearchEnds
\* Where a defect strikes, the model ends.
CHECK_DEADLOCK FALSE
