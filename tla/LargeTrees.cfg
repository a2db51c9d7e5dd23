CONSTANTS
  NodeCount = 4
  HeapSize = 6
  MaxRequest = 3
  Requests <- RequestSizes
SPECIFICATION Spec
\* Past the two defects the properties claim nothing.
CONSTRAINT Sound
INVARIANTS
  TypeOK
  LinksExact
  LookupExact
PROPERTY ImplementsHeap
\* Where a recursion of the code need not end, the model ends.
CHECK_DEADLOCK FALSE
