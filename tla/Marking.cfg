\* All heaps of three objects, two root segments, any stale bits.
CONSTANTS
  Objects = {1, 2, 3}
  SegmentCount = 2
SPECIFICATION OrderedFairSpec
INVARIANTS
  TypeOK
  MarkExact
  PushedOnce
PROPERTIES
  WorkFalls
  MarkTerminates
\* mark() ends.
CHECK_DEADLOCK FALSE
