CONSTANTS
  Threads = {t1, t2}
  Blocks = {b1, b2}
  Sizes = {s1, s2}
  PairSize = s1
  Slots <- SlotsOf
  TailSizes = {}
  NoBlock = NoBlock
  NoSize = NoSize
SPECIFICATION FairSpec
INVARIANTS
  TypeOK
  NoSharing
  InsideBlock
  FreshUnlessZeroed
  NoSlotLost
PROPERTY AttemptEnds
