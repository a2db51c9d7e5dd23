\* One thread, two size classes: the run that refutes FreshMemory.
CONSTANTS
  Threads = {t1}
  Blocks = {b1, b2}
  Sizes = {s1, s2}
  PairSize = s1
  Slots <- SlotsOf
  TailSizes = {}
  NoBlock = NoBlock
  NoSize = NoSize
SPECIFICATION Spec
INVARIANT FreshMemory
