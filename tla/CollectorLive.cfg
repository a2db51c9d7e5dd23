\* The run that refutes IntactWhateverIsSet.
CONSTANTS
  Threads = {t1}
  Blocks = {b1}
  Sizes = {s1}
  SlotsPerBlock = 2
  Slots <- SlotsOf
  TailSizes = {}
  NoBlock = NoBlock
  NoSize = NoSize
  Fields = 1
SPECIFICATION CollectorSpec
INVARIANT IntactWhateverIsSet
