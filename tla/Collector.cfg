CONSTANTS
  Threads = {t1}
  Blocks = {b1}
  Sizes = {s1}
  SlotsPerBlock = 3
  Slots <- SlotsOf
  TailSizes = {s1}
  NoBlock = NoBlock
  NoSize = NoSize
  Fields = 1
SPECIFICATION CollectorSpec
INVARIANTS
  CollectorTypeOK
  Intact
