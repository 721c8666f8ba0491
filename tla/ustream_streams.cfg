\* Two threads over two buffers and one concatenation, every position.
SPECIFICATION FairSpec
CONSTANTS
  i1 = i1  i2 = i2  i3 = i3  b1 = b1  b2 = b2  m1 = m1
  UINT32_MAX = 3
  Instances = {i1, i2}
  Buffers = {b1, b2}
  Multis = {m1}
  Content <- MCContent
  Offsets = {0}
  Targets = {0, 1}
  ReadSizes = {2}
  AnyCaller = FALSE
  Overlapping = {}
  NoBlock = NoBlock
CHECK_DEADLOCK FALSE
INVARIANTS
  TypeOK
  ReleasedOnce
PROPERTIES
  StreamSpec
  DataIsReleased
