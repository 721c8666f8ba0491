\* Three threads over two buffers of one byte and one concatenation: disposals of a buffer overlap.
SPECIFICATION Spec
SYMMETRY MCSymmetry
CONSTANTS
  i1 = i1  i2 = i2  i3 = i3  b1 = b1  b2 = b2  m1 = m1
  UINT32_MAX = 2
  Instances = {i1, i2, i3}
  Buffers = {b1, b2}
  Multis = {m1}
  Content <- MCBytes
  Offsets = {1}
  Targets = {1}
  ReadSizes = {2}
  AnyCaller = TRUE
  Overlapping = {b1, b2}
  NoBlock = NoBlock
CHECK_DEADLOCK FALSE
INVARIANTS
  RefCounts
  NoReadAfterRelease
