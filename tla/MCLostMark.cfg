CONSTANTS
  b1 = b1
  b2 = b2
  b3 = b3
  Blocks <- MCBlocks
  Capacity = 2
  WordSize = 2
  MaxLive = 2
  None = None
SPECIFICATION Spec
SYMMETRY Symmetry
INVARIANT OnlyGarbageFreed
CHECK_DEADLOCK FALSE
