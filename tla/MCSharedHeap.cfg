CONSTANTS
  b1 = b1
  b2 = b2
  b3 = b3
  Blocks <- MCBlocks
  Capacity = 2
  WordSize = 2
  MaxLive = 2
  None = None
SPECIFICATION Spec
SYMMETRY Symmetry
CONSTRAINT Intact
INVARIANTS SweptAlone LiveKept MarksCleared NewHeadHasRoom
CHECK_DEADLOCK FALSE
