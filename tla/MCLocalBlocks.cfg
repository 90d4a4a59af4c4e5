CONSTANTS
  Workers = {w1, w2}
  Fibers = {f1, f2}
  Slots = 3
  None = None
SPECIFICATION Spec
INVARIANT UsedIsCount
CHECK_DEADLOCK FALSE
