CONSTANTS
  Addresses <- MCAddresses
  Ids <- MCIds
  MaxRoots = 2
  MaxKids = 2
  MaxShared = 0
  Threshold = 1
  None = None
SPECIFICATION Spec
INVARIANT GraphKept
CHECK_DEADLOCK FALSE
