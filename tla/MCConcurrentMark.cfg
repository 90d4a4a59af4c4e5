CONSTANTS
  f1 = f1
  f2 = f2
  a1 = a1
  b1 = b1
  c1 = c1
  Null = Null
  Fibers <- MCFibers
  Atoms = {a1}
  Boxes = {b1}
  Chans = {c1}
  Globals <- AtomOnly
  InitSlot <- ChannelInAtom
SPECIFICATION Spec
SYMMETRY Symmetry
CONSTRAINT Intact
INVARIANTS OnlyTakenDangles ProtectedButTaken
CHECK_DEADLOCK FALSE
