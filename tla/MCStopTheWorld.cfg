CONSTANTS
  main = main
  f1 = f1
  f2 = f2
  w1 = w1
  w2 = w2
  Fibers <- MCFibers
  Main = main
  Workers <- MCWorkers
  NoFiber = NoFiber
  Batch = 1
SPECIFICATION Spec
INVARIANTS TypeOK PauseExclusive AttachAsserts SnapshotComplete LocalMovesExcluded
PROPERTIES PausesHappen AttachProceeds ShutdownCompletes
CHECK_DEADLOCK FALSE
