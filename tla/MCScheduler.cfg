CONSTANTS
  main = main
  f1 = f1
  f2 = f2
  w1 = w1
  w2 = w2
  Fibers <- MCFibers
  Main = main
  Workers <- MCWorkers
  Channels = {c1}
  NoChannel = NoChannel
  NoWorker = NoWorker
  NoFiber = NoFiber
  MaxOps <- MCMaxOps
SPECIFICATION Spec
INVARIANTS TypeOK DetachedBeforeAttach OneWakeup OneSided ExactlyOnce FrameDiscipline
PROPERTY Promise
CHECK_DEADLOCK FALSE
