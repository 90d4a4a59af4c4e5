CONSTANTS
  Streams <- MCStreams
  MaxRead = 3
  c1 = c1
  c2 = c2
  Connections = {c1, c2}
  Acceptors = {f1}
  Scripts <- MCScripts
  InOrder = TRUE
SPECIFICATION HttpSpec
INVARIANTS SplitsDoNotMatter KeepAliveAsAsked BuffersAccounted HeadersAreTheRequests OnlyKnownCrashes
PROPERTY RequestsAnswered
CHECK_DEADLOCK FALSE
