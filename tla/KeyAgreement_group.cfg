SPECIFICATION Spec
CONSTANTS
  Node = {a, b}
  Q = 11
  EvenY <- MCEvenY
  Streams <- MCStreams
  None = None
INVARIANT KeyIsKnown
INVARIANT SameKeys
INVARIANT OwnKeySigns
CHECK_DEADLOCK FALSE
