SPECIFICATION Spec
CONSTANTS
  Peer = {p1}
  Dialer = {}
  Garbler = {}
  Connect = {r1}
  MaxMessage = 3
  MaxIncoming = 1
  MaxSocket = 3
  None = None
INVARIANT SenderNeverDropped
INVARIANT WrittenInOrder
PROPERTY LiveConnectionKept
CHECK_DEADLOCK FALSE
