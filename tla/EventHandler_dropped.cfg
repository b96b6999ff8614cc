SPECIFICATION Spec
CONSTANTS
  Peer = {p1}
  Dialer = {p1}
  Garbler = {}
  Connect = {}
  MaxMessage = 2
  MaxIncoming = 0
  MaxSocket = 2
  None = None
INVARIANT SenderNeverDropped
CHECK_DEADLOCK FALSE
