SPECIFICATION FairSpec
CONSTANTS
  Peer = {p1}
  Dialer = {p1}
  Garbler = {}
  Connect = {r1}
  MaxMessage = 1
  MaxIncoming = 0
  MaxSocket = 2
  None = None
PROPERTY EveryRequestAnswered
PROPERTY BrokenIsForgotten
CHECK_DEADLOCK FALSE
