SPECIFICATION Spec
CONSTANTS
  Peer = {p1, p2}
  Dialer = {p1}
  Garbler = {p1}
  Connect = {r1}
  MaxMessage = 2
  MaxIncoming = 0
  MaxSocket = 2
  None = None
INVARIANT TypeOK
INVARIANT SendNeverPanics
INVARIANT NoZombieEntry
INVARIANT ConnectingHasAttempt
INVARIANT InOrderOnSocket
INVARIANT NoRequestForgotten
PROPERTY ImplementsDelivery
CHECK_DEADLOCK FALSE
