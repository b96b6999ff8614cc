SPECIFICATION SendPathSpec
CONSTANTS
  Node = {a, b}
  Value = {3}
  Fee = 1
  Word = 8
  MaxOpen = 3
  WalletRepeats = FALSE
  Lossy = FALSE
  Mortal = {}
  None = None
  Events = 1
  Window = 1
INVARIANT PendingIsAnswered
PROPERTY LockIsReleased
PROPERTY PendingIsAcked
PROPERTY FundingIsSeen
CHECK_DEADLOCK FALSE
