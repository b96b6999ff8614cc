SPECIFICATION Spec
CONSTANTS
  Node = {a, b}
  Value = {3}
  Fee = 1
  Word = 8
  MaxOpen = 1
  WalletRepeats = FALSE
  Lossy = FALSE
  Mortal = {}
  None = None
INVARIANT OpenedIsKnownToPeer
CHECK_DEADLOCK FALSE
