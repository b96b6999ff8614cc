SPECIFICATION Spec
CONSTANTS
  Node = {a, b}
  Value = {3}
  Fee = 2
  Word = 8
  MaxOpen = 3
  WalletRepeats = TRUE
  Lossy = TRUE
  Mortal = {}
  None = None
INVARIANT ClosesValidly
INVARIANT FundedIsShared
INVARIANT LiveIsFunded
INVARIANT RetryKeepsRefund
CHECK_DEADLOCK FALSE
