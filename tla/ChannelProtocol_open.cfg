SPECIFICATION Spec
CONSTANTS
  Node = {a, b}
  Value = {1, 5}
  Fee = 2
  Word = 8
  MaxOpen = 2
  WalletRepeats = FALSE
  Lossy = TRUE
  Mortal = {a, b}
  None = None
INVARIANT TypeOK
INVARIANT ClosesValidly
INVARIANT FundsRecoverable
INVARIANT FundedIsShared
INVARIANT WatchedUntilFunded
PROPERTY NeverBack
PROPERTY ImplementsLifecycle
CHECK_DEADLOCK FALSE
