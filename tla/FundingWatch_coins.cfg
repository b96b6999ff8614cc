SPECIFICATION FairSpec
CONSTANTS
  Channel = {c1, c2}
  Opener = n
  Peer = {p}
  Coin = {x, y}
  Legacy = {y}
  Amount = {1, 2}
  MaxFailure = 1
  None = None
INVARIANT TypeOK
INVARIANT NeverUnreachable
INVARIANT SidesAgree
INVARIANT MoneyIsThere
PROPERTY SeenByBoth
CHECK_DEADLOCK FALSE
