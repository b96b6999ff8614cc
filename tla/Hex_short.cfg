SPECIFICATION Spec
CONSTANTS
  Length = 2
  Text <- MCText
INVARIANT ParsesHex
CHECK_DEADLOCK FALSE
