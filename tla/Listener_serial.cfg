SPECIFICATION FairSpec
CONSTANTS
  Lindy = {a}
  Stranger = {s}
  Garbler = {g}
  KeyLength = 2
  MaxLine = 2
  None = None
INVARIANT TypeOK
INVARIANT LinesIntact
INVARIANT NeverDropped
PROPERTY ServedUnlessHeldUp
CHECK_DEADLOCK FALSE
