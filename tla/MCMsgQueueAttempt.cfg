CONSTANTS
  p1 = p1
  p2 = p2
  p3 = p3
  short = short
  full = full
  long = long
  Proc = {p1, p2}
  Object = {short}
  Size <- MCSize
  BlockSize = 2
  Capacity = 1
  None = None
  Garbled = Garbled
  MaxSends = 1
  MaxSignals = 0
SPECIFICATION FairSpec
PROPERTY AttemptEnds
CHECK_DEADLOCK FALSE
