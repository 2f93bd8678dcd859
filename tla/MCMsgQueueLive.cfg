CONSTANTS
  p1 = p1
  p2 = p2
  p3 = p3
  short = short
  full = full
  long = long
  Proc = {p1, p2}
  Object = {full, long}
  Size <- MCSize
  BlockSize = 2
  Capacity = 1
  None = None
  Garbled = Garbled
  MaxSends = 3
  MaxSignals = 0
SPECIFICATION FairSpec
PROPERTY TransferCompletes
CHECK_DEADLOCK FALSE
