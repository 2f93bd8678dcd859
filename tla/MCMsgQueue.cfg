CONSTANTS
  p1 = p1
  p2 = p2
  p3 = p3
  short = short
  full = full
  long = long
  Proc = {p1, p2, p3}
  Object = {short, long}
  Size <- MCSize
  BlockSize = 2
  Capacity = 2
  None = None
  Garbled = Garbled
  MaxSends = 3
  MaxSignals = 1
SYMMETRY MCSymmetry
SPECIFICATION Spec
INVARIANTS TypeOK SemaphoresBalanced Framed
PROPERTIES NoSpuriousAbort ImplementsChannel
CHECK_DEADLOCK FALSE
