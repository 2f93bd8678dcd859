SPECIFICATION Spec
CONSTANTS
  Val = {a, b}
  Null = Null
  Hdr = Hdr
  MinListSlots = 1
  MaxSize = 3
  Block = {b1, b2, b3}
  EmptyConcat = TRUE
INVARIANTS FoundAtEnds
