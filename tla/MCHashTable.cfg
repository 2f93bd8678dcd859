SPECIFICATION Spec
CONSTANTS
  HSlots = 2
  HSegs = 3
  MinHLoad = 1
  MaxHLoad = 0
  Hash = {0, 2, 3, 4}
  MaxElem = 4
  End = End
INVARIANTS TypeOK LookupExact
PROPERTIES GeneratesAll GeneratesOnce
