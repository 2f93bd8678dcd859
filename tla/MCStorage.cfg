CONSTANTS
  BlockSize = 16
  StringSize = 3
  MaxRegions = 2
  MinAbrSize = 4
  memcushion = 50
  memgrowth = 60
  Frames = {1, 2, 3}
  FrameVars = {1, 2}
  Id = {1, 2, 3, 4, 5, 6}
  Allocations = 4
  Operations = 6
SPECIFICATION Spec
PROPERTY ImplementsHeap
CHECK_DEADLOCK FALSE
