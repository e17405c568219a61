SPECIFICATION Spec
CONSTANTS
  Name = {a, b}
  Value = {1, 2}
  Size = {9}
  Buffer <- McBuffers
  PageSize = 2
  Layers = 2
  MaxCells = 9
  MaxCalls = 4
SYMMETRY Names
CHECK_DEADLOCK FALSE
INVARIANTS PagesExact RangesAgree
PROPERTY ImplementsArrays
