SPECIFICATION Spec
CONSTANTS
  Value = {v1, v2}
  MaxCells = 4
  MaxSlots = 2
  MaxSnaps = 2
  MaxGen = 1
INVARIANT TableExact
PROPERTY ImplementsStore
