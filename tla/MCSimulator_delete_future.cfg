SPECIFICATION Spec
CONSTANTS
  PlainTick = plain
  CustomTick = {custom}
  Machine <- FreeMachine
  ResetState <- FreeReset
  Apply <- FreeApply
  SnapshotInterval = 1
  MaxSteps = 3
  ClearAnywhere = TRUE
INVARIANT TimeTravel
