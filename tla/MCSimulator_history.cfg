SPECIFICATION FairSpec
CONSTANTS
  PlainTick = plain
  CustomTick = {custom}
  Machine <- FreeMachine
  ResetState <- FreeReset
  Apply <- FreeApply
  SnapshotInterval = 2
  MaxSteps = 5
  ClearAnywhere = FALSE
INVARIANTS TypeOK TimeTravel Replayable SnapshotOrder
PROPERTIES ImplementsTimeline TravelLosesNothing ScanContract CallsReturn
