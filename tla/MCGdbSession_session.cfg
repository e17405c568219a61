SPECIFICATION FairGdbSpec
CONSTANTS
  Pc <- McPc
  BootPc = 0
  Byte <- McByte
  Zero = "zero"
  Exec <- McExec
  PoweredDown <- McPoweredDown
  RxSize = 1
  BufSize = 3
  Batch = 2
  MaxTyped = 2
  GdbCommands <- GdbAll
  UserCommands <- UserAll
  Interrupts = TRUE
  MaxCommands = 3
INVARIANTS SessionOK StreamsExact
PROPERTIES BreaksStopRuns TravelKeepsFuture ServerReturns
CHECK_DEADLOCK FALSE
