SPECIFICATION GdbSpec
CONSTANTS
  Pc <- McPc
  BootPc = 0
  Byte <- McByte
  Zero = "zero"
  Exec <- McExec
  PoweredDown <- McPoweredDown
  RxSize = 1
  BufSize = 3
  Batch = 2
  MaxTyped = 0
  GdbCommands <- GdbPlain
  UserCommands <- None
  Interrupts = TRUE
  MaxCommands = 4
INVARIANT HaltedTogether
CHECK_DEADLOCK FALSE
