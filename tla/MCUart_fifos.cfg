SPECIFICATION Spec
CONSTANTS
  Bytes = {0, 1}
  Zero = 0
  Depth = 3
  ResetItl = 2
  Triggers <- McTriggers
INVARIANTS TypeOK StatusCurrent
PROPERTIES ImplementsChannels
