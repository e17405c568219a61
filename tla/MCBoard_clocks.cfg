SPECIFICATION FairSpec
CONSTANT Base = 2
INVARIANTS TypeOK TimerLine
PROPERTIES ImplementsClocks TimerFires
