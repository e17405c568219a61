SPECIFICATION Spec
CONSTANTS
  MaxPc = 1
  MVector = 0
  SVector = 0
  Lines <- McLines
  Sources <- McSources
  MaxWrites = 4
INVARIANTS TypeOK DataAccessAtOwnLevel TrapsAreAllowed ReturnRestores QuietAfterStep
PROPERTIES MachineStateGuarded
