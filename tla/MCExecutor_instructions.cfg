SPECIFICATION Spec
CONSTANTS
  ByteBits = 1
  Registers = {0, 1, 2}
  Region <- MCRegion
  Image <- MCImage
  Vector = 8
  Operands <- MCOperands
  Imms <- MCImms
INVARIANTS TypeOK ArithmeticRight MemoryRight Precise
