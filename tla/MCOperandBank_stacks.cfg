\* A and B share two registers, C has one and lies partly in memory.
SPECIFICATION Spec
CONSTANTS
  Values = {0, 1}
  Op <- LessThan
  MaxA = 2
  MaxB = 2
  MaxC = 2
  Registers = 2
  CRegisters = 1
  Zero = 0
INVARIANTS TypeOK
PROPERTIES ImplementsStacks
