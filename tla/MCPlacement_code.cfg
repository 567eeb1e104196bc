\* Two registers for two operand stacks of two and a C of two.
SPECIFICATION Spec
CONSTANTS
  Values = {0, 1}
  Op <- LessThan
  MaxA = 2
  MaxB = 2
  MaxC = 2
  Arguments = 1
  MaxCalls = 1
  MaxCells = 3
  MaxResults = 2
  Registers = 2
  Quiet = Quiet
  Junk = Junk
CONSTRAINT Claimed
INVARIANTS InPlace
PROPERTIES StepsOfActivations
