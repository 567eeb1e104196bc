\* The same instance, of which only stores and array accesses are excused.
SPECIFICATION Spec
CONSTANTS
  Values = {0, 1}
  Op <- LessThan
  MaxA = 2
  MaxB = 2
  MaxC = 2
  Arguments = 1
  MaxCalls = 1
  MaxCells = 3
  MaxResults = 2
  Registers = 2
  Quiet = Quiet
  Junk = Junk
PROPERTIES ResultsSurvive
