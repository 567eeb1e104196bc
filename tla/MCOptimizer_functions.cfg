CONSTANTS
  Programs <- MCPrograms
  Width = 2
  PathLimit = 3
SPECIFICATION Spec
INVARIANTS SameUnlessAstray ArgumentsForeseen
PROPERTIES WorklistEnds
CHECK_DEADLOCK FALSE
