CONSTANTS
  Programs <- Astray
  Width = 2
  PathLimit = 3
SPECIFICATION Spec
INVARIANTS SameProgram
CHECK_DEADLOCK FALSE
