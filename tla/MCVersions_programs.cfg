\* Every program of six instructions of the given kinds, three versions a block.
SPECIFICATION Spec
CONSTANTS
  Programs <- Small
  Limit = 3
  Registers = 2
INVARIANTS JumpsAccepted WithinLimit RefusedForRecursion LoopsForget PublishedWhole RoomProvenUnlessGeneric
CHECK_DEADLOCK FALSE
