\* One function of four instructions with branches and loops, of six over the
\* cells and blocks of C, of six over bytes, addresses, floats and foreign code;
\* and callers of six instructions with a callee of four.
SPECIFICATION FairSpec
CONSTANTS
  Programs <- Everything
  Externs <- Foreign
  Capacity = 4
INVARIANTS NeverWild ShapeRight WithinLimits ResultsAsDeclared
PROPERTIES VerdictReached
CHECK_DEADLOCK FALSE
