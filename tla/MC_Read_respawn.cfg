SPECIFICATION Spec
CONSTANTS
  N = 2
  Parallelism = 1
  MaxLines = 2
  MaxLosses = 1
  MaxFailures = 0
INVARIANTS NeverPanics
CHECK_DEADLOCK FALSE
