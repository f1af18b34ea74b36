\* Two machines side by side.
SPECIFICATION Spec
CONSTANTS
  Machines = {m1, m2}
  Parallelism = 2
  Timeout = 2
  MaxResults = 1
  MaxFailures = 0
SYMMETRY AnyMachine
CHECK_DEADLOCK FALSE
PROPERTIES
  RunsToCompletion
