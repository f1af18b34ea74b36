\* One machine at a time; a transfer or a leo stop fails, and the script may run forever.
SPECIFICATION FairSpec
CONSTANTS
  Machines = {m1, m2}
  Parallelism = 1
  Timeout = 2
  MaxResults = 2
  MaxFailures = 1
CHECK_DEADLOCK FALSE
INVARIANTS
  TypeOK
  StoppedIsReported
  OneLogPerMachine
PROPERTIES
  ResultsStay
  RunsToCompletion
  EndsOrIdles
