SPECIFICATION FairSpec
CONSTANTS
  N = 2
  Parallelism = 1
  MaxLines = 2
  MaxLosses = 1
  MaxFailures = 1
INVARIANTS TypeOK ExitIsVerdict PrintsAll PrintsOnce
PROPERTIES FollowEnds
CHECK_DEADLOCK FALSE
