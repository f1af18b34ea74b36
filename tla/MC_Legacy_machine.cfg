SPECIFICATION FairSpec
CONSTANTS
  Configs <- AllConfigs
  MaxApplies = 2
  MaxFailures = 1
  MaxCrashes = 1
INVARIANTS TypeOK NothingForgotten
PROPERTIES RunnerIsReady DestroyConverges
CHECK_DEADLOCK FALSE
