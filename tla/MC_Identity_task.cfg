SPECIFICATION Spec
CONSTANTS
  Tasks <- TwoTasks
  Names <- SomeNames
  nameLength = 2
  decimal <- Decimals
  Triggerers <- OnePerson
  MaxPipelines = 1
  MaxApplies = 3
INVARIANTS TypeOK KeepsIdentifier LeftoversFound IsReachable SharedByName
CHECK_DEADLOCK FALSE
