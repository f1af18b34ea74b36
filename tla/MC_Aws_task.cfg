\* Every configuration; two failures and a crash: an apply, its clean-up and a destroy may all go wrong.
SPECIFICATION Spec
CONSTANTS
  Configs <- AllConfigs
  Resources <- AwsResources
  Storage = "Bucket"
  Group = "AutoScalingGroup"
  Needs <- AwsNeeds
  Blind <- AwsBlind
  Trusting = {}
  Bounded <- AwsBounded
  CreateSteps <- CreateProgram
  ReadSteps <- ReadProgram
  DeleteSteps <- DeleteProgram
  Parallelism = 1
  MaxResults = 1
  MaxFailures = 2
  MaxCrashes = 1
INVARIANTS
  TypeOK
  NoOrphans
  DependencyClosed
  MachinesHaveStorage
  PulledBeforeErased
PROPERTIES
  BootsAfterUpload
  AppliedIsComplete
