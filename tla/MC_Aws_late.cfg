\* Nothing fails.
SPECIFICATION Spec
CONSTANTS
  Configs <- FullConfig
  Resources <- AwsResources
  Storage = "Bucket"
  Group = "AutoScalingGroup"
  Needs <- AwsNeeds
  Blind <- AwsBlind
  Trusting = {}
  Bounded <- AwsBounded
  CreateSteps <- CreateProgram
  ReadSteps <- ReadProgram
  DeleteSteps <- DeleteProgram
  Parallelism = 1
  MaxResults = 1
  MaxFailures = 0
  MaxCrashes = 0
PROPERTIES
  NothingUploadedIsLost
