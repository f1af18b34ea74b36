\* Two failures and a crash, with the GCP step programs.
SPECIFICATION Spec
CONSTANTS
  Configs <- UploadConfigs
  Resources <- GcpResources
  Storage = "Bucket"
  Group = "InstanceGroupManager"
  Needs <- GcpNeeds
  Blind = {}
  Trusting <- GcpTrusting
  Bounded <- GcpBounded
  CreateSteps <- CreateProgram
  ReadSteps <- ReadProgram
  DeleteSteps <- DeleteProgram
  Parallelism = 1
  MaxResults = 1
  MaxFailures = 2
  MaxCrashes = 1
INVARIANTS
  NoOrphans
PROPERTIES
  AppliedIsComplete
