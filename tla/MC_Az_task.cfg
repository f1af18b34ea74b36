\* Every configuration; two failures and a crash, and a user who keeps running terraform destroy.
SPECIFICATION FairSpec
CONSTANTS
  Configs <- AllConfigs
  Resources <- AzResources
  Storage = "BlobContainer"
  Group = "VirtualMachineScaleSet"
  Needs <- AzNeeds
  Blind = {}
  Trusting = {}
  Bounded <- AzBounded
  CreateSteps <- CreateProgram
  ReadSteps <- ReadProgram
  DeleteSteps <- DeleteProgram
  Parallelism = 1
  MaxResults = 1
  MaxFailures = 2
  MaxCrashes = 1
PROPERTIES
  ImplementsContract
  DestroyConverges
