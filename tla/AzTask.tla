-------------------------------- MODULE AzTask --------------------------------
(***************************************************************************)
(* task/az: the resources of a task on Microsoft Azure and the step        *)
(* programs of its Create, Read and Delete methods, as constants for       *)
(* TaskLifecycle, with the configurations of AwsTask.                      *)
(***************************************************************************)
EXTENDS TaskSteps

AzResources ==
  {"ResourceGroup", "StorageAccount", "BlobContainer", "VirtualNetwork",
   "SecurityGroup", "Subnet", "VirtualMachineScaleSet"}

\* The Dependencies struct of each resource; Credentials, which the machines'
\* custom data embeds, hold the account's key and the name of the container.
AzNeeds ==
  [r \in AzResources |->
     CASE r = "ResourceGroup"  -> {}
       [] r = "BlobContainer"  -> {"ResourceGroup", "StorageAccount"}
       [] r = "Subnet"         -> {"ResourceGroup", "VirtualNetwork", "SecurityGroup"}
       [] r = "VirtualMachineScaleSet" ->
            {"ResourceGroup", "Subnet", "SecurityGroup", "StorageAccount", "BlobContainer"}
       [] OTHER                -> {"ResourceGroup"}]

\* Every call, and every wait for its future, is made with the handler's context.
AzBounded(step, exists) == TRUE

------------------------------------------------------------------------------
(* Data sources: nothing of the task depends on anything but their success. *)

ExistingBlobContainer == Lookup
Credentials           == Lookup

(* The methods of the resources.  CreateOrUpdate writes an existing resource    *)
(* again, a scale set with capacity 0.                                          *)

ResourceGroupCreate == Create("ResourceGroup", 1, "upsert")
ResourceGroupRead   == Read("ResourceGroup")
ResourceGroupDelete == Delete("ResourceGroup")

StorageAccountCreate == Create("StorageAccount", 1, "upsert")
StorageAccountRead   == Read("StorageAccount")
StorageAccountDelete == Delete("StorageAccount")

BlobContainerCreate == Create("BlobContainer", 1, "upsert")
BlobContainerRead   == Read("BlobContainer")
BlobContainerDelete == Delete("BlobContainer")

\* Create begins with a Read, to keep the subnets of an existing network.
VirtualNetworkCreate == Create("VirtualNetwork", 1, "adopt")
VirtualNetworkRead   == Read("VirtualNetwork")
VirtualNetworkDelete == Delete("VirtualNetwork")

SecurityGroupCreate == Create("SecurityGroup", 1, "upsert")
SecurityGroupRead   == Read("SecurityGroup")
SecurityGroupDelete == Delete("SecurityGroup")

SubnetCreate == Create("Subnet", 1, "upsert")
SubnetRead   == Read("Subnet")
SubnetDelete == Delete("Subnet")

VirtualMachineScaleSetCreate == Create("VirtualMachineScaleSet", 1, "upsert")
VirtualMachineScaleSetRead   == Read("VirtualMachineScaleSet")
VirtualMachineScaleSetUpdate == Start
VirtualMachineScaleSetDelete == Delete("VirtualMachineScaleSet")

------------------------------------------------------------------------------
AzCreate(c) ==
  <<ResourceGroupCreate>>
  \o (IF c.own THEN <<StorageAccountCreate, BlobContainerCreate>>
      ELSE <<ExistingBlobContainer>>)
  \o <<Credentials, VirtualNetworkCreate, SecurityGroupCreate, SubnetCreate,
       VirtualMachineScaleSetCreate>>
  \o OnlyIf(c.workdir, Push) \o <<VirtualMachineScaleSetUpdate>>

AzRead(c) ==
  <<ResourceGroupRead>>
  \o (IF c.own THEN <<StorageAccountRead, BlobContainerRead>>
      ELSE <<ExistingBlobContainer>>)
  \o <<Credentials, VirtualNetworkRead, SecurityGroupRead, SubnetRead,
       VirtualMachineScaleSetRead>>

\* The steps that need the data are there only if Task.Read returned nil.
AzDelete(c, readable) ==
  OnlyIf(readable /\ c.output, Pull) \o OnlyIf(readable /\ c.own, Empty)
  \o <<VirtualMachineScaleSetDelete, SubnetDelete, SecurityGroupDelete,
       VirtualNetworkDelete>>
  \o (IF c.own THEN <<BlobContainerDelete, StorageAccountDelete>> ELSE <<>>)
  \o <<ResourceGroupDelete>>
==============================================================================
