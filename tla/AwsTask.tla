------------------------------- MODULE AwsTask -------------------------------
(***************************************************************************)
(* task/aws: the resources of a task on Amazon Web Services and the step   *)
(* programs of its Create, Read and Delete methods, as constants for       *)
(* TaskLifecycle.  c is the configuration: c.own, the bucket is the task's *)
(* own (no storage.container); c.workdir and c.output, the attributes are  *)
(* not blank.                                                              *)
(***************************************************************************)
EXTENDS TaskSteps

AwsResources ==
  {"Bucket", "SecurityGroup", "KeyPair", "LaunchTemplate", "AutoScalingGroup"}

\* The Dependencies struct of each resource.  Credentials, which the launch
\* template embeds in its user data, hold the bucket's connection string: so the
\* template, and the machines the group makes from it, need the bucket.
AwsNeeds ==
  [r \in AwsResources |->
     CASE r = "LaunchTemplate"   -> {"KeyPair", "SecurityGroup", "Bucket"}
       [] r = "AutoScalingGroup" -> {"LaunchTemplate", "Bucket"}
       [] OTHER                  -> {}]

\* KeyPair.Read checks the error of DescribeKeyPairs for one code only and
\* returns nil when the answer is nil.
AwsBlind == {"KeyPair"}

\* Every call is made with the context of the handler.
AwsBounded(step, exists) == TRUE

------------------------------------------------------------------------------
(* Data sources: nothing of the task depends on anything but their success. *)

PermissionSet     == Lookup
DefaultVPC        == Lookup
DefaultVPCSubnets == Lookup
Image             == Lookup
ExistingS3Bucket  == Lookup
Credentials       == Lookup

(* The methods of the resources. *)

BucketCreate == Create("Bucket", 1, "adopt")
BucketRead   == Read("Bucket")
BucketDelete == Delete("Bucket")

\* Create reads first and returns if it finds the group; if not, it creates the
\* group, revokes the default egress rule, authorises egress, then ingress.
SecurityGroupCreate == Create("SecurityGroup", 4, "adopt")
SecurityGroupRead   == Read("SecurityGroup")
SecurityGroupDelete == Delete("SecurityGroup")

KeyPairCreate == Create("KeyPair", 1, "adopt")
KeyPairRead   == Read("KeyPair")
KeyPairDelete == Delete("KeyPair")

LaunchTemplateCreate == Create("LaunchTemplate", 1, "adopt")
LaunchTemplateRead   == Read("LaunchTemplate")
LaunchTemplateDelete == Delete("LaunchTemplate")

\* The group is created with no capacity; Update sets it.
AutoScalingGroupCreate == Create("AutoScalingGroup", 1, "adopt")
AutoScalingGroupRead   == Read("AutoScalingGroup")
AutoScalingGroupUpdate == Start
AutoScalingGroupDelete == Delete("AutoScalingGroup")

------------------------------------------------------------------------------
AwsCreate(c) ==
  <<PermissionSet, DefaultVPC, DefaultVPCSubnets, Image,
    IF c.own THEN BucketCreate ELSE ExistingS3Bucket,
    SecurityGroupCreate, KeyPairCreate, Credentials,
    LaunchTemplateCreate, AutoScalingGroupCreate>>
  \o OnlyIf(c.workdir, Push) \o <<AutoScalingGroupUpdate>>

AwsRead(c) ==
  <<DefaultVPC, DefaultVPCSubnets, Image,
    IF c.own THEN BucketRead ELSE ExistingS3Bucket,
    SecurityGroupRead, KeyPairRead, Credentials,
    LaunchTemplateRead, AutoScalingGroupRead>>

\* The steps that need the data are there only if Task.Read returned nil.
AwsDelete(c, readable) ==
  OnlyIf(readable /\ c.output, Pull) \o OnlyIf(readable /\ c.own, Empty)
  \o <<AutoScalingGroupDelete, LaunchTemplateDelete, KeyPairDelete,
       SecurityGroupDelete, Credentials>>
  \o OnlyIf(c.own, BucketDelete)
==============================================================================
