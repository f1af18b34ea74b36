------------------------------- MODULE GcpTask -------------------------------
(***************************************************************************)
(* task/gcp: the resources of a task on Google Cloud Platform and the step *)
(* programs of its Create, Read and Delete methods, as constants for       *)
(* TaskLifecycle, with the configurations of AwsTask.                      *)
(***************************************************************************)
EXTENDS TaskSteps

\* FirewallRule names end in direction and priority: internal, external, deny.
GcpFirewall == <<"e1", "i1", "e2", "i2", "e3", "i3">>

GcpFirewallRules == {GcpFirewall[i] : i \in DOMAIN GcpFirewall}

GcpResources ==
  {"Bucket", "InstanceTemplate", "InstanceGroupManager"} \union GcpFirewallRules

\* The template names the firewall rules as network tags, which need no rule to
\* exist; it embeds the connection string of the bucket, and the group of machines
\* is made from the template.
GcpNeeds ==
  [r \in GcpResources |->
     CASE r = "InstanceTemplate"     -> {"Bucket"}
       [] r = "InstanceGroupManager" -> {"InstanceTemplate", "Bucket"}
       [] OTHER                      -> {}]

\* Create returns what waitForOperation returns, which is nil for an operation
\* that is DONE with an error; only the template is read back after that.
GcpTrusting == GcpFirewallRules \union {"InstanceGroupManager"}

\* The compute services are called without the handler's context: only rclone, and
\* the listing of objects in Bucket.Delete, obey its deadline.  Bucket.Delete looks
\* for the bucket first, and returns if there is none.
GcpBounded(step, exists) ==
  \/ step.kind \in {"lookup", "push", "pull", "empty"}
  \/ step.kind = "delete" /\ step.res = "Bucket" /\ exists

------------------------------------------------------------------------------
(* Data sources: nothing of the task depends on anything but their success. *)

PermissionSet  == Lookup
DefaultNetwork == Lookup
Image          == Lookup
ExistingBucket == Lookup
Credentials    == Lookup

(* The methods of the resources. *)

BucketCreate == Create("Bucket", 1, "adopt")
BucketRead   == Read("Bucket")
BucketDelete == Delete("Bucket")

FirewallRuleCreate(r) == Create(r, 1, "adopt")
FirewallRuleRead(r)   == Read(r)
FirewallRuleDelete(r) == Delete(r)

InstanceTemplateCreate == Create("InstanceTemplate", 1, "adopt")
InstanceTemplateRead   == Read("InstanceTemplate")
InstanceTemplateDelete == Delete("InstanceTemplate")

\* The group is created with no target size; Update resizes it.
InstanceGroupManagerCreate == Create("InstanceGroupManager", 1, "adopt")
InstanceGroupManagerRead   == Read("InstanceGroupManager")
InstanceGroupManagerUpdate == Start
InstanceGroupManagerDelete == Delete("InstanceGroupManager")

\* One step for each firewall rule, in the order of the code.
FirewallCreates == [i \in DOMAIN GcpFirewall |-> FirewallRuleCreate(GcpFirewall[i])]
FirewallReads   == [i \in DOMAIN GcpFirewall |-> FirewallRuleRead(GcpFirewall[i])]
FirewallDeletes == [i \in DOMAIN GcpFirewall |-> FirewallRuleDelete(GcpFirewall[i])]

------------------------------------------------------------------------------
GcpCreate(c) ==
  <<PermissionSet, DefaultNetwork, Image,
    IF c.own THEN BucketCreate ELSE ExistingBucket, Credentials>>
  \o FirewallCreates
  \o <<InstanceTemplateCreate, InstanceGroupManagerCreate>>
  \o OnlyIf(c.workdir, Push) \o <<InstanceGroupManagerUpdate>>

GcpRead(c) ==
  <<DefaultNetwork, Image, IF c.own THEN BucketRead ELSE ExistingBucket, Credentials>>
  \o FirewallReads
  \o <<InstanceTemplateRead, InstanceGroupManagerRead>>

\* Unlike on the other clouds, the storage is emptied only if there is an output,
\* and then a pre-allocated container is, too.
GcpDelete(c, readable) ==
  (IF readable /\ c.output THEN <<Pull, Empty>> ELSE <<>>)
  \o <<InstanceGroupManagerDelete, InstanceTemplateDelete>>
  \o FirewallDeletes
  \o OnlyIf(c.own, BucketDelete)
==============================================================================
