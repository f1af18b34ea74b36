---------------------------- MODULE LegacyMachine ----------------------------
(***************************************************************************)
(* The two older resources, iterative_machine and iterative_cml_runner: one *)
(* machine, on any of the four clouds, made by calls in a row and without a *)
(* group that would keep it alive.  A runner is a machine that reports, in  *)
(* its logs, that it is ready or has terminated; the provider waits for     *)
(* that, and the runner destroys itself with leo destroy-runner.            *)
(*                                                                          *)
(* Every apply makes a random identifier, so that no two machines of a      *)
(* resource share a name, and what an apply leaves is never met again.      *)
(***************************************************************************)
EXTENDS Integers, Sequences, FiniteSets

CONSTANTS
  Configs,      \* attributes: [cloud : STRING, spot, runner, accepted : BOOLEAN]
  MaxApplies,   \* bound: identifiers that are made
  MaxFailures,  \* bound: API errors, deadlines, lost machines
  MaxCrashes    \* bound: deaths of the provider process

ASSUME ConstantsTyped ==
  /\ Configs \subseteq [cloud : STRING, spot : BOOLEAN, runner : BOOLEAN, accepted : BOOLEAN]
  /\ {MaxApplies, MaxFailures, MaxCrashes} \subseteq Nat

Ids == 1 .. MaxApplies

VARIABLES
  conf,      \* the attributes of the resource
  tf,        \* the resource in the Terraform state: absent, present, tainted
  id,        \* the identifier it has, or had last
  run,       \* the handler that runs, and its place in its program
  things,    \* things[i]: what exists in the cloud under identifier i
  report,    \* report[i]: the statuses in the logs of runner i
  self,      \* self[i]: place of leo destroy-runner on machine i, 0 if it is not running
  failures, crashes,
  dangling,  \* history: identifiers whose apply died
  swallowed  \* history: identifiers of which a deletion failed unnoticed

vars == <<conf, tf, id, run, things, report, self, failures, crashes, dangling, swallowed>>

------------------------------------------------------------------------------
(* The dispatch of resource_machine.go: more names create than delete. *)

CreatesOn(cloud) ==
  CASE cloud \in {"azure", "az"}       -> "azure"
    [] cloud \in {"kubernetes", "k8s"} -> "kubernetes"
    [] cloud \in {"aws", "gcp"}        -> cloud
    [] OTHER                           -> "unknown"

DeletesOn(cloud) == IF cloud \in {"aws", "azure", "gcp", "kubernetes"} THEN cloud ELSE "unknown"

(* The programs.  A make whose error ends the program; a try whose error is *)
(* ignored; an ensure whose error is ignored too but followed by a Get; a   *)
(* look at something that is not the machine's own.                         *)

Step(call, thing) == [call |-> call, thing |-> thing]
Look == Step("look", "none")

AwsCreate(spot) ==
  <<Look, Step("try", "keyPair"), Look>>
  \o (IF spot THEN <<Step("make", "request"), Step("fulfilled", "request"), Look,
                     Step("make", "tag")>>
              ELSE <<Step("make", "instance")>>)
  \o <<Step("seek", "instance"), Step("find", "instance")>>

AzureCreate ==
  <<Step("make", "group"), Step("ensure", "nsg"), Step("ensure", "ip"), Step("ensure", "vnet"),
    Step("make", "subnet"), Step("ensure", "nic"), Step("make", "instance"),
    Step("seek", "instance")>>

GcpCreate ==
  <<Look, Step("make", "egress"), Step("make", "ingress"), Step("make", "instance"),
    Step("seek", "instance")>>

KubernetesCreate == <<Look, Step("make", "job"), Step("pods", "job")>>

CreateSteps(c) ==
  LET cloud == CreatesOn(c.cloud) IN
  IF ~c.accepted THEN <<>>
  ELSE CASE cloud = "aws"        -> AwsCreate(c.spot)
         [] cloud = "azure"      -> AzureCreate
         [] cloud = "gcp"        -> GcpCreate
         [] cloud = "kubernetes" -> KubernetesCreate
         [] OTHER                -> <<>>

AwsDelete == <<Step("tryDelete", "keyPair"), Look, Step("delete", "instance")>>

AzureDelete == <<Look, Step("tryDelete", "group")>>

\* Fault: the firewall rules are not deleted.
GcpDeleteKeepsRules == <<Look, Step("tryDelete", "instance")>>

GcpDelete ==
  <<Look, Step("tryDelete", "instance"), Step("tryDelete", "ingress"), Step("tryDelete", "egress")>>

KubernetesDelete == <<Step("get", "job"), Step("delete", "job"), Step("gone", "job")>>

DeleteSteps(cloud) ==
  CASE cloud = "aws"        -> AwsDelete
    [] cloud = "azure"      -> AzureDelete
    [] cloud = "gcp"        -> GcpDelete
    [] cloud = "kubernetes" -> KubernetesDelete
    [] OTHER                -> <<>>

Program ==
  CASE run.stage = "create" -> CreateSteps(conf)
    [] run.stage = "delete" -> DeleteSteps(DeletesOn(conf.cloud))
    [] OTHER                -> <<>>

Running == run.pc \in DOMAIN Program
Here == Program[run.pc]
At(calls) == Running /\ Here.call \in calls

------------------------------------------------------------------------------
Handler(operation, stage) == [handler |-> operation, stage |-> stage, pc |-> 1, late |-> FALSE]
Idle == Handler("none", "none")

Init ==
  /\ conf \in Configs
  /\ tf = "absent" /\ id = 0 /\ run = Idle
  /\ things = [i \in Ids |-> {}] /\ report = [i \in Ids |-> {}] /\ self = [i \in Ids |-> 0]
  /\ failures = 0 /\ crashes = 0 /\ dangling = {} /\ swallowed = {}

Environment == <<conf, tf, id, run, crashes, dangling, swallowed>>
Fixed == <<conf, id, report, self, crashes>>

\* SetId makes an identifier, whatever comes of the rest.
Apply ==
  /\ tf = "absent" /\ run = Idle /\ id < MaxApplies
  /\ id' = id + 1
  /\ run' = Handler("apply", "create")
  /\ UNCHANGED <<conf, tf, things, report, self, failures, crashes, dangling, swallowed>>

Destroy ==
  /\ tf # "absent" /\ run = Idle
  /\ run' = Handler("destroy", "delete")
  /\ swallowed' = swallowed \ {id}
  /\ UNCHANGED <<conf, tf, id, things, report, self, failures, crashes, dangling>>

Advance == run' = [run EXCEPT !.pc = @ + 1] /\ UNCHANGED <<tf, dangling>>

\* A failed create deletes, in the time that is left to it.
Retreat == [run EXCEPT !.stage = "delete", !.pc = 1]

\* A failed apply leaves the identifier in the state, and the resource tainted.
Fails ==
  /\ UNCHANGED dangling
  /\ IF run.stage \in {"create", "wait"}
     THEN run' = Retreat /\ UNCHANGED tf
     ELSE /\ run' = Idle
          /\ tf' = IF run.handler = "apply" THEN "tainted" ELSE tf

\* An index out of range ends the process: Terraform has no new state to save.
Panic ==
  /\ run' = Idle /\ UNCHANGED tf
  /\ dangling' = IF run.handler = "apply" THEN dangling \union {id} ELSE dangling

------------------------------------------------------------------------------
(* What a call changes under identifier i. *)

\* RunInstances tags what it makes, RequestSpotInstances only the request.
Gives(thing) ==
  IF thing = "instance" /\ conf.cloud = "aws" THEN {"instance", "tag"} ELSE {thing}

\* Fault: the tags outlive the instance.
WithoutKeepsTag(have, thing) ==
  CASE thing = "instance" /\ conf.cloud = "aws" /\ "tag" \notin have -> have
    [] thing \in have /\ thing \in {"group", "job"} -> have \union {"deleting"}
    [] OTHER -> have \ {thing}

\* Terminate finds the instance by its tag; a group goes later, with all that is
\* in it, and a job with its pod.
Without(have, thing) ==
  CASE thing = "instance" /\ conf.cloud = "aws" /\ "tag" \notin have -> have
    [] thing \in have /\ thing \in {"group", "job"} -> have \union {"deleting"}
    [] OTHER -> have \ IF thing = "instance" THEN {"instance", "tag"} ELSE {thing}

Creating == {"make", "try", "ensure"}
Removing == {"tryDelete", "delete"}
Ignoring == {"try", "tryDelete"}

Effect(have, step) ==
  CASE step.call \in Removing -> Without(have, step.thing)
    [] step.call \in Creating /\ step.thing = "tag" ->
         IF "instance" \in have THEN have \union {"tag"} ELSE have
    [] step.call \in Creating /\ step.thing # "tag" -> have \union Gives(step.thing)
    [] OTHER -> have

\* Is the error of a call dropped, what it was to change being as it now is?
Ignored(step, now) ==
  step.call \in Ignoring \/ (step.call = "ensure" /\ step.thing \in now)

\* What a deletion that seemed to succeed has left.
Left(i, step, now) ==
  swallowed' = IF step.call = "tryDelete" /\ step.thing \in now /\ "deleting" \notin now
               THEN swallowed \union {i} ELSE swallowed

\* A job that is not there cannot be deleted; its Get before made sure of it.
Possible(i, step) == step = Step("delete", "job") => "job" \in things[i]

\* Calls that the deadline of the handler does not stop: all of GCP, and the
\* deletion of a group, which has a context of its own.
Timeless == conf.cloud = "gcp" \/ Here = Step("tryDelete", "group")

StepSucceeds ==
  /\ At({"look"} \union Creating \union Removing) /\ Possible(id, Here)
  /\ ~run.late \/ (Timeless /\ Here.call # "make")
  /\ things' = [things EXCEPT ![id] = Effect(@, Here)]
  /\ Advance
  /\ UNCHANGED <<Fixed, failures, swallowed>>

\* The error of a call whose effect, if any, is in things'.
Errs ==
  /\ IF Ignored(Here, things'[id]) THEN Advance ELSE Fails
  /\ Left(id, Here, things'[id])
  /\ UNCHANGED Fixed

StepError ==
  /\ Running /\ Here.call # "fulfilled"
  /\ failures < MaxFailures /\ failures' = failures + 1
  /\ \/ UNCHANGED things
     \/ (Timeless \/ ~run.late) /\ things' = [things EXCEPT ![id] = Effect(@, Here)]
  /\ Errs

\* Past the deadline.  An Insert of GCP has none, but the wait for it has.
StepRefused ==
  /\ Running /\ run.late /\ Here.call # "fulfilled"
  /\ ~Timeless \/ Here.call = "make"
  /\ things' = IF Timeless THEN [things EXCEPT ![id] = Effect(@, Here)] ELSE things
  /\ Errs
  /\ UNCHANGED failures

Expire ==
  /\ run # Idle /\ ~run.late
  /\ failures < MaxFailures /\ failures' = failures + 1
  /\ run' = [run EXCEPT !.late = TRUE]
  /\ UNCHANGED <<Fixed, tf, things, dangling, swallowed>>

\* Fault: a job that is not there is an error.
StepJobMissingFails ==
  /\ At({"get"}) \/ (At({"delete"}) /\ Here.thing = "job")
  /\ ~run.late /\ "job" \notin things[id]
  /\ Fails
  /\ UNCHANGED <<Fixed, things, failures, swallowed>>

\* The job is not there: never made, or gone.
StepJobMissing ==
  /\ Running /\ Here.thing = "job" /\ ~run.late /\ "job" \notin things[id]
  /\ \/ At({"get"}) /\ run' = [run EXCEPT !.pc = Len(Program) + 1] /\ UNCHANGED <<tf, dangling>>
     \/ At({"delete"}) /\ Fails
  /\ UNCHANGED <<Fixed, things, failures, swallowed>>

StepJobFound ==
  /\ At({"get"}) /\ ~run.late /\ "job" \in things[id]
  /\ Advance
  /\ UNCHANGED <<Fixed, things, failures, swallowed>>

\* ResourceMachineDelete of Kubernetes waits, and only then clears the identifier.
StepGone ==
  /\ At({"gone"}) /\ ~run.late /\ "job" \notin things[id]
  /\ run' = Idle /\ tf' = "absent"
  /\ UNCHANGED <<Fixed, things, failures, dangling, swallowed>>

\* The waiters and the Get at the end of a create find the machine, or do not.
StepSeek ==
  /\ At({"seek"}) /\ (Timeless \/ ~run.late)
  /\ IF "instance" \in things[id] THEN Advance ELSE Fails
  /\ UNCHANGED <<Fixed, things, failures, swallowed>>

\* DescribeInstances returns the first of the instances that run: there may be none.
StepFind ==
  /\ At({"find"}) /\ ~run.late
  /\ IF "instance" \in things[id] THEN Advance ELSE Panic
  /\ UNCHANGED <<Fixed, things, failures, swallowed>>

StepFulfilled ==
  /\ At({"fulfilled"}) /\ ~run.late /\ "instance" \in things[id]
  /\ Advance
  /\ UNCHANGED <<Fixed, things, failures, swallowed>>

\* The waiter gives up, and the request is cancelled, which does not stop the
\* instance if the request has just been fulfilled.
StepUnfulfilled ==
  /\ At({"fulfilled"})
  /\ \/ ~run.late /\ things' = [things EXCEPT ![id] = @ \ {"request"}] /\ UNCHANGED failures
     \/ run.late /\ UNCHANGED <<things, failures>>
     \/ failures < MaxFailures /\ failures' = failures + 1 /\ UNCHANGED things
  /\ Fails
  /\ UNCHANGED <<Fixed, swallowed>>

\* A pod that is ready, of a job that is there or has just gone.
StepPodsReady ==
  /\ At({"pods"}) /\ ~run.late /\ "ready" \in things[id]
  /\ Advance
  /\ UNCHANGED <<Fixed, things, failures, swallowed>>

\* The loop gets the whole time of the handler anew, so that its end is past the
\* deadline.
StepPodsExpire ==
  /\ At({"pods"})
  /\ run' = [Retreat EXCEPT !.late = TRUE]
  /\ UNCHANGED <<Fixed, tf, things, failures, dangling, swallowed>>

------------------------------------------------------------------------------
(* The ends of the programs. *)

Ended(stage) == run.stage = stage /\ ~Running

CreatesNothing == ~conf.accepted \/ CreatesOn(conf.cloud) = "unknown"

\* Errors that are found before anything is made are returned without a clean-up.
CreateRejected ==
  /\ Ended("create") /\ CreatesNothing
  /\ run' = Idle /\ tf' = "tainted"
  /\ UNCHANGED <<Fixed, things, failures, dangling, swallowed>>

CreateReturns ==
  /\ Ended("create") /\ ~CreatesNothing
  /\ IF conf.runner
     THEN run' = [run EXCEPT !.stage = "wait", !.pc = 1] /\ UNCHANGED tf
     ELSE run' = Idle /\ tf' = "present"
  /\ UNCHANGED <<Fixed, things, failures, dangling, swallowed>>

DeleteReturns ==
  /\ Ended("delete")
  /\ run' = Idle
  /\ tf' = CASE run.handler = "apply" -> "tainted"
             [] run.handler = "destroy" /\ DeletesOn(conf.cloud) # "unknown" -> "absent"
             [] OTHER -> tf
  /\ UNCHANGED <<Fixed, things, failures, dangling, swallowed>>

(* resourceRunnerCreate waits for the runner. *)

Waiting == run.stage = "wait"

\* Logs come from the pod on "kubernetes" and from the address of the machine
\* otherwise, which the other name of that cloud leaves empty.
Logged ==
  IF conf.cloud = "kubernetes" THEN {"job", "pod"} \subseteq things[id] /\ ~run.late
  ELSE "instance" \in things[id]

SeesTerminated ==
  /\ Waiting /\ Logged /\ "terminated" \in report[id]
  /\ Fails
  /\ UNCHANGED <<Fixed, things, failures, swallowed>>

\* Fault: the wait ends with whatever the runner reports.
SeesReadyFirst ==
  /\ Waiting /\ Logged /\ "ready" \in report[id]
  /\ run' = Idle /\ tf' = "present"
  /\ UNCHANGED <<Fixed, things, failures, dangling, swallowed>>

SeesReady ==
  /\ Waiting /\ Logged /\ "ready" \in report[id] /\ "terminated" \notin report[id]
  /\ run' = Idle /\ tf' = "present"
  /\ UNCHANGED <<Fixed, things, failures, dangling, swallowed>>

\* The logs are those of the first pod of the job, which may have none.
LogsPanic ==
  /\ Waiting /\ conf.cloud = "kubernetes" /\ ~run.late
  /\ "job" \in things[id] /\ "pod" \notin things[id]
  /\ Panic
  /\ UNCHANGED <<Fixed, things, failures, swallowed>>

\* All but a minute of the time, counted from the end of the create.
WaitExpires ==
  /\ Waiting
  /\ \E late \in {run.late, TRUE} : run' = [Retreat EXCEPT !.late = late]
  /\ UNCHANGED <<Fixed, tf, things, failures, dangling, swallowed>>

Crash ==
  /\ run # Idle /\ crashes < MaxCrashes /\ crashes' = crashes + 1
  /\ Panic
  /\ UNCHANGED <<conf, id, things, report, self, failures, swallowed>>

------------------------------------------------------------------------------
(* The clouds, and the machine. *)

Alive(i) == {"instance", "pod"} \intersect things[i] # {}

Fulfil(i) ==
  /\ "request" \in things[i]
  /\ things' = [things EXCEPT ![i] = (@ \ {"request"}) \union {"instance"}]
  /\ UNCHANGED <<Environment, report, self, failures>>

PodStarts(i) ==
  /\ "job" \in things[i] /\ "deleting" \notin things[i] /\ "ready" \notin things[i]
  /\ things' = [things EXCEPT ![i] = @ \union IF "pod" \in @ THEN {"ready"} ELSE {"pod"}]
  /\ UNCHANGED <<Environment, report, self, failures>>

\* What is marked for deletion goes.
Collected(i) ==
  /\ "deleting" \in things[i]
  /\ things' = [things EXCEPT ![i] = {}]
  /\ UNCHANGED <<Environment, report, self, failures>>

\* A spot instance is taken back, or a pod lost with its node; a preempted machine
\* of GCP is stopped, not deleted.
Reclaimed(i) ==
  /\ failures < MaxFailures /\ failures' = failures + 1
  /\ \/ /\ conf.spot /\ conf.cloud # "gcp" /\ "instance" \in things[i]
        /\ things' = [things EXCEPT ![i] = @ \ {"instance", "tag"}]
     \/ /\ "pod" \in things[i]
        /\ things' = [things EXCEPT ![i] = @ \ {"pod", "ready"}]
  /\ UNCHANGED <<Environment, report, self>>

Reports(i) ==
  /\ conf.runner /\ Alive(i) /\ ("pod" \in things[i] => "ready" \in things[i])
  /\ \E status \in {"ready", "terminated"} :
       /\ status \notin report[i] /\ "terminated" \notin report[i]
       /\ report' = [report EXCEPT ![i] = @ \union {status}]
  /\ UNCHANGED <<Environment, things, self, failures>>

\* The container of a runner that terminated exits, and the job is removed with it.
JobFinishes(i) ==
  /\ "pod" \in things[i] /\ (conf.runner => "terminated" \in report[i])
  /\ things' = [things EXCEPT ![i] = {}]
  /\ UNCHANGED <<Environment, report, self, failures>>

SelfBegins(i) ==
  /\ Alive(i) /\ self[i] = 0 /\ "terminated" \in report[i]
  /\ self' = [self EXCEPT ![i] = 1]
  /\ UNCHANGED <<Environment, things, report, failures>>

\* leo destroy-runner makes the calls of a destroy, while its machine is there.
SelfStep(i) ==
  LET program == DeleteSteps(CreatesOn(conf.cloud))
      step == program[self[i]] IN
  /\ Alive(i) /\ self[i] \in DOMAIN program
  /\ \/ /\ things' = [things EXCEPT ![i] = Effect(@, step)]
        /\ self' = [self EXCEPT ![i] = @ + 1]
        /\ UNCHANGED failures
     \/ /\ failures < MaxFailures /\ failures' = failures + 1
        /\ self' = [self EXCEPT ![i] = IF Ignored(step, things[i]) THEN @ + 1 ELSE Len(program) + 1]
        /\ UNCHANGED things
  /\ UNCHANGED <<Environment, report>>

------------------------------------------------------------------------------
Provider ==
  \/ StepSucceeds \/ StepError \/ StepRefused \/ StepJobMissing \/ StepJobFound \/ StepGone
  \/ StepSeek \/ StepFind \/ StepFulfilled \/ StepUnfulfilled
  \/ StepPodsReady \/ StepPodsExpire
  \/ CreateRejected \/ CreateReturns \/ DeleteReturns
  \/ SeesTerminated \/ SeesReady \/ LogsPanic \/ WaitExpires

Cloud(i) == Fulfil(i) \/ PodStarts(i) \/ Collected(i)

Machine(i) == Reports(i) \/ JobFinishes(i) \/ SelfBegins(i) \/ SelfStep(i)

Next ==
  \/ Apply \/ Destroy \/ Provider \/ Expire \/ Crash
  \/ \E i \in Ids : Cloud(i) \/ Machine(i) \/ Reclaimed(i)

Spec == Init /\ [][Next]_vars

\* The provider goes on and the clouds too; the user repeats terraform destroy.
FairSpec ==
  /\ Spec
  /\ WF_vars(Provider) /\ \A i \in Ids : WF_vars(Cloud(i))
  /\ SF_vars(Destroy)
------------------------------------------------------------------------------
(* Properties. *)

Things == {"keyPair", "request", "instance", "tag", "group", "nsg", "ip", "vnet", "subnet",
           "nic", "egress", "ingress", "job", "pod", "ready", "deleting"}

TypeOK ==
  /\ conf \in Configs /\ tf \in {"absent", "present", "tainted"} /\ id \in 0 .. MaxApplies
  /\ run \in [handler : {"none", "apply", "destroy"}, stage : {"none", "create", "wait", "delete"},
              pc : 1 .. 10, late : BOOLEAN]
  /\ things \in [Ids -> SUBSET Things]
  /\ \A i \in Ids : "tag" \in things[i] => "instance" \in things[i]
  /\ \A i \in Ids : "ready" \in things[i] => "pod" \in things[i]
  /\ report \in [Ids -> SUBSET {"ready", "terminated"}] /\ self \in [Ids -> 0 .. 5]
  /\ failures \in 0 .. MaxFailures /\ crashes \in 0 .. MaxCrashes
  /\ dangling \subseteq 1 .. id /\ swallowed \subseteq 1 .. id

\* Terraform has no resource with this identifier, or not any more.
Forgotten(i) == i \in 1 .. id /\ (i < id \/ (tf = "absent" /\ run = Idle))

\* Nothing is left of a machine that Terraform does not know of (but what a
\* deletion that was accepted will remove), on any cloud, and however often its
\* runner destroyed itself, or began to.  There are three ways out: the apply died,
\* an error of the last deletion was ignored (tryDelete), or the instance came of
\* a spot request of AWS and had no tags to be found by.
NothingForgotten ==
  \A i \in Ids :
    Forgotten(i) /\ i \notin dangling \union swallowed /\ "deleting" \notin things[i]
      => IF conf.cloud = "aws" /\ conf.spot THEN things[i] \subseteq {"request", "instance"}
         ELSE things[i] = {}

\* An apply of a runner succeeds only if the runner reported that it is ready, and
\* when the provider looked had not terminated since (resource_runner.go:277-281).
RunnerIsReady ==
  [][tf = "absent" /\ tf' = "present" /\ conf.runner
       => "ready" \in report[id] /\ "terminated" \notin report[id]]_vars

\* A user who repeats terraform destroy gets rid of the resource, although the
\* runner destroys itself at the same time, if its cloud has one of the four names
\* that resourceMachineDelete knows (resource_machine.go:242-284).
DestroyConverges ==
  DeletesOn(conf.cloud) # "unknown" => <>[](tf = "absent")
=============================================================================
