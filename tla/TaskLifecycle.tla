---------------------------- MODULE TaskLifecycle ----------------------------
(***************************************************************************)
(* The life of one iterative_task: the Terraform handlers of               *)
(* iterative/resource_task.go, the step programs of a provider package     *)
(* they run through common.RunSteps, the resources those steps make in the *)
(* cloud, and the storage the task's data passes through.                  *)
(*                                                                         *)
(* The provider's programs are constants (AwsTask gives those of task/aws),*)
(* so what is proved here holds of every provider whose programs satisfy   *)
(* the assumptions.  Every step may fail, before or after its call took    *)
(* effect; the deadline of the handler may pass at any point; the provider *)
(* process may die between two API calls.  The machines of the group run   *)
(* all the while: they boot, upload results, stop the group, get preempted.*)
(***************************************************************************)
EXTENDS TaskSteps, FiniteSets

CONSTANTS
  Configs,            \* task attributes: [own, workdir, output : BOOLEAN]
  Resources,          \* what the provider package creates for a task
  Storage, Group,     \* among them: the bucket, and the group of machines
  Needs,              \* Needs[r]: resources r is built on
  Blind,              \* resources whose Read reports success on an API error
  Trusting,           \* resources whose Create ignores how its operation ended
  Bounded(_, _),      \* whether a step's calls obey the deadline, its resource existing or not
  CreateSteps(_),     \* the steps of Task.Create for a configuration
  ReadSteps(_),       \* the steps of Task.Read
  DeleteSteps(_, _),  \* the steps of Task.Delete, given whether Task.Read passed
  Parallelism,        \* attribute parallelism: machines the group is set to
  MaxResults,         \* bound: results the machines upload in one behaviour
  MaxFailures,        \* bound: API errors and expired deadlines
  MaxCrashes          \* bound: deaths of the provider process

VARIABLES
  conf,       \* attributes of the task; every one that matters here is ForceNew
  cloud,      \* cloud[r]: creation calls r went through, 0 when it is absent
  desired,    \* capacity the group is set to
  machines,   \* machines of the group that are running
  input,      \* whether the workdir is in the storage: none, uploaded, emptied
  stored,     \* results in the storage, by order of upload
  made,       \* number of results ever uploaded
  saved,      \* results in the user's local directory
  tf,         \* the resource in the Terraform state: absent, present, tainted
  handler,    \* handler that is running: none, apply, refresh, destroy
  stage,      \* program that is running: none, create, refresh, probe, delete
  pc,         \* next step of that program
  part,       \* API calls done of the create step at pc
  readable,   \* whether the Task.Read that begins Task.Delete succeeded
  blank,      \* resources whose struct kept a nil Resource after a blind Read
  expired,    \* the handler's context is past its deadline
  failures,   \* failures so far
  crashes,    \* crashes so far
  dangling,   \* history: an apply died and no delete has completed since
  owed        \* history: results that were in the storage when destroy began

taskVars    == <<conf, tf>>
handlerVars == <<handler, stage, pc, part, readable, blank, expired>>
cloudVars   == <<cloud, desired, machines>>
dataVars    == <<input, stored, made, saved>>
boundVars   == <<failures, crashes>>
historyVars == <<dangling, owed>>
vars == <<taskVars, handlerVars, cloudVars, dataVars, boundVars, historyVars>>

------------------------------------------------------------------------------
(* Assumptions on the constants, all of them facts of the provider package. *)

StepOf(program) == {program[i] : i \in DOMAIN program}

Steps == [kind : Kinds, res : Resources \union {NoResource},
          calls : Nat, onExisting : {"", "adopt", "upsert"}]

WellFormed(program) ==
  /\ program \in Seq(Steps)
  /\ \A s \in StepOf(program) :
       /\ s.kind \in {"read", "create", "delete"} => s.res \in Resources
       /\ s.kind = "create" => s.calls > 0 /\ s.onExisting # ""

ASSUME ConstantsTyped ==
  /\ Configs \subseteq [own : BOOLEAN, workdir : BOOLEAN, output : BOOLEAN]
  /\ IsFiniteSet(Resources) /\ NoResource \notin Resources
  /\ Storage \in Resources /\ Group \in Resources
  /\ Needs \in [Resources -> SUBSET Resources]
  /\ Blind \subseteq Resources /\ Trusting \subseteq Resources
  /\ {Parallelism, MaxResults, MaxFailures, MaxCrashes} \subseteq Nat

ASSUME ProgramsTyped ==
  \A c \in Configs :
    /\ WellFormed(CreateSteps(c))
    /\ WellFormed(ReadSteps(c))
    /\ \A b \in BOOLEAN : WellFormed(DeleteSteps(c, b))

\* Only Create creates, only Delete deletes or empties.
ASSUME ProgramsSeparate ==
  \A c \in Configs :
    /\ \A s \in StepOf(CreateSteps(c)) : s.kind \notin {"delete", "empty", "pull"}
    /\ \A s \in StepOf(ReadSteps(c)) : s.kind \in {"lookup", "read"}
    /\ \A b \in BOOLEAN : \A s \in StepOf(DeleteSteps(c, b)) :
         s.kind \in {"lookup", "delete", "empty", "pull"}

\* Whatever Create creates, Delete deletes, whether or not it could read it.
ASSUME DeleteCovers ==
  \A c \in Configs, b \in BOOLEAN :
    Creates(CreateSteps(c)) \subseteq Deletes(DeleteSteps(c, b))

\* A resource is created after, and deleted before, everything it needs.
ASSUME CreateOrdered ==
  \A c \in Configs : \A i \in DOMAIN CreateSteps(c) :
    CreateSteps(c)[i].kind = "create" =>
      \A n \in Needs[CreateSteps(c)[i].res] \intersect Creates(CreateSteps(c)) :
        \E j \in 1 .. i - 1 :
          CreateSteps(c)[j].kind = "create" /\ CreateSteps(c)[j].res = n

ASSUME DeleteOrdered ==
  \A c \in Configs, b \in BOOLEAN : \A i \in DOMAIN DeleteSteps(c, b) :
    DeleteSteps(c, b)[i].kind = "delete" =>
      \A r \in Creates(CreateSteps(c)) :
        DeleteSteps(c, b)[i].res \in Needs[r] =>
          \E j \in 1 .. i - 1 :
            DeleteSteps(c, b)[j].kind = "delete" /\ DeleteSteps(c, b)[j].res = r

\* What is built on a resource names it by what a Read returned: a resource whose
\* creation nobody verified is one that nothing is built on.
ASSUME NeedsVerified == \A r \in Resources : Needs[r] \intersect Trusting = {}

\* The machines keep their data in the storage the task creates, if it does.
ASSUME StorageNeeded ==
  \A c \in Configs :
    IF c.own THEN Storage \in Needs[Group] \intersect Creates(CreateSteps(c))
    ELSE Storage \notin Creates(CreateSteps(c))

\* Delete downloads the output, if there is to be one, before it erases the data.
ASSUME PullFirst ==
  \A c \in Configs : c.output =>
    \A i \in DOMAIN DeleteSteps(c, TRUE) :
      \/ DeleteSteps(c, TRUE)[i].kind = "empty"
      \/ DeleteSteps(c, TRUE)[i].kind = "delete" /\ DeleteSteps(c, TRUE)[i].res = Storage
      => \E j \in 1 .. i - 1 : DeleteSteps(c, TRUE)[j].kind = "pull"

\* Create uploads the workdir, if there is one, before it starts the group, and what
\* it uploads to is needed as long as there is a group.
ASSUME PushFirst ==
  /\ Storage \in Needs[Group]
  /\ \A c \in Configs : c.workdir =>
       \A i \in DOMAIN CreateSteps(c) : CreateSteps(c)[i].kind = "start" =>
         \E j \in 1 .. i - 1 : CreateSteps(c)[j].kind = "push"

\* Create has one step for each resource.
ASSUME CreateOnce ==
  \A c \in Configs : \A i \in DOMAIN CreateSteps(c), j \in DOMAIN CreateSteps(c) :
    /\ CreateSteps(c)[i].kind = "create" /\ CreateSteps(c)[j].kind = "create"
    /\ CreateSteps(c)[i].res = CreateSteps(c)[j].res
    => i = j

------------------------------------------------------------------------------
Program ==
  CASE stage = "create"                -> CreateSteps(conf)
    [] stage \in {"refresh", "probe"}  -> ReadSteps(conf)
    [] stage = "delete"                -> DeleteSteps(conf, readable)
    [] OTHER                           -> <<>>

Owned == Creates(CreateSteps(conf))
Existing == {r \in Resources : cloud[r] > 0}

Running == stage # "none" /\ pc \in DOMAIN Program
Step == Program[pc]
At(kind) == Running /\ Step.kind = kind

\* The deadline has passed, and the calls of the step at pc notice.
Late == expired /\ Bounded(Step, Step.res \in Existing)

\* A pre-allocated container is always there; an own one must exist.
StorageUp == conf.own => cloud[Storage] > 0

Init ==
  /\ conf \in Configs
  /\ cloud = [r \in Resources |-> 0]
  /\ desired = 0 /\ machines = 0
  /\ input = "none" /\ stored = {} /\ made = 0 /\ saved = {}
  /\ tf = "absent" /\ handler = "none" /\ stage = "none"
  /\ pc = 1 /\ part = 0 /\ readable = FALSE /\ blank = {} /\ expired = FALSE
  /\ failures = 0 /\ crashes = 0
  /\ dangling = FALSE /\ owed = {}

------------------------------------------------------------------------------
(* The user runs terraform.  A handler begins by building the task anew, so *)
(* nothing of an earlier run is left in memory.                             *)

Begin(operation, program) ==
  /\ handler = "none"
  /\ handler' = operation /\ stage' = program
  /\ pc' = 1 /\ part' = 0 /\ readable' = FALSE /\ blank' = {} /\ expired' = FALSE
  /\ UNCHANGED <<taskVars, cloudVars, dataVars, boundVars, dangling>>

\* resourceTaskCreate.  The task has a name, or runs in CI: its identifier is the
\* same every time, so that an apply that follows a crash meets the resources the
\* crash left.
Apply == tf = "absent" /\ Begin("apply", "create") /\ UNCHANGED owed

\* resourceTaskRead, before every plan.
Refresh == tf # "absent" /\ Begin("refresh", "refresh") /\ UNCHANGED owed

\* resourceTaskDelete, which calls Task.Delete, which begins with Task.Read.
Destroy == tf # "absent" /\ Begin("destroy", "probe") /\ owed' = stored

------------------------------------------------------------------------------
(* RunSteps: the step at pc succeeds and the next one is tried. *)

Advance ==
  /\ pc' = pc + 1 /\ part' = 0
  /\ UNCHANGED <<taskVars, historyVars, handler, stage, readable, expired>>

StepLookup ==
  /\ At("lookup")
  /\ Advance
  /\ UNCHANGED <<cloudVars, dataVars, boundVars, blank>>

StepRead ==
  /\ At("read") /\ ~Late
  /\ cloud[Step.res] > 0
  /\ Advance
  /\ blank' = blank \ {Step.res}
  /\ UNCHANGED <<cloudVars, dataVars, boundVars>>

\* The call failed, Read returned nil and left the struct without a Resource.
Overlooked(r) ==
  /\ r \in Blind
  /\ IF Late THEN UNCHANGED failures
     ELSE failures < MaxFailures /\ failures' = failures + 1
  /\ blank' = blank \union {r}
  /\ UNCHANGED crashes

StepReadOverlooked ==
  /\ At("read")
  /\ Overlooked(Step.res)
  /\ Advance
  /\ UNCHANGED <<cloudVars, dataVars>>

\* A create step ends with a Read of what it created.
EndOfCreate ==
  \/ Overlooked(Step.res)
  \/ blank' = blank \ {Step.res} /\ UNCHANGED boundVars

\* The Create method dereferences the nil Resource of something it needs.
NilDependency == At("create") /\ Needs[Step.res] \intersect blank # {}

StepAdopt ==
  /\ At("create") /\ ~Late /\ ~NilDependency
  /\ Step.onExisting = "adopt" /\ part = 0 /\ cloud[Step.res] > 0
  /\ Advance
  /\ EndOfCreate
  /\ UNCHANGED <<cloudVars, dataVars>>

\* Fault: the group is created with the capacity it is to have.
CreateCallStarts ==
  /\ Step.onExisting = "adopt" => part > 0 \/ cloud[Step.res] = 0
  /\ cloud' = [cloud EXCEPT ![Step.res] = part + 1]
  /\ desired' = IF Step.res = Group THEN Parallelism ELSE desired
  /\ UNCHANGED machines

\* One API call of the Create method; the last one moves to the next step.
CreateCall ==
  /\ Step.onExisting = "adopt" => part > 0 \/ cloud[Step.res] = 0
  /\ cloud' = [cloud EXCEPT ![Step.res] = part + 1]
  /\ desired' = IF Step.res = Group THEN 0 ELSE desired
  /\ UNCHANGED machines

StepCreate ==
  /\ At("create") /\ ~Late /\ ~NilDependency
  /\ CreateCall
  /\ IF part + 1 < Step.calls
     THEN /\ part' = part + 1
          /\ UNCHANGED <<taskVars, historyVars, handler, stage, readable, expired>>
          /\ UNCHANGED <<pc, blank, boundVars>>
     ELSE Advance /\ EndOfCreate
  /\ UNCHANGED dataVars

\* waitForOperation takes an operation that is DONE for one that succeeded: the
\* Create, or the resizing of the group, returns nil and nothing has changed.
StepUnverified ==
  /\ \/ At("create") /\ Step.res \in Trusting /\ cloud[Step.res] = 0
     \/ At("start") /\ Group \in Trusting /\ cloud[Group] > 0
  /\ ~Late
  /\ failures < MaxFailures /\ failures' = failures + 1
  /\ Advance
  /\ UNCHANGED <<cloudVars, dataVars, crashes, blank>>

PushCall == StorageUp /\ input' = "uploaded" /\ UNCHANGED <<stored, made, saved>>

StepPush ==
  /\ At("push") /\ ~Late
  /\ PushCall
  /\ Advance
  /\ UNCHANGED <<cloudVars, boundVars, blank>>

StartCall == cloud[Group] > 0 /\ desired' = Parallelism /\ UNCHANGED <<cloud, machines>>

StepStart ==
  /\ At("start") /\ ~Late
  /\ StartCall
  /\ Advance
  /\ UNCHANGED <<dataVars, boundVars, blank>>

\* Fault: the download goes the other way.
StepPullNothing ==
  /\ At("pull") /\ ~Late /\ StorageUp
  /\ Advance
  /\ UNCHANGED <<cloudVars, input, stored, made, saved, boundVars, blank>>

StepPull ==
  /\ At("pull") /\ ~Late /\ StorageUp
  /\ Advance
  /\ saved' = saved \union stored
  /\ UNCHANGED <<cloudVars, input, stored, made, boundVars, blank>>

EmptyCall ==
  /\ stored' = {}
  /\ input' = IF input = "none" THEN "none" ELSE "emptied"
  /\ UNCHANGED <<made, saved>>

StepEmpty ==
  /\ At("empty") /\ ~Late
  /\ EmptyCall
  /\ Advance
  /\ UNCHANGED <<cloudVars, boundVars, blank>>

\* machine.Delete turns nearly every error into NotFoundError, which the step
\* takes for success.
StepEmptyOverlooked ==
  /\ At("empty")
  /\ IF Late THEN UNCHANGED failures
     ELSE failures < MaxFailures /\ failures' = failures + 1
  /\ Advance
  /\ UNCHANGED <<cloudVars, dataVars, crashes, blank>>

\* Fault: the group is deleted without ForceDelete.
DeleteCallSparesMachines ==
  /\ cloud' = [cloud EXCEPT ![Step.res] = 0]
  /\ desired' = IF Step.res = Group THEN 0 ELSE desired
  /\ UNCHANGED machines
  /\ IF Step.res = Storage THEN stored' = {} /\ input' = "none"
     ELSE UNCHANGED <<stored, input>>
  /\ UNCHANGED <<made, saved>>

\* Deleting the group terminates its machines, deleting the storage erases it.
DeleteCall ==
  /\ cloud' = [cloud EXCEPT ![Step.res] = 0]
  /\ IF Step.res = Group THEN desired' = 0 /\ machines' = 0
     ELSE UNCHANGED <<desired, machines>>
  /\ IF Step.res = Storage THEN stored' = {} /\ input' = "none"
     ELSE UNCHANGED <<stored, input>>
  /\ UNCHANGED <<made, saved>>

\* Fault: an absent resource does not count as deleted.
StepDeletePresent ==
  /\ At("delete") /\ ~Late /\ cloud[Step.res] > 0
  /\ DeleteCall
  /\ Advance
  /\ UNCHANGED <<boundVars, blank>>

StepDelete ==
  /\ At("delete") /\ ~Late
  /\ DeleteCall
  /\ Advance
  /\ UNCHANGED <<boundVars, blank>>

------------------------------------------------------------------------------
(* RunSteps: the step at pc returns an error. *)

\* Fault: SetId("") after a failed create, however its clean-up went.
StepFailsForgets(late) ==
  /\ part' = 0 /\ pc' = 1 /\ readable' = FALSE
  /\ IF stage \in {"create", "probe"}
     THEN /\ stage' = IF stage = "create" THEN "probe" ELSE "delete"
          /\ expired' = (expired \/ late)
          /\ UNCHANGED <<handler, blank>>
     ELSE /\ handler' = "none" /\ stage' = "none"
          /\ expired' = FALSE /\ blank' = {}
  /\ UNCHANGED <<taskVars, historyVars>>

\* Fault: RunSteps logs the error and goes on.
StepFailsContinues(late) == Advance /\ UNCHANGED blank

\* What its caller does about it: resourceTaskCreate tries Task.Delete with the
\* same context, Task.Delete goes on without what needs Task.Read, and the
\* handlers return.  late: the step failed because the deadline passed.
StepFails(late) ==
  /\ part' = 0 /\ pc' = 1 /\ readable' = FALSE
  /\ IF stage \in {"create", "probe"}
     THEN /\ stage' = IF stage = "create" THEN "probe" ELSE "delete"
          /\ expired' = (expired \/ late)
          /\ UNCHANGED <<handler, blank, tf>>
     ELSE /\ handler' = "none" /\ stage' = "none"
          /\ expired' = FALSE /\ blank' = {}
          /\ tf' = IF stage = "delete" /\ handler = "apply" THEN "tainted" ELSE tf
  /\ UNCHANGED <<conf, historyVars>>

\* The resource, or the group, the step is about is not there.
StepNotFound ==
  /\ \/ At("read") /\ cloud[Step.res] = 0
     \/ At("start") /\ cloud[Group] = 0
  /\ StepFails(FALSE)
  /\ UNCHANGED <<cloudVars, dataVars, boundVars>>

\* The deadline has passed already: no call is made.
StepRefused ==
  /\ Running /\ Late /\ ~NilDependency
  /\ StepFails(TRUE)
  /\ UNCHANGED <<cloudVars, dataVars, boundVars>>

\* The API call fails, or the deadline passes during it; either way it may
\* have taken effect.
StepError ==
  /\ Running /\ ~Late /\ ~NilDependency
  /\ failures < MaxFailures /\ failures' = failures + 1
  /\ \/ UNCHANGED <<cloudVars, dataVars>>
     \/ At("create") /\ CreateCall /\ UNCHANGED dataVars
     \/ At("start") /\ StartCall /\ UNCHANGED dataVars
     \/ At("delete") /\ DeleteCall
     \/ At("push") /\ PushCall /\ UNCHANGED cloudVars
     \/ At("empty") /\ EmptyCall /\ UNCHANGED cloudVars
  /\ \E late \in BOOLEAN : StepFails(late)
  /\ UNCHANGED crashes

------------------------------------------------------------------------------
(* RunSteps returns nil. *)

Finish(state) ==
  /\ tf' = state
  /\ handler' = "none" /\ stage' = "none" /\ pc' = 1 /\ part' = 0
  /\ readable' = FALSE /\ blank' = {} /\ expired' = FALSE
  /\ UNCHANGED <<conf, cloudVars, dataVars, boundVars, owed>>

Ended(program) == stage = program /\ pc \notin DOMAIN Program

CreateReturns == Ended("create") /\ Finish("present") /\ UNCHANGED dangling

RefreshReturns == Ended("refresh") /\ Finish(tf) /\ UNCHANGED dangling

\* Task.Delete appends the steps that need the storage's credentials.
ProbeReturns ==
  /\ Ended("probe")
  /\ stage' = "delete" /\ pc' = 1 /\ readable' = TRUE
  /\ UNCHANGED <<taskVars, handler, part, blank, expired>>
  /\ UNCHANGED <<cloudVars, dataVars, boundVars, historyVars>>

\* Task.Delete succeeded: SetId("") after a failed create, and the SDK does
\* the same after resourceTaskDelete.
DeleteReturns == Ended("delete") /\ Finish("absent") /\ dangling' = FALSE

------------------------------------------------------------------------------
(* Deadlines and the death of the provider process. *)

\* The handler's timeout; a failed create goes on to delete with it.
Expire ==
  /\ handler # "none" /\ ~expired /\ failures < MaxFailures
  /\ expired' = TRUE /\ failures' = failures + 1
  /\ UNCHANGED <<taskVars, handler, stage, pc, part, readable, blank>>
  /\ UNCHANGED <<cloudVars, dataVars, crashes, historyVars>>

\* Terraform keeps the prior state: of an apply, none.
ProcessDies ==
  /\ handler' = "none" /\ stage' = "none" /\ pc' = 1 /\ part' = 0
  /\ readable' = FALSE /\ blank' = {} /\ expired' = FALSE
  /\ dangling' = (dangling \/ handler = "apply")
  /\ UNCHANGED <<taskVars, cloudVars, dataVars, failures, owed>>

Crash ==
  /\ handler # "none" /\ crashes < MaxCrashes
  /\ crashes' = crashes + 1
  /\ ProcessDies

Panic ==
  /\ NilDependency
  /\ ProcessDies
  /\ UNCHANGED crashes

------------------------------------------------------------------------------
(* The machines, which the cloud's group keeps at the desired number. *)

MachineStep == UNCHANGED <<taskVars, handlerVars, boundVars, historyVars, cloud>>

\* Fault: the group counts its machines one short.
BootOffByOne ==
  /\ cloud[Group] > 0 /\ machines <= desired
  /\ machines' = machines + 1
  /\ UNCHANGED <<desired, dataVars>> /\ MachineStep

Boot ==
  /\ cloud[Group] > 0 /\ machines < desired
  /\ machines' = machines + 1
  /\ UNCHANGED <<desired, dataVars>> /\ MachineStep

\* A spot machine is reclaimed, or the group scales in.
Preempt ==
  /\ machines > 0
  /\ machines' = machines - 1
  /\ UNCHANGED <<desired, dataVars>> /\ MachineStep

\* The data loop of the machine script uploads a result.
Upload ==
  /\ machines > 0 /\ StorageUp /\ made < MaxResults
  /\ made' = made + 1 /\ stored' = stored \union {made + 1}
  /\ UNCHANGED <<cloudVars, input, saved>>
  /\ UNCHANGED <<taskVars, handlerVars, boundVars, historyVars>>

\* tpi-task-shutdown runs leo stop.
SelfStop ==
  /\ machines > 0 /\ cloud[Group] > 0
  /\ desired' = 0
  /\ UNCHANGED <<machines, dataVars>> /\ MachineStep

------------------------------------------------------------------------------
User == Apply \/ Refresh \/ Destroy

Provider ==
  \/ StepLookup \/ StepRead \/ StepReadOverlooked \/ StepAdopt \/ StepCreate
  \/ StepUnverified \/ StepPush \/ StepStart \/ StepPull \/ StepEmpty \/ StepEmptyOverlooked
  \/ StepDelete \/ StepNotFound \/ StepRefused \/ StepError
  \/ CreateReturns \/ RefreshReturns \/ ProbeReturns \/ DeleteReturns
  \/ Panic

Machines == Boot \/ Preempt \/ Upload \/ SelfStop

Next == User \/ Provider \/ Expire \/ Crash \/ Machines

Spec == Init /\ [][Next]_vars

\* The provider runs as long as it has something to do, and the user goes on
\* running terraform destroy until the task is gone.
FairSpec == Spec /\ WF_vars(Provider) /\ SF_vars(Destroy)
------------------------------------------------------------------------------
(* Properties. *)

CloudType ==
  /\ cloud \in [Resources -> Nat]
  /\ desired \in 0 .. Parallelism /\ machines \in 0 .. Parallelism

DataType ==
  /\ input \in {"none", "uploaded", "emptied"}
  /\ made \in 0 .. MaxResults
  /\ stored \subseteq 1 .. made /\ saved \subseteq 1 .. made /\ owed \subseteq 1 .. made

HandlerType ==
  /\ handler \in {"none", "apply", "refresh", "destroy"}
  /\ handler = "none"    => stage = "none"
  /\ handler = "apply"   => stage \in {"create", "probe", "delete"}
  /\ handler = "refresh" => stage = "refresh"
  /\ handler = "destroy" => stage \in {"probe", "delete"}
  /\ pc \in Nat \ {0} /\ part \in Nat
  /\ blank \subseteq Resources

TaskType ==
  /\ conf \in Configs
  /\ tf \in {"absent", "present", "tainted"}
  /\ failures \in 0 .. MaxFailures /\ crashes \in 0 .. MaxCrashes

FlagType == readable \in BOOLEAN /\ expired \in BOOLEAN /\ dangling \in BOOLEAN

TypeOK == CloudType /\ DataType /\ HandlerType /\ TaskType /\ FlagType

\* When Terraform has no such task and no operation is running, the cloud has
\* nothing of it: a failed create that could not clean up keeps its entry
\* (resource_task.go:221-229), and a delete that succeeds has deleted everything.
\* The only way out is an apply whose process died.
NoOrphans ==
  tf = "absent" /\ handler = "none" /\ ~dangling => Existing = {}

\* No resource outlives, nor comes to exist before, one it is built on, whatever
\* failures, crashes and repeated applies: a launch template always has its key
\* pair and bucket, and a machine its storage.
DependencyClosed ==
  \A r \in Existing : Needs[r] \intersect Owned \subseteq Existing

\* A running machine of a task with a bucket of its own can reach that bucket.
MachinesHaveStorage ==
  machines > 0 => cloud[Group] > 0 /\ StorageUp

\* Results that were in the storage when a destroy began are erased only after
\* they are in storage.output, or because Task.Read failed.
PulledBeforeErased ==
  handler = "destroy" /\ conf.output /\ (stage = "delete" => readable)
    => owed \subseteq stored \union saved

\* No machine boots before the workdir is uploaded: Start comes after Push.  A
\* destroy that failed after emptying the bucket can leave machines without it.
BootsAfterUpload ==
  [][machines' > machines /\ conf.workdir => input # "none"]_vars

\* When an apply succeeds every resource has been through all of its creation
\* calls, except those it adopted from an apply that died, and those whose
\* operation failed on a cloud that does not tell (gcp/resources/common.go:18).
AppliedIsComplete ==
  [][tf' = "present" /\ tf # "present" /\ ~dangling =>
       \A i \in DOMAIN CreateSteps(conf) :
         LET s == CreateSteps(conf)[i] IN
         s.kind = "create" /\ (s.res \in Trusting => failures = 0) => cloud[s.res] = s.calls]_vars

\* With a user who keeps running terraform destroy, the task goes away, and with
\* it everything in the cloud.
DestroyConverges == tf # "absent" ~> tf = "absent" /\ Existing = {}

\* "This terminates the machine (if still running), downloads output, and
\* removes the persistent disk_size storage" (README.md:142): no result that a
\* machine managed to upload is erased by a destroy before it is downloaded.
NothingUploadedIsLost ==
  [][handler = "destroy" /\ tf' = "absent" /\ conf.own /\ conf.output
       => 1 .. made \subseteq saved]_vars

\* TaskContract, with the resources that exist for its things.
Contract == INSTANCE TaskContract WITH
  Things <- Resources, Unverified <- Trusting, wanted <- Owned, present <- Existing,
  known <- tf, operation <- handler, lost <- dangling

ImplementsContract == Contract!Spec
==============================================================================
