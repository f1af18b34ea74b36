------------------------------- MODULE K8sTask -------------------------------
(***************************************************************************)
(* Tasks on Kubernetes (task/k8s): for each a config map with the script,  *)
(* a persistent volume claim with the data, and a job.  What differs from  *)
(* the other clouds is how the data get in and out.  Job.Create makes a    *)
(* job that transfers data, instead of one that runs the script, when two  *)
(* variables are set in the environment of the provider process; all the   *)
(* tasks that one terraform command works on share that environment.  The  *)
(* three jobs of a task have the same name, so there is one at a time.     *)
(***************************************************************************)
EXTENDS Integers, Sequences, FiniteSets

CONSTANTS
  Tasks,        \* tasks of one provider process
  Configs,      \* task attributes: [own, workdir, output : BOOLEAN]
  Parallelism,  \* attribute parallelism: pods of a job
  ReadsFail,    \* bound: whether a call that only reads may fail by itself
  MaxResults,   \* bound: results the scripts of a task write
  MaxFailures,  \* bound: API errors, deadlines, lost pods
  MaxCrashes    \* bound: deaths of the provider process

Pods == 1 .. Parallelism

ASSUME ConstantsTyped ==
  /\ Configs \subseteq [own : BOOLEAN, workdir : BOOLEAN, output : BOOLEAN]
  /\ {Parallelism, MaxResults, MaxFailures, MaxCrashes} \subseteq Nat
  /\ ReadsFail \in BOOLEAN

VARIABLES
  conf,       \* attributes of each task
  tf,         \* each task in the Terraform state: absent, present, tainted
  run,        \* run[t]: the handler that is running, its program and place in it
  environ,    \* variables set in the environment of the provider process
  cluster,    \* cluster[t]: the objects of the task in the namespace
  data,       \* data[t]: the directory in the volume, and the results in it
  made,       \* made[t]: number of results ever written
  saved,      \* saved[t]: results in the user's local directory
  failures, crashes,
  dangling,   \* history: tasks of which an apply died
  owed        \* history: results that were in the volume when a destroy began

vars == <<conf, tf, run, environ, cluster, data, made, saved, failures, crashes,
          dangling, owed>>

------------------------------------------------------------------------------
(* The programs.  A step is a call and the variables withEnv sets around it. *)

Pushing == {"TPI_TRANSFER_MODE"}
Pulling == {"TPI_TRANSFER_MODE", "TPI_PULL_MODE"}

Call(name) == [call |-> name, env |-> {}]
withEnv(env, name) == [call |-> name, env |-> env]
OnlyIf(condition, steps) == IF condition THEN steps ELSE <<>>

Reading == {"permissionSet", "readConfigMap", "readClaim", "readJob"}

\* Fault: the job that uploaded the directory is left in place.
CreateKeepsJob(c) ==
  <<Call("permissionSet"), Call("createConfigMap")>>
  \o OnlyIf(c.own, <<Call("createClaim")>>)
  \o OnlyIf(c.workdir, <<withEnv(Pushing, "deleteJob"), withEnv(Pushing, "createJob"),
                         withEnv(Pushing, "push")>>)
  \o <<Call("createJob")>>

\* Fault: the claim is created once the job is.
CreateClaimLast(c) ==
  <<Call("permissionSet"), Call("createConfigMap")>>
  \o OnlyIf(c.workdir, <<withEnv(Pushing, "deleteJob"), withEnv(Pushing, "createJob"),
                         withEnv(Pushing, "push"), withEnv(Pushing, "deleteJob")>>)
  \o <<Call("createJob")>>
  \o OnlyIf(c.own, <<Call("createClaim")>>)

CreateSteps(c) ==
  <<Call("permissionSet"), Call("createConfigMap")>>
  \o OnlyIf(c.own, <<Call("createClaim")>>)
  \o OnlyIf(c.workdir, <<withEnv(Pushing, "deleteJob"), withEnv(Pushing, "createJob"),
                         withEnv(Pushing, "push"), withEnv(Pushing, "deleteJob")>>)
  \o <<Call("createJob")>>

ReadSteps == <<Call("readConfigMap"), Call("readClaim"), Call("readJob")>>

\* Fault: only an output that is given is downloaded.
HasOutput(c) == c.output

\* DirectoryOut is the working directory when no output is given.
HasDirectoryOut(c) == c.workdir \/ c.output

\* Fault: the script goes on while the directory is downloaded.
DeletePullsEarly(c, readable) ==
  OnlyIf(HasDirectoryOut(c) /\ readable, <<withEnv(Pulling, "createJob"), withEnv(Pulling, "pull")>>)
  \o <<Call("deleteJob"), Call("deleteConfigMap")>>
  \o OnlyIf(c.own, <<Call("deleteClaim")>>)

\* The last of the four calls that download says it deletes the job.
DeleteSteps(c, readable) ==
  OnlyIf(HasDirectoryOut(c) /\ readable,
         <<withEnv(Pulling, "deleteJob"), withEnv(Pulling, "createJob"),
           withEnv(Pulling, "pull"), withEnv(Pulling, "createJob")>>)
  \o <<Call("deleteJob"), Call("deleteConfigMap")>>
  \o OnlyIf(c.own, <<Call("deleteClaim")>>)

Program(t) ==
  CASE run[t].stage = "create"               -> CreateSteps(conf[t])
    [] run[t].stage \in {"refresh", "probe"} -> ReadSteps
    [] run[t].stage = "delete"               -> DeleteSteps(conf[t], run[t].readable)
    [] OTHER                                 -> <<>>

Running(t) == run[t].stage # "none" /\ run[t].pc \in DOMAIN Program(t)
Step(t) == Program(t)[run[t].pc]

\* The step at hand is this call, and withEnv has set its variables.
At(t, call) ==
  Running(t) /\ Step(t).call = call /\ (Step(t).env = {} \/ run[t].inside)

------------------------------------------------------------------------------
Handler(operation, stage) ==
  [handler |-> operation, stage |-> stage, pc |-> 1, readable |-> FALSE, inside |-> FALSE]

Idle == Handler("none", "none")

NoPods == [p \in Pods |-> "waiting"]
Nothing == [configMap |-> FALSE, claim |-> FALSE, job |-> "none", pods |-> NoPods]

\* A claim that was there before may hold the directory of an earlier task.
Init ==
  /\ conf \in [Tasks -> Configs]
  /\ tf = [t \in Tasks |-> "absent"]
  /\ run = [t \in Tasks |-> Idle]
  /\ environ = {}
  /\ cluster = [t \in Tasks |-> Nothing]
  /\ data \in [Tasks -> [directory : {"missing", "earlier"}, results : {{}}]]
  /\ \A t \in Tasks : conf[t].own => data[t].directory = "missing"
  /\ made = [t \in Tasks |-> 0] /\ saved = [t \in Tasks |-> {}]
  /\ failures = 0 /\ crashes = 0
  /\ dangling = {} /\ owed = [t \in Tasks |-> {}]

Begin(t, operation, stage) ==
  /\ run[t] = Idle
  /\ run' = [run EXCEPT ![t] = Handler(operation, stage)]
  /\ UNCHANGED <<conf, tf, environ, cluster, data, made, saved, failures, crashes, dangling>>

\* Task.Delete reads the task first only if it has a directory to download.
DeleteStage(t) == IF HasDirectoryOut(conf[t]) THEN "probe" ELSE "delete"

Apply(t) == tf[t] = "absent" /\ Begin(t, "apply", "create") /\ UNCHANGED owed
Refresh(t) == tf[t] # "absent" /\ Begin(t, "refresh", "refresh") /\ UNCHANGED owed
Destroy(t) ==
  /\ tf[t] # "absent"
  /\ Begin(t, "destroy", DeleteStage(t))
  /\ owed' = [owed EXCEPT ![t] = data[t].results]

------------------------------------------------------------------------------
(* withEnv sets variables, calls, and unsets them when the call returns.  A *)
(* handler that ends in the middle of a step has returned from withEnv too. *)
(* The two variables of a download are set, and unset, at once: only the    *)
(* other tasks of the process could tell.                                   *)

Setenv(t) ==
  /\ Running(t) /\ Step(t).env # {} /\ ~run[t].inside
  /\ run' = [run EXCEPT ![t].inside = TRUE]
  /\ environ' = environ \union Step(t).env
  /\ UNCHANGED <<conf, tf, cluster, data, made, saved, failures, crashes, dangling, owed>>

Unsetenv(t) == environ' = IF run[t].inside THEN environ \ Step(t).env ELSE environ

\* Fault: withEnv leaves its variables set.
AdvanceKeepsEnv(t) ==
  /\ run' = [run EXCEPT ![t].pc = @ + 1]
  /\ UNCHANGED <<conf, tf, environ, dangling, owed>>

Advance(t) ==
  /\ run' = [run EXCEPT ![t].pc = @ + 1, ![t].inside = FALSE]
  /\ Unsetenv(t)
  /\ UNCHANGED <<conf, tf, dangling, owed>>

Succeeds(t) == Advance(t) /\ UNCHANGED <<failures, crashes>>

\* resourceTaskCreate tries Task.Delete, which goes on without a download if its
\* Task.Read fails.
Retreat(t) ==
  /\ Unsetenv(t)
  /\ run' = [run EXCEPT ![t] =
       CASE @.stage = "create" -> Handler(@.handler, DeleteStage(t))
         [] @.stage = "probe"  -> Handler(@.handler, "delete")
         [] OTHER              -> Idle]
  /\ UNCHANGED <<conf, dangling, owed>>

\* Fault: a failed apply is forgotten although its clean-up failed.
FailsForgets(t) == Retreat(t) /\ UNCHANGED tf

\* An apply whose clean-up failed too leaves the task in the Terraform state.
Fails(t) ==
  /\ Retreat(t)
  /\ tf' = IF run[t].handler = "apply" /\ run[t].stage = "delete"
           THEN [tf EXCEPT ![t] = "tainted"] ELSE tf

\* Does the object that a Read call asks for exist?
Found(t) ==
  CASE Step(t).call = "readConfigMap" -> cluster[t].configMap
    [] Step(t).call = "readClaim"     -> conf[t].own => cluster[t].claim
    [] Step(t).call = "readJob"       -> cluster[t].job # "none"
    [] OTHER                          -> TRUE

Look(t) ==
  /\ \E call \in Reading : At(t, call)
  /\ IF Found(t) THEN Succeeds(t) ELSE Fails(t) /\ UNCHANGED <<failures, crashes>>
  /\ UNCHANGED <<cluster, data, made, saved>>

------------------------------------------------------------------------------
(* The calls that change the cluster, apart from how the step goes on. *)

\* ConfigMap.Create and PersistentVolumeClaim.Create take an object that is
\* there already for the one they were to create.
CreateObject(t) ==
  /\ \/ /\ At(t, "createConfigMap")
        /\ cluster' = [cluster EXCEPT ![t].configMap = TRUE]
     \/ /\ At(t, "createClaim")
        /\ cluster' = [cluster EXCEPT ![t].claim = TRUE]
  /\ UNCHANGED data

\* A claim is erased with its volume.
DeleteObject(t) ==
  \/ /\ At(t, "deleteConfigMap")
     /\ cluster' = [cluster EXCEPT ![t].configMap = FALSE]
     /\ UNCHANGED data
  \/ /\ At(t, "deleteClaim")
     /\ cluster' = [cluster EXCEPT ![t].claim = FALSE]
     /\ data' = [data EXCEPT ![t] = [directory |-> "missing", results |-> {}]]

\* The environment of the process decides what the pods of a new job do.
Mode ==
  IF "TPI_TRANSFER_MODE" \notin environ THEN "script"
  ELSE IF "TPI_PULL_MODE" \in environ THEN "pull" ELSE "push"

\* Job.Create reads the job that is there already, if any.
CreateJob(t) ==
  /\ At(t, "createJob")
  /\ IF cluster[t].job = "none"
     THEN cluster' = [cluster EXCEPT ![t].job = Mode, ![t].pods = NoPods]
     ELSE UNCHANGED cluster
  /\ UNCHANGED data

\* Job.Delete waits for the job and its pods to be gone.
DeleteJob(t) ==
  /\ At(t, "deleteJob")
  /\ cluster' = [cluster EXCEPT ![t].job = "none", ![t].pods = NoPods]
  /\ UNCHANGED data

ClusterCall(t) == CreateObject(t) \/ DeleteObject(t) \/ CreateJob(t) \/ DeleteJob(t)

StepCluster(t) == ClusterCall(t) /\ Succeeds(t) /\ UNCHANGED <<made, saved>>

Ready(t) == {p \in Pods : cluster[t].pods[p] \in {"started", "settled"}}

\* WaitForPods waits for the pods it finds, which need not be all of them.
StepPush(t) ==
  /\ At(t, "push") /\ Ready(t) # {}
  /\ Succeeds(t)
  /\ data' = [data EXCEPT ![t].directory = "uploaded"]
  /\ UNCHANGED <<cluster, made, saved>>

\* The volume is mounted only if there is a working directory.
HasDirectory(t) == conf[t].workdir /\ data[t].directory # "missing"

StepPull(t) ==
  /\ At(t, "pull") /\ Ready(t) # {} /\ HasDirectory(t)
  /\ Succeeds(t)
  /\ saved' = [saved EXCEPT ![t] = @ \union data[t].results]
  /\ UNCHANGED <<cluster, data, made>>

\* There is no directory to copy from, or a pod that is over will not be ready.
StepTransferFails(t) ==
  /\ \/ At(t, "pull") /\ Ready(t) # {} /\ ~HasDirectory(t)
     \/ /\ At(t, "push") \/ At(t, "pull")
        /\ \E p \in Pods : cluster[t].pods[p] = "over"
  /\ Fails(t)
  /\ UNCHANGED <<cluster, data, made, saved, failures, crashes>>

\* A call returns an error, before or after it took effect.
StepError(t) ==
  /\ Running(t) /\ At(t, Step(t).call)
  /\ Step(t).call \in Reading => ReadsFail
  /\ failures < MaxFailures /\ failures' = failures + 1
  /\ ClusterCall(t) \/ UNCHANGED <<cluster, data>>
  /\ Fails(t)
  /\ UNCHANGED <<made, saved, crashes>>

------------------------------------------------------------------------------
(* The ends of the programs, deadlines and the death of the process. *)

Ended(t, stage) == run[t].stage = stage /\ ~Running(t)

End(t, state) ==
  /\ run' = [run EXCEPT ![t] = Idle]
  /\ tf' = [tf EXCEPT ![t] = state]
  /\ UNCHANGED <<conf, environ, cluster, data, made, saved, failures, crashes, owed>>

CreateReturns(t)  == Ended(t, "create")  /\ End(t, "present") /\ UNCHANGED dangling
RefreshReturns(t) == Ended(t, "refresh") /\ End(t, tf[t]) /\ UNCHANGED dangling
DeleteReturns(t)  == Ended(t, "delete")  /\ End(t, "absent") /\ dangling' = dangling \ {t}

ProbeReturns(t) ==
  /\ Ended(t, "probe")
  /\ run' = [run EXCEPT ![t] = [Handler(@.handler, "delete") EXCEPT !.readable = TRUE]]
  /\ UNCHANGED <<conf, tf, environ, cluster, data, made, saved, failures, crashes>>
  /\ UNCHANGED <<dangling, owed>>

\* The deadline of the handler passes: every later call returns at once with an
\* error, those of the clean-up too.
Expire(t) ==
  /\ Running(t) /\ failures < MaxFailures /\ failures' = failures + 1
  /\ run' = [run EXCEPT ![t] = Idle]
  /\ Unsetenv(t)
  /\ tf' = IF run[t].handler = "apply" THEN [tf EXCEPT ![t] = "tainted"] ELSE tf
  /\ UNCHANGED <<conf, cluster, data, made, saved, crashes, dangling, owed>>

Crash ==
  /\ crashes < MaxCrashes /\ crashes' = crashes + 1
  /\ \E t \in Tasks : run[t] # Idle
  /\ run' = [t \in Tasks |-> Idle] /\ environ' = {}
  /\ dangling' = dangling \union {t \in Tasks : run[t].handler = "apply"}
  /\ UNCHANGED <<conf, tf, cluster, data, made, saved, failures, owed>>

------------------------------------------------------------------------------
(* The pods.  A pod is ready as soon as its container started. *)

PodStep == UNCHANGED <<conf, tf, run, environ, crashes, dangling, owed, saved>>

Becomes(t, p, state) == cluster' = [cluster EXCEPT ![t].pods[p] = state]

PodStarts(t, p) ==
  /\ cluster[t].job # "none" /\ cluster[t].pods[p] = "waiting"
  /\ Becomes(t, p, "started")
  /\ UNCHANGED <<data, made, failures>> /\ PodStep

\* The first thing that a pod of an uploading job does.
PodErases(t, p) ==
  /\ cluster[t].job = "push" /\ cluster[t].pods[p] = "started"
  /\ Becomes(t, p, "settled")
  /\ data' = IF conf[t].workdir
             THEN [data EXCEPT ![t] = [directory |-> "missing", results |-> {}]] ELSE data
  /\ UNCHANGED <<made, failures>> /\ PodStep

ScriptWrites(t, p) ==
  /\ cluster[t].job = "script" /\ cluster[t].pods[p] = "started"
  /\ made[t] < MaxResults /\ HasDirectory(t)
  /\ made' = [made EXCEPT ![t] = @ + 1]
  /\ data' = [data EXCEPT ![t].results = @ \union {made[t] + 1}]
  /\ UNCHANGED <<cluster, failures>> /\ PodStep

ScriptExits(t, p) ==
  /\ cluster[t].job = "script" /\ cluster[t].pods[p] = "started"
  /\ Becomes(t, p, "over")
  /\ UNCHANGED <<data, made, failures>> /\ PodStep

\* activeDeadlineSeconds ends the pods of any of the three jobs.
JobTimesOut(t) ==
  /\ cluster[t].job # "none"
  /\ \E p \in Pods : cluster[t].pods[p] # "over"
  /\ failures < MaxFailures /\ failures' = failures + 1
  /\ cluster' = [cluster EXCEPT ![t].pods = [p \in Pods |-> "over"]]
  /\ UNCHANGED <<data, made>> /\ PodStep

\* A pod is lost with its node, and the job, whose backoff limit is as large as
\* can be, makes another.
PodLost(t, p) ==
  /\ p \in Ready(t)
  /\ failures < MaxFailures /\ failures' = failures + 1
  /\ Becomes(t, p, "waiting")
  /\ UNCHANGED <<data, made>> /\ PodStep

------------------------------------------------------------------------------
Provider(t) ==
  \/ Setenv(t) \/ Look(t) \/ StepCluster(t) \/ StepPush(t) \/ StepPull(t)
  \/ StepTransferFails(t) \/ StepError(t)
  \/ CreateReturns(t) \/ RefreshReturns(t) \/ ProbeReturns(t) \/ DeleteReturns(t)

Next ==
  \/ \E t \in Tasks :
       \/ Apply(t) \/ Refresh(t) \/ Destroy(t) \/ Provider(t) \/ Expire(t) \/ JobTimesOut(t)
       \/ \E p \in Pods :
            \/ PodStarts(t, p) \/ PodErases(t, p) \/ ScriptWrites(t, p)
            \/ ScriptExits(t, p) \/ PodLost(t, p)
  \/ Crash

Spec == Init /\ [][Next]_vars
------------------------------------------------------------------------------
(* Properties. *)

Run == [handler : {"none", "apply", "refresh", "destroy"},
        stage : {"none", "create", "refresh", "probe", "delete"},
        pc : 1 .. 9, readable : BOOLEAN, inside : BOOLEAN]

Cluster == [configMap : BOOLEAN, claim : BOOLEAN, job : {"none", "push", "pull", "script"},
            pods : [Pods -> {"waiting", "started", "settled", "over"}]]

Data == [directory : {"missing", "earlier", "uploaded"}, results : SUBSET (1 .. MaxResults)]

RunType ==
  /\ run \in [Tasks -> Run] /\ environ \subseteq Pulling
  /\ \A t \in Tasks : run[t].inside => Running(t)

DataType ==
  /\ data \in [Tasks -> Data] /\ made \in [Tasks -> 0 .. MaxResults]
  /\ saved \in [Tasks -> SUBSET (1 .. MaxResults)] /\ owed \in [Tasks -> SUBSET (1 .. MaxResults)]
  /\ \A t \in Tasks : data[t].results \union saved[t] \union owed[t] \subseteq 1 .. made[t]

TaskType ==
  /\ conf \in [Tasks -> Configs] /\ tf \in [Tasks -> {"absent", "present", "tainted"}]
  /\ failures \in 0 .. MaxFailures /\ crashes \in 0 .. MaxCrashes
  /\ dangling \subseteq Tasks

TypeOK == RunType /\ cluster \in [Tasks -> Cluster] /\ DataType /\ TaskType

\* When Terraform has no such task, no handler is running for it and no apply of
\* it died, the namespace has nothing of it: resource_task.go:221-229 with
\* Task.Delete of task/k8s, however the clean-up of a failed apply went.
NoOrphans ==
  \A t \in Tasks :
    tf[t] = "absent" /\ run[t] = Idle /\ t \notin dangling => cluster[t] = Nothing

\* A job of a task never exists without the config map with the script and the
\* claim with the data that its pods mount: both are made before any of the
\* three jobs, and deleted after the last.
JobHasVolumes ==
  \A t \in Tasks :
    cluster[t].job # "none" => cluster[t].configMap /\ (conf[t].own => cluster[t].claim)

\* Once a destroy has downloaded the directory nothing is written to it: the
\* script's pods are gone before the download (task.go:216-222), so that what is
\* erased with the claim has been saved.
QuietAfterPull ==
  \A t \in Tasks :
    /\ run[t].handler = "destroy" /\ run[t].stage = "delete" /\ run[t].readable
    /\ \E i \in 1 .. run[t].pc - 1 : Program(t)[i].call = "pull"
    => data[t].results \subseteq saved[t]

\* An apply that succeeds leaves a job that runs the script (task.go:164-167), and
\* not one of those that transfer data, which have its name.  The only way out is
\* a task without a working directory that adopts what a dying apply left.
AppliedRunsScript ==
  [][\A t \in Tasks :
       tf[t] # "present" /\ tf'[t] = "present" /\ (t \in dangling => conf[t].workdir)
         => cluster'[t].job = "script"]_vars

\* terraform destroy "downloads output" (README.md:142): a destroy that succeeds
\* leaves in storage.output the results that were in the volume at its start, if its
\* Task.Read succeeded, and also whenever no call failed before and nothing died.
\* The rest is the destroy that is tried again after it deleted the job: it finds
\* none, and takes that for a reason not to download (task.go:210-222).
DestroyDownloads ==
  [][\A t \in Tasks :
       tf[t] # "absent" /\ tf'[t] = "absent" /\ conf[t].own /\ conf[t].workdir
         /\ (run[t].readable \/ (failures = 0 /\ crashes = 0))
         => owed[t] \subseteq saved'[t]]_vars
==============================================================================
