---------------------------- MODULE K8sTask_proofs ----------------------------
(***************************************************************************)
(* Theorems about K8sTask, for any number of pods, results, failures and   *)
(* crashes; those that hold whatever other tasks the provider process      *)
(* works on, and those that need the process to work on one task only.     *)
(***************************************************************************)
EXTENDS K8sTask, SequenceTheorems, TLAPS

------------------------------------------------------------------------------
(* The inductive invariant of one task. *)

\* What a handler is doing, and what Terraform knows of the task meanwhile.
HandlerInv(t) ==
  /\ run[t].stage = "none" => run[t] = Idle
  /\ run[t].stage = "create" => run[t].handler = "apply"
  /\ run[t].stage = "refresh" => run[t].handler = "refresh"
  /\ run[t].stage \in {"probe", "delete"} => run[t].handler \in {"apply", "destroy"}
  /\ run[t].stage # "none" => (run[t].handler = "apply" <=> tf[t] = "absent")
  /\ run[t].readable => run[t].stage = "delete"

\* The steps of Delete that download come before those that delete.
Downloads(t) == HasDirectoryOut(conf[t]) /\ run[t].readable
Skipped(t) == IF Downloads(t) THEN 4 ELSE 0

\* No job, no pods; no claim of a task that was given one.
ObjectsInv(t) ==
  /\ cluster[t].job = "none" => cluster[t].pods = NoPods
  /\ cluster[t].claim => conf[t].own

VolumesInv(t) ==
  cluster[t].job # "none" => cluster[t].configMap /\ (conf[t].own => cluster[t].claim)

\* What the steps of Create that are behind have made.
CreatedInv(t) ==
  run[t].stage = "create" =>
    /\ run[t].pc > 2 => cluster[t].configMap
    /\ run[t].pc > 3 /\ conf[t].own => cluster[t].claim
    /\ run[t].pc > Len(CreateSteps(conf[t])) => cluster[t].job # "none"
    /\ conf[t].workdir /\ run[t].pc = Len(CreateSteps(conf[t])) - 2 => cluster[t].job # "none"

\* What a Read found is there until Delete deletes it.
FoundInv(t) ==
  /\ run[t].stage = "probe" =>
       /\ run[t].pc > 1 => cluster[t].configMap
       /\ run[t].pc > 2 /\ conf[t].own => cluster[t].claim
  /\ run[t].stage = "delete" /\ Downloads(t) =>
       /\ run[t].pc < 7 => cluster[t].configMap
       /\ run[t].pc < 8 /\ conf[t].own => cluster[t].claim
       /\ run[t].pc = 3 => cluster[t].job # "none"

\* What the steps of Delete that are behind have deleted.
DeletedInv(t) ==
  run[t].stage = "delete" =>
    /\ run[t].pc > Skipped(t) + 1 => cluster[t].job = "none"
    /\ run[t].pc > Skipped(t) + 2 => ~cluster[t].configMap
    /\ run[t].pc > Skipped(t) + 3 => ~cluster[t].claim

\* NoOrphans, of one task.
TrackedInv(t) ==
  tf[t] = "absent" /\ run[t] = Idle /\ t \notin dangling => cluster[t] = Nothing

CloudInv(t) ==
  /\ ObjectsInv(t) /\ VolumesInv(t) /\ CreatedInv(t) /\ FoundInv(t) /\ DeletedInv(t)
  /\ TrackedInv(t)

\* What a destroy owes is in the volume, unless its directory is gone, and once
\* the download is behind it is saved.
OwedInv(t) ==
  run[t].handler = "destroy" /\ conf[t].own /\ conf[t].workdir =>
    /\ run[t].stage = "probe" \/ (run[t].stage = "delete" /\ Downloads(t) /\ run[t].pc < 4)
         => data[t].directory = "missing" \/ owed[t] \subseteq data[t].results \union saved[t]
    /\ run[t].stage = "delete" /\ Downloads(t) /\ run[t].pc > 3 => owed[t] \subseteq saved[t]

\* As long as nothing failed, all of a task that is not being made or deleted is
\* there, and every Read finds it.
CalmInv(t) ==
  failures = 0 /\ crashes = 0 =>
    /\ run[t].stage = "probe" \/ (tf[t] # "absent" /\ run[t].stage \in {"none", "refresh"})
         => /\ cluster[t].configMap /\ (conf[t].own => cluster[t].claim)
            /\ cluster[t].job # "none"
    /\ run[t].stage = "delete" /\ HasDirectoryOut(conf[t]) => run[t].readable

TaskInv(t) == HandlerInv(t) /\ CloudInv(t) /\ OwedInv(t) /\ CalmInv(t)

IInv == \A t \in Tasks : TaskInv(t)

\* A step that concerns task t leaves the others as they are.
Apart(t) ==
  /\ conf' = conf /\ failures' >= failures /\ crashes' >= crashes
  /\ \A u \in Tasks \ {t} :
       /\ tf'[u] = tf[u] /\ run'[u] = run[u] /\ cluster'[u] = cluster[u] /\ data'[u] = data[u]
       /\ saved'[u] = saved[u] /\ owed'[u] = owed[u] /\ (u \in dangling' <=> u \in dangling)

\* What the pods of a task do, and what happens to them.
PodSteps(t) ==
  \/ JobTimesOut(t)
  \/ \E p \in Pods :
       \/ PodStarts(t, p) \/ PodErases(t, p) \/ ScriptWrites(t, p)
       \/ ScriptExits(t, p) \/ PodLost(t, p)

------------------------------------------------------------------------------
(* And of the only task of a provider process. *)

\* Nobody else sets or unsets variables.
EnvironInv(t) == environ = IF run[t].inside THEN Step(t).env ELSE {}

\* The script's job is gone before the download, and nothing else adds results.
QuietInv(t) ==
  run[t].stage = "delete" /\ Downloads(t) =>
    /\ run[t].pc > 1 => cluster[t].job # "script"
    /\ run[t].pc > 3 => data[t].results \subseteq saved[t]

\* Create makes its last job when there is none, unless it adopted one.
ScriptInv(t) ==
  run[t].stage = "create" =>
    LET last == Len(CreateSteps(conf[t])) IN
    /\ conf[t].workdir /\ run[t].pc = last => cluster[t].job = "none"
    /\ ~conf[t].workdir /\ t \notin dangling /\ run[t].pc <= last => cluster[t].job = "none"
    /\ (t \in dangling => conf[t].workdir) /\ run[t].pc > last => cluster[t].job = "script"

\* Delete has no more steps than these.
LengthInv(t) ==
  run[t].stage = "delete" => run[t].pc <= Skipped(t) + 3 + (IF conf[t].own THEN 1 ELSE 0)

OnlyInv(t) == EnvironInv(t) /\ QuietInv(t) /\ ScriptInv(t) /\ LengthInv(t)

AloneInv == \A t \in Tasks : OnlyInv(t)

Alone == \A s, t \in Tasks : s = t
------------------------------------------------------------------------------
(* Where the programs have their steps. *)

\* Task.Create: the config map, the claim, the upload, and the job at the end.
LEMMA CreatePlaces ==
  ASSUME NEW c \in Configs, NEW P, P = CreateSteps(c)
  PROVE  /\ Len(P) = 3 + (IF c.own THEN 1 ELSE 0) + (IF c.workdir THEN 4 ELSE 0)
         /\ DOMAIN P = 1 .. Len(P)
         /\ \A i \in 1 .. Len(P) :
              /\ P[i].call \in {"permissionSet", "createConfigMap", "createClaim", "deleteJob",
                                "createJob", "push"}
              /\ P[i].env \in {{}, Pushing}
              /\ P[i].call = "permissionSet" <=> i = 1
              /\ P[i].call = "createConfigMap" <=> i = 2
              /\ P[i].call = "createClaim" <=> c.own /\ i = 3
              /\ P[i].call = "createJob" <=> i = Len(P) \/ (c.workdir /\ i = Len(P) - 3)
              /\ P[i].call = "push" <=> c.workdir /\ i = Len(P) - 2
              /\ P[i].call = "deleteJob" <=> c.workdir /\ i \in {Len(P) - 1, Len(P) - 4}
              /\ i = Len(P) => P[i].env = {}
<1>1. c.own \in BOOLEAN /\ c.workdir \in BOOLEAN
  BY ConstantsTyped
<1>2. CASE c.own /\ c.workdir
  BY <1>2, SMT DEF CreateSteps, OnlyIf, withEnv, Call, Pushing
<1>3. CASE c.own /\ ~c.workdir
  BY <1>3, SMT DEF CreateSteps, OnlyIf, withEnv, Call, Pushing
<1>4. CASE ~c.own /\ c.workdir
  BY <1>4, SMT DEF CreateSteps, OnlyIf, withEnv, Call, Pushing
<1>5. CASE ~c.own /\ ~c.workdir
  BY <1>5, SMT DEF CreateSteps, OnlyIf, withEnv, Call, Pushing
<1>6. QED
  BY <1>1, <1>2, <1>3, <1>4, <1>5

\* Task.Delete: the download, if there is one, and then the three objects.
LEMMA DeletePlaces ==
  ASSUME NEW c \in Configs, NEW readable \in BOOLEAN, NEW P, P = DeleteSteps(c, readable),
         NEW k, k = IF HasDirectoryOut(c) /\ readable THEN 4 ELSE 0
  PROVE  /\ Len(P) = k + 2 + (IF c.own THEN 1 ELSE 0)
         /\ DOMAIN P = 1 .. Len(P)
         /\ \A i \in 1 .. Len(P) :
              /\ P[i].call \in {"deleteJob", "createJob", "pull", "deleteConfigMap", "deleteClaim"}
              /\ P[i].env = IF i > k THEN {} ELSE Pulling
              /\ P[i].call = "deleteJob" <=> i = k + 1 \/ (k = 4 /\ i = 1)
              /\ P[i].call = "createJob" <=> k = 4 /\ i \in {2, 4}
              /\ P[i].call = "pull" <=> k = 4 /\ i = 3
              /\ P[i].call = "deleteConfigMap" <=> i = k + 2
              /\ P[i].call = "deleteClaim" <=> c.own /\ i = k + 3
<1>1. c.own \in BOOLEAN
  BY ConstantsTyped
<1>2. CASE HasDirectoryOut(c) /\ readable
  <2>1. k = 4
    BY <1>2
  <2>2. CASE c.own
    <3>1. /\ Len(P) = 7 /\ DOMAIN P = 1 .. 7
          /\ P[1].call = "deleteJob" /\ P[2].call = "createJob" /\ P[3].call = "pull"
          /\ P[4].call = "createJob" /\ P[5].call = "deleteJob" /\ P[6].call = "deleteConfigMap"
          /\ P[7].call = "deleteClaim"
          /\ P[1].env = Pulling /\ P[2].env = Pulling /\ P[3].env = Pulling /\ P[4].env = Pulling
          /\ P[5].env = {} /\ P[6].env = {} /\ P[7].env = {}
      BY <1>2, <2>2, SMT DEF DeleteSteps, OnlyIf, withEnv, Call
    <3>2. QED
      BY <2>1, <2>2, <3>1
  <2>3. CASE ~c.own
    <3>1. /\ Len(P) = 6 /\ DOMAIN P = 1 .. 6
          /\ P[1].call = "deleteJob" /\ P[2].call = "createJob" /\ P[3].call = "pull"
          /\ P[4].call = "createJob" /\ P[5].call = "deleteJob" /\ P[6].call = "deleteConfigMap"
          /\ P[1].env = Pulling /\ P[2].env = Pulling /\ P[3].env = Pulling /\ P[4].env = Pulling
          /\ P[5].env = {} /\ P[6].env = {}
      BY <1>2, <2>3, SMT DEF DeleteSteps, OnlyIf, withEnv, Call
    <3>2. QED
      BY <2>1, <2>3, <3>1
  <2>4. QED
    BY <2>2, <2>3
<1>3. CASE ~(HasDirectoryOut(c) /\ readable)
  <2>1. k = 0
    BY <1>3
  <2>2. CASE c.own
    <3>1. /\ Len(P) = 3 /\ DOMAIN P = 1 .. 3
          /\ P[1].call = "deleteJob" /\ P[2].call = "deleteConfigMap" /\ P[3].call = "deleteClaim"
          /\ P[1].env = {} /\ P[2].env = {} /\ P[3].env = {}
      BY <1>3, <2>2, SMT DEF DeleteSteps, OnlyIf, withEnv, Call
    <3>2. QED
      BY <2>1, <2>2, <3>1
  <2>3. CASE ~c.own
    <3>1. /\ Len(P) = 2 /\ DOMAIN P = 1 .. 2
          /\ P[1].call = "deleteJob" /\ P[2].call = "deleteConfigMap"
          /\ P[1].env = {} /\ P[2].env = {}
      BY <1>3, <2>3, SMT DEF DeleteSteps, OnlyIf, withEnv, Call
    <3>2. QED
      BY <2>1, <2>3, <3>1
  <2>4. QED
    BY <2>2, <2>3
<1>4. QED
  BY <1>2, <1>3

\* Task.Read.
LEMMA ReadPlaces ==
  /\ Len(ReadSteps) = 3 /\ DOMAIN ReadSteps = 1 .. 3
  /\ ReadSteps[1] = Call("readConfigMap") /\ ReadSteps[2] = Call("readClaim")
  /\ ReadSteps[3] = Call("readJob")
BY SMT DEF ReadSteps, Call

\* The program of each stage.
LEMMA ProgramOf ==
  ASSUME NEW t \in Tasks
  PROVE  /\ run[t].stage = "create" => Program(t) = CreateSteps(conf[t])
         /\ run[t].stage \in {"refresh", "probe"} => Program(t) = ReadSteps
         /\ run[t].stage = "delete" => Program(t) = DeleteSteps(conf[t], run[t].readable)
BY DEF Program

\* What is typed of one task.
LEMMA TaskTypes ==
  ASSUME TypeOK, NEW t \in Tasks
  PROVE  /\ conf[t] \in Configs
         /\ conf[t].own \in BOOLEAN /\ conf[t].workdir \in BOOLEAN /\ conf[t].output \in BOOLEAN
         /\ run[t] \in Run /\ cluster[t] \in Cluster /\ data[t] \in Data
         /\ run[t].pc \in 1 .. 9 /\ run[t].readable \in BOOLEAN /\ run[t].inside \in BOOLEAN
BY ConstantsTyped DEF TypeOK, TaskType, RunType, DataType, Run

\* The step at hand, in each stage.
LEMMA CreateStep ==
  ASSUME TypeOK, NEW t \in Tasks, Running(t), run[t].stage = "create",
         NEW n, n = Len(CreateSteps(conf[t])), NEW i, i = run[t].pc
  PROVE  /\ i \in 1 .. n /\ n \in 3 .. 8
         /\ n = 3 + (IF conf[t].own THEN 1 ELSE 0) + (IF conf[t].workdir THEN 4 ELSE 0)
         /\ Step(t).call \in {"permissionSet", "createConfigMap", "createClaim", "deleteJob",
                              "createJob", "push"}
         /\ Step(t).env \in {{}, Pushing}
         /\ Step(t).call = "permissionSet" <=> i = 1
         /\ Step(t).call = "createConfigMap" <=> i = 2
         /\ Step(t).call = "createClaim" <=> conf[t].own /\ i = 3
         /\ Step(t).call = "createJob" <=> i = n \/ (conf[t].workdir /\ i = n - 3)
         /\ Step(t).call = "push" <=> conf[t].workdir /\ i = n - 2
         /\ Step(t).call = "deleteJob" <=> conf[t].workdir /\ i \in {n - 1, n - 4}
         /\ i = n => Step(t).env = {}
<1>1. Program(t) = CreateSteps(conf[t]) /\ conf[t] \in Configs
  BY ProgramOf, TaskTypes
<1>2. i \in 1 .. n
  BY <1>1, CreatePlaces DEF Running
<1>3. Step(t) = CreateSteps(conf[t])[i]
  BY <1>1 DEF Step
<1>4. n = 3 + (IF conf[t].own THEN 1 ELSE 0) + (IF conf[t].workdir THEN 4 ELSE 0)
  BY <1>1, CreatePlaces
<1>5. n \in 3 .. 8
  BY <1>4
<1>6. QED
  BY <1>1, <1>2, <1>3, <1>5, <1>4, CreatePlaces, SMTT(60)

LEMMA DeleteStep ==
  ASSUME TypeOK, NEW t \in Tasks, Running(t), run[t].stage = "delete",
         NEW k, k = Skipped(t), NEW i, i = run[t].pc
  PROVE  /\ i \in 1 .. k + 2 + (IF conf[t].own THEN 1 ELSE 0)
         /\ Step(t).call \in {"deleteJob", "createJob", "pull", "deleteConfigMap", "deleteClaim"}
         /\ Step(t).env = IF i > k THEN {} ELSE Pulling
         /\ Step(t).call = "deleteJob" <=> i = k + 1 \/ (k = 4 /\ i = 1)
         /\ Step(t).call = "createJob" <=> k = 4 /\ i \in {2, 4}
         /\ Step(t).call = "pull" <=> k = 4 /\ i = 3
         /\ Step(t).call = "deleteConfigMap" <=> i = k + 2
         /\ Step(t).call = "deleteClaim" <=> conf[t].own /\ i = k + 3
<1>1. /\ Program(t) = DeleteSteps(conf[t], run[t].readable) /\ conf[t] \in Configs
      /\ run[t].readable \in BOOLEAN
  BY ProgramOf, TaskTypes
<1>2. k = IF HasDirectoryOut(conf[t]) /\ run[t].readable THEN 4 ELSE 0
  BY DEF Skipped, Downloads
<1>3. i \in 1 .. k + 2 + (IF conf[t].own THEN 1 ELSE 0)
  BY <1>1, <1>2, DeletePlaces DEF Running
<1>4. Step(t) = DeleteSteps(conf[t], run[t].readable)[i]
  BY <1>1 DEF Step
<1>5. QED
  BY <1>1, <1>2, <1>3, <1>4, DeletePlaces, SMTT(60)

LEMMA ReadStep ==
  ASSUME TypeOK, NEW t \in Tasks, Running(t), run[t].stage \in {"refresh", "probe"},
         NEW i, i = run[t].pc
  PROVE  /\ i \in 1 .. 3 /\ Step(t).env = {}
         /\ Step(t).call = "readConfigMap" <=> i = 1
         /\ Step(t).call = "readClaim" <=> i = 2
         /\ Step(t).call = "readJob" <=> i = 3
         /\ Step(t).call \in {"readConfigMap", "readClaim", "readJob"}
<1>1. Program(t) = ReadSteps
  BY ProgramOf
<1>2. i \in 1 .. 3
  BY <1>1, ReadPlaces DEF Running
<1>3. QED
  BY <1>1, <1>2, ReadPlaces DEF Step, Call
\* The stage that a step belongs to.
LEMMA StageOf ==
  ASSUME TypeOK, NEW t \in Tasks, Running(t)
  PROVE  /\ run[t].stage \in {"create", "refresh", "probe", "delete"}
         /\ Step(t).call \in {"permissionSet", "createConfigMap", "createClaim", "push"}
              => run[t].stage = "create"
         /\ Step(t).call \in {"pull", "deleteConfigMap", "deleteClaim"}
              => run[t].stage = "delete"
         /\ Step(t).call \in {"createJob", "deleteJob"}
              => run[t].stage \in {"create", "delete"}
         /\ Step(t).call \in {"readConfigMap", "readClaim", "readJob"}
              => run[t].stage \in {"refresh", "probe"}
         /\ run[t].pc \in 1 .. 8 /\ Step(t).env \in {{}, Pushing, Pulling}
<1>1. run[t].stage \in {"create", "refresh", "probe", "delete"}
  BY TaskTypes DEF Running, Run
<1>2. CASE run[t].stage = "create"
  <2>1. PICK n \in 3 .. 8 : run[t].pc \in 1 .. n
    BY <1>2, CreateStep
  <2>2. run[t].pc \in 1 .. 8
    BY <2>1
  <2>3. /\ Step(t).call \in {"permissionSet", "createConfigMap", "createClaim", "deleteJob",
                             "createJob", "push"}
        /\ Step(t).env \in {{}, Pushing}
    BY <1>2, CreateStep
  <2>4. QED
    BY <1>2, <2>2, <2>3
<1>3. CASE run[t].stage \in {"refresh", "probe"}
  BY <1>3, ReadStep
<1>4. CASE run[t].stage = "delete"
  <2>1. Skipped(t) \in {0, 4}
    BY DEF Skipped
  <2>2. run[t].pc \in 1 .. 8
    BY <1>4, <2>1, DeleteStep
  <2>3. QED
    BY <1>4, <2>2, DeleteStep
<1>5. QED
  BY <1>1, <1>2, <1>3, <1>4

------------------------------------------------------------------------------
(* Type correctness. *)

\* A handler of task t goes on or ends, or begins; the others stay where they are.
LEMMA RunTypeOf ==
  ASSUME TypeOK, NEW t \in Tasks, NEW r \in Run, run' = [run EXCEPT ![t] = r], conf' = conf,
         ~r.inside \/ (r.stage = run[t].stage /\ r.pc = run[t].pc
                         /\ r.readable = run[t].readable /\ Running(t)),
         environ' \subseteq Pulling
  PROVE  RunType'
<1>1. run' \in [Tasks -> Run] /\ run'[t] = r
  BY DEF TypeOK, RunType
<1>2. ASSUME NEW u \in Tasks, run'[u].inside
      PROVE  Running(u)'
  <2>1. CASE u = t
    <3>1. Program(t)' = Program(t)
      BY <1>1, <1>2, <2>1 DEF Program
    <3>2. QED
      BY <1>1, <1>2, <2>1, <3>1 DEF Running
  <2>2. CASE u # t
    <3>1. run'[u] = run[u]
      BY <2>2 DEF TypeOK, RunType
    <3>2. Program(u)' = Program(u)
      BY <3>1 DEF Program
    <3>3. QED
      BY <1>2, <3>1, <3>2 DEF Running, TypeOK, RunType
  <2>3. QED
    BY <2>1, <2>2
<1>3. QED
  BY <1>1, <1>2 DEF RunType

\* Every handler that begins is of the type of handlers.
LEMMA HandlerRun ==
  ASSUME NEW operation \in {"none", "apply", "refresh", "destroy"},
         NEW stage \in {"none", "create", "refresh", "probe", "delete"}
  PROVE  Handler(operation, stage) \in Run /\ ~Handler(operation, stage).inside
BY DEF Handler, Run

LEMMA UnsetenvType ==
  ASSUME TypeOK, NEW t \in Tasks, Unsetenv(t)
  PROVE  environ' \subseteq Pulling
BY DEF TypeOK, RunType, Unsetenv

\* withEnv returns, and the next step is tried.
LEMMA AdvanceType ==
  ASSUME TypeOK, NEW t \in Tasks, Running(t), Advance(t)
  PROVE  RunType' /\ conf' = conf /\ tf' = tf /\ dangling' = dangling /\ owed' = owed
<1> DEFINE r == [run[t] EXCEPT !.pc = @ + 1, !.inside = FALSE]
<1>1. r \in Run /\ ~r.inside
  <2>1. run[t].pc \in 1 .. 8 /\ run[t] \in Run
    BY StageOf, TaskTypes
  <2>2. run[t].pc + 1 \in 1 .. 9
    BY <2>1
  <2>3. QED
    BY <2>1, <2>2 DEF Run
<1>2. run' = [run EXCEPT ![t] = r] /\ conf' = conf
  BY DEF Advance, TypeOK, RunType
<1>3. RunType'
  BY <1>1, <1>2, RunTypeOf, UnsetenvType DEF Advance
<1>4. QED
  BY <1>3 DEF Advance

\* What a handler goes on with after an error.
LEMMA RetreatTo ==
  ASSUME TypeOK, NEW t \in Tasks, Retreat(t)
  PROVE  /\ run' = [run EXCEPT ![t] = run'[t]]
         /\ run[t].stage = "create" => run'[t] = Handler(run[t].handler, DeleteStage(t))
         /\ run[t].stage = "probe" => run'[t] = Handler(run[t].handler, "delete")
         /\ run[t].stage \notin {"create", "probe"} => run'[t] = Idle
         /\ run'[t] \in Run /\ ~run'[t].inside
<1>1. /\ run' = [run EXCEPT ![t] = run'[t]]
      /\ run[t].stage = "create" => run'[t] = Handler(run[t].handler, DeleteStage(t))
      /\ run[t].stage = "probe" => run'[t] = Handler(run[t].handler, "delete")
      /\ run[t].stage \notin {"create", "probe"} => run'[t] = Idle
  BY DEF TypeOK, RunType, Retreat
<1>2. DeleteStage(t) \in {"probe", "delete"}
  BY DEF DeleteStage
<1>3. run[t].handler \in {"none", "apply", "refresh", "destroy"}
  BY TaskTypes DEF Run
<1>4. QED
  BY <1>1, <1>2, <1>3, HandlerRun DEF Idle

LEMMA RetreatType ==
  ASSUME TypeOK, NEW t \in Tasks, Retreat(t)
  PROVE  RunType' /\ conf' = conf /\ dangling' = dangling /\ owed' = owed
<1>1. conf' = conf /\ environ' \subseteq Pulling
  BY UnsetenvType DEF Retreat
<1>2. RunType'
  BY <1>1, RetreatTo, RunTypeOf
<1>3. QED
  BY <1>2 DEF Retreat

LEMMA FailsType ==
  ASSUME TypeOK, NEW t \in Tasks, Fails(t)
  PROVE  /\ RunType' /\ conf' = conf /\ dangling' = dangling /\ owed' = owed
         /\ tf' \in [Tasks -> {"absent", "present", "tainted"}]
<1>1. tf' \in [Tasks -> {"absent", "present", "tainted"}]
  BY DEF Fails, TypeOK, TaskType
<1>2. QED
  BY <1>1, RetreatType DEF Fails

\* The objects, and the volume, that a call changes.
LEMMA CallCluster ==
  ASSUME TypeOK, NEW t \in Tasks, ClusterCall(t)
  PROVE  cluster' \in [Tasks -> Cluster]
<1>1. /\ Mode \in {"push", "pull", "script"}
      /\ NoPods \in [Pods -> {"waiting", "started", "settled", "over"}]
  BY DEF Mode, NoPods
<1>2. CASE CreateObject(t)
  <2>1. \/ cluster' = [cluster EXCEPT ![t].configMap = TRUE]
        \/ cluster' = [cluster EXCEPT ![t].claim = TRUE]
    BY <1>2 DEF CreateObject
  <2>2. cluster'[t] \in Cluster /\ \A u \in Tasks : u # t => cluster'[u] = cluster[u]
    BY <2>1 DEF TypeOK, Cluster
  <2>3. QED
    BY <2>1, <2>2 DEF TypeOK
<1>3. CASE DeleteObject(t)
  <2>1. \/ cluster' = [cluster EXCEPT ![t].configMap = FALSE]
        \/ cluster' = [cluster EXCEPT ![t].claim = FALSE]
    BY <1>3 DEF DeleteObject
  <2>2. cluster'[t] \in Cluster /\ \A u \in Tasks : u # t => cluster'[u] = cluster[u]
    BY <2>1 DEF TypeOK, Cluster
  <2>3. QED
    BY <2>1, <2>2 DEF TypeOK
<1>4. CASE CreateJob(t) \/ DeleteJob(t)
  <2>1. \/ cluster' = cluster
        \/ cluster' = [cluster EXCEPT ![t].job = Mode, ![t].pods = NoPods]
        \/ cluster' = [cluster EXCEPT ![t].job = "none", ![t].pods = NoPods]
    BY <1>4 DEF CreateJob, DeleteJob
  <2>2. cluster'[t] \in Cluster /\ \A u \in Tasks : u # t => cluster'[u] = cluster[u]
    BY <1>1, <2>1 DEF TypeOK, Cluster
  <2>3. QED
    BY <2>1, <2>2 DEF TypeOK
<1>5. QED
  BY <1>2, <1>3, <1>4 DEF ClusterCall

LEMMA CallData ==
  ASSUME TypeOK, NEW t \in Tasks, ClusterCall(t)
  PROVE  data' = data \/ data' = [data EXCEPT ![t] = [directory |-> "missing", results |-> {}]]
BY DEF ClusterCall, CreateObject, DeleteObject, CreateJob, DeleteJob

LEMMA CallType ==
  ASSUME TypeOK, NEW t \in Tasks, ClusterCall(t), UNCHANGED <<made, saved, owed>>
  PROVE  cluster' \in [Tasks -> Cluster] /\ DataType'
<1>1. data' \in [Tasks -> Data]
  BY CallData DEF TypeOK, DataType, Data
<1>2. \A u \in Tasks : data'[u].results \subseteq data[u].results
  <2>1. data' = data \/ data' = [data EXCEPT ![t] = [directory |-> "missing", results |-> {}]]
    BY CallData
  <2>2. QED
    BY <2>1 DEF TypeOK, DataType, Data
<1>3. DataType'
  BY <1>1, <1>2 DEF TypeOK, DataType
<1>4. QED
  BY <1>3, CallCluster

\* Typing, apart from the handlers, of steps that change no object.
LEMMA SameData ==
  ASSUME TypeOK, UNCHANGED <<cluster, data, made, saved, owed>>
  PROVE  cluster' \in [Tasks -> Cluster] /\ DataType'
BY DEF TypeOK, DataType

\* Typing of the last parts, from what a step does to them.
LEMMA SameTask ==
  ASSUME TypeOK, conf' = conf, tf' \in [Tasks -> {"absent", "present", "tainted"}],
         dangling' \subseteq Tasks, crashes' \in 0 .. MaxCrashes,
         failures' = failures \/ (failures < MaxFailures /\ failures' = failures + 1)
  PROVE  TaskType'
<1>1. failures' \in 0 .. MaxFailures
  BY ConstantsTyped DEF TypeOK, TaskType
<1>2. QED
  BY <1>1 DEF TypeOK, TaskType

LEMMA InitType == Init => TypeOK
<1> SUFFICES ASSUME Init PROVE TypeOK
  OBVIOUS
<1>1. Idle \in Run /\ ~Idle.inside
  BY HandlerRun DEF Idle
<1>2. RunType
  BY <1>1 DEF Init, RunType
<1>3. cluster \in [Tasks -> Cluster]
  BY DEF Init, Cluster, Nothing, NoPods
<1>4. DataType
  BY ConstantsTyped DEF Init, DataType, Data
<1>5. TaskType
  BY ConstantsTyped DEF Init, TaskType
<1>6. QED
  BY <1>2, <1>3, <1>4, <1>5 DEF TypeOK

LEMMA BeginType ==
  ASSUME TypeOK, NEW t \in Tasks, Apply(t) \/ Refresh(t) \/ Destroy(t)
  PROVE  TypeOK'
<1>1. PICK operation \in {"apply", "refresh", "destroy"},
           stage \in {"create", "refresh", "probe", "delete"} : Begin(t, operation, stage)
  BY DEF Apply, Refresh, Destroy, DeleteStage
<1>2. RunType'
  <2>1. run' = [run EXCEPT ![t] = Handler(operation, stage)] /\ conf' = conf
        /\ environ' \subseteq Pulling
    BY <1>1 DEF Begin, TypeOK, RunType
  <2>2. QED
    BY <2>1, HandlerRun, RunTypeOf
<1>3. owed' = owed \/ owed' = [owed EXCEPT ![t] = data[t].results]
  BY DEF Apply, Refresh, Destroy
<1>4. DataType' /\ cluster' \in [Tasks -> Cluster]
  <2>1. UNCHANGED <<cluster, data, made, saved>>
    BY <1>1 DEF Begin
  <2>2. owed' \in [Tasks -> SUBSET (1 .. MaxResults)]
    BY <1>3 DEF TypeOK, DataType, Data
  <2>3. \A u \in Tasks : owed'[u] \subseteq 1 .. made[u]
    BY <1>3 DEF TypeOK, DataType
  <2>4. QED
    BY <2>1, <2>2, <2>3 DEF TypeOK, DataType
<1>5. TaskType'
  BY <1>1 DEF Begin, TypeOK, TaskType
<1>6. QED
  BY <1>2, <1>4, <1>5 DEF TypeOK

LEMMA SetenvType ==
  ASSUME TypeOK, NEW t \in Tasks, Setenv(t)
  PROVE  TypeOK'
<1> DEFINE r == [run[t] EXCEPT !.inside = TRUE]
<1>1. r \in Run /\ r.stage = run[t].stage /\ r.pc = run[t].pc /\ r.readable = run[t].readable
  BY TaskTypes DEF Run
<1>2. run' = [run EXCEPT ![t] = r] /\ conf' = conf /\ Running(t)
  BY DEF Setenv, TypeOK, RunType
<1>3. environ' \subseteq Pulling
  BY <1>2, StageOf DEF Setenv, TypeOK, RunType, Pushing, Pulling
<1>4. RunType'
  BY <1>1, <1>2, <1>3, RunTypeOf
<1>5. QED
  BY <1>4, SameData DEF Setenv, TypeOK, TaskType

LEMMA LookType ==
  ASSUME TypeOK, NEW t \in Tasks, Look(t)
  PROVE  TypeOK'
<1>1. Running(t)
  BY DEF Look, At
<1>2. /\ RunType' /\ conf' = conf /\ dangling' = dangling /\ owed' = owed
      /\ tf' \in [Tasks -> {"absent", "present", "tainted"}]
  BY <1>1, AdvanceType, FailsType DEF Look, Succeeds, TypeOK, TaskType
<1>3. UNCHANGED <<cluster, data, made, saved, failures, crashes>>
  BY DEF Look, Succeeds
<1>4. TaskType'
  BY <1>2, <1>3 DEF TypeOK, TaskType
<1>5. QED
  BY <1>2, <1>3, <1>4, SameData DEF TypeOK

LEMMA StepClusterType ==
  ASSUME TypeOK, NEW t \in Tasks, StepCluster(t)
  PROVE  TypeOK'
<1>1. Running(t)
  BY DEF StepCluster, ClusterCall, CreateObject, DeleteObject, CreateJob, DeleteJob, At
<1>2. RunType' /\ conf' = conf /\ tf' = tf /\ dangling' = dangling /\ owed' = owed
  BY <1>1, AdvanceType DEF StepCluster, Succeeds
<1>3. cluster' \in [Tasks -> Cluster] /\ DataType'
  BY <1>2, CallType DEF StepCluster
<1>4. TaskType'
  BY <1>2 DEF StepCluster, Succeeds, TypeOK, TaskType
<1>5. QED
  BY <1>2, <1>3, <1>4 DEF TypeOK

LEMMA TransferType ==
  ASSUME TypeOK, NEW t \in Tasks, StepPush(t) \/ StepPull(t)
  PROVE  TypeOK'
<1>1. Running(t)
  BY DEF StepPush, StepPull, At
<1>2. RunType' /\ conf' = conf /\ tf' = tf /\ dangling' = dangling /\ owed' = owed
  BY <1>1, AdvanceType DEF StepPush, StepPull, Succeeds
<1>3. UNCHANGED <<cluster, made, failures, crashes>>
  BY DEF StepPush, StepPull, Succeeds
<1>4. DataType'
  <2>1. CASE StepPush(t)
    <3>1. data' = [data EXCEPT ![t].directory = "uploaded"] /\ saved' = saved
      BY <2>1 DEF StepPush
    <3>2. data' \in [Tasks -> Data] /\ \A u \in Tasks : data'[u].results = data[u].results
      BY <3>1 DEF TypeOK, DataType, Data
    <3>3. QED
      BY <1>2, <1>3, <3>1, <3>2 DEF TypeOK, DataType
  <2>2. CASE StepPull(t)
    <3>1. saved' = [saved EXCEPT ![t] = @ \union data[t].results] /\ data' = data
      BY <2>2 DEF StepPull
    <3>2. saved' \in [Tasks -> SUBSET (1 .. MaxResults)]
      BY <3>1 DEF TypeOK, DataType, Data
    <3>3. \A u \in Tasks : saved'[u] \subseteq 1 .. made[u]
      BY <3>1 DEF TypeOK, DataType
    <3>4. QED
      BY <1>2, <1>3, <3>1, <3>2, <3>3 DEF TypeOK, DataType
  <2>3. QED
    BY <2>1, <2>2
<1>5. TaskType'
  BY <1>2, <1>3 DEF TypeOK, TaskType
<1>6. QED
  BY <1>2, <1>3, <1>4, <1>5 DEF TypeOK

LEMMA FailureType ==
  ASSUME TypeOK, NEW t \in Tasks, StepTransferFails(t) \/ StepError(t)
  PROVE  TypeOK'
<1>1. /\ RunType' /\ conf' = conf /\ dangling' = dangling /\ owed' = owed
      /\ tf' \in [Tasks -> {"absent", "present", "tainted"}]
  BY FailsType DEF StepTransferFails, StepError
<1>2. ClusterCall(t) \/ UNCHANGED <<cluster, data>>
  BY DEF StepTransferFails, StepError
<1>3. UNCHANGED <<made, saved, crashes>>
  BY DEF StepTransferFails, StepError
<1>4. cluster' \in [Tasks -> Cluster] /\ DataType'
  BY <1>1, <1>2, <1>3, CallType, SameData
<1>5. failures' = failures \/ (failures < MaxFailures /\ failures' = failures + 1)
  BY DEF StepTransferFails, StepError
<1>6. TaskType'
  BY <1>1, <1>3, <1>5, SameTask DEF TypeOK, TaskType
<1>7. QED
  BY <1>1, <1>4, <1>6 DEF TypeOK

LEMMA ReturnType ==
  ASSUME TypeOK, NEW t \in Tasks,
         CreateReturns(t) \/ RefreshReturns(t) \/ ProbeReturns(t) \/ DeleteReturns(t)
  PROVE  TypeOK'
<1>1. PICK r \in Run : run' = [run EXCEPT ![t] = r] /\ ~r.inside
  <2>1. CASE ProbeReturns(t)
    <3> DEFINE h == Handler(run[t].handler, "delete")
    <3>1. h \in Run /\ ~h.inside
      BY TaskTypes, HandlerRun DEF Run
    <3>2. [h EXCEPT !.readable = TRUE] \in Run /\ ~[h EXCEPT !.readable = TRUE].inside
      BY <3>1 DEF Run
    <3>3. run' = [run EXCEPT ![t] = [h EXCEPT !.readable = TRUE]]
      BY <2>1 DEF ProbeReturns, TypeOK, RunType
    <3>4. QED
      BY <3>2, <3>3
  <2>2. CASE CreateReturns(t) \/ RefreshReturns(t) \/ DeleteReturns(t)
    <3>1. Idle \in Run /\ ~Idle.inside
      BY HandlerRun DEF Idle
    <3>2. QED
      BY <2>2, <3>1 DEF CreateReturns, RefreshReturns, DeleteReturns, End
  <2>3. QED
    BY <2>1, <2>2
<1>2. /\ UNCHANGED <<conf, environ, cluster, data, made, saved, failures, crashes, owed>>
      /\ dangling' \subseteq dangling
      /\ tf' \in [Tasks -> {"absent", "present", "tainted"}]
  BY DEF CreateReturns, RefreshReturns, ProbeReturns, DeleteReturns, End, TypeOK, TaskType
<1>3. RunType'
  BY <1>1, <1>2, RunTypeOf DEF TypeOK, RunType
<1>4. TaskType'
  BY <1>2 DEF TypeOK, TaskType
<1>5. QED
  BY <1>2, <1>3, <1>4, SameData DEF TypeOK

LEMMA ExpireType ==
  ASSUME TypeOK, NEW t \in Tasks, Expire(t)
  PROVE  TypeOK'
<1>1. Idle \in Run /\ ~Idle.inside
  BY HandlerRun DEF Idle
<1>2. RunType'
  BY <1>1, UnsetenvType, RunTypeOf DEF Expire
<1>3. tf' \in [Tasks -> {"absent", "present", "tainted"}]
  BY DEF Expire, TypeOK, TaskType
<1>4. TaskType'
  BY <1>3, SameTask DEF Expire, TypeOK, TaskType
<1>5. QED
  BY <1>2, <1>4, SameData DEF Expire, TypeOK

LEMMA CrashType ==
  ASSUME TypeOK, Crash
  PROVE  TypeOK'
<1>1. Idle \in Run /\ ~Idle.inside
  BY HandlerRun DEF Idle
<1>2. RunType'
  BY <1>1 DEF Crash, RunType
<1>3. TaskType'
  BY ConstantsTyped DEF Crash, TypeOK, TaskType
<1>4. QED
  BY <1>2, <1>3, SameData DEF Crash, TypeOK

\* What a step of the pods does to the objects and the volume of the task.
LEMMA PodEffect ==
  ASSUME TypeOK, NEW t \in Tasks, PodSteps(t)
  PROVE  /\ UNCHANGED <<conf, tf, run, environ, crashes, dangling, owed, saved>>
         /\ failures' = failures \/ (failures < MaxFailures /\ failures' = failures + 1)
         /\ cluster' \in [Tasks -> Cluster]
         /\ \A u \in Tasks \ {t} : cluster'[u] = cluster[u] /\ data'[u] = data[u]
         /\ cluster'[t].configMap = cluster[t].configMap /\ cluster'[t].claim = cluster[t].claim
         /\ cluster'[t].job = cluster[t].job
         /\ \/ cluster'[t] = cluster[t]
            \/ cluster[t].job # "none"
            \/ \E p \in Pods : cluster[t].pods[p] # "waiting"
         /\ \/ data' = data /\ made' = made
            \/ /\ data' = [data EXCEPT ![t] = [directory |-> "missing", results |-> {}]]
               /\ made' = made /\ cluster[t].job = "push" /\ conf[t].workdir
            \/ /\ made[t] < MaxResults /\ made' = [made EXCEPT ![t] = @ + 1]
               /\ data' = [data EXCEPT ![t].results = @ \union {made[t] + 1}]
               /\ cluster[t].job = "script"
<1> DEFINE States == {"waiting", "started", "settled", "over"}
<1>1. ASSUME NEW p \in Pods, NEW state \in States, Becomes(t, p, state)
      PROVE  /\ cluster' \in [Tasks -> Cluster]
             /\ \A u \in Tasks \ {t} : cluster'[u] = cluster[u]
             /\ cluster'[t].configMap = cluster[t].configMap
             /\ cluster'[t].claim = cluster[t].claim /\ cluster'[t].job = cluster[t].job
  <2>1. cluster' = [cluster EXCEPT ![t].pods = [cluster[t].pods EXCEPT ![p] = state]]
    BY <1>1 DEF Becomes
  <2>2. cluster[t].pods \in [Pods -> States]
    BY TaskTypes DEF Cluster
  <2>3. [cluster[t].pods EXCEPT ![p] = state] \in [Pods -> States]
    BY <2>2
  <2>4. QED
    BY <2>1, <2>3 DEF TypeOK, Cluster
<1>2. CASE JobTimesOut(t)
  <2> DEFINE over == [p \in Pods |-> "over"]
  <2>1. over \in [Pods -> States]
    OBVIOUS
  <2>2. cluster' = [cluster EXCEPT ![t].pods = over]
    BY <1>2 DEF JobTimesOut
  <2>3. /\ cluster' \in [Tasks -> Cluster]
        /\ \A u \in Tasks \ {t} : cluster'[u] = cluster[u]
        /\ cluster'[t].configMap = cluster[t].configMap
        /\ cluster'[t].claim = cluster[t].claim /\ cluster'[t].job = cluster[t].job
    <3> HIDE DEF over
    <3>1. QED
      BY <2>1, <2>2 DEF TypeOK, Cluster
  <2>4. QED
    BY <1>2, <2>3 DEF JobTimesOut, PodStep
<1>3. ASSUME NEW p \in Pods, PodStarts(t, p)
      PROVE  /\ UNCHANGED <<data, made, failures>> /\ PodStep /\ Becomes(t, p, "started")
             /\ cluster[t].job # "none"
  BY <1>3 DEF PodStarts
<1>4. ASSUME NEW p \in Pods, PodErases(t, p)
      PROVE  /\ UNCHANGED <<made, failures>> /\ PodStep /\ Becomes(t, p, "settled")
             /\ cluster[t].job = "push"
             /\ \/ data' = data
                \/ /\ data' = [data EXCEPT ![t] = [directory |-> "missing", results |-> {}]]
                   /\ conf[t].workdir
  BY <1>4 DEF PodErases
<1>5. ASSUME NEW p \in Pods, ScriptExits(t, p)
      PROVE  /\ UNCHANGED <<data, made, failures>> /\ PodStep /\ Becomes(t, p, "over")
             /\ cluster[t].job = "script"
  BY <1>5 DEF ScriptExits
<1>6. ASSUME NEW p \in Pods, PodLost(t, p)
      PROVE  /\ UNCHANGED <<data, made>> /\ PodStep /\ Becomes(t, p, "waiting")
             /\ failures < MaxFailures /\ failures' = failures + 1
             /\ cluster[t].pods[p] # "waiting"
  BY <1>6 DEF PodLost, Ready
<1>7. ASSUME NEW p \in Pods, ScriptWrites(t, p)
      PROVE  /\ UNCHANGED <<cluster, failures>> /\ PodStep /\ cluster[t].job = "script"
             /\ made[t] < MaxResults /\ made' = [made EXCEPT ![t] = @ + 1]
             /\ data' = [data EXCEPT ![t].results = @ \union {made[t] + 1}]
  BY <1>7 DEF ScriptWrites
<1>8. ASSUME NEW p \in Pods, PodStarts(t, p) \/ PodErases(t, p) \/ ScriptExits(t, p)
      PROVE  /\ failures' = failures /\ PodStep /\ cluster[t].job # "none" /\ made' = made
             /\ \E state \in States : Becomes(t, p, state)
             /\ \/ data' = data
                \/ /\ data' = [data EXCEPT ![t] = [directory |-> "missing", results |-> {}]]
                   /\ conf[t].workdir /\ cluster[t].job = "push"
  BY <1>3, <1>4, <1>5, <1>8
<1>9. ASSUME NEW p \in Pods, PodStarts(t, p) \/ PodErases(t, p) \/ ScriptExits(t, p)
      PROVE  /\ cluster' \in [Tasks -> Cluster]
             /\ \A u \in Tasks \ {t} : cluster'[u] = cluster[u]
             /\ cluster'[t].configMap = cluster[t].configMap
             /\ cluster'[t].claim = cluster[t].claim /\ cluster'[t].job = cluster[t].job
  BY <1>1, <1>8, <1>9
<1>10. \A u \in Tasks \ {t} :
         data' = [data EXCEPT ![t] = [directory |-> "missing", results |-> {}]] => data'[u] = data[u]
  BY DEF TypeOK, DataType
<1>11. ASSUME NEW p \in Pods, PodStarts(t, p) \/ PodErases(t, p) \/ ScriptExits(t, p)
       PROVE  \A u \in Tasks \ {t} : data'[u] = data[u]
  BY <1>8, <1>10, <1>11
<1>12. CASE \E p \in Pods : PodStarts(t, p) \/ PodErases(t, p) \/ ScriptExits(t, p)
  <2>1. PICK p \in Pods : PodStarts(t, p) \/ PodErases(t, p) \/ ScriptExits(t, p)
    BY <1>12
  <2>2. /\ failures' = failures /\ PodStep /\ cluster[t].job # "none" /\ made' = made
        /\ \/ data' = data
           \/ /\ data' = [data EXCEPT ![t] = [directory |-> "missing", results |-> {}]]
              /\ conf[t].workdir /\ cluster[t].job = "push"
    BY <1>8, <2>1
  <2>3. QED
    BY <1>9, <1>11, <2>1, <2>2 DEF PodStep
<1>13. CASE \E p \in Pods : PodLost(t, p)
  <2>1. PICK p \in Pods : PodLost(t, p)
    BY <1>13
  <2>2. QED
    BY <1>1, <1>6, <2>1 DEF PodStep
<1>14. CASE \E p \in Pods : ScriptWrites(t, p)
  <2>1. /\ UNCHANGED <<cluster, failures>> /\ PodStep /\ cluster[t].job = "script"
        /\ made[t] < MaxResults /\ made' = [made EXCEPT ![t] = @ + 1]
        /\ data' = [data EXCEPT ![t].results = @ \union {made[t] + 1}]
    BY <1>7, <1>14
  <2>2. \A u \in Tasks \ {t} : data'[u] = data[u]
    BY <2>1 DEF TypeOK, DataType
  <2>3. QED
    BY <2>1, <2>2 DEF PodStep, TypeOK
<1>15. QED
  BY <1>2, <1>12, <1>13, <1>14 DEF PodSteps

LEMMA PodType ==
  ASSUME TypeOK, NEW t \in Tasks, PodSteps(t)
  PROVE  TypeOK'
<1>1. /\ UNCHANGED <<conf, tf, run, environ, crashes, dangling, owed, saved>>
      /\ failures' = failures \/ (failures < MaxFailures /\ failures' = failures + 1)
      /\ cluster' \in [Tasks -> Cluster]
  BY PodEffect
<1>2. RunType'
  BY <1>1 DEF TypeOK, RunType, Running, Program
<1>3. TaskType'
  BY <1>1, SameTask DEF TypeOK, TaskType
<1>4. DataType'
  <2>1. \/ data' = data /\ made' = made
        \/ /\ data' = [data EXCEPT ![t] = [directory |-> "missing", results |-> {}]]
           /\ made' = made
        \/ /\ made[t] < MaxResults /\ made' = [made EXCEPT ![t] = @ + 1]
           /\ data' = [data EXCEPT ![t].results = @ \union {made[t] + 1}]
    BY PodEffect
  <2>2. CASE data' = data /\ made' = made
    BY <1>1, <2>2 DEF TypeOK, DataType
  <2>3. CASE /\ data' = [data EXCEPT ![t] = [directory |-> "missing", results |-> {}]]
             /\ made' = made
    <3>1. data' \in [Tasks -> Data] /\ \A u \in Tasks : data'[u].results \subseteq data[u].results
      BY <2>3 DEF TypeOK, DataType, Data
    <3>2. QED
      BY <1>1, <2>3, <3>1 DEF TypeOK, DataType
  <2>4. CASE /\ made[t] < MaxResults /\ made' = [made EXCEPT ![t] = @ + 1]
             /\ data' = [data EXCEPT ![t].results = @ \union {made[t] + 1}]
    <3>1. made[t] \in Nat /\ made[t] + 1 \in 1 .. MaxResults
      BY <2>4, ConstantsTyped DEF TypeOK, DataType
    <3>2. data' \in [Tasks -> Data] /\ made' \in [Tasks -> 0 .. MaxResults]
      BY <2>4, <3>1 DEF TypeOK, DataType, Data
    <3>3. \A u \in Tasks : /\ data'[u].results \subseteq data[u].results \union {made'[u]}
                           /\ made'[u] \in Nat /\ made[u] \in Nat /\ made'[u] >= made[u]
                           /\ data'[u] = data[u] \/ made'[u] = made[u] + 1
      BY <2>4, <3>1, ConstantsTyped DEF TypeOK, DataType, Data
    <3>4. \A u \in Tasks : 1 .. made[u] \subseteq 1 .. made'[u]
      BY <3>3
    <3>5. \A u \in Tasks : data'[u].results \union saved[u] \union owed[u] \subseteq 1 .. made'[u]
      BY <3>3, <3>4 DEF TypeOK, DataType
    <3>6. QED
      BY <1>1, <3>2, <3>5 DEF TypeOK, DataType
  <2>5. QED
    BY <2>1, <2>2, <2>3, <2>4
<1>5. QED
  BY <1>1, <1>2, <1>3, <1>4 DEF TypeOK

\* Next, by what acts.
LEMMA NextActs ==
  ASSUME Next
  PROVE  \/ \E t \in Tasks :
              \/ Apply(t) \/ Refresh(t) \/ Destroy(t)
              \/ Setenv(t) \/ Look(t) \/ StepCluster(t) \/ StepPush(t) \/ StepPull(t)
              \/ StepTransferFails(t) \/ StepError(t)
              \/ CreateReturns(t) \/ RefreshReturns(t) \/ ProbeReturns(t) \/ DeleteReturns(t)
              \/ Expire(t) \/ PodSteps(t)
         \/ Crash
BY DEF Next, Provider, PodSteps

LEMMA TypeStep == TypeOK /\ [Next]_vars => TypeOK'
<1> SUFFICES ASSUME TypeOK, [Next]_vars PROVE TypeOK'
  OBVIOUS
<1>1. CASE UNCHANGED vars
  BY <1>1 DEF vars, TypeOK, RunType, DataType, TaskType, Running, Program
<1>2. CASE Next
  BY <1>2, NextActs, BeginType, SetenvType, LookType, StepClusterType, TransferType,
     FailureType, ReturnType, ExpireType, PodType, CrashType
<1>3. QED
  BY <1>1, <1>2

\* The variables are of their types: for any tasks, pods, results, failures.
THEOREM TypeCorrect == Spec => []TypeOK
BY InitType, TypeStep, PTL DEF Spec

------------------------------------------------------------------------------
(* The inductive invariant: what each step does to its task, and the frame. *)

LEMMA OthersKeep ==
  ASSUME TypeOK, NEW t \in Tasks, Apart(t), NEW u \in Tasks \ {t}, TaskInv(u)
  PROVE  TaskInv(u)'
<1>1. /\ conf' = conf /\ tf'[u] = tf[u] /\ run'[u] = run[u] /\ cluster'[u] = cluster[u]
      /\ data'[u] = data[u] /\ saved'[u] = saved[u] /\ owed'[u] = owed[u]
      /\ (u \in dangling' <=> u \in dangling)
      /\ failures' = 0 /\ crashes' = 0 => failures = 0 /\ crashes = 0
  BY ConstantsTyped DEF Apart, TypeOK, TaskType
<1>2. HandlerInv(u)'
  BY <1>1 DEF TaskInv, HandlerInv
<1>3. (Downloads(u)' <=> Downloads(u)) /\ Skipped(u)' = Skipped(u)
  BY <1>1 DEF Downloads, Skipped
<1>4. CloudInv(u)'
  <2>1. ObjectsInv(u)' /\ VolumesInv(u)' /\ TrackedInv(u)'
    BY <1>1 DEF TaskInv, CloudInv, ObjectsInv, VolumesInv, TrackedInv
  <2>2. CreatedInv(u)'
    BY <1>1 DEF TaskInv, CloudInv, CreatedInv
  <2>3. FoundInv(u)'
    BY <1>1, <1>3 DEF TaskInv, CloudInv, FoundInv
  <2>4. DeletedInv(u)'
    BY <1>1, <1>3 DEF TaskInv, CloudInv, DeletedInv
  <2>5. QED
    BY <2>1, <2>2, <2>3, <2>4 DEF CloudInv
<1>5. OwedInv(u)'
  BY <1>1, <1>3 DEF TaskInv, OwedInv
<1>6. CalmInv(u)'
  BY <1>1 DEF TaskInv, CalmInv
<1>7. QED
  BY <1>2, <1>4, <1>5, <1>6 DEF TaskInv

\* What a call leaves of the objects of the task.
LEMMA CallEffect ==
  ASSUME TypeOK, NEW t \in Tasks, ClusterCall(t), NEW call, call = Step(t).call
  PROVE  /\ Running(t)
         /\ call \in {"createConfigMap", "createClaim", "deleteConfigMap", "deleteClaim",
                      "createJob", "deleteJob"}
         /\ \A u \in Tasks \ {t} : cluster'[u] = cluster[u] /\ data'[u] = data[u]
         /\ cluster'[t].configMap <=>
              call = "createConfigMap" \/ (cluster[t].configMap /\ call # "deleteConfigMap")
         /\ cluster'[t].claim <=>
              call = "createClaim" \/ (cluster[t].claim /\ call # "deleteClaim")
         /\ call \notin {"createJob", "deleteJob"} \/ (call = "createJob" /\ cluster[t].job # "none")
              => cluster'[t].job = cluster[t].job /\ cluster'[t].pods = cluster[t].pods
         /\ call = "deleteJob" => cluster'[t].job = "none" /\ cluster'[t].pods = NoPods
         /\ call = "createJob" /\ cluster[t].job = "none"
              => cluster'[t].job = Mode /\ cluster'[t].job # "none"
         /\ call # "deleteClaim" => data' = data
         /\ cluster'[t] \in Cluster
<1>1. cluster'[t] \in Cluster /\ \A u \in Tasks \ {t} : data'[u] = data[u]
  BY CallCluster, CallData DEF TypeOK, DataType
<1>2. Running(t)
  BY DEF ClusterCall, CreateObject, DeleteObject, CreateJob, DeleteJob, At
<1>3. CASE call = "createConfigMap"
  <2>1. cluster' = [cluster EXCEPT ![t].configMap = TRUE] /\ data' = data
    BY <1>3 DEF ClusterCall, CreateObject, DeleteObject, CreateJob, DeleteJob, At
  <2>2. QED
    BY <1>1, <1>2, <1>3, <2>1 DEF TypeOK, Cluster
<1>4. CASE call = "createClaim"
  <2>1. cluster' = [cluster EXCEPT ![t].claim = TRUE] /\ data' = data
    BY <1>4 DEF ClusterCall, CreateObject, DeleteObject, CreateJob, DeleteJob, At
  <2>2. QED
    BY <1>1, <1>2, <1>4, <2>1 DEF TypeOK, Cluster
<1>5. CASE call = "deleteConfigMap"
  <2>1. cluster' = [cluster EXCEPT ![t].configMap = FALSE] /\ data' = data
    BY <1>5 DEF ClusterCall, CreateObject, DeleteObject, CreateJob, DeleteJob, At
  <2>2. QED
    BY <1>1, <1>2, <1>5, <2>1 DEF TypeOK, Cluster
<1>6. CASE call = "deleteClaim"
  <2>1. cluster' = [cluster EXCEPT ![t].claim = FALSE]
    BY <1>6 DEF ClusterCall, CreateObject, DeleteObject, CreateJob, DeleteJob, At
  <2>2. QED
    BY <1>1, <1>2, <1>6, <2>1 DEF TypeOK, Cluster
<1>7. CASE call = "createJob"
  <2>1. /\ cluster[t].job = "none" => cluster' = [cluster EXCEPT ![t].job = Mode, ![t].pods = NoPods]
        /\ cluster[t].job # "none" => cluster' = cluster
        /\ data' = data
    BY <1>7 DEF ClusterCall, CreateObject, DeleteObject, CreateJob, DeleteJob, At
  <2>2. Mode # "none"
    BY DEF Mode
  <2>3. QED
    BY <1>1, <1>2, <1>7, <2>1, <2>2 DEF TypeOK, Cluster
<1>8. CASE call = "deleteJob"
  <2>1. cluster' = [cluster EXCEPT ![t].job = "none", ![t].pods = NoPods] /\ data' = data
    BY <1>8 DEF ClusterCall, CreateObject, DeleteObject, CreateJob, DeleteJob, At
  <2>2. QED
    BY <1>1, <1>2, <1>8, <2>1 DEF TypeOK, Cluster
<1>9. call \in {"createConfigMap", "createClaim", "deleteConfigMap", "deleteClaim",
                "createJob", "deleteJob"}
  BY DEF ClusterCall, CreateObject, DeleteObject, CreateJob, DeleteJob, At
<1>10. QED
  BY <1>3, <1>4, <1>5, <1>6, <1>7, <1>8, <1>9

\* A call keeps the pods' volumes, and a job out of a config map that is deleted.
LEMMA CallObjects ==
  ASSUME TypeOK, NEW t \in Tasks, TaskInv(t), ClusterCall(t), conf' = conf
  PROVE  ObjectsInv(t)' /\ VolumesInv(t)'
<1> DEFINE call == Step(t).call
<1>1. ObjectsInv(t) /\ VolumesInv(t) /\ CreatedInv(t) /\ FoundInv(t) /\ DeletedInv(t)
  BY DEF TaskInv, CloudInv
<1>2. Running(t)
  BY CallEffect
<1>3. run[t].stage \in {"create", "delete"}
  BY <1>2, CallEffect, StageOf
<1>4. ObjectsInv(t)'
  <2>1. cluster'[t].job = "none" => cluster'[t].pods = NoPods
    BY <1>1, CallEffect DEF ObjectsInv
  <2>2. call = "createClaim" => conf[t].own
    BY <1>2, <1>3, StageOf, CreateStep
  <2>3. cluster'[t].claim => conf[t].own
    BY <1>1, <2>2, CallEffect DEF ObjectsInv
  <2>4. QED
    BY <2>1, <2>3 DEF ObjectsInv
<1>5. call = "createJob" => cluster[t].configMap /\ (conf[t].own => cluster[t].claim)
  <2>1. CASE run[t].stage = "create"
    <3>1. PICK n \in 3 .. 8 : /\ run[t].pc \in 1 .. n
                              /\ n = 3 + (IF conf[t].own THEN 1 ELSE 0)
                                       + (IF conf[t].workdir THEN 4 ELSE 0)
                              /\ call = "createJob" <=>
                                   run[t].pc = n \/ (conf[t].workdir /\ run[t].pc = n - 3)
      BY <1>2, <2>1, CreateStep
    <3>2. call = "createJob" => run[t].pc > 2 /\ (conf[t].own => run[t].pc > 3)
      BY <3>1
    <3>3. QED
      BY <1>1, <2>1, <3>2 DEF CreatedInv
  <2>2. CASE run[t].stage = "delete"
    <3>1. call = "createJob" => Downloads(t) /\ run[t].pc \in {2, 4}
      BY <1>2, <2>2, DeleteStep DEF Skipped
    <3>2. QED
      BY <1>1, <2>2, <3>1 DEF FoundInv
  <2>3. QED
    BY <1>3, <2>1, <2>2
<1>6. call \in {"deleteConfigMap", "deleteClaim"} => cluster[t].job = "none"
  <2>1. SUFFICES ASSUME call \in {"deleteConfigMap", "deleteClaim"} PROVE cluster[t].job = "none"
    OBVIOUS
  <2>2. run[t].stage = "delete"
    BY <1>2, <2>1, StageOf
  <2>3. Skipped(t) \in {0, 4}
    BY DEF Skipped
  <2>4. run[t].pc > Skipped(t) + 1
    BY <1>2, <2>1, <2>2, <2>3, DeleteStep
  <2>5. QED
    BY <1>1, <2>2, <2>4 DEF DeletedInv
<1>7. VolumesInv(t)'
  BY <1>1, <1>5, <1>6, CallEffect DEF VolumesInv
<1>8. QED
  BY <1>4, <1>7

\* A handler whose step succeeded.
LEMMA Advances ==
  ASSUME TypeOK, NEW t \in Tasks, Running(t), Advance(t)
  PROVE  /\ run'[t].handler = run[t].handler /\ run'[t].stage = run[t].stage
         /\ run'[t].readable = run[t].readable /\ run'[t].pc = run[t].pc + 1
         /\ run'[t].stage # "none" /\ run'[t] # Idle
         /\ \A u \in Tasks \ {t} : run'[u] = run[u]
         /\ UNCHANGED <<conf, tf, dangling, owed>>
<1>1. run'[t].handler = run[t].handler /\ run'[t].stage = run[t].stage
      /\ run'[t].readable = run[t].readable /\ run'[t].pc = run[t].pc + 1
      /\ \A u \in Tasks \ {t} : run'[u] = run[u]
  BY DEF Advance, TypeOK, RunType, Run
<1>2. run'[t].stage # "none"
  BY <1>1, StageOf
<1>3. Idle.stage = "none"
  BY DEF Idle, Handler
<1>4. QED
  BY <1>1, <1>2, <1>3 DEF Advance

\* The parts that only a handler that advances could disturb.
LEMMA AdvanceKeeps ==
  ASSUME TypeOK, NEW t \in Tasks, TaskInv(t), Running(t), Advance(t),
         failures' >= failures, crashes' >= crashes
  PROVE  /\ HandlerInv(t)' /\ TrackedInv(t)'
         /\ Skipped(t)' = Skipped(t) /\ (Downloads(t)' <=> Downloads(t))
         /\ (run[t].stage \in {"create", "delete"} \/ cluster'[t] = cluster[t]) => CalmInv(t)'
<1>1. /\ run'[t].handler = run[t].handler /\ run'[t].stage = run[t].stage
      /\ run'[t].readable = run[t].readable
      /\ run'[t].stage # "none" /\ run'[t] # Idle
      /\ UNCHANGED <<conf, tf>>
  BY Advances
<1>2. HandlerInv(t)'
  BY <1>1 DEF TaskInv, HandlerInv
<1>3. TrackedInv(t)'
  BY <1>1 DEF TrackedInv
<1>4. Skipped(t)' = Skipped(t) /\ (Downloads(t)' <=> Downloads(t))
  BY <1>1 DEF Skipped, Downloads
<1>5. failures' = 0 /\ crashes' = 0 => failures = 0 /\ crashes = 0
  BY ConstantsTyped DEF TypeOK, TaskType
<1>6. (run[t].stage \in {"create", "delete"} \/ cluster'[t] = cluster[t]) => CalmInv(t)'
  BY <1>1, <1>5 DEF TaskInv, CalmInv
<1>7. QED
  BY <1>2, <1>3, <1>4, <1>6

\* A call to the cluster that succeeds.
LEMMA StepClusterKeeps ==
  ASSUME TypeOK, NEW t \in Tasks, TaskInv(t), StepCluster(t)
  PROVE  TaskInv(t)' /\ Apart(t)
<1> DEFINE call == Step(t).call
           pc == run[t].pc
           k == Skipped(t)
<1>1. /\ ClusterCall(t) /\ Advance(t) /\ Running(t)
      /\ UNCHANGED <<made, saved, failures, crashes>>
  BY CallEffect DEF StepCluster, Succeeds
<1>2. /\ run'[t].handler = run[t].handler /\ run'[t].stage = run[t].stage
      /\ run'[t].readable = run[t].readable /\ run'[t].pc = pc + 1
      /\ \A u \in Tasks \ {t} : run'[u] = run[u]
      /\ UNCHANGED <<conf, tf, dangling, owed>>
  BY <1>1, Advances
<1>3. run[t].stage \in {"create", "delete"}
  BY <1>1, CallEffect, StageOf
<1>4. pc \in 1 .. 8 /\ k \in {0, 4} /\ (k = 4 <=> Downloads(t))
  BY <1>1, StageOf DEF Skipped
<1>5. /\ HandlerInv(t)' /\ TrackedInv(t)' /\ CalmInv(t)'
      /\ Skipped(t)' = k /\ (Downloads(t)' <=> Downloads(t))
  BY <1>1, <1>3, AdvanceKeeps, ConstantsTyped DEF TypeOK, TaskType
<1>6. ObjectsInv(t)' /\ VolumesInv(t)'
  BY <1>1, <1>2, CallObjects
<1>7. CreatedInv(t)'
  <2>1. CASE run[t].stage = "create"
    <3>1. PICK n \in 3 .. 8 :
            /\ n = Len(CreateSteps(conf[t])) /\ pc \in 1 .. n
            /\ n = 3 + (IF conf[t].own THEN 1 ELSE 0) + (IF conf[t].workdir THEN 4 ELSE 0)
            /\ call = "createConfigMap" <=> pc = 2
            /\ call = "createClaim" <=> conf[t].own /\ pc = 3
            /\ call = "createJob" <=> pc = n \/ (conf[t].workdir /\ pc = n - 3)
            /\ call \notin {"deleteConfigMap", "deleteClaim"}
      BY <1>1, <2>1, CreateStep
    <3>2. /\ cluster'[t].configMap <=> call = "createConfigMap" \/ cluster[t].configMap
          /\ cluster'[t].claim <=> call = "createClaim" \/ cluster[t].claim
          /\ call = "createJob" => cluster'[t].job # "none"
      BY <1>1, <3>1, CallEffect
    <3>3. CreatedInv(t)
      BY DEF TaskInv, CloudInv
    <3>4. pc + 1 > 2 => cluster'[t].configMap
      BY <1>4, <2>1, <3>1, <3>2, <3>3 DEF CreatedInv
    <3>5. pc + 1 > 3 /\ conf[t].own => cluster'[t].claim
      BY <1>4, <2>1, <3>1, <3>2, <3>3 DEF CreatedInv
    <3>6. /\ pc + 1 > n => cluster'[t].job # "none"
          /\ conf[t].workdir /\ pc + 1 = n - 2 => cluster'[t].job # "none"
      BY <1>4, <3>1, <3>2
    <3>7. n = Len(CreateSteps(conf'[t]))
      BY <1>2, <3>1
    <3>8. QED
      BY <1>2, <3>4, <3>5, <3>6, <3>7 DEF CreatedInv
  <2>2. CASE run[t].stage = "delete"
    BY <1>2, <2>2 DEF CreatedInv
  <2>3. QED
    BY <1>3, <2>1, <2>2
<1>8. ASSUME run[t].stage = "delete"
      PROVE  /\ call = "deleteJob" <=> pc = k + 1 \/ (k = 4 /\ pc = 1)
             /\ call = "createJob" <=> k = 4 /\ pc \in {2, 4}
             /\ call = "deleteConfigMap" <=> pc = k + 2
             /\ call = "deleteClaim" <=> conf[t].own /\ pc = k + 3
             /\ call \notin {"createConfigMap", "createClaim", "pull"}
  BY <1>1, <1>8, DeleteStep, CallEffect
<1>9. FoundInv(t)'
  <2>1. CASE run[t].stage = "create"
    BY <1>2, <2>1 DEF FoundInv
  <2>2. CASE run[t].stage = "delete"
    <3>1. SUFFICES ASSUME Downloads(t)
                   PROVE  /\ pc + 1 < 7 => cluster'[t].configMap
                          /\ pc + 1 < 8 /\ conf[t].own => cluster'[t].claim
                          /\ pc + 1 = 3 => cluster'[t].job # "none"
      BY <1>2, <1>5, <2>2 DEF FoundInv
    <3>2. k = 4 /\ FoundInv(t)
      BY <1>4, <3>1 DEF TaskInv, CloudInv
    <3>3. pc + 1 < 7 => cluster'[t].configMap
      BY <1>1, <1>4, <1>8, <2>2, <3>1, <3>2, CallEffect DEF FoundInv
    <3>4. pc + 1 < 8 /\ conf[t].own => cluster'[t].claim
      BY <1>1, <1>4, <1>8, <2>2, <3>1, <3>2, CallEffect DEF FoundInv
    <3>5. pc + 1 = 3 => cluster'[t].job # "none"
      BY <1>1, <1>4, <1>8, <2>2, <3>2, CallEffect
    <3>6. QED
      BY <3>3, <3>4, <3>5
  <2>3. QED
    BY <1>3, <2>1, <2>2
<1>10. DeletedInv(t)'
  <2>1. CASE run[t].stage = "create"
    BY <1>2, <2>1 DEF DeletedInv
  <2>2. CASE run[t].stage = "delete"
    <3>1. DeletedInv(t)
      BY DEF TaskInv, CloudInv
    <3>2. pc + 1 > k + 1 => cluster'[t].job = "none"
      BY <1>1, <1>4, <1>8, <2>2, <3>1, CallEffect DEF DeletedInv
    <3>3. pc + 1 > k + 2 => ~cluster'[t].configMap
      BY <1>1, <1>4, <1>8, <2>2, <3>1, CallEffect DEF DeletedInv
    <3>4. pc + 1 > k + 3 => ~cluster'[t].claim
      <4>1. ~conf[t].own => ~cluster'[t].claim
        BY <1>2, <1>6 DEF ObjectsInv
      <4>2. QED
        BY <1>1, <1>4, <1>8, <2>2, <3>1, <4>1, CallEffect DEF DeletedInv
    <3>5. QED
      BY <1>2, <1>5, <3>2, <3>3, <3>4 DEF DeletedInv
  <2>3. QED
    BY <1>3, <2>1, <2>2
<1>11. OwedInv(t)'
  <2>1. SUFFICES ASSUME run[t].handler = "destroy", conf[t].own, conf[t].workdir,
                        run[t].stage = "delete", Downloads(t)
                 PROVE  /\ pc + 1 < 4 => \/ data'[t].directory = "missing"
                                         \/ owed[t] \subseteq data'[t].results \union saved[t]
                        /\ pc + 1 > 3 => owed[t] \subseteq saved[t]
    BY <1>1, <1>2, <1>3, <1>5 DEF OwedInv
  <2>2. OwedInv(t)
    BY DEF TaskInv
  <2>3. pc + 1 < 4 => data' = data
    BY <1>1, <1>4, <1>8, <2>1, CallEffect
  <2>4. pc # 3
    BY <1>1, <1>4, <2>1, DeleteStep, CallEffect
  <2>5. QED
    BY <1>4, <2>1, <2>2, <2>3, <2>4 DEF OwedInv
<1>12. Apart(t)
  BY <1>1, <1>2, CallEffect, ConstantsTyped DEF Apart, TypeOK, TaskType
<1>13. QED
  BY <1>5, <1>6, <1>7, <1>9, <1>10, <1>11, <1>12 DEF TaskInv, CloudInv

\* A copy to or from a pod that succeeds.
LEMMA TransferKeeps ==
  ASSUME TypeOK, NEW t \in Tasks, TaskInv(t), StepPush(t) \/ StepPull(t)
  PROVE  TaskInv(t)' /\ Apart(t)
<1> DEFINE call == Step(t).call
           pc == run[t].pc
           k == Skipped(t)
<1>1. /\ Advance(t) /\ Running(t) /\ call \in {"push", "pull"}
      /\ UNCHANGED <<cluster, made, failures, crashes>>
  BY DEF StepPush, StepPull, Succeeds, At
<1>2. /\ run'[t].handler = run[t].handler /\ run'[t].stage = run[t].stage
      /\ run'[t].readable = run[t].readable /\ run'[t].pc = pc + 1
      /\ \A u \in Tasks \ {t} : run'[u] = run[u]
      /\ UNCHANGED <<conf, tf, dangling, owed>>
  BY <1>1, Advances
<1>3. \/ run[t].stage = "create" /\ call = "push" /\ StepPush(t)
      \/ run[t].stage = "delete" /\ call = "pull" /\ StepPull(t)
  <2>1. (StepPush(t) => call = "push") /\ (StepPull(t) => call = "pull")
    BY DEF StepPush, StepPull, At
  <2>2. QED
    BY <1>1, <2>1, StageOf
<1>4. pc \in 1 .. 8 /\ k \in {0, 4} /\ (k = 4 <=> Downloads(t))
  BY <1>1, StageOf DEF Skipped
<1>5. /\ HandlerInv(t)' /\ TrackedInv(t)' /\ CalmInv(t)'
      /\ Skipped(t)' = k /\ (Downloads(t)' <=> Downloads(t))
  BY <1>1, <1>3, AdvanceKeeps, ConstantsTyped DEF TypeOK, TaskType
<1>6. ObjectsInv(t)' /\ VolumesInv(t)'
  BY <1>1, <1>2 DEF TaskInv, CloudInv, ObjectsInv, VolumesInv
<1>7. CASE StepPush(t) /\ run[t].stage = "create"
  <2>1. PICK n \in 3 .. 8 :
          /\ n = Len(CreateSteps(conf[t])) /\ pc \in 1 .. n
          /\ n = 3 + (IF conf[t].own THEN 1 ELSE 0) + (IF conf[t].workdir THEN 4 ELSE 0)
          /\ conf[t].workdir /\ pc = n - 2
    <3>1. call = "push"
      BY <1>3, <1>7
    <3>2. QED
      BY <1>1, <1>7, <3>1, CreateStep
  <2>2. pc > 3 /\ pc + 1 <= n /\ pc + 1 # n - 2 /\ n = Len(CreateSteps(conf'[t]))
    BY <1>2, <2>1
  <2>3. CreatedInv(t)'
    <3>1. CreatedInv(t)
      BY DEF TaskInv, CloudInv
    <3>2. cluster'[t].configMap /\ (conf[t].own => cluster'[t].claim)
      BY <1>1, <1>4, <1>7, <2>2, <3>1 DEF CreatedInv
    <3>3. ~(run'[t].pc > n) /\ run'[t].pc # n - 2
      BY <1>2, <1>4, <2>1, <2>2
    <3>4. QED
      BY <1>2, <2>2, <3>2, <3>3 DEF CreatedInv
  <2>4. FoundInv(t)' /\ DeletedInv(t)'
    BY <1>2, <1>7 DEF FoundInv, DeletedInv
  <2>5. OwedInv(t)'
    BY <1>2, <1>7 DEF OwedInv
  <2>6. Apart(t)
    <3>1. saved' = saved /\ \A u \in Tasks \ {t} : data'[u] = data[u]
      BY <1>7 DEF StepPush, TypeOK, DataType
    <3>2. QED
      BY <1>1, <1>2, <3>1, ConstantsTyped DEF Apart, TypeOK, TaskType
  <2>7. QED
    BY <1>5, <1>6, <2>3, <2>4, <2>5, <2>6 DEF TaskInv, CloudInv
<1>8. CASE StepPull(t) /\ run[t].stage = "delete"
  <2>1. pc = 3 /\ Downloads(t) /\ k = 4
    <3>1. call = "pull"
      BY <1>3, <1>8
    <3>2. QED
      BY <1>1, <1>4, <1>8, <3>1, DeleteStep
  <2>2. CreatedInv(t)'
    BY <1>2, <1>8 DEF CreatedInv
  <2>3. FoundInv(t)'
    <3>1. FoundInv(t)
      BY DEF TaskInv, CloudInv
    <3>2. cluster'[t].configMap /\ (conf[t].own => cluster'[t].claim)
      BY <1>1, <1>8, <2>1, <3>1 DEF FoundInv
    <3>3. QED
      BY <1>2, <1>8, <2>1, <3>2 DEF FoundInv
  <2>4. DeletedInv(t)'
    BY <1>2, <1>5, <2>1 DEF DeletedInv
  <2>5. /\ data' = data /\ saved'[t] = saved[t] \union data[t].results
        /\ data[t].directory # "missing" /\ \A u \in Tasks \ {t} : saved'[u] = saved[u]
    BY <1>8 DEF StepPull, HasDirectory, TypeOK, DataType
  <2>6. OwedInv(t)'
    <3>1. OwedInv(t)
      BY DEF TaskInv
    <3>2. run[t].handler = "destroy" /\ conf[t].own /\ conf[t].workdir => owed[t] \subseteq saved'[t]
      BY <1>8, <2>1, <2>5, <3>1 DEF OwedInv
    <3>3. QED
      BY <1>2, <1>8, <2>1, <3>2 DEF OwedInv
  <2>7. Apart(t)
    BY <1>1, <1>2, <2>5, ConstantsTyped DEF Apart, TypeOK, TaskType
  <2>8. QED
    BY <1>5, <1>6, <2>2, <2>3, <2>4, <2>6, <2>7 DEF TaskInv, CloudInv
<1>9. QED
  BY <1>3, <1>7, <1>8

\* A Read call that finds its object.
LEMMA FoundKeeps ==
  ASSUME TypeOK, NEW t \in Tasks, TaskInv(t), Look(t), Found(t)
  PROVE  TaskInv(t)' /\ Apart(t)
<1> DEFINE call == Step(t).call
           pc == run[t].pc
<1>1. /\ Advance(t) /\ Running(t) /\ call \in Reading
      /\ UNCHANGED <<cluster, data, made, saved, failures, crashes>>
  BY DEF Look, Succeeds, At
<1>2. /\ run'[t].handler = run[t].handler /\ run'[t].stage = run[t].stage
      /\ run'[t].readable = run[t].readable /\ run'[t].pc = pc + 1
      /\ \A u \in Tasks \ {t} : run'[u] = run[u]
      /\ UNCHANGED <<conf, tf, dangling, owed>>
  BY <1>1, Advances
<1>3. /\ HandlerInv(t)' /\ TrackedInv(t)' /\ CalmInv(t)'
      /\ Skipped(t)' = Skipped(t) /\ (Downloads(t)' <=> Downloads(t))
  BY <1>1, AdvanceKeeps, ConstantsTyped DEF TypeOK, TaskType
<1>4. ObjectsInv(t)' /\ VolumesInv(t)'
  BY <1>1, <1>2 DEF TaskInv, CloudInv, ObjectsInv, VolumesInv
<1>5. Apart(t)
  BY <1>1, <1>2, ConstantsTyped DEF Apart, TypeOK, TaskType
<1>6. CASE run[t].stage \in {"refresh", "probe"}
  <2>1. CreatedInv(t)' /\ DeletedInv(t)'
    BY <1>2, <1>6 DEF CreatedInv, DeletedInv
  <2>2. /\ pc \in 1 .. 3
        /\ call = "readConfigMap" <=> pc = 1
        /\ call = "readClaim" <=> pc = 2
    BY <1>1, <1>6, ReadStep
  <2>3. FoundInv(t)'
    <3>1. SUFFICES ASSUME run[t].stage = "probe"
                   PROVE  /\ pc + 1 > 1 => cluster[t].configMap
                          /\ pc + 1 > 2 /\ conf[t].own => cluster[t].claim
      BY <1>1, <1>2, <1>6 DEF FoundInv
    <3>2. pc = 1 => cluster[t].configMap
      BY <2>2 DEF Found
    <3>3. pc = 2 /\ conf[t].own => cluster[t].claim
      BY <2>2 DEF Found
    <3>4. FoundInv(t)
      BY DEF TaskInv, CloudInv
    <3>5. QED
      BY <2>2, <3>1, <3>2, <3>3, <3>4 DEF FoundInv
  <2>4. OwedInv(t)'
    BY <1>1, <1>2, <1>6 DEF TaskInv, OwedInv
  <2>5. QED
    BY <1>3, <1>4, <1>5, <2>1, <2>3, <2>4 DEF TaskInv, CloudInv
<1>7. CASE run[t].stage \notin {"refresh", "probe"}
  <2>1. run[t].stage = "create" /\ call = "permissionSet"
    BY <1>1, <1>7, StageOf DEF Reading
  <2>2. PICK n \in 3 .. 8 : /\ n = Len(CreateSteps(conf[t])) /\ pc \in 1 .. n
                            /\ n = 3 + (IF conf[t].own THEN 1 ELSE 0)
                                     + (IF conf[t].workdir THEN 4 ELSE 0)
    BY <1>1, <2>1, CreateStep
  <2>3. pc = 1
    BY <1>1, <2>1, CreateStep
  <2>4. CreatedInv(t)'
    <3>1. n = Len(CreateSteps(conf'[t])) /\ pc + 1 = 2
      BY <1>2, <2>2, <2>3
    <3>2. conf[t].workdir => n - 2 # 2
      BY <2>2
    <3>3. QED
      BY <1>2, <2>2, <3>1, <3>2 DEF CreatedInv
  <2>5. FoundInv(t)' /\ DeletedInv(t)' /\ OwedInv(t)'
    BY <1>2, <2>1 DEF FoundInv, DeletedInv, OwedInv
  <2>6. QED
    BY <1>3, <1>4, <1>5, <2>4, <2>5 DEF TaskInv, CloudInv
<1>8. QED
  BY <1>6, <1>7

\* A handler begins another program, or ends, after an error.  Unless something
\* went wrong by itself, the error is that of a transfer, which finds all of the
\* task there.
LEMMA FailsKeep ==
  ASSUME TypeOK, NEW t \in Tasks, TaskInv(t), Running(t), Fails(t),
         ObjectsInv(t)', VolumesInv(t)',
         failures' = 0 /\ crashes' = 0 =>
           /\ failures = 0 /\ crashes = 0
           /\ \/ run[t].stage = "create" /\ conf[t].workdir
              \/ run[t].stage = "delete"
           /\ cluster'[t].configMap /\ (conf[t].own => cluster'[t].claim)
           /\ cluster'[t].job # "none"
  PROVE  TaskInv(t)'
<1>1. /\ run[t].stage = "create" => run'[t] = Handler(run[t].handler, DeleteStage(t))
      /\ run[t].stage = "probe" => run'[t] = Handler(run[t].handler, "delete")
      /\ run[t].stage \notin {"create", "probe"} => run'[t] = Idle
      /\ DeleteStage(t) = IF HasDirectoryOut(conf[t]) THEN "probe" ELSE "delete"
  BY RetreatTo DEF Fails, DeleteStage
<1>2. conf' = conf /\ dangling' = dangling /\ owed' = owed
  BY DEF Fails, Retreat
<1>3. run[t].stage \in {"create", "refresh", "probe", "delete"}
  BY StageOf
<1>4. tf'[t] = IF run[t].handler = "apply" /\ run[t].stage = "delete" THEN "tainted" ELSE tf[t]
  BY DEF Fails, TypeOK, TaskType
<1>5. /\ run'[t].pc = 1 /\ ~run'[t].readable /\ run'[t].stage \in {"none", "probe", "delete"}
      /\ run'[t] # Idle => run'[t].handler = run[t].handler /\ run'[t].stage # "none"
      /\ run'[t].stage = "none" => run'[t] = Idle
      /\ run'[t] = Idle <=> run[t].stage \in {"refresh", "delete"}
      /\ Idle.handler = "none" /\ Idle.stage = "none"
  BY <1>1, <1>3 DEF Handler, Idle
<1>6. HandlerInv(t)
  BY DEF TaskInv
<1>7. tf'[t] # "absent" \/ run'[t] # Idle
  BY <1>3, <1>4, <1>5, <1>6 DEF HandlerInv
<1>8. HandlerInv(t)'
  BY <1>3, <1>4, <1>5, <1>6 DEF HandlerInv
<1>9. TrackedInv(t)'
  BY <1>7 DEF TrackedInv
<1>10. ~Downloads(t)' /\ Skipped(t)' = 0
  BY <1>5 DEF Downloads, Skipped
<1>11. CreatedInv(t)' /\ FoundInv(t)' /\ DeletedInv(t)'
  BY <1>5, <1>10 DEF CreatedInv, FoundInv, DeletedInv
<1>12. OwedInv(t)'
  <2>1. run'[t].stage = "probe" => run'[t].handler = "apply"
    BY <1>1, <1>3, <1>5, <1>6 DEF HandlerInv, Handler
  <2>2. QED
    BY <1>10, <2>1 DEF OwedInv
<1>13. CalmInv(t)'
  <2>1. SUFFICES ASSUME failures' = 0, crashes' = 0
                 PROVE  ~(run'[t].stage = "delete" /\ HasDirectoryOut(conf[t]))
    BY <1>2 DEF CalmInv
  <2>2. CASE run[t].stage = "create" /\ conf[t].workdir
    BY <1>1, <2>2 DEF HasDirectoryOut, Handler
  <2>3. CASE run[t].stage = "delete"
    BY <1>5, <2>3
  <2>4. QED
    BY <2>1, <2>2, <2>3
<1>14. QED
  BY <1>8, <1>9, <1>11, <1>12, <1>13 DEF TaskInv, CloudInv

\* And the other tasks.
LEMMA FailsApart ==
  ASSUME TypeOK, NEW t \in Tasks, Fails(t), saved' = saved, crashes' = crashes,
         failures' = failures \/ failures' = failures + 1,
         ClusterCall(t) \/ UNCHANGED <<cluster, data>>
  PROVE  Apart(t)
<1>1. \A u \in Tasks \ {t} : cluster'[u] = cluster[u] /\ data'[u] = data[u]
  BY CallEffect
<1>2. \A u \in Tasks \ {t} : run'[u] = run[u] /\ tf'[u] = tf[u]
  BY DEF Fails, Retreat, TypeOK, RunType, TaskType
<1>3. UNCHANGED <<conf, owed, dangling>>
  BY DEF Fails, Retreat
<1>4. failures' >= failures /\ crashes' >= crashes
  BY ConstantsTyped DEF TypeOK, TaskType
<1>5. QED
  BY <1>1, <1>2, <1>3, <1>4 DEF Apart

\* A Read call that does not find its object: something went wrong before.
LEMMA NotFoundKeeps ==
  ASSUME TypeOK, NEW t \in Tasks, TaskInv(t), Look(t), ~Found(t)
  PROVE  TaskInv(t)' /\ Apart(t)
<1>1. /\ Fails(t) /\ Running(t) /\ Step(t).call \in Reading
      /\ UNCHANGED <<cluster, data, made, saved, failures, crashes>>
  BY DEF Look, Succeeds, At
<1>2. conf' = conf
  BY <1>1 DEF Fails, Retreat
<1>3. ObjectsInv(t)' /\ VolumesInv(t)'
  BY <1>1, <1>2 DEF TaskInv, CloudInv, ObjectsInv, VolumesInv
<1>4. run[t].stage \in {"refresh", "probe"}
  BY <1>1, StageOf DEF Found, Reading
<1>5. ~(failures = 0 /\ crashes = 0)
  <2>1. SUFFICES ASSUME failures = 0, crashes = 0 PROVE Found(t)
    OBVIOUS
  <2>2. run[t].stage = "refresh" => tf[t] # "absent"
    BY DEF TaskInv, HandlerInv
  <2>3. cluster[t].configMap /\ (conf[t].own => cluster[t].claim) /\ cluster[t].job # "none"
    BY <1>4, <2>1, <2>2 DEF TaskInv, CalmInv
  <2>4. QED
    BY <2>3 DEF Found
<1>6. TaskInv(t)'
  BY <1>1, <1>3, <1>5, FailsKeep
<1>7. QED
  BY <1>1, <1>6, FailsApart

\* A transfer that fails.
LEMMA TransferFailsKeeps ==
  ASSUME TypeOK, NEW t \in Tasks, TaskInv(t), StepTransferFails(t)
  PROVE  TaskInv(t)' /\ Apart(t)
<1>1. /\ Fails(t) /\ Running(t) /\ Step(t).call \in {"push", "pull"}
      /\ UNCHANGED <<cluster, data, made, saved, failures, crashes>>
  BY DEF StepTransferFails, At
<1>2. conf' = conf
  BY <1>1 DEF Fails, Retreat
<1>3. ObjectsInv(t)' /\ VolumesInv(t)'
  BY <1>1, <1>2 DEF TaskInv, CloudInv, ObjectsInv, VolumesInv
<1>4. CASE Step(t).call = "push"
  <2>1. run[t].stage = "create"
    BY <1>1, <1>4, StageOf
  <2>2. PICK n \in 3 .. 8 :
          /\ n = Len(CreateSteps(conf[t])) /\ run[t].pc \in 1 .. n
          /\ n = 3 + (IF conf[t].own THEN 1 ELSE 0) + (IF conf[t].workdir THEN 4 ELSE 0)
          /\ conf[t].workdir /\ run[t].pc = n - 2
    BY <1>1, <1>4, <2>1, CreateStep
  <2>3. run[t].pc > 3
    BY <2>2
  <2>4. CreatedInv(t)
    BY DEF TaskInv, CloudInv
  <2>5. cluster[t].configMap /\ (conf[t].own => cluster[t].claim) /\ cluster[t].job # "none"
    BY <2>1, <2>2, <2>3, <2>4 DEF CreatedInv
  <2>6. TaskInv(t)'
    BY <1>1, <1>3, <2>1, <2>2, <2>5, FailsKeep
  <2>7. QED
    BY <1>1, <2>6, FailsApart
<1>5. CASE Step(t).call = "pull"
  <2>1. run[t].stage = "delete"
    BY <1>1, <1>5, StageOf
  <2>2. run[t].pc = 3 /\ Downloads(t)
    BY <1>1, <1>5, <2>1, DeleteStep DEF Skipped
  <2>3. cluster[t].configMap /\ (conf[t].own => cluster[t].claim) /\ cluster[t].job # "none"
    BY <2>1, <2>2 DEF TaskInv, CloudInv, FoundInv
  <2>4. TaskInv(t)'
    BY <1>1, <1>3, <2>1, <2>3, FailsKeep
  <2>5. QED
    BY <1>1, <2>4, FailsApart
<1>6. QED
  BY <1>1, <1>4, <1>5

\* A call that returns an error.
LEMMA StepErrorKeeps ==
  ASSUME TypeOK, NEW t \in Tasks, TaskInv(t), StepError(t)
  PROVE  TaskInv(t)' /\ Apart(t)
<1>1. /\ Fails(t) /\ Running(t) /\ failures' = failures + 1 /\ UNCHANGED <<made, saved, crashes>>
      /\ ClusterCall(t) \/ UNCHANGED <<cluster, data>>
  BY DEF StepError
<1>2. conf' = conf
  BY <1>1 DEF Fails, Retreat
<1>3. ObjectsInv(t)' /\ VolumesInv(t)'
  <2>1. CASE ClusterCall(t)
    BY <1>2, <2>1, CallObjects
  <2>2. CASE UNCHANGED <<cluster, data>>
    BY <1>2, <2>2 DEF TaskInv, CloudInv, ObjectsInv, VolumesInv
  <2>3. QED
    BY <1>1, <2>1, <2>2
<1>4. failures' # 0
  BY <1>1, ConstantsTyped DEF TypeOK, TaskType
<1>5. TaskInv(t)'
  BY <1>1, <1>3, <1>4, FailsKeep
<1>6. QED
  BY <1>1, <1>5, FailsApart

LEMMA BeginKeeps ==
  ASSUME TypeOK, NEW t \in Tasks, TaskInv(t), Apply(t) \/ Refresh(t) \/ Destroy(t)
  PROVE  TaskInv(t)' /\ Apart(t)
<1>1. PICK operation \in {"apply", "refresh", "destroy"},
           stage \in {"create", "refresh", "probe", "delete"} :
        /\ Begin(t, operation, stage)
        /\ operation = "apply" <=> stage = "create"
        /\ operation = "refresh" <=> stage = "refresh"
        /\ operation = "apply" <=> tf[t] = "absent"
        /\ operation # "destroy" => owed' = owed
        /\ operation = "destroy" =>
             stage = DeleteStage(t) /\ owed' = [owed EXCEPT ![t] = data[t].results]
  <2>1. DeleteStage(t) \in {"probe", "delete"}
    BY DEF DeleteStage
  <2>2. QED
    BY <2>1 DEF Apply, Refresh, Destroy
<1>2. /\ UNCHANGED <<conf, tf, environ, cluster, data, made, saved, failures, crashes, dangling>>
      /\ run[t] = Idle /\ run'[t] = Handler(operation, stage)
      /\ \A u \in Tasks \ {t} : run'[u] = run[u]
  BY <1>1 DEF Begin, TypeOK, RunType
<1>3. /\ run'[t].handler = operation /\ run'[t].stage = stage /\ run'[t].pc = 1
      /\ ~run'[t].readable /\ stage # "none" /\ run'[t] # Idle
      /\ run[t].stage = "none"
  BY <1>2 DEF Handler, Idle
<1>4. HandlerInv(t)'
  BY <1>1, <1>2, <1>3 DEF HandlerInv
<1>5. ~Downloads(t)' /\ Skipped(t)' = 0
  BY <1>3 DEF Downloads, Skipped
<1>6. ObjectsInv(t)' /\ VolumesInv(t)'
  BY <1>2 DEF TaskInv, CloudInv, ObjectsInv, VolumesInv
<1>7. FoundInv(t)' /\ DeletedInv(t)' /\ TrackedInv(t)'
  BY <1>3, <1>5 DEF FoundInv, DeletedInv, TrackedInv
<1>8. CreatedInv(t)'
  <2>1. conf[t] \in Configs
    BY TaskTypes
  <2>2. PICK n \in 3 .. 8 :
          /\ n = Len(CreateSteps(conf[t]))
          /\ n = 3 + (IF conf[t].own THEN 1 ELSE 0) + (IF conf[t].workdir THEN 4 ELSE 0)
    <3> DEFINE m == 3 + (IF conf[t].own THEN 1 ELSE 0) + (IF conf[t].workdir THEN 4 ELSE 0)
    <3>1. Len(CreateSteps(conf[t])) = m /\ m \in 3 .. 8
      BY <2>1, CreatePlaces
    <3>2. QED
      BY <3>1
  <2>3. ~(run'[t].pc > n) /\ ~(run'[t].pc > 2) /\ ~(run'[t].pc > 3)
        /\ (conf[t].workdir => run'[t].pc # n - 2)
    BY <1>3, <2>2
  <2>4. QED
    BY <1>2, <2>2, <2>3 DEF CreatedInv
<1>9. OwedInv(t)'
  <2>1. operation = "destroy" => owed'[t] = data[t].results
    BY <1>1 DEF TypeOK, DataType
  <2>2. QED
    BY <1>2, <1>3, <1>5, <2>1 DEF OwedInv
<1>10. CalmInv(t)'
  <2>1. SUFFICES ASSUME failures = 0, crashes = 0
                 PROVE  /\ stage \in {"probe", "refresh"} =>
                             /\ cluster[t].configMap /\ (conf[t].own => cluster[t].claim)
                             /\ cluster[t].job # "none"
                        /\ ~(stage = "delete" /\ HasDirectoryOut(conf[t]))
    BY <1>2, <1>3 DEF CalmInv
  <2>2. stage \in {"probe", "refresh"} => tf[t] # "absent"
    BY <1>1
  <2>3. ~(stage = "delete" /\ HasDirectoryOut(conf[t]))
    BY <1>1 DEF DeleteStage
  <2>4. QED
    BY <1>3, <2>1, <2>2, <2>3 DEF TaskInv, CalmInv
<1>11. Apart(t)
  <2>1. \A u \in Tasks \ {t} : owed'[u] = owed[u]
    BY <1>1 DEF TypeOK, DataType
  <2>2. QED
    BY <1>2, <2>1, ConstantsTyped DEF Apart, TypeOK, TaskType
<1>12. QED
  BY <1>4, <1>6, <1>7, <1>8, <1>9, <1>10, <1>11 DEF TaskInv, CloudInv

LEMMA SetenvKeeps ==
  ASSUME TypeOK, NEW t \in Tasks, TaskInv(t), Setenv(t)
  PROVE  TaskInv(t)' /\ Apart(t)
<1>1. /\ UNCHANGED <<conf, tf, cluster, data, made, saved, failures, crashes, dangling, owed>>
      /\ Running(t) /\ run' = [run EXCEPT ![t].inside = TRUE]
  BY DEF Setenv
<1>2. /\ run'[t].handler = run[t].handler /\ run'[t].stage = run[t].stage
      /\ run'[t].readable = run[t].readable /\ run'[t].pc = run[t].pc
      /\ \A u \in Tasks \ {t} : run'[u] = run[u]
  BY <1>1 DEF TypeOK, RunType, Run
<1>3. run'[t].stage # "none" /\ run'[t] # Idle
  BY <1>1, <1>2, StageOf DEF Idle, Handler
<1>4. (Downloads(t)' <=> Downloads(t)) /\ Skipped(t)' = Skipped(t)
  BY <1>1, <1>2 DEF Downloads, Skipped
<1>5. HandlerInv(t)' /\ TrackedInv(t)'
  BY <1>1, <1>2, <1>3 DEF TaskInv, HandlerInv, TrackedInv
<1>6. ObjectsInv(t)' /\ VolumesInv(t)' /\ CreatedInv(t)'
  BY <1>1, <1>2 DEF TaskInv, CloudInv, ObjectsInv, VolumesInv, CreatedInv
<1>7. FoundInv(t)' /\ DeletedInv(t)'
  BY <1>1, <1>2, <1>4 DEF TaskInv, CloudInv, FoundInv, DeletedInv
<1>8. OwedInv(t)' /\ CalmInv(t)'
  BY <1>1, <1>2, <1>4 DEF TaskInv, OwedInv, CalmInv
<1>9. Apart(t)
  BY <1>1, <1>2, ConstantsTyped DEF Apart, TypeOK, TaskType
<1>10. QED
  BY <1>5, <1>6, <1>7, <1>8, <1>9 DEF TaskInv, CloudInv

\* A program that has ended is past its last step.
LEMMA PastTheEnd ==
  ASSUME TypeOK, NEW t \in Tasks, ~Running(t), run[t].stage # "none"
  PROVE  /\ run[t].stage = "create" =>
              run[t].pc > Len(CreateSteps(conf[t])) /\ run[t].pc > 3
                /\ Len(CreateSteps(conf[t])) \in Nat
         /\ run[t].stage \in {"refresh", "probe"} => run[t].pc > 3
         /\ run[t].stage = "delete" =>
              run[t].pc > Skipped(t) + 2 + (IF conf[t].own THEN 1 ELSE 0)
<1>1. conf[t] \in Configs /\ run[t].pc \in 1 .. 9 /\ run[t].readable \in BOOLEAN
  BY TaskTypes
<1>2. CASE run[t].stage = "create"
  <2>1. Program(t) = CreateSteps(conf[t])
    BY <1>2, ProgramOf
  <2>2. PICK n \in Nat : /\ n = Len(CreateSteps(conf[t])) /\ n > 2
                         /\ DOMAIN CreateSteps(conf[t]) = 1 .. n
    <3> DEFINE m == 3 + (IF conf[t].own THEN 1 ELSE 0) + (IF conf[t].workdir THEN 4 ELSE 0)
    <3>1. Len(CreateSteps(conf[t])) = m /\ DOMAIN CreateSteps(conf[t]) = 1 .. m
      BY <1>1, CreatePlaces
    <3>2. m \in Nat /\ m > 2
      OBVIOUS
    <3>3. QED
      BY <3>1, <3>2
  <2>3. run[t].pc \notin 1 .. n
    BY <1>2, <2>1, <2>2 DEF Running
  <2>4. QED
    BY <1>1, <1>2, <2>2, <2>3
<1>3. CASE run[t].stage \in {"refresh", "probe"}
  <2>1. Program(t) = ReadSteps
    BY <1>3, ProgramOf
  <2>2. QED
    BY <1>1, <1>3, <2>1, ReadPlaces DEF Running
<1>4. CASE run[t].stage = "delete"
  <2> DEFINE n == Skipped(t) + 2 + (IF conf[t].own THEN 1 ELSE 0)
  <2>1. Program(t) = DeleteSteps(conf[t], run[t].readable)
    BY <1>4, ProgramOf
  <2>2. DOMAIN DeleteSteps(conf[t], run[t].readable) = 1 .. n
    BY <1>1, DeletePlaces DEF Skipped, Downloads
  <2>3. n \in Nat
    BY DEF Skipped
  <2>4. run[t].pc \notin 1 .. n
    BY <1>4, <2>1, <2>2 DEF Running
  <2>5. QED
    BY <1>1, <1>4, <2>3, <2>4
<1>5. QED
  BY <1>1, <1>2, <1>3, <1>4, TaskTypes DEF Run

\* A handler that ends, or that a deadline ends, with what holds of its task then.
LEMMA EndKeeps ==
  ASSUME TypeOK, NEW t \in Tasks, TaskInv(t), run'[t] = Idle,
         UNCHANGED <<conf, cluster, data, saved, owed>>,
         \/ tf'[t] # "absent" \/ t \in dangling' \/ cluster[t] = Nothing,
         failures' = 0 /\ crashes' = 0 /\ tf'[t] # "absent" =>
           /\ cluster[t].configMap /\ (conf[t].own => cluster[t].claim)
           /\ cluster[t].job # "none"
  PROVE  TaskInv(t)'
<1>1. /\ run'[t].stage = "none" /\ run'[t].handler = "none" /\ ~run'[t].readable
      /\ run'[t] = Idle
  BY DEF Idle, Handler
<1>2. HandlerInv(t)' /\ TrackedInv(t)'
  BY <1>1 DEF HandlerInv, TrackedInv, Idle, Nothing, NoPods, Handler
<1>3. ObjectsInv(t)' /\ VolumesInv(t)'
  BY DEF TaskInv, CloudInv, ObjectsInv, VolumesInv
<1>4. CreatedInv(t)' /\ FoundInv(t)' /\ DeletedInv(t)' /\ OwedInv(t)'
  BY <1>1 DEF CreatedInv, FoundInv, DeletedInv, OwedInv
<1>5. CalmInv(t)'
  BY <1>1 DEF CalmInv
<1>6. QED
  BY <1>2, <1>3, <1>4, <1>5 DEF TaskInv, CloudInv

LEMMA ReturnKeeps ==
  ASSUME TypeOK, NEW t \in Tasks, TaskInv(t),
         CreateReturns(t) \/ RefreshReturns(t) \/ DeleteReturns(t)
  PROVE  TaskInv(t)' /\ Apart(t)
<1>1. /\ run' = [run EXCEPT ![t] = Idle] /\ ~Running(t)
      /\ UNCHANGED <<conf, environ, cluster, data, made, saved, failures, crashes, owed>>
      /\ dangling' = dangling \/ dangling' = dangling \ {t}
      /\ \E state : tf' = [tf EXCEPT ![t] = state]
  BY DEF CreateReturns, RefreshReturns, DeleteReturns, End, Ended
<1>2. run'[t] = Idle /\ \A u \in Tasks \ {t} : run'[u] = run[u] /\ tf'[u] = tf[u]
  BY <1>1 DEF TypeOK, RunType, TaskType
<1>3. Apart(t)
  BY <1>1, <1>2, ConstantsTyped DEF Apart, TypeOK, TaskType
<1>4. CASE CreateReturns(t)
  <2>1. run[t].stage = "create" /\ tf'[t] = "present"
    BY <1>4 DEF CreateReturns, Ended, End, TypeOK, TaskType
  <2>2. CreatedInv(t)
    BY DEF TaskInv, CloudInv
  <2>3. cluster[t].configMap /\ (conf[t].own => cluster[t].claim) /\ cluster[t].job # "none"
    BY <1>1, <2>1, <2>2, PastTheEnd, TaskTypes DEF CreatedInv
  <2>4. QED
    BY <1>1, <1>2, <1>3, <2>1, <2>3, EndKeeps
<1>5. CASE RefreshReturns(t)
  <2>1. run[t].stage = "refresh" /\ tf'[t] = tf[t]
    BY <1>5 DEF RefreshReturns, Ended, End, TypeOK, TaskType
  <2>2. tf[t] # "absent"
    BY <2>1 DEF TaskInv, HandlerInv
  <2>3. failures = 0 /\ crashes = 0 =>
          /\ cluster[t].configMap /\ (conf[t].own => cluster[t].claim)
          /\ cluster[t].job # "none"
    BY <2>1, <2>2 DEF TaskInv, CalmInv
  <2>4. QED
    BY <1>1, <1>2, <1>3, <2>1, <2>2, <2>3, EndKeeps
<1>6. CASE DeleteReturns(t)
  <2>1. run[t].stage = "delete" /\ tf'[t] = "absent"
    BY <1>6 DEF DeleteReturns, Ended, End, TypeOK, TaskType
  <2>2. run[t].pc > Skipped(t) + 2 + (IF conf[t].own THEN 1 ELSE 0) /\ Skipped(t) \in Nat
        /\ run[t].pc \in 1 .. 9
    BY <1>1, <2>1, PastTheEnd, TaskTypes DEF Skipped
  <2>3. DeletedInv(t) /\ ObjectsInv(t)
    BY DEF TaskInv, CloudInv
  <2>4. cluster[t].job = "none" /\ ~cluster[t].configMap
    BY <2>1, <2>2, <2>3 DEF DeletedInv
  <2>5. ~cluster[t].claim
    <3>1. CASE conf[t].own
      BY <2>1, <2>2, <2>3, <3>1 DEF DeletedInv
    <3>2. CASE ~conf[t].own
      BY <2>3, <3>2 DEF ObjectsInv
    <3>3. QED
      BY <3>1, <3>2
  <2>6. cluster[t].pods = NoPods
    BY <2>3, <2>4 DEF ObjectsInv
  <2>7. cluster[t] = Nothing
    <3>1. cluster[t] = [configMap |-> cluster[t].configMap, claim |-> cluster[t].claim,
                        job |-> cluster[t].job, pods |-> cluster[t].pods]
      BY TaskTypes DEF Cluster
    <3>2. cluster[t].configMap = FALSE /\ cluster[t].claim = FALSE
      BY <2>4, <2>5, TaskTypes DEF Cluster
    <3>3. QED
      BY <2>4, <2>6, <3>1, <3>2 DEF Nothing
  <2>8. QED
    BY <1>1, <1>2, <1>3, <2>1, <2>7, EndKeeps
<1>7. QED
  BY <1>4, <1>5, <1>6

LEMMA ExpireKeeps ==
  ASSUME TypeOK, NEW t \in Tasks, TaskInv(t), Expire(t)
  PROVE  TaskInv(t)' /\ Apart(t)
<1>1. /\ run' = [run EXCEPT ![t] = Idle] /\ Running(t) /\ failures' = failures + 1
      /\ UNCHANGED <<conf, cluster, data, made, saved, crashes, dangling, owed>>
  BY DEF Expire
<1>2. /\ run'[t] = Idle /\ \A u \in Tasks \ {t} : run'[u] = run[u] /\ tf'[u] = tf[u]
      /\ tf'[t] = IF run[t].handler = "apply" THEN "tainted" ELSE tf[t]
  BY DEF Expire, TypeOK, RunType, TaskType
<1>3. Apart(t)
  BY <1>1, <1>2, ConstantsTyped DEF Apart, TypeOK, TaskType
<1>4. tf'[t] # "absent"
  BY <1>1, <1>2, StageOf DEF TaskInv, HandlerInv
<1>5. failures' # 0
  BY <1>1, ConstantsTyped DEF TypeOK, TaskType
<1>6. QED
  BY <1>1, <1>2, <1>3, <1>4, <1>5, EndKeeps

LEMMA CrashKeeps ==
  ASSUME TypeOK, NEW t \in Tasks, TaskInv(t), Crash
  PROVE  TaskInv(t)'
<1>1. /\ run'[t] = Idle /\ UNCHANGED <<conf, tf, cluster, data, made, saved, failures, owed>>
      /\ crashes' = crashes + 1
      /\ t \in dangling' <=> t \in dangling \/ run[t].handler = "apply"
  BY DEF Crash
<1>2. crashes' # 0
  BY <1>1, ConstantsTyped DEF TypeOK, TaskType
<1>3. run[t].stage \in {"none", "create", "refresh", "probe", "delete"}
  BY TaskTypes DEF Run
<1>4. tf'[t] # "absent" \/ t \in dangling' \/ cluster[t] = Nothing
  BY <1>1, <1>3 DEF TaskInv, HandlerInv, CloudInv, TrackedInv
<1>5. QED
  BY <1>1, <1>2, <1>4, EndKeeps

\* What Task.Read found is still there when Task.Delete goes on.
LEMMA ProbeKeeps ==
  ASSUME TypeOK, NEW t \in Tasks, TaskInv(t), ProbeReturns(t)
  PROVE  TaskInv(t)' /\ Apart(t)
<1>1. /\ run[t].stage = "probe" /\ ~Running(t)
      /\ run' = [run EXCEPT ![t] = [Handler(run[t].handler, "delete") EXCEPT !.readable = TRUE]]
      /\ UNCHANGED <<conf, tf, environ, cluster, data, made, saved, failures, crashes,
                     dangling, owed>>
  BY DEF ProbeReturns, Ended
<1>2. /\ run'[t] = [Handler(run[t].handler, "delete") EXCEPT !.readable = TRUE]
      /\ \A u \in Tasks \ {t} : run'[u] = run[u]
  BY <1>1 DEF TypeOK, RunType
<1>3. /\ run'[t].handler = run[t].handler /\ run'[t].stage = "delete" /\ run'[t].pc = 1
      /\ run'[t].readable /\ run'[t] # Idle
  BY <1>2 DEF Handler, Idle
<1>4. run[t].pc > 3 /\ run[t].pc \in 1 .. 9
  BY <1>1, PastTheEnd, TaskTypes
<1>5. FoundInv(t)
  BY DEF TaskInv, CloudInv
<1>6. cluster[t].configMap /\ (conf[t].own => cluster[t].claim)
  BY <1>1, <1>4, <1>5 DEF FoundInv
<1>7. HandlerInv(t)' /\ TrackedInv(t)'
  BY <1>1, <1>3 DEF TaskInv, HandlerInv, TrackedInv
<1>8. ObjectsInv(t)' /\ VolumesInv(t)'
  BY <1>1 DEF TaskInv, CloudInv, ObjectsInv, VolumesInv
<1>9. CreatedInv(t)' /\ FoundInv(t)'
  BY <1>1, <1>3, <1>6 DEF CreatedInv, FoundInv
<1>10. Skipped(t)' \in {0, 4}
  BY DEF Skipped
<1>11. DeletedInv(t)'
  BY <1>3, <1>10 DEF DeletedInv
<1>12. OwedInv(t)'
  BY <1>1, <1>3 DEF TaskInv, OwedInv
<1>13. CalmInv(t)'
  BY <1>3 DEF CalmInv
<1>14. Apart(t)
  BY <1>1, <1>2, ConstantsTyped DEF Apart, TypeOK, TaskType
<1>15. QED
  BY <1>7, <1>8, <1>9, <1>11, <1>12, <1>13, <1>14 DEF TaskInv, CloudInv

\* The pods: an object comes or goes with a handler only, and what the volume
\* holds is lost with its directory only.
LEMMA PodsKeep ==
  ASSUME TypeOK, NEW t \in Tasks, TaskInv(t), PodSteps(t)
  PROVE  TaskInv(t)' /\ Apart(t)
<1>1. /\ UNCHANGED <<conf, tf, run, crashes, dangling, owed, saved>>
      /\ failures' >= failures /\ failures \in Nat /\ failures' \in Nat
      /\ cluster'[t].configMap = cluster[t].configMap /\ cluster'[t].claim = cluster[t].claim
      /\ cluster'[t].job = cluster[t].job
      /\ \A u \in Tasks \ {t} : cluster'[u] = cluster[u] /\ data'[u] = data[u]
  BY PodEffect, ConstantsTyped DEF TypeOK, TaskType
<1>2. HandlerInv(t)'
  BY <1>1 DEF TaskInv, HandlerInv
<1>3. (Downloads(t)' <=> Downloads(t)) /\ Skipped(t)' = Skipped(t)
  BY <1>1 DEF Downloads, Skipped
<1>4. ObjectsInv(t)
  BY DEF TaskInv, CloudInv
<1>5. cluster[t].job = "none" => cluster'[t] = cluster[t]
  <2>1. SUFFICES ASSUME cluster[t].job = "none" PROVE cluster'[t] = cluster[t]
    OBVIOUS
  <2>2. \A p \in Pods : cluster[t].pods[p] = "waiting"
    BY <1>4, <2>1 DEF ObjectsInv, NoPods
  <2>3. QED
    BY <2>1, <2>2, PodEffect
<1>6. ObjectsInv(t)' /\ VolumesInv(t)'
  BY <1>1, <1>4, <1>5 DEF TaskInv, CloudInv, ObjectsInv, VolumesInv
<1>7. CreatedInv(t)' /\ FoundInv(t)' /\ DeletedInv(t)'
  <2>1. CreatedInv(t)'
    BY <1>1 DEF TaskInv, CloudInv, CreatedInv
  <2>2. FoundInv(t)'
    BY <1>1, <1>3 DEF TaskInv, CloudInv, FoundInv
  <2>3. DeletedInv(t)'
    BY <1>1, <1>3 DEF TaskInv, CloudInv, DeletedInv
  <2>4. QED
    BY <2>1, <2>2, <2>3
<1>8. TrackedInv(t)'
  <2>1. TrackedInv(t)
    BY DEF TaskInv, CloudInv
  <2>2. cluster[t] = Nothing => cluster'[t] = Nothing
    BY <1>5 DEF Nothing
  <2>3. Nothing' = Nothing
    BY DEF Nothing, NoPods
  <2>4. QED
    BY <1>1, <2>1, <2>2, <2>3 DEF TrackedInv
<1>9. data'[t].directory = "missing" \/ (/\ data'[t].directory = data[t].directory
                                         /\ data[t].results \subseteq data'[t].results)
  <2>1. \/ data' = data
        \/ data' = [data EXCEPT ![t] = [directory |-> "missing", results |-> {}]]
        \/ data' = [data EXCEPT ![t].results = @ \union {made[t] + 1}]
    BY PodEffect
  <2>2. QED
    BY <2>1 DEF TypeOK, DataType, Data
<1>10. OwedInv(t)'
  BY <1>1, <1>3, <1>9 DEF TaskInv, OwedInv
<1>11. CalmInv(t)'
  BY <1>1 DEF TaskInv, CalmInv
<1>12. Apart(t)
  BY <1>1, ConstantsTyped DEF Apart, TypeOK, TaskType
<1>13. QED
  BY <1>2, <1>6, <1>7, <1>8, <1>10, <1>11, <1>12 DEF TaskInv, CloudInv

LEMMA InitInv == Init => IInv
<1> SUFFICES ASSUME Init, NEW t \in Tasks PROVE TaskInv(t)
  BY DEF IInv
<1>1. /\ tf[t] = "absent" /\ run[t] = Idle /\ cluster[t] = Nothing
      /\ run[t].stage = "none" /\ run[t].handler = "none" /\ ~run[t].readable
  BY DEF Init, Idle, Handler
<1>2. HandlerInv(t)
  BY <1>1 DEF HandlerInv
<1>3. CloudInv(t)
  BY <1>1 DEF CloudInv, ObjectsInv, VolumesInv, CreatedInv, FoundInv, DeletedInv, TrackedInv,
              Nothing
<1>4. OwedInv(t) /\ CalmInv(t)
  BY <1>1 DEF OwedInv, CalmInv
<1>5. QED
  BY <1>2, <1>3, <1>4 DEF TaskInv

\* One task acts, or all of them die.
LEMMA NextKeeps ==
  ASSUME TypeOK, IInv, Next
  PROVE  \/ Crash
         \/ \E t \in Tasks :
              /\ TaskInv(t)' /\ Apart(t)
              /\ \/ Apply(t) \/ Refresh(t) \/ Destroy(t)
                 \/ Setenv(t) \/ Look(t) \/ StepCluster(t) \/ StepPush(t) \/ StepPull(t)
                 \/ StepTransferFails(t) \/ StepError(t)
                 \/ CreateReturns(t) \/ RefreshReturns(t) \/ ProbeReturns(t) \/ DeleteReturns(t)
                 \/ Expire(t) \/ PodSteps(t)
BY NextActs, BeginKeeps, SetenvKeeps, FoundKeeps, NotFoundKeeps, StepClusterKeeps,
   TransferKeeps, TransferFailsKeeps, StepErrorKeeps, ReturnKeeps, ProbeKeeps, ExpireKeeps,
   PodsKeep DEF IInv

LEMMA InvStep == TypeOK /\ IInv /\ [Next]_vars => IInv'
<1> SUFFICES ASSUME TypeOK, IInv, [Next]_vars PROVE IInv'
  OBVIOUS
<1>1. CASE UNCHANGED vars
  BY <1>1 DEF vars, IInv, TaskInv, HandlerInv, CloudInv, ObjectsInv, VolumesInv, CreatedInv,
              FoundInv, DeletedInv, TrackedInv, OwedInv, CalmInv, Downloads, Skipped
<1>2. CASE Crash
  BY <1>2, CrashKeeps DEF IInv
<1>3. CASE \E t \in Tasks : TaskInv(t)' /\ Apart(t)
  BY <1>3, OthersKeep DEF IInv
<1>4. QED
  BY <1>1, <1>2, <1>3, NextKeeps

\* How Terraform comes to know a task, and how it forgets one.
LEMMA TrackedBy ==
  ASSUME TypeOK, IInv, Next, NEW t \in Tasks
  PROVE  /\ tf[t] # "absent" /\ tf'[t] = "absent" => DeleteReturns(t)
         /\ tf[t] # "present" /\ tf'[t] = "present" => CreateReturns(t)
<1>1. CASE Crash
  BY <1>1 DEF Crash
<1>2. ASSUME NEW u \in Tasks \ {t}, Apart(u)
      PROVE  tf'[t] = tf[t]
  BY <1>2 DEF Apart
<1>3. ASSUME Apply(t) \/ Refresh(t) \/ Destroy(t)
      PROVE  tf' = tf
  BY <1>3 DEF Apply, Refresh, Destroy, Begin
<1>4. ASSUME Fails(t)
      PROVE  tf'[t] \in {tf[t], "tainted"}
  BY <1>4 DEF Fails, TypeOK, TaskType
<1>5. ASSUME Setenv(t) \/ Look(t) \/ StepCluster(t) \/ StepPush(t) \/ StepPull(t)
               \/ StepTransferFails(t) \/ StepError(t)
      PROVE  tf' = tf \/ Fails(t)
  BY <1>5 DEF Setenv, Look, StepCluster, StepPush, StepPull, StepTransferFails, StepError,
              Succeeds, Advance
<1>6. ASSUME RefreshReturns(t) \/ ProbeReturns(t)
      PROVE  tf'[t] = tf[t]
  BY <1>6 DEF RefreshReturns, ProbeReturns, End, TypeOK, TaskType
<1>7. CreateReturns(t) => tf'[t] = "present"
  BY DEF CreateReturns, End, TypeOK, TaskType
<1>8. DeleteReturns(t) => tf'[t] = "absent"
  BY DEF DeleteReturns, End, TypeOK, TaskType
<1>9. Expire(t) => tf'[t] \in {tf[t], "tainted"}
  BY DEF Expire, TypeOK, TaskType
<1>10. PodSteps(t) => tf' = tf
  BY PodEffect
<1>11. QED
  BY <1>1, <1>2, <1>3, <1>4, <1>5, <1>6, <1>7, <1>8, <1>9, <1>10, NextKeeps

------------------------------------------------------------------------------
(* Theorems, whatever tasks the process works on. *)

\* The invariant is one of the specification.
THEOREM InductiveInvariant == Spec => [](TypeOK /\ IInv)
BY TypeCorrect, InitInv, InvStep, PTL DEF Spec

\* Nothing of a task that Terraform does not know is left in the namespace,
\* unless its apply died: resource_task.go:221-229 with Task.Delete of task/k8s.
THEOREM NoOrphansHolds == Spec => []NoOrphans
<1>1. IInv => NoOrphans
  BY DEF IInv, TaskInv, CloudInv, TrackedInv, NoOrphans
<1>2. QED
  BY <1>1, InductiveInvariant, PTL

\* A job has the config map and the claim that its pods mount.
THEOREM JobHasVolumesHolds == Spec => []JobHasVolumes
<1>1. IInv => JobHasVolumes
  BY DEF IInv, TaskInv, CloudInv, VolumesInv, JobHasVolumes
<1>2. QED
  BY <1>1, InductiveInvariant, PTL

\* A destroy saves what was in the volume when it began, if it could read the task
\* and whenever nothing failed before: README.md:142.
THEOREM DestroyDownloadsHolds == Spec => DestroyDownloads
<1> DEFINE Saves(t) ==
             tf[t] # "absent" /\ tf'[t] = "absent" /\ conf[t].own /\ conf[t].workdir
               /\ (run[t].readable \/ (failures = 0 /\ crashes = 0))
             => owed[t] \subseteq saved'[t]
<1>1. ASSUME TypeOK, IInv, Next, NEW t \in Tasks PROVE Saves(t)
  <2>1. SUFFICES ASSUME tf[t] # "absent", tf'[t] = "absent", conf[t].own, conf[t].workdir,
                        run[t].readable \/ (failures = 0 /\ crashes = 0)
                 PROVE  owed[t] \subseteq saved'[t]
    OBVIOUS
  <2>2. run[t].stage = "delete" /\ ~Running(t) /\ saved' = saved
    BY <1>1, <2>1, TrackedBy DEF DeleteReturns, Ended, End
  <2>3. TaskInv(t)
    BY <1>1 DEF IInv
  <2>4. run[t].handler = "destroy"
    BY <2>1, <2>2, <2>3 DEF TaskInv, HandlerInv
  <2>5. HasDirectoryOut(conf[t])
    BY <2>1 DEF HasDirectoryOut
  <2>6. Downloads(t)
    BY <2>1, <2>2, <2>3, <2>5 DEF TaskInv, CalmInv, Downloads
  <2>7. run[t].pc > 3
    BY <1>1, <2>2, <2>6, PastTheEnd, TaskTypes DEF Skipped
  <2>8. QED
    BY <2>1, <2>2, <2>3, <2>4, <2>6, <2>7 DEF TaskInv, OwedInv
<1>2. TypeOK /\ IInv /\ [Next]_vars => [\A t \in Tasks : Saves(t)]_vars
  BY <1>1
<1>3. QED
  BY <1>2, InductiveInvariant, PTL DEF Spec, DestroyDownloads

------------------------------------------------------------------------------
(* One task in the process: its jobs do what they are made for. *)

\* withEnv leaves nothing behind.
LEMMA UnsetenvAlone ==
  ASSUME NEW t \in Tasks, EnvironInv(t), Unsetenv(t)
  PROVE  environ' = {}
BY DEF EnvironInv, Unsetenv

\* The job that a step makes is the one the step is for.
LEMMA ModeIs ==
  ASSUME TypeOK, NEW t \in Tasks, EnvironInv(t), At(t, "createJob")
  PROVE  /\ Step(t).env = {} => Mode = "script"
         /\ Step(t).env = Pulling => Mode = "pull"
<1>1. environ = Step(t).env
  BY DEF EnvironInv, At
<1>2. QED
  BY <1>1 DEF Mode, Pulling

LEMMA OnlyWithoutSteps ==
  ASSUME TypeOK, NEW t \in Tasks, environ' = {}, ~run'[t].inside,
         run'[t].stage # "create", run'[t].stage = "delete" => run'[t].pc = 1
  PROVE  OnlyInv(t)'
<1>1. EnvironInv(t)'
  BY DEF EnvironInv
<1>2. Skipped(t)' \in {0, 4}
  BY DEF Skipped
<1>3. LengthInv(t)'
  BY <1>2 DEF LengthInv
<1>4. QuietInv(t)' /\ ScriptInv(t)'
  BY DEF QuietInv, ScriptInv
<1>5. QED
  BY <1>1, <1>3, <1>4 DEF OnlyInv

\* A handler that begins another program or ends.
LEMMA OnlyEnds ==
  ASSUME TypeOK, NEW t \in Tasks, OnlyInv(t),
         \/ Fails(t) \/ Expire(t)
         \/ CreateReturns(t) \/ RefreshReturns(t) \/ ProbeReturns(t) \/ DeleteReturns(t) \/ Crash
  PROVE  OnlyInv(t)'
<1>1. /\ Idle.stage = "none" /\ ~Idle.inside
      /\ \A operation, stage : /\ Handler(operation, stage).pc = 1
                               /\ Handler(operation, stage).stage = stage
                               /\ ~Handler(operation, stage).inside
  BY DEF Idle, Handler
<1>2. EnvironInv(t)
  BY DEF OnlyInv
<1>3. CASE Fails(t)
  <2>1. environ' = {} /\ ~run'[t].inside
    BY <1>2, <1>3, UnsetenvAlone, RetreatTo DEF Fails, Retreat
  <2>2. DeleteStage(t) \in {"probe", "delete"}
    BY DEF DeleteStage
  <2>3. run'[t].stage # "create" /\ (run'[t].stage = "delete" => run'[t].pc = 1)
    BY <1>1, <1>3, <2>2, RetreatTo DEF Fails
  <2>4. QED
    BY <2>1, <2>3, OnlyWithoutSteps
<1>4. CASE Expire(t)
  <2>1. environ' = {} /\ run'[t] = Idle
    BY <1>2, <1>4, UnsetenvAlone DEF Expire, TypeOK, RunType
  <2>2. QED
    BY <1>1, <2>1, OnlyWithoutSteps
<1>5. CASE CreateReturns(t) \/ RefreshReturns(t) \/ DeleteReturns(t)
  <2>1. ~Running(t) /\ environ' = environ /\ run'[t] = Idle
    BY <1>5 DEF CreateReturns, RefreshReturns, DeleteReturns, End, Ended, TypeOK, RunType
  <2>2. environ' = {}
    BY <1>2, <2>1 DEF EnvironInv, TypeOK, RunType
  <2>3. QED
    BY <1>1, <2>1, <2>2, OnlyWithoutSteps
<1>6. CASE ProbeReturns(t)
  <2>1. /\ ~Running(t) /\ environ' = environ
        /\ run'[t] = [Handler(run[t].handler, "delete") EXCEPT !.readable = TRUE]
    BY <1>6 DEF ProbeReturns, Ended, TypeOK, RunType
  <2>2. run'[t].pc = 1 /\ run'[t].stage = "delete" /\ ~run'[t].inside
    BY <2>1 DEF Handler
  <2>3. environ' = {}
    BY <1>2, <2>1 DEF EnvironInv, TypeOK, RunType
  <2>4. QED
    BY <2>2, <2>3, OnlyWithoutSteps
<1>7. CASE Crash
  <2>1. run'[t] = Idle /\ environ' = {}
    BY <1>7 DEF Crash
  <2>2. QED
    BY <1>1, <2>1, OnlyWithoutSteps
<1>8. QED
  BY <1>3, <1>4, <1>5, <1>6, <1>7

\* A handler that begins: an apply finds no job, unless one died with it.
LEMMA OnlyBegins ==
  ASSUME TypeOK, NEW t \in Tasks, TaskInv(t), OnlyInv(t), Apply(t) \/ Refresh(t) \/ Destroy(t)
  PROVE  OnlyInv(t)'
<1>1. PICK operation \in {"apply", "refresh", "destroy"},
           stage \in {"create", "refresh", "probe", "delete"} :
        Begin(t, operation, stage) /\ (stage = "create" => tf[t] = "absent")
  BY DEF Apply, Refresh, Destroy, DeleteStage
<1>2. /\ UNCHANGED <<conf, tf, environ, cluster, dangling>>
      /\ run[t] = Idle /\ run'[t] = Handler(operation, stage)
  BY <1>1 DEF Begin, TypeOK, RunType
<1>3. run'[t].stage = stage /\ run'[t].pc = 1 /\ ~run'[t].inside /\ ~run[t].inside
  BY <1>2 DEF Handler, Idle
<1>4. environ' = {}
  BY <1>2, <1>3 DEF OnlyInv, EnvironInv
<1>5. CASE stage = "create"
  <2>1. EnvironInv(t)' /\ LengthInv(t)' /\ QuietInv(t)'
    BY <1>3, <1>4, <1>5 DEF EnvironInv, LengthInv, QuietInv
  <2>2. PICK n \in 3 .. 8 :
          /\ n = Len(CreateSteps(conf[t]))
          /\ n = 3 + (IF conf[t].own THEN 1 ELSE 0) + (IF conf[t].workdir THEN 4 ELSE 0)
    <3> DEFINE m == 3 + (IF conf[t].own THEN 1 ELSE 0) + (IF conf[t].workdir THEN 4 ELSE 0)
    <3>1. Len(CreateSteps(conf[t])) = m
      BY TaskTypes, CreatePlaces
    <3>2. m \in 3 .. 8
      OBVIOUS
    <3>3. QED
      BY <3>1, <3>2
  <2>3. t \notin dangling => cluster[t].job = "none"
    BY <1>1, <1>2, <1>5 DEF TaskInv, CloudInv, TrackedInv, Nothing
  <2>4. n > 2
    BY <2>2
  <2>5. ScriptInv(t)'
    <3>1. ~(run'[t].pc > n) /\ run'[t].pc # n
      BY <1>3, <2>4
    <3>2. QED
      BY <1>2, <2>2, <2>3, <3>1 DEF ScriptInv
  <2>6. QED
    BY <2>1, <2>5 DEF OnlyInv
<1>6. CASE stage # "create"
  BY <1>3, <1>4, <1>6, OnlyWithoutSteps
<1>7. QED
  BY <1>5, <1>6

LEMMA OnlySetenv ==
  ASSUME TypeOK, NEW t \in Tasks, OnlyInv(t), Setenv(t)
  PROVE  OnlyInv(t)'
<1>1. /\ UNCHANGED <<conf, tf, cluster, data, made, saved, failures, crashes, dangling, owed>>
      /\ run' = [run EXCEPT ![t].inside = TRUE] /\ ~run[t].inside
      /\ environ' = environ \union Step(t).env
  BY DEF Setenv
<1>2. /\ run'[t].handler = run[t].handler /\ run'[t].stage = run[t].stage
      /\ run'[t].readable = run[t].readable /\ run'[t].pc = run[t].pc /\ run'[t].inside
  BY <1>1 DEF TypeOK, RunType, Run
<1>3. (Downloads(t)' <=> Downloads(t)) /\ Skipped(t)' = Skipped(t)
  BY <1>1, <1>2 DEF Downloads, Skipped
<1>4. EnvironInv(t)'
  <2>1. Step(t)' = Step(t)
    BY <1>1, <1>2 DEF Step, Program
  <2>2. environ = {}
    BY <1>1 DEF OnlyInv, EnvironInv
  <2>3. QED
    BY <1>1, <1>2, <2>1, <2>2 DEF EnvironInv
<1>5. QuietInv(t)' /\ LengthInv(t)'
  BY <1>1, <1>2, <1>3 DEF OnlyInv, QuietInv, LengthInv
<1>6. ScriptInv(t)'
  BY <1>1, <1>2 DEF OnlyInv, ScriptInv
<1>7. QED
  BY <1>4, <1>5, <1>6 DEF OnlyInv

\* A step that succeeded: nothing of its variables remains.
LEMMA OnlyAdvances ==
  ASSUME TypeOK, NEW t \in Tasks, OnlyInv(t), Running(t), Advance(t)
  PROVE  /\ EnvironInv(t)' /\ LengthInv(t)'
         /\ (Downloads(t)' <=> Downloads(t)) /\ Skipped(t)' = Skipped(t)
<1>1. /\ run'[t].stage = run[t].stage /\ run'[t].readable = run[t].readable
      /\ run'[t].pc = run[t].pc + 1 /\ conf' = conf
  BY Advances
<1>2. environ' = {} /\ ~run'[t].inside
  BY UnsetenvAlone DEF OnlyInv, Advance, TypeOK, RunType, Run
<1>3. EnvironInv(t)'
  BY <1>2 DEF EnvironInv
<1>4. (Downloads(t)' <=> Downloads(t)) /\ Skipped(t)' = Skipped(t)
  BY <1>1 DEF Downloads, Skipped
<1>5. LengthInv(t)'
  <2>1. CASE run[t].stage = "delete"
    <3>1. Skipped(t) \in {0, 4}
      BY DEF Skipped
    <3>2. run[t].pc \in 1 .. Skipped(t) + 2 + (IF conf[t].own THEN 1 ELSE 0)
      BY <2>1, DeleteStep
    <3>3. QED
      BY <1>1, <1>4, <3>1, <3>2 DEF LengthInv
  <2>2. CASE run[t].stage # "delete"
    BY <1>1, <2>2 DEF LengthInv
  <2>3. QED
    BY <2>1, <2>2
<1>6. QED
  BY <1>3, <1>4, <1>5

LEMMA OnlyCluster ==
  ASSUME TypeOK, NEW t \in Tasks, TaskInv(t), OnlyInv(t), StepCluster(t)
  PROVE  OnlyInv(t)'
<1> DEFINE call == Step(t).call
           pc == run[t].pc
           k == Skipped(t)
<1>1. /\ ClusterCall(t) /\ Advance(t) /\ Running(t) /\ saved' = saved
  BY CallEffect DEF StepCluster, Succeeds
<1>2. /\ run'[t].stage = run[t].stage /\ run'[t].readable = run[t].readable
      /\ run'[t].pc = pc + 1 /\ conf' = conf /\ dangling' = dangling
  BY <1>1, Advances
<1>3. run[t].stage \in {"create", "delete"} /\ pc \in 1 .. 8
  BY <1>1, CallEffect, StageOf
<1>4. /\ EnvironInv(t)' /\ LengthInv(t)'
      /\ (Downloads(t)' <=> Downloads(t)) /\ Skipped(t)' = Skipped(t)
  BY <1>1, OnlyAdvances
<1>5. call = "createJob" /\ cluster[t].job = "none" =>
        /\ Step(t).env = {} => cluster'[t].job = "script"
        /\ Step(t).env = Pulling => cluster'[t].job = "pull"
  <2>1. EnvironInv(t)
    BY DEF OnlyInv
  <2>2. call = "createJob" => At(t, "createJob")
    BY <1>1 DEF ClusterCall, CreateObject, DeleteObject, CreateJob, DeleteJob, At
  <2>3. QED
    BY <1>1, <2>1, <2>2, ModeIs, CallEffect
<1>6. QuietInv(t)'
  <2>1. SUFFICES ASSUME run[t].stage = "delete", Downloads(t)
                 PROVE  /\ pc + 1 > 1 => cluster'[t].job # "script"
                        /\ pc + 1 > 3 => data'[t].results \subseteq saved[t]
    BY <1>1, <1>2, <1>4 DEF QuietInv
  <2>2. /\ pc > 1 => cluster[t].job # "script"
        /\ pc > 3 => data[t].results \subseteq saved[t]
    BY <2>1 DEF OnlyInv, QuietInv
  <2>3. k = 4
    BY <2>1 DEF Skipped
  <2>4. /\ pc = 1 => call = "deleteJob"
        /\ call = "createJob" => pc \in {2, 4} /\ Step(t).env = Pulling
        /\ call = "pull" <=> pc = 3
    BY <1>1, <1>3, <2>1, <2>3, DeleteStep
  <2>5. cluster'[t].job # "script"
    BY <1>1, <1>3, <1>5, <2>2, <2>4, CallEffect
  <2>6. data'[t].results = data[t].results \/ data'[t].results = {}
    BY <1>1, CallData DEF TypeOK, DataType
  <2>7. pc # 3
    BY <1>1, <2>4, CallEffect
  <2>8. pc + 1 > 3 => pc > 3
    BY <1>3, <2>7
  <2>9. QED
    BY <2>2, <2>5, <2>6, <2>8
<1>7. ScriptInv(t)'
  <2>1. CASE run[t].stage = "create"
    <3>1. PICK n \in 3 .. 8 :
            /\ n = Len(CreateSteps(conf[t])) /\ pc \in 1 .. n
            /\ n = 3 + (IF conf[t].own THEN 1 ELSE 0) + (IF conf[t].workdir THEN 4 ELSE 0)
            /\ call = "createJob" <=> pc = n \/ (conf[t].workdir /\ pc = n - 3)
            /\ call = "deleteJob" <=> conf[t].workdir /\ pc \in {n - 1, n - 4}
            /\ pc = n => Step(t).env = {}
      <4> DEFINE m == Len(CreateSteps(conf[t]))
      <4>1. /\ m \in 3 .. 8 /\ pc \in 1 .. m
            /\ m = 3 + (IF conf[t].own THEN 1 ELSE 0) + (IF conf[t].workdir THEN 4 ELSE 0)
        BY <1>1, <2>1, CreateStep
      <4>2. /\ call = "createJob" <=> pc = m \/ (conf[t].workdir /\ pc = m - 3)
            /\ call = "deleteJob" <=> conf[t].workdir /\ pc \in {m - 1, m - 4}
            /\ pc = m => Step(t).env = {}
        BY <1>1, <2>1, CreateStep
      <4>3. QED
        BY <4>1, <4>2
    <3>2. ScriptInv(t)
      BY DEF OnlyInv
    <3>3. conf[t].workdir /\ pc + 1 = n => cluster'[t].job = "none"
      BY <1>1, <3>1, CallEffect
    <3>4. ~conf[t].workdir /\ t \notin dangling /\ pc + 1 <= n => cluster'[t].job = "none"
      <4>1. ~conf[t].workdir /\ pc + 1 <= n => call \notin {"createJob", "deleteJob"}
        BY <3>1
      <4>2. ~conf[t].workdir /\ t \notin dangling /\ pc + 1 <= n => cluster[t].job = "none"
        BY <2>1, <3>1, <3>2 DEF ScriptInv
      <4>3. QED
        BY <1>1, <4>1, <4>2, CallEffect
    <3>5. (t \in dangling => conf[t].workdir) /\ pc + 1 > n => cluster'[t].job = "script"
      <4>1. SUFFICES ASSUME t \in dangling => conf[t].workdir, pc + 1 > n
                     PROVE  cluster'[t].job = "script"
        OBVIOUS
      <4>2. pc = n
        BY <3>1, <4>1
      <4>3. cluster[t].job = "none"
        BY <2>1, <3>1, <3>2, <4>1, <4>2 DEF ScriptInv
      <4>4. QED
        BY <1>5, <3>1, <4>2, <4>3
    <3>6. n = Len(CreateSteps(conf'[t]))
      BY <1>2, <3>1
    <3>7. QED
      BY <1>2, <3>3, <3>4, <3>5, <3>6 DEF ScriptInv
  <2>2. CASE run[t].stage = "delete"
    BY <1>2, <2>2 DEF ScriptInv
  <2>3. QED
    BY <1>3, <2>1, <2>2
<1>8. QED
  BY <1>4, <1>6, <1>7 DEF OnlyInv

LEMMA OnlyTransfer ==
  ASSUME TypeOK, NEW t \in Tasks, TaskInv(t), OnlyInv(t), StepPush(t) \/ StepPull(t)
  PROVE  OnlyInv(t)'
<1> DEFINE call == Step(t).call
           pc == run[t].pc
<1>1. /\ Advance(t) /\ Running(t) /\ cluster' = cluster
      /\ StepPush(t) => call = "push"
      /\ StepPull(t) => call = "pull" /\ data' = data
                          /\ saved' = [saved EXCEPT ![t] = @ \union data[t].results]
  BY DEF StepPush, StepPull, Succeeds, At
<1>2. /\ run'[t].stage = run[t].stage /\ run'[t].readable = run[t].readable
      /\ run'[t].pc = pc + 1 /\ conf' = conf /\ dangling' = dangling
  BY <1>1, Advances
<1>3. /\ EnvironInv(t)' /\ LengthInv(t)'
      /\ (Downloads(t)' <=> Downloads(t)) /\ Skipped(t)' = Skipped(t)
  BY <1>1, OnlyAdvances
<1>4. CASE StepPush(t)
  <2>1. run[t].stage = "create"
    BY <1>1, <1>4, StageOf
  <2>2. PICK n \in 3 .. 8 : /\ n = Len(CreateSteps(conf[t])) /\ pc \in 1 .. n
                            /\ conf[t].workdir /\ pc = n - 2
    BY <1>1, <1>4, <2>1, CreateStep
  <2>3. pc + 1 # n /\ ~(pc + 1 > n) /\ n = Len(CreateSteps(conf'[t]))
    BY <1>2, <2>2
  <2>4. ScriptInv(t)'
    BY <1>2, <2>2, <2>3 DEF ScriptInv
  <2>5. QuietInv(t)'
    BY <1>2, <2>1 DEF QuietInv
  <2>6. QED
    BY <1>3, <2>4, <2>5 DEF OnlyInv
<1>5. CASE StepPull(t)
  <2>1. run[t].stage = "delete"
    BY <1>1, <1>5, StageOf
  <2>2. pc = 3
    BY <1>1, <1>5, <2>1, DeleteStep
  <2>3. data'[t].results \subseteq saved'[t]
    BY <1>1, <1>5 DEF TypeOK, DataType
  <2>4. QuietInv(t)'
    <3>1. Downloads(t) => cluster[t].job # "script"
      BY <2>1, <2>2 DEF OnlyInv, QuietInv
    <3>2. QED
      BY <1>1, <1>3, <2>3, <3>1 DEF QuietInv
  <2>5. ScriptInv(t)'
    BY <1>2, <2>1 DEF ScriptInv
  <2>6. QED
    BY <1>3, <2>4, <2>5 DEF OnlyInv
<1>6. QED
  BY <1>4, <1>5

LEMMA OnlyFound ==
  ASSUME TypeOK, NEW t \in Tasks, TaskInv(t), OnlyInv(t), Look(t), Found(t)
  PROVE  OnlyInv(t)'
<1> DEFINE call == Step(t).call
           pc == run[t].pc
<1>1. /\ Advance(t) /\ Running(t) /\ call \in Reading /\ UNCHANGED <<cluster, data, saved>>
  BY DEF Look, Succeeds, At
<1>2. /\ run'[t].stage = run[t].stage /\ run'[t].readable = run[t].readable
      /\ run'[t].pc = pc + 1 /\ conf' = conf /\ dangling' = dangling
  BY <1>1, Advances
<1>3. EnvironInv(t)' /\ LengthInv(t)'
  BY <1>1, OnlyAdvances
<1>4. run[t].stage \in {"create", "refresh", "probe"}
  BY <1>1, StageOf DEF Reading
<1>5. QuietInv(t)'
  BY <1>2, <1>4 DEF QuietInv
<1>6. ScriptInv(t)'
  <2>1. CASE run[t].stage = "create"
    <3>1. PICK n \in 3 .. 8 :
            /\ n = Len(CreateSteps(conf[t])) /\ pc \in 1 .. n /\ pc = 1
            /\ n = 3 + (IF conf[t].own THEN 1 ELSE 0) + (IF conf[t].workdir THEN 4 ELSE 0)
      <4>1. call = "permissionSet"
        BY <1>1, <2>1, StageOf DEF Reading
      <4>2. QED
        BY <1>1, <2>1, <4>1, CreateStep
    <3>2. /\ ~(pc + 1 > n) /\ pc <= n /\ (conf[t].workdir => pc + 1 # n)
          /\ n = Len(CreateSteps(conf'[t]))
      BY <1>2, <3>1
    <3>3. ~conf[t].workdir /\ t \notin dangling => cluster[t].job = "none"
      BY <2>1, <3>1, <3>2 DEF OnlyInv, ScriptInv
    <3>4. QED
      BY <1>1, <1>2, <3>2, <3>3 DEF ScriptInv
  <2>2. CASE run[t].stage # "create"
    BY <1>2, <2>2 DEF ScriptInv
  <2>3. QED
    BY <2>1, <2>2
<1>7. QED
  BY <1>3, <1>5, <1>6 DEF OnlyInv

\* The script writes as long as its job is there only.
LEMMA OnlyPods ==
  ASSUME TypeOK, NEW t \in Tasks, OnlyInv(t), PodSteps(t)
  PROVE  OnlyInv(t)'
<1>1. /\ UNCHANGED <<conf, tf, run, environ, crashes, dangling, owed, saved>>
      /\ cluster'[t].job = cluster[t].job
  BY PodEffect
<1>2. (Downloads(t)' <=> Downloads(t)) /\ Skipped(t)' = Skipped(t) /\ Step(t)' = Step(t)
  BY <1>1 DEF Downloads, Skipped, Step, Program
<1>3. EnvironInv(t)' /\ LengthInv(t)'
  BY <1>1, <1>2 DEF OnlyInv, EnvironInv, LengthInv
<1>4. ScriptInv(t)'
  BY <1>1 DEF OnlyInv, ScriptInv
<1>5. data'[t].results \subseteq data[t].results \/ cluster[t].job = "script"
  <2>1. \/ data' = data
        \/ data' = [data EXCEPT ![t] = [directory |-> "missing", results |-> {}]]
        \/ cluster[t].job = "script"
    BY PodEffect
  <2>2. QED
    BY <2>1 DEF TypeOK, DataType
<1>6. QuietInv(t)'
  <2>1. SUFFICES ASSUME run[t].stage = "delete", Downloads(t)
                 PROVE  /\ run[t].pc > 1 => cluster[t].job # "script"
                        /\ run[t].pc > 3 => data'[t].results \subseteq saved[t]
    BY <1>1, <1>2 DEF QuietInv
  <2>2. /\ run[t].pc > 1 => cluster[t].job # "script"
        /\ run[t].pc > 3 => data[t].results \subseteq saved[t]
    BY <2>1 DEF OnlyInv, QuietInv
  <2>3. run[t].pc > 3 => run[t].pc > 1
    BY TaskTypes
  <2>4. QED
    BY <1>5, <2>2, <2>3
<1>7. QED
  BY <1>3, <1>4, <1>6 DEF OnlyInv

LEMMA AloneInit == Init => AloneInv
<1> SUFFICES ASSUME Init, NEW t \in Tasks PROVE OnlyInv(t)
  BY DEF AloneInv
<1>1. run[t].stage = "none" /\ ~run[t].inside /\ environ = {}
  BY DEF Init, Idle, Handler
<1>2. QED
  BY <1>1 DEF OnlyInv, EnvironInv, QuietInv, ScriptInv, LengthInv

LEMMA AloneStep ==
  ASSUME Alone
  PROVE  TypeOK /\ IInv /\ AloneInv /\ [Next]_vars => AloneInv'
<1> SUFFICES ASSUME TypeOK, IInv, AloneInv, [Next]_vars, NEW t \in Tasks PROVE OnlyInv(t)'
  BY DEF AloneInv
<1>1. TaskInv(t) /\ OnlyInv(t)
  BY DEF IInv, AloneInv
<1>2. CASE UNCHANGED vars
  <2>1. (Downloads(t)' <=> Downloads(t)) /\ Skipped(t)' = Skipped(t) /\ Step(t)' = Step(t)
    BY <1>2 DEF vars, Downloads, Skipped, Step, Program
  <2>2. QED
    BY <1>1, <1>2, <2>1 DEF vars, OnlyInv, EnvironInv, QuietInv, ScriptInv, LengthInv
<1>3. CASE Next
  <2>1. Look(t) /\ ~Found(t) => Fails(t)
    BY DEF Look
  <2>2. StepTransferFails(t) \/ StepError(t) => Fails(t)
    BY DEF StepTransferFails, StepError
  <2>3. \/ Crash
        \/ Apply(t) \/ Refresh(t) \/ Destroy(t)
        \/ Setenv(t) \/ Look(t) \/ StepCluster(t) \/ StepPush(t) \/ StepPull(t)
        \/ StepTransferFails(t) \/ StepError(t)
        \/ CreateReturns(t) \/ RefreshReturns(t) \/ ProbeReturns(t) \/ DeleteReturns(t)
        \/ Expire(t) \/ PodSteps(t)
    <3>1. \A u \in Tasks : u = t
      BY DEF Alone
    <3>2. QED
      BY <1>3, <3>1, NextActs
  <2>4. QED
    BY <1>1, <2>1, <2>2, <2>3, OnlyBegins, OnlySetenv, OnlyFound, OnlyCluster, OnlyTransfer,
       OnlyEnds, OnlyPods
<1>4. QED
  BY <1>2, <1>3

LEMMA AloneInvariant == ASSUME Alone PROVE Spec => [](TypeOK /\ IInv /\ AloneInv)
<1>1. TypeOK /\ IInv /\ AloneInv /\ [Next]_vars => AloneInv'
  BY AloneStep
<1>2. QED
  BY <1>1, AloneInit, InductiveInvariant, PTL DEF Spec

\* Nothing is written to a directory that was downloaded, if the process works on
\* one task only: with two, the job of one may run the script of the other's mode
\* (finding k8s_environ).
THEOREM QuietAfterPullHolds == ASSUME Alone PROVE Spec => []QuietAfterPull
<1>1. ASSUME TypeOK, AloneInv, NEW t \in Tasks,
             run[t].stage = "delete", run[t].readable,
             \E i \in 1 .. run[t].pc - 1 : Program(t)[i].call = "pull"
      PROVE  data[t].results \subseteq saved[t]
  <2> DEFINE n == Skipped(t) + 2 + (IF conf[t].own THEN 1 ELSE 0)
  <2>1. OnlyInv(t) /\ conf[t] \in Configs /\ run[t].pc \in 1 .. 9 /\ run[t].readable \in BOOLEAN
    BY <1>1, TaskTypes DEF AloneInv
  <2>2. PICK i \in 1 .. run[t].pc - 1 : Program(t)[i].call = "pull"
    BY <1>1
  <2>3. Program(t) = DeleteSteps(conf[t], run[t].readable)
    BY <1>1, ProgramOf
  <2>4. Skipped(t) = IF HasDirectoryOut(conf[t]) /\ run[t].readable THEN 4 ELSE 0
    BY DEF Skipped, Downloads
  <2>5. run[t].pc <= n + 1 /\ n \in Nat
    BY <1>1, <2>1, <2>4 DEF OnlyInv, LengthInv
  <2>6. i \in 1 .. n
    BY <2>1, <2>5
  <2>7. Skipped(t) = 4 /\ i = 3
    BY <2>1, <2>2, <2>3, <2>4, <2>6, DeletePlaces
  <2>8. Downloads(t) /\ run[t].pc > 3
    BY <2>1, <2>2, <2>7 DEF Skipped
  <2>9. QED
    BY <1>1, <2>1, <2>8 DEF OnlyInv, QuietInv
<1>2. TypeOK /\ AloneInv => QuietAfterPull
  BY <1>1 DEF QuietAfterPull
<1>3. QED
  BY <1>2, AloneInvariant, PTL

\* An apply that succeeds leaves the job of the script, under the same condition.
THEOREM AppliedRunsScriptHolds == ASSUME Alone PROVE Spec => AppliedRunsScript
<1> DEFINE Runs(t) ==
             tf[t] # "present" /\ tf'[t] = "present" /\ (t \in dangling => conf[t].workdir)
             => cluster'[t].job = "script"
<1>1. ASSUME TypeOK, IInv, AloneInv, Next, NEW t \in Tasks PROVE Runs(t)
  <2>1. SUFFICES ASSUME tf[t] # "present", tf'[t] = "present", t \in dangling => conf[t].workdir
                 PROVE  cluster'[t].job = "script"
    OBVIOUS
  <2>2. run[t].stage = "create" /\ ~Running(t) /\ cluster' = cluster
    BY <1>1, <2>1, TrackedBy DEF CreateReturns, Ended, End
  <2>3. run[t].pc > Len(CreateSteps(conf[t]))
    BY <1>1, <2>2, PastTheEnd
  <2>4. QED
    BY <1>1, <2>1, <2>2, <2>3 DEF AloneInv, OnlyInv, ScriptInv
<1>2. TypeOK /\ IInv /\ AloneInv /\ [Next]_vars => [\A t \in Tasks : Runs(t)]_vars
  BY <1>1
<1>3. QED
  BY <1>2, AloneInvariant, PTL DEF Spec, AppliedRunsScript
==============================================================================
