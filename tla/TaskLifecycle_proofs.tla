------------------------- MODULE TaskLifecycle_proofs -------------------------
(***************************************************************************)
(* Theorems about TaskLifecycle, for every provider whose step programs    *)
(* satisfy its assumptions, any parallelism and any number of failures,    *)
(* crashes and results.                                                    *)
(***************************************************************************)
EXTENDS TaskLifecycle, SequenceTheorems, TLAPS

------------------------------------------------------------------------------
(* Facts about programs. *)

\* The running program is well formed, whichever it is.
LEMMA ProgramWellFormed ==
  ASSUME TypeOK
  PROVE  WellFormed(Program)
<1>1. CASE stage = "create"
  BY <1>1, ProgramsTyped DEF TypeOK, TaskType, HandlerType, FlagType, Program
<1>2. CASE stage \in {"refresh", "probe"}
  BY <1>2, ProgramsTyped DEF TypeOK, TaskType, HandlerType, FlagType, Program
<1>3. CASE stage = "delete"
  BY <1>3, ProgramsTyped DEF TypeOK, TaskType, HandlerType, FlagType, Program
<1>4. CASE stage = "none"
  <2>1. Program = <<>>
    BY <1>4 DEF Program
  <2>2. QED
    BY <2>1 DEF WellFormed, StepOf
<1>5. QED
  BY <1>1, <1>2, <1>3, <1>4 DEF TypeOK, HandlerType

\* What is known of the step at pc.
LEMMA StepFacts ==
  ASSUME TypeOK, Running
  PROVE  /\ Step \in StepOf(Program)
         /\ Step.kind \in Kinds /\ Step.calls \in Nat
         /\ Step.kind \in {"read", "create", "delete"} => Step.res \in Resources
         /\ Step.kind = "create" => Step.calls > 0 /\ Step.onExisting # ""
<1>1. WellFormed(Program)
  BY ProgramWellFormed
<1>2. Step \in StepOf(Program)
  BY DEF Step, StepOf, Running
<1>3. Step \in Steps
  BY <1>1, LenProperties DEF WellFormed, Running, Step
<1>4. QED
  BY <1>1, <1>2, <1>3 DEF WellFormed, Steps

------------------------------------------------------------------------------
(* Type correctness. *)

LEMMA InitType == Init => TypeOK
<1> SUFFICES ASSUME Init PROVE TypeOK
  OBVIOUS
<1> USE ConstantsTyped DEF Init
<1>1. CloudType
  BY DEF CloudType
<1>2. DataType
  BY DEF DataType
<1>3. HandlerType
  BY DEF HandlerType
<1>4. TaskType
  BY DEF TaskType
<1>5. FlagType
  BY DEF FlagType
<1>6. QED
  BY <1>1, <1>2, <1>3, <1>4, <1>5 DEF TypeOK

\* The user begins an operation.
LEMMA BeginType ==
  ASSUME TypeOK, User
  PROVE  TypeOK'
<1> USE DEF TypeOK, User, Apply, Refresh, Destroy, Begin
<1>1. CloudType'
  BY DEF CloudType, cloudVars
<1>2. DataType'
  BY DEF DataType, dataVars
<1>3. HandlerType'
  BY DEF HandlerType
<1>4. TaskType'
  BY DEF TaskType, taskVars, boundVars
<1>5. FlagType'
  BY DEF FlagType
<1>6. QED
  BY <1>1, <1>2, <1>3, <1>4, <1>5

\* A step that succeeds leaves all but the program counter, and what it is about.
LEMMA AdvanceType ==
  ASSUME TypeOK, Running, Advance, CloudType', DataType',
         blank' \subseteq Resources, failures' \in 0 .. MaxFailures, crashes' = crashes
  PROVE  TypeOK'
<1>1. HandlerType'
  BY DEF TypeOK, HandlerType, Advance
<1>2. TaskType'
  BY DEF TypeOK, TaskType, Advance, taskVars, historyVars
<1>3. FlagType'
  BY DEF TypeOK, FlagType, Advance, historyVars
<1>4. QED
  BY <1>1, <1>2, <1>3 DEF TypeOK

\* What a creation call, or a deletion, does to the cloud and the storage.
LEMMA CallType ==
  ASSUME TypeOK, Running, Step.res \in Resources,
         UNCHANGED owed,
         (CreateCall /\ UNCHANGED dataVars) \/ DeleteCall
  PROVE  CloudType' /\ DataType'
<1>1. CASE CreateCall /\ UNCHANGED dataVars
  BY <1>1, ConstantsTyped
     DEF CreateCall, dataVars, TypeOK, CloudType, DataType, HandlerType
<1>2. CASE DeleteCall
  <2>1. CloudType'
    BY <1>2, ConstantsTyped DEF DeleteCall, TypeOK, CloudType
  <2>2. DataType'
    BY <1>2 DEF DeleteCall, TypeOK, DataType
  <2>3. QED
    BY <2>1, <2>2
<1>3. QED
  BY <1>1, <1>2

\* The Read that ends a create step, and that may overlook an error.
LEMMA OverlookedType ==
  ASSUME TypeOK, NEW r, Overlooked(r)
  PROVE  blank' \subseteq Resources /\ failures' \in 0 .. MaxFailures /\ crashes' = crashes
BY ConstantsTyped DEF Overlooked, TypeOK, HandlerType, TaskType

LEMMA EndOfCreateType ==
  ASSUME TypeOK, EndOfCreate
  PROVE  blank' \subseteq Resources /\ failures' \in 0 .. MaxFailures /\ crashes' = crashes
<1>1. CASE Overlooked(Step.res)
  BY <1>1, OverlookedType
<1>2. CASE blank' = blank \ {Step.res} /\ UNCHANGED boundVars
  BY <1>2 DEF boundVars, TypeOK, HandlerType, TaskType
<1>3. QED
  BY <1>1, <1>2 DEF EndOfCreate

LEMMA PartType ==
  ASSUME TypeOK, part' = part + 1
  PROVE  part' \in Nat
BY DEF TypeOK, HandlerType

LEMMA FailureCount ==
  ASSUME TypeOK, failures < MaxFailures, failures' = failures + 1
  PROVE  failures' \in 0 .. MaxFailures
BY ConstantsTyped DEF TypeOK, TaskType

LEMMA StepType ==
  ASSUME TypeOK,
         \/ StepLookup \/ StepRead \/ StepReadOverlooked \/ StepAdopt \/ StepCreate
         \/ StepUnverified \/ StepPush \/ StepStart \/ StepPull \/ StepEmpty
         \/ StepEmptyOverlooked \/ StepDelete
  PROVE  TypeOK'
<1>1. Running
  BY DEF StepLookup, StepRead, StepReadOverlooked, StepAdopt, StepCreate,
         StepUnverified, StepPush, StepStart, StepPull, StepEmpty, StepEmptyOverlooked,
         StepDelete, At
<1> USE <1>1, ConstantsTyped, StepFacts, AdvanceType
    DEF At, cloudVars, dataVars, boundVars, TypeOK, CloudType, DataType, HandlerType,
        TaskType, historyVars, Advance
<1>2. CASE StepLookup
  BY <1>2 DEF StepLookup
<1>3. CASE StepRead
  BY <1>3 DEF StepRead
<1>4. CASE StepReadOverlooked
  BY <1>4 DEF StepReadOverlooked, Overlooked
<1>5. CASE StepAdopt
  BY <1>5 DEF StepAdopt, EndOfCreate, Overlooked
<1>6. CASE StepCreate
  <2>1. CloudType' /\ DataType'
    BY <1>6, CallType DEF StepCreate
  <2>2. CASE part + 1 < Step.calls
    <3>1. HandlerType'
      <4>1. part' = part + 1
        BY <1>6, <2>2 DEF StepCreate
      <4>2. part' \in Nat
        BY <4>1, PartType
      <4>3. UNCHANGED <<handler, stage, pc, blank>>
        BY <1>6, <2>2 DEF StepCreate
      <4>4. QED
        BY <4>2, <4>3
    <3>2. TaskType'
      BY <1>6, <2>2 DEF StepCreate, taskVars
    <3>3. FlagType'
      BY <1>6, <2>2 DEF StepCreate, FlagType
    <3>4. QED
      BY <2>1, <3>1, <3>2, <3>3
  <2>3. CASE ~(part + 1 < Step.calls)
    <3>1. Advance /\ EndOfCreate
      BY <1>6, <2>3 DEF StepCreate
    <3>2. blank' \subseteq Resources /\ failures' \in 0 .. MaxFailures /\ crashes' = crashes
      BY <3>1, EndOfCreateType
    <3>3. QED
      BY <2>1, <3>1, <3>2
  <2>4. QED
    BY <2>2, <2>3
<1>7. CASE StepPush
  BY <1>7 DEF PushCall, StepPush
<1>8. CASE StepStart
  BY <1>8 DEF StartCall, StepStart
<1>9. CASE StepPull
  BY <1>9 DEF StepPull
<1>10. CASE StepEmpty
  BY <1>10 DEF EmptyCall, StepEmpty
<1>11. CASE StepEmptyOverlooked
  BY <1>11 DEF StepEmptyOverlooked
<1>12. CASE StepUnverified
  <2>1. Advance /\ UNCHANGED <<cloudVars, dataVars, crashes, blank>>
    BY <1>12 DEF StepUnverified
  <2>2. failures < MaxFailures /\ failures' = failures + 1
    BY <1>12 DEF StepUnverified
  <2>3. CloudType' /\ DataType'
    BY <2>1
  <2>4. QED
    BY <2>1, <2>2, <2>3, FailureCount
<1>13. CASE StepDelete
  <2>1. CloudType' /\ DataType'
    BY <1>13, CallType DEF StepDelete
  <2>2. QED
    BY <1>13, <2>1 DEF StepDelete
<1>14. QED
  BY <1>2, <1>3, <1>4, <1>5, <1>6, <1>7, <1>8, <1>9, <1>10, <1>11, <1>12, <1>13

\* A step that fails unwinds to the next stage, or out of the handler.
LEMMA StepFailsType ==
  ASSUME TypeOK, Running, NEW late \in BOOLEAN, StepFails(late),
         CloudType', DataType', failures' \in 0 .. MaxFailures, crashes' = crashes
  PROVE  TypeOK'
<1>1. HandlerType'
  BY DEF StepFails, TypeOK, HandlerType, Running
<1>2. TaskType'
  <2>1. tf' \in {tf, "tainted"} /\ conf' = conf
    BY DEF StepFails
  <2>2. QED
    BY <2>1 DEF TypeOK, TaskType
<1>3. FlagType'
  BY DEF StepFails, TypeOK, FlagType, historyVars
<1>4. QED
  BY <1>1, <1>2, <1>3 DEF TypeOK

LEMMA FailureType ==
  ASSUME TypeOK, StepNotFound \/ StepRefused \/ StepError
  PROVE  TypeOK'
<1> USE ConstantsTyped DEF TypeOK
<1>1. Running
  BY DEF StepNotFound, StepRefused, StepError, At
<1>2. PICK late \in BOOLEAN : StepFails(late)
  BY DEF StepNotFound, StepRefused, StepError
<1>3. UNCHANGED owed
  BY <1>2 DEF StepFails, historyVars
<1>4. CloudType' /\ DataType'
  <2>1. CASE UNCHANGED <<cloudVars, dataVars>>
    BY <1>3, <2>1 DEF cloudVars, dataVars, CloudType, DataType
  <2>2. CASE At("create") /\ CreateCall /\ UNCHANGED dataVars
    BY <1>1, <1>3, <2>2, StepFacts, CallType DEF At
  <2>3. CASE At("delete") /\ DeleteCall
    BY <1>1, <1>3, <2>3, StepFacts, CallType DEF At
  <2>4. CASE At("start") /\ StartCall /\ UNCHANGED dataVars
    BY <1>3, <2>4 DEF StartCall, dataVars, CloudType, DataType
  <2>5. CASE ((At("push") /\ PushCall) \/ (At("empty") /\ EmptyCall)) /\ UNCHANGED cloudVars
    BY <1>3, <2>5 DEF PushCall, EmptyCall, cloudVars, CloudType, DataType
  <2>6. QED
    BY <2>1, <2>2, <2>3, <2>4, <2>5 DEF StepNotFound, StepRefused, StepError
<1>5. failures' \in 0 .. MaxFailures /\ crashes' = crashes
  <2>1. CASE UNCHANGED boundVars
    BY <2>1 DEF boundVars, TaskType
  <2>2. CASE failures < MaxFailures /\ failures' = failures + 1 /\ UNCHANGED crashes
    BY <2>2 DEF TaskType
  <2>3. QED
    BY <2>1, <2>2 DEF StepNotFound, StepRefused, StepError
<1>6. QED
  BY <1>1, <1>2, <1>4, <1>5, StepFailsType

\* The handler returns, or its process dies.
LEMMA ReturnType ==
  ASSUME TypeOK,
         CreateReturns \/ RefreshReturns \/ ProbeReturns \/ DeleteReturns
           \/ Crash \/ Panic
  PROVE  TypeOK'
<1> USE DEF CreateReturns, RefreshReturns, ProbeReturns, DeleteReturns, Crash, Panic,
            ProcessDies, Finish, Ended, TypeOK
<1>1. CloudType'
  BY DEF CloudType, cloudVars
<1>2. DataType'
  BY DEF DataType, dataVars, historyVars
<1>3. HandlerType'
  BY DEF HandlerType
<1>4. TaskType'
  BY ConstantsTyped DEF TaskType, taskVars, boundVars
<1>5. FlagType'
  BY DEF FlagType, historyVars
<1>6. QED
  BY <1>1, <1>2, <1>3, <1>4, <1>5

\* The deadline passes, or the machines do something.
LEMMA EnvironmentType ==
  ASSUME TypeOK, Expire \/ Machines
  PROVE  TypeOK'
<1> USE DEF Expire, Machines, Boot, Preempt, Upload, SelfStop, MachineStep, TypeOK
<1>1. CloudType'
  BY ConstantsTyped DEF CloudType, cloudVars
<1>2. DataType'
  <2>1. CASE Upload
    <3>1. made' = made + 1 /\ made < MaxResults /\ stored' = stored \union {made + 1}
      BY <2>1
    <3>2. UNCHANGED <<input, saved, owed>>
      BY <2>1 DEF historyVars
    <3>3. QED
      BY <3>1, <3>2, ConstantsTyped DEF DataType
  <2>2. CASE ~Upload
    BY <2>2 DEF DataType, dataVars, historyVars
  <2>3. QED
    BY <2>1, <2>2
<1>3. HandlerType'
  BY DEF HandlerType, handlerVars
<1>4. TaskType'
  <2>1. CASE Expire
    <3>1. failures < MaxFailures /\ failures' = failures + 1
      BY <2>1
    <3>2. UNCHANGED <<conf, tf, crashes>>
      BY <2>1 DEF taskVars
    <3>3. QED
      BY <3>1, <3>2, ConstantsTyped DEF TaskType
  <2>2. CASE Machines
    BY <2>2 DEF TaskType, taskVars, boundVars
  <2>3. QED
    BY <2>1, <2>2
<1>5. FlagType'
  BY DEF FlagType, handlerVars, historyVars
<1>6. QED
  BY <1>1, <1>2, <1>3, <1>4, <1>5

LEMMA TypeStep ==
  ASSUME TypeOK, [Next]_vars
  PROVE  TypeOK'
<1>1. CASE UNCHANGED vars
  BY <1>1 DEF vars, taskVars, handlerVars, cloudVars, dataVars, boundVars, historyVars,
              TypeOK, CloudType, DataType, HandlerType, TaskType, FlagType
<1>2. CASE Next
  BY <1>2, BeginType, StepType, FailureType, ReturnType, EnvironmentType
     DEF Next, Provider
<1>3. QED
  BY <1>1, <1>2

\* Every variable keeps its type, whatever fails.
THEOREM TypeCorrect == Spec => []TypeOK
BY InitType, TypeStep, PTL DEF Spec

------------------------------------------------------------------------------
(* The inductive invariant.  NoOrphans needs to know, when Task.Delete      *)
(* returns, that every step before the end has deleted its resource, and    *)
(* that nothing else exists; DependencyClosed, when a resource is created,  *)
(* that the steps before its own have created what it needs.                *)

OnlyOwned == Existing \subseteq Owned

CreatedSoFar ==
  stage = "create" =>
    \A i \in DOMAIN Program :
      i < pc /\ Program[i].kind = "create" /\ Program[i].res \notin Trusting
        => cloud[Program[i].res] > 0

DeletedSoFar ==
  stage = "delete" =>
    \A i \in DOMAIN Program :
      i < pc /\ Program[i].kind = "delete" => cloud[Program[i].res] = 0

MachinesInGroup == machines > 0 => cloud[Group] > 0

\* Terraform refreshes and destroys what it knows, and applies what it does not.
Tracked ==
  /\ handler = "apply" => tf = "absent"
  /\ handler \in {"refresh", "destroy"} => tf # "absent"

CloudInv == OnlyOwned /\ DependencyClosed /\ MachinesInGroup
ProgressInv == CreatedSoFar /\ DeletedSoFar
StateInv == Tracked /\ NoOrphans

IInv == CloudInv /\ ProgressInv /\ StateInv

\* Creation steps are in the program of Create only, deletions in Delete's.
LEMMA KindOfStage ==
  ASSUME TypeOK, Running
  PROVE  /\ Step.kind = "create" => stage = "create" /\ Step \in StepOf(CreateSteps(conf))
         /\ Step.kind = "delete" => stage = "delete"
<1>1. Step \in StepOf(Program)
  BY StepFacts
<1>2. CASE stage = "create"
  BY <1>1, <1>2, ProgramsSeparate DEF Program, TypeOK, TaskType
<1>3. CASE stage \in {"refresh", "probe"}
  BY <1>1, <1>3, ProgramsSeparate DEF Program, TypeOK, TaskType
<1>4. CASE stage = "delete"
  BY <1>1, <1>4, ProgramsSeparate DEF Program, TypeOK, TaskType, FlagType
<1>5. QED
  BY <1>2, <1>3, <1>4 DEF TypeOK, HandlerType, Running

\* The steps before the one at pc are steps of the program.
LEMMA EarlierStep ==
  ASSUME TypeOK, Running, NEW j \in 1 .. pc - 1
  PROVE  j \in DOMAIN Program /\ j < pc
<1>1. WellFormed(Program)
  BY ProgramWellFormed
<1>2. Len(Program) \in Nat /\ DOMAIN Program = 1 .. Len(Program)
  BY <1>1, LenProperties DEF WellFormed
<1>3. pc \in 1 .. Len(Program)
  BY <1>2 DEF Running
<1>4. QED
  BY <1>2, <1>3

\* At the first step of a program nothing is promised of it.
AtFirstStep == pc = 1

LEMMA FreshProgress == TypeOK /\ AtFirstStep => ProgressInv
<1> SUFFICES ASSUME TypeOK, pc = 1 PROVE ProgressInv
  BY DEF AtFirstStep
<1>1. Len(Program) \in Nat /\ DOMAIN Program = 1 .. Len(Program)
  BY ProgramWellFormed, LenProperties DEF WellFormed
<1>2. \A i \in DOMAIN Program : ~(i < pc)
  BY <1>1
<1>3. QED
  BY <1>2 DEF ProgressInv, CreatedSoFar, DeletedSoFar

LEMMA FreshProgressNext == TypeOK' /\ pc' = 1 => ProgressInv'
<1>1. TypeOK' /\ AtFirstStep' => ProgressInv'
  BY FreshProgress, PTL
<1>2. QED
  BY <1>1 DEF AtFirstStep

\* A creation call adds a resource of the task whose needs are all there.
LEMMA CreateCallInv ==
  ASSUME TypeOK, IInv, At("create"), CreateCall, conf' = conf
  PROVE  /\ CloudInv'
         /\ cloud'[Step.res] > 0
         /\ \A r \in Resources : cloud[r] > 0 => cloud'[r] > 0
<1>1. Running /\ Step.res \in Resources /\ stage = "create"
  BY StepFacts, KindOfStage DEF At
<1>2. /\ cloud' = [cloud EXCEPT ![Step.res] = part + 1]
      /\ part \in Nat /\ cloud \in [Resources -> Nat]
  BY DEF CreateCall, TypeOK, HandlerType, CloudType
<1>3. cloud'[Step.res] > 0 /\ \A r \in Resources : cloud[r] > 0 => cloud'[r] > 0
  BY <1>1, <1>2
<1>4. Program = CreateSteps(conf) /\ pc \in DOMAIN CreateSteps(conf)
  BY <1>1 DEF Program, Running
<1>5. Step.res \in Owned
  BY <1>4 DEF Owned, Creates, At, Step
<1>6. Existing' = Existing \union {Step.res}
  BY <1>1, <1>2 DEF Existing
<1>7. Owned' = Owned
  BY DEF Owned
<1>8. OnlyOwned'
  BY <1>5, <1>6, <1>7 DEF OnlyOwned, IInv, CloudInv
<1>9. Needs[Step.res] \intersect Owned \subseteq Existing
  <2> SUFFICES ASSUME NEW n \in Needs[Step.res] \intersect Owned
               PROVE  n \in Existing
    OBVIOUS
  <2>1. PICK j \in 1 .. pc - 1 :
          CreateSteps(conf)[j].kind = "create" /\ CreateSteps(conf)[j].res = n
    BY <1>4, CreateOrdered DEF TypeOK, TaskType, Owned, At, Step
  <2>2. j \in DOMAIN Program /\ j < pc
    BY <1>1, EarlierStep
  <2>3. cloud[n] > 0
    BY <1>1, <1>4, <2>1, <2>2, NeedsVerified DEF IInv, ProgressInv, CreatedSoFar
  <2>4. n \in Resources
    BY <1>1, ConstantsTyped
  <2>5. QED
    BY <2>3, <2>4 DEF Existing
<1>10. DependencyClosed'
  BY <1>6, <1>7, <1>9 DEF DependencyClosed, IInv, CloudInv
<1>11. MachinesInGroup'
  BY <1>3, ConstantsTyped DEF MachinesInGroup, CreateCall, IInv, CloudInv
<1>12. QED
  BY <1>3, <1>8, <1>10, <1>11 DEF CloudInv

\* A deletion removes a resource that nothing needs any more.
LEMMA DeleteCallInv ==
  ASSUME TypeOK, IInv, At("delete"), DeleteCall, conf' = conf
  PROVE  /\ CloudInv'
         /\ cloud'[Step.res] = 0
         /\ \A r \in Resources : cloud[r] = 0 => cloud'[r] = 0
<1>1. Running /\ Step.res \in Resources /\ stage = "delete"
  BY StepFacts, KindOfStage DEF At
<1>2. /\ cloud' = [cloud EXCEPT ![Step.res] = 0]
      /\ cloud \in [Resources -> Nat]
  BY DEF DeleteCall, TypeOK, CloudType
<1>3. cloud'[Step.res] = 0 /\ \A r \in Resources : cloud[r] = 0 => cloud'[r] = 0
  BY <1>1, <1>2
<1>4. Program = DeleteSteps(conf, readable) /\ pc \in DOMAIN DeleteSteps(conf, readable)
  BY <1>1 DEF Program, Running
<1>5. Existing' = Existing \ {Step.res}
  BY <1>1, <1>2 DEF Existing
<1>6. Owned' = Owned
  BY DEF Owned
<1>7. OnlyOwned'
  BY <1>5, <1>6 DEF OnlyOwned, IInv, CloudInv
<1>8. ASSUME NEW r \in Existing, Step.res \in Needs[r]
      PROVE  FALSE
  <2>1. r \in Creates(CreateSteps(conf))
    BY DEF IInv, CloudInv, OnlyOwned, Owned
  <2>2. PICK j \in 1 .. pc - 1 :
          /\ DeleteSteps(conf, readable)[j].kind = "delete"
          /\ DeleteSteps(conf, readable)[j].res = r
    BY <1>4, <1>8, <2>1, DeleteOrdered DEF TypeOK, TaskType, FlagType, At, Step
  <2>3. j \in DOMAIN Program /\ j < pc
    BY <1>1, EarlierStep
  <2>4. cloud[r] = 0
    BY <1>1, <1>4, <2>2, <2>3 DEF IInv, ProgressInv, DeletedSoFar
  <2>5. QED
    BY <2>4 DEF Existing
<1>9. DependencyClosed'
  BY <1>5, <1>6, <1>8 DEF DependencyClosed, IInv, CloudInv
<1>10. MachinesInGroup'
  <2>1. CASE Step.res = Group
    BY <2>1 DEF MachinesInGroup, DeleteCall
  <2>2. CASE Step.res # Group
    BY <1>2, <2>2, ConstantsTyped DEF MachinesInGroup, DeleteCall, IInv, CloudInv
  <2>3. QED
    BY <2>1, <2>2
<1>11. QED
  BY <1>3, <1>7, <1>9, <1>10 DEF CloudInv

\* The cloud part is kept when no resource changes and the machines have a group.
LEMMA CloudFrame ==
  ASSUME IInv, UNCHANGED <<conf, cloud>>, machines' > 0 => cloud[Group] > 0
  PROVE  CloudInv'
BY DEF IInv, CloudInv, OnlyOwned, DependencyClosed, MachinesInGroup, Existing, Owned

\* A step of RunSteps that succeeds, or one of its calls does.
LEMMA ProgressStep ==
  ASSUME TypeOK, IInv, Running, CloudInv',
         UNCHANGED <<conf, tf, handler, stage, readable>>,
         pc' = pc \/ pc' = pc + 1,
         stage = "create" => \A r \in Resources : cloud[r] > 0 => cloud'[r] > 0,
         stage = "delete" => \A r \in Resources : cloud[r] = 0 => cloud'[r] = 0,
         Step.kind = "create" /\ Step.res \notin Trusting => cloud'[Step.res] > 0,
         Step.kind = "delete" => cloud'[Step.res] = 0
  PROVE  IInv'
<1>1. Program' = Program
  BY DEF Program
<1>2. WellFormed(Program) /\ pc \in Nat
  BY ProgramWellFormed DEF TypeOK, HandlerType
<1>3. \A i \in DOMAIN Program : i < pc' => i < pc \/ i = pc
  <2>1. Len(Program) \in Nat /\ DOMAIN Program = 1 .. Len(Program)
    BY <1>2, LenProperties DEF WellFormed
  <2>2. pc' \in {pc, pc + 1}
    OBVIOUS
  <2>3. \A i \in Nat : i < pc' => i < pc \/ i = pc
    BY <1>2, <2>2
  <2>4. QED
    BY <2>1, <2>3
<1>4. \A i \in DOMAIN Program :
        Program[i].kind \in {"create", "delete"} => Program[i].res \in Resources
  BY <1>2 DEF WellFormed, StepOf
<1>5. CreatedSoFar'
  BY <1>1, <1>3, <1>4 DEF CreatedSoFar, IInv, ProgressInv, Step
<1>6. DeletedSoFar'
  BY <1>1, <1>3, <1>4 DEF DeletedSoFar, IInv, ProgressInv, Step
<1>7. handler # "none"
  BY DEF TypeOK, HandlerType, Running
<1>8. StateInv'
  BY <1>7 DEF StateInv, Tracked, NoOrphans, IInv
<1>9. QED
  BY <1>5, <1>6, <1>8 DEF IInv, ProgressInv

\* Steps that leave the resources alone.
LEMMA QuietStep ==
  ASSUME TypeOK, IInv, Advance, Running,
         UNCHANGED <<cloud, machines>>,
         Step.kind = "create" /\ Step.res \notin Trusting => cloud[Step.res] > 0,
         Step.kind # "delete"
  PROVE  IInv'
<1>1. UNCHANGED <<conf, tf, handler, stage, readable>> /\ pc' = pc + 1
  BY DEF Advance, taskVars
<1>2. CloudInv'
  BY <1>1, CloudFrame DEF IInv, CloudInv, MachinesInGroup
<1>3. QED
  BY <1>1, <1>2, ProgressStep

LEMMA StepInv ==
  ASSUME TypeOK, IInv,
         \/ StepLookup \/ StepRead \/ StepReadOverlooked \/ StepAdopt \/ StepCreate
         \/ StepUnverified \/ StepPush \/ StepStart \/ StepPull \/ StepEmpty
         \/ StepEmptyOverlooked \/ StepDelete
  PROVE  IInv'
<1>1. Running
  BY DEF StepLookup, StepRead, StepReadOverlooked, StepAdopt, StepCreate,
         StepUnverified, StepPush, StepStart, StepPull, StepEmpty, StepEmptyOverlooked,
         StepDelete, At
<1>2. CASE \/ StepLookup \/ StepRead \/ StepReadOverlooked \/ StepAdopt
           \/ StepUnverified \/ StepPush \/ StepStart \/ StepPull \/ StepEmpty \/ StepEmptyOverlooked
  <2>1. Advance /\ UNCHANGED <<cloud, machines>>
    BY <1>2 DEF StartCall, StepLookup, StepRead, StepReadOverlooked, StepAdopt, StepUnverified,
                StepPush, StepStart, StepPull, StepEmpty, StepEmptyOverlooked, cloudVars
  <2>2. /\ Step.kind # "delete"
        /\ Step.kind = "create" /\ Step.res \notin Trusting => cloud[Step.res] > 0
    BY <1>2 DEF StepLookup, StepRead, StepReadOverlooked, StepAdopt, StepUnverified,
                StepPush, StepStart, StepPull, StepEmpty, StepEmptyOverlooked, At
  <2>3. QED
    BY <1>1, <2>1, <2>2, QuietStep
<1>3. CASE StepCreate
  <2>1. At("create") /\ CreateCall
    BY <1>3 DEF StepCreate
  <2>2. UNCHANGED <<conf, tf, handler, stage, readable>> /\ (pc' = pc \/ pc' = pc + 1)
    BY <1>3 DEF StepCreate, Advance, taskVars
  <2>3. stage = "create" /\ Step.kind = "create"
    BY <1>1, <2>1, KindOfStage DEF At
  <2>4. QED
    BY <1>1, <2>1, <2>2, <2>3, CreateCallInv, ProgressStep
<1>4. CASE StepDelete
  <2>1. At("delete") /\ DeleteCall /\ Advance
    BY <1>4 DEF StepDelete
  <2>2. UNCHANGED <<conf, tf, handler, stage, readable>> /\ pc' = pc + 1
    BY <2>1 DEF Advance, taskVars
  <2>3. stage = "delete" /\ Step.kind = "delete"
    BY <1>1, <2>1, KindOfStage DEF At
  <2>4. QED
    BY <1>1, <2>1, <2>2, <2>3, DeleteCallInv, ProgressStep
<1>5. QED
  BY <1>2, <1>3, <1>4

\* A step that fails leaves the program it belongs to.
LEMMA FailureInv ==
  ASSUME TypeOK, IInv, StepNotFound \/ StepRefused \/ StepError
  PROVE  IInv'
<1>1. Running
  BY DEF StepNotFound, StepRefused, StepError, At
<1>2. PICK late \in BOOLEAN : StepFails(late)
  BY DEF StepNotFound, StepRefused, StepError
<1>3. conf' = conf
  BY <1>2 DEF StepFails
<1>4. CloudInv'
  <2>1. CASE UNCHANGED cloudVars
    BY <1>3, <2>1, CloudFrame DEF cloudVars, IInv, CloudInv, MachinesInGroup
  <2>2. CASE At("create") /\ CreateCall
    BY <1>3, <2>2, CreateCallInv
  <2>3. CASE At("delete") /\ DeleteCall
    BY <1>3, <2>3, DeleteCallInv
  <2>4. CASE At("start") /\ StartCall
    BY <1>3, <2>4, CloudFrame DEF StartCall
  <2>5. QED
    BY <2>1, <2>2, <2>3, <2>4 DEF StepNotFound, StepRefused, StepError
<1>5. TypeOK' /\ pc' = 1
  BY <1>2, FailureType DEF StepFails
<1>6. ProgressInv'
  BY <1>5, FreshProgressNext
<1>7. StateInv'
  <2>1. CASE stage \in {"create", "probe"}
    <3>1. UNCHANGED <<handler, tf>> /\ handler # "none"
      BY <1>2, <2>1 DEF StepFails, TypeOK, HandlerType
    <3>2. QED
      BY <3>1 DEF StateInv, Tracked, NoOrphans, IInv
  <2>2. CASE stage \notin {"create", "probe"}
    <3>1. handler' = "none" /\ tf' # "absent"
      BY <1>1, <1>2, <2>2
         DEF StepFails, Running, TypeOK, HandlerType, IInv, StateInv, Tracked
    <3>2. QED
      BY <3>1 DEF StateInv, Tracked, NoOrphans
  <2>3. QED
    BY <2>1, <2>2
<1>8. QED
  BY <1>4, <1>6, <1>7 DEF IInv

\* At the end of Task.Delete nothing of the task is left.
LEMMA NothingLeft ==
  ASSUME TypeOK, IInv, Ended("delete")
  PROVE  Existing = {}
<1> SUFFICES ASSUME NEW r \in Existing PROVE FALSE
  OBVIOUS
<1>1. stage = "delete" /\ Program = DeleteSteps(conf, readable) /\ pc \notin DOMAIN Program
  BY DEF Ended, Program
<1>2. r \in Deletes(Program)
  BY <1>1, DeleteCovers
     DEF IInv, CloudInv, OnlyOwned, Owned, TypeOK, TaskType, FlagType
<1>3. PICK i \in DOMAIN Program : Program[i].kind = "delete" /\ Program[i].res = r
  BY <1>2 DEF Deletes
<1>4. i < pc
  <2>1. Len(Program) \in Nat /\ DOMAIN Program = 1 .. Len(Program)
    BY ProgramWellFormed, LenProperties DEF WellFormed
  <2>2. pc \in Nat \ {0} /\ pc \notin 1 .. Len(Program)
    BY <1>1, <2>1 DEF TypeOK, HandlerType
  <2>3. pc > Len(Program)
    BY <2>1, <2>2
  <2>4. QED
    BY <2>1, <2>2, <2>3
<1>5. cloud[r] = 0
  BY <1>1, <1>3, <1>4 DEF IInv, ProgressInv, DeletedSoFar
<1>6. QED
  BY <1>5 DEF Existing

\* The handler returns, or goes on with Task.Delete, or dies.
LEMMA ReturnInv ==
  ASSUME TypeOK, IInv,
         CreateReturns \/ RefreshReturns \/ ProbeReturns \/ DeleteReturns
           \/ Crash \/ Panic
  PROVE  IInv'
<1>1. UNCHANGED <<conf, cloud, machines>>
  BY DEF CreateReturns, RefreshReturns, ProbeReturns, DeleteReturns, Crash, Panic,
         ProcessDies, Finish, cloudVars, taskVars
<1>2. CloudInv'
  BY <1>1, CloudFrame DEF IInv, CloudInv, MachinesInGroup
<1>3. handler # "none"
  BY DEF CreateReturns, RefreshReturns, ProbeReturns, DeleteReturns, Crash, Panic,
         Ended, NilDependency, At, Running, TypeOK, HandlerType
<1>4. CASE ProbeReturns
  <2>1. TypeOK' /\ pc' = 1
    BY <1>4, ReturnType DEF ProbeReturns
  <2>2. ProgressInv'
    BY <2>1, FreshProgressNext
  <2>3. StateInv'
    BY <1>3, <1>4 DEF ProbeReturns, taskVars, StateInv, Tracked, NoOrphans, IInv
  <2>4. QED
    BY <1>2, <2>2, <2>3 DEF IInv
<1>5. CASE CreateReturns \/ RefreshReturns \/ DeleteReturns \/ Crash \/ Panic
  <2>1. stage' = "none" /\ handler' = "none"
    BY <1>5 DEF CreateReturns, RefreshReturns, DeleteReturns, Crash, Panic,
                ProcessDies, Finish
  <2>2. ProgressInv'
    BY <2>1 DEF ProgressInv, CreatedSoFar, DeletedSoFar
  <2>3. NoOrphans'
    <3>1. CASE CreateReturns
      BY <3>1 DEF CreateReturns, Finish, NoOrphans
    <3>2. CASE RefreshReturns
      BY <1>3, <3>2 DEF RefreshReturns, Ended, Finish, NoOrphans, IInv, StateInv, Tracked,
                        TypeOK, HandlerType
    <3>3. CASE DeleteReturns
      <4>1. Existing' = {}
        BY <1>1, <3>3, NothingLeft DEF DeleteReturns, Existing
      <4>2. QED
        BY <4>1 DEF NoOrphans
    <3>4. CASE Crash \/ Panic
      <4>1. tf' = tf /\ dangling' = (dangling \/ handler = "apply")
        BY <3>4 DEF Crash, Panic, ProcessDies, taskVars
      <4>2. QED
        BY <1>3, <4>1 DEF NoOrphans, IInv, StateInv, Tracked, TypeOK, HandlerType, FlagType
    <3>5. QED
      BY <1>5, <3>1, <3>2, <3>3, <3>4
  <2>4. StateInv'
    BY <2>1, <2>3 DEF StateInv, Tracked
  <2>5. QED
    BY <1>2, <2>2, <2>4 DEF IInv
<1>6. QED
  BY <1>4, <1>5

\* An operation begins where the last one left the cloud.
LEMMA BeginInv ==
  ASSUME TypeOK, IInv, User
  PROVE  IInv'
<1>1. UNCHANGED <<conf, tf, cloud, machines>> /\ handler' # "none" /\ pc' = 1
  BY DEF User, Apply, Refresh, Destroy, Begin, taskVars, cloudVars
<1>2. CloudInv'
  BY <1>1, CloudFrame DEF IInv, CloudInv, MachinesInGroup
<1>3. ProgressInv'
  BY <1>1, BeginType, FreshProgressNext
<1>4. StateInv'
  BY <1>1 DEF User, Apply, Refresh, Destroy, Begin, StateInv, Tracked, NoOrphans
<1>5. QED
  BY <1>2, <1>3, <1>4 DEF IInv

\* Neither a deadline nor a machine changes a resource or the handler's progress.
LEMMA EnvironmentInv ==
  ASSUME TypeOK, IInv, Expire \/ Machines
  PROVE  IInv'
<1>1. UNCHANGED <<conf, tf, cloud, handler, stage, pc, readable, dangling>>
  BY DEF Expire, Machines, Boot, Preempt, Upload, SelfStop, MachineStep, taskVars,
         cloudVars, handlerVars, historyVars
<1>2. machines' > 0 => cloud[Group] > 0
  <2>1. CASE Boot
    BY <2>1 DEF Boot
  <2>2. CASE Preempt
    BY <2>2 DEF Preempt, IInv, CloudInv, MachinesInGroup
  <2>3. CASE Expire \/ Upload \/ SelfStop
    BY <2>3 DEF Expire, Upload, SelfStop, cloudVars, IInv, CloudInv, MachinesInGroup
  <2>4. QED
    BY <2>1, <2>2, <2>3 DEF Machines
<1>3. CloudInv'
  BY <1>1, <1>2, CloudFrame
<1>4. Program' = Program /\ Existing' = Existing
  BY <1>1 DEF Program, Existing
<1>5. ProgressInv'
  BY <1>1, <1>4 DEF ProgressInv, CreatedSoFar, DeletedSoFar, IInv
<1>6. StateInv'
  BY <1>1, <1>4 DEF StateInv, Tracked, NoOrphans, IInv
<1>7. QED
  BY <1>3, <1>5, <1>6 DEF IInv

LEMMA InitInv == Init => IInv
<1> SUFFICES ASSUME Init PROVE IInv
  OBVIOUS
<1>1. Existing = {}
  BY DEF Init, Existing
<1>2. CloudInv
  BY <1>1 DEF Init, CloudInv, OnlyOwned, DependencyClosed, MachinesInGroup
<1>3. ProgressInv
  BY DEF Init, ProgressInv, CreatedSoFar, DeletedSoFar
<1>4. StateInv
  BY <1>1 DEF Init, StateInv, Tracked, NoOrphans
<1>5. QED
  BY <1>2, <1>3, <1>4 DEF IInv

LEMMA InvStep ==
  ASSUME TypeOK, IInv, [Next]_vars
  PROVE  IInv'
<1>1. CASE UNCHANGED vars
  <2>1. UNCHANGED <<conf, cloud, machines, stage, pc, readable, tf, handler, dangling>>
    BY <1>1 DEF vars, taskVars, handlerVars, cloudVars, historyVars
  <2>2. Program' = Program /\ Existing' = Existing /\ Owned' = Owned
    BY <2>1 DEF Program, Existing, Owned
  <2>3. QED
    BY <2>1, <2>2 DEF IInv, CloudInv, OnlyOwned, DependencyClosed, MachinesInGroup,
                      ProgressInv, CreatedSoFar, DeletedSoFar, StateInv, Tracked, NoOrphans
<1>2. CASE Next
  BY <1>2, BeginInv, StepInv, FailureInv, ReturnInv, EnvironmentInv DEF Next, Provider
<1>3. QED
  BY <1>1, <1>2

THEOREM InductiveInvariant == Spec => [](TypeOK /\ IInv)
BY InitType, InitInv, TypeStep, InvStep, PTL DEF Spec

------------------------------------------------------------------------------
(* What follows from it. *)

\* Nothing exists that Terraform does not know of, unless an apply died.
THEOREM NoOrphansHolds == Spec => []NoOrphans
<1>1. IInv => NoOrphans
  BY DEF IInv, StateInv
<1>2. QED
  BY <1>1, InductiveInvariant, PTL

\* The resources that exist are closed under what they need.
THEOREM DependencyClosedHolds == Spec => []DependencyClosed
<1>1. IInv => DependencyClosed
  BY DEF IInv, CloudInv
<1>2. QED
  BY <1>1, InductiveInvariant, PTL

\* A machine that runs has a group and, by the needs of the group, a storage.
LEMMA MachineStorage ==
  ASSUME TypeOK, IInv
  PROVE  MachinesHaveStorage
<1> SUFFICES ASSUME machines > 0 PROVE cloud[Group] > 0 /\ StorageUp
  BY DEF MachinesHaveStorage
<1>1. cloud[Group] > 0 /\ Group \in Existing
  BY ConstantsTyped DEF IInv, CloudInv, MachinesInGroup, Existing
<1>2. ASSUME conf.own PROVE cloud[Storage] > 0
  <2>1. Storage \in Needs[Group] \intersect Owned
    BY <1>2, StorageNeeded DEF TypeOK, TaskType, Owned
  <2>2. Storage \in Existing
    BY <1>1, <2>1 DEF IInv, CloudInv, DependencyClosed
  <2>3. QED
    BY <2>2 DEF Existing
<1>3. QED
  BY <1>1, <1>2 DEF StorageUp

\* A running machine can reach the storage of its task.
THEOREM MachinesHaveStorageHolds == Spec => []MachinesHaveStorage
<1>1. TypeOK /\ IInv => MachinesHaveStorage
  BY MachineStorage
<1>2. QED
  BY <1>1, InductiveInvariant, PTL

------------------------------------------------------------------------------
(* The order of Task.Delete keeps the results: a destroy that could read the *)
(* task has downloaded, before it erases anything, all it found.            *)

\* Task.Delete after a Task.Read that succeeded, of a task with an output.
Downloading == handler = "destroy" /\ conf.output /\ stage = "delete" /\ readable

\* Once the pull is behind, what was owed is saved, whatever is erased next.
PulledSoFar ==
  Downloading =>
    \A i \in DOMAIN Program : i < pc /\ Program[i].kind = "pull" => owed \subseteq saved

DataInv == PulledBeforeErased /\ PulledSoFar

\* Emptying the storage, and pulling from it, are steps of Task.Delete.
LEMMA DataKindOfStage ==
  ASSUME TypeOK, Running, Step.kind \in {"empty", "pull", "delete"}
  PROVE  stage = "delete"
<1>1. Step \in StepOf(Program)
  BY StepFacts
<1>2. CASE stage = "create"
  BY <1>1, <1>2, ProgramsSeparate DEF Program, TypeOK, TaskType
<1>3. CASE stage \in {"refresh", "probe"}
  BY <1>1, <1>3, ProgramsSeparate DEF Program, TypeOK, TaskType
<1>4. QED
  BY <1>2, <1>3 DEF TypeOK, HandlerType, Running

\* When a step may erase the data, the pull is behind.
LEMMA ErasedAfterPull ==
  ASSUME TypeOK, DataInv, Downloading, Running,
         Step.kind = "empty" \/ (Step.kind = "delete" /\ Step.res = Storage)
  PROVE  owed \subseteq saved
<1>1. Program = DeleteSteps(conf, TRUE)
  BY DEF Downloading, Program, TypeOK, FlagType
<1>2. pc \in DOMAIN DeleteSteps(conf, TRUE) /\ conf \in Configs /\ conf.output
  BY <1>1 DEF Running, Downloading, TypeOK, TaskType
<1>3. PICK j \in 1 .. pc - 1 : DeleteSteps(conf, TRUE)[j].kind = "pull"
  BY <1>1, <1>2, PullFirst DEF Step
<1>4. j \in DOMAIN Program /\ j < pc
  BY EarlierStep
<1>5. QED
  BY <1>1, <1>3, <1>4 DEF DataInv, PulledSoFar

\* A step that goes on: it erases nothing that is owed and not saved.
LEMMA DataAdvance ==
  ASSUME TypeOK, DataInv, Running,
         UNCHANGED <<conf, handler, stage, readable, owed>>,
         pc' = pc \/ (pc' = pc + 1 /\ (Step.kind = "pull" => stored \subseteq saved')),
         saved \subseteq saved',
         stored \subseteq stored' \/ Step.kind = "empty"
           \/ (Step.kind = "delete" /\ Step.res = Storage)
  PROVE  DataInv'
<1>1. PulledBeforeErased'
  <2>1. CASE stored \subseteq stored'
    BY <2>1 DEF DataInv, PulledBeforeErased
  <2>2. CASE Step.kind = "empty" \/ (Step.kind = "delete" /\ Step.res = Storage)
    <3>1. stage = "delete"
      BY <2>2, DataKindOfStage
    <3>2. CASE Downloading
      <4>1. owed \subseteq saved
        BY <2>2, <3>2, ErasedAfterPull
      <4>2. QED
        BY <4>1 DEF PulledBeforeErased
    <3>3. CASE ~Downloading
      BY <3>1, <3>3 DEF Downloading, PulledBeforeErased
    <3>4. QED
      BY <3>2, <3>3
  <2>3. QED
    BY <2>1, <2>2
<1>2. PulledSoFar'
  <2>1. Program' = Program /\ Downloading' = Downloading
    BY DEF Program, Downloading
  <2>2. Len(Program) \in Nat /\ DOMAIN Program = 1 .. Len(Program) /\ pc \in Nat
    BY ProgramWellFormed, LenProperties DEF WellFormed, TypeOK, HandlerType
  <2>3. ASSUME Downloading, NEW i \in DOMAIN Program, i < pc', Program[i].kind = "pull"
        PROVE  owed' \subseteq saved'
    <3>1. CASE i < pc
      BY <2>3, <3>1 DEF DataInv, PulledSoFar
    <3>2. CASE ~(i < pc)
      <4>1. pc' = pc + 1 /\ i = pc
        BY <2>2, <2>3, <3>2
      <4>2. stored \subseteq saved'
        BY <2>3, <4>1 DEF Step
      <4>3. owed \subseteq stored \union saved
        BY <2>3 DEF DataInv, PulledBeforeErased, Downloading
      <4>4. QED
        BY <4>2, <4>3
    <3>3. QED
      BY <3>1, <3>2
  <2>4. QED
    BY <2>1, <2>3 DEF PulledSoFar
<1>3. QED
  BY <1>1, <1>2 DEF DataInv

LEMMA StepData ==
  ASSUME TypeOK, DataInv,
         \/ StepLookup \/ StepRead \/ StepReadOverlooked \/ StepAdopt \/ StepCreate
         \/ StepUnverified \/ StepPush \/ StepStart \/ StepPull \/ StepEmpty
         \/ StepEmptyOverlooked \/ StepDelete
  PROVE  DataInv'
<1>1. Running
  BY DEF StepLookup, StepRead, StepReadOverlooked, StepAdopt, StepCreate,
         StepUnverified, StepPush, StepStart, StepPull, StepEmpty, StepEmptyOverlooked,
         StepDelete, At
<1>2. CASE \/ StepLookup \/ StepRead \/ StepReadOverlooked \/ StepAdopt
           \/ StepUnverified \/ StepPush \/ StepStart \/ StepEmptyOverlooked
  <2>1. Advance /\ UNCHANGED <<stored, saved>> /\ Step.kind # "pull"
    BY <1>2 DEF PushCall, StartCall, StepLookup, StepRead, StepReadOverlooked, StepAdopt, StepUnverified,
                StepPush, StepStart, StepEmptyOverlooked, dataVars, At
  <2>2. QED
    BY <1>1, <2>1, DataAdvance DEF Advance, taskVars, historyVars
<1>3. CASE StepCreate
  <2>1. UNCHANGED <<conf, handler, stage, readable, owed, stored, saved>>
    BY <1>3 DEF StepCreate, Advance, dataVars, taskVars, historyVars
  <2>2. (pc' = pc \/ pc' = pc + 1) /\ Step.kind = "create"
    BY <1>3 DEF StepCreate, Advance, At
  <2>3. QED
    BY <1>1, <2>1, <2>2, DataAdvance
<1>4. CASE StepPull \/ StepEmpty \/ StepDelete
  <2>1. Advance
    BY <1>4 DEF StepPull, StepEmpty, StepDelete
  <2>2. /\ saved \subseteq saved'
        /\ Step.kind = "pull" => stored \subseteq saved'
        /\ stored \subseteq stored' \/ Step.kind = "empty"
             \/ (Step.kind = "delete" /\ Step.res = Storage)
    BY <1>4 DEF EmptyCall, StepPull, StepEmpty, StepDelete, DeleteCall, At
  <2>3. QED
    BY <1>1, <2>1, <2>2, DataAdvance DEF Advance, taskVars, historyVars
<1>5. QED
  BY <1>2, <1>3, <1>4

\* Nothing is owed outside a destroy, nor in Task.Delete when Task.Read failed.
LEMMA FailureData ==
  ASSUME TypeOK, DataInv, StepNotFound \/ StepRefused \/ StepError
  PROVE  DataInv'
<1>1. Running
  BY DEF StepNotFound, StepRefused, StepError, At
<1>2. PICK late \in BOOLEAN : StepFails(late)
  BY DEF StepNotFound, StepRefused, StepError
<1>3. readable' = FALSE
  BY <1>2 DEF StepFails
<1>4. CASE stage = "create"
  <2>1. handler' = "apply"
    BY <1>2, <1>4 DEF StepFails, TypeOK, HandlerType
  <2>2. QED
    BY <2>1 DEF DataInv, PulledBeforeErased, PulledSoFar, Downloading
<1>5. CASE stage = "probe"
  <2>1. stage' = "delete"
    BY <1>2, <1>5 DEF StepFails
  <2>2. QED
    BY <1>3, <2>1 DEF DataInv, PulledBeforeErased, PulledSoFar, Downloading
<1>6. CASE stage \in {"refresh", "delete"}
  <2>1. handler' = "none"
    BY <1>2, <1>6 DEF StepFails
  <2>2. QED
    BY <2>1 DEF DataInv, PulledBeforeErased, PulledSoFar, Downloading
<1>7. QED
  BY <1>1, <1>4, <1>5, <1>6 DEF TypeOK, HandlerType, Running

\* At the first step of a program no pull is behind.
LEMMA FreshPull == TypeOK /\ AtFirstStep => PulledSoFar
<1> SUFFICES ASSUME TypeOK, pc = 1 PROVE PulledSoFar
  BY DEF AtFirstStep
<1>1. Len(Program) \in Nat /\ DOMAIN Program = 1 .. Len(Program)
  BY ProgramWellFormed, LenProperties DEF WellFormed
<1>2. \A i \in DOMAIN Program : ~(i < pc)
  BY <1>1
<1>3. QED
  BY <1>2 DEF PulledSoFar

LEMMA NothingPulled == TypeOK' /\ pc' = 1 => PulledSoFar'
<1>1. TypeOK' /\ AtFirstStep' => PulledSoFar'
  BY FreshPull, PTL
<1>2. QED
  BY <1>1 DEF AtFirstStep

\* The other steps erase nothing; a destroy owes what it finds.
LEMMA OtherData ==
  ASSUME TypeOK, DataInv,
         \/ User \/ CreateReturns \/ RefreshReturns \/ ProbeReturns \/ DeleteReturns
         \/ Crash \/ Panic \/ Expire \/ Machines
  PROVE  DataInv'
<1>1. CASE User
  <2>1. handler' # "destroy" \/ (stage' = "probe" /\ owed' = stored /\ stored' = stored)
    BY <1>1 DEF User, Apply, Refresh, Destroy, Begin, dataVars
  <2>2. QED
    BY <2>1 DEF DataInv, PulledBeforeErased, PulledSoFar, Downloading
<1>2. CASE ProbeReturns
  <2>1. /\ stage = "probe" /\ UNCHANGED <<conf, handler, owed, stored, saved>>
        /\ pc' = 1
    BY <1>2 DEF ProbeReturns, Ended, taskVars, dataVars, historyVars
  <2>2. PulledBeforeErased'
    BY <2>1 DEF DataInv, PulledBeforeErased
  <2>3. PulledSoFar'
    <3>1. TypeOK' /\ pc' = 1
      BY <1>2, <2>1, ReturnType
    <3>2. QED
      BY <3>1, NothingPulled
  <2>4. QED
    BY <2>2, <2>3 DEF DataInv
<1>3. CASE CreateReturns \/ RefreshReturns \/ DeleteReturns \/ Crash \/ Panic
  <2>1. handler' = "none"
    BY <1>3 DEF CreateReturns, RefreshReturns, DeleteReturns, Crash, Panic,
                ProcessDies, Finish
  <2>2. QED
    BY <2>1 DEF DataInv, PulledBeforeErased, PulledSoFar, Downloading
<1>4. CASE Expire \/ Machines
  <2>1. UNCHANGED <<conf, handler, stage, pc, readable, saved, owed>>
    BY <1>4 DEF Expire, Machines, Boot, Preempt, Upload, SelfStop, MachineStep,
                taskVars, handlerVars, dataVars, historyVars
  <2>2. stored \subseteq stored'
    BY <1>4 DEF Expire, Machines, Boot, Preempt, Upload, SelfStop, dataVars
  <2>3. Program' = Program
    BY <2>1 DEF Program
  <2>4. QED
    BY <2>1, <2>2, <2>3 DEF DataInv, PulledBeforeErased, PulledSoFar, Downloading
<1>5. QED
  BY <1>1, <1>2, <1>3, <1>4

LEMMA NextData ==
  ASSUME TypeOK, DataInv, [Next]_vars
  PROVE  DataInv'
<1>1. CASE UNCHANGED vars
  <2>1. UNCHANGED <<conf, handler, stage, pc, readable, saved, stored, owed>>
    BY <1>1 DEF vars, taskVars, handlerVars, dataVars, historyVars
  <2>2. Program' = Program
    BY <2>1 DEF Program
  <2>3. QED
    BY <2>1, <2>2 DEF DataInv, PulledBeforeErased, PulledSoFar, Downloading
<1>2. CASE Next
  BY <1>2, StepData, FailureData, OtherData DEF Next, Provider
<1>3. QED
  BY <1>1, <1>2

\* Results that were in the storage when a destroy began are erased only after
\* they were downloaded, provided that Task.Read succeeded.
THEOREM PulledBeforeErasedHolds == Spec => []PulledBeforeErased
<1>1. Init => DataInv
  BY DEF Init, DataInv, PulledBeforeErased, PulledSoFar, Downloading
<1>2. TypeOK /\ DataInv /\ [Next]_vars => DataInv'
  BY NextData
<1>3. DataInv => PulledBeforeErased
  BY DEF DataInv
<1>4. QED
  BY <1>1, <1>2, <1>3, TypeCorrect, PTL DEF Spec

------------------------------------------------------------------------------
(* The upload. *)

\* A group that is to have machines exists, and they will find their input.
InputInv == desired > 0 => cloud[Group] > 0 /\ (conf.workdir => input # "none")

\* The push is behind.
PushedSoFar ==
  stage = "create" =>
    \A i \in DOMAIN Program : i < pc /\ Program[i].kind = "push" => input # "none"

UploadInv == InputInv /\ PushedSoFar

\* Uploading, and starting the group, are steps of Task.Create.
LEMMA ApplyKindOfStage ==
  ASSUME TypeOK, Running, Step.kind \in {"push", "start"}
  PROVE  stage = "create"
<1>1. Step \in StepOf(Program)
  BY StepFacts
<1>2. CASE stage \in {"refresh", "probe"}
  BY <1>1, <1>2, ProgramsSeparate DEF Program, TypeOK, TaskType
<1>3. CASE stage = "delete"
  BY <1>1, <1>3, ProgramsSeparate DEF Program, TypeOK, TaskType, FlagType
<1>4. QED
  BY <1>2, <1>3 DEF TypeOK, HandlerType, Running

\* When Update starts the group, the push is behind.
LEMMA StartAfterPush ==
  ASSUME TypeOK, UploadInv, At("start"), conf.workdir
  PROVE  input # "none"
<1>1. Running /\ stage = "create" /\ Program = CreateSteps(conf)
  BY ApplyKindOfStage DEF At, Program
<1>2. PICK j \in 1 .. pc - 1 : CreateSteps(conf)[j].kind = "push"
  BY <1>1, PushFirst DEF At, Step, Running, TypeOK, TaskType
<1>3. j \in DOMAIN Program /\ j < pc
  BY <1>1, EarlierStep
<1>4. QED
  BY <1>1, <1>2, <1>3 DEF UploadInv, PushedSoFar

\* The storage is deleted after the group, which has been given up by then.
LEMMA DeleteInput ==
  ASSUME TypeOK, IInv, InputInv, At("delete"), DeleteCall, conf' = conf
  PROVE  InputInv'
<1>1. Running /\ Step.res \in Resources /\ stage = "delete" /\ cloud \in [Resources -> Nat]
  BY StepFacts, KindOfStage DEF At, TypeOK, CloudType
<1>2. CASE Step.res = Group
  BY <1>2, ConstantsTyped DEF DeleteCall, InputInv
<1>3. CASE Step.res # Group /\ desired > 0
  <2>1. Group \in Existing /\ Group \in Resources
    BY <1>3, ConstantsTyped DEF InputInv, Existing
  <2>2. Program = DeleteSteps(conf, readable) /\ pc \in DOMAIN DeleteSteps(conf, readable)
    BY <1>1 DEF Program, Running
  <2>3. Step.res # Storage
    <3> SUFFICES ASSUME Step.res = Storage PROVE FALSE
      OBVIOUS
    <3>1. Group \in Creates(CreateSteps(conf)) /\ Step.res \in Needs[Group]
      BY <2>1, PushFirst DEF IInv, CloudInv, OnlyOwned, Owned
    <3>2. PICK j \in 1 .. pc - 1 :
            /\ DeleteSteps(conf, readable)[j].kind = "delete"
            /\ DeleteSteps(conf, readable)[j].res = Group
      BY <2>2, <3>1, DeleteOrdered DEF TypeOK, TaskType, FlagType, At, Step
    <3>3. j \in DOMAIN Program /\ j < pc
      BY <1>1, EarlierStep
    <3>4. cloud[Group] = 0
      BY <1>1, <2>2, <3>2, <3>3 DEF IInv, ProgressInv, DeletedSoFar
    <3>5. QED
      BY <2>1, <3>4 DEF Existing
  <2>4. UNCHANGED <<desired, input>> /\ cloud'[Group] = cloud[Group]
    BY <1>1, <1>3, <2>1, <2>3 DEF DeleteCall
  <2>5. QED
    BY <2>4 DEF InputInv
<1>4. CASE Step.res # Group /\ ~(desired > 0)
  BY <1>4 DEF DeleteCall, InputInv
<1>5. QED
  BY <1>2, <1>3, <1>4

\* A creation call may make the group, with no capacity.
LEMMA CreateInput ==
  ASSUME TypeOK, InputInv, At("create"), CreateCall, UNCHANGED <<conf, input>>
  PROVE  InputInv'
<1>1. Step.res \in Resources /\ cloud \in [Resources -> Nat] /\ part \in Nat
  BY StepFacts DEF At, TypeOK, CloudType, HandlerType
<1>2. CASE Step.res = Group
  BY <1>2 DEF CreateCall, InputInv
<1>3. CASE Step.res # Group
  BY <1>1, <1>3, ConstantsTyped DEF CreateCall, InputInv
<1>4. QED
  BY <1>2, <1>3

\* A step that goes on, and what it makes of the input.
LEMMA PushedStep ==
  ASSUME TypeOK, PushedSoFar, Running,
         UNCHANGED <<conf, stage, readable>>,
         pc' = pc \/ pc' = pc + 1,
         stage = "create" /\ input # "none" => input' # "none",
         Step.kind = "push" => input' # "none"
  PROVE  PushedSoFar'
<1>1. Program' = Program
  BY DEF Program
<1>2. Len(Program) \in Nat /\ DOMAIN Program = 1 .. Len(Program) /\ pc \in Nat
  BY ProgramWellFormed, LenProperties DEF WellFormed, TypeOK, HandlerType
<1>3. \A i \in DOMAIN Program : i < pc' => i < pc \/ i = pc
  <2>1. \A i \in Nat : i < pc' => i < pc \/ i = pc
    BY <1>2
  <2>2. QED
    BY <1>2, <2>1
<1>4. QED
  BY <1>1, <1>3 DEF PushedSoFar, Step

\* The steps that succeed.
LEMMA StepUpload ==
  ASSUME TypeOK, IInv, UploadInv,
         \/ StepLookup \/ StepRead \/ StepReadOverlooked \/ StepAdopt \/ StepCreate
         \/ StepUnverified \/ StepPush \/ StepStart \/ StepPull \/ StepEmpty
         \/ StepEmptyOverlooked \/ StepDelete
  PROVE  UploadInv'
<1>1. Running
  BY DEF StepLookup, StepRead, StepReadOverlooked, StepAdopt, StepCreate,
         StepUnverified, StepPush, StepStart, StepPull, StepEmpty, StepEmptyOverlooked,
         StepDelete, At
<1>2. UNCHANGED <<conf, stage, readable>> /\ (pc' = pc \/ pc' = pc + 1)
  BY DEF StepLookup, StepRead, StepReadOverlooked, StepAdopt, StepCreate,
         StepUnverified, StepPush, StepStart, StepPull, StepEmpty, StepEmptyOverlooked,
         StepDelete, Advance, taskVars
<1>3. CASE \/ StepLookup \/ StepRead \/ StepReadOverlooked \/ StepAdopt
           \/ StepUnverified \/ StepPull \/ StepEmptyOverlooked
  <2>1. UNCHANGED <<cloud, desired, input>> /\ Step.kind # "push"
    BY <1>3 DEF StepLookup, StepRead, StepReadOverlooked, StepAdopt, StepUnverified,
                StepPull, StepEmptyOverlooked, cloudVars, dataVars, At
  <2>2. InputInv'
    BY <1>2, <2>1 DEF UploadInv, InputInv
  <2>3. QED
    BY <1>1, <1>2, <2>1, <2>2, PushedStep DEF UploadInv
<1>4. CASE StepPush \/ StepEmpty
  <2>1. /\ UNCHANGED <<cloud, desired>>
        /\ input # "none" => input' # "none"
        /\ Step.kind = "push" => input' # "none"
    BY <1>4 DEF PushCall, EmptyCall, StepPush, StepEmpty, cloudVars, At
  <2>2. InputInv'
    BY <1>2, <2>1 DEF UploadInv, InputInv
  <2>3. QED
    BY <1>1, <1>2, <2>1, <2>2, PushedStep DEF UploadInv
<1>5. CASE StepStart
  <2>1. UNCHANGED <<cloud, input>> /\ cloud[Group] > 0 /\ At("start") /\ Step.kind # "push"
    BY <1>5 DEF StartCall, StepStart, dataVars, At
  <2>2. InputInv'
    BY <1>2, <2>1, StartAfterPush DEF InputInv
  <2>3. QED
    BY <1>1, <1>2, <2>1, <2>2, PushedStep DEF UploadInv
<1>6. CASE StepCreate
  <2>1. At("create") /\ CreateCall /\ UNCHANGED input /\ Step.kind # "push"
    BY <1>6 DEF StepCreate, dataVars, At
  <2>2. QED
    BY <1>1, <1>2, <2>1, CreateInput, PushedStep DEF UploadInv
<1>7. CASE StepDelete
  <2>1. At("delete") /\ DeleteCall /\ Step.kind # "push"
    BY <1>7 DEF StepDelete, At
  <2>2. stage = "delete"
    BY <1>1, <2>1, KindOfStage DEF At
  <2>3. QED
    BY <1>1, <1>2, <2>1, <2>2, DeleteInput, PushedStep DEF UploadInv
<1>8. QED
  BY <1>3, <1>4, <1>5, <1>6, <1>7

\* The steps that fail, their call done or not.
LEMMA FailureUpload ==
  ASSUME TypeOK, IInv, UploadInv, StepNotFound \/ StepRefused \/ StepError
  PROVE  UploadInv'
<1>1. Running
  BY DEF StepNotFound, StepRefused, StepError, At
<1>2. PICK late \in BOOLEAN : StepFails(late)
  BY DEF StepNotFound, StepRefused, StepError
<1>3. conf' = conf /\ stage' # "create"
  BY <1>2 DEF StepFails
<1>4. InputInv'
  <2>1. CASE UNCHANGED <<cloudVars, dataVars>>
    BY <1>3, <2>1 DEF cloudVars, dataVars, UploadInv, InputInv
  <2>2. CASE At("create") /\ CreateCall /\ UNCHANGED dataVars
    BY <1>3, <2>2, CreateInput DEF dataVars, UploadInv
  <2>3. CASE At("delete") /\ DeleteCall
    BY <1>3, <2>3, DeleteInput DEF UploadInv
  <2>4. CASE At("start") /\ StartCall /\ UNCHANGED dataVars
    BY <1>1, <1>3, <2>4, StartAfterPush DEF StartCall, dataVars, InputInv
  <2>5. CASE ((At("push") /\ PushCall) \/ (At("empty") /\ EmptyCall)) /\ UNCHANGED cloudVars
    <3>1. UNCHANGED <<cloud, desired>> /\ (input # "none" => input' # "none")
      BY <2>5 DEF PushCall, EmptyCall, cloudVars
    <3>2. QED
      BY <1>3, <3>1 DEF UploadInv, InputInv
  <2>6. QED
    BY <2>1, <2>2, <2>3, <2>4, <2>5 DEF StepNotFound, StepRefused, StepError
<1>5. QED
  BY <1>3, <1>4 DEF UploadInv, PushedSoFar

\* At the first step of a program no push is behind.
LEMMA NothingPushed == TypeOK /\ AtFirstStep => PushedSoFar
<1> SUFFICES ASSUME TypeOK, pc = 1 PROVE PushedSoFar
  BY DEF AtFirstStep
<1>1. Len(Program) \in Nat /\ DOMAIN Program = 1 .. Len(Program)
  BY ProgramWellFormed, LenProperties DEF WellFormed
<1>2. \A i \in DOMAIN Program : ~(i < pc)
  BY <1>1
<1>3. QED
  BY <1>2 DEF PushedSoFar

\* The user, the ends of programs, crashes, deadlines and machines.
LEMMA OtherUpload ==
  ASSUME TypeOK, UploadInv,
         \/ User \/ CreateReturns \/ RefreshReturns \/ ProbeReturns \/ DeleteReturns
         \/ Crash \/ Panic \/ Expire \/ Machines
  PROVE  UploadInv'
<1>1. UNCHANGED <<conf, cloud, input>> /\ (desired' = desired \/ desired' = 0)
  BY DEF User, Apply, Refresh, Destroy, Begin, CreateReturns, RefreshReturns, ProbeReturns,
         DeleteReturns, Crash, Panic, ProcessDies, Finish, Expire, Machines, Boot, Preempt,
         Upload, SelfStop, MachineStep, taskVars, cloudVars, dataVars
<1>2. InputInv'
  BY <1>1 DEF UploadInv, InputInv
<1>3. CASE User
  <2>1. pc' = 1 /\ TypeOK'
    BY <1>3, BeginType DEF User, Apply, Refresh, Destroy, Begin
  <2>2. TypeOK' /\ AtFirstStep' => PushedSoFar'
    BY NothingPushed, PTL
  <2>3. PushedSoFar'
    BY <2>1, <2>2 DEF AtFirstStep
  <2>4. QED
    BY <1>2, <2>3 DEF UploadInv
<1>4. CASE CreateReturns \/ RefreshReturns \/ ProbeReturns \/ DeleteReturns \/ Crash \/ Panic
  BY <1>2, <1>4 DEF CreateReturns, RefreshReturns, ProbeReturns, DeleteReturns, Crash, Panic,
                    ProcessDies, Finish, UploadInv, PushedSoFar
<1>5. CASE Expire \/ Machines
  <2>1. UNCHANGED <<stage, pc, readable>>
    BY <1>5 DEF Expire, Machines, Boot, Preempt, Upload, SelfStop, MachineStep, handlerVars
  <2>2. Program' = Program
    BY <1>1, <2>1 DEF Program
  <2>3. QED
    BY <1>1, <1>2, <2>1, <2>2 DEF UploadInv, PushedSoFar
<1>6. QED
  BY <1>3, <1>4, <1>5

\* Every step of the system.
LEMMA NextUpload ==
  ASSUME TypeOK, IInv, UploadInv, [Next]_vars
  PROVE  UploadInv'
<1>1. CASE UNCHANGED vars
  <2>1. UNCHANGED <<conf, cloud, desired, input, stage, pc, readable>>
    BY <1>1 DEF vars, taskVars, handlerVars, cloudVars, dataVars
  <2>2. Program' = Program
    BY <2>1 DEF Program
  <2>3. QED
    BY <2>1, <2>2 DEF UploadInv, InputInv, PushedSoFar
<1>2. CASE Next
  BY <1>2, StepUpload, FailureUpload, OtherUpload DEF Next, Provider
<1>3. QED
  BY <1>1, <1>2

\* Only the group boots machines.
LEMMA BootsOnly ==
  ASSUME TypeOK, Next, machines' > machines
  PROVE  Boot
<1>1. machines \in Nat
  BY ConstantsTyped DEF TypeOK, CloudType
<1>2. machines' \in {machines, 0, machines - 1} \/ Boot
  BY DEF StartCall, Next, User, Apply, Refresh, Destroy, Begin, Provider, StepLookup, StepRead,
         StepReadOverlooked, StepAdopt, StepCreate, StepUnverified, StepPush, StepStart,
         StepPull, StepEmpty, StepEmptyOverlooked, StepDelete, StepNotFound, StepRefused,
         StepError, CreateCall, DeleteCall, CreateReturns, RefreshReturns, ProbeReturns,
         DeleteReturns, Finish, Panic, Crash, ProcessDies, Expire, Machines, Preempt, Upload,
         SelfStop, cloudVars
<1>3. QED
  BY <1>1, <1>2

\* No machine of a task with a workdir boots before the workdir is uploaded.
THEOREM BootsAfterUploadHolds == Spec => BootsAfterUpload
<1>1. Init => UploadInv
  BY DEF Init, UploadInv, InputInv, PushedSoFar
<1>2. TypeOK /\ IInv /\ UploadInv /\ [Next]_vars => UploadInv'
  BY NextUpload
<1>3. TypeOK /\ UploadInv /\ [Next]_vars
        => [machines' > machines /\ conf.workdir => input # "none"]_vars
  <2> SUFFICES ASSUME TypeOK, UploadInv, Next, machines' > machines, conf.workdir
               PROVE  input # "none"
    OBVIOUS
  <2>1. machines < desired /\ machines \in Nat /\ desired \in Nat
    BY BootsOnly, ConstantsTyped DEF Boot, TypeOK, CloudType
  <2>2. QED
    BY <2>1 DEF UploadInv, InputInv
<1>4. QED
  BY <1>1, <1>2, <1>3, InductiveInvariant, PTL DEF Spec, BootsAfterUpload

------------------------------------------------------------------------------
(* Completeness.  The apply of a task that is not there finds nothing of it,  *)
(* unless an earlier one died (NoOrphans), so that all there is it has made. *)

Fresh == stage = "create" /\ ~dangling

\* The calls of a step that are behind are fewer than it makes.
PartInv == part > 0 => At("create") /\ part < Step.calls

\* The creation steps that are behind made all of their calls.
CompletedSoFar ==
  Fresh =>
    \A i \in DOMAIN Program :
      /\ i < pc /\ Program[i].kind = "create"
      /\ (Program[i].res \in Trusting => failures = 0)
      => cloud[Program[i].res] = Program[i].calls

\* What exists was made by a step that is behind, or by calls of the one at hand.
MadeByApply ==
  Fresh =>
    \A r \in Existing : \E j \in DOMAIN Program :
      /\ Program[j].kind = "create" /\ Program[j].res = r
      /\ j < pc \/ (j = pc /\ part > 0)

CompleteInv == PartInv /\ CompletedSoFar /\ MadeByApply

\* Failures are only ever added.
LEMMA FailuresGrow ==
  ASSUME TypeOK, [Next]_vars, failures' = 0
  PROVE  failures = 0
<1> SUFFICES failures' = failures \/ failures' = failures + 1
  BY DEF TypeOK, TaskType
<1>1. CASE UNCHANGED vars
  BY <1>1 DEF vars, boundVars
<1>2. CASE User \/ Crash \/ Panic \/ Expire \/ Machines
  BY <1>2 DEF User, Apply, Refresh, Destroy, Begin, Crash, Panic, ProcessDies, Expire,
              Machines, Boot, Preempt, Upload, SelfStop, MachineStep, boundVars
<1>3. CASE StepLookup \/ StepRead \/ StepPush \/ StepStart \/ StepPull \/ StepEmpty \/ StepDelete
  BY <1>3 DEF StepLookup, StepRead, StepPush, StepStart, StepPull, StepEmpty, StepDelete,
              boundVars
<1>4. CASE \/ StepReadOverlooked \/ StepUnverified \/ StepEmptyOverlooked
           \/ StepNotFound \/ StepRefused \/ StepError
  BY <1>4 DEF StepReadOverlooked, Overlooked, StepUnverified, StepEmptyOverlooked,
              StepNotFound, StepRefused, StepError, boundVars
<1>5. CASE StepAdopt \/ StepCreate
  BY <1>5 DEF StepAdopt, StepCreate, EndOfCreate, Overlooked, boundVars
<1>6. CASE CreateReturns \/ RefreshReturns \/ ProbeReturns \/ DeleteReturns
  BY <1>6 DEF CreateReturns, RefreshReturns, ProbeReturns, DeleteReturns, Finish, boundVars
<1>7. QED
  BY <1>1, <1>2, <1>3, <1>4, <1>5, <1>6 DEF Next, Provider

\* The creation steps of Create, each of which is the only one of its resource.
LEMMA OneStepEach ==
  ASSUME TypeOK, stage = "create", NEW i \in DOMAIN Program, NEW j \in DOMAIN Program,
         Program[i].kind = "create", Program[j].kind = "create", Program[i].res = Program[j].res
  PROVE  i = j
BY CreateOnce DEF Program, TypeOK, TaskType

\* In a fresh apply nothing is adopted.
LEMMA NothingAdopted ==
  ASSUME TypeOK, CompleteInv, Fresh, At("create"), part = 0
  PROVE  cloud[Step.res] = 0
<1> SUFFICES ASSUME cloud[Step.res] # 0 PROVE FALSE
  OBVIOUS
<1>1. Step.res \in Resources /\ cloud \in [Resources -> Nat]
  BY StepFacts DEF At, TypeOK, CloudType
<1>2. Step.res \in Existing
  BY <1>1 DEF Existing
<1>3. PICK j \in DOMAIN Program :
        Program[j].kind = "create" /\ Program[j].res = Step.res /\ j < pc
  BY <1>2 DEF CompleteInv, MadeByApply
<1>4. j = pc
  BY <1>3, OneStepEach DEF At, Running, Step, Fresh
<1>5. QED
  BY <1>3, <1>4 DEF TypeOK, HandlerType

\* A step of another kind, or one whose resource nobody verified.
LEMMA CompleteQuiet ==
  ASSUME TypeOK, CompleteInv, Running, Advance, [Next]_vars,
         Fresh => UNCHANGED cloud,
         Fresh /\ Step.kind = "create" => Step.res \in Trusting /\ failures' # 0
  PROVE  CompleteInv'
<1>1. /\ Program' = Program /\ Fresh' = Fresh /\ pc' = pc + 1 /\ part' = 0
  BY DEF Advance, Program, Fresh, taskVars, historyVars
<1>2. Len(Program) \in Nat /\ DOMAIN Program = 1 .. Len(Program) /\ pc \in Nat
  BY ProgramWellFormed, LenProperties DEF WellFormed, TypeOK, HandlerType
<1>3. \A i \in DOMAIN Program : i < pc' => i < pc \/ i = pc
  BY <1>1, <1>2
<1>4. \A i \in DOMAIN Program : i < pc \/ i = pc => i < pc'
  BY <1>1, <1>2
<1>5. PartInv'
  BY <1>1 DEF PartInv
<1>6. CompletedSoFar'
  BY <1>1, <1>3, FailuresGrow DEF CompleteInv, CompletedSoFar, Step
<1>7. MadeByApply'
  BY <1>1, <1>4 DEF CompleteInv, MadeByApply, Existing
<1>8. QED
  BY <1>5, <1>6, <1>7 DEF CompleteInv

\* One call of a creation.
LEMMA CompleteCreate ==
  ASSUME TypeOK, CompleteInv, [Next]_vars, StepCreate
  PROVE  CompleteInv'
<1>1. Running /\ At("create") /\ CreateCall /\ Step.kind = "create"
  BY DEF StepCreate, At
<1>2. /\ Step.res \in Resources /\ Step.calls \in Nat /\ Step.calls > 0
      /\ stage = "create" /\ part \in Nat /\ cloud \in [Resources -> Nat]
  BY <1>1, StepFacts, KindOfStage DEF TypeOK, HandlerType, CloudType
<1>3. Program' = Program /\ Fresh' = Fresh
  BY DEF StepCreate, Advance, Program, Fresh, taskVars, historyVars
<1>4. Len(Program) \in Nat /\ DOMAIN Program = 1 .. Len(Program) /\ pc \in DOMAIN Program
  BY <1>1, ProgramWellFormed, LenProperties DEF WellFormed, Running
<1>5. part + 1 <= Step.calls
  BY <1>1, <1>2 DEF CompleteInv, PartInv
<1>6. cloud' = [cloud EXCEPT ![Step.res] = part + 1]
  BY <1>1 DEF CreateCall
<1>7. ASSUME NEW i \in DOMAIN Program, i < pc, Program[i].kind = "create"
      PROVE  cloud'[Program[i].res] = cloud[Program[i].res]
  <2>1. Program[i].res # Step.res
    BY <1>1, <1>2, <1>4, <1>7, OneStepEach DEF Step
  <2>2. Program[i].res \in Resources
    BY <1>7, ProgramWellFormed DEF WellFormed, StepOf
  <2>3. QED
    BY <1>2, <1>6, <2>1, <2>2
<1>8. Existing' = Existing \union {Step.res}
  BY <1>2, <1>6 DEF Existing
<1>9. CASE part + 1 < Step.calls
  <2>1. pc' = pc /\ part' = part + 1 /\ stage' = stage
    BY <1>9 DEF StepCreate
  <2>2. PartInv'
    BY <1>1, <1>3, <1>9, <2>1 DEF PartInv, At, Step, Running
  <2>3. CompletedSoFar'
    BY <1>3, <1>7, <2>1, FailuresGrow DEF CompleteInv, CompletedSoFar
  <2>4. MadeByApply'
    BY <1>1, <1>2, <1>3, <1>4, <1>8, <2>1 DEF CompleteInv, MadeByApply, Step
  <2>5. QED
    BY <2>2, <2>3, <2>4 DEF CompleteInv
<1>10. CASE ~(part + 1 < Step.calls)
  <2>1. pc' = pc + 1 /\ part' = 0 /\ part + 1 = Step.calls
    BY <1>2, <1>5, <1>10 DEF StepCreate, Advance
  <2>2. \A i \in DOMAIN Program : i < pc' <=> i < pc \/ i = pc
    BY <1>4, <2>1
  <2>3. PartInv'
    BY <2>1 DEF PartInv
  <2>4. cloud'[Step.res] = Step.calls
    BY <1>2, <1>6, <2>1
  <2>5. CompletedSoFar'
    BY <1>3, <1>7, <2>2, <2>4, FailuresGrow DEF CompleteInv, CompletedSoFar, Step
  <2>6. MadeByApply'
    BY <1>1, <1>3, <1>4, <1>8, <2>2 DEF CompleteInv, MadeByApply, Step
  <2>7. QED
    BY <2>3, <2>5, <2>6 DEF CompleteInv
<1>11. QED
  BY <1>9, <1>10

\* The steps that succeed.
LEMMA StepComplete ==
  ASSUME TypeOK, CompleteInv, [Next]_vars,
         \/ StepLookup \/ StepRead \/ StepReadOverlooked \/ StepAdopt \/ StepCreate
         \/ StepUnverified \/ StepPush \/ StepStart \/ StepPull \/ StepEmpty
         \/ StepEmptyOverlooked \/ StepDelete
  PROVE  CompleteInv'
<1>1. CASE \/ StepLookup \/ StepRead \/ StepReadOverlooked \/ StepPush \/ StepStart
           \/ StepPull \/ StepEmpty \/ StepEmptyOverlooked
  <2>1. Running /\ Advance /\ UNCHANGED cloud /\ Step.kind # "create"
    BY <1>1 DEF StartCall, StepLookup, StepRead, StepReadOverlooked, StepPush, StepStart, StepPull,
                StepEmpty, StepEmptyOverlooked, At, cloudVars
  <2>2. QED
    BY <2>1, CompleteQuiet
<1>2. CASE StepUnverified
  <2>1. Running /\ Advance /\ UNCHANGED cloud
    BY <1>2 DEF StepUnverified, At, cloudVars
  <2>2. Step.kind = "create" => Step.res \in Trusting
    BY <1>2 DEF StepUnverified, At
  <2>3. failures' # 0
    BY <1>2 DEF StepUnverified, TypeOK, TaskType
  <2>4. QED
    BY <2>1, <2>2, <2>3, CompleteQuiet
<1>3. CASE StepDelete
  <2>1. Running /\ Advance /\ Step.kind = "delete"
    BY <1>3 DEF StepDelete, At
  <2>2. ~Fresh
    BY <2>1, KindOfStage DEF Fresh
  <2>3. QED
    BY <2>1, <2>2, CompleteQuiet
<1>4. CASE StepAdopt
  <2>1. Running /\ At("create") /\ Advance /\ part = 0 /\ cloud[Step.res] > 0
    BY <1>4 DEF StepAdopt, At
  <2>2. ~Fresh
    BY <2>1, NothingAdopted
  <2>3. QED
    BY <2>1, <2>2, CompleteQuiet
<1>5. QED
  BY <1>1, <1>2, <1>3, <1>4, CompleteCreate

\* No step of the program is behind.
NoneBehind == \A i \in DOMAIN Program : ~(i < pc)

\* Which is so at the first step of a program.
LEMMA FirstBehind == TypeOK /\ AtFirstStep => NoneBehind
<1> SUFFICES ASSUME TypeOK, pc = 1 PROVE NoneBehind
  BY DEF AtFirstStep
<1>1. Len(Program) \in Nat /\ DOMAIN Program = 1 .. Len(Program)
  BY ProgramWellFormed, LenProperties DEF WellFormed
<1>2. QED
  BY <1>1 DEF NoneBehind

\* An apply begins with nothing; whatever ends it leaves nothing to say.
LEMMA OtherComplete ==
  ASSUME TypeOK, IInv, CompleteInv, [Next]_vars,
         \/ User \/ StepNotFound \/ StepRefused \/ StepError
         \/ CreateReturns \/ RefreshReturns \/ ProbeReturns \/ DeleteReturns
         \/ Crash \/ Panic \/ Expire \/ Machines
  PROVE  CompleteInv'
<1>1. CASE Apply
  <2>1. /\ pc' = 1 /\ part' = 0 /\ cloud' = cloud /\ dangling' = dangling
        /\ tf = "absent" /\ handler = "none" /\ TypeOK'
    BY <1>1, BeginType DEF Apply, Begin, cloudVars, User
  <2>2. TypeOK' /\ AtFirstStep' => NoneBehind'
    BY FirstBehind, PTL
  <2>3. NoneBehind'
    BY <2>1, <2>2 DEF AtFirstStep
  <2>4. Fresh' => Existing' = {}
    BY <2>1 DEF Fresh, Existing, IInv, StateInv, NoOrphans
  <2>5. QED
    BY <2>1, <2>3, <2>4 DEF NoneBehind, CompleteInv, PartInv, CompletedSoFar, MadeByApply
<1>2. CASE \/ Refresh \/ Destroy \/ StepNotFound \/ StepRefused \/ StepError
           \/ CreateReturns \/ RefreshReturns \/ ProbeReturns \/ DeleteReturns \/ Crash \/ Panic
  <2>1. stage' # "create"
    BY <1>2 DEF Refresh, Destroy, Begin, StepNotFound, StepRefused, StepError, StepFails,
                CreateReturns, RefreshReturns, ProbeReturns, DeleteReturns, Crash, Panic,
                ProcessDies, Finish
  <2>2. part' = 0
    <3>1. CASE ProbeReturns
      <4>1. ~Running /\ part' = part
        BY <3>1 DEF ProbeReturns, Ended, Running
      <4>2. part \in Nat
        BY DEF TypeOK, HandlerType
      <4>3. QED
        BY <4>1, <4>2 DEF CompleteInv, PartInv, At
    <3>2. CASE ~ProbeReturns
      BY <1>2, <3>2 DEF Refresh, Destroy, Begin, StepNotFound, StepRefused, StepError,
                        StepFails, CreateReturns, RefreshReturns, DeleteReturns, Crash,
                        Panic, ProcessDies, Finish
    <3>3. QED
      BY <3>1, <3>2
  <2>3. PartInv'
    BY <2>2 DEF PartInv
  <2>4. QED
    BY <2>1, <2>3 DEF CompleteInv, CompletedSoFar, MadeByApply, Fresh
<1>3. CASE Expire \/ Machines
  <2>1. UNCHANGED <<conf, cloud, stage, pc, part, readable, dangling>>
    BY <1>3 DEF Expire, Machines, Boot, Preempt, Upload, SelfStop, MachineStep, taskVars,
                cloudVars, handlerVars, historyVars
  <2>2. Program' = Program /\ Fresh' = Fresh /\ Existing' = Existing /\ Step' = Step
        /\ Running' = Running
    BY <2>1 DEF Program, Fresh, Existing, Step, Running
  <2>3. QED
    BY <2>1, <2>2, FailuresGrow
       DEF CompleteInv, PartInv, At, CompletedSoFar, MadeByApply
<1>4. QED
  BY <1>1, <1>2, <1>3 DEF User

\* Every step of the system.
LEMMA NextComplete ==
  ASSUME TypeOK, IInv, CompleteInv, [Next]_vars
  PROVE  CompleteInv'
<1>1. CASE UNCHANGED vars
  <2>1. UNCHANGED <<conf, cloud, stage, pc, part, readable, dangling>>
    BY <1>1 DEF vars, taskVars, handlerVars, cloudVars, historyVars
  <2>2. /\ Program' = Program /\ Fresh' = Fresh /\ Existing' = Existing /\ Step' = Step
        /\ Running' = Running
    BY <2>1 DEF Program, Fresh, Existing, Step, Running
  <2>3. QED
    BY <2>1, <2>2, FailuresGrow
       DEF CompleteInv, PartInv, At, CompletedSoFar, MadeByApply
<1>2. CASE Next
  BY <1>2, StepComplete, OtherComplete DEF Next, Provider
<1>3. QED
  BY <1>1, <1>2

\* Only the end of Create makes the task present.
LEMMA PresentOnly ==
  ASSUME Next, tf' = "present", tf # "present"
  PROVE  CreateReturns
BY DEF Next, User, Apply, Refresh, Destroy, Begin, Provider, StepLookup, StepRead,
       StepReadOverlooked, StepAdopt, StepCreate, StepUnverified, StepPush, StepStart,
       StepPull, StepEmpty, StepEmptyOverlooked, StepDelete, Advance, StepNotFound,
       StepRefused, StepError, StepFails, RefreshReturns, ProbeReturns, DeleteReturns,
       Finish, Panic, Crash, ProcessDies, Expire, Machines, Boot, Preempt, Upload,
       SelfStop, MachineStep, taskVars

\* At the end of a program, all of it is behind.
LEMMA AllBehind ==
  ASSUME TypeOK, IInv, stage # "none", pc \notin DOMAIN Program, NEW i \in DOMAIN Program
  PROVE  i < pc
<1>1. Len(Program) \in Nat /\ DOMAIN Program = 1 .. Len(Program) /\ pc \in Nat \ {0}
  BY ProgramWellFormed, LenProperties DEF WellFormed, TypeOK, HandlerType
<1>2. QED
  BY <1>1

\* An apply that succeeds, where none died before, has made every call of every
\* creation, save those that nobody verified and that failed.
THEOREM AppliedIsCompleteHolds == Spec => AppliedIsComplete
<1>1. Init => CompleteInv
  BY DEF Init, CompleteInv, PartInv, CompletedSoFar, MadeByApply, Fresh
<1>2. TypeOK /\ IInv /\ CompleteInv /\ [Next]_vars => CompleteInv'
  BY NextComplete
<1>3. TypeOK /\ IInv /\ CompleteInv /\ [Next]_vars
        => [tf' = "present" /\ tf # "present" /\ ~dangling =>
              \A i \in DOMAIN CreateSteps(conf) :
                LET s == CreateSteps(conf)[i] IN
                s.kind = "create" /\ (s.res \in Trusting => failures = 0)
                  => cloud[s.res] = s.calls]_vars
  <2> SUFFICES ASSUME TypeOK, IInv, CompleteInv, Next,
                      tf' = "present", tf # "present", ~dangling,
                      NEW i \in DOMAIN CreateSteps(conf),
                      CreateSteps(conf)[i].kind = "create",
                      CreateSteps(conf)[i].res \in Trusting => failures = 0
               PROVE  cloud[CreateSteps(conf)[i].res] = CreateSteps(conf)[i].calls
    OBVIOUS
  <2>1. Ended("create")
    BY PresentOnly DEF CreateReturns
  <2>2. Fresh /\ Program = CreateSteps(conf)
    BY <2>1 DEF Ended, Fresh, Program
  <2>3. i < pc
    BY <2>1, <2>2, AllBehind DEF Ended
  <2>4. QED
    BY <2>2, <2>3 DEF CompleteInv, CompletedSoFar
<1>4. QED
  BY <1>1, <1>2, <1>3, InductiveInvariant, PTL DEF Spec, AppliedIsComplete
==============================================================================
