------------------------- MODULE TaskContract_proofs -------------------------
(***************************************************************************)
(* TaskLifecycle implements TaskContract, by the inductive invariant of    *)
(* TaskLifecycle_proofs.                                                   *)
(***************************************************************************)
EXTENDS TaskLifecycle_proofs

------------------------------------------------------------------------------
(* The refinement: initial states, then one lemma per kind of step. *)

ContractStep == [Contract!Next]_(Contract!contractVars)

LEMMA InitContract == Init => Contract!Init
<1> SUFFICES ASSUME Init PROVE Contract!Init
  OBVIOUS
<1>1. Existing = {}
  BY DEF Init, Existing
<1>2. Owned \subseteq Resources
  <2> SUFFICES ASSUME NEW i \in DOMAIN CreateSteps(conf), CreateSteps(conf)[i].kind = "create"
               PROVE  CreateSteps(conf)[i].res \in Resources
    BY DEF Owned, Creates
  <2>1. WellFormed(CreateSteps(conf))
    BY ProgramsTyped DEF Init
  <2>2. QED
    BY <2>1 DEF WellFormed, StepOf
<1>3. QED
  BY <1>1, <1>2 DEF Init, Contract!Init

\* What the contract sees of a step that touches none of its variables.
LEMMA StutterContract ==
  ASSUME UNCHANGED <<conf, cloud, tf, handler, dangling>>
  PROVE  ContractStep
BY DEF ContractStep, Contract!contractVars, Owned, Existing

LEMMA BeginContract ==
  ASSUME User
  PROVE  ContractStep
<1>1. Existing' = Existing /\ Owned' = Owned
  BY DEF User, Apply, Refresh, Destroy, Begin, taskVars, cloudVars, Existing, Owned
<1>2. Contract!Begin("apply") \/ Contract!Begin("refresh") \/ Contract!Begin("destroy")
  BY <1>1 DEF User, Apply, Refresh, Destroy, Begin, taskVars, Contract!Begin
<1>3. QED
  BY <1>2 DEF ContractStep, Contract!Next

\* A creation call makes one of the things the task wants.
LEMMA MakeContract ==
  ASSUME TypeOK, At("create"), CreateCall, UNCHANGED <<conf, tf, handler, dangling>>
  PROVE  ContractStep
<1>1. Running /\ Step.res \in Resources /\ stage = "create"
  BY StepFacts, KindOfStage DEF At
<1>2. handler = "apply"
  BY <1>1 DEF TypeOK, HandlerType
<1>3. Step.res \in Owned
  BY <1>1 DEF Owned, Creates, At, Step, Program, Running
<1>4. Existing' = Existing \union {Step.res}
  BY <1>1 DEF Existing, CreateCall, TypeOK, CloudType, HandlerType
<1>5. Owned' = Owned
  BY DEF Owned
<1>6. Contract!Make
  BY <1>2, <1>3, <1>4, <1>5 DEF Contract!Make
<1>7. QED
  BY <1>6 DEF ContractStep, Contract!Next

\* A deletion takes away one thing, at most.
LEMMA DeletionShrinks ==
  ASSUME TypeOK, At("delete"), DeleteCall
  PROVE  Existing' = Existing \ {Step.res}
<1>1. Running /\ Step.res \in Resources
  BY StepFacts DEF At
<1>2. QED
  BY <1>1 DEF Existing, DeleteCall, TypeOK, CloudType

LEMMA UnmakeContract ==
  ASSUME TypeOK, At("delete"), DeleteCall, UNCHANGED <<conf, tf, handler, dangling>>
  PROVE  ContractStep
<1>1. Running /\ stage = "delete"
  BY KindOfStage DEF At
<1>2. handler \in {"apply", "destroy"}
  BY <1>1 DEF TypeOK, HandlerType
<1>3. Existing' = Existing \ {Step.res} /\ Owned' = Owned
  BY DeletionShrinks DEF Owned
<1>4. CASE Step.res \in Existing
  <2>1. Contract!Unmake
    BY <1>2, <1>3, <1>4 DEF Contract!Unmake
  <2>2. QED
    BY <2>1 DEF ContractStep, Contract!Next
<1>5. CASE Step.res \notin Existing
  BY <1>3, <1>5 DEF ContractStep, Contract!contractVars
<1>6. QED
  BY <1>4, <1>5

LEMMA StepContract ==
  ASSUME TypeOK,
         \/ StepLookup \/ StepRead \/ StepReadOverlooked \/ StepAdopt \/ StepCreate
         \/ StepUnverified \/ StepPush \/ StepStart \/ StepPull \/ StepEmpty
         \/ StepEmptyOverlooked \/ StepDelete
  PROVE  ContractStep
<1>1. CASE \/ StepLookup \/ StepRead \/ StepReadOverlooked \/ StepAdopt
           \/ StepUnverified \/ StepPush \/ StepStart \/ StepPull \/ StepEmpty \/ StepEmptyOverlooked
  <2>1. UNCHANGED <<conf, cloud, tf, handler, dangling>>
    BY <1>1 DEF StartCall, StepLookup, StepRead, StepReadOverlooked, StepAdopt, StepUnverified,
                StepPush, StepStart, StepPull, StepEmpty, StepEmptyOverlooked, cloudVars,
                Advance, taskVars, historyVars
  <2>2. QED
    BY <2>1, StutterContract
<1>2. CASE StepCreate
  BY <1>2, MakeContract DEF StepCreate, Advance, taskVars, historyVars
<1>3. CASE StepDelete
  BY <1>3, UnmakeContract DEF StepDelete, Advance, taskVars, historyVars
<1>4. QED
  BY <1>1, <1>2, <1>3

\* A step that fails goes on in the same operation, or ends it: a refresh that
\* fails has changed nothing, an apply or a destroy may have removed something.
LEMMA FailureContract ==
  ASSUME TypeOK, StepNotFound \/ StepRefused \/ StepError
  PROVE  ContractStep
<1>1. Running
  BY DEF StepNotFound, StepRefused, StepError, At
<1>2. PICK late \in BOOLEAN : StepFails(late)
  BY DEF StepNotFound, StepRefused, StepError
<1>3. UNCHANGED <<conf, dangling>> /\ Owned' = Owned
  BY <1>2 DEF StepFails, historyVars, Owned
<1>4. \/ UNCHANGED cloud
      \/ At("create") /\ CreateCall
      \/ At("delete") /\ DeleteCall
  BY DEF StartCall, StepNotFound, StepRefused, StepError, cloudVars
<1>5. CASE stage \in {"create", "probe"}
  <2>1. UNCHANGED <<tf, handler>>
    BY <1>2, <1>5 DEF StepFails
  <2>2. QED
    BY <1>3, <1>4, <2>1, StutterContract, MakeContract, UnmakeContract
<1>6. CASE stage \in {"refresh", "delete"}
  <2>1. /\ handler' = "none"
        /\ tf' = IF stage = "delete" /\ handler = "apply" THEN "tainted" ELSE tf
    BY <1>2, <1>6 DEF StepFails
  <2>2. ~At("create")
    BY <1>1, <1>6, KindOfStage DEF At
  <2>3. Existing' \subseteq Existing
    BY <1>4, <2>2, DeletionShrinks DEF Existing
  <2>4. CASE stage = "delete"
    <3>1. handler \in {"apply", "destroy"}
      BY <2>4 DEF TypeOK, HandlerType
    <3>2. Contract!Fail
      BY <1>3, <2>1, <2>3, <2>4, <3>1 DEF Contract!Fail
    <3>3. QED
      BY <3>2 DEF ContractStep, Contract!Next
  <2>5. CASE stage = "refresh"
    <3>1. handler = "refresh" /\ tf' = tf
      BY <2>1, <2>5 DEF TypeOK, HandlerType
    <3>2. ~At("delete")
      BY <1>1, <2>5, KindOfStage DEF At
    <3>3. Existing' = Existing
      BY <1>4, <2>2, <3>2 DEF Existing
    <3>4. Contract!Report
      BY <1>3, <2>1, <3>1, <3>3 DEF Contract!Report
    <3>5. QED
      BY <3>4 DEF ContractStep, Contract!Next
  <2>6. QED
    BY <1>6, <2>4, <2>5
<1>7. QED
  BY <1>1, <1>5, <1>6 DEF TypeOK, HandlerType, Running

\* At the end of Task.Create everything the task wants is there, unless nobody
\* verified its creation.
LEMMA AllThere ==
  ASSUME TypeOK, IInv, Ended("create")
  PROVE  Existing \subseteq Owned /\ Owned \ Existing \subseteq Trusting
<1>1. stage = "create" /\ Program = CreateSteps(conf) /\ pc \notin DOMAIN Program
  BY DEF Ended, Program
<1>2. Len(Program) \in Nat /\ DOMAIN Program = 1 .. Len(Program)
  BY ProgramWellFormed, LenProperties DEF WellFormed
<1>3. pc \in Nat \ {0} /\ pc \notin 1 .. Len(Program)
  BY <1>1, <1>2 DEF TypeOK, HandlerType
<1>4. \A i \in DOMAIN Program : i < pc
  <2>1. pc > Len(Program)
    BY <1>2, <1>3
  <2>2. QED
    BY <1>2, <1>3, <2>1
<1>5. ASSUME NEW i \in DOMAIN Program, Program[i].kind = "create",
             Program[i].res \notin Trusting
      PROVE  Program[i].res \in Existing
  <2>1. cloud[Program[i].res] > 0
    BY <1>1, <1>4, <1>5 DEF IInv, ProgressInv, CreatedSoFar
  <2>2. Program[i].res \in Resources
    BY <1>5, ProgramWellFormed DEF WellFormed, StepOf
  <2>3. QED
    BY <2>1, <2>2 DEF Existing
<1>6. Owned \ Existing \subseteq Trusting
  BY <1>1, <1>5 DEF Owned, Creates
<1>7. QED
  BY <1>6 DEF IInv, CloudInv, OnlyOwned

LEMMA ReturnContract ==
  ASSUME TypeOK, IInv,
         CreateReturns \/ RefreshReturns \/ ProbeReturns \/ DeleteReturns
           \/ Crash \/ Panic
  PROVE  ContractStep
<1>1. Existing' = Existing /\ Owned' = Owned /\ conf' = conf /\ cloud' = cloud
  BY DEF CreateReturns, RefreshReturns, ProbeReturns, DeleteReturns, Crash, Panic,
         ProcessDies, Finish, cloudVars, taskVars, Existing, Owned
<1>2. CASE ProbeReturns
  BY <1>2, StutterContract DEF ProbeReturns, cloudVars, taskVars, historyVars
<1>3. CASE CreateReturns
  <2>1. handler = "apply"
    BY <1>3 DEF CreateReturns, Ended, TypeOK, HandlerType
  <2>2. Existing \subseteq Owned /\ Owned \ Existing \subseteq Trusting
    BY <1>3, AllThere DEF CreateReturns
  <2>3. Contract!Achieve
    BY <1>1, <1>3, <2>1, <2>2 DEF CreateReturns, Finish, Contract!Achieve
  <2>4. QED
    BY <2>3 DEF ContractStep, Contract!Next
<1>4. CASE RefreshReturns
  <2>1. handler = "refresh"
    BY <1>4 DEF RefreshReturns, Ended, TypeOK, HandlerType
  <2>2. Contract!Report
    BY <1>1, <1>4, <2>1 DEF RefreshReturns, Finish, Contract!Report
  <2>3. QED
    BY <2>2 DEF ContractStep, Contract!Next
<1>5. CASE DeleteReturns
  <2>1. handler \in {"apply", "destroy"}
    BY <1>5 DEF DeleteReturns, Ended, TypeOK, HandlerType
  <2>2. Existing = {}
    BY <1>5, NothingLeft DEF DeleteReturns
  <2>3. Contract!Forget
    BY <1>1, <1>5, <2>1, <2>2 DEF DeleteReturns, Finish, Contract!Forget
  <2>4. QED
    BY <2>3 DEF ContractStep, Contract!Next
<1>6. CASE Crash \/ Panic
  <2>1. handler # "none"
    BY <1>6 DEF Crash, Panic, NilDependency, At, Running, TypeOK, HandlerType
  <2>2. /\ handler' = "none" /\ tf' = tf
        /\ dangling' = (dangling \/ handler = "apply")
    BY <1>6 DEF Crash, Panic, ProcessDies, taskVars
  <2>3. Contract!Die
    BY <1>1, <2>1, <2>2 DEF Contract!Die
  <2>4. QED
    BY <2>3 DEF ContractStep, Contract!Next
<1>7. QED
  BY <1>2, <1>3, <1>4, <1>5, <1>6

LEMMA EnvironmentContract ==
  ASSUME Expire \/ Machines
  PROVE  ContractStep
<1>1. UNCHANGED <<conf, cloud, tf, handler, dangling>>
  BY DEF Expire, Machines, Boot, Preempt, Upload, SelfStop, MachineStep, taskVars,
         cloudVars, handlerVars, historyVars
<1>2. QED
  BY <1>1, StutterContract

LEMMA NextContract ==
  ASSUME TypeOK, IInv, [Next]_vars
  PROVE  ContractStep
<1>1. CASE UNCHANGED vars
  BY <1>1, StutterContract DEF vars, taskVars, handlerVars, cloudVars, historyVars
<1>2. CASE Next
  BY <1>2, BeginContract, StepContract, FailureContract, ReturnContract,
     EnvironmentContract DEF Next, Provider
<1>3. QED
  BY <1>1, <1>2

\* The provider does what TaskContract promises to Terraform: an apply that
\* succeeds has made everything, a task is forgotten only when nothing is left.
THEOREM ContractImplemented == Spec => ImplementsContract
<1>1. TypeOK /\ IInv /\ [Next]_vars => [Contract!Next]_(Contract!contractVars)
  BY NextContract DEF ContractStep
<1>2. QED
  BY InitContract, InductiveInvariant, <1>1, PTL DEF Spec, ImplementsContract, Contract!Spec
==============================================================================
