-------------------------- MODULE MachineAgent_proofs --------------------------
(***************************************************************************)
(* Theorems about MachineAgent: types for any parallelism, and for a task  *)
(* of one machine, which the group replaces as often as it is reclaimed,   *)
(* the safety properties, for any number of replacements, results and      *)
(* failures and any timeout.                                               *)
(***************************************************************************)
EXTENDS MachineAgent, FiniteSetTheorems, TLAPS

------------------------------------------------------------------------------
(* Type correctness, action by action. *)

LEMMA InitType == Init => TypeOK
<1> SUFFICES ASSUME Init PROVE TypeOK
  OBVIOUS
<1> QED
  BY AgentConstants DEF Init, TypeOK, Phases

LEMMA BootType == ASSUME TypeOK, NEW m \in Machines, Boot(m) PROVE TypeOK'
BY AgentConstants DEF TypeOK, Boot, Phases, diskVars, dataVars, logVars, bucketVars

LEMMA UnitType == ASSUME TypeOK, NEW m \in Machines, Unit(m) PROVE TypeOK'
<1>1. CASE Download(m)
  <2>1. PICK part \in SUBSET data : local' = [local EXCEPT ![m] = part]
    BY <1>1 DEF Download
  <2>2. local' \in [Machines -> SUBSET (1 .. made)]
    BY <2>1 DEF TypeOK
  <2>3. failures' \in 0 .. MaxFailures
    BY <1>1, AgentConstants DEF TypeOK, Download, Failure
  <2>4. phase' \in [Machines -> Phases]
    BY <1>1 DEF TypeOK, Download, Phases
  <2>5. QED
    BY <1>1, <2>2, <2>3, <2>4 DEF TypeOK, Download, logVars, bucketVars
<1>2. CASE StartService(m)
  BY <1>2 DEF TypeOK, StartService, Phases, logVars, bucketVars
<1>3. CASE Expire(m)
  BY <1>3 DEF TypeOK, Expire, StopUnit, Phases, diskVars, dataVars, logVars, bucketVars
<1>4. CASE ExecStop(m)
  <2>1. /\ phase' \in [Machines -> Phases] /\ checked' \in [Machines -> SUBSET Loop]
        /\ UNCHANGED <<runs, limit, verdict, desired, left, data, made>>
        /\ UNCHANGED <<local, dirty, syncing, logged, logging>>
    BY <1>4 DEF TypeOK, ExecStop, Rclones, Phases, dataVars, logVars
  <2>2. reports' \subseteq Report
    BY <1>4 DEF TypeOK, ExecStop, Report
  <2>3. failures' \in 0 .. MaxFailures
    BY <1>4, AgentConstants DEF TypeOK, ExecStop, Failure
  <2>4. QED
    BY <2>1, <2>2, <2>3 DEF TypeOK
<1>5. QED
  BY <1>1, <1>2, <1>3, <1>4 DEF Unit

LEMMA ShutdownType == ASSUME TypeOK, NEW m \in Machines, Shutdown(m) PROVE TypeOK'
BY AgentConstants
   DEF TypeOK, Shutdown, LeoStop, Failure, Phases, diskVars, dataVars, logVars, bucketVars

LEMMA ScriptType == ASSUME TypeOK, NEW m \in Machines, Script(m) PROVE TypeOK'
<1>1. CASE Work(m)
  <2>1. made' \in 0 .. MaxResults /\ 1 .. made \subseteq 1 .. made' /\ made' \in 1 .. made'
    BY <1>1, AgentConstants DEF TypeOK, Work
  <2>2. local' \in [Machines -> SUBSET (1 .. made')]
    BY <1>1, <2>1 DEF TypeOK, Work
  <2>3. syncing' \in [Machines -> SUBSET SUBSET (1 .. made')]
    BY <1>1, <2>1 DEF TypeOK, Work
  <2>4. QED
    BY <1>1, <2>1, <2>2, <2>3 DEF TypeOK, Work, unitVars, logVars, bucketVars
<1>2. CASE Exit(m)
  BY <1>2 DEF TypeOK, Exit, StopUnit, Phases, diskVars, dataVars, logVars, bucketVars
<1>3. QED
  BY <1>1, <1>2 DEF Script

LEMMA DataLoopType == ASSUME TypeOK, NEW m \in Machines, DataLoop(m) PROVE TypeOK'
<1>1. CASE Check(m)
  BY <1>1 DEF TypeOK, Check, Loop, unitVars, logVars, bucketVars
<1>2. CASE SyncCopies(m)
  BY <1>2 DEF TypeOK, SyncCopies, SyncStep, Listing, unitVars, logVars
<1>3. CASE SyncEnds(m)
  BY <1>3 DEF TypeOK, SyncEnds, SyncStep, Listing, unitVars, logVars
<1>4. CASE SyncFails(m)
  BY <1>4, AgentConstants DEF TypeOK, SyncFails, SyncStep, Failure, unitVars, logVars
<1>5. QED
  BY <1>1, <1>2, <1>3, <1>4 DEF DataLoop

LEMMA LogLoopType == ASSUME TypeOK, NEW m \in Machines, LogLoop(m) PROVE TypeOK'
<1>1. CASE LogTurn(m)
  <2>1. LogDirectory(m) \in SUBSET Report /\ reports \ LogDirectory(m) \in SUBSET Report
    BY DEF LogDirectory, Report, TypeOK
  <2>2. logged' \in [Machines -> SUBSET Report]
    BY <1>1, <2>1 DEF LogTurn, TypeOK
  <2>3. logging' \in [Machines -> SUBSET [files : SUBSET Report, doomed : SUBSET Report]]
    BY <1>1, <2>1 DEF LogTurn, TypeOK
  <2>4. checked' \in [Machines -> SUBSET Loop]
    BY <1>1 DEF LogTurn, TypeOK, Loop
  <2>5. QED
    BY <1>1, <2>2, <2>3, <2>4 DEF TypeOK, LogTurn, unitVars, dataVars, bucketVars
<1>2. ASSUME LogStep(m), reports' \subseteq Report, failures' \in 0 .. MaxFailures,
             logging' = logging \/ logging' = [logging EXCEPT ![m] = {}]
      PROVE  TypeOK'
  BY <1>2 DEF TypeOK, LogStep, unitVars, dataVars
<1>3. Files(m) \subseteq Report
  BY DEF Files, TypeOK
<1>4. CASE LogCopies(m)
  BY <1>2, <1>3, <1>4 DEF TypeOK, LogCopies
<1>5. CASE LogEnds(m)
  BY <1>2, <1>3, <1>5 DEF TypeOK, LogEnds
<1>6. CASE LogFails(m)
  BY <1>2, <1>6, AgentConstants DEF TypeOK, LogFails, Failure
<1>7. QED
  BY <1>1, <1>4, <1>5, <1>6 DEF LogLoop

LEMMA LeaveType ==
  ASSUME TypeOK, NEW m \in Machines, Terminate(m) \/ Preempt(m) PROVE TypeOK'
<1>1. Leave(m)
  BY DEF Terminate, Preempt
<1>2. reports' \subseteq Report
  BY <1>1 DEF TypeOK, Leave
<1>3. QED
  BY <1>1, <1>2, AgentConstants DEF TypeOK, Leave, Phases

LEMMA TickType == ASSUME TypeOK, Tick PROVE TypeOK'
BY AgentConstants DEF TypeOK, Tick, diskVars, dataVars, logVars, bucketVars

\* Every variable keeps its type, whatever the parallelism.
THEOREM TypeCorrect == Spec => []TypeOK
<1>1. TypeOK /\ [Next]_vars => TypeOK'
  <2> SUFFICES ASSUME TypeOK, [Next]_vars PROVE TypeOK'
    OBVIOUS
  <2>1. CASE UNCHANGED vars
    BY <2>1 DEF TypeOK, vars, unitVars, diskVars, dataVars, logVars, bucketVars
  <2>2. CASE Next
    BY <2>2, BootType, UnitType, ShutdownType, ScriptType, DataLoopType, LogLoopType, LeaveType,
       TickType DEF Next, Cloud
  <2>3. QED
    BY <2>1, <2>2
<1>2. QED
  BY InitType, <1>1, PTL DEF Spec

------------------------------------------------------------------------------
(* The inductive invariant of a task of one machine. *)

\* The group replaces a machine only when it is gone.
AtMostOne == \A m \in Alive : \A n \in Alive : m = n

\* The loops run while the unit is there; a unit that stopped has a verdict.
UnitPhases ==
  \A m \in Machines :
    /\ IsSyncing(m) => Looping(m)
    /\ phase[m] \in {"stop", "post", "idle"} => verdict[m] # "none"

\* A machine has what is in the bucket, and so has what it synchronises.
HasBucket ==
  failures = 0 =>
    \A m \in Alive :
      /\ phase[m] # "boot" => data \subseteq local[m]
      /\ IsSyncing(m) => data \subseteq Listing(m) /\ Listing(m) \subseteq local[m]

Both(m) == {<<"status", m>>, <<"task", m>>}

\* What the log loop of a machine has of its own, and never deletes.
LogOf(m) ==
  /\ <<"status", m>> \in reports => phase[m] \in {"post", "idle", "gone"}
  /\ logged[m] \subseteq LogDirectory(m)
  /\ logged[m] # {} => Looping(m) /\ <<"task", m>> \in logged[m]
  /\ IsLogging(m) \/ "logs" \in checked[m] => logged[m] # {}
  /\ \A sync \in logging[m] :
       /\ <<"task", m>> \in sync.files /\ sync.files \subseteq LogDirectory(m)
       /\ sync.doomed \intersect Both(m) = {}

OwnLogs == \A m \in Machines : LogOf(m)

\* The status of a unit that stopped is in the bucket, and the log once the log loop
\* had its turn, which it had before the machine stops the group.
ReportsOf(m) ==
  /\ phase[m] \in {"post", "idle"} => <<"status", m>> \in reports
  /\ logged[m] # {} /\ ~IsLogging(m) => <<"task", m>> \in reports
  /\ phase[m] = "idle" => <<"task", m>> \in reports

HasReported == failures = 0 => \A m \in Machines : ReportsOf(m)

\* The machine that stopped the group reported, and is the last one there.
StoppedByLast ==
  desired = 0 /\ failures = 0 =>
    \E m \in Machines :
      /\ Both(m) \subseteq reports /\ verdict[m] # "none"
      /\ \A n \in Alive : n = m /\ phase[n] = "idle"

IInv == AtMostOne /\ UnitPhases /\ HasBucket /\ OwnLogs /\ HasReported /\ StoppedByLast

LEMMA InitIInv == Init => IInv
BY AgentConstants
   DEF Init, IInv, AtMostOne, UnitPhases, HasBucket, OwnLogs, LogOf, LogDirectory, HasReported,
       ReportsOf, StoppedByLast, Alive, IsSyncing, IsLogging, Looping

\* The log of a machine, of which nothing changes that it depends on.
LEMMA LogSame ==
  ASSUME OwnLogs, NEW m \in Machines, UNCHANGED <<logged[m], logging[m], checked[m], phase[m]>>,
         <<"status", m>> \in reports' => <<"status", m>> \in reports
  PROVE  LogOf(m)'
BY DEF OwnLogs, LogOf, LogDirectory, Looping, IsLogging, Both

\* Failures are only ever added.
LEMMA FailuresGrow == ASSUME TypeOK, [Next]_vars, failures' = 0 PROVE failures = 0
<1>1. Failure => FALSE
  BY AgentConstants DEF TypeOK, Failure
<1>2. CASE UNCHANGED vars
  BY <1>2 DEF vars
<1>3. CASE Tick
  BY <1>3 DEF Tick
<1>4. ASSUME NEW m \in Machines,
             \/ Unit(m) \/ Shutdown(m) \/ DataLoop(m) \/ LogLoop(m) \/ Script(m)
             \/ Cloud(m) \/ Preempt(m)
      PROVE  failures = 0
  BY <1>1, <1>4
     DEF Unit, Download, StartService, Expire, StopUnit, ExecStop, Shutdown, DataLoop, Check,
         SyncCopies, SyncEnds, SyncFails, LogLoop, LogTurn, LogCopies, LogEnds, LogFails, Script,
         Work, Exit, Cloud, Boot, Terminate, Preempt, Leave
<1>5. QED
  BY <1>2, <1>3, <1>4 DEF Next

\* A machine boots only when there is none.
LEMMA BootsAlone ==
  ASSUME TypeOK, Parallelism = 1, NEW m \in Machines, Boot(m)
  PROVE  Alive = {} /\ desired = 1
<1>1. IsFiniteSet(Alive)
  BY AgentConstants, FS_Subset DEF Alive
<1>2. Cardinality(Alive) \in Nat /\ Cardinality(Alive) < desired /\ desired \in {0, 1}
  BY <1>1, FS_CardinalityType DEF TypeOK, Boot
<1>3. Cardinality(Alive) = 0
  BY <1>2
<1>4. QED
  BY <1>1, <1>2, <1>3, FS_EmptySet

LEMMA BootIInv ==
  ASSUME TypeOK, IInv, Parallelism = 1, NEW m \in Machines, Boot(m)
  PROVE  IInv'
<1>1. Alive = {} /\ desired = 1
  BY BootsAlone
<1>2. /\ phase' = [phase EXCEPT ![m] = "boot"] /\ phase[m] = "none"
      /\ UNCHANGED <<verdict, syncing, local, logged, logging, checked>>
      /\ UNCHANGED <<data, reports, desired, failures>>
  BY DEF Boot, diskVars, dataVars, logVars, bucketVars
<1>3. Alive' = {m}
  BY <1>1, <1>2 DEF TypeOK, Alive
<1>4. AtMostOne'
  BY <1>3 DEF AtMostOne
<1>5. UnitPhases'
  BY <1>2 DEF TypeOK, IInv, UnitPhases, IsSyncing, Looping
<1>6. HasBucket'
  <2>1. phase'[m] = "boot" /\ ~IsSyncing(m)'
    BY <1>2, <1>5 DEF TypeOK, UnitPhases, Looping
  <2>2. QED
    BY <1>3, <2>1 DEF HasBucket
<1>7. OwnLogs'
  <2> SUFFICES ASSUME NEW n \in Machines PROVE LogOf(n)'
    BY DEF OwnLogs
  <2>1. CASE n = m
    <3>1. LogOf(m)
      BY DEF IInv, OwnLogs
    <3>2. logged[m] = {} /\ ~IsLogging(m) /\ "logs" \notin checked[m] /\ <<"status", m>> \notin reports
      BY <1>2, <3>1 DEF LogOf, Looping
    <3>3. QED
      BY <1>2, <2>1, <3>2 DEF LogOf, LogDirectory, IsLogging
  <2>2. CASE n # m
    BY <1>2, <2>2, LogSame DEF TypeOK, IInv
  <2>3. QED
    BY <2>1, <2>2
<1>8. HasReported'
  <2> SUFFICES ASSUME failures' = 0, NEW n \in Machines PROVE ReportsOf(n)'
    BY DEF HasReported
  <2>1. ReportsOf(n)
    BY <1>2 DEF IInv, HasReported
  <2>2. QED
    BY <1>2, <2>1 DEF TypeOK, ReportsOf, IsLogging
<1>9. StoppedByLast'
  BY <1>1, <1>2 DEF StoppedByLast
<1>10. QED
  BY <1>4, <1>5, <1>6, <1>7, <1>8, <1>9 DEF IInv

\* The machine that does something is the only one.
LEMMA Alone ==
  ASSUME TypeOK, AtMostOne, NEW m \in Machines, phase[m] \notin {"none", "gone"}
  PROVE  Alive = {m} /\ \A n \in Machines : n # m => phase[n] \in {"none", "gone"}
BY DEF AtMostOne, Alive

\* A step of the one machine that leaves it alive.
LEMMA StaysAlone ==
  ASSUME TypeOK, AtMostOne, NEW m \in Machines, phase[m] \notin {"none", "gone"},
         NEW p \in Phases \ {"none", "gone"}, phase' = [phase EXCEPT ![m] = p]
  PROVE  Alive' = {m} /\ AtMostOne'
BY Alone DEF TypeOK, AtMostOne, Alive

\* What happens inside a running unit, or before it, while the group is not stopped.
LEMMA NotStopped ==
  ASSUME TypeOK, IInv, NEW m \in Machines, phase[m] \notin {"none", "gone", "idle"},
         UNCHANGED desired, failures' = 0 => failures = 0
  PROVE  StoppedByLast'
BY Alone DEF IInv, StoppedByLast, Alive

\* The unit of m goes from one state to the next, and what its log loop has stays.
LEMMA LogsMove ==
  ASSUME TypeOK, IInv, NEW m \in Machines, NEW p \in {"loaded", "running", "stop", "post", "idle"},
         phase' = [phase EXCEPT ![m] = p],
         p = "loaded" => phase[m] = "boot",
         p = "running" => phase[m] = "loaded",
         p = "stop" => phase[m] = "running",
         p = "post" => phase[m] = "stop",
         p = "idle" => phase[m] = "post",
         UNCHANGED <<logged, logging>>,
         \A n \in Machines : "logs" \in checked'[n] => "logs" \in checked[n] \/ IsLogging(n),
         \A n \in Machines : <<"status", n>> \in reports' => <<"status", n>> \in reports \/ (n = m /\ p = "post")
  PROVE  OwnLogs'
<1> SUFFICES ASSUME NEW n \in Machines PROVE LogOf(n)'
  BY DEF OwnLogs
<1>1. LogOf(n)
  BY DEF IInv, OwnLogs
<1>2. CASE n # m
  BY <1>1, <1>2 DEF TypeOK, LogOf, LogDirectory, Looping, IsLogging, Both
<1>3. CASE n = m
  <2>1. phase'[m] = p
    BY DEF TypeOK
  <2>2. Looping(m) => Looping(m)'
    BY <2>1 DEF Looping
  <2>3. LogDirectory(m) \subseteq LogDirectory(m)'
    BY <2>1 DEF LogDirectory
  <2>4. (<<"status", m>> \in reports)' => phase'[m] \in {"post", "idle", "gone"}
    BY <1>1, <1>3, <2>1 DEF LogOf
  <2>5. (IsLogging(m) \/ "logs" \in checked[m])' => logged'[m] # {}
    BY <1>1, <1>3 DEF LogOf, IsLogging
  <2>6. logged'[m] # {} => Looping(m)' /\ <<"task", m>> \in logged'[m]
    BY <1>1, <1>3, <2>2 DEF LogOf
  <2>7. logged'[m] \subseteq LogDirectory(m)'
    BY <1>1, <1>3, <2>3 DEF LogOf
  <2>8. \A sync \in logging'[m] :
          /\ <<"task", m>> \in sync.files /\ sync.files \subseteq LogDirectory(m)'
          /\ sync.doomed \intersect Both(m) = {}
    BY <1>1, <1>3, <2>3 DEF LogOf
  <2>9. QED
    BY <1>3, <2>4, <2>5, <2>6, <2>7, <2>8 DEF LogOf, Both
<1>4. QED
  BY <1>2, <1>3

\* What is in the bucket of a machine's reports while the group is not stopped.
LEMMA ReportsMove ==
  ASSUME TypeOK, IInv, NEW m \in Machines, NEW p \in {"loaded", "running", "stop"},
         phase' = [phase EXCEPT ![m] = p],
         UNCHANGED <<logged, logging, reports>>, failures' = 0 => failures = 0
  PROVE  HasReported'
<1> SUFFICES ASSUME failures' = 0, NEW n \in Machines PROVE ReportsOf(n)'
  BY DEF HasReported
<1>1. ReportsOf(n)
  BY DEF IInv, HasReported
<1>2. QED
  BY <1>1 DEF TypeOK, ReportsOf, IsLogging

LEMMA BeginIInv ==
  ASSUME TypeOK, IInv, [Next]_vars, NEW m \in Machines, Download(m) \/ StartService(m)
  PROVE  IInv'
<1>1. PICK p \in {"loaded", "running"} :
        phase' = [phase EXCEPT ![m] = p] /\ phase[m] \in {"boot", "loaded"}
  BY DEF Download, StartService
<1>2. UNCHANGED <<verdict, syncing, logged, logging, checked, data, reports, desired>>
  BY DEF Download, StartService, logVars, bucketVars
<1>3. AtMostOne' /\ Alive' = {m}
  BY <1>1, StaysAlone DEF IInv, Phases
<1>4. UnitPhases'
  BY <1>1, <1>2 DEF TypeOK, IInv, UnitPhases, IsSyncing, Looping
<1>5. HasBucket'
  <2> SUFFICES ASSUME failures' = 0
               PROVE  (phase'[m] # "boot" => data \subseteq local'[m]) /\ ~IsSyncing(m)'
    BY <1>2, <1>3 DEF HasBucket
  <2>1. failures = 0
    BY FailuresGrow
  <2>2. data \subseteq local'[m]
    <3>1. CASE Download(m)
      BY <3>1, <2>1, AgentConstants DEF Download, Failure, TypeOK
    <3>2. CASE StartService(m)
      BY <3>2, <2>1 DEF StartService, IInv, HasBucket, Alive
    <3>3. QED
      BY <3>1, <3>2
  <2>3. ~IsSyncing(m)'
    BY <1>1, <1>2 DEF IInv, UnitPhases, IsSyncing, Looping
  <2>4. QED
    BY <2>2, <2>3
<1>6. HasReported'
  BY <1>1, <1>2, ReportsMove, FailuresGrow
<1>7. OwnLogs'
  <2>1. p = "loaded" => phase[m] = "boot"
    BY <1>1 DEF Download, StartService, TypeOK
  <2>2. p = "running" => phase[m] = "loaded"
    BY <1>1 DEF Download, StartService, TypeOK
  <2>3. QED
    BY <1>1, <1>2, <2>1, <2>2, LogsMove
<1>8. StoppedByLast'
  BY <1>1, <1>2, NotStopped, FailuresGrow
<1>9. QED
  BY <1>3, <1>4, <1>5, <1>6, <1>7, <1>8 DEF IInv

\* The script writes, and the unit stops.
LEMMA ScriptIInv ==
  ASSUME TypeOK, IInv, [Next]_vars, NEW m \in Machines, Script(m) \/ Expire(m)
  PROVE  IInv'
<1>1. CASE Work(m)
  <2>1. /\ UNCHANGED <<unitVars, syncing, logVars, checked, desired, data, reports, failures>>
        /\ phase[m] \in {"running", "stop"}
        /\ \A n \in Machines : local[n] \subseteq local'[n]
    BY <1>1 DEF Work, TypeOK, bucketVars
  <2>2. AtMostOne' /\ UnitPhases' /\ HasReported' /\ OwnLogs'
    <3>1. AtMostOne' /\ UnitPhases'
      BY <2>1 DEF IInv, AtMostOne, UnitPhases, Alive, IsSyncing, Looping, unitVars
    <3>2. HasReported'
      BY <2>1 DEF IInv, HasReported, ReportsOf, IsLogging, unitVars, logVars
    <3>3. OwnLogs'
      BY <2>1, LogSame DEF IInv, OwnLogs, unitVars, logVars
    <3>4. QED
      BY <3>1, <3>2, <3>3
  <2>3. HasBucket'
    BY <2>1 DEF IInv, HasBucket, Alive, IsSyncing, Listing, unitVars
  <2>4. StoppedByLast'
    BY <2>1, NotStopped
  <2>5. QED
    BY <2>2, <2>3, <2>4 DEF IInv
<1>2. ASSUME NEW v \in {"success", "failure", "timeout"}, StopUnit(m, v)
      PROVE  IInv'
  <2>1. /\ phase' = [phase EXCEPT ![m] = "stop"] /\ phase[m] = "running"
        /\ verdict' = [verdict EXCEPT ![m] = v]
        /\ UNCHANGED <<syncing, local, logged, logging, checked, desired, data, reports, failures>>
    BY <1>2 DEF StopUnit, diskVars, dataVars, logVars, bucketVars
  <2>2. AtMostOne' /\ Alive' = {m} /\ Alive = {m}
    BY <2>1, StaysAlone, Alone DEF IInv, Phases
  <2>3. UnitPhases'
    BY <2>1 DEF TypeOK, IInv, UnitPhases, IsSyncing, Looping
  <2>4. HasBucket'
    BY <2>1, <2>2 DEF IInv, HasBucket, IsSyncing, Listing
  <2>5. HasReported'
    BY <2>1, ReportsMove
  <2>6. OwnLogs'
    BY <2>1, LogsMove
  <2>7. StoppedByLast'
    BY <2>1, NotStopped
  <2>8. QED
    BY <2>2, <2>3, <2>4, <2>5, <2>6, <2>7 DEF IInv
<1>3. QED
  BY <1>1, <1>2 DEF Script, Exit, Expire

\* ExecStop reports, or fails.
LEMMA ExecStopIInv ==
  ASSUME TypeOK, IInv, [Next]_vars, NEW m \in Machines, ExecStop(m)
  PROVE  IInv'
<1>1. /\ phase' = [phase EXCEPT ![m] = "post"] /\ phase[m] = "stop"
      /\ checked' = [checked EXCEPT ![m] = Rclones(m)]
      /\ UNCHANGED <<verdict, syncing, local, logged, logging, desired, data>>
  BY DEF ExecStop, dataVars, logVars
<1>2. AtMostOne' /\ Alive' = {m} /\ Alive = {m}
  BY <1>1, StaysAlone, Alone DEF IInv, Phases
<1>3. UnitPhases'
  BY <1>1 DEF TypeOK, IInv, UnitPhases, IsSyncing, Looping
<1>4. HasBucket'
  BY <1>1, <1>2, FailuresGrow DEF IInv, HasBucket, IsSyncing, Listing
<1>5. OwnLogs'
  <2>1. logged[m] \subseteq {<<"task", m>>}
    BY <1>1 DEF IInv, OwnLogs, LogOf, LogDirectory
  <2>2. \A n \in Machines : <<"status", n>> \in reports' => <<"status", n>> \in reports \/ n = m
    BY <2>1 DEF ExecStop
  <2>3. \A n \in Machines : "logs" \in checked'[n] => "logs" \in checked[n] \/ IsLogging(n)
    BY <1>1 DEF TypeOK, Rclones
  <2>4. QED
    BY <1>1, <2>2, <2>3, LogsMove
<1>6. HasReported'
  <2> SUFFICES ASSUME failures' = 0, NEW n \in Machines PROVE ReportsOf(n)'
    BY DEF HasReported
  <2>1. failures = 0 /\ ~Failure
    BY FailuresGrow, AgentConstants DEF Failure, TypeOK
  <2>2. reports' = reports \union {<<"status", m>>} \union logged[m]
    BY <2>1 DEF ExecStop
  <2>3. ReportsOf(n)
    BY <2>1 DEF IInv, HasReported
  <2>4. n # m => phase'[n] = phase[n]
    BY <1>1 DEF TypeOK
  <2>5. phase'[m] = "post"
    BY <1>1 DEF TypeOK
  <2>6. QED
    BY <1>1, <2>2, <2>3, <2>4, <2>5 DEF ReportsOf, IsLogging
<1>7. StoppedByLast'
  BY <1>1, NotStopped, FailuresGrow
<1>8. QED
  BY <1>2, <1>3, <1>4, <1>5, <1>6, <1>7 DEF IInv

\* leo stop: the machine has reported, and there is no other.
LEMMA ShutdownIInv ==
  ASSUME TypeOK, IInv, [Next]_vars, NEW m \in Machines, Shutdown(m)
  PROVE  IInv'
<1>1. /\ phase' = [phase EXCEPT ![m] = "idle"] /\ phase[m] = "post"
      /\ UNCHANGED <<verdict, syncing, local, logged, logging, checked, data, reports>>
  BY DEF Shutdown, diskVars, dataVars, logVars, bucketVars
<1>2. AtMostOne' /\ Alive' = {m} /\ Alive = {m}
  BY <1>1, StaysAlone, Alone DEF IInv, Phases
<1>3. UnitPhases'
  BY <1>1 DEF TypeOK, IInv, UnitPhases, IsSyncing, Looping
<1>4. HasBucket'
  BY <1>1, <1>2, FailuresGrow DEF IInv, HasBucket, IsSyncing, Listing
<1>5. OwnLogs'
  BY <1>1, LogsMove
<1>6. ~IsLogging(m) /\ logged[m] # {}
  <2>1. checked[m] = Loop /\ Rclones(m) = {} /\ LogOf(m)
    BY DEF Shutdown, IInv, OwnLogs
  <2>2. "logs" \in Loop /\ "logs" # "data"
    BY DEF Loop
  <2>3. IsLogging(m) => "logs" \in Rclones(m)
    BY <2>2 DEF Rclones
  <2>4. QED
    BY <2>1, <2>2, <2>3 DEF LogOf
<1>7. failures = 0 => Both(m) \subseteq reports
  BY <1>1, <1>6 DEF IInv, HasReported, ReportsOf, Both
<1>8. HasReported'
  <2> SUFFICES ASSUME failures' = 0, NEW n \in Machines PROVE ReportsOf(n)'
    BY DEF HasReported
  <2>1. ReportsOf(n)
    BY FailuresGrow DEF IInv, HasReported
  <2>2. CASE n = m
    BY <1>1, <1>7, <2>1, <2>2, FailuresGrow DEF ReportsOf, Both, IsLogging
  <2>3. CASE n # m
    BY <1>1, <2>1, <2>3 DEF TypeOK, ReportsOf, IsLogging
  <2>4. QED
    BY <2>2, <2>3
<1>9. StoppedByLast'
  <2> SUFFICES ASSUME failures' = 0
               PROVE  /\ Both(m) \subseteq reports' /\ verdict'[m] # "none"
                      /\ \A n \in Alive' : n = m /\ phase'[n] = "idle"
    BY DEF StoppedByLast, Both
  <2>1. Both(m) \subseteq reports /\ verdict[m] # "none"
    BY <1>1, <1>7, FailuresGrow DEF IInv, UnitPhases
  <2>2. QED
    BY <2>1, <1>1, <1>2 DEF TypeOK
<1>10. QED
  BY <1>2, <1>3, <1>4, <1>5, <1>8, <1>9 DEF IInv

\* The data loop.
LEMMA LoopIInv ==
  ASSUME TypeOK, IInv, [Next]_vars, NEW m \in Machines, DataLoop(m)
  PROVE  IInv'
<1>1. /\ UNCHANGED <<unitVars, local, logVars, desired, reports>> /\ Looping(m)
      /\ \A n \in Machines : n # m => syncing'[n] = syncing[n]
      /\ \A n \in Machines : "logs" \in checked'[n] => "logs" \in checked[n]
  BY DEF DataLoop, Check, SyncCopies, SyncEnds, SyncFails, SyncStep, bucketVars, TypeOK
<1>2. Alive' = {m} /\ Alive = {m} /\ AtMostOne'
  BY <1>1, Alone DEF IInv, Looping, Alive, unitVars, AtMostOne
<1>3. UnitPhases' /\ HasReported' /\ OwnLogs' /\ StoppedByLast'
  <2>1. UnitPhases'
    BY <1>1 DEF IInv, UnitPhases, IsSyncing, Looping, unitVars
  <2>2. HasReported'
    BY <1>1, FailuresGrow DEF IInv, HasReported, ReportsOf, IsLogging, unitVars, logVars
  <2>3. OwnLogs'
    BY <1>1 DEF IInv, OwnLogs, LogOf, LogDirectory, IsLogging, Looping, Both, unitVars, logVars
  <2>4. StoppedByLast'
    BY <1>1, FailuresGrow DEF IInv, StoppedByLast, Both, Alive, unitVars
  <2>5. QED
    BY <2>1, <2>2, <2>3, <2>4
<1>4. HasBucket'
  <2> SUFFICES ASSUME failures' = 0
               PROVE  /\ phase'[m] # "boot" => data' \subseteq local'[m]
                      /\ IsSyncing(m)' => data' \subseteq Listing(m)' /\ Listing(m)' \subseteq local'[m]
    BY <1>2 DEF HasBucket
  <2>1. /\ failures = 0 /\ ~Failure /\ data \subseteq local[m]
        /\ IsSyncing(m) => data \subseteq Listing(m) /\ Listing(m) \subseteq local[m]
    BY <1>1, <1>2, FailuresGrow, AgentConstants DEF Failure, TypeOK, IInv, HasBucket, Looping
  <2>2. CASE Check(m)
    BY <2>1, <2>2 DEF Check, IsSyncing, Listing, TypeOK, bucketVars
  <2>3. CASE SyncCopies(m)
    BY <2>1, <2>3 DEF SyncCopies, SyncStep, IsSyncing, Listing
  <2>4. CASE SyncEnds(m)
    BY <2>1, <2>4 DEF SyncEnds, SyncStep, IsSyncing, Listing, TypeOK
  <2>5. QED
    BY <2>1, <2>2, <2>3, <2>4 DEF DataLoop, SyncFails
<1>5. QED
  BY <1>2, <1>3, <1>4 DEF IInv

\* The log loop deletes the reports of others, and adds those of its machine.
LEMMA LogLoopIInv ==
  ASSUME TypeOK, IInv, [Next]_vars, NEW m \in Machines, LogLoop(m)
  PROVE  IInv'
<1>1. /\ UNCHANGED <<unitVars, dataVars, desired, data>> /\ Looping(m)
      /\ \A n \in Machines : n # m => /\ logged'[n] = logged[n] /\ logging'[n] = logging[n]
                                      /\ checked'[n] = checked[n]
  BY DEF LogLoop, LogTurn, LogCopies, LogEnds, LogFails, LogStep, TypeOK, bucketVars
<1>2. Alive' = {m} /\ Alive = {m} /\ AtMostOne'
  BY <1>1, Alone DEF IInv, Looping, Alive, unitVars, AtMostOne
<1>3. UnitPhases' /\ HasBucket'
  BY <1>1, FailuresGrow
     DEF IInv, UnitPhases, HasBucket, IsSyncing, Listing, Looping, Alive, unitVars, dataVars
<1>4. /\ LogOf(m) /\ <<"task", m>> \in LogDirectory(m) /\ LogDirectory(m) \subseteq Both(m)
      /\ LogDirectory(m)' = LogDirectory(m)
  BY <1>1 DEF IInv, OwnLogs, LogDirectory, Both, unitVars
<1>5. \A sync \in logging[m] : /\ <<"task", m>> \in sync.files /\ sync.files \subseteq LogDirectory(m)
                               /\ sync.doomed \intersect Both(m) = {}
  BY <1>4 DEF LogOf
<1>6. Files(m) \subseteq LogDirectory(m) /\ Doomed(m) \intersect Both(m) = {}
  BY <1>5 DEF Files, Doomed
<1>7. /\ reports \intersect Both(m) \subseteq reports'
      /\ reports' \subseteq reports \union LogDirectory(m)
  BY <1>6 DEF LogLoop, LogTurn, LogCopies, LogEnds, LogFails, bucketVars
<1>8. <<"status", m>> \in reports' => phase[m] \in {"post", "idle", "gone"}
  BY <1>4, <1>7 DEF LogOf, LogDirectory
<1>9. ASSUME LogTurn(m)
      PROVE  LogOf(m)' /\ (failures' = 0 => ReportsOf(m)')
  <2>1. /\ logged'[m] = LogDirectory(m) /\ reports' = reports
        /\ failures' = failures
        /\ \/ logging'[m] = {[files |-> LogDirectory(m), doomed |-> reports \ LogDirectory(m)]}
           \/ logged[m] = LogDirectory(m) /\ logging'[m] = logging[m]
        /\ ~IsLogging(m)
    BY <1>9 DEF LogTurn, TypeOK, bucketVars
  <2>2. (reports \ LogDirectory(m)) \intersect Both(m) = {}
    <3>1. <<"status", m>> \in reports => <<"status", m>> \in LogDirectory(m)
      BY <1>1, <1>4 DEF LogOf, LogDirectory, Looping
    <3>2. QED
      BY <1>4, <3>1 DEF Both
  <2>3. LogOf(m)'
    <3>1. \A sync \in logging'[m] :
            /\ <<"task", m>> \in sync.files /\ sync.files \subseteq LogDirectory(m)
            /\ sync.doomed \intersect Both(m) = {}
      BY <1>4, <1>5, <2>1, <2>2
    <3>2. Looping(m)' /\ logged'[m] # {} /\ (<<"status", m>> \in reports' => phase'[m] \in {"post", "idle", "gone"})
      BY <1>1, <1>4, <1>8, <2>1 DEF Looping, unitVars
    <3>3. QED
      BY <1>4, <2>1, <3>1, <3>2 DEF LogOf, Both
  <2>4. failures = 0 => ReportsOf(m)'
    <3> SUFFICES ASSUME failures = 0 PROVE ReportsOf(m)'
      OBVIOUS
    <3>1. ReportsOf(m)
      BY DEF IInv, HasReported
    <3>2. ~IsLogging(m)' => <<"task", m>> \in reports
      BY <1>4, <2>1, <3>1 DEF ReportsOf, IsLogging
    <3>3. QED
      BY <1>1, <2>1, <3>1, <3>2 DEF ReportsOf, unitVars
  <2>5. QED
    BY <2>1, <2>3, <2>4
<1>10. ASSUME LogCopies(m) \/ LogEnds(m) \/ LogFails(m)
       PROVE  LogOf(m)' /\ (failures' = 0 => ReportsOf(m)')
  <2>1. /\ logged'[m] = logged[m] /\ checked'[m] = checked[m] /\ IsLogging(m)
        /\ logging'[m] \subseteq logging[m]
    BY <1>10 DEF LogCopies, LogEnds, LogFails, LogStep, TypeOK
  <2>2. LogOf(m)'
    <3>1. Looping(m)' = Looping(m) /\ phase'[m] = phase[m]
      BY <1>1 DEF Looping, unitVars
    <3>2. IsLogging(m)' => IsLogging(m)
      BY <2>1 DEF IsLogging
    <3>3. QED
      BY <1>4, <1>8, <2>1, <3>1, <3>2 DEF LogOf, Both
  <2>3. failures' = 0 => ReportsOf(m)'
    <3> SUFFICES ASSUME failures' = 0 PROVE ReportsOf(m)'
      OBVIOUS
    <3>1. ReportsOf(m) /\ failures = 0 /\ ~Failure
      BY FailuresGrow, AgentConstants DEF IInv, HasReported, Failure, TypeOK
    <3>2. CASE LogCopies(m)
      <4>1. IsLogging(m)'
        BY <2>1, <3>2 DEF LogCopies, IsLogging
      <4>2. QED
        BY <1>1, <1>7, <3>1, <4>1 DEF ReportsOf, Both, unitVars
    <3>3. CASE LogEnds(m)
      <4>1. <<"task", m>> \in Files(m)
        BY <1>5, <2>1 DEF Files, IsLogging
      <4>2. <<"task", m>> \in reports'
        BY <1>6, <3>3, <4>1 DEF LogEnds, Both
      <4>3. QED
        BY <1>1, <1>7, <3>1, <4>2 DEF ReportsOf, Both, unitVars
    <3>4. QED
      BY <1>10, <3>1, <3>2, <3>3 DEF LogFails
  <2>4. QED
    BY <2>2, <2>3
<1>11. LogOf(m)' /\ (failures' = 0 => ReportsOf(m)')
  BY <1>9, <1>10 DEF LogLoop
<1>12. ASSUME NEW n \in Machines, n # m
       PROVE  LogOf(n)' /\ (failures' = 0 => ReportsOf(n)')
  <2>1. phase[n] \in {"none", "gone"} /\ phase'[n] = phase[n]
    BY <1>1, <1>12, Alone DEF IInv, Looping, unitVars
  <2>2. LogOf(n) /\ ~Looping(n)
    BY <2>1 DEF IInv, OwnLogs, Looping
  <2>3. logged[n] = {} /\ ~IsLogging(n)
    BY <2>2 DEF LogOf
  <2>4. <<"status", n>> \in reports' => <<"status", n>> \in reports
    BY <1>7, <1>12 DEF LogDirectory
  <2>5. LogOf(n)'
    BY <1>1, <1>12, <2>1, <2>4, LogSame DEF IInv
  <2>6. ReportsOf(n)'
    BY <1>1, <1>12, <2>1, <2>3 DEF ReportsOf
  <2>7. QED
    BY <2>5, <2>6
<1>13. OwnLogs' /\ HasReported'
  BY <1>11, <1>12 DEF OwnLogs, HasReported
<1>14. StoppedByLast'
  <2> SUFFICES ASSUME desired' = 0, failures' = 0
               PROVE  \E k \in Machines :
                        /\ Both(k) \subseteq reports' /\ verdict'[k] # "none"
                        /\ \A n \in Alive' : n = k /\ phase'[n] = "idle"
    BY DEF StoppedByLast, Both
  <2>1. PICK k \in Machines : /\ Both(k) \subseteq reports /\ verdict[k] # "none"
                              /\ \A n \in Alive : n = k /\ phase[n] = "idle"
    BY <1>1, FailuresGrow DEF IInv, StoppedByLast
  <2>2. k = m
    BY <1>2, <2>1
  <2>3. QED
    BY <1>1, <1>2, <1>7, <2>1, <2>2 DEF unitVars
<1>15. QED
  BY <1>2, <1>3, <1>13, <1>14 DEF IInv

\* The machine goes; its reports stay.
LEMMA LeaveIInv ==
  ASSUME TypeOK, IInv, [Next]_vars, NEW m \in Machines, Terminate(m) \/ Preempt(m)
  PROVE  IInv'
<1>1. /\ m \in Alive /\ phase' = [phase EXCEPT ![m] = "gone"]
      /\ syncing' = [syncing EXCEPT ![m] = {}]
      /\ logged' = [logged EXCEPT ![m] = {}] /\ logging' = [logging EXCEPT ![m] = {}]
      /\ checked' = [checked EXCEPT ![m] = {}]
      /\ UNCHANGED <<verdict, desired, data, failures>>
      /\ reports' = reports \/ (reports' = reports \union logged[m] /\ phase[m] \in {"running", "stop"})
  BY DEF Terminate, Preempt, Leave
<1>2. Alive = {m} /\ Alive' = {}
  BY <1>1, Alone DEF IInv, Alive, TypeOK
<1>3. AtMostOne' /\ HasBucket'
  BY <1>2 DEF AtMostOne, HasBucket
<1>4. UnitPhases'
  BY <1>1 DEF TypeOK, IInv, UnitPhases, IsSyncing, Looping
<1>5. ASSUME NEW n \in Machines
      PROVE  LogOf(n)' /\ ReportsOf(n)'
  <2>1. logged'[n] = {} /\ logging'[n] = {} /\ "logs" \notin checked'[n]
    <3>1. CASE n = m
      BY <1>1, <3>1 DEF TypeOK
    <3>2. CASE n # m
      <4>1. LogOf(n) /\ phase[n] \in {"none", "gone"}
        BY <1>1, <3>2, Alone DEF IInv, OwnLogs, Alive
      <4>2. logged[n] = {} /\ ~IsLogging(n) /\ "logs" \notin checked[n]
        BY <4>1 DEF LogOf, Looping
      <4>3. QED
        BY <1>1, <3>2, <4>2 DEF TypeOK, IsLogging
    <3>3. QED
      BY <3>1, <3>2
  <2>2. phase'[n] \in {"none", "gone"}
    BY <1>1, <1>2 DEF TypeOK, Alive
  <2>3. <<"status", n>> \in reports' => phase'[n] = "gone"
    <3>1. CASE n = m
      BY <1>1, <3>1 DEF TypeOK
    <3>2. CASE n # m
      <4>1. logged[m] \subseteq LogDirectory(m) /\ LogOf(n)
        BY DEF IInv, OwnLogs, LogOf
      <4>2. <<"status", n>> \in reports' => <<"status", n>> \in reports
        BY <1>1, <3>2, <4>1 DEF LogDirectory
      <4>3. phase'[n] = phase[n]
        BY <1>1, <3>2 DEF TypeOK
      <4>4. QED
        BY <2>2, <4>1, <4>2, <4>3 DEF LogOf
    <3>3. QED
      BY <3>1, <3>2
  <2>4. LogOf(n)'
    BY <2>1, <2>3 DEF LogOf, IsLogging
  <2>5. QED
    BY <2>1, <2>2, <2>4 DEF ReportsOf
<1>6. OwnLogs' /\ HasReported'
  BY <1>5 DEF OwnLogs, HasReported
<1>7. StoppedByLast'
  BY <1>1, <1>2 DEF IInv, StoppedByLast, Both
<1>8. QED
  BY <1>3, <1>4, <1>6, <1>7 DEF IInv

LEMMA TickIInv == ASSUME TypeOK, IInv, Tick PROVE IInv'
<1>1. /\ UNCHANGED <<phase, verdict, local, syncing, logged, logging, checked>>
      /\ UNCHANGED <<desired, data, reports, failures>>
  BY DEF Tick, diskVars, dataVars, logVars, bucketVars
<1>2. AtMostOne' /\ UnitPhases' /\ HasBucket' /\ StoppedByLast'
  BY <1>1 DEF IInv, AtMostOne, UnitPhases, HasBucket, StoppedByLast, Both, Alive, IsSyncing,
              Looping, Listing
<1>3. HasReported' /\ OwnLogs'
  BY <1>1, LogSame DEF IInv, OwnLogs, HasReported, ReportsOf, IsLogging
<1>4. QED
  BY <1>2, <1>3 DEF IInv

LEMMA StepIInv ==
  ASSUME TypeOK, IInv, Parallelism = 1, [Next]_vars
  PROVE  IInv'
<1>1. CASE UNCHANGED vars
  <2>1. /\ UNCHANGED <<phase, verdict, local, syncing, logged, logging, checked>>
        /\ UNCHANGED <<desired, data, reports, failures>>
    BY <1>1 DEF vars, unitVars, diskVars, dataVars, logVars, bucketVars
  <2>2. AtMostOne' /\ UnitPhases' /\ HasBucket' /\ StoppedByLast'
    BY <2>1 DEF IInv, AtMostOne, UnitPhases, HasBucket, StoppedByLast, Both, Alive, IsSyncing,
                Looping, Listing
  <2>3. HasReported' /\ OwnLogs'
    BY <2>1, LogSame DEF IInv, OwnLogs, HasReported, ReportsOf, IsLogging
  <2>4. QED
    BY <2>2, <2>3 DEF IInv
<1>2. ASSUME NEW m \in Machines, Unit(m) \/ Shutdown(m) \/ Script(m) PROVE IInv'
  BY <1>2, BeginIInv, ScriptIInv, ExecStopIInv, ShutdownIInv DEF Unit
<1>3. ASSUME NEW m \in Machines, DataLoop(m) \/ LogLoop(m) \/ Cloud(m) \/ Preempt(m) PROVE IInv'
  BY <1>3, LoopIInv, LogLoopIInv, BootIInv, LeaveIInv DEF Cloud
<1>4. QED
  BY <1>1, <1>2, <1>3, TickIInv DEF Next

------------------------------------------------------------------------------
(* Theorems. *)

\* With one machine at a time the inductive invariant holds.
THEOREM InductiveInvariant ==
  ASSUME Parallelism = 1
  PROVE  Spec => [](TypeOK /\ IInv)
<1>1. Init => IInv
  BY InitIInv
<1>2. TypeOK /\ IInv /\ [Next]_vars => IInv'
  BY StepIInv
<1>3. QED
  BY <1>1, <1>2, TypeCorrect, PTL DEF Spec

\* When the one machine of a task has stopped the group and no transfer failed, the
\* status tells that it ended, also after the machine is gone, whatever its log loop
\* deletes (machine-script.sh.tpl:10-14 and 145-153, machine.Status).
THEOREM StoppedIsReportedHolds ==
  ASSUME Parallelism = 1
  PROVE  Spec => []StoppedIsReported
<1>1. TypeOK /\ IInv => StoppedIsReported
  <2> SUFFICES ASSUME TypeOK, IInv, desired = 0, failures = 0
               PROVE  Status.succeeded + Status.failed > 0
    BY DEF StoppedIsReported
  <2> DEFINE Good == Reported("success")
             Bad  == Reported("failure") \union Reported("timeout")
  <2>1. IsFiniteSet(Good) /\ IsFiniteSet(Bad)
    BY AgentConstants, FS_Subset DEF Reported
  <2>2. PICK m \in Machines : <<"status", m>> \in reports /\ verdict[m] # "none"
    BY DEF IInv, StoppedByLast, Both
  <2>3. m \in Good \/ m \in Bad
    BY <2>2 DEF Reported, TypeOK
  <2>4. Cardinality(Good) \in Nat /\ Cardinality(Bad) \in Nat
    BY <2>1, FS_CardinalityType
  <2>5. Cardinality(Good) # 0 \/ Cardinality(Bad) # 0
    BY <2>1, <2>3, FS_EmptySet
  <2>6. Status.succeeded = Cardinality(Good) /\ Status.failed = Cardinality(Bad)
    BY DEF Status
  <2>7. QED
    BY <2>4, <2>5, <2>6
<1>2. QED
  BY <1>1, InductiveInvariant, PTL

\* The one machine of a task does not stop the group before its log is in the bucket,
\* however short its script, and the log stays there when the machine is gone, unless
\* a transfer failed (machine-script.sh.tpl:10-14, 86 and 145-153).
THEOREM OneLogHolds ==
  ASSUME Parallelism = 1
  PROVE  Spec => []OneLogPerMachine
<1>1. IInv => OneLogPerMachine
  BY DEF IInv, HasReported, ReportsOf, StoppedByLast, Both, OneLogPerMachine
<1>2. QED
  BY <1>1, InductiveInvariant, PTL

\* No sync of a machine, and of none that replaces it, takes a result out of the
\* bucket, unless a transfer failed (machine-script.sh.tpl:120-160).
THEOREM ResultsStayHolds ==
  ASSUME Parallelism = 1
  PROVE  Spec => ResultsStay
<1>1. ASSUME TypeOK, IInv, [Next]_vars, failures' = 0
      PROVE  data \subseteq data'
  <2>1. failures = 0
    BY <1>1, FailuresGrow
  <2>2. ASSUME NEW m \in Machines, SyncEnds(m)
        PROVE  data \subseteq data'
    <3>1. m \in Alive /\ IsSyncing(m) /\ data' = Listing(m)
      BY <2>2 DEF SyncEnds, SyncStep, Looping, Alive
    <3>2. QED
      BY <1>1, <2>1, <3>1 DEF IInv, HasBucket
  <2>3. ASSUME NEW m \in Machines, SyncCopies(m)
        PROVE  data \subseteq data'
    BY <2>3 DEF SyncCopies
  <2>4. ASSUME NEW m \in Machines,
               \/ Unit(m) \/ Shutdown(m) \/ Check(m) \/ SyncFails(m) \/ LogLoop(m) \/ Script(m)
               \/ Cloud(m) \/ Preempt(m)
        PROVE  data' = data
    BY <2>4
       DEF Unit, Download, StartService, Expire, StopUnit, ExecStop, Shutdown, Check, SyncFails,
           LogLoop, LogTurn, LogCopies, LogEnds, LogFails, LogStep, Script, Work, Exit, Cloud, Boot,
           Terminate, Preempt, Leave, bucketVars
  <2>5. QED
    BY <1>1, <2>2, <2>3, <2>4 DEF Next, Tick, DataLoop, vars, bucketVars
<1>2. TypeOK /\ IInv /\ [Next]_vars => [failures' = 0 => data \subseteq data']_vars
  BY <1>1
<1>3. QED
  BY <1>2, InductiveInvariant, PTL DEF Spec, ResultsStay

\* The one machine of a task stops the group only when its script has ended
\* (machine-script.sh.tpl:10-14); with two machines this is false.
THEOREM RunsToCompletionHolds ==
  ASSUME Parallelism = 1
  PROVE  Spec => RunsToCompletion
<1> DEFINE Ended == desired > 0 /\ desired' = 0 => \A m \in Machines : phase[m] # "running"
<1>1. ASSUME TypeOK, IInv, [Next]_vars, desired > 0, desired' = 0
      PROVE  \A m \in Machines : phase[m] # "running"
  <2>1. ASSUME NEW m \in Machines, Shutdown(m)
        PROVE  \A n \in Machines : phase[n] # "running"
    BY <1>1, <2>1, Alone DEF Shutdown, IInv
  <2>2. ASSUME NEW m \in Machines, ~Shutdown(m),
               \/ Unit(m) \/ DataLoop(m) \/ LogLoop(m) \/ Script(m) \/ Cloud(m) \/ Preempt(m)
        PROVE  desired' = desired
    BY <2>2
       DEF Unit, Download, StartService, Expire, StopUnit, ExecStop, DataLoop, Check, SyncCopies,
           SyncEnds, SyncFails, SyncStep, LogLoop, LogTurn, LogCopies, LogEnds, LogFails, LogStep,
           Script, Work, Exit, Cloud, Boot, Terminate, Preempt, Leave
  <2>3. desired' # desired
    BY <1>1
  <2>4. QED
    BY <1>1, <2>1, <2>2, <2>3 DEF Next, Tick, vars
<1>2. TypeOK /\ IInv /\ [Next]_vars => [Ended]_vars
  BY <1>1
<1>3. QED
  BY <1>2, InductiveInvariant, PTL DEF Spec, RunsToCompletion
=============================================================================
