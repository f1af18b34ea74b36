----------------------------- MODULE MachineAgent -----------------------------
(***************************************************************************)
(* What runs on the machines of a task: the script that                    *)
(* task/common/machine/machine-script.sh.tpl renders into the user data,   *)
(* the tpi-task unit it installs, its two synchronisation loops, and       *)
(* `leo stop`, with which a machine stops the whole group.  The cloud's    *)
(* group replaces machines that disappear and takes away those in excess;  *)
(* the bucket of the task is all that machines share.                      *)
(***************************************************************************)
EXTENDS Integers, FiniteSets

CONSTANTS
  Machines,           \* identities (uuidgen), one for every boot
  Parallelism,        \* attribute parallelism
  Timeout,            \* attribute timeout, in ticks
  MaxResults,         \* bound: results the scripts write in one behaviour
  MaxFailures         \* bound: transfers and leo stops that fail

ASSUME AgentConstants ==
  /\ IsFiniteSet(Machines)
  /\ {Parallelism, Timeout, MaxResults, MaxFailures} \subseteq Nat
  /\ Parallelism > 0 /\ Timeout > 0

VARIABLES
  phase,      \* phase[m], see Phases
  runs,       \* runs[m]: the unit runs the task's script, not sleep infinity
  limit,      \* limit[m]: what is left of the unit's RuntimeMaxSec
  local,      \* local[m]: results in m's data directory
  dirty,      \* dirty[m]: the directory is newer than TPI_DATA_DIRECTORY_EPOCH
  syncing,    \* syncing[m]: the source listing of the rclone sync that runs, if one does
  logged,     \* logged[m]: files in TPI_LOG_DIRECTORY at the log loop's last turn
  logging,    \* logging[m]: the listings of the log loop's rclone sync, if one runs
  checked,    \* checked[m]: loops that had their turn since the unit stopped
  verdict,    \* verdict[m]: how the unit ended: none, success, failure, timeout
  desired,    \* capacity the group is set to
  left,       \* time left to the deadline rendered into the script
  data,       \* results in the bucket
  reports,    \* files under reports in the bucket: <<kind, machine>>
  made,       \* results written so far
  failures    \* failures so far

unitVars   == <<phase, runs, limit, verdict>>
dataVars   == <<local, dirty, syncing>>
logVars    == <<logged, logging>>
diskVars   == <<dataVars, logVars, checked>>
bucketVars == <<data, reports>>
vars == <<unitVars, diskVars, desired, left, bucketVars, made, failures>>

\* none: not booted yet; boot: before the workdir is downloaded; loaded: before
\* systemctl enable --now; running, stop (ExecStop), post (ExecStopPost), idle:
\* states of the unit; gone: the machine is terminated.
Phases == {"none", "boot", "loaded", "running", "stop", "post", "idle", "gone"}

Alive   == {m \in Machines : phase[m] \notin {"none", "gone"}}
Spare   == {m \in Machines : phase[m] = "none"}
Looping(m) == phase[m] \in {"running", "stop", "post", "idle"}
IsSyncing(m) == syncing[m] # {}
IsLogging(m) == logging[m] # {}
Loop == {"data", "logs"}
Rclones(m) == {loop \in Loop : IF loop = "data" THEN IsSyncing(m) ELSE IsLogging(m)}

\* A transfer fails, or leo stop does.
Failure == failures < MaxFailures /\ failures' = failures + 1

Init ==
  /\ phase = [m \in Machines |-> "none"]
  /\ runs = [m \in Machines |-> FALSE] /\ limit = [m \in Machines |-> 0]
  /\ local = [m \in Machines |-> {}] /\ dirty = [m \in Machines |-> FALSE]
  /\ syncing = [m \in Machines |-> {}] /\ checked = [m \in Machines |-> {}]
  /\ logged = [m \in Machines |-> {}] /\ logging = [m \in Machines |-> {}]
  /\ verdict = [m \in Machines |-> "none"]
  /\ desired = Parallelism /\ left = Timeout
  /\ data = {} /\ reports = {} /\ made = 0 /\ failures = 0

------------------------------------------------------------------------------
(* Boot. *)

\* Fault: a machine in excess.
BootEarly(m) ==
  /\ phase[m] = "none" /\ Cardinality(Alive) <= desired
  /\ phase' = [phase EXCEPT ![m] = "boot"]
  /\ runs' = [runs EXCEPT ![m] = left > 0]
  /\ limit' = [limit EXCEPT ![m] = IF left > 0 THEN left ELSE 1]
  /\ UNCHANGED <<verdict, diskVars, desired, left, bucketVars, made, failures>>

\* The countdown is to a date that was fixed when the launch template was made;
\* when it has passed already the unit sleeps, for a second.
Boot(m) ==
  /\ phase[m] = "none" /\ Cardinality(Alive) < desired
  /\ phase' = [phase EXCEPT ![m] = "boot"]
  /\ runs' = [runs EXCEPT ![m] = left > 0]
  /\ limit' = [limit EXCEPT ![m] = IF left > 0 THEN left ELSE 1]
  /\ UNCHANGED <<verdict, diskVars, desired, left, bucketVars, made, failures>>

\* Fault: no download at all.
DownloadNothing(m) ==
  /\ phase[m] = "boot"
  /\ phase' = [phase EXCEPT ![m] = "loaded"]
  /\ UNCHANGED <<runs, limit, verdict, diskVars, desired, left, bucketVars, made, failures>>

\* rclone copy of the data; nothing looks at its exit status, so that a copy that
\* failed half-way counts as a complete one.
Download(m) ==
  /\ phase[m] = "boot"
  /\ phase' = [phase EXCEPT ![m] = "loaded"]
  /\ \/ local' = [local EXCEPT ![m] = data] /\ UNCHANGED failures
     \/ \E part \in SUBSET data : local' = [local EXCEPT ![m] = part] /\ Failure
  /\ UNCHANGED <<runs, limit, verdict, dirty, syncing, logVars, checked>>
  /\ UNCHANGED <<desired, left, bucketVars, made>>

\* systemctl enable --now, and the loops; their first turn finds no previous epoch.
StartService(m) ==
  /\ phase[m] = "loaded"
  /\ phase' = [phase EXCEPT ![m] = "running"]
  /\ dirty' = [dirty EXCEPT ![m] = TRUE]
  /\ UNCHANGED <<runs, limit, verdict, local, syncing, logVars, checked>>
  /\ UNCHANGED <<desired, left, bucketVars, made, failures>>

------------------------------------------------------------------------------
(* The unit. *)

\* The script writes a result; past its limit it does so until ExecStop is done.
Work(m) ==
  /\ runs[m] /\ made < MaxResults
  /\ \/ phase[m] = "running"
     \/ phase[m] = "stop" /\ verdict[m] = "timeout"
  /\ made' = made + 1
  /\ local' = [local EXCEPT ![m] = @ \union {made + 1}]
  /\ dirty' = [dirty EXCEPT ![m] = TRUE]
  /\ UNCHANGED <<unitVars, syncing, logVars, checked, desired, left, bucketVars, failures>>

StopUnit(m, v) ==
  /\ phase[m] = "running"
  /\ phase' = [phase EXCEPT ![m] = "stop"]
  /\ verdict' = [verdict EXCEPT ![m] = v]
  /\ UNCHANGED <<runs, limit, diskVars, desired, left, bucketVars, made, failures>>

Exit(m) == runs[m] /\ \E v \in {"success", "failure"} : StopUnit(m, v)

\* RuntimeMaxSec.
Expire(m) == limit[m] = 0 /\ StopUnit(m, "timeout")

\* Fault: the log directory is copied before the status is written.
ExecStopUnreported(m) ==
  /\ phase[m] = "stop"
  /\ phase' = [phase EXCEPT ![m] = "post"]
  /\ checked' = [checked EXCEPT ![m] = Rclones(m)]
  /\ reports' = reports \union logged[m]
  /\ UNCHANGED <<runs, limit, verdict, dataVars, logVars>>
  /\ UNCHANGED <<desired, left, data, made, failures>>

\* Writes the status, copies the log directory: the log as the log loop left it, if
\* the loop had a turn.
ExecStop(m) ==
  /\ phase[m] = "stop"
  /\ phase' = [phase EXCEPT ![m] = "post"]
  /\ checked' = [checked EXCEPT ![m] = Rclones(m)]
  /\ \/ reports' = reports \union {<<"status", m>>} \union logged[m] /\ UNCHANGED failures
     \/ UNCHANGED reports /\ Failure
  /\ UNCHANGED <<runs, limit, verdict, dataVars, logVars>>
  /\ UNCHANGED <<desired, left, data, made>>

\* task.Stop, with which leo stop ends.
LeoStop == desired' = 0

\* Fault: nothing sleeps before the first look at the processes.
ShutdownAtOnce(m) ==
  /\ phase[m] = "post" /\ Rclones(m) = {}
  /\ phase' = [phase EXCEPT ![m] = "idle"]
  /\ LeoStop
  /\ UNCHANGED <<runs, limit, verdict, diskVars, left, bucketVars, made, failures>>

\* tpi-task-shutdown sleeps longer than a period of either loop, so that each has had
\* its turn unless a sync of its own kept it from it, then waits as long as there is
\* an rclone; then leo stop, whose failure, or whose end at the unit's stop timeout,
\* nothing makes up for.
Shutdown(m) ==
  /\ phase[m] = "post" /\ checked[m] = Loop /\ Rclones(m) = {}
  /\ phase' = [phase EXCEPT ![m] = "idle"]
  /\ \/ LeoStop /\ UNCHANGED failures
     \/ UNCHANGED desired /\ Failure
  /\ UNCHANGED <<runs, limit, verdict, diskVars, left, bucketVars, made>>

------------------------------------------------------------------------------
(* The loops: one turn of the data loop is a Check, and the steps of a sync. *)

\* Fault: the epoch is not saved, so that every turn begins a sync.
CheckForever(m) ==
  /\ Looping(m) /\ ~IsSyncing(m)
  /\ checked' = [checked EXCEPT ![m] = @ \union {"data"}]
  /\ syncing' = [syncing EXCEPT ![m] = {local[m]}]
  /\ UNCHANGED <<unitVars, local, dirty, logVars, desired, left, bucketVars, made, failures>>

\* The epoch is set before the sync, so that a sync that fails is not repeated.
\* The listing of the source is <<local[m]>>, a singleton.
Check(m) ==
  /\ Looping(m) /\ ~IsSyncing(m)
  /\ \/ dirty[m]
     \/ "data" \notin checked[m] /\ phase[m] = "post"
  /\ checked' = [checked EXCEPT ![m] = @ \union {"data"}]
  /\ dirty' = [dirty EXCEPT ![m] = FALSE]
  /\ syncing' = [syncing EXCEPT ![m] = IF dirty[m] THEN {local[m]} ELSE {}]
  /\ UNCHANGED <<unitVars, local, logVars, desired, left, bucketVars, made, failures>>

Listing(m) == UNION syncing[m]

SyncStep(m) ==
  /\ Looping(m) /\ IsSyncing(m)
  /\ UNCHANGED <<unitVars, local, dirty, logVars, checked, desired, left, reports, made>>

\* rclone sync copies what the destination lacks ...
SyncCopies(m) ==
  /\ SyncStep(m)
  /\ \E r \in Listing(m) \ data : data' = data \union {r}
  /\ UNCHANGED <<syncing, failures>>

\* ... then deletes what the source lacks.
SyncEnds(m) ==
  /\ SyncStep(m)
  /\ Listing(m) \subseteq data
  /\ data' = Listing(m)
  /\ syncing' = [syncing EXCEPT ![m] = {}]
  /\ UNCHANGED failures

SyncFails(m) ==
  /\ SyncStep(m) /\ Failure
  /\ syncing' = [syncing EXCEPT ![m] = {}]
  /\ UNCHANGED data

\* TPI_LOG_DIRECTORY after a turn of the log loop, which writes the log of the unit.
LogDirectory(m) ==
  {<<"task", m>>} \union
    (IF phase[m] \in {"post", "idle"} THEN {<<"status", m>>} ELSE {})

\* A turn of the log loop: rclone sync, which lists both directories at once, if there
\* is another file or the log got longer, as it may at any time.
LogTurn(m) ==
  /\ Looping(m) /\ ~IsLogging(m)
  /\ logged' = [logged EXCEPT ![m] = LogDirectory(m)]
  /\ checked' = [checked EXCEPT ![m] = @ \union {"logs"}]
  /\ \/ logging' = [logging EXCEPT ![m] =
                      {[files |-> LogDirectory(m), doomed |-> reports \ LogDirectory(m)]}]
     \/ logged[m] = LogDirectory(m) /\ UNCHANGED logging
  /\ UNCHANGED <<unitVars, dataVars, desired, left, bucketVars, made, failures>>

Files(m)  == UNION {sync.files : sync \in logging[m]}
Doomed(m) == UNION {sync.doomed : sync \in logging[m]}

LogStep(m) ==
  /\ Looping(m) /\ IsLogging(m)
  /\ UNCHANGED <<unitVars, dataVars, logged, checked, desired, left, data, made>>

LogCopies(m) ==
  /\ LogStep(m)
  /\ \E file \in Files(m) \ reports : reports' = reports \union {file}
  /\ UNCHANGED <<logging, failures>>

\* The files that the listing of the bucket had and that of the machine had not go.
LogEnds(m) ==
  /\ LogStep(m)
  /\ reports' = (reports \union Files(m)) \ Doomed(m)
  /\ logging' = [logging EXCEPT ![m] = {}]
  /\ UNCHANGED failures

LogFails(m) ==
  /\ LogStep(m) /\ Failure
  /\ logging' = [logging EXCEPT ![m] = {}]
  /\ UNCHANGED reports

\* What the provider makes of the reports: an exit code 0 is a success, any other,
\* or a timeout, a failure.
Reported(v) == {m \in Machines : <<"status", m>> \in reports /\ verdict[m] = v}

Status ==
  [succeeded |-> Cardinality(Reported("success")),
   failed    |-> Cardinality(Reported("failure") \union Reported("timeout"))]

------------------------------------------------------------------------------
(* The cloud. *)

\* A machine goes with its disk.  systemd is stopping: ExecStop, if it has the time,
\* copies the logs and writes no status; ExecStopPost stops nothing.
Leave(m) ==
  /\ m \in Alive
  /\ phase' = [phase EXCEPT ![m] = "gone"]
  /\ runs' = [runs EXCEPT ![m] = FALSE] /\ limit' = [limit EXCEPT ![m] = 0]
  /\ local' = [local EXCEPT ![m] = {}] /\ dirty' = [dirty EXCEPT ![m] = FALSE]
  /\ syncing' = [syncing EXCEPT ![m] = {}]
  /\ logged' = [logged EXCEPT ![m] = {}] /\ logging' = [logging EXCEPT ![m] = {}]
  /\ checked' = [checked EXCEPT ![m] = {}]
  /\ \/ UNCHANGED reports
     \/ phase[m] \in {"running", "stop"} /\ reports' = reports \union logged[m]
  /\ UNCHANGED <<verdict, desired, left, data, made, failures>>

\* A spot machine is reclaimed.
\* Bound: there are identities left to fill the group again.
Preempt(m) == desired < Cardinality(Alive) + Cardinality(Spare) /\ Leave(m)

\* The group has more machines than it should.
Terminate(m) == Cardinality(Alive) > desired /\ Leave(m)

\* Fault: a deadline that has passed is a negative time left.
TickBelowZero ==
  /\ \A m \in Machines : phase[m] = "running" => limit[m] > 0
  /\ left > 0 \/ \E m \in Machines : phase[m] = "running"
  /\ left' = left - 1
  /\ limit' = [m \in Machines |-> IF phase[m] = "running" THEN limit[m] - 1 ELSE limit[m]]
  /\ UNCHANGED <<phase, runs, verdict, diskVars, desired, bucketVars, made, failures>>

\* The limits of the units and the deadline come nearer; a limit that is reached
\* is acted upon at once.
Tick ==
  /\ \A m \in Machines : phase[m] = "running" => limit[m] > 0
  /\ left > 0 \/ \E m \in Machines : phase[m] = "running"
  /\ left' = IF left > 0 THEN left - 1 ELSE 0
  /\ limit' = [m \in Machines |-> IF phase[m] = "running" THEN limit[m] - 1 ELSE limit[m]]
  /\ UNCHANGED <<phase, runs, verdict, diskVars, desired, bucketVars, made, failures>>

------------------------------------------------------------------------------
Unit(m)  == Download(m) \/ StartService(m) \/ Expire(m) \/ ExecStop(m)
DataLoop(m) == Check(m) \/ SyncCopies(m) \/ SyncEnds(m) \/ SyncFails(m)
LogLoop(m)  == LogTurn(m) \/ LogCopies(m) \/ LogEnds(m) \/ LogFails(m)
Script(m) == Work(m) \/ Exit(m)
Cloud(m) == Boot(m) \/ Terminate(m)

Next ==
  \/ Tick
  \/ \E m \in Machines :
       \/ Unit(m) \/ Shutdown(m) \/ DataLoop(m) \/ LogLoop(m) \/ Script(m)
       \/ Cloud(m) \/ Preempt(m)

Spec == Init /\ [][Next]_vars

\* systemd, the shell, the group and time go on; the script need not end.  The
\* shutdown looks for an rclone every second, and the loops sleep for longer.
FairSpec ==
  /\ Spec /\ WF_vars(Tick)
  /\ \A m \in Machines :
       /\ WF_vars(Unit(m)) /\ WF_vars(DataLoop(m)) /\ WF_vars(LogLoop(m)) /\ WF_vars(Cloud(m))
       /\ SF_vars(Shutdown(m))
------------------------------------------------------------------------------
(* Properties. *)

Report == {"status", "task"} \X Machines

TypeOK ==
  /\ phase \in [Machines -> Phases]
  /\ runs \in [Machines -> BOOLEAN] /\ limit \in [Machines -> 0 .. Timeout]
  /\ verdict \in [Machines -> {"none", "success", "failure", "timeout"}]
  /\ local \in [Machines -> SUBSET (1 .. made)]
  /\ dirty \in [Machines -> BOOLEAN] /\ checked \in [Machines -> SUBSET Loop]
  /\ syncing \in [Machines -> SUBSET SUBSET (1 .. made)]
  /\ logged \in [Machines -> SUBSET Report]
  /\ logging \in [Machines -> SUBSET [files : SUBSET Report, doomed : SUBSET Report]]
  /\ desired \in {0, Parallelism} /\ left \in 0 .. Timeout
  /\ data \subseteq 1 .. made
  /\ reports \subseteq Report
  /\ made \in 0 .. MaxResults /\ failures \in 0 .. MaxFailures

\* "Lower cost with spot recovery: transparent data checkpoint/restore"
\* (README.md:11): as long as no transfer fails, a result that reached the bucket
\* is never taken out of it by the machines, whichever are reclaimed and replaced.
\* TaskLifecycle assumes it.
ResultsStay == [][failures' = 0 => data \subseteq data']_vars

\* When a machine has stopped the group, the status of the task tells that it
\* ended, and keeps telling so after the last machine is gone, unless its transfer
\* failed.
StoppedIsReported ==
  desired = 0 /\ failures = 0 => Status.succeeded + Status.failed > 0

\* "Run the given script on the cloud machine until completion or timeout"
\* (docs/resources/task.md:7): the group is not stopped under a running script.
RunsToCompletion ==
  [][desired > 0 /\ desired' = 0 => \A m \in Machines : phase[m] # "running"]_vars

\* "logs - List with task logs; one for each machine" (docs/resources/task.md:87):
\* when a machine has waited for its loops after the end of its script, its log is in
\* the bucket, even if the script ended before the log loop's first turn; and when the
\* group was stopped there is the log of a machine that also has a status there, also
\* after the last machine is gone.  Unless a transfer failed.
OneLogPerMachine ==
  failures = 0 =>
    /\ \A m \in Machines : phase[m] = "idle" => <<"task", m>> \in reports
    /\ desired = 0 => \E m \in Machines : {<<"task", m>>, <<"status", m>>} \subseteq reports

\* Transfers that fail do not keep a task from ending, at boot, in a loop or in
\* ExecStop; only a leo stop that fails does, and then every machine that is left
\* sits idle.
EndsOrIdles ==
  \/ <>[](desired = 0 /\ Alive = {})
  \/ <>[](failures > 0 /\ Alive # {} /\ \A m \in Alive : phase[m] = "idle")
==============================================================================
