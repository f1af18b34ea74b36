------------------------------- MODULE LeoRead -------------------------------
(***************************************************************************)
(* leo read, with and without --follow, over the reports in the bucket of a *)
(* task (cmd/leo/read/read.go, task/common/machine/storage.go), while the   *)
(* machines of the task write them.  An iteration asks the cloud for the    *)
(* machines, then the bucket for the logs, then for the statuses, and       *)
(* prints the lines after those it printed before.  Of the machines there   *)
(* is only what a reader can tell: the files under reports, and when they   *)
(* are written, copied and deleted.                                         *)
(***************************************************************************)
EXTENDS Integers, Sequences, FiniteSets, SequencesExt

CONSTANTS
  N,            \* identities of machines, in the order of their files' names
  Parallelism,  \* attribute parallelism, and option --parallelism
  MaxLines,     \* bound: lines all the scripts write
  MaxLosses,    \* bound: machines that are reclaimed
  MaxFailures   \* bound: transfers of a machine, and calls of leo, that fail

ASSUME ReadConstants ==
  {N, Parallelism, MaxLines, MaxLosses, MaxFailures} \subseteq Nat /\ Parallelism > 0

Machines == 1 .. N

VARIABLES
  follow,    \* option --follow
  pc, active, got, last, printed, exit,       \* leo read
  phase, lines, hashed, syncing, turn, verdict,      \* the machines
  desired,   \* capacity of the group
  logs,      \* logs[m]: number of lines in m's log in the bucket, None if absent
  statuses,  \* machines whose status is in the bucket
  seen,      \* history: leo counted a machine that runs
  lost,      \* history: machines that were reclaimed
  late,      \* history: machines whose unit stopped during a sync of the log, and
             \* that had no turn of the log loop between that and leo stop
  failures

readerVars  == <<pc, active, got, last, printed, exit, seen>>
machineVars == <<phase, lines, hashed, syncing, turn, verdict>>
historyVars == <<lost, late>>
vars == <<follow, readerVars, machineVars, desired, logs, statuses, historyVars, failures>>

None == -1
Blank == <<"blank">>

Alive == {m \in Machines : phase[m] \in {"on", "stopped", "done"}}
Failure == failures < MaxFailures /\ failures' = failures + 1

Init ==
  /\ follow \in BOOLEAN
  /\ pc = "read" /\ active = 0 /\ got = <<>> /\ last = 0 /\ printed = <<>> /\ exit = "none"
  /\ phase = [m \in Machines |-> "none"]
  /\ lines = [m \in Machines |-> 0]
  /\ hashed = [m \in Machines |-> <<None, FALSE>>] /\ syncing = [m \in Machines |-> "no"]
  /\ turn = [m \in Machines |-> FALSE] /\ verdict = [m \in Machines |-> "none"]
  /\ desired = Parallelism
  /\ logs = [m \in Machines |-> None] /\ statuses = {}
  /\ seen = FALSE /\ lost = {} /\ late = {} /\ failures = 0

------------------------------------------------------------------------------
(* leo read. *)

ReaderStep == UNCHANGED <<follow, machineVars, desired, logs, statuses, historyVars>>

\* An error of the cloud or the bucket ends the command.
ReadFails ==
  /\ pc # "ended" /\ Failure
  /\ pc' = "ended" /\ exit' = "error"
  /\ UNCHANGED <<active, got, last, printed, seen>> /\ ReaderStep

\* Task.Read counts the machines that run.
ReadTask ==
  /\ pc = "read"
  /\ active' = Cardinality(Alive) /\ seen' = (seen \/ active' > 0)
  /\ pc' = "logs"
  /\ UNCHANGED <<got, last, printed, exit, failures>> /\ ReaderStep

\* Splitting a log that is empty gives one line, which is empty.
LinesOf(m, n) ==
  CASE n = None -> <<>>
    [] n = 0    -> <<Blank>>
    [] OTHER    -> [k \in 1 .. n |-> <<m, k>>]

\* The files of all machines, one after the other, in the order of their names.
getLogs == FlattenSeq([m \in Machines |-> LinesOf(m, logs[m])])

ReadLogs ==
  /\ pc = "logs"
  /\ got' = getLogs
  /\ pc' = "status"
  /\ UNCHANGED <<active, last, printed, exit, seen, failures>> /\ ReaderStep

\* What ExecStop writes: when the time is over the process has not exited yet, and
\* there is no code.
StatusReport(v) ==
  CASE v = "success" -> [code |-> "0", result |-> "success"]
    [] v = "failure" -> [code |-> "1", result |-> "exit-code"]
    [] v = "timeout" -> [code |-> "", result |-> "timeout"]

Reports == {StatusReport(verdict[m]) : m \in statuses}
Counted(P(_)) == Cardinality({m \in statuses : P(StatusReport(verdict[m]))})

HasSucceeded(report) == report.code = "0"

\* Fault: a report without a code counts for nothing.
HasFailedByCode(report) == report.code \notin {"", "0"}

HasFailed(report) ==
  IF report.code # "" THEN report.code # "0" ELSE report.result = "timeout"

\* Fault: what the reports say goes before the machines that run.
getStatusReported ==
  IF Counted(HasFailed) > 0 THEN "failed"
  ELSE IF Counted(HasSucceeded) >= Parallelism THEN "succeeded"
  ELSE IF active >= Parallelism THEN "running" ELSE "queued"

\* Fault: the machines are counted after the log was read.
getStatusRecounted ==
  IF Cardinality(Alive) >= Parallelism THEN "running"
  ELSE IF Counted(HasFailed) > 0 THEN "failed"
  ELSE IF Counted(HasSucceeded) >= Parallelism THEN "succeeded" ELSE "queued"

\* The last assignment counts: machines that run go before a failure, and a failure
\* before successes.
getStatus ==
  IF active >= Parallelism THEN "running"
  ELSE IF Counted(HasFailed) > 0 THEN "failed"
  ELSE IF Counted(HasSucceeded) >= Parallelism THEN "succeeded" ELSE "queued"

\* Join(lines, "\n") = "".
IsEmpty(delta) == delta \in {<<>>, <<Blank>>}

\* Fault: the lines that were printed are not counted.
PrintsAgain ==
  LET delta == SubSeq(got, last + 1, Len(got)) IN
  /\ printed' = IF IsEmpty(delta) THEN printed ELSE printed \o delta
  /\ UNCHANGED last

\* Fault: the whole log is added to what was counted.
PrintsAdds ==
  LET delta == SubSeq(got, last + 1, Len(got)) IN
  /\ printed' = IF IsEmpty(delta) THEN printed ELSE printed \o delta
  /\ last' = IF IsEmpty(delta) THEN last ELSE last + Len(got)

PrintsNew ==
  LET delta == SubSeq(got, last + 1, Len(got)) IN
  /\ printed' = IF IsEmpty(delta) THEN printed ELSE printed \o delta
  /\ last' = IF IsEmpty(delta) THEN last ELSE Len(got)

\* The slice logs[last:] of fewer lines than last is out of range.
PrintPanics ==
  /\ pc = "status" /\ Len(got) < last
  /\ pc' = "ended" /\ exit' = "panic"
  /\ UNCHANGED <<active, got, last, printed, seen, failures>> /\ ReaderStep

PrintDelta ==
  /\ pc = "status" /\ Len(got) >= last
  /\ PrintsNew
  /\ pc' = IF follow /\ getStatus \notin {"succeeded", "failed"} THEN "read" ELSE "ended"
  /\ exit' = IF ~follow THEN "once"
             ELSE IF getStatus \in {"succeeded", "failed"} THEN getStatus ELSE exit
  /\ UNCHANGED <<active, got, seen, failures>> /\ ReaderStep

------------------------------------------------------------------------------
(* The machines, as the script of machine-script.sh.tpl makes them write. *)

\* bound: nothing happens when leo has ended.
MachineStep == pc # "ended" /\ UNCHANGED <<follow, readerVars>>

Boot(m) ==
  /\ phase[m] = "none" /\ Cardinality(Alive) < desired
  /\ phase' = [phase EXCEPT ![m] = "on"]
  /\ UNCHANGED <<lines, hashed, syncing, turn, verdict, desired, logs, statuses, historyVars, failures>>
  /\ MachineStep

Written == {line \in Machines \X (1 .. MaxLines) : line[2] <= lines[line[1]]}

Write(m) ==
  /\ phase[m] = "on" /\ Cardinality(Written) < MaxLines
  /\ lines' = [lines EXCEPT ![m] = @ + 1]
  /\ UNCHANGED <<phase, hashed, syncing, turn, verdict, desired, logs, statuses, historyVars, failures>>
  /\ MachineStep

\* The directory of a machine: lines of the log, and whether there is a status.
Content(m) == <<lines[m], verdict[m] # "none">>
File(m) == hashed[m][1]

\* A turn of the log loop writes the log to a file and, if the directory is not as
\* it was in the turn before, begins a sync, which is not repeated if it fails.
LoopTurn(m) ==
  /\ m \in Alive /\ syncing[m] = "no"
  /\ hashed[m] # Content(m) \/ (phase[m] = "stopped" /\ ~turn[m])
  /\ hashed' = [hashed EXCEPT ![m] = Content(m)]
  /\ syncing' = [syncing EXCEPT ![m] = IF hashed[m] # Content(m) THEN "copy" ELSE "no"]
  /\ turn' = [turn EXCEPT ![m] = phase[m] = "stopped"]
  /\ late' = IF phase[m] = "stopped" THEN late \ {m} ELSE late
  /\ UNCHANGED <<phase, lines, verdict, desired, logs, statuses, lost, failures>>
  /\ MachineStep

\* rclone sync copies, and then deletes what is not on this machine.
SyncCopies(m) ==
  /\ m \in Alive /\ syncing[m] = "copy"
  /\ logs' = [logs EXCEPT ![m] = File(m)]
  /\ statuses' = IF hashed[m][2] THEN statuses \union {m} ELSE statuses
  /\ syncing' = [syncing EXCEPT ![m] = "delete"]
  /\ UNCHANGED <<phase, lines, hashed, turn, verdict, desired, historyVars, failures>>
  /\ MachineStep

SyncDeletes(m) ==
  /\ m \in Alive /\ syncing[m] = "delete"
  /\ logs' = [o \in Machines |-> IF o = m THEN logs[m] ELSE None]
  /\ statuses' = statuses \intersect {m}
  /\ syncing' = [syncing EXCEPT ![m] = "no"]
  /\ UNCHANGED <<phase, lines, hashed, turn, verdict, desired, historyVars, failures>>
  /\ MachineStep

SyncFails(m) ==
  /\ m \in Alive /\ syncing[m] # "no" /\ Failure
  /\ syncing' = [syncing EXCEPT ![m] = "no"]
  /\ UNCHANGED <<phase, lines, hashed, turn, verdict, desired, logs, statuses, historyVars>>
  /\ MachineStep

\* ExecStop writes the status and copies the directory, with the log as the loop
\* left it.
ExecStop(m) ==
  /\ phase[m] = "on"
  /\ phase' = [phase EXCEPT ![m] = "stopped"]
  /\ \E v \in {"success", "failure", "timeout"} : verdict' = [verdict EXCEPT ![m] = v]
  /\ \/ /\ logs' = [logs EXCEPT ![m] = File(m)]
        /\ statuses' = statuses \union {m}
        /\ UNCHANGED failures
     \/ Failure /\ UNCHANGED <<logs, statuses>>
  /\ turn' = [turn EXCEPT ![m] = syncing[m] # "no"]
  /\ late' = IF syncing[m] # "no" THEN late \union {m} ELSE late
  /\ UNCHANGED <<lines, hashed, syncing, desired, lost>>
  /\ MachineStep

\* leo stop, after twenty seconds, in which the loop has its turn unless a sync kept it
\* from it, and when no rclone runs.
LeoStop(m) ==
  /\ phase[m] = "stopped" /\ turn[m] /\ syncing[m] = "no"
  /\ phase' = [phase EXCEPT ![m] = "done"]
  /\ desired' = 0
  /\ turn' = [turn EXCEPT ![m] = FALSE]
  /\ UNCHANGED <<lines, hashed, syncing, verdict, logs, statuses, historyVars, failures>>
  /\ MachineStep

\* A machine loses its disk.
Vanishes(m) ==
  /\ phase' = [phase EXCEPT ![m] = "gone"]
  /\ hashed' = [hashed EXCEPT ![m] = <<None, FALSE>>]
  /\ syncing' = [syncing EXCEPT ![m] = "no"]
  /\ turn' = [turn EXCEPT ![m] = FALSE]

Terminate(m) ==
  /\ m \in Alive /\ Cardinality(Alive) > desired
  /\ Vanishes(m)
  /\ UNCHANGED <<lines, verdict, desired, logs, statuses, historyVars, failures>>
  /\ MachineStep

\* A machine that is reclaimed may have the time to copy its log, but no status.
Preempt(m) ==
  /\ m \in Alive /\ desired > 0 /\ Cardinality(lost) < MaxLosses
  /\ Vanishes(m)
  /\ lost' = lost \union {m} /\ late' = late \ {m}
  /\ logs' \in {logs, [logs EXCEPT ![m] = File(m)]}
  /\ UNCHANGED <<lines, verdict, desired, statuses, failures>>
  /\ MachineStep

------------------------------------------------------------------------------
Reader == ReadTask \/ ReadLogs \/ PrintPanics \/ PrintDelta

Next ==
  \/ Reader \/ ReadFails
  \/ \E m \in Machines :
       \/ Boot(m) \/ Write(m) \/ LoopTurn(m) \/ SyncCopies(m) \/ SyncDeletes(m) \/ SyncFails(m)
       \/ ExecStop(m) \/ LeoStop(m) \/ Terminate(m) \/ Preempt(m)

Spec == Init /\ [][Next]_vars

\* leo goes on, and the group terminates its machines in the end.
FairSpec == Spec /\ WF_vars(Reader) /\ \A m \in Machines : WF_vars(Terminate(m))
------------------------------------------------------------------------------
(* Properties. *)

Line == {Blank} \union (Machines \X (1 .. MaxLines))

TypeOK ==
  /\ follow \in BOOLEAN /\ seen \in BOOLEAN
  /\ pc \in {"read", "logs", "status", "ended"} /\ active \in 0 .. N
  /\ got \in Seq(Line) /\ printed \in Seq(Line) /\ last \in 0 .. N + MaxLines
  /\ exit \in {"none", "once", "succeeded", "failed", "error", "panic"}
  /\ exit = "none" <=> pc # "ended"
  /\ phase \in [Machines -> {"none", "on", "stopped", "done", "gone"}]
  /\ lines \in [Machines -> 0 .. MaxLines]
  /\ verdict \in [Machines -> {"none", "success", "failure", "timeout"}]
  /\ syncing \in [Machines -> {"no", "copy", "delete"}] /\ turn \in [Machines -> BOOLEAN]
  /\ \A m \in Machines :
       /\ File(m) \in None .. lines[m] /\ logs[m] \in None .. lines[m]
       /\ m \in statuses => verdict[m] # "none"
  /\ desired \in {0, Parallelism} /\ lost \union late \subseteq Machines
  /\ failures \in 0 .. MaxFailures

Followed == exit \in {"succeeded", "failed"}
Used == {m \in Machines : phase[m] # "none"}
Calm == failures = 0 /\ lost = {}

\* leo read --follow exits with the verdict of the task, and not before the task is
\* over (read.go:164-174), if no machine was reclaimed: the group has been stopped,
\* and the exit status is 0 if and only if every script exited with 0.  The machines
\* are counted before the status is read, and a machine that boots and ends in
\* between would be missed: the property is about one that leo saw running.
ExitIsVerdict ==
  Followed /\ lost = {} /\ seen /\ Parallelism = 1 =>
    /\ desired = 0
    /\ exit = "succeeded" <=> \A m \in Used : verdict[m] = "success"

\* What leo prints of a log in the bucket: nothing of one that is empty.
PrintedOf(m) == IF logs[m] = 0 THEN <<>> ELSE LinesOf(m, logs[m])

\* When leo read --follow exits by the status of the task it has printed the whole log
\* that is in the bucket, although it reads the log before the status (read.go:79-93):
\* machines that run are counted first, and one that is gone copies nothing more.  That
\* log is complete if no transfer failed, unless the script ended during a sync of the
\* log that leo stop did not give a turn after.
PrintsAll ==
  Followed /\ lost = {} /\ seen /\ Parallelism = 1 =>
    \A m \in Used :
      /\ printed = PrintedOf(m)
      /\ failures = 0 /\ m \notin late => logs[m] = lines[m]

\* However the iterations of leo and the loop of a machine interleave, each line is
\* printed once, in the order of the log, as long as there is one machine.
PrintsOnce ==
  Cardinality(Used) = 1 => \A m \in Used : IsPrefix(printed, LinesOf(m, lines[m]))

\* Once the task has stopped itself leo read --follow ends.
FollowEnds == [](desired = 0 /\ Calm => <>(pc = "ended"))

\* "follow logs" (read.go:47) of "respawning spot instances" (README.md:9): the
\* command does not end by a run-time error.
NeverPanics == exit # "panic"
==============================================================================
