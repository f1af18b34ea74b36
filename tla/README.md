# Formal model of TPI tasks

TLA+ specifications of terraform-provider-iterative: what `terraform apply`,
`refresh` and `destroy` of an `iterative_task` do in the cloud, what the machines
of a task do while nobody is watching, what becomes of the data, how a task finds
what is its own, how `leo read` follows it, and the two older resources that make
single machines. TLC checks the modules on small instances; TLAPS proves the
safety properties that those runs check for every value of the constants, some of them
under a condition that *What is proved* names.

## The system

| component | state it keeps | operations | what is hard about it |
|---|---|---|---|
| Terraform handlers, `src/iterative/resource_task.go` | the task in the Terraform state (absent, present, tainted) | `resourceTaskCreate` / `Read` / `Delete`; each builds the task anew from its attributes | an apply that fails calls `Task.Delete` with the same context; what Terraform remembers depends on how that ends; deadlines; the plugin process may die |
| step runner, `src/task/common/steps.go` | none | `RunSteps`: steps in order until one fails | any prefix of a program can have happened |
| AWS, GCP, Azure tasks, `src/task/{aws,gcp,az}` | the resources in the cloud: bucket, network rules, template, group of machines | `Create`, `Read`, `Delete`, `Push`, `Pull`, `Start`, `Stop` | creations of several calls; resources left by an earlier attempt; reads that hide an error; operations that fail after they were accepted |
| Kubernetes task, `src/task/k8s` | config map, claim, job; variables of the process environment | the same methods, with jobs that transfer data | one name for three jobs; settings passed through the environment of a process that serves several tasks; pods that start late |
| task storage, `src/task/common/machine/storage.go` | the data and the reports in a bucket | `Transfer`, `Delete`, `Reports`, `Logs`, `Status` | errors that are turned into others; written to by machines while it is read and emptied |
| machine agent, `src/task/common/machine/machine-script.sh.tpl` | a systemd unit, a data directory, two loops | download, run, report, synchronise, shut down | `rclone sync` deletes; machines share one remote directory; reclaimed machines; a countdown to a date; `leo stop` may fail |
| `leo`, `src/cmd/leo` | the lines printed so far (`read --follow`) | `create`, `list`, `read`, `stop`, `delete`, `destroy-runner` | `stop` is called by machines, concurrently with Terraform; `read` looks at machines, logs and statuses one after the other while they change |
| identifiers, `src/task/common/identifier.go` and `resourceTaskBuild` | the identifier in the Terraform state | from the state, a name, what CI says of the run, or chance | the identifier decides whether an apply finds what an earlier one left, and whether two tasks are one |
| values, SSH keys, cloud clients | none | pure functions and I/O | |
| legacy `iterative_machine`, `iterative_cml_runner` | one instance, job or resource group | create, delete, wait for the runner; the runner destroys itself | errors that are ignored; two ways of dispatching on a cloud's name; no group that keeps order |
| analytics, `src/iterative/utils/analytics.go` | a wait group | send an event, wait for all | `wg.Add` races `wg.Wait` |

How they interact. Terraform calls a handler; the handler builds a task of one
cloud and calls its method; the method runs steps, which call the cloud's API.
The cloud's group boots machines from a template whose user data is the agent's
script. From then on the machines and Terraform share two things: the bucket, and
the capacity of the group, which Terraform sets when it starts the task and a
machine sets to zero when the script has ended.

What makes each part correct:

- handlers and steps: Terraform never forgets a task of which something is left;
  a destroy that is repeated ends; an apply that succeeds made everything;
- resources: none exists without those it is built on, in whatever order things
  fail; no machine runs without its storage, or before its input is uploaded;
- data: what a machine managed to upload stays, until it has been downloaded;
- agent: the script runs to its end or its time limit, its end is reported, and
  then the machines go away;
- Kubernetes: the job that is there is of the kind it was made for, has its
  volumes, and does not write to what has been downloaded;
- identifiers: a task keeps its own, finds what it left, and shares nothing with
  another unless it was told to;
- `leo read --follow`: it ends when the task does, with its verdict, and every line
  of the log has been printed once;
- legacy machines: what Terraform does not know of is gone, a runner that was applied
  is ready, and a destroy that is repeated ends.

`PROJECT.json` lists every component with its status, and under `hazards` the
places in the code where these can go wrong.

## The modules

```
TaskSteps ──── AwsTask, GcpTask, AzTask     step programs, as constants
    │                    │
TaskLifecycle ────── MC_Aws, MC_Gcp, MC_Az   the lifecycle, instantiated
    │   └─ TaskContract                      what it promises to Terraform
    └─ TaskLifecycle_proofs ── TaskContract_proofs
K8sTask ──── MC_K8s                          tasks on Kubernetes
    └─ K8sTask_proofs
MachineAgent ──── MC_Agent                   the machines of a task
    └─ MachineAgent_proofs
LeoRead ──── MC_Read                         leo read, over what they report
    └─ LeoRead_proofs
TaskIdentity ──── MC_Identity                whose things are whose
    └─ TaskIdentity_proofs
LegacyMachine ──── MC_Legacy                 iterative_machine, iterative_cml_runner
    └─ LegacyMachine_proofs
Induction_proofs                             induction, for LeoRead and TaskIdentity
```

**TaskSteps** is the vocabulary of `common.Step`. A step is a record; its kind
says which method it calls (`read`, `create`, `delete`, `push`, `pull`, `empty`,
`start`, or the `lookup` of something the task does not own).

**AwsTask, GcpTask, AzTask** translate `Task.Create`, `Task.Read` and
`Task.Delete` of each cloud into sequences of steps that depend on the task's
configuration: `own` (no `storage.container`), `workdir`, `output`. For every
resource they also say how many API calls its `Create` makes in a row, whether it
*adopts* what exists or writes it again (*upsert*), what it is built on (its
`Dependencies` struct, and what `Credentials` puts into the user data), whether
its `Read` can hide an error (`KeyPair` of AWS), whether its `Create` believes
an operation that failed (every compute operation of GCP, because
`waitForOperation` returns on `DONE` before it looks at the error), and whether
its calls obey the handler's deadline (on GCP only those to storage do, and the deletion of
a bucket that is there).

**TaskLifecycle** takes such programs as constants and is the state machine of
one task. `handler`, `stage` and `pc` are the handler that runs, the program it
is in and the step it is at; `cloud[r]` counts the creation calls a resource went
through, 0 when it is absent; `tf` is the Terraform state; `desired`, `machines`,
`input`, `stored`, `saved` are the group and the data. There is one action for
each way a step can go: it succeeds (`StepRead`, `StepAdopt`, `StepCreate`,
`StepPush`, ...), its error is swallowed (`StepReadOverlooked`,
`StepEmptyOverlooked`, `StepUnverified`), it finds nothing (`StepNotFound`), it is
past the deadline (`StepRefused`), or it fails, with or without having taken
effect (`StepError`; what a call does is `CreateCall`, `DeleteCall`, `PushCall`,
`StartCall` and `EmptyCall`, the same whether it then succeeds or fails). `StepFails` is what the callers make of a failure:
`resourceTaskCreate` goes on to `Task.Delete`, `Task.Delete` goes on without its
`Task.Read`, and a handler that gives up leaves the task as Terraform then sees
it. `Crash` is the death of the plugin process, `Panic` the nil dereference of a
resource whose `Read` hid an error. `Boot`, `Preempt`, `Upload`, `SelfStop` are
the machines, seen from outside.

**TaskContract** is what the provider promises to Terraform, without programs or
steps: which things exist, what Terraform knows, which operation runs. An apply
makes things, a destroy unmakes them, an apply succeeds with everything in place
except what nobody verified, the task is forgotten only when nothing is left, and
an operation that fails leaves a task Terraform knows of. `ImplementsContract`
maps `present` to the resources that exist, `wanted` to those the programs create.

**K8sTask** is the Kubernetes provider, which does not fit those programs: its
`Create` deletes, its `Delete` creates. It models several tasks of one provider
process. `withEnv` is explicit: `Setenv` before the call, `Unsetenv` when it
returns, and `Mode` is what `Job.Create` reads in between. The pods of a job start
one by one; those of an uploading job erase the directory first. `WaitForPods` is
the guard of `StepPush`: some pod is ready, which is all it ensures, because it
waits for the pods it finds and a pod without a readiness probe is ready at once.

**MachineAgent** is the inside of the machines. The unit `tpi-task` goes from
`running` to `stop` (ExecStop: status and logs), `post` (ExecStopPost:
`tpi-task-shutdown`) and `idle`. The data loop is `Check` and an `rclone sync`
that takes a listing, copies file by file and then deletes, so that other machines
act in between. The log loop likewise: `LogTurn` writes the log of the unit to the log
directory (`logged`) and begins a sync (`logging`) of `LogCopies` and `LogEnds`. `ExecStop`
copies that directory as the loop left it, so that a script which ends before the loop's first
turn leaves a status without a log, and the loop makes up for it while the shutdown waits.
`checked` is which loops had a turn since the unit stopped, and `Rclones` what `pgrep` sees.
`left` is the time to the date that was rendered into the script,
`limit[m]` what `RuntimeMaxSec` left to one machine. The group boots, terminates
and reclaims machines.

**LeoRead** is `leo read` and what it reads. An iteration of `Options.Run` is three
steps, `ReadTask`, `ReadLogs` and `PrintDelta`, each of which sees the cloud or the
bucket as it then is; `active`, `got` and `last` are its local variables, and
`getStatus` the three assignments of which the last one counts. `PrintPanics` is the
slice `logs[last:]` out of range. The machines are those of MachineAgent reduced to
what a reader can tell: how many lines the log has, what `hashed` the log loop last
saw of its directory, and the copy and the deletion of its sync, which is not
repeated when it fails. The shutdown waits for a turn of the log loop only if no sync was
running when the script ended; `late` remembers the machines where one was. `StatusReport` is what `ExecStop` writes, with an empty code when
the time was over, and `HasFailed`, `HasSucceeded` what `machine.Status` makes of it.

**TaskIdentity** is `identifier.go` as functions on short texts, `normalize` with its
runs of other characters, its cut and its trim, and the state machine of the
identifiers that are made and worked out again with them: by an apply that succeeds,
fails or dies, a refresh, a destroy, a machine's `leo stop`, `leo delete`, and in one run
after another. `seed` is what the environment says of a run: the number of a pipeline, of
GitHub or GitLab, the person who triggered a step on Bitbucket, who is the same in the next
pipeline, or nothing. `Dashed` replaces the runs character by character with
`Extended`. A digest is modelled as the text it is of, and `decimal` is what a number is
as a text, different for different numbers. `Identify` and
`Choose` are the nested conditions of `resourceTaskBuild`.

**LegacyMachine** has, like TaskSteps, programs of calls for each cloud. A call is a
`make`, whose error ends the creation, a `try` or `tryDelete`, whose error the code
drops, an `ensure`, whose error it drops when a Get then finds the thing, and the waits
of each cloud. `CreatesOn` and `DeletesOn` are the two dispatches on the cloud's name,
which do not agree. `StepUnfulfilled` is a spot request that is given up, `StepFind`
and `LogsPanic` the two places where the first of a list that may be empty is taken,
`WaitExpires` the wait for a runner, whose time is counted from the end of the creation. `self` is
`leo destroy-runner` on the machine, which makes the calls of a destroy at the same
time as Terraform may.

Operators with a comment that begins with *Fault* are not part of any
specification: they are wrong versions of a definition, with which each property
has been seen to fail.

## What is checked

| run | instance | result |
|---|---|---|
| `aws_task` | all 8 configurations, 1 machine, 1 result, 2 failures, 1 crash | `TypeOK`, `NoOrphans`, `DependencyClosed`, `MachinesHaveStorage`, `PulledBeforeErased`, `BootsAfterUpload`, `AppliedIsComplete` hold |
| `gcp_task` | own or pre-allocated bucket, with workdir and output, same bounds | `NoOrphans`, `AppliedIsComplete` hold |
| `az_task` | all 8 configurations, same bounds, fair | `ImplementsContract`, `DestroyConverges` hold |
| `k8s_task` | one task, all 8 configurations, 2 pods, 1 result, 2 failures, 1 crash | `TypeOK`, `NoOrphans`, `JobHasVolumes`, `QuietAfterPull`, `AppliedRunsScript`, `DestroyDownloads` hold |
| `agent_single` | one machine and its replacement, 2 results, timeout of 2 ticks, 1 failure, fair | `TypeOK`, `StoppedIsReported`, `OneLogPerMachine`, `ResultsStay`, `RunsToCompletion`, `EndsOrIdles` hold |
| `legacy_machine` | 10 attributes over 4 clouds and their 6 names, 2 applies, 1 failure, 1 crash, fair | `TypeOK`, `NothingForgotten`, `RunnerIsReady`, `DestroyConverges` hold |
| `leo_read` | one machine and its replacement, 2 lines, 1 machine lost, 1 failure, with and without `--follow`, fair | `TypeOK`, `ExitIsVerdict`, `PrintsAll`, `PrintsOnce`, `FollowEnds` hold |
| `identity` | 2 tasks, 9 names and an identifier given as one, 2 runs, each in a pipeline of its own, of one Bitbucket person or outside CI, 3 applies | `TypeOK`, `KeepsIdentifier`, `LeftoversFound`, `IsReachable`, `SharedByName` hold |
| `aws_late` | nothing fails | `NothingUploadedIsLost` is violated |
| `k8s_environ` | two tasks, nothing fails | `AppliedRunsScript` is violated |
| `agent_parallel_stop` | two machines, nothing fails | `RunsToCompletion` is violated |
| `leo_respawn` | one machine is reclaimed, nothing fails | `NeverPanics` is violated |

What is proved of every provider is checked on AWS, whose configurations are all
small enough, and not repeated on the other clouds, except for `NoOrphans` and
`AppliedIsComplete` on GCP, where calls outlive the deadline and operations fail
without a word.

The properties that hold, in words:

- `NoOrphans`: no resource is left of a task Terraform does not know of, except
  after an apply whose process died;
- `DependencyClosed`, `MachinesHaveStorage`, `JobHasVolumes`: nothing exists
  without what it is built on;
- `PulledBeforeErased`, `QuietAfterPull`: what a destroy found, and could read, is
  not erased before it is downloaded;
- `BootsAfterUpload`: no machine of a task with a workdir boots before the upload;
- `AppliedIsComplete`: every resource of a task whose apply succeeded went through
  all of its creation calls (a resource adopted from an apply that died need not
  have: `SecurityGroup` of AWS makes four calls, and adoption does not look);
- `DestroyDownloads`: on Kubernetes, a destroy that forgets a task with output has
  downloaded it, if its own Read succeeded or nothing went wrong before;
- `AppliedRunsScript`: the job an apply leaves is the one that runs the script;
- `DestroyConverges`: a user who repeats `terraform destroy` gets rid of the task;
- `StoppedIsReported`, `OneLogPerMachine`, `ResultsStay`: with one machine at a
  time and transfers that succeed, reports and results survive replacements, and a group that was
  stopped has a machine of which both the status and the log are in the bucket, however
  short its script was;
- `RunsToCompletion`: the group is not stopped under a running script;
- `EndsOrIdles`: a failed transfer never keeps a task from ending; only a failed
  `leo stop` does, and then the machine sits idle.
- `NothingForgotten`: of a legacy machine that Terraform does not know of nothing is
  left, with three ways out, each of which is in the code: an apply that died, a
  deletion whose error is dropped (everything on GCP and Azure), a spot instance of
  AWS that was never tagged;
- `RunnerIsReady`: an applied runner has reported that it is ready, and not that it
  terminated;
- `ExitIsVerdict`, `PrintsAll`, `PrintsOnce`, `FollowEnds`: `leo read --follow` of a task
  with one machine ends after the task, with 0 exactly if the script exited with 0, and
  has by then printed all that the bucket has of the log, and no line twice. That is the log to its
  last line if no transfer failed and no sync of the log was running when the script ended;
- `KeepsIdentifier`, `LeftoversFound`, `IsReachable`, `SharedByName`: the same task is
  the same identifier whichever pipeline or command asks, what a dead apply left is
  found by the next one of a named task, or of one where CI says the same of the run, and two
  tasks share things only by their names, by being unnamed in one pipeline or of one
  Bitbucket person, or because one is named after what CI says of the other's run.

The four violations are disagreements between the code and what its README or
documentation says. `PROJECT.json` quotes the lines. Other behaviour that the models
have, and that a reader of the properties should know of, because it is why a
property has the condition it has:

- GCP: an operation that is `DONE` with an error counts as a success, so that a task
  may be applied without a firewall rule (`AppliedIsComplete` excepts what is trusted,
  after a failure).
- Kubernetes: a destroy that is repeated after a failure finds no job, decides that
  there is nothing to download, and deletes the results (`DestroyDownloads`).
- A sync that is running when the script ends can keep its loop from another turn:
  `tpi-task-shutdown` (machine-script.sh.tpl:12) sleeps 20 seconds and then waits for the
  rclone that runs, not for the loop. The last result and the last lines of the log
  may then never reach the bucket (`late` in `PrintsAll`; `ResultsStay` is about results
  that are there).
- `Task.Delete` takes a Read that fails for any reason for the absence of the task, and erases
  what it did not download (`PulledBeforeErased` is claimed of a Read that succeeded).
- With `parallelism` above 1 the data loops of the machines delete each other's
  results from the bucket (`ResultsStay` is about one machine at a time), and
  `leo read --follow` never ends if the group is stopped while fewer than
  `--parallelism` machines have succeeded (`FollowEnds` likewise). If the first machine fails
  and reports before the second has booted, `leo read` exits with its failure while the
  group is still to have two machines: `ExitIsVerdict` is about one, too.
- The countdown is to a date fixed when the template is made. A spot machine that
  replaces another has the time that is left, where docs/resources/task.md:71 says
  that the countdown is reset.
- An instance of a legacy AWS spot request that was fulfilled while the provider gave
  up, or not yet tagged, is not found by a deletion.
- A legacy machine created as `az` or `k8s` is never deleted: `resourceMachineDelete`
  does not know these names, and a failed apply cannot clean up.
- A machine that boots and ends between two calls of one iteration of `leo read` is
  missed, so that a failed replacement of a reclaimed machine can be taken for the
  verdict too early (`seen`, `lost` in the properties of LeoRead).
- In a GitHub or GitLab pipeline every unnamed task has the same identifier; on
  Bitbucket the identifier is of the person who triggered the step
  (`BITBUCKET_STEP_TRIGGERER_UUID`, resource_task.go:443), so that all of their
  unnamed tasks share resources, in every pipeline (`SharedByName` allows both and no more).
- In CI an unnamed task is identified by that number or person as if it were its
  name: a task whose `name` is the same text shares its resources.
- An unnamed task outside CI has a random identifier, and nothing finds what an apply
  that died left of it (`LeftoversFound`).
- A name of which an identifier keeps nothing, such as `~`, gives one that
  `ParseIdentifier` refuses: Terraform can go on with the task, `leo` and its own
  machines cannot stop it (`IsReachable`).

### Bounds

Two failures are what it takes for an apply and its clean-up to fail, or an apply
and a later destroy; with a crash besides, an apply can die, its successor fail
and the clean-up fail. Deadlines count as failures. A third failure only repeats
one of these shapes, because handlers keep nothing in memory between runs. One
machine and one result are enough for a lifecycle property: machines and results
there are counted or collected, never compared with each other. `MC_Gcp` leaves out the
configurations without workdir or output because the ten resources make programs
of over twenty steps, and fewer steps are a subset of the same behaviour. The
agent needs two machines, since every hazard there is of one machine and another,
two results, so that a directory can be newer than its copy, and two ticks, so
that a machine can boot with all, some or none of its time left. Two pods are
enough for one to start before and one after the upload.

A legacy machine needs two applies, since every one makes a new identifier, and the
second is then under way while the first one's runner still destroys itself. Its ten attributes
are each cloud under each name, as a runner where the wait for one differs, and
spot where an instance can be taken back. `leo read` needs two machines, one to
replace the other, two lines, one before and one after a turn of the log loop, and
one failure, of a transfer or of itself. For identifiers, names of up to four characters
and a `nameLength` of 2 give every case of `normalize`: a name that is cut, a cut that
ends on a dash, names that are alike only once they are cut, one that vanishes, one
that is the number of a pipeline and one that is a person. A task with no name and two
runs tell the pipeline of an apply from that of the next, and one person is
enough to trigger both.

`MaxFailures`, `MaxCrashes`, `MaxResults`, `MaxLines`, `MaxLosses`, `MaxApplies`,
`MaxPipelines`, `ReadsFail` and the sets of machines, tasks and `Triggerers` are the only
bounds; each is a guard of the action it limits. In LeoRead nothing happens after `leo`
has ended. Deadlock is checked for
tasks, where some handler can always begin. It is not for the agent, whose
behaviours end when the group is empty and the machines are used up, for `leo read`,
which ends, and for legacy machines and identifiers, whose applies are used up.

The MC modules of the clouds tabulate the programs by configuration, so that TLC
builds them once; the tables are the operators of AwsTask, GcpTask and AzTask.

### Fairness

`DestroyConverges` assumes weak fairness of the provider, that is, of a process that
runs, and strong fairness of `Destroy`: the user runs `terraform destroy` again and
again. It assumes nothing of applies, failures, crashes or machines. `EndsOrIdles`
assumes weak fairness of the clock, the unit, each of the two loops and the group's
boots and terminations: systemd, bash and the cloud keep running. It assumes strong fairness of
`Shutdown`, whose guard is that no rclone runs: a script that never stops writing to its log keeps the
log loop at syncing, but the loop sleeps five seconds between two turns and the shutdown looks every
second, so that it sees one of the pauses. `DestroyConverges` of
LegacyMachine assumes weak fairness of the provider and of what each cloud has accepted
(a group that is being deleted goes, a spot request is fulfilled, a pod starts), and
strong fairness of `Destroy`. `FollowEnds` assumes weak fairness of `leo read` and of the
group's terminations, and nothing of the machines. It does not
assume that the script exits, that the log loop of a machine ever gets its turn, or that a
machine is ever reclaimed.

## What is proved

Every invariant and every action property of a passing run is a theorem. The theorems
are the same in form: an inductive invariant `IInv`, which TLC first checked on the
instance of the run, one lemma per action that says that it preserves it, and the
property from it.

### The task lifecycle

`TaskLifecycle_proofs` and `TaskContract_proofs` are about TaskLifecycle with any programs, any number of resources, machines, results,
failures and crashes. They rest on the named assumptions of TaskLifecycle, which
TLC evaluates for the programs of the three clouds:

- `ConstantsTyped`, `ProgramsTyped`: types;
- `ProgramsSeparate`: only Create creates, only Delete deletes, Read reads;
- `DeleteCovers`: Delete deletes all that Create creates, readable or not;
- `CreateOrdered`, `DeleteOrdered`: needs are created before and deleted after;
- `NeedsVerified`: nothing is built on a resource whose creation is not verified;
- `StorageNeeded`: machines need the bucket, if the task has one of its own;
- `PullFirst`: Delete downloads before it empties or deletes the bucket;
- `PushFirst`: Create uploads the workdir before it starts the group, which is
  built on the bucket, whoever owns that;
- `CreateOnce`: Create has one step for each resource.

So an added resource, or a new cloud, gets the theorems for checking these few
facts about its steps.

| theorem | statement |
|---|---|
| `TypeCorrect` | `Spec => []TypeOK` |
| `InductiveInvariant` | `Spec => [](TypeOK /\ IInv)` |
| `NoOrphansHolds` | `Spec => []NoOrphans` |
| `DependencyClosedHolds` | `Spec => []DependencyClosed` |
| `MachinesHaveStorageHolds` | `Spec => []MachinesHaveStorage` |
| `PulledBeforeErasedHolds` | `Spec => []PulledBeforeErased` |
| `BootsAfterUploadHolds` | `Spec => BootsAfterUpload` |
| `AppliedIsCompleteHolds` | `Spec => AppliedIsComplete` |
| `ContractImplemented` | `Spec => ImplementsContract` |

Neither `NoOrphans` nor `DependencyClosed` is inductive: that nothing is left when
a delete returns depends on what every earlier step of it did. `IInv` says so. Its
parts are `OnlyOwned` (what exists is of this task), `CreatedSoFar` (while a create
runs, what its earlier steps create exists, unless it was not verified),
`DeletedSoFar` (while a delete runs, what its earlier steps delete is gone),
`MachinesInGroup` (machines only in a group that exists), `Tracked` (something exists only if
Terraform knows, a handler runs, or an apply died), and `DependencyClosed` itself. Creation
preserves it because the needs of a resource come earlier in the program
(`CreateOrdered` with `CreatedSoFar`), deletion because whatever is built on a
resource is gone by then (`DeleteOrdered` with `DeletedSoFar`). When a delete
returns, `DeletedSoFar` covers the whole program, `DeleteCovers` and `OnlyOwned`
leave nothing, and `Tracked` holds of a forgotten task. The theorem on the data is
of the same kind, with `PulledSoFar`: once the step that downloads is behind, what
was owed is saved. `ContractImplemented` maps each action to one of TaskContract's
or to a stutter, `CreateReturns` to `Achieve` by `CreatedSoFar`, `DeleteReturns` to
`Forget` by the argument above.

`BootsAfterUpload` rests on `UploadInv`: a group with a capacity exists and its
workdir was uploaded (`InputInv`), and while a create runs whatever push is behind
has been done (`PushedSoFar`). Only `StepStart` gives a group capacity, and by
`PushFirst` a push is behind then; only the deletion of the bucket takes the upload away,
and by `DeleteOrdered` with `DeletedSoFar` the group is gone before. `AppliedIsComplete`
rests on `CompleteInv`, about an apply where none died before: the creation at hand has made
fewer calls than it has (`PartInv`), those behind have made all (`CompletedSoFar`),
and what exists was made by this apply (`MadeByApply`), so that there is nothing to
adopt. It begins with nothing by `NoOrphans`, and later steps do not touch what earlier ones
made because of `CreateOnce`.

### The machine agent

`MachineAgent_proofs` is about MachineAgent with any number of machines to take
one another's place, any timeout and any number of results and failures. It needs only
`AgentConstants`, the types of its constants.

| theorem | statement |
|---|---|
| `TypeCorrect` | `Spec => []TypeOK`, for any parallelism |
| `InductiveInvariant` | with `Parallelism = 1`: `Spec => [](TypeOK /\ IInv)` |
| `StoppedIsReportedHolds` | with `Parallelism = 1`: `Spec => []StoppedIsReported` |
| `OneLogHolds` | with `Parallelism = 1`: `Spec => []OneLogPerMachine` |
| `ResultsStayHolds` | with `Parallelism = 1`: `Spec => ResultsStay` |
| `RunsToCompletionHolds` | with `Parallelism = 1`: `Spec => RunsToCompletion` |

`Parallelism = 1` is an assumption of the theorems and not of the module, because the code
allows more and `agent_parallel_stop` shows that it then does not keep the last of
them. The inductive invariant says why one machine is different. `AtMostOne`: the
group replaces a machine only when it is gone. `UnitPhases`: the loops run while the unit
is there, and a unit that stopped has a verdict. `HasBucket`: unless a transfer
failed, a machine has all that is in the bucket from the moment its download ended,
and so has the listing its sync works from; the sync deletes what is not in the
listing, hence nothing (`ResultsStay`). `OwnLogs`: the log loop of a machine, and a sync that it
has begun, have no files but those of this machine, and delete none of them; after a turn since the
unit stopped the log is in the directory or on its way. `HasReported`: past ExecStop the
status is in the bucket, and past the shutdown, which saw both loops have their turn and no rclone
run, the log too. `StoppedByLast`: the machine that stopped the group reported both, and it is the
last one there, so that nobody is left whose log loop could delete them.

### Kubernetes

`K8sTask_proofs` is about K8sTask with any number of tasks in one provider process, of
pods, results, failures and crashes, from `ConstantsTyped`, the types of its constants.

| theorem | statement |
|---|---|
| `TypeCorrect` | `Spec => []TypeOK` |
| `InductiveInvariant` | `Spec => [](TypeOK /\ IInv)` |
| `NoOrphansHolds` | `Spec => []NoOrphans` |
| `JobHasVolumesHolds` | `Spec => []JobHasVolumes` |
| `DestroyDownloadsHolds` | `Spec => DestroyDownloads` |
| `QuietAfterPullHolds` | with `Alone`: `Spec => []QuietAfterPull` |
| `AppliedRunsScriptHolds` | with `Alone`: `Spec => AppliedRunsScript` |

The first five need nothing of the process environment: whatever variables another task has
set, a creation makes some job, and `IInv` is about whether there is one and not about
which. It says of each task what the steps behind `pc` have made (`CreatedInv`),
found (`FoundInv`) or deleted (`DeletedInv`), at the places where the programs have
them, so that the job is deleted before the volumes and made after them
(`VolumesInv`), and that what a destroy owes stays in the volume until it is downloaded
(`OwedInv`). `CalmInv` says that as long as nothing failed every Read succeeds: a Delete
downloads then. The last two are about which job there is, and do not hold of two tasks in one
process (`k8s_environ`). `Alone`, that all tasks are the same one, is an assumption of
these theorems and not of the module; the run `k8s_task` has one task. With it `EnvironInv` holds:
outside a step no variable is set, and inside it those of the step.

### Legacy machines

`LegacyMachine_proofs` is about LegacyMachine with any attributes, applies, failures and
crashes, from `ConstantsTyped`.

| theorem | statement |
|---|---|
| `InductiveInvariant` | `Spec => [](TypeOK /\ IInv)` |
| `TypeCorrect` | `Spec => []TypeOK` |
| `NothingForgottenHolds` | `Spec => []NothingForgotten` |
| `RunnerIsReadyHolds` | `Spec => RunnerIsReady` |

`Shape` says what can be left on each cloud (on Azure nothing outside the resource
group, on AWS no instance that is not tagged but of a spot request), `CreatingInv` that a
create begins with nothing, `DeletingInv` what the steps of a deletion that are behind have
deleted, unless an error was swallowed. The runner that destroys itself meanwhile
only takes away, or puts a group into `deleting`, and preserves all three.

### `leo read`

`LeoRead_proofs` is about LeoRead with any number of machines, lines, losses and
failures, from `ReadConstants`, the types of its constants.

| theorem | statement |
|---|---|
| `InductiveInvariant` | `Spec => [](TypeOK /\ IInv)` |
| `TypeCorrect` | `Spec => []TypeOK` |
| `ExitIsVerdictHolds` | `Spec => []ExitIsVerdict` |
| `PrintsAllHolds` | `Spec => []PrintsAll` |
| `PrintsOnceHolds` | `Spec => []PrintsOnce` |

The argument is one of order. `LoneInv`: where one machine is to run and none is
reclaimed, there is only ever one, and a reader that saw it and now counts none sees a machine
that is gone. Hence a reader that counted none before it reads the logs gets them as they
stay in the bucket (`AllInv`), and a status read after that is final (`VerdictInv`). `CopyInv`: if no
transfer failed and no sync ran across the end of the script (`late`), the machine goes only
after its log loop had a turn that copied what the script wrote last, so that a machine
that is gone has its whole log in the bucket.
`PrintsOnce` needs none of this: `got` is the log to some line, and what was printed
ends where `last` says (`PrintInv`). The log of several machines is a flattened sequence, of which
the proofs need the length, and that of one machine alone.

### Identifiers

`TaskIdentity_proofs` is about TaskIdentity with names of any length, any `nameLength` above 1, and any
number of tasks, runs, Bitbucket users and applies, from `IdentityConstants`: the types, that a name
does not have the mark `uid` that the model gives the seed of a random identifier, that what CI says
of a run has letters and digits, and that numbers differ as texts.

| theorem | statement |
|---|---|
| `NormalizeForm` | what `normalize` makes of a text is `Normal`, and not empty if the text has a letter or a digit |
| `NormalizeFixed` | `normalize` leaves a `Normal` text as it is |
| `InductiveInvariant` | `Spec => []IInv` |
| `TypeCorrect` | `Spec => []TypeOK` |
| `KeepsIdentifierHolds` | `Spec => []KeepsIdentifier` |
| `LeftoversFoundHolds` | `Spec => []LeftoversFound` |
| `IsReachableHolds` | `Spec => []IsReachable` |
| `SharedByNameHolds` | `Spec => []SharedByName` |

`Normal` is what `WellFormed` asks of a name: no longer than `nameLength`, no dash at either
end, no two in a row. The cut may leave a dash at the end, which the trim takes off; since no
two dashes follow one another, one trim is enough, and with a `nameLength` above 1 a letter or
digit survives the cut. By `NormalizeFixed` an identifier that is parsed and printed again is the same (`ParsedAgain`),
on which everything else rests. `IdInv`: what Terraform has was printed from an
identifier, or, if it cannot be parsed, is what the attribute `name` gives again. `ThingInv`: a thing
has the identifier that its name, what CI said of its run or one of the applies gave. `ChanceInv`: a
random identifier is of one task. `SharedByName` follows since digests of different texts
differ.

### Induction over data

Most induction theorems of the library take an operator, which no prover here can
instantiate. `Induction_proofs` has what the other modules need in terms of sets: a set that has 0
and with each number the next has every number (`SetInduction`, from the library's fact that
the order of the numbers is well founded), and with it that a function defined by recursion over
`0 .. n` exists (`RecursionExists`). So the recursive functions of the models (`Dashed`, and the
flattening of a sequence of sequences) can be unfolded.

### What stays with TLC

`DestroyConverges` (of TaskLifecycle and of LegacyMachine), `EndsOrIdles` and `FollowEnds`: liveness
is beyond the prover. That the programs of the three clouds satisfy the assumptions of
TaskLifecycle: TLC evaluates them, for each of the configurations. The four violations, which
are traces of small instances.

## What is assumed or left out

- In TaskLifecycle a task is named, or CI says the same of every run: its identifier is then
  the same in every run, and an apply meets what a dead one left. TaskIdentity says
  (`LeftoversFound`) that this is so, and of which tasks it is not.
- Identifiers: two digests of eight characters are different if the texts are; the
  prefix, of which any three characters are accepted, and the random names are left out. A Bitbucket user is a
  letter, where the code has a UUID in braces. `leo create` is taken without a name: the cases of
  create.go:111-114, which are those of a task's `name`, are left out.
- `Upload` of TaskLifecycle only adds results. Of the agents this holds as long as
  there is one machine at a time and no transfer fails (`ResultsStay`), and not with
  `parallelism` above 1. It also fails after a failed
  download: the exit status of the first `rclone copy` is ignored, and the first
  sync makes the bucket equal to an empty directory.
- Azure: `VirtualNetwork.Create` takes any error of its read for absence, and would
  overwrite a network that has subnets; deleting a resource group deletes what is
  in it. Neither is modelled: a group is deleted last anyway.
- GCP's waits with a timeout of their own are covered by a step that fails after it
  took effect. An asynchronous creation that ends after its handler gave up
  is not: an effect is there when the call that caused it returns.
- rclone: a sync is a listing, copies in any order and a deletion. `machine.Delete`
  is one step. Filters, excludes and path handling are left out, and the
  contents of files with them.
- The sync of the log directory lists both sides at once, where rclone lists them one after the
  other, and deletes in one step. In LeoRead it is a copy and a deletion, since
  there are at most two files of a machine. The log file has no contents in MachineAgent: that it got
  longer is that a turn may begin a sync.
- In the agent, `checked` stands for the 20 seconds that `tpi-task-shutdown` waits, twice
  the period of the data loop and four times that of the log loop: a loop has its turn in between,
  unless a sync of its own was running. A `leo stop` killed at the unit's stop timeout is a `leo stop` that fails.
- Kubernetes: `workdir` in the form class:size:path, and a `Job.Delete` whose wait
  is cut short while the cluster goes on deleting. Copying from a directory that
  does not exist is taken to fail; it does so every time, so that a task whose upload failed
  cannot be destroyed. The race between the upload and the pods that erase the
  directory is in the model, and no property is claimed of the uploaded directory.
- Legacy machines: instance types, images, prices, subnets and the provisioning script
  of a runner are steps that succeed or fail. `iterative_machine` and the runner have no
  Read that does anything. Waits of a cloud's own are covered by a step that fails after it took effect.
- `leo read`: one line is like another, a log is read whole, and a log report is a file of its
  machine. `leo create` and `leo delete` are the methods of TaskLifecycle without
  Terraform's state; of them TaskIdentity has the identifiers.
- Not modelled: values, matching of environment variables and SSH keys (functions without
  state, the latter cryptography); analytics, which sends events and changes nothing of a
  task (`wg.Add` after the `go` statement can lose one); logging and the plugin's
  registration.

## Plan

Done, in this order: the lifecycle with AWS, its proofs, the contract, GCP and
Azure, the agent, Kubernetes, legacy machines, `leo read`, identifiers, the proofs of what
an apply does and of the agent, and those of Kubernetes, legacy machines, `leo read` and
identifiers. The proofs found three things to correct in the models: a `CASE` in LegacyMachine
whose arms overlapped, `ExitIsVerdict`, which is false of two machines and had only been checked of
one, and `SharedByName`, which is false of a task named after a pipeline and had only been
checked without such a name. Reading the models against the code again added the sync of the log
as steps of its own, in MachineAgent and across the end of the script in LeoRead, and Bitbucket
to TaskIdentity. Next, by importance:

1. that the step programs of AWS, GCP and Azure satisfy the assumptions of TaskLifecycle,
   proved and not only evaluated;
2. on Kubernetes, the two variables of a download set one after the other, and
   runs in which two tasks transfer at once; networks with subnets on Azure;
3. analytics: the wait group and the goroutines.
