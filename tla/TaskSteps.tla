------------------------------ MODULE TaskSteps ------------------------------
(***************************************************************************)
(* The vocabulary in which a cloud provider package (task/aws, task/gcp,   *)
(* task/az) writes its Create, Read and Delete methods: each of them fills *)
(* a slice of common.Step and hands it to common.RunSteps.  A step is a    *)
(* record; what the methods it calls do is told by its kind.               *)
(*                                                                         *)
(*   lookup   reads something the task does not own (an image, a network)  *)
(*   read     the Read method of a resource of the task                    *)
(*   create   the Create method; calls is the number of API calls it makes *)
(*            in a row, onExisting what it does about a resource that is   *)
(*            already there: "adopt" reads it, "upsert" writes it again    *)
(*   delete   the Delete method; an absent resource counts as deleted      *)
(*   push, pull, empty   machine.Transfer and machine.Delete               *)
(*   start    sets the capacity of the group of machines                   *)
(***************************************************************************)
EXTENDS Naturals, Sequences

Kinds == {"lookup", "read", "create", "delete", "push", "pull", "empty", "start"}

NoResource == "none"

\* common.Step: an action with a description; the description is the record.
StepRecord(kind, res, calls, onExisting) ==
  [kind |-> kind, res |-> res, calls |-> calls, onExisting |-> onExisting]

Lookup == StepRecord("lookup", NoResource, 0, "")
Push   == StepRecord("push", NoResource, 0, "")
Pull   == StepRecord("pull", NoResource, 0, "")
Empty  == StepRecord("empty", NoResource, 0, "")
Start  == StepRecord("start", NoResource, 0, "")

Read(r)   == StepRecord("read", r, 0, "")
Delete(r) == StepRecord("delete", r, 0, "")
Create(r, calls, onExisting) == StepRecord("create", r, calls, onExisting)

\* A step that is appended to the slice only under a condition.
OnlyIf(condition, step) == IF condition THEN <<step>> ELSE <<>>

\* The resources a program creates, and those it deletes.
Creates(program) ==
  {program[i].res : i \in {j \in DOMAIN program : program[j].kind = "create"}}
Deletes(program) ==
  {program[i].res : i \in {j \in DOMAIN program : program[j].kind = "delete"}}
==============================================================================
