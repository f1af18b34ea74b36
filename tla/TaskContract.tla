----------------------------- MODULE TaskContract -----------------------------
(***************************************************************************)
(* What the provider promises to Terraform about one iterative_task, seen  *)
(* from outside: which resources exist in the cloud, what the Terraform    *)
(* state says, and which operation is in progress.  TaskLifecycle          *)
(* implements it.                                                          *)
(***************************************************************************)
CONSTANTS
  Things,             \* the cloud resources a task may have
  Unverified          \* those whose creation nobody verifies

VARIABLES
  wanted,             \* those this task has
  present,            \* those that exist
  known,              \* the task in the Terraform state: absent, present, tainted
  operation,          \* none, apply, refresh, destroy
  lost                \* an apply died, so there may be things Terraform ignores

contractVars == <<wanted, present, known, operation, lost>>

Init ==
  /\ wanted \in SUBSET Things /\ present = {}
  /\ known = "absent" /\ operation = "none" /\ lost = FALSE

Begin(op) ==
  /\ operation = "none"
  /\ (op = "apply") <=> (known = "absent")
  /\ operation' = op
  /\ UNCHANGED <<wanted, present, known, lost>>

\* Only an apply makes things.
Make ==
  /\ operation = "apply"
  /\ \E t \in wanted : present' = present \union {t}
  /\ UNCHANGED <<wanted, known, operation, lost>>

\* A destroy unmakes them, and so does an apply that cleans up after itself.
Unmake ==
  /\ operation \in {"apply", "destroy"}
  /\ \E t \in present : present' = present \ {t}
  /\ UNCHANGED <<wanted, known, operation, lost>>

\* An apply succeeds with everything in place, as far as anyone looked.
Achieve ==
  /\ operation = "apply"
  /\ present \subseteq wanted /\ wanted \ present \subseteq Unverified
  /\ known' = "present" /\ operation' = "none"
  /\ UNCHANGED <<wanted, present, lost>>

\* Terraform forgets the task only when nothing of it is left.
Forget ==
  /\ operation \in {"apply", "destroy"} /\ present = {}
  /\ known' = "absent" /\ operation' = "none" /\ lost' = FALSE
  /\ UNCHANGED <<wanted, present>>

\* An operation that fails leaves a task Terraform knows of.
Fail ==
  /\ operation \in {"apply", "destroy"}
  /\ present' \subseteq present
  /\ known' = IF operation = "apply" THEN "tainted" ELSE known
  /\ operation' = "none"
  /\ UNCHANGED <<wanted, lost>>

\* A refresh reports what it can and changes nothing.
Report ==
  /\ operation = "refresh"
  /\ operation' = "none"
  /\ UNCHANGED <<wanted, present, known, lost>>

\* The provider process dies: Terraform keeps what it knew before.
Die ==
  /\ operation # "none"
  /\ operation' = "none" /\ lost' = (lost \/ operation = "apply")
  /\ UNCHANGED <<wanted, present, known>>

Next ==
  \/ \E op \in {"apply", "refresh", "destroy"} : Begin(op)
  \/ Make \/ Unmake \/ Achieve \/ Forget \/ Fail \/ Report \/ Die

Spec == Init /\ [][Next]_contractVars
==============================================================================
