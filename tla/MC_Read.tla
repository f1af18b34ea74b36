------------------------------- MODULE MC_Read -------------------------------
(* Instances of LeoRead. *)
EXTENDS LeoRead
==============================================================================
