------------------------------ MODULE MC_Agent ------------------------------
(* Model values for MachineAgent: the machines are interchangeable. *)
EXTENDS MachineAgent, TLC

AnyMachine == Permutations(Machines)
==============================================================================
