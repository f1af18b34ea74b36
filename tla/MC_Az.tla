-------------------------------- MODULE MC_Az --------------------------------
(* A task on Microsoft Azure, in every configuration, for model checking. *)
EXTENDS TaskLifecycle, AzTask

AllConfigs == [own : BOOLEAN, workdir : BOOLEAN, output : BOOLEAN]

\* TLC evaluates a constant once, an operator at every use.
CreateTable == [c \in AllConfigs |-> AzCreate(c)]
ReadTable   == [c \in AllConfigs |-> AzRead(c)]
DeleteTable == [c \in AllConfigs |-> [b \in BOOLEAN |-> AzDelete(c, b)]]
CreateProgram(c)    == CreateTable[c]
ReadProgram(c)      == ReadTable[c]
DeleteProgram(c, b) == DeleteTable[c][b]
==============================================================================
