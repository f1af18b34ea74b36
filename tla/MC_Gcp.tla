-------------------------------- MODULE MC_Gcp --------------------------------
(* A task on Google Cloud Platform, for model checking. *)
EXTENDS TaskLifecycle, GcpTask

\* TLC evaluates a constant once, an operator at every use.
AllConfigs  == [own : BOOLEAN, workdir : BOOLEAN, output : BOOLEAN]
CreateTable == [c \in AllConfigs |-> GcpCreate(c)]
ReadTable   == [c \in AllConfigs |-> GcpRead(c)]
DeleteTable == [c \in AllConfigs |-> [b \in BOOLEAN |-> GcpDelete(c, b)]]
CreateProgram(c)    == CreateTable[c]
ReadProgram(c)      == ReadTable[c]
DeleteProgram(c, b) == DeleteTable[c][b]

\* Tasks that upload a workdir and want an output, with a bucket of their own or a
\* pre-allocated one, which Delete empties too.
UploadConfigs == [own : BOOLEAN, workdir : {TRUE}, output : {TRUE}]
==============================================================================
