-------------------------------- MODULE MC_Aws --------------------------------
(* A task on AWS, in every configuration, for model checking. *)
EXTENDS TaskLifecycle, AwsTask

AllConfigs == [own : BOOLEAN, workdir : BOOLEAN, output : BOOLEAN]

\* TLC evaluates a constant once, an operator at every use.
CreateTable == [c \in AllConfigs |-> AwsCreate(c)]
ReadTable   == [c \in AllConfigs |-> AwsRead(c)]
DeleteTable == [c \in AllConfigs |-> [b \in BOOLEAN |-> AwsDelete(c, b)]]
CreateProgram(c)    == CreateTable[c]
ReadProgram(c)      == ReadTable[c]
DeleteProgram(c, b) == DeleteTable[c][b]

\* A task that uploads its workdir to a bucket of its own and wants its output.
FullConfig == [own : {TRUE}, workdir : {TRUE}, output : {TRUE}]
==============================================================================
