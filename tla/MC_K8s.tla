-------------------------------- MODULE MC_K8s --------------------------------
EXTENDS K8sTask

AllConfigs == [own : BOOLEAN, workdir : BOOLEAN, output : BOOLEAN]

\* Tasks with a claim of their own, a working directory and an output.
OutputConfigs == [own : {TRUE}, workdir : {TRUE}, output : {TRUE}]
===============================================================================
