------------------------------ MODULE MC_Legacy ------------------------------
(* Instances of LegacyMachine: each cloud by each of its names, as a runner if *)
(* the wait for it differs, and spot where an instance is taken back.          *)
EXTENDS LegacyMachine

Attributes(cloud, spot, runner) ==
  [cloud |-> cloud, spot |-> spot, runner |-> runner, accepted |-> TRUE]

AllConfigs ==
  {Attributes(cloud, FALSE, TRUE) : cloud \in {"aws", "az", "gcp", "kubernetes", "k8s"}}
  \union {Attributes("azure", TRUE, TRUE), Attributes("aws", TRUE, FALSE)}
  \union {Attributes("kubernetes", FALSE, FALSE), Attributes("other", FALSE, FALSE)}
  \union {[Attributes("kubernetes", FALSE, TRUE) EXCEPT !.accepted = FALSE]}
==============================================================================
