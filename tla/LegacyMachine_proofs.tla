------------------------- MODULE LegacyMachine_proofs -------------------------
(***************************************************************************)
(* Theorems about LegacyMachine, for any attributes and any number of      *)
(* applies, failures and crashes: what Terraform has forgotten is gone, or *)
(* is one of the three exceptions that NothingForgotten names, and a runner *)
(* that was applied had reported that it is ready.                          *)
(***************************************************************************)
EXTENDS LegacyMachine, SequenceTheorems, TLAPS

------------------------------------------------------------------------------
(* The inductive invariant. *)

creates == CreatesOn(conf.cloud)
deletes == DeletesOn(conf.cloud)
SpotRequest == conf.cloud = "aws" /\ conf.spot

HandlerInv ==
  /\ run.stage = "none" <=> run.handler = "none"
  /\ run.stage \in {"create", "wait"} => run.handler = "apply"
  /\ run.handler = "apply" => tf = "absent" /\ id \in Ids
  /\ run.handler = "destroy" => tf # "absent"
  /\ run.stage = "none" => run = Idle
  /\ tf # "absent" => id \in Ids

\* What may exist in each cloud: on Azure nothing without the resource group, on
\* Kubernetes nothing without the job, and on AWS no untagged instance but of a
\* spot request.
Shape(i) ==
  /\ creates = "unknown" \/ ~conf.accepted => things[i] = {}
  /\ creates = "aws" =>
       /\ things[i] \subseteq {"keyPair", "request", "instance", "tag"}
       /\ ~conf.spot => "request" \notin things[i] /\ ("instance" \in things[i] => "tag" \in things[i])
  /\ creates = "azure" =>
       /\ things[i] \subseteq {"group", "nsg", "ip", "vnet", "subnet", "nic", "instance", "deleting"}
       /\ things[i] # {} => "group" \in things[i]
  /\ creates = "gcp" => things[i] \subseteq {"egress", "ingress", "instance"}
  /\ creates = "kubernetes" =>
       /\ things[i] \subseteq {"job", "pod", "ready", "deleting"}
       /\ things[i] # {} => "job" \in things[i]

\* An identifier that is still to be made is that of nothing.
Fresh(i) == i > id => things[i] = {}

\* A create begins with nothing, and the group of Azure is there until the machine
\* is, which could delete it.
CreatingInv ==
  run.stage = "create" =>
    /\ run.pc = 1 => things[id] = {}
    /\ creates = "azure" /\ run.pc \in 2 .. 7 =>
         things[id] \intersect {"group", "instance", "deleting"} = {"group"}

\* What the steps of a deletion that are behind have deleted, unless an error of
\* one of them was ignored.
DeletingInv ==
  run.stage = "delete" /\ id \notin swallowed =>
    /\ deletes = "aws" => /\ run.pc > 1 => "keyPair" \notin things[id]
                          /\ run.pc > 3 => "tag" \notin things[id]
    /\ deletes = "azure" => (run.pc > 2 => things[id] = {} \/ "deleting" \in things[id])
    /\ deletes = "gcp" => /\ run.pc > 2 => "instance" \notin things[id]
                          /\ run.pc > 3 => "ingress" \notin things[id]
                          /\ run.pc > 4 => "egress" \notin things[id]
    /\ deletes = "kubernetes" => (run.pc > 3 => things[id] = {})

\* What NothingForgotten says of an identifier.
Clean(i) ==
  "deleting" \notin things[i] =>
    IF SpotRequest THEN things[i] \subseteq {"request", "instance"} ELSE things[i] = {}

ForgottenInv(i) == Forgotten(i) /\ i \notin dangling \union swallowed => Clean(i)

\* What a call of a handler may do to the things of its identifier.
Effected == [things EXCEPT ![id] = Effect(@, Here)]

IInv ==
  /\ HandlerInv /\ CreatingInv /\ DeletingInv
  /\ \A i \in Ids : Shape(i) /\ Fresh(i) /\ ForgottenInv(i)
------------------------------------------------------------------------------
(* The programs. *)

\* The names of the clouds.
LEMMA Clouds ==
  ASSUME NEW cloud
  PROVE  /\ CreatesOn(cloud) \in {"aws", "azure", "gcp", "kubernetes", "unknown"}
         /\ DeletesOn(cloud) \in {"aws", "azure", "gcp", "kubernetes", "unknown"}
         /\ DeletesOn(cloud) # "unknown" => DeletesOn(cloud) = CreatesOn(cloud)
         /\ CreatesOn(cloud) = "aws" <=> cloud = "aws"
         /\ CreatesOn(cloud) = "gcp" <=> cloud = "gcp"
BY DEF CreatesOn, DeletesOn

AwsThings == {"keyPair", "request", "instance", "tag"}
AzureParts == {"nsg", "ip", "vnet", "subnet", "nic"}

\* What each cloud's create makes, and where.
LEMMA AwsPlaces ==
  ASSUME NEW spot \in BOOLEAN, NEW P, P = AwsCreate(spot)
  PROVE  /\ Len(P) \in 6 .. 9 /\ DOMAIN P = 1 .. Len(P)
         /\ \A i \in 1 .. Len(P) :
              /\ P[i].call \in {"look", "try", "make", "fulfilled", "seek", "find"}
              /\ P[i].call # "look" => P[i].thing \in AwsThings
              /\ P[i].call \in {"try", "make"} /\ ~spot => P[i].thing \in {"keyPair", "instance"}
<1>1. CASE spot
  BY <1>1, SMT DEF AwsCreate, Step, Look, AwsThings
<1>2. CASE ~spot
  BY <1>2, SMT DEF AwsCreate, Step, Look, AwsThings
<1>3. QED
  BY <1>1, <1>2

LEMMA AzurePlaces ==
  ASSUME NEW P, P = AzureCreate
  PROVE  /\ Len(P) = 8 /\ DOMAIN P = 1 .. 8
         /\ P[1].call = "make" /\ P[1].thing = "group"
         /\ \A i \in 2 .. 6 : P[i].call \in {"ensure", "make"} /\ P[i].thing \in AzureParts
         /\ P[7].call = "make" /\ P[7].thing = "instance"
         /\ P[8].call = "seek" /\ P[8].thing = "instance"
BY SMT DEF AzureCreate, Step, AzureParts

LEMMA GcpPlaces ==
  ASSUME NEW P, P = GcpCreate
  PROVE  /\ Len(P) = 5 /\ DOMAIN P = 1 .. 5
         /\ \A i \in 1 .. 5 :
              /\ P[i].call \in {"look", "make", "seek"}
              /\ P[i].call # "look" => P[i].thing \in {"egress", "ingress", "instance"}
BY SMT DEF GcpCreate, Step, Look

LEMMA KubernetesPlaces ==
  ASSUME NEW P, P = KubernetesCreate
  PROVE  /\ Len(P) = 3 /\ DOMAIN P = 1 .. 3
         /\ \A i \in 1 .. 3 :
              /\ P[i].call \in {"look", "make", "pods"}
              /\ P[i].call # "look" => P[i].thing = "job"
BY SMT DEF KubernetesCreate, Step, Look

\* The step of a create.
LEMMA CreateStep ==
  ASSUME TypeOK, run.stage = "create", Running,
         NEW call, call = Here.call, NEW thing, thing = Here.thing
  PROVE  /\ run.pc \in 1 .. 9 /\ conf.accepted
         /\ creates \in {"aws", "azure", "gcp", "kubernetes"}
         /\ call \in {"look", "try", "make", "ensure", "fulfilled", "seek", "find", "pods"}
         /\ creates = "aws" /\ call # "look" => thing \in AwsThings
         /\ creates = "aws" /\ ~conf.spot /\ call \in Creating => thing \in {"keyPair", "instance"}
         /\ creates = "azure" =>
              /\ run.pc \in 1 .. 8
              /\ run.pc = 1 => call = "make" /\ thing = "group"
              /\ run.pc \in 2 .. 6 => call \in {"make", "ensure"} /\ thing \in AzureParts
              /\ run.pc = 7 => call = "make" /\ thing = "instance"
              /\ run.pc = 8 => call = "seek" /\ thing = "instance"
         /\ creates = "gcp" /\ call # "look" => thing \in {"egress", "ingress", "instance"}
         /\ creates = "kubernetes" /\ call # "look" => thing = "job"
<1>1. Program = CreateSteps(conf) /\ run.pc \in DOMAIN Program /\ Here = Program[run.pc]
  BY DEF Program, Running, Here
<1>2. creates \in {"aws", "azure", "gcp", "kubernetes", "unknown"}
  BY Clouds DEF creates
<1>3. conf.accepted /\ creates # "unknown"
  <2>1. DOMAIN << >> = {}
    OBVIOUS
  <2>2. ~conf.accepted \/ creates = "unknown" => CreateSteps(conf) = << >>
    BY DEF CreateSteps, creates
  <2>3. QED
    BY <1>1, <2>1, <2>2
<1>4. conf.spot \in BOOLEAN
  BY ConstantsTyped DEF TypeOK
<1>5. CASE creates = "aws"
  <2>1. Program = AwsCreate(conf.spot)
    BY <1>1, <1>3, <1>5 DEF CreateSteps, creates
  <2>2. PICK n \in 6 .. 9 : n = Len(Program) /\ run.pc \in 1 .. n
    BY <1>1, <1>4, <2>1, AwsPlaces
  <2>3. run.pc \in 1 .. 9
    BY <2>2
  <2>4. QED
    BY <1>1, <1>3, <1>4, <1>5, <2>1, <2>2, <2>3, AwsPlaces DEF Creating
<1>6. CASE creates = "azure"
  <2>1. Program = AzureCreate
    BY <1>1, <1>3, <1>6 DEF CreateSteps, creates
  <2>2. run.pc \in 1 .. 8
    BY <1>1, <2>1, AzurePlaces
  <2>3. QED
    BY <1>1, <1>3, <1>6, <2>1, <2>2, AzurePlaces
<1>7. CASE creates = "gcp"
  <2>1. Program = GcpCreate
    BY <1>1, <1>3, <1>7 DEF CreateSteps, creates
  <2>2. QED
    BY <1>1, <1>3, <1>7, <2>1, GcpPlaces
<1>8. CASE creates = "kubernetes"
  <2>1. Program = KubernetesCreate
    BY <1>1, <1>3, <1>8 DEF CreateSteps, creates
  <2>2. QED
    BY <1>1, <1>3, <1>8, <2>1, KubernetesPlaces
<1>9. QED
  BY <1>2, <1>3, <1>5, <1>6, <1>7, <1>8

\* The programs that delete, of the handler and of leo destroy-runner.
LEMMA DeletePlaces ==
  ASSUME NEW cloud, NEW P, P = DeleteSteps(cloud)
  PROVE  /\ Len(P) \in 0 .. 4 /\ DOMAIN P = 1 .. Len(P)
         /\ cloud = "aws" =>
              /\ Len(P) = 3
              /\ P[1].call = "tryDelete" /\ P[1].thing = "keyPair"
              /\ P[2].call = "look" /\ P[2].thing = "none"
              /\ P[3].call = "delete" /\ P[3].thing = "instance"
         /\ cloud = "azure" =>
              /\ Len(P) = 2
              /\ P[1].call = "look" /\ P[1].thing = "none"
              /\ P[2].call = "tryDelete" /\ P[2].thing = "group"
         /\ cloud = "gcp" =>
              /\ Len(P) = 4
              /\ P[1].call = "look" /\ P[1].thing = "none"
              /\ P[2].call = "tryDelete" /\ P[2].thing = "instance"
              /\ P[3].call = "tryDelete" /\ P[3].thing = "ingress"
              /\ P[4].call = "tryDelete" /\ P[4].thing = "egress"
         /\ cloud = "kubernetes" =>
              /\ Len(P) = 3
              /\ P[1].call = "get" /\ P[2].call = "delete" /\ P[3].call = "gone"
              /\ P[1].thing = "job" /\ P[2].thing = "job" /\ P[3].thing = "job"
         /\ cloud \notin {"aws", "azure", "gcp", "kubernetes"} => Len(P) = 0
<1>1. CASE cloud = "aws"
  BY <1>1, SMT DEF DeleteSteps, AwsDelete, Step, Look
<1>2. CASE cloud = "azure"
  BY <1>2, SMT DEF DeleteSteps, AzureDelete, Step, Look
<1>3. CASE cloud = "gcp"
  BY <1>3, SMT DEF DeleteSteps, GcpDelete, Step, Look
<1>4. CASE cloud = "kubernetes"
  BY <1>4, SMT DEF DeleteSteps, KubernetesDelete, Step, Look
<1>5. CASE cloud \notin {"aws", "azure", "gcp", "kubernetes"}
  BY <1>5, SMT DEF DeleteSteps
<1>6. QED
  BY <1>1, <1>2, <1>3, <1>4, <1>5

\* The step of a deletion.
LEMMA DeleteStep ==
  ASSUME TypeOK, run.stage = "delete", Running,
         NEW call, call = Here.call, NEW thing, thing = Here.thing
  PROVE  /\ run.pc \in 1 .. 4 /\ deletes \in {"aws", "azure", "gcp", "kubernetes"}
         /\ creates = deletes
         /\ deletes = "aws" =>
              /\ run.pc \in 1 .. 3
              /\ run.pc = 1 => call = "tryDelete" /\ thing = "keyPair"
              /\ run.pc = 2 => call = "look"
              /\ run.pc = 3 => call = "delete" /\ thing = "instance"
         /\ deletes = "azure" =>
              /\ run.pc \in 1 .. 2
              /\ run.pc = 1 => call = "look"
              /\ run.pc = 2 => call = "tryDelete" /\ thing = "group"
         /\ deletes = "gcp" =>
              /\ run.pc = 1 => call = "look"
              /\ run.pc = 2 => call = "tryDelete" /\ thing = "instance"
              /\ run.pc = 3 => call = "tryDelete" /\ thing = "ingress"
              /\ run.pc = 4 => call = "tryDelete" /\ thing = "egress"
         /\ deletes = "kubernetes" =>
              /\ run.pc \in 1 .. 3 /\ thing = "job"
              /\ run.pc = 1 => call = "get"
              /\ run.pc = 2 => call = "delete"
              /\ run.pc = 3 => call = "gone"
<1>1. /\ Program = DeleteSteps(deletes) /\ run.pc \in DOMAIN Program
      /\ Here = Program[run.pc] /\ run.pc \in 1 .. 10
  BY DEF Program, Running, Here, deletes, TypeOK
<1>2. /\ deletes \in {"aws", "azure", "gcp", "kubernetes", "unknown"}
      /\ deletes # "unknown" => creates = deletes
  BY Clouds DEF creates, deletes
<1>3. PICK n \in 0 .. 4 : n = Len(Program) /\ run.pc \in 1 .. n
  BY <1>1, DeletePlaces
<1>4. run.pc \in 1 .. 4
  BY <1>3
<1>5. deletes # "unknown"
  <2>1. DOMAIN << >> = {}
    OBVIOUS
  <2>2. deletes = "unknown" => Program = << >>
    BY <1>1 DEF DeleteSteps
  <2>3. QED
    BY <1>1, <2>1, <2>2
<1>6. CASE deletes = "aws"
  BY <1>1, <1>2, <1>3, <1>4, <1>6, DeletePlaces
<1>7. CASE deletes = "azure"
  BY <1>1, <1>2, <1>3, <1>4, <1>7, DeletePlaces
<1>8. CASE deletes = "gcp"
  BY <1>1, <1>2, <1>3, <1>4, <1>8, DeletePlaces
<1>9. CASE deletes = "kubernetes"
  BY <1>1, <1>2, <1>3, <1>4, <1>9, DeletePlaces
<1>10. QED
  BY <1>2, <1>5, <1>6, <1>7, <1>8, <1>9

\* Only these two stages have steps.
LEMMA RunningStage ==
  ASSUME TypeOK, Running
  PROVE  run.stage \in {"create", "delete"} /\ run.pc \in 1 .. 9 /\ run # Idle
<1>1. run.stage \in {"create", "delete"}
  <2>1. DOMAIN << >> = {}
    OBVIOUS
  <2>2. QED
    BY <2>1 DEF Running, Program
<1>2. run.pc \in 1 .. 9
  <2>1. CASE run.stage = "create"
    BY <2>1, CreateStep
  <2>2. CASE run.stage = "delete"
    <3>1. run.pc \in 1 .. 4
      BY <2>2, DeleteStep
    <3>2. QED
      BY <3>1
  <2>3. QED
    BY <1>1, <2>1, <2>2
<1>3. Idle.stage = "none"
  BY DEF Idle, Handler
<1>4. QED
  BY <1>1, <1>2, <1>3

------------------------------------------------------------------------------
(* What a call changes. *)

LEMMA EffectOfCreate ==
  ASSUME NEW have, NEW step, step.call \in Creating, NEW now, now = Effect(have, step)
  PROVE  /\ step.thing = "tag" => \/ now = have
                                  \/ "instance" \in have /\ now = have \union {"tag"}
         /\ step.thing = "instance" /\ conf.cloud = "aws" => now = have \union {"instance", "tag"}
         /\ step.thing = "instance" /\ conf.cloud # "aws" => now = have \union {"instance"}
         /\ step.thing \notin {"tag", "instance"} => now = have \union {step.thing}
<1>1. step.call \notin Removing
  BY DEF Creating, Removing
<1>2. CASE step.thing = "tag"
  <2>1. "instance" \in have => now = have \union {"tag"}
    BY <1>1, <1>2 DEF Effect
  <2>2. "instance" \notin have => now = have
    BY <1>1, <1>2 DEF Effect
  <2>3. QED
    BY <1>2, <2>1, <2>2
<1>3. CASE step.thing # "tag"
  <2>1. now = have \union Gives(step.thing)
    BY <1>1, <1>3 DEF Effect
  <2>2. QED
    BY <1>3, <2>1 DEF Gives
<1>4. QED
  BY <1>2, <1>3

LEMMA EffectOfRemove ==
  ASSUME NEW have, NEW step, step.call \in Removing, NEW now, now = Effect(have, step)
  PROVE  /\ step.thing \in {"group", "job"} =>
              now = IF step.thing \in have THEN have \union {"deleting"} ELSE have
         /\ step.thing = "instance" =>
              now = IF conf.cloud = "aws" /\ "tag" \notin have THEN have
                    ELSE have \ {"instance", "tag"}
         /\ step.thing \notin {"group", "job", "instance"} => now = have \ {step.thing}
<1>1. now = Without(have, step.thing)
  BY DEF Effect, Removing, Creating
<1>2. CASE step.thing \in {"group", "job"}
  <2>1. step.thing \in have => now = have \union {"deleting"}
    BY <1>1, <1>2 DEF Without
  <2>2. step.thing \notin have => now = have \ {step.thing}
    BY <1>1, <1>2 DEF Without
  <2>3. step.thing \notin have => have \ {step.thing} = have
    OBVIOUS
  <2>4. QED
    BY <1>2, <2>1, <2>2, <2>3
<1>3. CASE step.thing = "instance"
  <2>1. conf.cloud = "aws" /\ "tag" \notin have => now = have
    BY <1>1, <1>3 DEF Without
  <2>2. ~(conf.cloud = "aws" /\ "tag" \notin have) => now = have \ {"instance", "tag"}
    BY <1>1, <1>3 DEF Without
  <2>3. QED
    BY <1>3, <2>1, <2>2
<1>4. CASE step.thing \notin {"group", "job", "instance"}
  BY <1>1, <1>4 DEF Without
<1>5. QED
  BY <1>2, <1>3, <1>4

LEMMA EffectOfLook ==
  ASSUME NEW have, NEW step, step.call \notin Creating \union Removing
  PROVE  Effect(have, step) = have
BY DEF Effect

\* What a step of a deletion does, of the handler or of leo destroy-runner.
LEMMA DeleteEffect ==
  ASSUME NEW cloud, NEW P, P = DeleteSteps(cloud), NEW n \in DOMAIN P,
         NEW have, NEW now, now = Effect(have, P[n])
  PROVE  /\ cloud \in {"aws", "azure", "gcp", "kubernetes"}
         /\ n = 1 \/ n = 2 \/ n = 3 \/ n = 4
         /\ cloud = "aws" =>
              /\ n \in 1 .. 3
              /\ n = 1 => now = have \ {"keyPair"}
              /\ n = 2 => now = have
              /\ n = 3 => now = IF conf.cloud = "aws" /\ "tag" \notin have THEN have
                              ELSE have \ {"instance", "tag"}
         /\ cloud = "azure" =>
              /\ n \in 1 .. 2
              /\ n = 1 => now = have
              /\ n = 2 => now = IF "group" \in have THEN have \union {"deleting"} ELSE have
         /\ cloud = "gcp" =>
              /\ n = 1 => now = have
              /\ n = 2 => now = IF conf.cloud = "aws" /\ "tag" \notin have THEN have
                              ELSE have \ {"instance", "tag"}
              /\ n = 3 => now = have \ {"ingress"}
              /\ n = 4 => now = have \ {"egress"}
         /\ cloud = "kubernetes" =>
              /\ n \in 1 .. 3
              /\ n \in {1, 3} => now = have
              /\ n = 2 => now = IF "job" \in have THEN have \union {"deleting"} ELSE have
<1>1. /\ Len(P) = 0 \/ Len(P) = 2 \/ Len(P) = 3 \/ Len(P) = 4
      /\ n \in 1 .. Len(P)
      /\ cloud \notin {"aws", "azure", "gcp", "kubernetes"} => Len(P) = 0
  BY DeletePlaces
<1>2. cloud \in {"aws", "azure", "gcp", "kubernetes"} /\ (n = 1 \/ n = 2 \/ n = 3 \/ n = 4)
  BY <1>1
<1> DEFINE step == P[n]
<1>3. /\ step.call \in Removing /\ step.thing \in {"group", "job"} =>
           now = IF step.thing \in have THEN have \union {"deleting"} ELSE have
      /\ step.call \in Removing /\ step.thing = "instance" =>
           now = IF conf.cloud = "aws" /\ "tag" \notin have THEN have
                 ELSE have \ {"instance", "tag"}
      /\ step.call \in Removing /\ step.thing \notin {"group", "job", "instance"} =>
           now = have \ {step.thing}
      /\ step.call \notin Creating \union Removing => now = have
  BY EffectOfRemove, EffectOfLook
<1> HIDE DEF step
<1>4. CASE cloud = "aws"
  <2>1. n \in 1 .. 3
    BY <1>1, <1>4, DeletePlaces
  <2>2. /\ n = 1 => step.call = "tryDelete" /\ step.thing = "keyPair"
        /\ n = 2 => step.call = "look"
        /\ n = 3 => step.call = "delete" /\ step.thing = "instance"
    BY <1>4, DeletePlaces DEF step
  <2>3. QED
    BY <1>2, <1>3, <1>4, <2>1, <2>2 DEF Removing, Creating
<1>5. CASE cloud = "azure"
  <2>1. n \in 1 .. 2
    BY <1>1, <1>5, DeletePlaces
  <2>2. /\ n = 1 => step.call = "look"
        /\ n = 2 => step.call = "tryDelete" /\ step.thing = "group"
    BY <1>5, DeletePlaces DEF step
  <2>3. QED
    BY <1>2, <1>3, <1>5, <2>1, <2>2 DEF Removing, Creating
<1>6. CASE cloud = "gcp"
  <2>1. /\ n = 1 => step.call = "look"
        /\ n = 2 => step.call = "tryDelete" /\ step.thing = "instance"
        /\ n = 3 => step.call = "tryDelete" /\ step.thing = "ingress"
        /\ n = 4 => step.call = "tryDelete" /\ step.thing = "egress"
    BY <1>6, DeletePlaces DEF step
  <2>2. QED
    BY <1>2, <1>3, <1>6, <2>1 DEF Removing, Creating
<1>7. CASE cloud = "kubernetes"
  <2>1. n \in 1 .. 3
    BY <1>1, <1>7, DeletePlaces
  <2>2. /\ n = 1 => step.call = "get"
        /\ n = 2 => step.call = "delete" /\ step.thing = "job"
        /\ n = 3 => step.call = "gone"
    BY <1>7, DeletePlaces DEF step
  <2>3. QED
    BY <1>2, <1>3, <1>7, <2>1, <2>2 DEF Removing, Creating
<1>8. QED
  BY <1>2, <1>4, <1>5, <1>6, <1>7

LEMMA AwsDeleteEffect ==
  ASSUME NEW P, P = DeleteSteps("aws"), NEW n \in DOMAIN P,
         NEW have, NEW now, now = Effect(have, P[n])
  PROVE  /\ n \in 1 .. 3
         /\ n = 1 => now = have \ {"keyPair"}
         /\ n = 2 => now = have
         /\ n = 3 => now = IF conf.cloud = "aws" /\ "tag" \notin have THEN have
                         ELSE have \ {"instance", "tag"}
BY DeleteEffect

LEMMA AzureDeleteEffect ==
  ASSUME NEW P, P = DeleteSteps("azure"), NEW n \in DOMAIN P,
         NEW have, NEW now, now = Effect(have, P[n])
  PROVE  /\ n \in 1 .. 2
         /\ n = 1 => now = have
         /\ n = 2 => now = IF "group" \in have THEN have \union {"deleting"} ELSE have
BY DeleteEffect

\* So it adds nothing but the mark, and takes an instance with its tag.
LEMMA DeleteShrinks ==
  ASSUME NEW cloud, NEW P, P = DeleteSteps(cloud), NEW n \in DOMAIN P,
         NEW have, NEW now, now = Effect(have, P[n])
  PROVE  \/ now = have
         \/ cloud = "azure" /\ "group" \in have /\ now = have \union {"deleting"}
         \/ cloud = "kubernetes" /\ "job" \in have /\ now = have \union {"deleting"}
         \/ cloud \in {"aws", "gcp"} /\ now = have \ {"instance", "tag"}
         \/ cloud = "aws" /\ now = have \ {"keyPair"}
         \/ cloud = "gcp" /\ now = have \ {"ingress"}
         \/ cloud = "gcp" /\ now = have \ {"egress"}
<1>1. /\ cloud \in {"aws", "azure", "gcp", "kubernetes"}
      /\ n = 1 \/ n = 2 \/ n = 3 \/ n = 4
  BY DeleteEffect
<1>2. CASE cloud = "aws"
  BY <1>1, <1>2, DeleteEffect
<1>3. CASE cloud = "azure"
  BY <1>1, <1>3, DeleteEffect
<1>4. CASE cloud = "gcp"
  BY <1>1, <1>4, DeleteEffect
<1>5. CASE cloud = "kubernetes"
  BY <1>1, <1>5, DeleteEffect
<1>6. QED
  BY <1>1, <1>2, <1>3, <1>4, <1>5

LEMMA DeleteShape ==
  ASSUME NEW i \in Ids, TypeOK, Shape(i), conf' = conf,
         NEW P, P = DeleteSteps(creates), NEW n \in DOMAIN P,
         things'[i] = Effect(things[i], P[n])
  PROVE  Shape(i)'
<1>1. creates' = creates
  BY DEF creates
<1>2. \/ things'[i] = things[i]
      \/ creates = "azure" /\ "group" \in things[i] /\ things'[i] = things[i] \union {"deleting"}
      \/ creates = "kubernetes" /\ "job" \in things[i]
           /\ things'[i] = things[i] \union {"deleting"}
      \/ creates \in {"aws", "gcp"} /\ things'[i] = things[i] \ {"instance", "tag"}
      \/ creates = "aws" /\ things'[i] = things[i] \ {"keyPair"}
      \/ creates = "gcp" /\ things'[i] = things[i] \ {"ingress"}
      \/ creates = "gcp" /\ things'[i] = things[i] \ {"egress"}
  BY DeleteShrinks
<1>3. QED
  BY <1>1, <1>2 DEF Shape

\* The program of a deletion, when it has steps, is that of the cloud.
LEMMA DeleteProgram ==
  ASSUME run.stage = "delete", Running
  PROVE  /\ creates = deletes /\ Program = DeleteSteps(creates)
         /\ run.pc \in DOMAIN Program /\ Here = Program[run.pc]
<1>1. Program = DeleteSteps(deletes) /\ run.pc \in DOMAIN Program /\ Here = Program[run.pc]
  BY DEF Program, Running, Here, deletes
<1>2. deletes # "unknown"
  <2>1. DOMAIN << >> = {}
    OBVIOUS
  <2>2. deletes = "unknown" => Program = << >>
    BY <1>1 DEF DeleteSteps
  <2>3. QED
    BY <1>1, <2>1, <2>2
<1>3. QED
  BY <1>1, <1>2, Clouds DEF creates, deletes

\* The things of its identifier that a call of a handler leaves.
LEMMA EffectTyped ==
  ASSUME TypeOK, HandlerInv, Running,
         NEW have, have = things[id], NEW now, now = Effect(have, Here)
  PROVE  /\ id \in Ids /\ have \subseteq Things /\ now \subseteq Things
         /\ "tag" \in now => "instance" \in now
         /\ "ready" \in now => "pod" \in now
<1>1. id \in Ids
  BY RunningStage DEF HandlerInv, TypeOK
<1>2. /\ have \subseteq Things
      /\ "tag" \in have => "instance" \in have
      /\ "ready" \in have => "pod" \in have
  BY <1>1 DEF TypeOK
<1>3. CASE Here.call \in Creating
  <2>1. run.stage = "create"
    <3>1. CASE run.stage = "delete"
      BY <1>3, <3>1, DeleteStep DEF Creating
    <3>2. QED
      BY <3>1, RunningStage
  <2>2. Here.thing \in AwsThings \union AzureParts \union {"group", "egress", "ingress", "job"}
    <3>1. CASE creates = "azure"
      <4>1. run.pc \in 1 .. 8
        BY <2>1, <3>1, CreateStep
      <4>2. run.pc = 1 \/ run.pc \in 2 .. 6 \/ run.pc = 7 \/ run.pc = 8
        BY <4>1
      <4>3. QED
        BY <2>1, <3>1, <4>2, CreateStep DEF AwsThings
    <3>2. CASE creates # "azure"
      <4>1. Here.call # "look"
        BY <1>3 DEF Creating
      <4>2. creates = "aws" => Here.thing \in AwsThings
        BY <2>1, <4>1, CreateStep
      <4>3. creates = "gcp" => Here.thing \in {"egress", "ingress", "instance"}
        BY <2>1, <4>1, CreateStep
      <4>4. creates = "kubernetes" => Here.thing = "job"
        BY <2>1, <4>1, CreateStep
      <4>5. creates \in {"aws", "gcp", "kubernetes"}
        BY <2>1, <3>2, CreateStep
      <4>6. QED
        BY <4>2, <4>3, <4>4, <4>5 DEF AwsThings
    <3>3. QED
      BY <3>1, <3>2
  <2>3. Here.thing \in Things \ {"deleting", "pod", "ready"}
    BY <2>2 DEF AwsThings, AzureParts, Things
  <2>4. \/ now = have
        \/ "instance" \in have /\ now = have \union {"tag"}
        \/ now = have \union {"instance", "tag"}
        \/ now = have \union {"instance"}
        \/ Here.thing \notin {"tag", "instance"} /\ now = have \union {Here.thing}
    BY <1>3, EffectOfCreate
  <2>5. now \subseteq Things
    BY <1>2, <2>3, <2>4 DEF Things
  <2>6. "tag" \in now => "instance" \in now
    BY <1>2, <2>4
  <2>7. "ready" \in now => "pod" \in now
    BY <1>2, <2>3, <2>4
  <2>8. QED
    BY <1>1, <1>2, <2>5, <2>6, <2>7
<1>4. CASE run.stage = "delete"
  <2>1. \/ now = have
        \/ now = have \union {"deleting"}
        \/ now = have \ {"instance", "tag"}
        \/ \E x \in {"keyPair", "ingress", "egress"} : now = have \ {x}
    BY <1>4, DeleteProgram, DeleteShrinks
  <2>2. QED
    BY <1>1, <1>2, <2>1 DEF Things
<1>5. CASE run.stage = "create" /\ Here.call \notin Creating
  <2>1. Here.call \notin Creating \union Removing
    BY <1>5, CreateStep DEF Removing
  <2>2. QED
    BY <1>1, <1>2, <2>1, EffectOfLook
<1>6. QED
  BY <1>3, <1>4, <1>5, RunningStage

\* They are of the shape of the cloud.
LEMMA EffectShape ==
  ASSUME TypeOK, HandlerInv, CreatingInv, Shape(id), Running, conf' = conf, id' = id,
         things' = Effected, NEW have, have = things[id], NEW now, now = Effect(have, Here)
  PROVE  Shape(id)'
<1>1. id \in Ids /\ things'[id] = now
  BY EffectTyped DEF Effected, TypeOK
<1>2. creates' = creates
  BY DEF creates
<1>3. creates = "aws" <=> conf.cloud = "aws"
  BY Clouds DEF creates
<1>4. CASE run.stage = "create"
  <2>1. conf.accepted /\ creates \in {"aws", "azure", "gcp", "kubernetes"}
    BY <1>4, CreateStep
  <2>2. CASE Here.call \notin Creating
    <3>1. now = have
      <4>1. Here.call \notin Removing
        BY <1>4, CreateStep DEF Removing
      <4>2. QED
        BY <2>2, <4>1, EffectOfLook
    <3>2. QED
      BY <1>1, <1>2, <3>1 DEF Shape
  <2>3. CASE Here.call \in Creating
    <3>1. Here.call # "look"
      BY <2>3 DEF Creating
    <3>2. /\ Here.thing = "tag" => \/ now = have
                                   \/ "instance" \in have /\ now = have \union {"tag"}
          /\ Here.thing = "instance" /\ conf.cloud = "aws" => now = have \union {"instance", "tag"}
          /\ Here.thing = "instance" /\ conf.cloud # "aws" => now = have \union {"instance"}
          /\ Here.thing \notin {"tag", "instance"} => now = have \union {Here.thing}
      BY <2>3, EffectOfCreate
    <3>3. CASE creates = "aws"
      <4>1. /\ Here.thing \in AwsThings
            /\ ~conf.spot => Here.thing \in {"keyPair", "instance"}
        BY <1>4, <2>3, <3>1, <3>3, CreateStep
      <4>2. now \subseteq AwsThings
        BY <3>2, <3>3, <4>1 DEF Shape, AwsThings
      <4>3. ~conf.spot => "request" \notin now /\ ("instance" \in now => "tag" \in now)
        BY <1>3, <3>2, <3>3, <4>1 DEF Shape, AwsThings
      <4>4. QED
        BY <1>1, <1>2, <2>1, <3>3, <4>2, <4>3 DEF Shape, AwsThings
    <3>4. CASE creates = "azure"
      <4>1. run.pc = 1 \/ run.pc \in 2 .. 6 \/ run.pc = 7 \/ run.pc = 8
        BY <1>4, <3>4, CreateStep
      <4>2. run.pc # 8
        BY <1>4, <2>3, <3>4, CreateStep DEF Creating
      <4>3. Here.thing \in AzureParts \union {"group", "instance"} /\ Here.thing # "tag"
        BY <1>4, <3>4, <4>1, <4>2, CreateStep DEF AzureParts
      <4>4. now = have \union {Here.thing}
        BY <1>3, <3>2, <3>4, <4>3
      <4>5. "group" \in now
        <5>1. CASE run.pc = 1
          BY <1>4, <3>4, <4>4, <5>1, CreateStep
        <5>2. CASE run.pc \in 2 .. 7
          BY <1>4, <3>4, <4>4, <5>2 DEF CreatingInv
        <5>3. QED
          BY <4>1, <4>2, <5>1, <5>2
      <4>6. QED
        BY <1>1, <1>2, <2>1, <3>4, <4>3, <4>4, <4>5 DEF Shape, AzureParts
    <3>5. CASE creates = "gcp"
      <4>1. Here.thing \in {"egress", "ingress", "instance"}
        BY <1>4, <3>1, <3>5, CreateStep
      <4>2. now = have \union {Here.thing}
        BY <1>3, <3>2, <3>5, <4>1
      <4>3. QED
        BY <1>1, <1>2, <2>1, <3>5, <4>1, <4>2 DEF Shape
    <3>6. CASE creates = "kubernetes"
      <4>1. Here.thing = "job"
        BY <1>4, <3>1, <3>6, CreateStep
      <4>2. now = have \union {"job"}
        BY <3>2, <4>1
      <4>3. QED
        BY <1>1, <1>2, <2>1, <3>6, <4>2 DEF Shape
    <3>7. QED
      BY <2>1, <3>3, <3>4, <3>5, <3>6
  <2>4. QED
    BY <2>2, <2>3
<1>5. CASE run.stage = "delete"
  BY <1>1, <1>5, DeleteProgram, DeleteShape
<1>6. QED
  BY <1>4, <1>5, RunningStage
------------------------------------------------------------------------------
(* The steps of the handler: what they keep. *)

Handlers == {"none", "apply", "destroy"}
Stages == {"none", "create", "wait", "delete"}
RunType == [handler : Handlers, stage : Stages, pc : 1 .. 10, late : BOOLEAN]

\* The failures and crashes are counted to a bound.
Counted ==
  /\ failures' = failures \/ (failures < MaxFailures /\ failures' = failures + 1)
  /\ crashes' = crashes \/ (crashes < MaxCrashes /\ crashes' = crashes + 1)

\* The things of identifier i after a step, if they are of the kinds of things.
Typed(now) ==
  /\ now \subseteq Things
  /\ "tag" \in now => "instance" \in now
  /\ "ready" \in now => "pod" \in now

LEMMA TypeKept ==
  ASSUME TypeOK, Counted, conf' = conf, id' = id, report' = report, self' = self,
         tf' \in {"absent", "present", "tainted"}, run' \in RunType,
         things' = things \/ (\E i \in Ids, now \in SUBSET Things :
                                Typed(now) /\ things' = [things EXCEPT ![i] = now]),
         dangling' \subseteq 1 .. id, swallowed' \subseteq 1 .. id
  PROVE  TypeOK'
<1>1. failures' \in 0 .. MaxFailures /\ crashes' \in 0 .. MaxCrashes
  BY ConstantsTyped DEF TypeOK, Counted
<1>2. /\ things' \in [Ids -> SUBSET Things]
      /\ \A i \in Ids : Typed(things'[i])
  <2>1. CASE things' = things
    BY <2>1 DEF TypeOK, Typed
  <2>2. CASE \E i \in Ids, now \in SUBSET Things :
               Typed(now) /\ things' = [things EXCEPT ![i] = now]
    BY <2>2 DEF TypeOK, Typed
  <2>3. QED
    BY <2>1, <2>2
<1>3. QED
  BY <1>1, <1>2 DEF TypeOK, RunType, Handlers, Stages, Typed

\* What Terraform has forgotten, and what is not made yet, the handler leaves alone.
LEMMA Others ==
  ASSUME TypeOK, IInv, conf' = conf, id' = id, NEW i \in Ids, i # id, things'[i] = things[i],
         i \in dangling \union swallowed => i \in (dangling \union swallowed)'
  PROVE  Shape(i)' /\ Fresh(i)' /\ ForgottenInv(i)'
<1>1. Shape(i) /\ Fresh(i) /\ ForgottenInv(i)
  BY DEF IInv
<1>2. Forgotten(i)' => Forgotten(i)
  BY DEF Forgotten, TypeOK, Ids
<1>3. Shape(i)'
  BY <1>1 DEF Shape, creates
<1>4. Fresh(i)'
  BY <1>1 DEF Fresh
<1>5. ForgottenInv(i)'
  BY <1>1, <1>2 DEF ForgottenInv, Clean, SpotRequest
<1>6. QED
  BY <1>3, <1>4, <1>5

\* A handler that stops, waits or begins to delete.
Stopped ==
  /\ run'.stage # "create"
  /\ run'.stage = "delete" => run'.pc = 1
  /\ tf' = "absent" /\ run' = Idle /\ id \notin (dangling \union swallowed)' => Clean(id)'

LEMMA Stops ==
  ASSUME TypeOK, IInv, conf' = conf, id' = id, id \in Ids, Shape(id)', HandlerInv', Stopped,
         \A i \in Ids : i # id =>
           /\ things'[i] = things[i]
           /\ i \in dangling \union swallowed => i \in (dangling \union swallowed)'
  PROVE  IInv'
<1>1. CreatingInv' /\ DeletingInv'
  <2>1. CreatingInv'
    BY DEF CreatingInv, Stopped
  <2>2. run'.stage = "delete" => ~(run'.pc > 1) /\ ~(run'.pc > 2) /\ ~(run'.pc > 3) /\ ~(run'.pc > 4)
    BY DEF Stopped
  <2>3. DeletingInv'
    BY <2>2 DEF DeletingInv
  <2>4. QED
    BY <2>1, <2>3
<1>2. Fresh(id)' /\ ForgottenInv(id)'
  <2>1. ~(id > id) /\ ~(id < id)
    BY DEF TypeOK
  <2>2. Fresh(id)'
    BY <2>1 DEF Fresh
  <2>3. Forgotten(id)' => tf' = "absent" /\ run' = Idle
    BY <2>1 DEF Forgotten, Idle, Handler
  <2>4. QED
    BY <2>2, <2>3 DEF ForgottenInv, Stopped
<1>3. \A i \in Ids : Shape(i)' /\ Fresh(i)' /\ ForgottenInv(i)'
  <2>1. TAKE i \in Ids
  <2>2. CASE i = id
    BY <1>2, <2>2
  <2>3. CASE i # id
    BY <2>3, Others
  <2>4. QED
    BY <2>2, <2>3
<1>4. QED
  BY <1>1, <1>3 DEF IInv

\* A failure stops a create or a wait, and begins the deletion; it ends a deletion
\* with the resource in the Terraform state.
LEMMA FailsStops ==
  ASSUME TypeOK, HandlerInv, run.stage # "none", Fails, conf' = conf, id' = id
  PROVE  /\ HandlerInv' /\ Stopped /\ run' \in RunType
         /\ tf' \in {"absent", "present", "tainted"} /\ dangling' = dangling
<1>1. dangling' = dangling
  BY DEF Fails
<1>2. CASE run.stage \in {"create", "wait"}
  <2>1. run' = Retreat /\ tf' = tf
    BY <1>2 DEF Fails
  <2>2. /\ run'.stage = "delete" /\ run'.pc = 1 /\ run'.handler = run.handler
        /\ run' \in RunType
    <3>1. run \in RunType
      BY DEF TypeOK, RunType, Handlers, Stages
    <3>2. run' = [run EXCEPT !.stage = "delete", !.pc = 1]
      BY <2>1 DEF Retreat
    <3>3. 1 \in 1 .. 10 /\ "delete" \in Stages
      BY DEF Stages
    <3>4. QED
      BY <3>1, <3>2, <3>3 DEF RunType
  <2>3. run' # Idle
    BY <2>2 DEF Idle, Handler
  <2>4. run.handler = "apply"
    BY <1>2 DEF HandlerInv
  <2>5. HandlerInv'
    BY <2>1, <2>2, <2>4 DEF HandlerInv
  <2>6. QED
    BY <1>1, <2>1, <2>2, <2>3, <2>5 DEF Stopped, TypeOK
<1>3. CASE run.stage = "delete"
  <2>1. run' = Idle /\ tf' = IF run.handler = "apply" THEN "tainted" ELSE tf
    BY <1>3 DEF Fails
  <2>2. /\ Idle.stage = "none" /\ Idle.handler = "none" /\ Idle \in RunType
    BY DEF Idle, Handler, RunType, Handlers, Stages
  <2>3. run.handler \in {"apply", "destroy"}
    BY <1>3 DEF HandlerInv, TypeOK
  <2>4. tf' # "absent" /\ id \in Ids
    BY <2>1, <2>3 DEF HandlerInv
  <2>5. HandlerInv'
    BY <2>1, <2>2, <2>4 DEF HandlerInv, Idle, Handler
  <2>6. QED
    BY <1>1, <2>1, <2>2, <2>4, <2>5 DEF Stopped, TypeOK
<1>4. QED
  BY <1>2, <1>3 DEF TypeOK

\* The death of an apply leaves an identifier that no deletion will be told of.
LEMMA PanicStops ==
  ASSUME TypeOK, HandlerInv, run.stage # "none", Panic, conf' = conf, id' = id
  PROVE  /\ HandlerInv' /\ Stopped /\ run' \in RunType /\ id \in Ids
         /\ tf' = tf /\ dangling \subseteq dangling' /\ dangling' \subseteq 1 .. id
<1>1. /\ run' = Idle /\ tf' = tf
      /\ dangling' = IF run.handler = "apply" THEN dangling \union {id} ELSE dangling
  BY DEF Panic
<1>2. /\ Idle.stage = "none" /\ Idle.handler = "none" /\ Idle \in RunType
  BY DEF Idle, Handler, RunType, Handlers, Stages
<1>3. run.handler \in {"apply", "destroy"}
  BY DEF HandlerInv, TypeOK
<1>4. id \in Ids /\ dangling \subseteq 1 .. id /\ id \in 1 .. id
  BY <1>3 DEF HandlerInv, TypeOK, Ids
<1>5. tf' = "absent" => id \in dangling'
  BY <1>1, <1>3 DEF HandlerInv
<1>6. HandlerInv'
  BY <1>1, <1>2, <1>4 DEF HandlerInv, Idle, Handler
<1>7. QED
  BY <1>1, <1>2, <1>4, <1>5, <1>6 DEF Stopped

------------------------------------------------------------------------------
(* The steps of the handler: how it goes on. *)

\* A step that is behind did what it is for, or its error was ignored.
Succeeded == things' = Effected /\ swallowed' = swallowed /\ Here.call # "gone"
Forgiven ==
  /\ things' = Effected \/ things' = things
  /\ Ignored(Here, things'[id]) /\ Left(id, Here, things'[id])

LEMMA AdvanceTyped ==
  ASSUME TypeOK, HandlerInv, Running, Advance, things' = Effected \/ things' = things
  PROVE  /\ run' \in RunType /\ run'.pc = run.pc + 1 /\ run'.stage = run.stage
         /\ run'.handler = run.handler /\ run' # Idle /\ tf' = tf /\ dangling' = dangling
         /\ things' = things \/ (\E i \in Ids, now \in SUBSET Things :
                                Typed(now) /\ things' = [things EXCEPT ![i] = now])
<1>1. run.pc \in 1 .. 9 /\ run \in RunType /\ run.stage # "none"
  BY RunningStage DEF TypeOK, RunType, Handlers, Stages
<1>2. run.pc + 1 \in 1 .. 10
  BY <1>1
<1>3. run' = [run EXCEPT !.pc = run.pc + 1] /\ tf' = tf /\ dangling' = dangling
  BY DEF Advance
<1>4. /\ run' \in RunType /\ run'.pc = run.pc + 1 /\ run'.stage = run.stage
      /\ run'.handler = run.handler
  BY <1>1, <1>2, <1>3 DEF RunType
<1>5. run' # Idle
  BY <1>1, <1>4 DEF Idle, Handler
<1>6. CASE things' = Effected
  <2>1. id \in Ids /\ Typed(Effect(things[id], Here))
    BY EffectTyped DEF Typed
  <2>2. things' = [things EXCEPT ![id] = Effect(things[id], Here)]
    BY <1>6 DEF Effected
  <2>3. QED
    BY <1>3, <1>4, <1>5, <2>1, <2>2 DEF Typed
<1>7. QED
  BY <1>3, <1>4, <1>5, <1>6

\* The creation of the parts of an Azure machine: the group is there all along.
LEMMA CreateGoesOn ==
  ASSUME TypeOK, IInv, Running, Advance, conf' = conf, id' = id, Succeeded \/ Forgiven
  PROVE  CreatingInv'
<1>1. SUFFICES ASSUME run.stage = "create", creates = "azure", run'.pc \in 2 .. 7
               PROVE  things'[id] \intersect {"group", "instance", "deleting"} = {"group"}
  <2>1. run'.stage = run.stage /\ creates' = creates /\ run'.pc = run.pc + 1
    BY AdvanceTyped DEF IInv, creates, Succeeded, Forgiven
  <2>2. run'.pc # 1
    BY <2>1, RunningStage
  <2>3. QED
    BY <1>1, <2>1, <2>2 DEF CreatingInv
<1>2. run'.pc = run.pc + 1 /\ HandlerInv /\ CreatingInv /\ id \in Ids
  BY AdvanceTyped, EffectTyped DEF IInv, Succeeded, Forgiven
<1>3. run.pc = 1 \/ run.pc \in 2 .. 6
  BY <1>1, <1>2, CreateStep
<1>4. PICK have, now : have = things[id] /\ now = Effect(have, Here)
  OBVIOUS
<1>5. things'[id] = now \/ (things'[id] = have /\ Forgiven)
  BY <1>2, <1>4 DEF Succeeded, Forgiven, Effected, TypeOK
<1>6. CASE run.pc = 1
  <2>1. Here.call = "make" /\ Here.thing = "group"
    BY <1>1, <1>6, CreateStep
  <2>2. now = have \union {"group"}
    BY <1>4, <2>1, EffectOfCreate DEF Creating
  <2>3. ~Forgiven
    BY <2>1 DEF Forgiven, Ignored, Ignoring
  <2>4. have = {}
    BY <1>1, <1>2, <1>4, <1>6 DEF CreatingInv
  <2>5. things'[id] = now
    BY <1>5, <2>3
  <2>6. QED
    BY <2>2, <2>4, <2>5
<1>7. CASE run.pc \in 2 .. 6
  <2>1. Here.call \in {"ensure", "make"} /\ Here.thing \in AzureParts
    BY <1>1, <1>7, CreateStep
  <2>2. now = have \union {Here.thing}
    BY <1>4, <2>1, EffectOfCreate DEF Creating, AzureParts
  <2>3. have \intersect {"group", "instance", "deleting"} = {"group"}
    BY <1>1, <1>2, <1>4, <1>7 DEF CreatingInv
  <2>4. QED
    BY <1>5, <2>1, <2>2, <2>3 DEF AzureParts
<1>8. QED
  BY <1>3, <1>6, <1>7

\* The places of a deletion: what is behind is deleted, or an error was ignored.
LEMMA DeleteGoesOn ==
  ASSUME TypeOK, IInv, Running, Advance, conf' = conf, id' = id, Succeeded \/ Forgiven
  PROVE  DeletingInv'
<1>1. /\ run'.stage = run.stage /\ creates' = creates /\ deletes' = deletes
      /\ run'.pc = run.pc + 1 /\ id \in Ids
  BY AdvanceTyped, EffectTyped DEF IInv, creates, deletes, Succeeded, Forgiven
<1>2. SUFFICES ASSUME run.stage = "delete", id \notin swallowed'
               PROVE  /\ deletes = "aws" => /\ run'.pc > 1 => "keyPair" \notin things'[id]
                                            /\ run'.pc > 3 => "tag" \notin things'[id]
                      /\ deletes = "azure" =>
                           (run'.pc > 2 => things'[id] = {} \/ "deleting" \in things'[id])
                      /\ deletes = "gcp" => /\ run'.pc > 2 => "instance" \notin things'[id]
                                            /\ run'.pc > 3 => "ingress" \notin things'[id]
                                            /\ run'.pc > 4 => "egress" \notin things'[id]
                      /\ deletes = "kubernetes" => (run'.pc > 3 => things'[id] = {})
  BY <1>1, <1>2 DEF DeletingInv
<1>3. PICK have, now, P, n :
        /\ have = things[id] /\ now = Effect(have, Here) /\ P = DeleteSteps(creates)
        /\ n = run.pc
  OBVIOUS
<1>4. /\ creates = deletes /\ n \in DOMAIN P /\ Here = P[n]
  BY <1>2, <1>3, DeleteProgram
<1>5. /\ creates \in {"aws", "azure", "gcp", "kubernetes"}
      /\ n = 1 \/ n = 2 \/ n = 3 \/ n = 4
  BY <1>3, <1>4, DeleteEffect
<1>6. /\ things'[id] = now \/ (things'[id] = have /\ Forgiven)
      /\ swallowed' = swallowed \/ swallowed' = swallowed \union {id}
  BY <1>1, <1>3 DEF Succeeded, Forgiven, Left, Effected, TypeOK
<1>7. id \notin swallowed
  BY <1>2, <1>6
<1>8. Forgiven => /\ Here.call \in {"tryDelete", "ensure", "try"}
                  /\ Here.call = "tryDelete" =>
                       Here.thing \notin things'[id] \/ "deleting" \in things'[id]
  BY <1>2 DEF Forgiven, Ignored, Ignoring, Left
<1>9. Shape(id)
  BY <1>1 DEF IInv
<1>10. CASE creates = "aws"
  <2>1. /\ n \in 1 .. 3
        /\ n = 1 => now = have \ {"keyPair"}
        /\ n = 2 => now = have
        /\ n = 3 => now = IF conf.cloud = "aws" /\ "tag" \notin have THEN have
                          ELSE have \ {"instance", "tag"}
    BY <1>3, <1>4, <1>10, AwsDeleteEffect
  <2>2. "deleting" \notin have /\ "deleting" \notin now
    BY <1>3, <1>9, <1>10, <2>1 DEF Shape
  <2>3. n > 1 => "keyPair" \notin have
    BY <1>2, <1>3, <1>4, <1>7, <1>10 DEF IInv, DeletingInv
  <2>4. /\ n = 1 => Here.thing = "keyPair" /\ Here.call = "tryDelete"
        /\ n = 2 => Here.call = "look"
        /\ n = 3 => Here.call = "delete"
    BY <1>2, <1>3, <1>4, <1>10, DeleteStep
  <2>5. n # 1 => ~Forgiven
    BY <1>8, <2>1, <2>4
  <2>6. "keyPair" \notin things'[id]
    <3>1. CASE n = 1
      <4>1. things'[id] = have => "keyPair" \notin have
        BY <1>6, <1>8, <2>1, <2>2, <2>4, <3>1
      <4>2. QED
        BY <1>6, <2>1, <3>1, <4>1
    <3>2. CASE n # 1
      BY <1>6, <2>1, <2>3, <2>5, <3>2
    <3>3. QED
      BY <3>1, <3>2
  <2>7. run'.pc > 3 => "tag" \notin things'[id]
    <3>1. run'.pc > 3 => n = 3
      BY <1>1, <1>3, <2>1
    <3>2. conf.cloud = "aws"
      BY <1>10, Clouds DEF creates
    <3>3. n = 3 => "tag" \notin now
      BY <2>1, <3>2
    <3>4. QED
      BY <1>6, <2>5, <3>1, <3>3
  <2>8. QED
    BY <1>4, <1>10, <2>6, <2>7
<1>11. CASE creates = "azure"
  <2>1. /\ n \in 1 .. 2
        /\ n = 2 => now = IF "group" \in have THEN have \union {"deleting"} ELSE have
    BY <1>3, <1>4, <1>11, AzureDeleteEffect
  <2>2. n = 2 => Here.call = "tryDelete" /\ Here.thing = "group"
    BY <1>2, <1>3, <1>4, <1>11, DeleteStep
  <2>3. have # {} => "group" \in have
    BY <1>3, <1>9, <1>11 DEF Shape
  <2>4. SUFFICES ASSUME n = 2 PROVE things'[id] = {} \/ "deleting" \in things'[id]
    <3>1. run'.pc > 2 => n = 2
      BY <1>1, <1>3, <2>1
    <3>2. QED
      BY <1>4, <1>11, <3>1
  <2>5. CASE things'[id] = now
    BY <2>1, <2>3, <2>4, <2>5
  <2>6. CASE things'[id] = have /\ Forgiven
    BY <1>8, <2>2, <2>3, <2>4, <2>6
  <2>7. QED
    BY <1>6, <2>5, <2>6
<1>12. CASE creates = "gcp"
  <2>1. conf.cloud # "aws"
    BY <1>12, Clouds DEF creates
  <2>2. /\ n = 1 => now = have
        /\ n = 2 => now = have \ {"instance", "tag"}
        /\ n = 3 => now = have \ {"ingress"}
        /\ n = 4 => now = have \ {"egress"}
    BY <1>3, <1>4, <1>12, <2>1, DeleteEffect
  <2>3. "deleting" \notin have /\ "deleting" \notin now
    BY <1>3, <1>5, <1>9, <1>12, <2>2 DEF Shape
  <2>4. /\ n > 2 => "instance" \notin have
        /\ n > 3 => "ingress" \notin have
    BY <1>2, <1>3, <1>4, <1>7, <1>12 DEF IInv, DeletingInv
  <2>5. /\ n = 2 => Here.call = "tryDelete" /\ Here.thing = "instance"
        /\ n = 3 => Here.call = "tryDelete" /\ Here.thing = "ingress"
        /\ n = 4 => Here.call = "tryDelete" /\ Here.thing = "egress"
    BY <1>2, <1>3, <1>4, <1>12, DeleteStep
  <2>6. /\ n = 2 => "instance" \notin things'[id]
        /\ n = 3 => "ingress" \notin things'[id]
        /\ n = 4 => "egress" \notin things'[id]
    <3>1. CASE things'[id] = now
      BY <2>2, <3>1
    <3>2. CASE things'[id] = have /\ Forgiven
      BY <1>8, <2>3, <2>5, <3>2
    <3>3. QED
      BY <1>6, <3>1, <3>2
  <2>7. things'[id] \subseteq have
    BY <1>5, <1>6, <2>2
  <2>8. /\ run'.pc > 2 => n = 2 \/ n = 3 \/ n = 4
        /\ run'.pc > 3 => n = 3 \/ n = 4
        /\ run'.pc > 4 => n = 4
        /\ (n = 3 \/ n = 4 => n > 2) /\ (n = 4 => n > 3)
    BY <1>1, <1>3, <1>5
  <2>9. QED
    BY <1>4, <1>12, <2>4, <2>6, <2>7, <2>8
<1>13. CASE creates = "kubernetes"
  <2>1. n \in 1 .. 3 /\ Here.thing = "job"
        /\ (n = 1 => Here.call = "get") /\ (n = 2 => Here.call = "delete")
        /\ (n = 3 => Here.call = "gone")
    BY <1>2, <1>3, <1>4, <1>13, DeleteStep
  <2>2. ~Forgiven
    BY <1>8, <2>1
  <2>3. n # 3
    BY <2>1, <2>2 DEF Succeeded
  <2>4. ~(run'.pc > 3)
    BY <1>1, <1>3, <2>1, <2>3
  <2>5. QED
    BY <1>4, <1>13, <2>4
<1>14. QED
  BY <1>5, <1>10, <1>11, <1>12, <1>13

\* A handler that goes on forgets nothing.
LEMMA GoesOn ==
  ASSUME TypeOK, IInv, Running, Advance, conf' = conf, id' = id,
         Succeeded \/ Forgiven, report' = report, self' = self, Counted
  PROVE  (TypeOK /\ IInv)'
<1>1. /\ HandlerInv /\ id \in Ids /\ Shape(id) /\ CreatingInv
  BY EffectTyped DEF IInv
<1>2. things' = Effected \/ things' = things
  BY DEF Succeeded, Forgiven
<1>3. /\ run' \in RunType /\ run'.pc = run.pc + 1 /\ run'.stage = run.stage
      /\ run'.handler = run.handler /\ run' # Idle /\ tf' = tf /\ dangling' = dangling
  BY <1>1, <1>2, AdvanceTyped
<1>4. swallowed' = swallowed \/ swallowed' = swallowed \union {id}
  BY DEF Succeeded, Forgiven, Left
<1>5. id \in 1 .. id
  BY <1>1 DEF Ids
<1>6. TypeOK'
  <2>1. dangling' \subseteq 1 .. id /\ swallowed' \subseteq 1 .. id
    BY <1>3, <1>4, <1>5 DEF TypeOK
  <2>2. tf' \in {"absent", "present", "tainted"}
    BY <1>3 DEF TypeOK
  <2>3. QED
    BY <1>1, <1>2, <1>3, <2>1, <2>2, AdvanceTyped, TypeKept
<1>7. HandlerInv'
  BY <1>1, <1>3, RunningStage DEF HandlerInv
<1>8. Shape(id)'
  <2>1. CASE things' = Effected
    BY <1>1, <2>1, EffectShape
  <2>2. CASE things' = things
    BY <1>1, <2>2 DEF Shape, creates
  <2>3. QED
    BY <1>2, <2>1, <2>2
<1>9. \A i \in Ids : Shape(i)' /\ Fresh(i)' /\ ForgottenInv(i)'
  <2>1. TAKE i \in Ids
  <2>2. CASE i = id
    <3>1. ~(id > id) /\ ~(id < id)
      BY <1>1 DEF Ids
    <3>2. Fresh(id)' /\ ForgottenInv(id)'
      BY <1>3, <3>1 DEF Fresh, ForgottenInv, Forgotten, Idle, Handler
    <3>3. QED
      BY <1>8, <2>2, <3>2
  <2>3. CASE i # id
    <3>1. things'[i] = things[i]
      BY <1>2, <2>3 DEF Effected, TypeOK
    <3>2. i \in dangling \union swallowed => i \in (dangling \union swallowed)'
      BY <1>3, <1>4
    <3>3. QED
      BY <2>3, <3>1, <3>2, Others
  <2>4. QED
    BY <2>2, <2>3
<1>10. QED
  BY <1>6, <1>7, <1>9, CreateGoesOn, DeleteGoesOn DEF IInv

\* Nor does one that stops.
LEMMA Ends ==
  ASSUME TypeOK, IInv, HandlerInv', Stopped, conf' = conf, id' = id, id \in Ids,
         report' = report, self' = self, Counted,
         run' \in RunType, tf' \in {"absent", "present", "tainted"},
         things' = things \/ (\E now \in SUBSET Things :
                                Typed(now) /\ things' = [things EXCEPT ![id] = now]),
         Shape(id)' \/ things' = things, dangling \subseteq dangling', dangling' \subseteq 1 .. id,
         swallowed' = swallowed \/ swallowed' = swallowed \ {id}
  PROVE  (TypeOK /\ IInv)'
<1>1. swallowed' \subseteq 1 .. id
  BY DEF TypeOK
<1>2. TypeOK'
  BY <1>1, TypeKept
<1>3. Shape(id)'
  <2>1. things' = things => Shape(id)'
    BY DEF IInv, Shape, creates
  <2>2. QED
    BY <2>1
<1>4. \A i \in Ids : i # id =>
        /\ things'[i] = things[i]
        /\ i \in dangling \union swallowed => i \in (dangling \union swallowed)'
  BY DEF TypeOK
<1>5. QED
  BY <1>2, <1>3, <1>4, Stops

\* The handler that runs has an identifier.
LEMMA HandlersIdentifier ==
  ASSUME TypeOK, HandlerInv, run.stage # "none"
  PROVE  id \in Ids /\ run.handler \in {"apply", "destroy"} /\ run # Idle
BY DEF TypeOK, HandlerInv, Idle, Handler

LEMMA FailsKeeps ==
  ASSUME TypeOK, IInv, run.stage # "none", Fails, UNCHANGED Fixed, Counted, swallowed' = swallowed,
         \/ things' = things
         \/ /\ Shape(id)'
            /\ \E now \in SUBSET Things : Typed(now) /\ things' = [things EXCEPT ![id] = now]
  PROVE  (TypeOK /\ IInv)'
<1>1. HandlerInv /\ conf' = conf /\ id' = id /\ report' = report /\ self' = self
  BY DEF IInv, Fixed
<1>2. /\ HandlerInv' /\ Stopped /\ run' \in RunType
      /\ tf' \in {"absent", "present", "tainted"} /\ dangling' = dangling
  BY <1>1, FailsStops
<1>3. id \in Ids /\ dangling \subseteq 1 .. id
  BY <1>1, HandlersIdentifier DEF TypeOK
<1>4. QED
  BY <1>1, <1>2, <1>3, Ends

LEMMA PanicKeeps ==
  ASSUME TypeOK, IInv, run.stage # "none", Panic, conf' = conf, id' = id, things' = things,
         report' = report, self' = self, Counted, swallowed' = swallowed
  PROVE  (TypeOK /\ IInv)'
<1>1. HandlerInv
  BY DEF IInv
<1>2. /\ HandlerInv' /\ Stopped /\ run' \in RunType /\ id \in Ids
      /\ tf' = tf /\ dangling \subseteq dangling' /\ dangling' \subseteq 1 .. id
  BY <1>1, PanicStops
<1>3. tf' \in {"absent", "present", "tainted"}
  BY <1>2 DEF TypeOK
<1>4. QED
  BY <1>2, <1>3, Ends

\* An error, with or without the effect of the call.
LEMMA ErrsKeeps ==
  ASSUME TypeOK, IInv, Running, Errs, Counted, things' = Effected \/ things' = things
  PROVE  (TypeOK /\ IInv)'
<1>1. /\ conf' = conf /\ id' = id /\ report' = report /\ self' = self
      /\ HandlerInv /\ CreatingInv /\ run.stage # "none"
      /\ Left(id, Here, things'[id]) /\ UNCHANGED Fixed
  BY RunningStage DEF Errs, Fixed, IInv
<1>2. CASE Ignored(Here, things'[id])
  <2>1. Advance /\ Forgiven
    BY <1>1, <1>2 DEF Errs, Forgiven
  <2>2. QED
    BY <1>1, <2>1, GoesOn
<1>3. CASE ~Ignored(Here, things'[id])
  <2>1. Fails /\ swallowed' = swallowed
    BY <1>1, <1>3 DEF Errs, Left, Ignored, Ignoring
  <2>2. CASE things' = things
    BY <1>1, <2>1, <2>2, FailsKeeps
  <2>3. CASE things' = Effected
    <3>1. id \in Ids /\ Typed(Effect(things[id], Here))
      BY <1>1, EffectTyped DEF Typed
    <3>2. things' = [things EXCEPT ![id] = Effect(things[id], Here)]
      BY <2>3 DEF Effected
    <3>3. Shape(id)
      BY <3>1 DEF IInv
    <3>4. Shape(id)'
      BY <1>1, <2>3, <3>3, EffectShape
    <3>5. \E now \in SUBSET Things : Typed(now) /\ things' = [things EXCEPT ![id] = now]
      BY <3>1, <3>2 DEF Typed
    <3>6. QED
      BY <1>1, <2>1, <3>4, <3>5, FailsKeeps
  <2>4. QED
    BY <2>2, <2>3
<1>4. QED
  BY <1>2, <1>3

\* Errors of calls, in time and past the deadline.
LEMMA StepsErr ==
  ASSUME TypeOK, IInv, StepError \/ StepRefused
  PROVE  (TypeOK /\ IInv)'
<1>1. Running /\ Errs /\ Counted
  BY DEF StepError, StepRefused, Errs, Fixed, Counted
<1>2. things' = Effected \/ things' = things
  BY DEF StepError, StepRefused, Effected
<1>3. QED
  BY <1>1, <1>2, ErrsKeeps

\* A call that looks, or finds what it waits for.
LEMMA LooksOn ==
  ASSUME TypeOK, IInv, Running, Advance, UNCHANGED <<Fixed, things, failures, swallowed>>,
         Here.call \notin Creating \union Removing, Here.call # "gone"
  PROVE  (TypeOK /\ IInv)'
<1>1. Effect(things[id], Here) = things[id]
  BY EffectOfLook
<1>2. Effected = things
  BY <1>1 DEF Effected, TypeOK
<1>3. Succeeded /\ Counted
  BY <1>2 DEF Succeeded, Counted, Fixed
<1>4. QED
  BY <1>3, GoesOn DEF Fixed

LEMMA StepsSucceed ==
  ASSUME TypeOK, IInv,
         StepSucceeds \/ StepJobFound \/ StepSeek \/ StepFind \/ StepFulfilled \/ StepPodsReady
  PROVE  (TypeOK /\ IInv)'
<1>1. CASE StepSucceeds
  <2>1. /\ Running /\ Advance /\ Here.call \in {"look"} \union Creating \union Removing
        /\ things' = Effected /\ UNCHANGED <<Fixed, failures, swallowed>>
    BY <1>1 DEF StepSucceeds, At, Effected
  <2>2. Succeeded /\ Counted
    BY <2>1 DEF Succeeded, Counted, Fixed, Creating, Removing
  <2>3. QED
    BY <2>1, <2>2, GoesOn DEF Fixed
<1>2. CASE StepJobFound \/ StepFulfilled \/ StepPodsReady
  <2>1. /\ Running /\ Advance /\ Here.call \in {"get", "fulfilled", "pods"}
        /\ UNCHANGED <<Fixed, things, failures, swallowed>>
    BY <1>2 DEF StepJobFound, StepFulfilled, StepPodsReady, At
  <2>2. Here.call \notin Creating \union Removing /\ Here.call # "gone"
    BY <2>1 DEF Creating, Removing
  <2>3. QED
    BY <2>1, <2>2, LooksOn
<1>3. CASE StepSeek \/ StepFind
  <2>1. /\ Running /\ Here.call \in {"seek", "find"}
        /\ UNCHANGED <<Fixed, things, failures, swallowed>>
        /\ Advance \/ Fails \/ Panic
    BY <1>3 DEF StepSeek, StepFind, At
  <2>2. Here.call \notin Creating \union Removing /\ Here.call # "gone"
    BY <2>1 DEF Creating, Removing
  <2>3. run.stage # "none" /\ Counted
    BY <2>1, RunningStage DEF Counted, Fixed
  <2>4. CASE Advance
    BY <2>1, <2>2, <2>4, LooksOn
  <2>5. CASE Fails
    BY <2>1, <2>3, <2>5, FailsKeeps
  <2>6. CASE Panic
    BY <2>1, <2>3, <2>6, PanicKeeps DEF Fixed
  <2>7. QED
    BY <2>1, <2>4, <2>5, <2>6
<1>4. QED
  BY <1>1, <1>2, <1>3

\* A request that is not fulfilled is cancelled.
LEMMA RequestIsCancelled ==
  ASSUME TypeOK, IInv, StepUnfulfilled
  PROVE  (TypeOK /\ IInv)'
<1>1. /\ Running /\ Fails /\ UNCHANGED <<Fixed, swallowed>>
      /\ \/ things' = things
         \/ things' = [things EXCEPT ![id] = things[id] \ {"request"}]
  BY DEF StepUnfulfilled, At
<1>2. Counted
  BY DEF StepUnfulfilled, Counted, Fixed
<1>3. run.stage # "none" /\ id \in Ids /\ Shape(id)
  BY <1>1, RunningStage, HandlersIdentifier DEF IInv
<1>4. CASE things' = things
  BY <1>1, <1>2, <1>3, <1>4, FailsKeeps
<1>5. CASE things' = [things EXCEPT ![id] = things[id] \ {"request"}]
  <2>1. things'[id] = things[id] \ {"request"}
    BY <1>3, <1>5 DEF TypeOK
  <2>2. Shape(id)'
    BY <1>1, <1>3, <2>1 DEF Shape, creates, Fixed
  <2>3. Typed(things[id] \ {"request"})
    BY <1>3 DEF Typed, TypeOK
  <2>4. QED
    BY <1>1, <1>2, <1>3, <1>5, <2>2, <2>3, FailsKeeps DEF Typed
<1>6. QED
  BY <1>1, <1>4, <1>5

\* A job that is not there ends the deletion, whose wait for it would end at once.
LEMMA JobMissing ==
  ASSUME TypeOK, IInv, StepJobMissing
  PROVE  (TypeOK /\ IInv)'
<1>1. /\ Running /\ "job" \notin things[id] /\ UNCHANGED <<Fixed, things, failures, swallowed>>
      /\ \/ At({"get"}) /\ run' = [run EXCEPT !.pc = Len(Program) + 1] /\ tf' = tf /\ dangling' = dangling
         \/ Fails
  BY DEF StepJobMissing
<1>2. /\ run.stage # "none" /\ Counted /\ id \in Ids /\ Shape(id) /\ HandlerInv
      /\ \A i \in Ids : Shape(i) /\ Fresh(i) /\ ForgottenInv(i)
  BY <1>1, RunningStage, HandlersIdentifier DEF Counted, Fixed, IInv
<1>3. CASE Fails
  BY <1>1, <1>2, <1>3, FailsKeeps
<1>4. CASE At({"get"}) /\ run' = [run EXCEPT !.pc = Len(Program) + 1] /\ tf' = tf
           /\ dangling' = dangling
  <2>1. Running /\ Here.call = "get"
    BY <1>4 DEF At
  <2>2. run.stage = "delete"
    <3>1. run.stage # "create"
      BY <2>1, CreateStep
    <3>2. QED
      BY <2>1, <3>1, RunningStage
  <2>3. /\ creates = deletes /\ Program = DeleteSteps(creates)
        /\ creates \in {"aws", "azure", "gcp", "kubernetes"} /\ run.pc \in 1 .. 4
    BY <2>1, <2>2, DeleteProgram, DeleteStep
  <2>4. creates = "kubernetes"
    <3>1. run.pc = 1 \/ run.pc = 2 \/ run.pc = 3 \/ run.pc = 4
      BY <2>3
    <3>2. QED
      BY <2>1, <2>2, <2>3, <3>1, DeleteStep
  <2>5. Len(Program) = 3
    BY <2>3, <2>4, DeletePlaces
  <2>6. run \in RunType
    BY DEF TypeOK, RunType, Handlers, Stages
  <2>7. /\ run' \in RunType /\ run'.pc = 4 /\ run'.stage = "delete" /\ run'.handler = run.handler
    BY <1>4, <2>2, <2>5, <2>6 DEF RunType
  <2>8. run' # Idle
    BY <2>7 DEF Idle, Handler
  <2>9. TypeOK'
    <3>1. /\ tf' \in {"absent", "present", "tainted"}
          /\ dangling' \subseteq 1 .. id /\ swallowed' \subseteq 1 .. id
      BY <1>1, <1>4 DEF TypeOK
    <3>2. QED
      BY <1>1, <1>2, <2>7, <3>1, TypeKept DEF Fixed
  <2>10. HandlerInv'
    BY <1>1, <1>2, <1>4, <2>2, <2>7 DEF HandlerInv, Fixed
  <2>11. CreatingInv'
    BY <2>7 DEF CreatingInv
  <2>12. things[id] = {}
    BY <1>1, <1>2, <2>4 DEF Shape
  <2>13. DeletingInv'
    BY <1>1, <2>12 DEF DeletingInv, Fixed
  <2>14. \A i \in Ids : Shape(i)' /\ Fresh(i)' /\ ForgottenInv(i)'
    <3>1. TAKE i \in Ids
    <3>2. Shape(i)' /\ Fresh(i)'
      BY <1>1, <1>2 DEF Shape, Fresh, creates, Fixed
    <3>3. Forgotten(i)' => Forgotten(i)
      BY <1>1, <2>8 DEF Forgotten, Fixed, Idle, Handler
    <3>4. ForgottenInv(i)'
      BY <1>1, <1>2, <1>4, <3>3 DEF ForgottenInv, Clean, SpotRequest, Fixed
    <3>5. QED
      BY <3>2, <3>4
  <2>15. QED
    BY <2>9, <2>10, <2>11, <2>13, <2>14 DEF IInv
<1>5. QED
  BY <1>1, <1>3, <1>4

------------------------------------------------------------------------------
(* The ends of the programs. *)

LEMMA IdleTyped ==
  Idle \in RunType /\ Idle.stage = "none" /\ Idle.handler = "none"
BY DEF Idle, Handler, RunType, Handlers, Stages

\* A handler that returns, with what its resource is then.
LEMMA Returns ==
  ASSUME TypeOK, IInv, run.stage # "none", run' = Idle,
         tf' \in {"absent", "present", "tainted"},
         tf' = "absent" /\ id \notin dangling \union swallowed => Clean(id),
         UNCHANGED <<Fixed, things, failures, dangling, swallowed>>
  PROVE  (TypeOK /\ IInv)'
<1>1. id \in Ids /\ HandlerInv /\ dangling \subseteq 1 .. id
  BY HandlersIdentifier DEF IInv, TypeOK
<1>2. HandlerInv'
  BY <1>1, IdleTyped DEF HandlerInv, Fixed
<1>3. Stopped
  BY IdleTyped DEF Stopped, Clean, SpotRequest, Fixed
<1>4. Counted
  BY DEF Counted, Fixed
<1>5. QED
  BY <1>1, <1>2, <1>3, <1>4, IdleTyped, Ends DEF Fixed

\* A handler that begins to delete, or to wait.
LEMMA Turns ==
  ASSUME TypeOK, IInv, run' \in RunType, run'.handler = run.handler, run.stage # "none",
         (run'.stage = "delete" /\ run'.pc = 1) \/ (run'.stage = "wait" /\ run.handler = "apply"),
         UNCHANGED <<Fixed, tf, things, failures, dangling, swallowed>>
  PROVE  (TypeOK /\ IInv)'
<1>1. id \in Ids /\ HandlerInv /\ dangling \subseteq 1 .. id /\ run.handler \in {"apply", "destroy"}
  BY HandlersIdentifier DEF IInv, TypeOK
<1>2. run' # Idle
  BY IdleTyped
<1>3. HandlerInv'
  BY <1>1 DEF HandlerInv, Fixed
<1>4. Stopped
  BY <1>2 DEF Stopped
<1>5. Counted
  BY DEF Counted, Fixed
<1>6. tf' \in {"absent", "present", "tainted"}
  BY DEF TypeOK
<1>7. QED
  BY <1>1, <1>3, <1>4, <1>5, <1>6, Ends DEF Fixed

\* The job is gone, and with it all that was on Kubernetes.
LEMMA Gone ==
  ASSUME TypeOK, IInv, StepGone
  PROVE  (TypeOK /\ IInv)'
<1>1. /\ Running /\ Here.call = "gone" /\ "job" \notin things[id] /\ run' = Idle /\ tf' = "absent"
      /\ UNCHANGED <<Fixed, things, failures, dangling, swallowed>>
  BY DEF StepGone, At
<1>2. run.stage # "none" /\ id \in Ids /\ Shape(id)
  BY <1>1, RunningStage, HandlersIdentifier DEF IInv
<1>3. run.stage = "delete"
  <2>1. run.stage # "create"
    BY <1>1, CreateStep
  <2>2. QED
    BY <1>1, <2>1, RunningStage
<1>4. creates = "kubernetes"
  <2>1. /\ creates = deletes /\ creates \in {"aws", "azure", "gcp", "kubernetes"}
        /\ run.pc \in 1 .. 4
    BY <1>1, <1>3, DeleteStep
  <2>2. run.pc = 1 \/ run.pc = 2 \/ run.pc = 3 \/ run.pc = 4
    BY <2>1
  <2>3. QED
    BY <1>1, <1>3, <2>1, <2>2, DeleteStep
<1>5. things[id] = {}
  BY <1>1, <1>2, <1>4 DEF Shape
<1>6. Clean(id)
  BY <1>5 DEF Clean
<1>7. QED
  BY <1>1, <1>2, <1>6, Returns

\* At the end of its program a deletion has deleted everything.
LEMMA DeletionEnds ==
  ASSUME TypeOK, IInv, DeleteReturns
  PROVE  (TypeOK /\ IInv)'
<1>1. /\ run.stage = "delete" /\ ~Running /\ run' = Idle
      /\ UNCHANGED <<Fixed, things, failures, dangling, swallowed>>
      /\ tf' = CASE run.handler = "apply" -> "tainted"
                 [] run.handler = "destroy" /\ DeletesOn(conf.cloud) # "unknown" -> "absent"
                 [] OTHER -> tf
  BY DEF DeleteReturns, Ended
<1>2. HandlerInv /\ Shape(id) /\ DeletingInv /\ id \in Ids /\ run.handler \in {"apply", "destroy"}
  BY <1>1, HandlersIdentifier DEF IInv
<1>3. \/ tf' = "tainted"
      \/ tf' = "absent" /\ deletes # "unknown" /\ run.handler = "destroy"
      \/ tf' = tf /\ run.handler = "destroy"
  BY <1>1, <1>2 DEF deletes
<1>4. tf' \in {"absent", "present", "tainted"}
  BY <1>3 DEF TypeOK
<1>5. ASSUME tf' = "absent", id \notin swallowed
      PROVE  Clean(id)
  <2>1. deletes # "unknown"
    BY <1>2, <1>3, <1>5 DEF HandlerInv
  <2>2. /\ deletes \in {"aws", "azure", "gcp", "kubernetes"} /\ creates = deletes
        /\ creates = "aws" <=> conf.cloud = "aws"
    BY <2>1, Clouds DEF creates, deletes
  <2>3. PICK P : P = DeleteSteps(deletes)
    OBVIOUS
  <2>4. run.pc \notin DOMAIN P /\ run.pc \in 1 .. 10
    BY <1>1, <2>3 DEF Running, Program, TypeOK, deletes
  <2>5. CASE deletes = "aws"
    <3>1. DOMAIN P = 1 .. 3
      BY <2>3, <2>5, DeletePlaces
    <3>2. run.pc > 1 /\ run.pc > 3
      BY <2>4, <3>1
    <3>3. "keyPair" \notin things[id] /\ "tag" \notin things[id]
      BY <1>1, <1>2, <1>5, <2>5, <3>2 DEF DeletingInv
    <3>4. /\ things[id] \subseteq {"keyPair", "request", "instance", "tag"}
          /\ ~conf.spot => "request" \notin things[id]
                        /\ ("instance" \in things[id] => "tag" \in things[id])
      BY <1>2, <2>2, <2>5 DEF Shape
    <3>5. things[id] \subseteq {"request", "instance"}
      BY <3>3, <3>4
    <3>6. ~conf.spot => things[id] = {}
      BY <3>3, <3>4
    <3>7. QED
      BY <2>2, <2>5, <3>5, <3>6 DEF Clean, SpotRequest
  <2>6. CASE deletes = "azure"
    <3>1. DOMAIN P = 1 .. 2
      BY <2>3, <2>6, DeletePlaces
    <3>2. run.pc > 2
      BY <2>4, <3>1
    <3>3. things[id] = {} \/ "deleting" \in things[id]
      BY <1>1, <1>2, <1>5, <2>6, <3>2 DEF DeletingInv
    <3>4. QED
      BY <3>3 DEF Clean
  <2>7. CASE deletes = "gcp"
    <3>1. DOMAIN P = 1 .. 4
      BY <2>3, <2>7, DeletePlaces
    <3>2. run.pc > 2 /\ run.pc > 3 /\ run.pc > 4
      BY <2>4, <3>1
    <3>3. {"instance", "ingress", "egress"} \intersect things[id] = {}
      BY <1>1, <1>2, <1>5, <2>7, <3>2 DEF DeletingInv
    <3>4. things[id] \subseteq {"egress", "ingress", "instance"}
      BY <1>2, <2>2, <2>7 DEF Shape
    <3>5. things[id] = {}
      BY <3>3, <3>4
    <3>6. QED
      BY <3>5 DEF Clean
  <2>8. CASE deletes = "kubernetes"
    <3>1. DOMAIN P = 1 .. 3
      BY <2>3, <2>8, DeletePlaces
    <3>2. run.pc > 3
      BY <2>4, <3>1
    <3>3. things[id] = {}
      BY <1>1, <1>2, <1>5, <2>8, <3>2 DEF DeletingInv
    <3>4. QED
      BY <3>3 DEF Clean
  <2>9. QED
    BY <2>2, <2>5, <2>6, <2>7, <2>8
<1>6. QED
  BY <1>1, <1>4, <1>5, Returns

\* The other ends, and the waits.
LEMMA CreationEnds ==
  ASSUME TypeOK, IInv, CreateRejected \/ CreateReturns \/ SeesReady
  PROVE  (TypeOK /\ IInv)'
<1>1. run.stage \in {"create", "wait"} /\ UNCHANGED <<Fixed, things, failures, dangling, swallowed>>
  BY DEF CreateRejected, CreateReturns, SeesReady, Ended, Waiting
<1>2. run.handler = "apply"
  BY <1>1 DEF IInv, HandlerInv
<1>3. CASE run' = Idle /\ tf' \in {"present", "tainted"}
  BY <1>1, <1>3, Returns
<1>4. CASE run' = [run EXCEPT !.stage = "wait", !.pc = 1] /\ tf' = tf
  <2>1. run \in RunType /\ 1 \in 1 .. 10 /\ "wait" \in Stages
    BY DEF TypeOK, RunType, Handlers, Stages
  <2>2. run' \in RunType /\ run'.stage = "wait" /\ run'.handler = run.handler
    BY <1>4, <2>1 DEF RunType
  <2>3. QED
    BY <1>1, <1>2, <1>4, <2>2, Turns
<1>5. QED
  BY <1>3, <1>4 DEF CreateRejected, CreateReturns, SeesReady

LEMMA WaitEnds ==
  ASSUME TypeOK, IInv, StepPodsExpire \/ WaitExpires
  PROVE  (TypeOK /\ IInv)'
<1>1. PICK late \in BOOLEAN :
        run' = [run EXCEPT !.stage = "delete", !.pc = 1, !.late = late]
  <2>1. run.late \in BOOLEAN
    BY DEF TypeOK
  <2>2. QED
    BY <2>1 DEF StepPodsExpire, WaitExpires, Retreat
<1>2. run.stage # "none" /\ UNCHANGED <<Fixed, tf, things, failures, dangling, swallowed>>
  BY RunningStage DEF StepPodsExpire, WaitExpires, At, Waiting
<1>3. run \in RunType /\ 1 \in 1 .. 10 /\ "delete" \in Stages
  BY DEF TypeOK, RunType, Handlers, Stages
<1>4. /\ run' \in RunType /\ run'.stage = "delete" /\ run'.pc = 1
      /\ run'.handler = run.handler
  BY <1>1, <1>3 DEF RunType
<1>5. QED
  BY <1>2, <1>4, Turns

LEMMA WaitFails ==
  ASSUME TypeOK, IInv, SeesTerminated \/ LogsPanic
  PROVE  (TypeOK /\ IInv)'
<1>1. run.stage # "none" /\ UNCHANGED <<Fixed, things, failures, swallowed>>
  BY DEF SeesTerminated, LogsPanic, Waiting
<1>2. Counted
  BY <1>1 DEF Counted, Fixed
<1>3. CASE SeesTerminated
  BY <1>1, <1>2, <1>3, FailsKeeps DEF SeesTerminated
<1>4. CASE LogsPanic
  BY <1>1, <1>2, <1>4, PanicKeeps DEF LogsPanic, Fixed
<1>5. QED
  BY <1>3, <1>4

LEMMA ProviderKeeps ==
  ASSUME TypeOK, IInv, Provider
  PROVE  (TypeOK /\ IInv)'
BY StepsErr, StepsSucceed, RequestIsCancelled, JobMissing, Gone, DeletionEnds, CreationEnds,
   WaitEnds, WaitFails DEF Provider

------------------------------------------------------------------------------
(* The user, the deadline, and the death of the provider. *)

\* A new identifier is that of nothing; the one before is forgotten, and clean.
LEMMA ApplyKeeps ==
  ASSUME TypeOK, IInv, Apply
  PROVE  (TypeOK /\ IInv)'
<1>1. /\ tf = "absent" /\ run = Idle /\ id < MaxApplies /\ id' = id + 1
      /\ run' = Handler("apply", "create")
      /\ UNCHANGED <<conf, tf, things, report, self, failures, crashes, dangling, swallowed>>
  BY DEF Apply
<1>2. MaxApplies \in Nat /\ id \in 0 .. MaxApplies
  BY ConstantsTyped DEF TypeOK
<1>3. id' \in 0 .. MaxApplies /\ id' \in Ids
  BY <1>1, <1>2 DEF Ids
<1>4. /\ run' \in RunType /\ run'.stage = "create" /\ run'.handler = "apply" /\ run'.pc = 1
      /\ run' # Idle
  BY <1>1 DEF Handler, Idle, RunType, Handlers, Stages
<1>5. TypeOK'
  <2>1. dangling' \subseteq 1 .. id' /\ swallowed' \subseteq 1 .. id'
    BY <1>1, <1>2 DEF TypeOK
  <2>2. QED
    BY <1>1, <1>3, <1>4, <2>1 DEF TypeOK, RunType, Handlers, Stages
<1>6. HandlerInv'
  BY <1>1, <1>3, <1>4 DEF HandlerInv
<1>7. \A i \in Ids : Shape(i) /\ Fresh(i) /\ ForgottenInv(i)
  BY DEF IInv
<1>8. things'[id'] = {}
  BY <1>1, <1>2, <1>3, <1>7 DEF Fresh
<1>9. CreatingInv' /\ DeletingInv'
  BY <1>4, <1>8 DEF CreatingInv, DeletingInv
<1>10. \A i \in Ids : Shape(i)' /\ Fresh(i)' /\ ForgottenInv(i)'
  <2>1. TAKE i \in Ids
  <2>2. i > id' => i > id
    BY <1>1, <1>2 DEF Ids
  <2>3. Shape(i)' /\ Fresh(i)'
    BY <1>1, <1>7, <2>2 DEF Shape, Fresh, creates
  <2>4. Forgotten(i)' => Forgotten(i)
    BY <1>1, <1>2, <1>4 DEF Forgotten, Ids, Idle, Handler
  <2>5. ForgottenInv(i)'
    BY <1>1, <1>7, <2>4 DEF ForgottenInv, Clean, SpotRequest
  <2>6. QED
    BY <2>3, <2>5
<1>11. QED
  BY <1>5, <1>6, <1>9, <1>10 DEF IInv

LEMMA DestroyKeeps ==
  ASSUME TypeOK, IInv, Destroy
  PROVE  (TypeOK /\ IInv)'
<1>1. /\ tf # "absent" /\ run = Idle /\ run' = Handler("destroy", "delete")
      /\ swallowed' = swallowed \ {id}
      /\ UNCHANGED <<conf, tf, id, things, report, self, failures, crashes, dangling>>
  BY DEF Destroy
<1>2. id \in Ids /\ dangling \subseteq 1 .. id /\ tf' \in {"absent", "present", "tainted"}
  BY <1>1 DEF IInv, HandlerInv, TypeOK
<1>3. /\ run' \in RunType /\ run'.stage = "delete" /\ run'.handler = "destroy" /\ run'.pc = 1
      /\ run' # Idle
  BY <1>1 DEF Handler, Idle, RunType, Handlers, Stages
<1>4. HandlerInv' /\ Stopped /\ Counted
  BY <1>1, <1>2, <1>3 DEF HandlerInv, Stopped, Counted
<1>5. QED
  BY <1>1, <1>2, <1>3, <1>4, Ends

LEMMA ExpireKeeps ==
  ASSUME TypeOK, IInv, Expire
  PROVE  (TypeOK /\ IInv)'
<1>1. /\ run # Idle /\ run' = [run EXCEPT !.late = TRUE]
      /\ failures < MaxFailures /\ failures' = failures + 1
      /\ UNCHANGED <<Fixed, tf, things, dangling, swallowed>>
  BY DEF Expire
<1>2. run \in RunType /\ HandlerInv /\ CreatingInv /\ DeletingInv
  BY DEF TypeOK, RunType, Handlers, Stages, IInv
<1>3. run.stage # "none"
  BY <1>1, <1>2 DEF HandlerInv
<1>4. /\ run' \in RunType /\ run'.stage = run.stage /\ run'.handler = run.handler
      /\ run'.pc = run.pc
  BY <1>1, <1>2 DEF RunType
<1>5. run' # Idle
  BY <1>3, <1>4, IdleTyped
<1>6. TypeOK'
  <2>1. /\ tf' \in {"absent", "present", "tainted"} /\ dangling' \subseteq 1 .. id
        /\ swallowed' \subseteq 1 .. id /\ Counted
    BY <1>1 DEF TypeOK, Counted, Fixed
  <2>2. QED
    BY <1>1, <1>4, <2>1, TypeKept DEF Fixed
<1>7. HandlerInv'
  BY <1>1, <1>2, <1>3, <1>4 DEF HandlerInv, Fixed
<1>8. CreatingInv'
  BY <1>1, <1>2, <1>4 DEF CreatingInv, Fixed, creates
<1>9. DeletingInv'
  BY <1>1, <1>2, <1>4 DEF DeletingInv, Fixed, deletes
<1>10. \A i \in Ids : Shape(i)' /\ Fresh(i)' /\ ForgottenInv(i)'
  <2>1. TAKE i \in Ids
  <2>2. Shape(i) /\ Fresh(i) /\ ForgottenInv(i)
    BY DEF IInv
  <2>3. Shape(i)' /\ Fresh(i)'
    BY <1>1, <2>2 DEF Shape, Fresh, creates, Fixed
  <2>4. Forgotten(i)' => Forgotten(i)
    BY <1>1, <1>5 DEF Forgotten, Fixed, Idle, Handler
  <2>5. ForgottenInv(i)'
    BY <1>1, <2>2, <2>4 DEF ForgottenInv, Clean, SpotRequest, Fixed
  <2>6. QED
    BY <2>3, <2>5
<1>11. QED
  BY <1>6, <1>7, <1>8, <1>9, <1>10 DEF IInv

LEMMA CrashKeeps ==
  ASSUME TypeOK, IInv, Crash
  PROVE  (TypeOK /\ IInv)'
<1>1. /\ run # Idle /\ Panic /\ Counted
      /\ UNCHANGED <<conf, id, things, report, self, swallowed>>
  BY DEF Crash, Counted
<1>2. run.stage # "none"
  BY <1>1 DEF IInv, HandlerInv
<1>3. QED
  BY <1>1, <1>2, PanicKeeps

------------------------------------------------------------------------------
(* The clouds, and the machine. *)

\* What they may do to the things of an identifier: nothing comes to be but of a
\* spot request or a job, and the mark only where the group or the job is.
Changes(i, now) ==
  \/ now = {} /\ {"deleting", "pod"} \intersect things[i] # {}
  \/ "request" \in things[i] /\ now = (things[i] \ {"request"}) \union {"instance"}
  \/ {"job", "deleting"} \intersect things[i] = {"job"} /\ now = things[i] \union {"pod"}
  \/ {"job", "deleting"} \intersect things[i] = {"job"} /\ "pod" \in things[i]
       /\ now = things[i] \union {"ready"}
  \/ {"instance", "pod"} \intersect things[i] # {} /\ now = things[i] \union {"deleting"}
       /\ creates \in {"azure", "kubernetes"}
  \/ now = things[i] \ {"pod", "ready"}
  \/ \E gone \in {{"instance", "tag"}, {"keyPair"}, {"ingress"}, {"egress"}, {}} :
       now = things[i] \ gone

LEMMA ChangesTyped ==
  ASSUME TypeOK, NEW i \in Ids, NEW now, Changes(i, now)
  PROVE  Typed(now) /\ now \in SUBSET Things
<1>1. Typed(things[i])
  BY DEF TypeOK, Typed
<1>2. {"deleting", "pod", "ready", "instance"} \subseteq Things
  BY DEF Things
<1>3. QED
  BY <1>1, <1>2 DEF Changes, Typed

LEMMA ChangesShape ==
  ASSUME TypeOK, NEW i \in Ids, Shape(i), conf' = conf, Changes(i, things'[i])
  PROVE  Shape(i)'
<1>1. creates' = creates /\ creates \in {"aws", "azure", "gcp", "kubernetes", "unknown"}
  BY Clouds DEF creates
<1>2. CASE creates = "unknown" \/ ~conf.accepted
  <2>1. things[i] = {}
    BY <1>2 DEF Shape
  <2>2. things'[i] = {}
    BY <2>1 DEF Changes
  <2>3. QED
    BY <1>1, <2>2 DEF Shape
<1>3. CASE creates = "aws" /\ conf.accepted
  BY <1>1, <1>3 DEF Changes, Shape
<1>4. CASE creates = "azure" /\ conf.accepted
  BY <1>1, <1>4 DEF Changes, Shape
<1>5. CASE creates = "gcp" /\ conf.accepted
  BY <1>1, <1>5 DEF Changes, Shape
<1>6. CASE creates = "kubernetes" /\ conf.accepted
  BY <1>1, <1>6 DEF Changes, Shape
<1>7. QED
  BY <1>1, <1>2, <1>3, <1>4, <1>5, <1>6

LEMMA ChangesKeep ==
  ASSUME TypeOK, IInv, UNCHANGED Environment, NEW i \in Ids, NEW now, Changes(i, now),
         things' = [things EXCEPT ![i] = now],
         report' \in [Ids -> SUBSET {"ready", "terminated"}], self' \in [Ids -> 0 .. 5], Counted
  PROVE  (TypeOK /\ IInv)'
<1>1. /\ UNCHANGED <<conf, tf, id, run, crashes, dangling, swallowed>>
      /\ creates' = creates /\ deletes' = deletes
  BY DEF Environment, creates, deletes
<1>2. /\ things'[i] = now /\ \A j \in Ids : j # i => things'[j] = things[j]
  BY DEF TypeOK
<1>3. TypeOK'
  <2>1. failures' \in 0 .. MaxFailures
    BY ConstantsTyped DEF TypeOK, Counted
  <2>2. things' \in [Ids -> SUBSET Things] /\ \A j \in Ids : Typed(things'[j])
    BY <1>2, ChangesTyped DEF TypeOK, Typed
  <2>3. QED
    BY <1>1, <2>1, <2>2 DEF TypeOK, Typed
<1>4. /\ HandlerInv /\ CreatingInv /\ DeletingInv
      /\ \A j \in Ids : Shape(j) /\ Fresh(j) /\ ForgottenInv(j)
  BY DEF IInv
<1>5. HandlerInv'
  BY <1>1, <1>4 DEF HandlerInv, Idle, Handler
<1>6. Shape(i)
  BY <1>4
<1>7. Shape(i)' /\ (things[i] = {} => now = {}) /\ (Clean(i) => Clean(i)')
  <2>1. Shape(i)'
    BY <1>1, <1>2, <1>6, ChangesShape
  <2>2. things[i] = {} => now = {}
    BY DEF Changes
  <2>3. ASSUME Clean(i), "deleting" \notin now
        PROVE  IF SpotRequest THEN now \subseteq {"request", "instance"} ELSE now = {}
    <3>1. CASE things[i] = {}
      BY <2>2, <3>1
    <3>2. CASE SpotRequest /\ "deleting" \notin things[i]
      <4>1. things[i] \subseteq {"request", "instance"}
        BY <2>3, <3>2 DEF Clean
      <4>2. QED
        BY <3>2, <4>1, <2>3 DEF Changes
    <3>3. CASE "deleting" \in things[i]
      <4>1. now = {} \/ "deleting" \in now
        BY <3>3 DEF Changes
      <4>2. QED
        BY <2>3, <4>1
    <3>4. QED
      BY <2>3, <3>1, <3>2, <3>3 DEF Clean
  <2>4. QED
    BY <1>1, <1>2, <2>1, <2>2, <2>3 DEF Clean, SpotRequest
<1>8. CreatingInv'
  <2>1. CASE i # id
    BY <1>1, <1>2, <1>4, <2>1, HandlersIdentifier DEF CreatingInv
  <2>2. CASE i = id
    <3>1. SUFFICES ASSUME run.stage = "create", creates = "azure", run.pc \in 2 .. 7
                   PROVE  now \intersect {"group", "instance", "deleting"} = {"group"}
      BY <1>1, <1>2, <1>4, <1>7, <2>2 DEF CreatingInv
    <3>2. things[i] \intersect {"group", "instance", "deleting"} = {"group"}
      BY <1>4, <2>2, <3>1 DEF CreatingInv
    <3>3. {"pod", "request", "job"} \intersect things[i] = {}
      BY <1>6, <3>1 DEF Shape
    <3>4. QED
      BY <3>2, <3>3 DEF Changes
  <2>3. QED
    BY <2>1, <2>2
<1>9. DeletingInv'
  <2>1. CASE i # id
    BY <1>1, <1>2, <1>4, <2>1, HandlersIdentifier DEF DeletingInv
  <2>2. CASE i = id
    <3>1. SUFFICES ASSUME run.stage = "delete", id \notin swallowed, deletes # "unknown"
                   PROVE  /\ deletes = "aws" =>
                               /\ "keyPair" \notin things[id] => "keyPair" \notin now
                               /\ "tag" \notin things[id] => "tag" \notin now
                          /\ deletes = "azure" =>
                               ("deleting" \in things[id] => now = {} \/ "deleting" \in now)
                          /\ deletes = "gcp" =>
                               now \subseteq things[id]
      <4>1. deletes \in {"aws", "azure", "gcp", "kubernetes", "unknown"}
        BY Clouds DEF deletes
      <4>2. QED
        BY <1>1, <1>2, <1>4, <1>7, <2>2, <3>1, <4>1 DEF DeletingInv
    <3>2. creates = deletes
      BY <3>1, Clouds DEF creates, deletes
    <3>3. deletes = "aws" =>
            /\ "keyPair" \notin things[id] => "keyPair" \notin now
            /\ "tag" \notin things[id] => "tag" \notin now
      BY <2>2 DEF Changes
    <3>4. deletes = "azure" => ("deleting" \in things[id] => now = {} \/ "deleting" \in now)
      BY <2>2 DEF Changes
    <3>5. deletes = "gcp" => now \subseteq things[id]
      BY <1>6, <2>2, <3>2 DEF Changes, Shape
    <3>6. QED
      BY <3>3, <3>4, <3>5
  <2>3. QED
    BY <2>1, <2>2
<1>10. \A j \in Ids : Shape(j)' /\ Fresh(j)' /\ ForgottenInv(j)'
  <2>1. TAKE j \in Ids
  <2>2. Forgotten(j)' <=> Forgotten(j)
    BY <1>1 DEF Forgotten, Idle, Handler
  <2>3. CASE j = i
    BY <1>1, <1>2, <1>4, <1>7, <2>2, <2>3 DEF Fresh, ForgottenInv
  <2>4. CASE j # i
    <3>1. things'[j] = things[j] /\ Shape(j) /\ Fresh(j) /\ ForgottenInv(j)
      BY <1>2, <1>4, <2>4
    <3>2. QED
      BY <1>1, <2>2, <3>1 DEF Shape, Fresh, ForgottenInv, Clean, SpotRequest
  <2>5. QED
    BY <2>3, <2>4
<1>11. QED
  BY <1>3, <1>5, <1>8, <1>9, <1>10 DEF IInv

LEMMA CloudKeeps ==
  ASSUME TypeOK, IInv, NEW i \in Ids, Cloud(i) \/ JobFinishes(i) \/ Reclaimed(i)
  PROVE  (TypeOK /\ IInv)'
<1>1. /\ UNCHANGED Environment /\ report' = report /\ self' = self /\ Counted
      /\ report \in [Ids -> SUBSET {"ready", "terminated"}] /\ self \in [Ids -> 0 .. 5]
  BY DEF Cloud, Fulfil, PodStarts, Collected, JobFinishes, Reclaimed, Environment, Counted, TypeOK
<1>2. \E now : Changes(i, now) /\ things' = [things EXCEPT ![i] = now]
  <2>1. CASE Fulfil(i)
    <3>1. Changes(i, (things[i] \ {"request"}) \union {"instance"})
      BY <2>1 DEF Fulfil, Changes
    <3>2. QED
      BY <2>1, <3>1 DEF Fulfil
  <2>2. CASE PodStarts(i)
    <3>1. {"job", "deleting"} \intersect things[i] = {"job"}
      BY <2>2 DEF PodStarts
    <3>2. CASE "pod" \in things[i]
      <4>1. things' = [things EXCEPT ![i] = things[i] \union {"ready"}]
        BY <2>2, <3>2 DEF PodStarts
      <4>2. Changes(i, things[i] \union {"ready"})
        BY <3>1, <3>2 DEF Changes
      <4>3. QED
        BY <4>1, <4>2
    <3>3. CASE "pod" \notin things[i]
      <4>1. things' = [things EXCEPT ![i] = things[i] \union {"pod"}]
        BY <2>2, <3>3 DEF PodStarts
      <4>2. Changes(i, things[i] \union {"pod"})
        BY <3>1 DEF Changes
      <4>3. QED
        BY <4>1, <4>2
    <3>4. QED
      BY <3>2, <3>3
  <2>3. CASE Collected(i) \/ JobFinishes(i)
    <3>1. things' = [things EXCEPT ![i] = {}] /\ {"deleting", "pod"} \intersect things[i] # {}
      BY <2>3 DEF Collected, JobFinishes
    <3>2. Changes(i, {})
      BY <3>1 DEF Changes
    <3>3. QED
      BY <3>1, <3>2
  <2>4. CASE Reclaimed(i)
    <3>1. \/ things' = [things EXCEPT ![i] = things[i] \ {"instance", "tag"}]
          \/ things' = [things EXCEPT ![i] = things[i] \ {"pod", "ready"}]
      BY <2>4 DEF Reclaimed
    <3>2. Changes(i, things[i] \ {"instance", "tag"}) /\ Changes(i, things[i] \ {"pod", "ready"})
      BY DEF Changes
    <3>3. QED
      BY <3>1, <3>2
  <2>5. QED
    BY <2>1, <2>2, <2>3, <2>4 DEF Cloud
<1>3. QED
  BY <1>1, <1>2, ChangesKeep

LEMMA MachineKeeps ==
  ASSUME TypeOK, IInv, NEW i \in Ids, Reports(i) \/ SelfBegins(i) \/ SelfStep(i)
  PROVE  (TypeOK /\ IInv)'
<1>1. UNCHANGED Environment /\ Counted
  BY DEF Reports, SelfBegins, SelfStep, Environment, Counted
<1>2. /\ report \in [Ids -> SUBSET {"ready", "terminated"}] /\ self \in [Ids -> 0 .. 5]
  BY DEF TypeOK
<1>3. Changes(i, things[i])
  <2>1. things[i] = things[i] \ {}
    OBVIOUS
  <2>2. QED
    BY <2>1 DEF Changes
<1>4. things' = things => things' = [things EXCEPT ![i] = things[i]]
  BY DEF TypeOK
<1>5. CASE Reports(i)
  <2>1. /\ things' = things /\ self' = self
        /\ \E status \in {"ready", "terminated"} :
             report' = [report EXCEPT ![i] = report[i] \union {status}]
    BY <1>5 DEF Reports
  <2>2. report' \in [Ids -> SUBSET {"ready", "terminated"}]
    BY <1>2, <2>1
  <2>3. QED
    BY <1>1, <1>2, <1>3, <1>4, <2>1, <2>2, ChangesKeep
<1>6. CASE SelfBegins(i)
  <2>1. things' = things /\ report' = report /\ self' = [self EXCEPT ![i] = 1]
    BY <1>6 DEF SelfBegins
  <2>2. self' \in [Ids -> 0 .. 5]
    BY <1>2, <2>1
  <2>3. QED
    BY <1>1, <1>2, <1>3, <1>4, <2>1, <2>2, ChangesKeep
<1>7. CASE SelfStep(i)
  <2>1. PICK P, n : P = DeleteSteps(creates) /\ n = self[i]
    OBVIOUS
  <2>2. /\ Alive(i) /\ n \in DOMAIN P /\ report' = report
        /\ \/ /\ things' = [things EXCEPT ![i] = Effect(things[i], P[n])]
              /\ self' = [self EXCEPT ![i] = n + 1]
           \/ /\ things' = things
              /\ self' = [self EXCEPT ![i] = n + 1] \/ self' = [self EXCEPT ![i] = Len(P) + 1]
    BY <1>7, <2>1 DEF SelfStep, creates
  <2>3. Len(P) \in 0 .. 4 /\ n \in 1 .. Len(P)
    BY <2>1, <2>2, DeletePlaces
  <2>4. n + 1 \in 0 .. 5 /\ Len(P) + 1 \in 0 .. 5
    <3>1. PICK m \in 0 .. 4 : m = Len(P) /\ n \in 1 .. m
      BY <2>3
    <3>2. n + 1 \in 0 .. 5 /\ m + 1 \in 0 .. 5
      BY <3>1
    <3>3. QED
      BY <3>1, <3>2
  <2>5. self' \in [Ids -> 0 .. 5]
    BY <1>2, <2>2, <2>4
  <2>6. CASE things' = things
    BY <1>1, <1>2, <1>3, <1>4, <2>2, <2>5, <2>6, ChangesKeep
  <2>7. CASE things' = [things EXCEPT ![i] = Effect(things[i], P[n])]
    <3>1. PICK now : now = Effect(things[i], P[n])
      OBVIOUS
    <3>2. \/ now = things[i]
          \/ creates = "azure" /\ "group" \in things[i] /\ now = things[i] \union {"deleting"}
          \/ creates = "kubernetes" /\ "job" \in things[i] /\ now = things[i] \union {"deleting"}
          \/ creates \in {"aws", "gcp"} /\ now = things[i] \ {"instance", "tag"}
          \/ creates = "aws" /\ now = things[i] \ {"keyPair"}
          \/ creates = "gcp" /\ now = things[i] \ {"ingress"}
          \/ creates = "gcp" /\ now = things[i] \ {"egress"}
      BY <2>1, <2>2, <3>1, DeleteShrinks
    <3>3. Changes(i, now)
      BY <1>3, <2>2, <3>2 DEF Changes, Alive
    <3>4. QED
      BY <1>1, <1>2, <2>2, <2>5, <2>7, <3>1, <3>3, ChangesKeep
  <2>8. QED
    BY <2>2, <2>6, <2>7
<1>8. QED
  BY <1>5, <1>6, <1>7

------------------------------------------------------------------------------
(* The theorems. *)

LEMMA Starts ==
  ASSUME Init
  PROVE  TypeOK /\ IInv
<1>1. /\ conf \in Configs /\ tf = "absent" /\ id = 0 /\ run = Idle
      /\ things = [i \in Ids |-> {}] /\ report = [i \in Ids |-> {}] /\ self = [i \in Ids |-> 0]
      /\ failures = 0 /\ crashes = 0 /\ dangling = {} /\ swallowed = {}
  BY DEF Init
<1>2. {MaxApplies, MaxFailures, MaxCrashes} \subseteq Nat
  BY ConstantsTyped
<1>3. /\ 0 \in 0 .. MaxApplies /\ 0 \in 0 .. MaxFailures /\ 0 \in 0 .. MaxCrashes
  BY <1>2
<1>4. TypeOK
  BY <1>1, <1>3, IdleTyped DEF TypeOK, RunType, Handlers, Stages
<1>5. HandlerInv /\ CreatingInv /\ DeletingInv
  BY <1>1, IdleTyped DEF HandlerInv, CreatingInv, DeletingInv
<1>6. \A i \in Ids : Shape(i) /\ Fresh(i) /\ ForgottenInv(i)
  <2>1. TAKE i \in Ids
  <2>2. things[i] = {}
    BY <1>1
  <2>3. QED
    BY <2>2 DEF Shape, Fresh, ForgottenInv, Clean
<1>7. QED
  BY <1>4, <1>5, <1>6 DEF IInv

LEMMA Keeps ==
  ASSUME TypeOK, IInv, [Next]_vars
  PROVE  (TypeOK /\ IInv)'
<1>1. CASE UNCHANGED vars
  BY <1>1 DEF vars, TypeOK, IInv, HandlerInv, CreatingInv, DeletingInv, Shape, Fresh, ForgottenInv,
              Forgotten, Clean, SpotRequest, creates, deletes, Idle, Handler
<1>2. CASE Next
  BY <1>2, ApplyKeeps, DestroyKeeps, ProviderKeeps, ExpireKeeps, CrashKeeps, CloudKeeps,
     MachineKeeps DEF Next, Machine
<1>3. QED
  BY <1>1, <1>2

\* The invariant, and the types with it: the place in the programs is bounded because
\* their lengths are, whatever the cloud.
THEOREM InductiveInvariant == Spec => [](TypeOK /\ IInv)
<1>1. Init => TypeOK /\ IInv
  BY Starts
<1>2. (TypeOK /\ IInv) /\ [Next]_vars => (TypeOK /\ IInv)'
  BY Keeps
<1>3. QED
  BY <1>1, <1>2, PTL DEF Spec

\* The state stays of its types.
THEOREM TypeCorrect == Spec => []TypeOK
BY InductiveInvariant, PTL

\* Nothing is left, on any cloud, of a machine that Terraform does not know of, but
\* for the exceptions that the property names.
THEOREM NothingForgottenHolds == Spec => []NothingForgotten
<1>1. IInv => NothingForgotten
  BY DEF IInv, ForgottenInv, Clean, SpotRequest, NothingForgotten
<1>2. QED
  BY <1>1, InductiveInvariant, PTL

\* An apply of a runner that succeeds saw that the runner is ready and not terminated.
THEOREM RunnerIsReadyHolds == Spec => RunnerIsReady
<1>1. ASSUME TypeOK, IInv, Next, tf = "absent", tf' = "present", conf.runner
      PROVE  "ready" \in report[id] /\ "terminated" \notin report[id]
  <2>1. CASE SeesReady
    BY <2>1 DEF SeesReady
  <2>2. CASE CreateReturns
    BY <1>1, <2>2 DEF CreateReturns
  <2>3. ~SeesReady /\ ~CreateReturns => tf' # "present"
    <3>1. ~(Apply \/ Destroy \/ Expire \/ Crash)
      BY <1>1 DEF Apply, Destroy, Expire, Crash, Panic
    <3>2. ASSUME NEW i \in Ids
          PROVE  ~(Cloud(i) \/ Machine(i) \/ Reclaimed(i))
      BY <1>1 DEF Cloud, Fulfil, PodStarts, Collected, Machine, Reports, JobFinishes, SelfBegins,
                  SelfStep, Reclaimed, Environment
    <3>3. ~(Fails \/ Panic \/ Advance \/ Errs)
      BY <1>1 DEF Fails, Panic, Advance, Errs
    <3>4. ~(StepSucceeds \/ StepError \/ StepRefused \/ StepJobFound \/ StepSeek \/ StepFind
            \/ StepFulfilled \/ StepUnfulfilled \/ StepPodsReady \/ SeesTerminated \/ LogsPanic)
      BY <3>3 DEF StepSucceeds, StepError, StepRefused, StepJobFound, StepSeek, StepFind,
                  StepFulfilled, StepUnfulfilled, StepPodsReady, SeesTerminated, LogsPanic
    <3>5. ~(StepJobMissing \/ StepGone \/ StepPodsExpire \/ CreateRejected \/ WaitExpires)
      BY <1>1, <3>3 DEF StepJobMissing, StepGone, StepPodsExpire, CreateRejected, WaitExpires
    <3>6. ~DeleteReturns
      BY <1>1 DEF DeleteReturns
    <3>7. QED
      BY <1>1, <3>1, <3>2, <3>4, <3>5, <3>6 DEF Next, Provider
  <2>4. QED
    BY <1>1, <2>1, <2>2, <2>3
<1>2. TypeOK /\ IInv /\ [Next]_vars =>
        [tf = "absent" /\ tf' = "present" /\ conf.runner
           => "ready" \in report[id] /\ "terminated" \notin report[id]]_vars
  BY <1>1
<1>3. QED
  BY <1>2, InductiveInvariant, PTL DEF Spec, RunnerIsReady
==============================================================================
