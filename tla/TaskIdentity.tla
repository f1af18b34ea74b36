----------------------------- MODULE TaskIdentity -----------------------------
(***************************************************************************)
(* How a task finds what is its own (task/common/identifier.go and the end  *)
(* of resourceTaskBuild): everything in the cloud is named after the        *)
(* identifier of the task, and each run of Terraform, leo or the machine    *)
(* works the identifier out anew, from Terraform's state, the attribute     *)
(* name, the variables of a CI pipeline, or chance.  Tasks share one cloud, *)
(* an apply may die, and runs in pipelines and outside them follow.         *)
(*                                                                          *)
(* A text is a sequence of characters, of which "~" stands for those that   *)
(* identifiers do not have; a word that the code itself writes, or a number,*)
(* is one character.  The digest of a text is the text, marked: the digests *)
(* of different texts differ.                                               *)
(***************************************************************************)
EXTENDS Naturals, Sequences, SequencesExt

CONSTANTS
  Tasks,         \* resources iterative_task
  Names,         \* texts for the attribute name; the empty one is no name
  nameLength,    \* characters an identifier keeps of a name
  decimal,       \* decimal[n]: the text of the number n, a character
  Triggerers,    \* persons who trigger Bitbucket's pipelines: characters
  MaxPipelines,  \* bound: pipelines
  MaxApplies     \* bound: applies

Numbers == 0 .. MaxPipelines + MaxApplies
IsAlnum(c) == c \notin {"~", "-"}

\* The seed of a random identifier is like no name: it has "uid", which no name has.
ASSUME IdentityConstants ==
  /\ <<>> \in Names /\ \A text \in Names : text \in Seq(STRING) /\ \A k \in DOMAIN text : text[k] # "uid"
  /\ "leo" \notin Tasks
  /\ nameLength \in Nat /\ nameLength > 1
  /\ MaxPipelines \in Nat /\ MaxPipelines > 0 /\ MaxApplies \in Nat
  /\ \A p \in Triggerers : p \in STRING /\ IsAlnum(p)
  /\ \A m \in Numbers : decimal[m] \in STRING /\ IsAlnum(decimal[m])
  /\ \A m \in Numbers : \A n \in Numbers : decimal[m] = decimal[n] => m = n

------------------------------------------------------------------------------
(* Identifiers. *)

\* Runs of other characters become one dash.
Extended(text, c) ==
  IF IsAlnum(c) THEN Append(text, c)
  ELSE IF text # <<>> /\ Last(text) = "-" THEN text ELSE Append(text, "-")

Dashed(text) ==
  LET dashed[n \in 0 .. Len(text)] == IF n = 0 THEN <<>> ELSE Extended(dashed[n - 1], text[n])
  IN dashed[Len(text)]

\* One dash at either end is taken off.
Trimmed(text) ==
  LET from == IF text # <<>> /\ Head(text) = "-" THEN 2 ELSE 1
      to   == IF text # <<>> /\ Last(text) = "-" THEN Len(text) - 1 ELSE Len(text)
  IN SubSeq(text, from, to)

Truncated(text) == IF Len(text) > nameLength THEN SubSeq(text, 1, nameLength) ELSE text

\* Fault: the dashes are taken off before the text is cut.
NormalizeCutsLast(text) == Truncated(Trimmed(Dashed(text)))

normalize(text) == Trimmed(Truncated(Dashed(text)))

hash(text) == <<"#">> \o text

Identifier(name, salt) == [name |-> name, salt |-> salt]

\* The string, by its parts; the prefix is always the same.
Long(i) ==
  LET name == normalize(i.name) IN
  [name |-> name, salt |-> i.salt, sum |-> hash(name \o i.salt)]

NewDeterministicIdentifier(name) == Identifier(name, hash(normalize(name)))

\* Without a name, a random one; n makes the salt unlike any other.
NewRandomIdentifier(name, n) ==
  Identifier(IF name = <<>> THEN <<"pet">> ELSE name, hash(<<"uid", decimal[n]>>))

\* A string that is no identifier, the empty one for instance.
NoId == [name |-> <<>>, salt |-> <<>>, sum |-> <<>>]

\* Fault: the expression asks for a first and a last character of the name.
IsIdentifierOfTwo(long) ==
  Len(long.name) > 1 /\ long.sum = hash(long.name \o long.salt)

\* Whether ParseIdentifier succeeds, which then returns the parts of the string.
IsIdentifier(long) ==
  long.name # <<>> /\ long.sum = hash(long.name \o long.salt)

ParseIdentifier(long) == Identifier(long.name, long.salt)

------------------------------------------------------------------------------
VARIABLES
  name,      \* attribute name: a text, or the identifier given as one
  pipeline,  \* pipelines, or runs outside CI, before this one
  seed,      \* what CI says of this one; empty outside CI
  id,        \* id[t]: what Terraform's state has for t, NoId if nothing
  cloud,     \* what there is: its identifier, who made it, the seed then, is it on
  applies

vars == <<name, pipeline, seed, id, cloud, applies>>

\* A task that leo create made; its identifier was printed, and may be given as a name.
LeoId == Long(NewRandomIdentifier(<<>>, 0))
Made(by, long) == [id |-> long, by |-> by, seed |-> seed, on |-> TRUE]

Text(text) == [text |-> text, long |-> NoId]
Given(long) == [text |-> <<"given">>, long |-> long]

\* GitHub and GitLab number their pipelines (GITHUB_RUN_ID, CI_PIPELINE_ID); of
\* Bitbucket the code takes who triggered the step, who may trigger others.
Seeds(n) == {<<>>, <<decimal[n]>>} \union {<<p>> : p \in Triggerers}

Init ==
  /\ name \in [Tasks -> {Text(text) : text \in Names} \union {Given(LeoId)}]
  /\ pipeline = 0 /\ seed \in Seeds(0)
  /\ id = [t \in Tasks |-> NoId]
  /\ cloud \in {{}, {Made("leo", LeoId)}}
  /\ applies = 0

\* Fault: a task with a name gets a random identifier too, as leo create gives it.
ByNameAndChance(t) ==
  IF IsIdentifier(name[t].long) THEN ParseIdentifier(name[t].long)
  ELSE NewRandomIdentifier(name[t].text, applies + 1)

ByName(t) ==
  IF IsIdentifier(name[t].long) THEN ParseIdentifier(name[t].long)
  ELSE NewDeterministicIdentifier(name[t].text)

ByPipeline == NewDeterministicIdentifier(seed)
ByChance == NewRandomIdentifier(<<>>, applies + 1)

\* Fault: the pipeline goes before the name.
ChoosePipelineFirst(t) ==
  IF seed # <<>> THEN ByPipeline ELSE IF name[t].text # <<>> THEN ByName(t) ELSE ByChance

Choose(t) ==
  IF name[t].text # <<>> THEN ByName(t) ELSE IF seed # <<>> THEN ByPipeline ELSE ByChance

\* Fault: what Terraform's state has is not looked at.
IdentifyAnew(t) == Choose(t)

Identify(t) == IF IsIdentifier(id[t]) THEN ParseIdentifier(id[t]) ELSE Choose(t)

Without(long) == {thing \in cloud : thing.id # long}

\* terraform apply creates or adopts what the identifier names; it succeeds, or
\* deletes it again, or dies.
Apply(t) ==
  LET long == Long(Identify(t)) IN
  /\ id[t] = NoId /\ applies < MaxApplies
  /\ applies' = applies + 1
  /\ \/ cloud' = cloud \union {Made(t, long)} /\ id' = [id EXCEPT ![t] = long]
     \/ cloud' = Without(long) /\ UNCHANGED id
     \/ cloud' = cloud \union {Made(t, long)} /\ UNCHANGED id
  /\ UNCHANGED <<name, pipeline, seed>>

\* terraform refresh of a task whose resources are there.
Refresh(t) ==
  LET long == Long(Identify(t)) IN
  /\ id[t] # NoId /\ \E thing \in cloud : thing.id = long
  /\ id' = [id EXCEPT ![t] = long]
  /\ UNCHANGED <<name, pipeline, seed, cloud, applies>>

Destroy(t) ==
  /\ id[t] # NoId
  /\ cloud' = Without(Long(Identify(t)))
  /\ id' = [id EXCEPT ![t] = NoId]
  /\ UNCHANGED <<name, pipeline, seed, applies>>

\* Each machine runs leo stop with the identifier of its task.
LeoStop(thing) ==
  LET long == Long(ParseIdentifier(thing.id)) IN
  /\ thing.on /\ IsIdentifier(thing.id)
  /\ cloud' = Without(long) \union {[x EXCEPT !.on = FALSE] : x \in cloud \ Without(long)}
  /\ UNCHANGED <<name, pipeline, seed, id, applies>>

\* leo list prints what is an identifier, and leo delete takes it.
LeoDelete(thing) ==
  /\ IsIdentifier(thing.id)
  /\ cloud' = Without(Long(ParseIdentifier(thing.id)))
  /\ UNCHANGED <<name, pipeline, seed, id, applies>>

NextPipeline ==
  /\ pipeline < MaxPipelines
  /\ pipeline' = pipeline + 1 /\ seed' \in Seeds(pipeline')
  /\ UNCHANGED <<name, id, cloud, applies>>

Next ==
  \/ \E t \in Tasks : Apply(t) \/ Refresh(t) \/ Destroy(t)
  \/ \E thing \in cloud : LeoStop(thing) \/ LeoDelete(thing)
  \/ NextPipeline

Spec == Init /\ [][Next]_vars
------------------------------------------------------------------------------
(* Properties. *)

\* The characters of an identifier are those that the clouds take: its name is no
\* longer than nameLength and neither begins nor ends with a dash, nor has two in a
\* row (identifier_test.go:31-40).
WellFormed(long) ==
  /\ Len(long.name) <= nameLength
  /\ \A k \in DOMAIN long.name :
       IsAlnum(long.name[k])
       \/ (long.name[k] = "-" /\ k \notin {1, Len(long.name)} /\ IsAlnum(long.name[k + 1]))

TypeOK ==
  /\ pipeline \in 0 .. MaxPipelines /\ seed \in Seeds(pipeline) /\ applies \in 0 .. MaxApplies
  /\ \A t \in Tasks : id[t] = NoId \/ WellFormed(id[t])
  /\ \A thing \in cloud :
       /\ WellFormed(thing.id) /\ thing.by \in Tasks \union {"leo"}
       /\ thing.on \in BOOLEAN
       /\ thing.seed \in UNION {Seeds(n) : n \in 0 .. pipeline}

\* A task that Terraform has keeps its identifier, whichever pipeline comes to
\* refresh or to destroy it (resource_task.go:431), also one whose identifier
\* cannot be parsed.
KeepsIdentifier == \A t \in Tasks : id[t] # NoId => Long(Identify(t)) = id[t]

Unnamed(t) == name[t].text = <<>>

\* What an apply that died left is what the next apply of the task adopts or
\* deletes, provided that the task has a name or, if not, that CI says the same of the
\* run that applies it again: the same pipeline or, on Bitbucket, one of the same person
\* (resource_task.go:433-447); otherwise Terraform does not find it, only leo list.
LeftoversFound ==
  \A thing \in cloud : \A t \in Tasks :
    thing.by = t /\ id[t] = NoId /\ (Unnamed(t) => seed # <<>> /\ thing.seed = seed)
      => thing.id = Long(Identify(t))

\* leo stop and leo delete find the task by the identifier that the machine or the
\* user has, if it has no name or one with a letter or a digit (identifier.go:31-40).
IsReachable ==
  \A thing \in cloud :
    (\A t \in Tasks :
       thing.by = t => Unnamed(t) \/ \E k \in DOMAIN name[t].text : IsAlnum(name[t].text[k]))
      => IsIdentifier(thing.id) /\ Long(ParseIdentifier(thing.id)) = thing.id

Alike(t, u) ==
  /\ ~Unnamed(t) /\ ~Unnamed(u)
  /\ normalize(name[t].text) = normalize(name[u].text)

\* A task is named after what CI said where a thing was made.
IsSeed(t, thing) ==
  ~Unnamed(t) /\ thing.seed # <<>> /\ normalize(name[t].text) = thing.seed

\* Two tasks have things in common only if they were given names that are alike in
\* what is kept of them, or one was given the other's identifier, or neither was
\* given a name and CI said the same of them, or one was named after what CI said of
\* the other; otherwise destroying one leaves the other alone.  CI says the same of
\* the runs of one pipeline (resource_task.go:439-442), and of all pipelines that a
\* person triggers on Bitbucket (:443-444).
SharedByName ==
  \A x \in cloud : \A y \in cloud :
    x.id = y.id /\ x.by # y.by =>
      \/ "leo" \in {x.by, y.by} \/ Alike(x.by, y.by)
      \/ Unnamed(x.by) /\ Unnamed(y.by) /\ x.seed = y.seed /\ x.seed # <<>>
      \/ Unnamed(x.by) /\ IsSeed(y.by, x)
      \/ Unnamed(y.by) /\ IsSeed(x.by, y)
==============================================================================
