---------------------------- MODULE LeoRead_proofs ----------------------------
(***************************************************************************)
(* Theorems about LeoRead, for any number of machines, lines, losses and    *)
(* failures: the command exits with the verdict of the task, has then       *)
(* printed the log that is in the bucket, and prints no line twice.         *)
(***************************************************************************)
EXTENDS LeoRead, Induction_proofs, FiniteSetTheorems

------------------------------------------------------------------------------
(* The inductive invariant. *)

\* What the machines hold and what they have put in the bucket.
MachineTypes ==
  /\ hashed \in [Machines -> (None .. MaxLines) \X BOOLEAN]
  /\ logs \in [Machines -> None .. MaxLines] /\ statuses \subseteq Machines
  /\ Cardinality(Written) <= MaxLines /\ Len(got) <= N + MaxLines

\* What there is of a machine follows from its phase.
PhaseOf(m) ==
  /\ phase[m] = "none" => /\ lines[m] = 0 /\ logs[m] = None /\ m \notin statuses
                          /\ verdict[m] = "none" /\ hashed[m] = <<None, FALSE>>
                          /\ syncing[m] = "no" /\ turn[m] = FALSE
  /\ phase[m] = "on" => verdict[m] = "none"
  /\ phase[m] \in {"stopped", "done"} => verdict[m] # "none"
  /\ hashed[m][2] => verdict[m] # "none"
  /\ phase[m] \in {"on", "stopped", "done"} => logs[m] <= File(m)

PhaseInv == \A m \in Machines : PhaseOf(m)

\* No machine is replaced in a group of one from which none was reclaimed; when the
\* group is stopped its machine has ended; and a reader that saw it, and now counts
\* none, sees it gone.
Whole == Parallelism = 1 /\ lost = {}

LoneInv ==
  Whole =>
    /\ \A m \in Used : \A o \in Used : m = o
    /\ desired # 0 => \A m \in Machines : phase[m] \in {"none", "on", "stopped"}
    /\ desired = 0 => \A m \in Machines : phase[m] \in {"none", "done", "gone"}
    /\ seen => Used # {}
    /\ pc \in {"logs", "status"} /\ seen /\ active = 0 =>
         desired = 0 /\ \A m \in Machines : phase[m] \in {"none", "gone"}

VerdictInv ==
  Whole /\ Followed /\ seen =>
    /\ desired = 0 /\ \A m \in Machines : phase[m] \in {"none", "gone"}
    /\ exit = "succeeded" <=> \A m \in Used : verdict[m] = "success"

\* The first n lines of the log of m.
FirstLines(m, n) == [k \in 1 .. n |-> <<m, k>>]

\* The lines of a log of n that is empty, or absent, are none.
Shown(n) == IF n > 0 THEN n ELSE 0

\* As long as there is one machine, leo has got the beginning of its log as it is in the
\* bucket, and printed the lines that it counted.
PrintOf(m) ==
  /\ \E n \in None .. lines[m] : got = LinesOf(m, n) /\ last <= Shown(n) /\ n <= logs[m]
  /\ last \in 0 .. lines[m] /\ printed = FirstLines(m, last)

PrintInv == \A m \in Machines : Used \subseteq {m} => PrintOf(m)

\* What the last turns of the loop put in the bucket.
CopyOf(m) ==
  /\ phase[m] \in {"none", "on"} => m \notin late
  /\ phase[m] = "on" => ~turn[m]
  /\ phase[m] \in {"on", "stopped"} /\ ~turn[m] => ~hashed[m][2]
  /\ phase[m] = "stopped" /\ turn[m] /\ m \notin late =>
       /\ hashed[m] = Content(m)
       /\ syncing[m] # "copy" => logs[m] = lines[m]
  /\ phase[m] = "done" /\ m \notin late =>
       hashed[m] = Content(m) /\ syncing[m] = "no" /\ logs[m] = lines[m]
  /\ phase[m] = "gone" /\ m \notin late => logs[m] = lines[m]

CopyInv == Whole /\ failures = 0 => \A m \in Machines : CopyOf(m)

\* When the reader counts no machine any more it gets the log that stays in the bucket.
AllInv ==
  Whole /\ seen =>
    /\ pc = "status" /\ active = 0 => \A m \in Used : got = LinesOf(m, logs[m])
    /\ Followed => \A m \in Used : printed = FirstLines(m, Shown(logs[m]))

IInv ==
  /\ MachineTypes /\ PhaseInv /\ LoneInv /\ VerdictInv /\ PrintInv /\ CopyInv /\ AllInv
------------------------------------------------------------------------------
(* Numbers of machines and of lines. *)

LEMMA Constants ==
  /\ N \in Nat /\ Parallelism \in Nat /\ Parallelism > 0
  /\ MaxLines \in Nat /\ MaxLosses \in Nat /\ MaxFailures \in Nat
BY ReadConstants

LEMMA SomeMachines ==
  ASSUME NEW S \in SUBSET Machines
  PROVE  IsFiniteSet(S) /\ Cardinality(S) \in 0 .. N /\ (Cardinality(S) = 0 <=> S = {})
<1>1. IsFiniteSet(Machines) /\ Cardinality(Machines) = N
  <2>1. IsFiniteSet(1 .. N) /\ Cardinality(1 .. N) = IF 1 > N THEN 0 ELSE N - 1 + 1
    BY Constants, FS_Interval
  <2>2. QED
    BY <2>1, Constants DEF Machines
<1>2. IsFiniteSet(S) /\ Cardinality(S) <= N
  BY <1>1, FS_Subset
<1>3. Cardinality(S) \in Nat
  BY <1>2, FS_CardinalityType
<1>4. QED
  BY <1>2, <1>3, FS_EmptySet, Constants

LEMMA AtMostOne ==
  ASSUME NEW S \in SUBSET Machines, \A m \in S : \A o \in S : m = o
  PROVE  Cardinality(S) <= 1
<1>1. CASE S = {}
  BY <1>1, FS_EmptySet
<1>2. CASE S # {}
  <2>1. PICK m \in S : TRUE
    BY <1>2
  <2>2. S = {m}
    BY <2>1
  <2>3. QED
    BY <2>2, FS_Singleton
<1>3. QED
  BY <1>1, <1>2

LEMMA OnlyOne ==
  ASSUME NEW S \in SUBSET Machines, Cardinality(S) = 1
  PROVE  \E m \in Machines : S = {m}
<1>1. PICK m : S = {m}
  BY SomeMachines, FS_Singleton
<1>2. QED
  BY <1>1

\* The first n lines of m.
LEMMA FirstLinesTyped ==
  ASSUME NEW m, NEW n \in Nat
  PROVE  /\ FirstLines(m, n) \in Seq({m} \X (1 .. n)) /\ Len(FirstLines(m, n)) = n
         /\ \A k \in 1 .. n : FirstLines(m, n)[k] = <<m, k>>
<1>1. FirstLines(m, n) \in [1 .. n -> {m} \X (1 .. n)]
  BY DEF FirstLines
<1>2. FirstLines(m, n) \in Seq({m} \X (1 .. n))
  BY <1>1
<1>3. DOMAIN FirstLines(m, n) = 1 .. n
  BY DEF FirstLines
<1>4. Len(FirstLines(m, n)) = n
  BY <1>2, <1>3, LenProperties
<1>5. QED
  BY <1>2, <1>4 DEF FirstLines

LEMMA FirstLinesPrefix ==
  ASSUME NEW m, NEW n \in Nat, NEW k \in Nat, k <= n
  PROVE  FirstLines(m, k) = SubSeq(FirstLines(m, n), 1, k)
<1>1. PICK s, t, u : s = FirstLines(m, n) /\ t = SubSeq(s, 1, k) /\ u = FirstLines(m, k)
  OBVIOUS
<1>2. s \in Seq({m} \X (1 .. n)) /\ \A i \in 1 .. n : s[i] = <<m, i>>
  BY <1>1, FirstLinesTyped
<1>3. u \in Seq({m} \X (1 .. k)) /\ Len(u) = k /\ \A i \in 1 .. k : u[i] = <<m, i>>
  BY <1>1, FirstLinesTyped
<1>4. u \in Seq({m} \X (1 .. n))
  <2>1. {m} \X (1 .. k) \subseteq {m} \X (1 .. n)
    OBVIOUS
  <2>2. QED
    BY <1>3, <2>1, SeqMonotonic
<1>5. ASSUME NEW i \in 1 .. k
      PROVE  s[i] \in {m} \X (1 .. n)
  <2>1. i \in 1 .. n
    OBVIOUS
  <2>2. s[i] = <<m, i>> /\ <<m, i>> \in {m} \X (1 .. n)
    BY <1>2, <2>1
  <2>3. QED
    BY <2>2
<1>6. /\ t \in Seq({m} \X (1 .. n))
      /\ Len(t) = IF 1 <= k THEN k - 1 + 1 ELSE 0
      /\ \A i \in 1 .. k - 1 + 1 : t[i] = s[1 + i - 1]
  BY <1>1, <1>5, SubSeqProperties
<1>7. Len(t) = k
  BY <1>6
<1>8. ASSUME NEW i \in 1 .. k
      PROVE  t[i] = <<m, i>>
  <2>1. i \in 1 .. k - 1 + 1 /\ 1 + i - 1 = i /\ i \in 1 .. n
    OBVIOUS
  <2>2. t[i] = s[i]
    BY <1>6, <2>1
  <2>3. QED
    BY <1>2, <2>1, <2>2
<1>9. u = t
  BY <1>3, <1>4, <1>6, <1>7, <1>8, SeqEqual
<1>10. QED
  BY <1>1, <1>9

LEMMA NoLines ==
  ASSUME NEW m
  PROVE  FirstLines(m, 0) = << >>
BY DEF FirstLines

LEMMA LinesOfCases ==
  ASSUME NEW m, NEW n \in None .. MaxLines
  PROVE  /\ n = None => LinesOf(m, n) = << >>
         /\ n = 0 => LinesOf(m, n) = <<Blank>>
         /\ n > 0 => LinesOf(m, n) = FirstLines(m, n)
BY Constants DEF LinesOf, FirstLines, None

LEMMA LinesOfTyped ==
  ASSUME NEW m \in Machines, NEW n \in None .. MaxLines
  PROVE  /\ LinesOf(m, n) \in Seq(Line)
         /\ Len(LinesOf(m, n)) = IF n = None THEN 0 ELSE IF n = 0 THEN 1 ELSE n
<1>1. CASE n = None
  <2>1. << >> \in Seq(Line) /\ Len(<< >>) = 0
    OBVIOUS
  <2>2. QED
    BY <1>1, <2>1, LinesOfCases
<1>2. CASE n = 0
  <2>1. Blank \in Line /\ n # None
    BY <1>2 DEF Line, None
  <2>2. <<Blank>> \in Seq(Line) /\ Len(<<Blank>>) = 1
    BY <2>1
  <2>3. QED
    BY <1>2, <2>1, <2>2, LinesOfCases
<1>3. CASE n > 0
  <2>1. n \in Nat /\ n \in 1 .. MaxLines /\ n # None
    BY <1>3, Constants DEF None
  <2>2. FirstLines(m, n) \in Seq({m} \X (1 .. n)) /\ Len(FirstLines(m, n)) = n
    BY <2>1, FirstLinesTyped
  <2>3. ASSUME NEW k \in 1 .. n
        PROVE  <<m, k>> \in Line
    <3>1. k \in 1 .. MaxLines
      BY <2>1, Constants
    <3>2. QED
      BY <3>1 DEF Line
  <2>4. FirstLines(m, n) \in [1 .. n -> Line]
    BY <2>3 DEF FirstLines
  <2>5. QED
    BY <1>3, <2>1, <2>2, <2>4, LinesOfCases
<1>4. QED
  BY <1>1, <1>2, <1>3, Constants DEF None

\* The lines that all machines have written, and those of one.
WrittenBy(m) == {m} \X (1 .. lines[m])
WrittenUpTo(i) == {line \in Written : line[1] <= i}

LEMMA WrittenFinite ==
  ASSUME lines \in [Machines -> 0 .. MaxLines]
  PROVE  /\ IsFiniteSet(Written) /\ Cardinality(Written) \in Nat
         /\ \A i \in 0 .. N : IsFiniteSet(WrittenUpTo(i)) /\ Cardinality(WrittenUpTo(i)) \in Nat
<1>1. IsFiniteSet(Machines) /\ IsFiniteSet(1 .. MaxLines)
  BY Constants, SomeMachines, FS_Interval
<1>2. IsFiniteSet(Machines \X (1 .. MaxLines))
  BY <1>1, FS_Product
<1>3. Written \in SUBSET (Machines \X (1 .. MaxLines))
  BY DEF Written
<1>4. IsFiniteSet(Written)
  BY <1>2, <1>3, FS_Subset
<1>5. ASSUME NEW i \in 0 .. N
      PROVE  IsFiniteSet(WrittenUpTo(i))
  <2>1. WrittenUpTo(i) \in SUBSET Written
    BY DEF WrittenUpTo
  <2>2. QED
    BY <1>4, <2>1, FS_Subset
<1>6. QED
  BY <1>4, <1>5, FS_CardinalityType

LEMMA WrittenByIs ==
  ASSUME lines \in [Machines -> 0 .. MaxLines], NEW m \in Machines
  PROVE  /\ WrittenBy(m) \subseteq Written
         /\ IsFiniteSet(WrittenBy(m)) /\ Cardinality(WrittenBy(m)) = lines[m]
<1>1. lines[m] \in 0 .. MaxLines /\ lines[m] \in Nat
  BY Constants
<1>2. ASSUME NEW w \in WrittenBy(m)
      PROVE  w \in Written
  <2>1. PICK k \in 1 .. lines[m] : w = <<m, k>>
    BY DEF WrittenBy
  <2>2. k \in 1 .. MaxLines /\ k <= lines[m]
    BY <1>1, <2>1, Constants
  <2>3. w \in Machines \X (1 .. MaxLines) /\ w[1] = m /\ w[2] = k
    BY <2>1, <2>2
  <2>4. QED
    BY <2>2, <2>3 DEF Written
<1>3. IsFiniteSet({m}) /\ Cardinality({m}) = 1
  BY FS_Singleton
<1>4. IsFiniteSet(1 .. lines[m]) /\ Cardinality(1 .. lines[m]) = lines[m]
  <2>1. Cardinality(1 .. lines[m]) = IF 1 > lines[m] THEN 0 ELSE lines[m] - 1 + 1
    BY <1>1, FS_Interval
  <2>2. IsFiniteSet(1 .. lines[m])
    BY <1>1, FS_Interval
  <2>3. QED
    BY <1>1, <2>1, <2>2
<1>5. IsFiniteSet({m} \X (1 .. lines[m]))
      /\ Cardinality({m} \X (1 .. lines[m])) = Cardinality({m}) * Cardinality(1 .. lines[m])
  BY <1>3, <1>4, FS_Product
<1>6. QED
  BY <1>1, <1>2, <1>3, <1>4, <1>5 DEF WrittenBy

\* A machine has not written more than all, and the next line is a new one.
LEMMA WrittenGrows ==
  ASSUME lines \in [Machines -> 0 .. MaxLines], NEW m \in Machines,
         Cardinality(Written) < MaxLines, lines' = [lines EXCEPT ![m] = @ + 1]
  PROVE  /\ lines' \in [Machines -> 0 .. MaxLines]
         /\ Cardinality(Written') <= MaxLines
<1>1. lines[m] \in Nat /\ lines[m] <= Cardinality(Written) /\ Cardinality(Written) \in Nat
  <2>1. Cardinality(WrittenBy(m)) <= Cardinality(Written)
    BY WrittenByIs, WrittenFinite, FS_Subset
  <2>2. QED
    BY <2>1, WrittenByIs, WrittenFinite, Constants
<1>2. lines[m] + 1 \in 1 .. MaxLines
  BY <1>1, Constants
<1>3. lines' \in [Machines -> 0 .. MaxLines]
  BY <1>2, Constants
<1>4. ASSUME NEW w \in Machines \X (1 .. MaxLines)
      PROVE  w \in Written' => w \in Written \union {<<m, lines[m] + 1>>}
  <2>1. PICK o \in Machines, k \in 1 .. MaxLines : w = <<o, k>>
    OBVIOUS
  <2>2. w[1] = o /\ w[2] = k /\ k \in Nat
    BY <2>1, Constants
  <2>3. CASE o # m
    <3>1. lines'[o] = lines[o]
      BY <2>3
    <3>2. QED
      BY <2>2, <3>1 DEF Written
  <2>4. CASE o = m
    <3>1. lines'[m] = lines[m] + 1
      OBVIOUS
    <3>2. k <= lines[m] + 1 => k <= lines[m] \/ k = lines[m] + 1
      BY <1>1, <2>2
    <3>3. QED
      BY <2>1, <2>2, <2>4, <3>1, <3>2 DEF Written
  <2>5. QED
    BY <2>3, <2>4
<1>5. Written' \in SUBSET (Written \union {<<m, lines[m] + 1>>})
  BY <1>4 DEF Written
<1>6. IsFiniteSet(Written \union {<<m, lines[m] + 1>>})
      /\ Cardinality(Written \union {<<m, lines[m] + 1>>}) <= Cardinality(Written) + 1
  <2>1. IsFiniteSet(Written)
    BY WrittenFinite
  <2>2. PICK x : x = <<m, lines[m] + 1>>
    OBVIOUS
  <2>3. IsFiniteSet(Written \union {x})
        /\ Cardinality(Written \union {x})
             = IF x \in Written THEN Cardinality(Written) ELSE Cardinality(Written) + 1
    BY <2>1, FS_AddElement
  <2>4. QED
    BY <1>1, <2>2, <2>3
<1>7. IsFiniteSet(Written')
      /\ Cardinality(Written') <= Cardinality(Written \union {<<m, lines[m] + 1>>})
  BY <1>5, <1>6, FS_Subset
<1>8. Cardinality(Written') \in Nat /\ Cardinality(Written \union {<<m, lines[m] + 1>>}) \in Nat
  BY <1>6, <1>7, FS_CardinalityType
<1>9. QED
  BY <1>1, <1>3, <1>6, <1>7, <1>8, Constants

\* The lines of the first machines.
LEMMA WrittenStep ==
  ASSUME lines \in [Machines -> 0 .. MaxLines], NEW i \in Machines
  PROVE  Cardinality(WrittenUpTo(i - 1)) + lines[i] <= Cardinality(WrittenUpTo(i))
<1>1. i \in 0 .. N /\ i - 1 \in 0 .. N
  BY Constants DEF Machines
<1>2. WrittenUpTo(i - 1) \union WrittenBy(i) \in SUBSET WrittenUpTo(i)
  <2>1. ASSUME NEW w \in WrittenUpTo(i - 1)
        PROVE  w \in WrittenUpTo(i)
    <3>1. w \in Written /\ w[1] <= i - 1 /\ w[1] \in Int
      BY Constants DEF WrittenUpTo, Written, Machines
    <3>2. w[1] <= i
      BY <1>1, <3>1
    <3>3. QED
      BY <3>1, <3>2 DEF WrittenUpTo
  <2>2. ASSUME NEW w \in WrittenBy(i)
        PROVE  w \in WrittenUpTo(i)
    <3>1. w[1] = i
      BY DEF WrittenBy
    <3>2. w \in Written
      BY WrittenByIs
    <3>3. QED
      BY <1>1, <3>1, <3>2 DEF WrittenUpTo
  <2>3. QED
    BY <2>1, <2>2
<1>3. WrittenUpTo(i - 1) \intersect WrittenBy(i) = {}
  <2>1. ASSUME NEW w \in WrittenUpTo(i - 1), w \in WrittenBy(i)
        PROVE  FALSE
    <3>1. w[1] = i
      BY <2>1 DEF WrittenBy
    <3>2. w[1] <= i - 1
      BY DEF WrittenUpTo
    <3>3. QED
      BY <1>1, <3>1, <3>2
  <2>2. QED
    BY <2>1
<1>4. IsFiniteSet(WrittenUpTo(i - 1)) /\ IsFiniteSet(WrittenUpTo(i))
      /\ Cardinality(WrittenUpTo(i - 1)) \in Nat /\ Cardinality(WrittenUpTo(i)) \in Nat
  BY <1>1, WrittenFinite
<1>5. IsFiniteSet(WrittenBy(i)) /\ Cardinality(WrittenBy(i)) = lines[i] /\ lines[i] \in Nat
  BY WrittenByIs, Constants
<1>6. Cardinality(WrittenUpTo(i - 1) \union WrittenBy(i))
        = Cardinality(WrittenUpTo(i - 1)) + lines[i]
  <2>1. Cardinality(WrittenUpTo(i - 1) \union WrittenBy(i))
          = Cardinality(WrittenUpTo(i - 1)) + Cardinality(WrittenBy(i))
            - Cardinality(WrittenUpTo(i - 1) \intersect WrittenBy(i))
    BY <1>4, <1>5, FS_Union
  <2>2. Cardinality(WrittenUpTo(i - 1) \intersect WrittenBy(i)) = 0
    BY <1>3, FS_EmptySet
  <2>3. QED
    BY <1>4, <1>5, <2>1, <2>2
<1>7. Cardinality(WrittenUpTo(i - 1) \union WrittenBy(i)) <= Cardinality(WrittenUpTo(i))
  BY <1>2, <1>4, FS_Subset
<1>8. QED
  BY <1>6, <1>7

------------------------------------------------------------------------------
(* The log of a task. *)

\* The files of the machines.
Files == [m \in Machines |-> LinesOf(m, logs[m])]

LEMMA FilesTyped ==
  ASSUME logs \in [Machines -> None .. MaxLines]
  PROVE  /\ Len(Files) = N /\ Files \in Seq(Seq(Line))
         /\ \A i \in 1 .. N : Files[i] = LinesOf(i, logs[i]) /\ Files[i] \in Seq(Line)
<1>1. ASSUME NEW i \in 1 .. N
      PROVE  Files[i] = LinesOf(i, logs[i]) /\ Files[i] \in Seq(Line)
  <2>1. i \in Machines /\ logs[i] \in None .. MaxLines
    BY DEF Machines
  <2>2. LinesOf(i, logs[i]) \in Seq(Line)
    BY <2>1, LinesOfTyped
  <2>3. QED
    BY <2>1, <2>2 DEF Files
<1>2. Files = [m \in 1 .. N |-> LinesOf(m, logs[m])]
  BY DEF Files, Machines
<1>3. Files \in [1 .. N -> Seq(Line)]
  BY <1>1, <1>2
<1>4. Files \in Seq(Seq(Line)) /\ DOMAIN Files = 1 .. N
  BY <1>3, Constants
<1>5. Len(Files) = N
  BY <1>4, LenProperties, Constants
<1>6. QED
  BY <1>1, <1>4, <1>5

LEMMA NoFiles ==
  ASSUME N = 0
  PROVE  getLogs = << >>
<1>1. [m \in Machines |-> LinesOf(m, logs[m])] = << >>
  BY DEF Machines
<1>2. Len(<< >>) = 0 /\ ~(0 > 0)
  OBVIOUS
<1>3. FlattenSeq(<< >>) = << >>
  BY <1>2 DEF FlattenSeq
<1>4. QED
  BY <1>1, <1>3 DEF getLogs

LEMMA GetLogsTyped ==
  ASSUME lines \in [Machines -> 0 .. MaxLines], logs \in [Machines -> None .. MaxLines],
         \A m \in Machines : logs[m] <= lines[m],
         Cardinality(Written) <= MaxLines
  PROVE  getLogs \in Seq(Line) /\ Len(getLogs) <= N + MaxLines
<1>1. CASE N = 0
  <2>1. << >> \in Seq(Line) /\ Len(<< >>) = 0
    OBVIOUS
  <2>2. QED
    BY <1>1, <2>1, NoFiles, Constants
<1>2. CASE N > 0
  <2>1. getLogs = FlattenSeq(Files)
    BY DEF getLogs, Files
  <2>2. Len(Files) = N /\ \A i \in 1 .. N : Files[i] \in Seq(Line)
    BY FilesTyped
  <2>3. getLogs \in Seq(Line)
    BY <1>2, <2>1, <2>2, Constants, FlattenTyped
  <2>4. PICK b : b = [i \in 0 .. N |-> i + Cardinality(WrittenUpTo(i))]
    OBVIOUS
  <2>5. ASSUME NEW i \in 0 .. N
        PROVE  b[i] = i + Cardinality(WrittenUpTo(i)) /\ b[i] \in Nat
               /\ Cardinality(WrittenUpTo(i)) \in Nat
    BY <2>4, WrittenFinite, Constants
  <2>6. b \in [0 .. N -> Nat]
    BY <2>4, <2>5
  <2>7. ASSUME NEW i \in 1 .. N
        PROVE  b[i - 1] + Len(Files[i]) <= b[i]
    <3>1. i \in 0 .. N /\ i - 1 \in 0 .. N /\ i \in Machines /\ i \in Nat
      BY Constants DEF Machines
    <3>2. Files[i] = LinesOf(i, logs[i]) /\ logs[i] \in None .. MaxLines /\ logs[i] <= lines[i]
          /\ lines[i] \in 0 .. MaxLines
      BY <3>1, FilesTyped
    <3>3. Len(Files[i]) \in Nat /\ Len(Files[i]) <= 1 + lines[i] /\ lines[i] \in Nat
      <4>1. Len(Files[i]) = IF logs[i] = None THEN 0 ELSE IF logs[i] = 0 THEN 1 ELSE logs[i]
        BY <3>1, <3>2, LinesOfTyped
      <4>2. QED
        BY <3>2, <4>1, Constants DEF None
    <3>4. Cardinality(WrittenUpTo(i - 1)) + lines[i] <= Cardinality(WrittenUpTo(i))
      BY <3>1, WrittenStep
    <3>5. QED
      BY <2>5, <3>1, <3>3, <3>4
  <2>8. Len(getLogs) <= b[N]
    BY <1>2, <2>1, <2>2, <2>6, <2>7, Constants, FlattenLength
  <2>9. Cardinality(WrittenUpTo(N)) <= Cardinality(Written)
    <3>1. WrittenUpTo(N) \in SUBSET Written
      BY DEF WrittenUpTo
    <3>2. QED
      BY <3>1, WrittenFinite, FS_Subset
  <2>10. b[N] = N + Cardinality(WrittenUpTo(N)) /\ Cardinality(WrittenUpTo(N)) \in Nat
    BY <2>5, Constants
  <2>11. Len(getLogs) \in Nat /\ b[N] \in Nat
    BY <2>3, <2>10, LenProperties, Constants
  <2>12. QED
    BY <2>3, <2>8, <2>9, <2>10, <2>11, WrittenFinite, Constants
<1>3. QED
  BY <1>1, <1>2, Constants

\* The log of one machine is the log of the task if the others have none.
LEMMA GetLogsLone ==
  ASSUME logs \in [Machines -> None .. MaxLines], NEW m \in Machines,
         \A o \in Machines : o # m => logs[o] = None
  PROVE  getLogs = LinesOf(m, logs[m])
<1>1. getLogs = FlattenSeq(Files)
  BY DEF getLogs, Files
<1>2. Len(Files) = N /\ m \in 1 .. N /\ Files[m] \in Seq(Line) /\ Files[m] = LinesOf(m, logs[m])
  BY FilesTyped DEF Machines
<1>3. ASSUME NEW i \in 1 .. N, i # m
      PROVE  Files[i] = << >>
  <2>1. i \in Machines /\ logs[i] = None
    BY <1>3 DEF Machines
  <2>2. Files[i] = LinesOf(i, None)
    BY <2>1, FilesTyped
  <2>3. None \in None .. MaxLines
    BY Constants DEF None
  <2>4. QED
    BY <2>2, <2>3, LinesOfCases
<1>4. FlattenSeq(Files) = Files[m]
  BY <1>2, <1>3, Constants, FlattenSingle
<1>5. QED
  BY <1>1, <1>2, <1>4

------------------------------------------------------------------------------
(* What is printed. *)

LEMMA NotBlank ==
  ASSUME NEW m, NEW k
  PROVE  <<m, k>> # Blank
<1>1. Len(<<m, k>>) = 2 /\ Len(Blank) = 1
  BY DEF Blank
<1>2. QED
  BY <1>1

\* With one machine the lines after those that were printed are printed.
LEMMA PrintsOne ==
  ASSUME NEW m \in Machines, lines[m] \in 0 .. MaxLines, NEW n \in None .. lines[m],
         got = LinesOf(m, n), last \in 0 .. lines[m], printed = FirstLines(m, last),
         Len(got) >= last, last <= Shown(n), PrintsNew
  PROVE  last' = Shown(n) /\ printed' = FirstLines(m, last') /\ Shown(n) \in 0 .. lines[m]
<1> DEFINE delta == SubSeq(got, last + 1, Len(got))
<1>1. n \in None .. MaxLines /\ last \in Nat /\ lines[m] \in Nat
  BY Constants
<1>2. /\ n <= 0 => Shown(n) = 0 /\ last = 0
      /\ n > 0 => Shown(n) = n
      /\ Shown(n) \in 0 .. lines[m]
  BY <1>1, Constants DEF Shown, None
<1>3. CASE n = None
  <2>1. got = << >> /\ Len(got) = 0 /\ last = 0
    BY <1>1, <1>3, LinesOfCases
  <2>2. delta = << >>
    BY <2>1
  <2>3. UNCHANGED <<printed, last>>
    BY <2>2 DEF PrintsNew, IsEmpty
  <2>4. Shown(n) = 0
    BY <1>2, <1>3 DEF None
  <2>5. QED
    BY <1>2, <2>1, <2>3, <2>4
<1>4. CASE n = 0
  <2>1. got = <<Blank>> /\ last = 0 /\ Shown(n) = 0
    BY <1>2, <1>1, <1>4, LinesOfCases
  <2>2. <<Blank>> \in Seq({Blank}) /\ SubSeq(<<Blank>>, 1, Len(<<Blank>>)) = <<Blank>>
    <3>1. <<Blank>> \in Seq({Blank})
      OBVIOUS
    <3>2. QED
      BY <3>1, SubSeqFull
  <2>3. delta = <<Blank>>
    BY <2>1, <2>2
  <2>4. UNCHANGED <<printed, last>>
    BY <2>3 DEF PrintsNew, IsEmpty
  <2>5. QED
    BY <1>2, <2>1, <2>4
<1>5. CASE n > 0
  <2>1. n \in Nat /\ got = FirstLines(m, n) /\ n <= lines[m]
    BY <1>1, <1>5, LinesOfCases DEF None
  <2>2. /\ got \in Seq({m} \X (1 .. n)) /\ Len(got) = n /\ last <= n
        /\ \A k \in 1 .. n : got[k] = <<m, k>>
    BY <2>1, FirstLinesTyped
  <2>3. CASE last = n
    <3>1. delta = << >>
      BY <1>1, <2>2, <2>3, SubSeqEmpty
    <3>2. UNCHANGED <<printed, last>>
      BY <3>1 DEF PrintsNew, IsEmpty
    <3>3. QED
      BY <1>2, <1>5, <2>1, <2>3, <3>2
  <2>4. CASE last < n
    <3>1. last + 1 \in 1 .. n /\ last \in 0 .. n
      BY <1>1, <2>1, <2>4
    <3>2. ~IsEmpty(delta)
      <4>1. PICK d : d = SubSeq(got, last + 1, n)
        OBVIOUS
      <4>2. \A k \in last + 1 .. n : got[k] \in {m} \X (1 .. n)
        BY <1>1, <2>1, <2>2, <3>1
      <4>3. /\ Len(d) = IF last + 1 <= n THEN n - (last + 1) + 1 ELSE 0
            /\ \A k \in 1 .. n - (last + 1) + 1 : d[k] = got[last + 1 + k - 1]
        BY <1>1, <2>1, <4>1, <4>2, SubSeqProperties
      <4>4. 1 \in 1 .. n - (last + 1) + 1 /\ last + 1 + 1 - 1 = last + 1
        BY <1>1, <2>1, <3>1
      <4>5. d[1] = got[last + 1] /\ Len(d) # 0
        BY <1>1, <2>1, <2>4, <4>3, <4>4
      <4>6. d[1] = <<m, last + 1>>
        BY <2>2, <3>1, <4>5
      <4>7. d # << >> /\ d # <<Blank>>
        <5>1. Len(<< >>) = 0 /\ <<Blank>>[1] = Blank
          OBVIOUS
        <5>2. QED
          BY <4>5, <4>6, <5>1, NotBlank
      <4>8. QED
        BY <2>2, <4>1, <4>7 DEF IsEmpty
    <3>3. printed' = printed \o SubSeq(got, last + 1, n) /\ last' = n
      BY <2>2, <3>2 DEF PrintsNew
    <3>4. printed = SubSeq(got, 1, last)
      BY <1>1, <2>1, <2>2, FirstLinesPrefix
    <3>5. printed' = got
      <4>1. 1 \in 1 .. Len(got) + 1 /\ last \in 1 - 1 .. Len(got) /\ n \in last .. Len(got)
        BY <1>1, <2>1, <2>2
      <4>2. SubSeq(got, 1, last) \o SubSeq(got, last + 1, n) = SubSeq(got, 1, n)
        BY <2>2, <4>1, ConcatAdjacentSubSeq
      <4>3. QED
        BY <2>2, <3>3, <3>4, <4>2, SubSeqFull
    <3>6. n \in 0 .. lines[m]
      BY <1>1, <2>1
    <3>7. QED
      BY <1>2, <1>5, <2>1, <3>3, <3>5, <3>6
  <2>5. QED
    BY <1>2, <1>1, <1>5, <2>1, <2>2, <2>3, <2>4
<1>6. n = None \/ n = 0 \/ n > 0
  BY <1>1 DEF None
<1>7. QED
  BY <1>3, <1>4, <1>5, <1>6

------------------------------------------------------------------------------
(* Types. *)

ReaderType ==
  /\ follow \in BOOLEAN /\ seen \in BOOLEAN
  /\ pc \in {"read", "logs", "status", "ended"} /\ active \in 0 .. N
  /\ got \in Seq(Line) /\ Len(got) <= N + MaxLines
  /\ printed \in Seq(Line) /\ last \in 0 .. N + MaxLines
  /\ exit \in {"none", "once", "succeeded", "failed", "error", "panic"}
  /\ exit = "none" <=> pc # "ended"

StoreType ==
  /\ phase \in [Machines -> {"none", "on", "stopped", "done", "gone"}]
  /\ lines \in [Machines -> 0 .. MaxLines]
  /\ hashed \in [Machines -> (None .. MaxLines) \X BOOLEAN]
  /\ verdict \in [Machines -> {"none", "success", "failure", "timeout"}]
  /\ syncing \in [Machines -> {"no", "copy", "delete"}] /\ turn \in [Machines -> BOOLEAN]
  /\ logs \in [Machines -> None .. MaxLines] /\ statuses \subseteq Machines
  /\ desired \in {0, Parallelism} /\ lost \subseteq Machines /\ late \subseteq Machines

BoundsOf(m) ==
  /\ File(m) <= lines[m] /\ logs[m] <= lines[m]
  /\ m \in statuses => verdict[m] # "none"

StoreBounds == \A m \in Machines : BoundsOf(m)

LEMMA TypeParts ==
  TypeOK /\ MachineTypes <=>
    ReaderType /\ StoreType /\ StoreBounds /\ failures \in 0 .. MaxFailures
    /\ Cardinality(Written) <= MaxLines
<1>1. ASSUME hashed \in [Machines -> (None .. MaxLines) \X BOOLEAN],
             logs \in [Machines -> None .. MaxLines], lines \in [Machines -> 0 .. MaxLines],
             NEW m \in Machines
      PROVE  /\ File(m) \in None .. lines[m] <=> File(m) <= lines[m]
             /\ logs[m] \in None .. lines[m] <=> logs[m] <= lines[m]
  <2>1. PICK h \in None .. MaxLines, b \in BOOLEAN : hashed[m] = <<h, b>>
    BY <1>1
  <2>2. File(m) = h
    BY <2>1 DEF File
  <2>3. logs[m] \in None .. MaxLines /\ lines[m] \in 0 .. MaxLines
    BY <1>1
  <2>4. QED
    BY <2>2, <2>3, Constants DEF None
<1>2. QED
  BY <1>1 DEF TypeOK, MachineTypes, ReaderType, StoreType, StoreBounds, BoundsOf

\* The content of a record of hashed.
LEMMA HashedParts ==
  ASSUME StoreType, NEW m \in Machines
  PROVE  /\ hashed[m] = <<hashed[m][1], hashed[m][2]>> /\ File(m) = hashed[m][1]
         /\ File(m) \in None .. MaxLines /\ hashed[m][2] \in BOOLEAN
BY DEF StoreType, File

\* What leo prints has lines of the log.
LEMMA PrintsTyped ==
  ASSUME got \in Seq(Line), Len(got) <= N + MaxLines, printed \in Seq(Line),
         last \in 0 .. N + MaxLines, PrintsNew
  PROVE  printed' \in Seq(Line) /\ last' \in 0 .. N + MaxLines
<1>1. PICK d : d = SubSeq(got, last + 1, Len(got))
  OBVIOUS
<1>2. Len(got) \in Nat /\ last \in Nat
  BY LenProperties, Constants
<1>3. \A k \in last + 1 .. Len(got) : got[k] \in Line
  BY <1>2, ElementOfSeq
<1>4. d \in Seq(Line)
  BY <1>1, <1>2, <1>3, SubSeqProperties
<1>5. printed \o d \in Seq(Line)
  BY <1>4, ConcatProperties
<1>6. /\ printed' = IF IsEmpty(d) THEN printed ELSE printed \o d
      /\ last' = IF IsEmpty(d) THEN last ELSE Len(got)
  BY <1>1 DEF PrintsNew
<1>7. Len(got) \in 0 .. N + MaxLines
  BY <1>2, Constants
<1>8. QED
  BY <1>5, <1>6, <1>7

LEMMA ReaderTypeStep ==
  ASSUME ReaderType, StoreType, StoreBounds, Cardinality(Written) <= MaxLines,
         Reader \/ ReadFails
  PROVE  ReaderType'
<1>1. CASE ReadFails
  BY <1>1 DEF ReadFails, ReaderStep, ReaderType
<1>2. CASE ReadTask
  <2>1. Cardinality(Alive) \in 0 .. N
    BY SomeMachines DEF Alive
  <2>2. active' \in 0 .. N /\ seen' \in BOOLEAN /\ pc' = "logs" /\ pc = "read"
        /\ UNCHANGED <<follow, got, last, printed, exit>>
    BY <1>2, <2>1 DEF ReadTask, ReaderStep
  <2>3. QED
    BY <2>2 DEF ReaderType
<1>3. CASE ReadLogs
  <2>1. getLogs \in Seq(Line) /\ Len(getLogs) <= N + MaxLines
    BY GetLogsTyped DEF StoreType, StoreBounds, BoundsOf
  <2>2. got' = getLogs /\ pc' = "status" /\ pc = "logs"
        /\ UNCHANGED <<follow, active, seen, last, printed, exit>>
    BY <1>3 DEF ReadLogs, ReaderStep
  <2>3. QED
    BY <2>1, <2>2 DEF ReaderType
<1>4. CASE PrintPanics
  BY <1>4 DEF PrintPanics, ReaderStep, ReaderType
<1>5. CASE PrintDelta
  <2>1. printed' \in Seq(Line) /\ last' \in 0 .. N + MaxLines
    BY <1>5, PrintsTyped DEF PrintDelta, ReaderType
  <2>2. PICK v : v = getStatus
    OBVIOUS
  <2>3. /\ pc = "status"
        /\ pc' = IF follow /\ v \notin {"succeeded", "failed"} THEN "read" ELSE "ended"
        /\ exit' = IF ~follow THEN "once" ELSE IF v \in {"succeeded", "failed"} THEN v ELSE exit
        /\ UNCHANGED <<follow, active, got, seen>>
    BY <1>5, <2>2 DEF PrintDelta, ReaderStep
  <2>4. QED
    BY <2>1, <2>3 DEF ReaderType
<1>6. QED
  BY <1>1, <1>2, <1>3, <1>4, <1>5 DEF Reader

\* The machine that acts; the others are as they were.
MachineAction(m) ==
  \/ Boot(m) \/ Write(m) \/ LoopTurn(m) \/ SyncCopies(m) \/ SyncDeletes(m) \/ SyncFails(m)
  \/ ExecStop(m) \/ LeoStop(m) \/ Terminate(m) \/ Preempt(m)

LEMMA StoreTypeStep ==
  ASSUME StoreType, failures \in 0 .. MaxFailures, Cardinality(Written) <= MaxLines,
         NEW m \in Machines, MachineAction(m)
  PROVE  StoreType' /\ failures' \in 0 .. MaxFailures /\ Cardinality(Written') <= MaxLines
<1>1. /\ File(m) \in None .. MaxLines /\ hashed[m][2] \in BOOLEAN
      /\ lines[m] \in None .. MaxLines /\ logs[m] \in None .. MaxLines
      /\ <<None, FALSE>> \in (None .. MaxLines) \X BOOLEAN
      /\ Content(m) \in (None .. MaxLines) \X BOOLEAN /\ None \in None .. MaxLines
  <2>1. lines[m] \in None .. MaxLines /\ None \in None .. MaxLines
    BY Constants DEF StoreType, None
  <2>2. <<lines[m], verdict[m] # "none">> \in (None .. MaxLines) \X BOOLEAN
        /\ <<None, FALSE>> \in (None .. MaxLines) \X BOOLEAN
    BY <2>1
  <2>3. QED
    BY <2>1, <2>2, HashedParts DEF Content, StoreType
<1>2. UNCHANGED lines => (Cardinality(Written) <= MaxLines => Cardinality(Written') <= MaxLines)
  BY DEF Written
<1>3. failures + 1 \in 0 .. MaxFailures \/ ~(failures < MaxFailures)
  BY Constants
<1>4. CASE Boot(m)
  BY <1>2, <1>4 DEF Boot, StoreType, historyVars
<1>5. CASE Write(m)
  <2>1. lines' \in [Machines -> 0 .. MaxLines] /\ Cardinality(Written') <= MaxLines
    BY <1>5, WrittenGrows DEF Write, StoreType
  <2>2. QED
    BY <1>5, <2>1 DEF Write, StoreType, historyVars
<1>6. CASE LoopTurn(m)
  <2>1. hashed' = [hashed EXCEPT ![m] = Content(m)]
        /\ syncing' \in [Machines -> {"no", "copy", "delete"}] /\ turn' \in [Machines -> BOOLEAN]
    BY <1>6 DEF LoopTurn, StoreType
  <2>2. hashed' \in [Machines -> (None .. MaxLines) \X BOOLEAN]
    BY <1>1, <2>1 DEF StoreType
  <2>3. QED
    BY <1>2, <1>6, <2>1, <2>2 DEF LoopTurn, StoreType
<1>7. CASE SyncCopies(m)
  <2>1. logs' \in [Machines -> None .. MaxLines] /\ statuses' \subseteq Machines
        /\ syncing' \in [Machines -> {"no", "copy", "delete"}]
    BY <1>1, <1>7 DEF SyncCopies, StoreType
  <2>2. QED
    BY <1>2, <1>7, <2>1 DEF SyncCopies, StoreType, historyVars
<1>8. CASE SyncDeletes(m)
  <2>1. logs' \in [Machines -> None .. MaxLines] /\ statuses' \subseteq Machines
        /\ syncing' \in [Machines -> {"no", "copy", "delete"}]
    BY <1>1, <1>8 DEF SyncDeletes, StoreType
  <2>2. QED
    BY <1>2, <1>8, <2>1 DEF SyncDeletes, StoreType, historyVars
<1>9. CASE SyncFails(m)
  <2>1. syncing' \in [Machines -> {"no", "copy", "delete"}]
    BY <1>9 DEF SyncFails, StoreType
  <2>2. QED
    BY <1>2, <1>3, <1>9, <2>1 DEF SyncFails, Failure, StoreType, historyVars
<1>10. CASE ExecStop(m)
  <2>1. /\ logs' \in [Machines -> None .. MaxLines] /\ statuses' \subseteq Machines
        /\ failures' \in 0 .. MaxFailures
    BY <1>1, <1>3, <1>10 DEF ExecStop, Failure, StoreType
  <2>2. phase' \in [Machines -> {"none", "on", "stopped", "done", "gone"}]
        /\ verdict' \in [Machines -> {"none", "success", "failure", "timeout"}]
    BY <1>10 DEF ExecStop, StoreType
  <2>3. QED
    BY <1>2, <1>10, <2>1, <2>2 DEF ExecStop, StoreType
<1>11. CASE LeoStop(m)
  BY <1>2, <1>11 DEF LeoStop, StoreType, historyVars
<1>12. ASSUME Vanishes(m)
       PROVE  /\ phase' \in [Machines -> {"none", "on", "stopped", "done", "gone"}]
              /\ hashed' \in [Machines -> (None .. MaxLines) \X BOOLEAN]
              /\ syncing' \in [Machines -> {"no", "copy", "delete"}]
              /\ turn' \in [Machines -> BOOLEAN]
  BY <1>1, <1>12 DEF Vanishes, StoreType
<1>13. CASE Terminate(m)
  BY <1>2, <1>12, <1>13 DEF Terminate, StoreType, historyVars
<1>14. CASE Preempt(m)
  <2>1. logs' \in [Machines -> None .. MaxLines]
    BY <1>1, <1>14 DEF Preempt, StoreType
  <2>2. QED
    BY <1>2, <1>12, <1>14, <2>1 DEF Preempt, StoreType
<1>15. QED
  BY <1>4, <1>5, <1>6, <1>7, <1>8, <1>9, <1>10, <1>11, <1>13, <1>14 DEF MachineAction

------------------------------------------------------------------------------
(* What an action does to its machine, and to the others. *)

LEMMA OthersSame ==
  ASSUME StoreType, NEW m \in Machines, MachineAction(m), NEW o \in Machines, o # m
  PROVE  /\ phase'[o] = phase[o] /\ lines'[o] = lines[o] /\ hashed'[o] = hashed[o]
         /\ syncing'[o] = syncing[o] /\ turn'[o] = turn[o] /\ verdict'[o] = verdict[o]
         /\ logs'[o] \in {logs[o], None} /\ (o \in statuses' => o \in statuses)
         /\ o \in late' <=> o \in late
<1>1. CASE Boot(m)
  BY <1>1 DEF Boot, StoreType, historyVars
<1>2. CASE Write(m)
  BY <1>2 DEF Write, StoreType, historyVars
<1>3. CASE LoopTurn(m)
  BY <1>3 DEF LoopTurn, StoreType
<1>4. CASE SyncCopies(m)
  BY <1>4 DEF SyncCopies, StoreType, historyVars
<1>5. CASE SyncDeletes(m)
  BY <1>5 DEF SyncDeletes, StoreType, historyVars
<1>6. CASE SyncFails(m)
  BY <1>6 DEF SyncFails, StoreType, historyVars
<1>7. CASE ExecStop(m)
  BY <1>7 DEF ExecStop, StoreType
<1>8. CASE LeoStop(m)
  BY <1>8 DEF LeoStop, StoreType, historyVars
<1>9. CASE Terminate(m)
  BY <1>9 DEF Terminate, Vanishes, StoreType, historyVars
<1>10. CASE Preempt(m)
  BY <1>10 DEF Preempt, Vanishes, StoreType
<1>11. QED
  BY <1>1, <1>2, <1>3, <1>4, <1>5, <1>6, <1>7, <1>8, <1>9, <1>10 DEF MachineAction

LEMMA BootAt ==
  ASSUME StoreType, NEW m \in Machines, Boot(m)
  PROVE  /\ phase[m] = "none" /\ phase'[m] = "on" /\ Cardinality(Alive) < desired
         /\ UNCHANGED <<lines, hashed, syncing, turn, verdict, desired, logs, statuses, lost, late, failures>>
BY DEF StoreType, Boot, Vanishes, Failure, File, MachineStep, historyVars

LEMMA WriteAt ==
  ASSUME StoreType, NEW m \in Machines, Write(m)
  PROVE  /\ phase[m] = "on" /\ lines'[m] = lines[m] + 1
         /\ UNCHANGED <<phase, hashed, syncing, turn, verdict, desired, logs, statuses, lost, late, failures>>
BY DEF StoreType, Write, Vanishes, Failure, File, MachineStep, historyVars

LEMMA LoopTurnAt ==
  ASSUME StoreType, NEW m \in Machines, LoopTurn(m)
  PROVE  /\ m \in Alive /\ syncing[m] = "no"
         /\ hashed[m] # Content(m) \/ (phase[m] = "stopped" /\ ~turn[m])
         /\ hashed'[m] = Content(m) /\ turn'[m] = (phase[m] = "stopped")
         /\ syncing'[m] = IF hashed[m] # Content(m) THEN "copy" ELSE "no"
         /\ m \in late' <=> m \in late /\ phase[m] # "stopped"
         /\ UNCHANGED <<phase, lines, verdict, desired, logs, statuses, lost, failures>>
BY DEF StoreType, LoopTurn, Vanishes, Failure, File, MachineStep, historyVars

LEMMA SyncCopiesAt ==
  ASSUME StoreType, NEW m \in Machines, SyncCopies(m)
  PROVE  /\ m \in Alive /\ syncing[m] = "copy" /\ syncing'[m] = "delete"
         /\ logs'[m] = File(m) /\ (m \in statuses' <=> m \in statuses \/ hashed[m][2])
         /\ UNCHANGED <<phase, lines, hashed, turn, verdict, desired, lost, late, failures>>
BY DEF StoreType, SyncCopies, Vanishes, Failure, File, MachineStep, historyVars

LEMMA SyncDeletesAt ==
  ASSUME StoreType, NEW m \in Machines, SyncDeletes(m)
  PROVE  /\ m \in Alive /\ syncing[m] = "delete" /\ syncing'[m] = "no"
         /\ logs'[m] = logs[m] /\ (m \in statuses' <=> m \in statuses)
         /\ UNCHANGED <<phase, lines, hashed, turn, verdict, desired, lost, late, failures>>
BY DEF StoreType, SyncDeletes, Vanishes, Failure, File, MachineStep, historyVars

LEMMA SyncFailsAt ==
  ASSUME StoreType, NEW m \in Machines, SyncFails(m)
  PROVE  /\ m \in Alive /\ syncing[m] # "no" /\ syncing'[m] = "no"
         /\ failures' = failures + 1
         /\ UNCHANGED <<phase, lines, hashed, turn, verdict, desired, logs, statuses, lost, late>>
BY DEF StoreType, SyncFails, Vanishes, Failure, File, MachineStep, historyVars

LEMMA ExecStopAt ==
  ASSUME StoreType, NEW m \in Machines, ExecStop(m)
  PROVE  /\ phase[m] = "on" /\ phase'[m] = "stopped"
         /\ verdict'[m] \in {"success", "failure", "timeout"}
         /\ \/ logs'[m] = File(m) /\ m \in statuses' /\ UNCHANGED failures
            \/ failures' = failures + 1 /\ UNCHANGED <<logs, statuses>>
         /\ turn'[m] = (syncing[m] # "no") /\ (m \in late' <=> m \in late \/ syncing[m] # "no")
         /\ UNCHANGED <<lines, hashed, syncing, desired, lost>>
BY DEF StoreType, ExecStop, Vanishes, Failure, File, MachineStep, historyVars

LEMMA LeoStopAt ==
  ASSUME StoreType, NEW m \in Machines, LeoStop(m)
  PROVE  /\ phase[m] = "stopped" /\ turn[m] /\ syncing[m] = "no"
         /\ phase'[m] = "done" /\ desired' = 0 /\ turn'[m] = FALSE
         /\ UNCHANGED <<lines, hashed, syncing, verdict, logs, statuses, lost, late, failures>>
BY DEF StoreType, LeoStop, Vanishes, Failure, File, MachineStep, historyVars

LEMMA TerminateAt ==
  ASSUME StoreType, NEW m \in Machines, Terminate(m)
  PROVE  /\ m \in Alive /\ Cardinality(Alive) > desired /\ phase'[m] = "gone"
         /\ hashed'[m] = <<None, FALSE>> /\ syncing'[m] = "no" /\ turn'[m] = FALSE
         /\ UNCHANGED <<lines, verdict, desired, logs, statuses, lost, late, failures>>
BY DEF StoreType, Terminate, Vanishes, Failure, File, MachineStep, historyVars

LEMMA PreemptAt ==
  ASSUME StoreType, NEW m \in Machines, Preempt(m)
  PROVE  /\ m \in Alive /\ desired > 0 /\ phase'[m] = "gone"
         /\ hashed'[m] = <<None, FALSE>> /\ syncing'[m] = "no" /\ turn'[m] = FALSE
         /\ lost' = lost \union {m} /\ (logs'[m] = logs[m] \/ logs'[m] = File(m))
         /\ UNCHANGED <<lines, verdict, desired, statuses, failures>>
BY DEF StoreType, Preempt, Vanishes, Failure, File, MachineStep, historyVars

LEMMA SelfStep ==
  ASSUME StoreType, StoreType', NEW m \in Machines, MachineAction(m), PhaseOf(m), BoundsOf(m)
  PROVE  PhaseOf(m)' /\ BoundsOf(m)'
<1>1. /\ File(m) = hashed[m][1] /\ File(m)' = hashed'[m][1]
      /\ lines[m] \in Nat /\ lines'[m] \in Nat /\ logs[m] \in Int /\ File(m) \in Int
      /\ <<None, FALSE>>[1] = None /\ <<None, FALSE>>[2] = FALSE /\ None <= lines[m]
      /\ Content(m)[1] = lines[m] /\ Content(m)[2] = (verdict[m] # "none")
  BY HashedParts, Constants DEF File, StoreType, None, Content
<1>2. m \in Alive <=> phase[m] \in {"on", "stopped", "done"}
  BY DEF Alive
<1>3. CASE Boot(m)
  <2>1. /\ phase[m] = "none" /\ phase'[m] = "on"
        /\ UNCHANGED <<lines, hashed, verdict, logs, statuses>>
    BY <1>3, BootAt
  <2>2. logs[m] = None /\ File(m) = None /\ None <= None
    BY <1>1, <2>1 DEF PhaseOf, None
  <2>3. PhaseOf(m)'
    BY <1>1, <2>1, <2>2 DEF PhaseOf
  <2>4. BoundsOf(m)'
    BY <1>1, <2>1 DEF BoundsOf
  <2>5. QED
    BY <2>3, <2>4
<1>4. CASE Write(m)
  <2>1. /\ phase[m] = "on" /\ lines'[m] = lines[m] + 1
        /\ UNCHANGED <<phase, hashed, syncing, turn, verdict, logs, statuses>>
    BY <1>4, WriteAt
  <2>2. PICK f \in Int, g \in Int : f = File(m) /\ g = logs[m]
    BY <1>1
  <2>3. f <= lines[m] /\ g <= lines[m] => f <= lines[m] + 1 /\ g <= lines[m] + 1
    BY <1>1, <2>2
  <2>4. BoundsOf(m)'
    BY <1>1, <2>1, <2>2, <2>3 DEF BoundsOf
  <2>5. PhaseOf(m)'
    BY <1>1, <2>1 DEF PhaseOf
  <2>6. QED
    BY <2>4, <2>5
<1>5. CASE LoopTurn(m)
  <2>1. /\ phase[m] \in {"on", "stopped", "done"} /\ hashed'[m] = Content(m)
        /\ UNCHANGED <<phase, lines, verdict, logs, statuses>>
    BY <1>2, <1>5, LoopTurnAt
  <2>2. File(m)' = lines[m] /\ hashed'[m][2] = (verdict[m] # "none") /\ lines[m] <= lines[m]
    BY <1>1, <2>1
  <2>3. BoundsOf(m)'
    BY <2>1, <2>2 DEF BoundsOf
  <2>4. logs[m] <= lines[m]
    BY DEF BoundsOf
  <2>5. PhaseOf(m)'
    BY <2>1, <2>2, <2>4 DEF PhaseOf
  <2>6. QED
    BY <2>3, <2>5
<1>6. CASE SyncCopies(m)
  <2>1. /\ phase[m] \in {"on", "stopped", "done"} /\ logs'[m] = File(m)
        /\ m \in statuses' <=> m \in statuses \/ hashed[m][2]
        /\ UNCHANGED <<phase, lines, hashed, verdict>>
    BY <1>2, <1>6, SyncCopiesAt
  <2>2. File(m) <= File(m)
    BY <1>1
  <2>3. PhaseOf(m)'
    BY <1>1, <2>1, <2>2 DEF PhaseOf
  <2>4. BoundsOf(m)'
    BY <1>1, <2>1 DEF PhaseOf, BoundsOf
  <2>5. QED
    BY <2>3, <2>4
<1>7. CASE SyncDeletes(m)
  BY <1>1, <1>2, <1>7, SyncDeletesAt DEF PhaseOf, BoundsOf
<1>8. CASE SyncFails(m)
  BY <1>1, <1>2, <1>8, SyncFailsAt DEF PhaseOf, BoundsOf
<1>9. CASE ExecStop(m)
  <2>1. /\ phase[m] = "on" /\ phase'[m] = "stopped"
        /\ verdict'[m] \in {"success", "failure", "timeout"}
        /\ logs'[m] = File(m) \/ logs'[m] = logs[m]
        /\ UNCHANGED <<lines, hashed, syncing>>
    BY <1>9, ExecStopAt
  <2>2. File(m) <= File(m) /\ logs[m] <= File(m)
    BY <1>1, <2>1 DEF PhaseOf
  <2>3. PhaseOf(m)'
    BY <1>1, <2>1, <2>2 DEF PhaseOf
  <2>4. BoundsOf(m)'
    BY <1>1, <2>1 DEF BoundsOf
  <2>5. QED
    BY <2>3, <2>4
<1>10. CASE LeoStop(m)
  BY <1>1, <1>2, <1>10, LeoStopAt DEF PhaseOf, BoundsOf
<1>11. CASE Terminate(m)
  BY <1>1, <1>2, <1>11, TerminateAt DEF PhaseOf, BoundsOf
<1>12. CASE Preempt(m)
  <2>1. /\ phase[m] \in {"on", "stopped", "done"} /\ phase'[m] = "gone"
        /\ hashed'[m] = <<None, FALSE>> /\ UNCHANGED <<lines, verdict, statuses>>
        /\ (logs'[m] = logs[m] \/ logs'[m] = File(m))
    BY <1>2, <1>12, PreemptAt
  <2>2. File(m)' = None /\ ~hashed'[m][2]
    BY <1>1, <2>1
  <2>3. BoundsOf(m)'
    BY <1>1, <2>1, <2>2 DEF BoundsOf
  <2>4. PhaseOf(m)'
    BY <2>1, <2>2 DEF PhaseOf
  <2>5. QED
    BY <2>3, <2>4
<1>13. QED
  BY <1>3, <1>4, <1>5, <1>6, <1>7, <1>8, <1>9, <1>10, <1>11, <1>12 DEF MachineAction

\* What the reader leaves alone, and what a machine does.
LEMMA ReaderFrame ==
  ASSUME Reader \/ ReadFails
  PROVE  /\ pc # "ended" /\ UNCHANGED <<follow, phase, lines, hashed, syncing, turn, verdict>>
         /\ UNCHANGED <<desired, logs, statuses, lost, late>>
         /\ failures' = failures \/ failures' = failures + 1
BY DEF Reader, ReadFails, ReadTask, ReadLogs, PrintPanics, PrintDelta, ReaderStep, Failure,
       machineVars, historyVars

LEMMA MachineFrame ==
  ASSUME NEW m \in Machines, MachineAction(m)
  PROVE  pc # "ended" /\ UNCHANGED <<follow, pc, active, got, last, printed, exit, seen>>
BY DEF MachineAction, Boot, Write, LoopTurn, SyncCopies, SyncDeletes, SyncFails, ExecStop,
       LeoStop, Terminate, Preempt, MachineStep, readerVars

LEMMA NextParts ==
  Next <=> (Reader \/ ReadFails \/ \E m \in Machines : MachineAction(m))
BY DEF Next, MachineAction

Typed ==
  /\ ReaderType /\ StoreType /\ StoreBounds /\ failures \in 0 .. MaxFailures
  /\ Cardinality(Written) <= MaxLines
  /\ PhaseInv

LEMMA TypedStep ==
  ASSUME Typed, Next
  PROVE  Typed'
<1>1. CASE Reader \/ ReadFails
  <2>1. ReaderType'
    BY <1>1, ReaderTypeStep DEF Typed
  <2>2. failures' \in 0 .. MaxFailures
    <3>1. CASE Reader
      BY <3>1 DEF Reader, ReadTask, ReadLogs, PrintPanics, PrintDelta, Typed
    <3>2. CASE ReadFails
      BY <3>2, Constants DEF ReadFails, Failure, Typed
    <3>3. QED
      BY <1>1, <3>1, <3>2
  <2>3. StoreType' /\ StoreBounds' /\ PhaseInv' /\ Cardinality(Written') <= MaxLines
    <3>1. UNCHANGED <<phase, lines, hashed, syncing, turn, verdict>>
          /\ UNCHANGED <<desired, logs, statuses, lost, late>>
      BY <1>1, ReaderFrame
    <3>2. StoreType' = StoreType
      BY <3>1 DEF StoreType
    <3>3. StoreBounds' = StoreBounds
      BY <3>1 DEF StoreBounds, BoundsOf, File
    <3>4. PhaseInv' = PhaseInv
      BY <3>1 DEF PhaseInv, PhaseOf, File
    <3>5. Written' = Written
      BY <3>1 DEF Written
    <3>6. QED
      BY <3>2, <3>3, <3>4, <3>5 DEF Typed
  <2>4. QED
    BY <2>1, <2>2, <2>3 DEF Typed
<1>2. CASE \E m \in Machines : MachineAction(m)
  <2>1. PICK m \in Machines : MachineAction(m)
    BY <1>2
  <2>2. StoreType' /\ failures' \in 0 .. MaxFailures /\ Cardinality(Written') <= MaxLines
    BY <2>1, StoreTypeStep DEF Typed
  <2>3. ReaderType'
    <3>1. UNCHANGED <<follow, pc, active, got, last, printed, exit, seen>>
      BY <2>1, MachineFrame
    <3>2. ReaderType' = ReaderType
      BY <3>1 DEF ReaderType
    <3>3. QED
      BY <3>2 DEF Typed
  <2>4. ASSUME NEW o \in Machines
        PROVE  PhaseOf(o)' /\ BoundsOf(o)'
    <3>1. PhaseOf(o) /\ BoundsOf(o) /\ StoreType
      BY DEF Typed, PhaseInv, StoreBounds
    <3>2. CASE o = m
      BY <2>1, <2>2, <3>1, <3>2, SelfStep
    <3>3. CASE o # m
      <4>1. /\ phase'[o] = phase[o] /\ lines'[o] = lines[o] /\ hashed'[o] = hashed[o]
            /\ syncing'[o] = syncing[o] /\ turn'[o] = turn[o] /\ verdict'[o] = verdict[o]
            /\ logs'[o] \in {logs[o], None} /\ (o \in statuses' => o \in statuses)
        BY <2>1, <3>1, <3>3, OthersSame
      <4>2. None <= lines[o]
        BY <3>1, Constants DEF StoreType, None
      <4>3. PhaseOf(o)'
        <5>1. logs[o] \in None .. MaxLines /\ File(o) \in None .. MaxLines /\ None <= File(o)
          BY <3>1, HashedParts, Constants DEF StoreType, None
        <5>2. QED
          BY <3>1, <4>1, <5>1 DEF PhaseOf, File
      <4>4. BoundsOf(o)'
        BY <3>1, <4>1, <4>2 DEF BoundsOf, File
      <4>5. QED
        BY <4>3, <4>4
    <3>4. QED
      BY <3>2, <3>3
  <2>5. PhaseInv' /\ StoreBounds'
    BY <2>4 DEF PhaseInv, StoreBounds
  <2>6. QED
    BY <2>2, <2>3, <2>5 DEF Typed
<1>3. QED
  BY <1>1, <1>2, NextParts

------------------------------------------------------------------------------
(* A group of one machine. *)

LEMMA AliveIsUsed ==
  /\ Alive \in SUBSET Machines /\ Used \in SUBSET Machines /\ Alive \subseteq Used
  /\ \A m \in Machines : m \in Alive <=> phase[m] \in {"on", "stopped", "done"}
  /\ \A m \in Machines : m \in Used <=> phase[m] # "none"
BY DEF Alive, Used

\* In a group of one at most one machine is alive.
LEMMA LoneAlive ==
  ASSUME Whole, LoneInv
  PROVE  Cardinality(Alive) \in {0, 1} /\ (Cardinality(Alive) = 0 <=> Alive = {})
<1>1. \A m \in Alive : \A o \in Alive : m = o
  BY AliveIsUsed DEF LoneInv
<1>2. Cardinality(Alive) <= 1
  BY <1>1, AliveIsUsed, AtMostOne
<1>3. Cardinality(Alive) \in 0 .. N /\ (Cardinality(Alive) = 0 <=> Alive = {})
  BY AliveIsUsed, SomeMachines
<1>4. QED
  BY <1>2, <1>3, Constants

LEMMA LoneReader ==
  ASSUME Typed, LoneInv, Reader \/ ReadFails
  PROVE  LoneInv'
<1>1. UNCHANGED phase /\ UNCHANGED <<desired, lost>>
  BY ReaderFrame
<1>2. Whole' = Whole /\ Used' = Used
  BY <1>1 DEF Whole, Used
<1>3. SUFFICES ASSUME Whole
               PROVE  LoneInv'
  BY <1>2 DEF LoneInv
<1>4. /\ \A m \in Used' : \A o \in Used' : m = o
      /\ desired' # 0 => \A m \in Machines : phase'[m] \in {"none", "on", "stopped"}
      /\ desired' = 0 => \A m \in Machines : phase'[m] \in {"none", "done", "gone"}
  BY <1>1, <1>2, <1>3 DEF LoneInv
<1>5. CASE ReadTask
  <2>1. Cardinality(Alive) \in {0, 1} /\ (Cardinality(Alive) = 0 <=> Alive = {})
    BY <1>3, LoneAlive
  <2>2. active' = Cardinality(Alive) /\ seen' = (seen \/ active' > 0)
    BY <1>5 DEF ReadTask
  <2>3. seen' => Used # {}
    <3>1. seen => Used # {}
      BY <1>3 DEF LoneInv
    <3>2. Alive # {} => Used # {}
      BY AliveIsUsed
    <3>3. active' > 0 => Alive # {}
      BY <2>1, <2>2
    <3>4. QED
      BY <2>2, <3>1, <3>2, <3>3
  <2>4. ASSUME active' = 0, seen'
        PROVE  desired = 0 /\ \A m \in Machines : phase[m] \in {"none", "gone"}
    <3>1. Alive = {}
      BY <2>1, <2>2, <2>4
    <3>2. PICK m \in Machines : m \in Used
      BY <2>3, <2>4, AliveIsUsed
    <3>3. phase[m] # "none" /\ phase[m] \notin {"on", "stopped", "done"}
      BY <3>1, <3>2, AliveIsUsed
    <3>4. desired = 0
      BY <1>3, <3>3 DEF LoneInv
    <3>5. ASSUME NEW o \in Machines
          PROVE  phase[o] \in {"none", "gone"}
      BY <1>3, <3>1, <3>4, AliveIsUsed DEF LoneInv
    <3>6. QED
      BY <3>4, <3>5
  <2>5. QED
    BY <1>1, <1>2, <1>4, <2>3, <2>4 DEF LoneInv
<1>6. CASE ReadLogs \/ PrintPanics \/ PrintDelta \/ ReadFails
  <2>1. /\ UNCHANGED <<active, seen>>
        /\ pc' \in {"logs", "status"} => pc \in {"logs", "status"}
    BY <1>6 DEF ReadLogs, PrintPanics, PrintDelta, ReadFails
  <2>2. QED
    BY <1>1, <1>2, <1>3, <1>4, <2>1 DEF LoneInv
<1>7. QED
  BY <1>5, <1>6 DEF Reader

LEMMA LoneMachine ==
  ASSUME Typed, LoneInv, NEW m \in Machines, MachineAction(m)
  PROVE  LoneInv'
<1>1. UNCHANGED <<pc, active, seen>>
  BY MachineFrame
<1>2. /\ StoreType /\ desired \in {0, Parallelism} /\ lost \subseteq lost'
      /\ \A o \in Machines : o # m => phase'[o] = phase[o]
  <2>1. StoreType
    BY DEF Typed
  <2>2. lost \subseteq lost'
    BY <2>1, BootAt, WriteAt, LoopTurnAt, SyncCopiesAt, SyncDeletesAt, SyncFailsAt, ExecStopAt,
       LeoStopAt, TerminateAt, PreemptAt DEF MachineAction
  <2>3. QED
    BY <2>1, <2>2, OthersSame DEF StoreType
<1>3. SUFFICES ASSUME Whole'
               PROVE  LoneInv'
  BY DEF LoneInv
<1>4. Whole /\ Parallelism = 1 /\ desired \in {0, 1}
  BY <1>2, <1>3 DEF Whole
<1>5. Cardinality(Alive) \in {0, 1} /\ (Cardinality(Alive) = 0 <=> Alive = {})
  BY <1>4, LoneAlive
<1>6. CASE UNCHANGED <<phase, desired>>
  <2>1. Used' = Used
    BY <1>6 DEF Used
  <2>2. QED
    BY <1>1, <1>4, <1>6, <2>1 DEF LoneInv
<1>7. CASE Boot(m)
  <2>1. phase[m] = "none" /\ phase'[m] = "on" /\ Cardinality(Alive) < desired /\ desired' = desired
    BY <1>2, <1>7, BootAt
  <2>2. Alive = {} /\ desired = 1
    BY <1>4, <1>5, <2>1
  <2>3. \A o \in Machines : phase[o] = "none"
    BY <1>4, <2>2, AliveIsUsed DEF LoneInv
  <2>4. Used = {} /\ ~seen
    BY <1>4, <2>3 DEF Used, LoneInv
  <2>5. Used' = {m}
    BY <1>2, <2>1, <2>3 DEF Used
  <2>6. \A o \in Machines : phase'[o] \in {"none", "on", "stopped"}
    BY <1>2, <2>1, <2>3
  <2>7. QED
    BY <1>1, <2>1, <2>2, <2>4, <2>5, <2>6 DEF LoneInv
<1>8. ASSUME m \in Used, m \in Used'
      PROVE  /\ Used' = {m} /\ \A o \in Machines : o # m => phase'[o] = "none"
             /\ \A x \in Used' : \A o \in Used' : x = o
  <2>1. ASSUME NEW o \in Machines, o # m
        PROVE  phase'[o] = "none"
    BY <1>2, <1>4, <1>8, <2>1, AliveIsUsed DEF LoneInv
  <2>2. Used' = {m}
    BY <1>8, <2>1 DEF Used
  <2>3. QED
    BY <2>1, <2>2
<1>9. CASE ExecStop(m)
  <2>1. phase[m] = "on" /\ phase'[m] = "stopped" /\ UNCHANGED desired
    BY <1>2, <1>9, ExecStopAt
  <2>2. m \in Used /\ m \in Used'
    BY <2>1 DEF Used
  <2>3. desired # 0 /\ ~(pc \in {"logs", "status"} /\ seen /\ active = 0)
    BY <1>4, <2>1 DEF LoneInv
  <2>4. \A o \in Machines : phase'[o] \in {"none", "on", "stopped"}
    BY <1>8, <2>1, <2>2
  <2>5. QED
    BY <1>1, <1>8, <2>1, <2>2, <2>3, <2>4 DEF LoneInv
<1>10. CASE LeoStop(m)
  <2>1. phase[m] = "stopped" /\ phase'[m] = "done" /\ desired' = 0
    BY <1>2, <1>10, LeoStopAt
  <2>2. m \in Used /\ m \in Used'
    BY <2>1 DEF Used
  <2>3. ~(pc \in {"logs", "status"} /\ seen /\ active = 0)
    BY <1>4, <2>1 DEF LoneInv
  <2>4. \A o \in Machines : phase'[o] \in {"none", "done", "gone"}
    BY <1>8, <2>1, <2>2
  <2>5. QED
    BY <1>1, <1>8, <2>1, <2>2, <2>3, <2>4 DEF LoneInv
<1>11. CASE Terminate(m)
  <2>1. m \in Alive /\ Cardinality(Alive) > desired /\ phase'[m] = "gone" /\ UNCHANGED desired
    BY <1>2, <1>11, TerminateAt
  <2>2. desired = 0
    BY <1>4, <1>5, <2>1
  <2>3. m \in Used /\ m \in Used'
    BY <2>1, AliveIsUsed DEF Used
  <2>4. \A o \in Machines : phase'[o] \in {"none", "gone"}
    BY <1>8, <2>1, <2>3
  <2>5. QED
    BY <1>1, <1>8, <2>1, <2>2, <2>3, <2>4 DEF LoneInv
<1>12. ASSUME Preempt(m)
       PROVE  FALSE
  <2>1. lost' = lost \union {m}
    BY <1>2, <1>12, PreemptAt
  <2>2. QED
    BY <1>3, <2>1 DEF Whole
<1>13. Write(m) \/ LoopTurn(m) \/ SyncCopies(m) \/ SyncDeletes(m) \/ SyncFails(m)
         => UNCHANGED <<phase, desired>>
  BY DEF Write, LoopTurn, SyncCopies, SyncDeletes, SyncFails
<1>14. QED
  BY <1>6, <1>7, <1>9, <1>10, <1>11, <1>12, <1>13 DEF MachineAction

------------------------------------------------------------------------------
(* The verdict. *)

LEMMA SomeCounted ==
  ASSUME statuses \subseteq Machines
  PROVE  /\ Counted(HasFailed) > 0 <=> \E m \in statuses : HasFailed(StatusReport(verdict[m]))
         /\ Counted(HasSucceeded) >= 1 <=> \E m \in statuses : HasSucceeded(StatusReport(verdict[m]))
<1>1. ASSUME NEW S \in SUBSET Machines
      PROVE  (Cardinality(S) > 0 <=> S # {}) /\ (Cardinality(S) >= 1 <=> S # {})
  BY SomeMachines, Constants
<1>2. PICK F : F = {m \in statuses : HasFailed(StatusReport(verdict[m]))}
  OBVIOUS
<1>3. PICK G : G = {m \in statuses : HasSucceeded(StatusReport(verdict[m]))}
  OBVIOUS
<1>4. Counted(HasFailed) = Cardinality(F) /\ Counted(HasSucceeded) = Cardinality(G)
  BY <1>2, <1>3 DEF Counted
<1>5. F \in SUBSET Machines /\ G \in SUBSET Machines
  BY <1>2, <1>3
<1>6. QED
  BY <1>1, <1>2, <1>3, <1>4, <1>5

LEMMA ReportSays ==
  ASSUME NEW v \in {"success", "failure", "timeout"}
  PROVE  /\ HasFailed(StatusReport(v)) <=> v # "success"
         /\ HasSucceeded(StatusReport(v)) <=> v = "success"
<1>1. CASE v = "success"
  BY <1>1 DEF HasFailed, HasSucceeded, StatusReport
<1>2. CASE v = "failure"
  BY <1>2 DEF HasFailed, HasSucceeded, StatusReport
<1>3. CASE v = "timeout"
  BY <1>3 DEF HasFailed, HasSucceeded, StatusReport
<1>4. QED
  BY <1>1, <1>2, <1>3

\* Of one machine, the status is its verdict.
LEMMA StatusIsVerdict ==
  ASSUME Typed, Whole, LoneInv, getStatus \in {"succeeded", "failed"}
  PROVE  /\ active = 0
         /\ getStatus = "succeeded" <=> \A m \in Used : verdict[m] = "success"
<1>1. active \in 0 .. N /\ Parallelism = 1
  BY DEF Typed, ReaderType, Whole
<1>2. ~(active >= Parallelism)
  BY DEF getStatus
<1>3. active = 0
  BY <1>1, <1>2, Constants
<1>4. ASSUME NEW m \in statuses
      PROVE  /\ m \in Used /\ verdict[m] \in {"success", "failure", "timeout"}
             /\ \A o \in Used : o = m
  <2>1. m \in Machines /\ verdict[m] # "none"
    BY DEF Typed, StoreType, StoreBounds, BoundsOf
  <2>2. m \in Used
    BY <2>1 DEF Typed, PhaseInv, PhaseOf, Used
  <2>3. QED
    BY <2>1, <2>2 DEF LoneInv, Typed, StoreType
<1>5. statuses \subseteq Machines
  BY DEF Typed, StoreType
<1>6. getStatus = IF Counted(HasFailed) > 0 THEN "failed"
                  ELSE IF Counted(HasSucceeded) >= 1 THEN "succeeded" ELSE "queued"
  BY <1>1, <1>2 DEF getStatus
<1>7. CASE Counted(HasFailed) > 0
  <2>1. PICK m \in statuses : HasFailed(StatusReport(verdict[m]))
    BY <1>5, <1>7, SomeCounted
  <2>2. m \in Used /\ verdict[m] # "success"
    BY <1>4, <2>1, ReportSays
  <2>3. QED
    BY <1>3, <1>6, <1>7, <2>2
<1>8. CASE ~(Counted(HasFailed) > 0) /\ Counted(HasSucceeded) >= 1
  <2>1. PICK m \in statuses : HasSucceeded(StatusReport(verdict[m]))
    BY <1>5, <1>8, SomeCounted
  <2>2. verdict[m] = "success" /\ \A o \in Used : o = m
    BY <1>4, <2>1, ReportSays
  <2>3. QED
    BY <1>3, <1>6, <1>8, <2>2
<1>9. QED
  BY <1>6, <1>7, <1>8

\* Once leo has ended nothing happens.
LEMMA NothingAfter ==
  ASSUME Next
  PROVE  pc # "ended"
BY ReaderFrame, MachineFrame, NextParts

LEMMA VerdictStep ==
  ASSUME Typed, LoneInv, VerdictInv, Next
  PROVE  VerdictInv'
<1>1. pc # "ended" /\ exit = "none"
  BY NothingAfter DEF Typed, ReaderType
<1>2. CASE UNCHANGED exit
  BY <1>1, <1>2 DEF VerdictInv, Followed
<1>3. CASE ReadFails \/ PrintPanics
  BY <1>3 DEF VerdictInv, Followed, ReadFails, PrintPanics
<1>4. CASE PrintDelta
  <2>1. SUFFICES ASSUME Whole', exit' \in {"succeeded", "failed"}, seen'
                 PROVE  VerdictInv'
    BY DEF VerdictInv, Followed
  <2>2. /\ UNCHANGED phase /\ UNCHANGED <<verdict, desired, lost, seen>> /\ pc = "status"
        /\ exit' = IF ~follow THEN "once"
                   ELSE IF getStatus \in {"succeeded", "failed"} THEN getStatus ELSE exit
    BY <1>4, ReaderFrame DEF PrintDelta, Reader
  <2>3. Whole /\ seen /\ exit' = getStatus /\ getStatus \in {"succeeded", "failed"}
    BY <1>1, <2>1, <2>2 DEF Whole
  <2>4. active = 0 /\ (getStatus = "succeeded" <=> \A m \in Used : verdict[m] = "success")
    BY <2>3, StatusIsVerdict
  <2>5. desired = 0 /\ \A m \in Machines : phase[m] \in {"none", "gone"}
    BY <2>2, <2>3, <2>4 DEF LoneInv
  <2>6. Used' = Used
    BY <2>2 DEF Used
  <2>7. QED
    BY <2>2, <2>3, <2>4, <2>5, <2>6 DEF VerdictInv
<1>5. UNCHANGED exit \/ ReadFails \/ PrintPanics \/ PrintDelta
  BY NextParts, MachineFrame DEF Reader, ReadTask, ReadLogs
<1>6. QED
  BY <1>2, <1>3, <1>4, <1>5

------------------------------------------------------------------------------
(* What was printed. *)

LEMMA MachinesGrow ==
  ASSUME StoreType, StoreType', NEW m \in Machines, MachineAction(m)
  PROVE  /\ Used \subseteq Used' /\ lost \subseteq lost'
         /\ \A o \in Machines : lines[o] <= lines'[o]
<1>1. phase[m] # "none" => phase'[m] # "none"
  BY BootAt, WriteAt, LoopTurnAt, SyncCopiesAt, SyncDeletesAt, SyncFailsAt, ExecStopAt,
     LeoStopAt, TerminateAt, PreemptAt DEF MachineAction
<1>2. lines'[m] = lines[m] \/ lines'[m] = lines[m] + 1
  BY BootAt, WriteAt, LoopTurnAt, SyncCopiesAt, SyncDeletesAt, SyncFailsAt, ExecStopAt,
     LeoStopAt, TerminateAt, PreemptAt DEF MachineAction
<1>3. lost \subseteq lost'
  BY BootAt, WriteAt, LoopTurnAt, SyncCopiesAt, SyncDeletesAt, SyncFailsAt, ExecStopAt,
     LeoStopAt, TerminateAt, PreemptAt DEF MachineAction
<1>4. ASSUME NEW o \in Machines
      PROVE  lines[o] <= lines'[o] /\ (phase[o] # "none" => phase'[o] # "none")
  <2>1. lines[o] \in Nat
    BY Constants DEF StoreType
  <2>2. CASE o = m
    BY <1>1, <1>2, <2>1, <2>2
  <2>3. CASE o # m
    BY <2>1, <2>3, OthersSame
  <2>4. QED
    BY <2>2, <2>3
<1>5. QED
  BY <1>3, <1>4 DEF Used

\* The log of the one machine there is does not get shorter.
LEMMA LogGrows ==
  ASSUME Typed, NEW m \in Machines, NEW o \in Machines, MachineAction(o), (Used \subseteq {m})'
  PROVE  logs[m] <= logs'[m]
<1>1. StoreType /\ PhaseOf(m) /\ logs[m] \in Int /\ File(m) \in Int
  BY HashedParts, Constants DEF Typed, PhaseInv, StoreType, None
<1>2. o = m
  <2>1. phase'[o] # "none"
    BY <1>1, AliveIsUsed, BootAt, WriteAt, LoopTurnAt, SyncCopiesAt, SyncDeletesAt, SyncFailsAt,
       ExecStopAt, LeoStopAt, TerminateAt, PreemptAt DEF MachineAction
  <2>2. QED
    BY <2>1 DEF Used
<1>3. logs[m] <= logs[m] /\ (phase[m] \in {"on", "stopped", "done"} => logs[m] <= File(m))
  BY <1>1 DEF PhaseOf
<1>4. logs'[m] = logs[m] \/ (logs'[m] = File(m) /\ phase[m] \in {"on", "stopped", "done"})
  BY <1>1, <1>2, AliveIsUsed, BootAt, WriteAt, LoopTurnAt, SyncCopiesAt, SyncDeletesAt,
     SyncFailsAt, ExecStopAt, LeoStopAt, TerminateAt, PreemptAt DEF MachineAction
<1>5. QED
  BY <1>3, <1>4

\* Leo gets the log of the one machine there is.
LEMMA LoneLog ==
  ASSUME Typed, NEW m \in Machines, Used \subseteq {m}
  PROVE  /\ getLogs = LinesOf(m, logs[m]) /\ logs[m] \in None .. lines[m]
         /\ logs[m] \in None .. MaxLines
<1>1. ASSUME NEW o \in Machines, o # m
      PROVE  logs[o] = None
  BY <1>1 DEF Used, Typed, PhaseInv, PhaseOf
<1>2. logs \in [Machines -> None .. MaxLines] /\ logs[m] <= lines[m] /\ lines[m] \in 0 .. MaxLines
  BY DEF Typed, StoreType, StoreBounds, BoundsOf
<1>3. logs[m] \in None .. lines[m]
  BY <1>2, Constants DEF None
<1>4. QED
  BY <1>1, <1>2, <1>3, GetLogsLone

\* What follows from what leo got, and from what it printed, stays as long as the log does
\* not get shorter.
LEMMA PrintOfKept ==
  ASSUME NEW m \in Machines, PrintOf(m), UNCHANGED <<got, last, printed>>,
         lines[m] \in Nat, lines'[m] \in Nat, lines[m] <= lines'[m],
         logs[m] \in Int, logs'[m] \in Int, logs[m] <= logs'[m]
  PROVE  PrintOf(m)'
<1>1. PICK n \in None .. lines[m] : got = LinesOf(m, n) /\ last <= Shown(n) /\ n <= logs[m]
  BY DEF PrintOf
<1>2. n \in None .. lines'[m] /\ n <= logs'[m]
  BY <1>1 DEF None
<1>3. last' \in 0 .. lines'[m]
  BY DEF PrintOf
<1>4. got' = LinesOf(m, n) /\ last' <= Shown(n) /\ printed' = FirstLines(m, last')
  BY <1>1 DEF PrintOf, FirstLines
<1>5. QED
  BY <1>2, <1>3, <1>4 DEF PrintOf, LinesOf, FirstLines, Shown

LEMMA PrintDeltaOf ==
  ASSUME Typed, NEW m \in Machines, PrintOf(m), PrintDelta
  PROVE  PrintOf(m)'
<1>1. PICK n \in None .. lines[m] : got = LinesOf(m, n) /\ last <= Shown(n) /\ n <= logs[m]
  BY DEF PrintOf
<1>2. /\ lines[m] \in 0 .. MaxLines /\ Len(got) >= last /\ PrintsNew
      /\ UNCHANGED <<lines, logs>> /\ UNCHANGED got
  BY ReaderFrame DEF Typed, StoreType, PrintDelta, Reader
<1>3. last' = Shown(n) /\ Shown(n) \in 0 .. lines[m] /\ printed' = FirstLines(m, last')
  BY <1>1, <1>2, PrintsOne DEF PrintOf
<1>4. got' = LinesOf(m, n) /\ last' <= Shown(n) /\ n <= logs'[m]
  BY <1>1, <1>2, <1>3
<1>5. QED
  BY <1>2, <1>3, <1>4 DEF PrintOf, LinesOf, FirstLines, Shown

LEMMA PrintStep ==
  ASSUME Typed, Typed', PrintInv, Next
  PROVE  PrintInv'
<1>1. SUFFICES ASSUME NEW m \in Machines, (Used \subseteq {m})'
               PROVE  PrintOf(m)'
  BY DEF PrintInv
<1>2. lines[m] \in Nat /\ lines'[m] \in Nat /\ logs[m] \in Int /\ logs'[m] \in Int
  BY Constants DEF Typed, StoreType, None
<1>3. CASE Reader \/ ReadFails
  <2>1. UNCHANGED <<phase, lines>> /\ UNCHANGED logs
    BY <1>3, ReaderFrame
  <2>2. Used \subseteq {m}
    BY <1>1, <2>1 DEF Used
  <2>3. PrintOf(m)
    BY <2>2 DEF PrintInv
  <2>4. CASE ReadTask \/ PrintPanics \/ ReadFails
    <3>1. UNCHANGED <<got, last, printed>>
      BY <2>4 DEF ReadTask, PrintPanics, ReadFails
    <3>2. QED
      BY <1>2, <2>1, <2>3, <3>1, PrintOfKept
  <2>5. CASE ReadLogs
    <3>1. got' = getLogs /\ UNCHANGED <<last, printed>>
      BY <2>5 DEF ReadLogs
    <3>2. got' = LinesOf(m, logs[m]) /\ logs[m] \in None .. lines[m]
      BY <2>2, <3>1, LoneLog
    <3>3. PICK n \in None .. lines[m] : last <= Shown(n) /\ n <= logs[m]
      BY <2>3 DEF PrintOf
    <3>4. /\ last' \in 0 .. lines'[m] /\ last' <= Shown(logs[m]) /\ logs[m] <= logs'[m]
          /\ printed' = FirstLines(m, last')
      BY <1>2, <2>1, <2>3, <3>1, <3>3 DEF PrintOf, Shown, None
    <3>5. QED
      BY <2>1, <3>2, <3>4 DEF PrintOf, LinesOf, FirstLines, Shown
  <2>6. CASE PrintDelta
    BY <2>3, <2>6, PrintDeltaOf
  <2>7. QED
    BY <1>3, <2>4, <2>5, <2>6 DEF Reader
<1>4. CASE \E o \in Machines : MachineAction(o)
  <2>1. PICK o \in Machines : MachineAction(o)
    BY <1>4
  <2>2. Used \subseteq Used' /\ lines[m] <= lines'[m]
    BY <2>1, MachinesGrow DEF Typed
  <2>3. PrintOf(m)
    BY <1>1, <2>2 DEF PrintInv
  <2>4. UNCHANGED <<got, last, printed>>
    BY <2>1, MachineFrame
  <2>5. logs[m] <= logs'[m]
    BY <1>1, <2>1, LogGrows
  <2>6. QED
    BY <1>2, <2>2, <2>3, <2>4, <2>5, PrintOfKept
<1>5. QED
  BY <1>3, <1>4, NextParts

------------------------------------------------------------------------------
(* What was copied. *)

LEMMA CopySelf ==
  ASSUME Typed, Whole, LoneInv, NEW m \in Machines, MachineAction(m), CopyOf(m),
         failures = 0, failures' = 0, lost' = {}
  PROVE  CopyOf(m)'
<1>1. /\ StoreType /\ PhaseOf(m) /\ File(m) = hashed[m][1]
      /\ Content(m) = <<lines[m], verdict[m] # "none">>
      /\ Content(m)' = <<lines'[m], verdict'[m] # "none">>
      /\ Content(m)[1] = lines[m] /\ Content(m)[2] = (verdict[m] # "none")
  BY HashedParts DEF Typed, PhaseInv, Content
<1>2. /\ m \in Alive <=> phase[m] \in {"on", "stopped", "done"}
      /\ desired # 0 => phase[m] \in {"none", "on", "stopped"}
      /\ desired = 0 => phase[m] \in {"none", "done", "gone"}
  BY AliveIsUsed DEF LoneInv
<1>3. CASE Boot(m)
  <2>1. /\ phase[m] = "none" /\ phase'[m] = "on" /\ turn'[m] = turn[m] /\ hashed'[m] = hashed[m]
        /\ late' = late
    BY <1>1, <1>3, BootAt
  <2>2. ~turn[m] /\ ~hashed[m][2]
    BY <1>1, <2>1 DEF PhaseOf
  <2>3. m \notin late
    BY <2>1 DEF CopyOf
  <2>4. QED
    BY <2>1, <2>2, <2>3 DEF CopyOf
<1>4. CASE Write(m)
  BY <1>1, <1>4, WriteAt DEF CopyOf
<1>5. CASE LoopTurn(m)
  <2>1. /\ phase[m] \in {"on", "stopped", "done"} /\ syncing[m] = "no"
        /\ hashed[m] # Content(m) \/ (phase[m] = "stopped" /\ ~turn[m])
        /\ hashed'[m] = Content(m) /\ turn'[m] = (phase[m] = "stopped")
        /\ syncing'[m] = IF hashed[m] # Content(m) THEN "copy" ELSE "no"
        /\ phase'[m] = phase[m] /\ lines'[m] = lines[m] /\ verdict'[m] = verdict[m]
        /\ m \in late' <=> m \in late /\ phase[m] # "stopped"
    BY <1>1, <1>2, <1>5, LoopTurnAt
  <2>2. Content(m)' = Content(m)
    BY <1>1, <2>1
  <2>3. CASE phase[m] = "on"
    <3>1. ~hashed'[m][2] /\ ~turn'[m] /\ m \notin late'
      BY <1>1, <2>1, <2>3 DEF PhaseOf, CopyOf
    <3>2. QED
      BY <2>1, <2>3, <3>1 DEF CopyOf
  <2>4. CASE phase[m] = "stopped"
    <3>1. turn'[m]
      BY <2>1, <2>4
    <3>2. hashed[m] # Content(m)
      <4>1. ~turn[m] => ~hashed[m][2]
        BY <2>4 DEF CopyOf
      <4>2. verdict[m] # "none"
        BY <1>1, <2>4 DEF PhaseOf
      <4>3. QED
        BY <1>1, <2>1, <4>1, <4>2
    <3>3. QED
      BY <2>1, <2>2, <2>4, <3>1, <3>2 DEF CopyOf
  <2>5. CASE phase[m] = "done"
    <3>1. m \in late
      BY <2>1, <2>5 DEF CopyOf
    <3>2. QED
      BY <2>1, <2>5, <3>1 DEF CopyOf
  <2>6. QED
    BY <2>1, <2>3, <2>4, <2>5
<1>6. CASE SyncCopies(m)
  <2>1. /\ phase[m] \in {"on", "stopped", "done"} /\ syncing[m] = "copy"
        /\ syncing'[m] = "delete" /\ logs'[m] = hashed[m][1]
        /\ phase'[m] = phase[m] /\ lines'[m] = lines[m] /\ verdict'[m] = verdict[m]
        /\ hashed'[m] = hashed[m] /\ turn'[m] = turn[m] /\ late' = late
    BY <1>1, <1>2, <1>6, SyncCopiesAt
  <2>2. Content(m)' = Content(m)
    BY <1>1, <2>1
  <2>3. hashed[m] = Content(m) => logs'[m] = lines'[m]
    BY <1>1, <2>1
  <2>4. QED
    BY <2>1, <2>2, <2>3 DEF CopyOf
<1>7. CASE SyncDeletes(m)
  <2>1. /\ phase[m] \in {"on", "stopped", "done"} /\ syncing[m] = "delete"
        /\ syncing'[m] = "no" /\ logs'[m] = logs[m]
        /\ phase'[m] = phase[m] /\ lines'[m] = lines[m] /\ verdict'[m] = verdict[m]
        /\ hashed'[m] = hashed[m] /\ turn'[m] = turn[m] /\ late' = late
    BY <1>1, <1>2, <1>7, SyncDeletesAt
  <2>2. Content(m)' = Content(m)
    BY <1>1, <2>1
  <2>3. QED
    BY <2>1, <2>2 DEF CopyOf
<1>8. ASSUME SyncFails(m)
      PROVE  FALSE
  BY <1>1, <1>8, SyncFailsAt
<1>9. CASE ExecStop(m)
  <2>1. /\ phase[m] = "on" /\ phase'[m] = "stopped" /\ hashed'[m] = hashed[m]
        /\ turn'[m] = (syncing[m] # "no") /\ (m \in late' <=> m \in late \/ syncing[m] # "no")
    BY <1>1, <1>9, ExecStopAt
  <2>2. m \notin late /\ ~hashed[m][2]
    BY <2>1 DEF CopyOf
  <2>3. QED
    BY <2>1, <2>2 DEF CopyOf
<1>10. CASE LeoStop(m)
  <2>1. /\ phase[m] = "stopped" /\ turn[m] /\ syncing[m] = "no" /\ phase'[m] = "done"
        /\ hashed'[m] = hashed[m] /\ syncing'[m] = syncing[m] /\ late' = late
        /\ logs'[m] = logs[m] /\ lines'[m] = lines[m] /\ verdict'[m] = verdict[m]
    BY <1>1, <1>10, LeoStopAt
  <2>2. Content(m)' = Content(m)
    BY <1>1, <2>1
  <2>3. QED
    BY <2>1, <2>2 DEF CopyOf
<1>11. CASE Terminate(m)
  <2>1. /\ m \in Alive /\ Cardinality(Alive) > desired /\ phase'[m] = "gone"
        /\ logs'[m] = logs[m] /\ lines'[m] = lines[m] /\ late' = late
    BY <1>1, <1>11, TerminateAt
  <2>2. desired = 0
    <3>1. desired \in {0, 1} /\ Cardinality(Alive) \in {0, 1}
      BY <1>1, LoneAlive DEF StoreType, Whole
    <3>2. QED
      BY <2>1, <3>1
  <2>3. phase[m] = "done"
    BY <1>2, <2>1, <2>2
  <2>4. QED
    BY <2>1, <2>3 DEF CopyOf
<1>12. ASSUME Preempt(m)
       PROVE  FALSE
  BY <1>1, <1>12, PreemptAt
<1>13. QED
  BY <1>3, <1>4, <1>5, <1>6, <1>7, <1>8, <1>9, <1>10, <1>11, <1>12 DEF MachineAction

\* The log of another machine stays, unless that machine was never used.
LEMMA CopyOther ==
  ASSUME Typed, Whole, LoneInv, NEW m \in Machines, MachineAction(m), NEW o \in Machines, o # m,
         CopyOf(o)
  PROVE  CopyOf(o)'
<1>1. /\ phase'[o] = phase[o] /\ lines'[o] = lines[o] /\ hashed'[o] = hashed[o]
      /\ syncing'[o] = syncing[o] /\ turn'[o] = turn[o] /\ verdict'[o] = verdict[o]
      /\ o \in late' <=> o \in late
  BY OthersSame DEF Typed
<1>2. Content(o)' = Content(o)
  BY <1>1 DEF Content
<1>3. CASE phase[o] = "none"
  BY <1>1, <1>3 DEF CopyOf
<1>4. CASE phase[o] # "none"
  <2>1. phase[m] = "none"
    BY <1>4, AliveIsUsed DEF LoneInv
  <2>2. Boot(m)
    BY <2>1, WriteAt, LoopTurnAt, SyncCopiesAt, SyncDeletesAt, SyncFailsAt, ExecStopAt,
       LeoStopAt, TerminateAt, PreemptAt, AliveIsUsed DEF MachineAction, Typed
  <2>3. UNCHANGED logs
    BY <2>2 DEF Boot
  <2>4. QED
    BY <1>1, <1>2, <2>3 DEF CopyOf
<1>5. QED
  BY <1>3, <1>4

LEMMA CopyStep ==
  ASSUME Typed, Typed', LoneInv, CopyInv, Next
  PROVE  CopyInv'
<1>1. SUFFICES ASSUME Whole', failures' = 0, NEW o \in Machines
               PROVE  CopyOf(o)'
  BY DEF CopyInv
<1>2. failures \in Nat /\ lost' = {}
  BY <1>1, Constants DEF Typed, Whole
<1>3. CASE Reader \/ ReadFails
  <2>1. /\ UNCHANGED <<phase, lines, hashed, syncing, turn, verdict>>
        /\ UNCHANGED <<logs, lost, late>>
        /\ failures' = failures \/ failures' = failures + 1
    BY <1>3, ReaderFrame
  <2>2. failures = 0
    BY <1>1, <1>2, <2>1
  <2>3. CopyOf(o)
    BY <1>1, <2>1, <2>2 DEF CopyInv, Whole
  <2>4. QED
    BY <2>1, <2>3 DEF CopyOf, Content
<1>4. CASE \E m \in Machines : MachineAction(m)
  <2>1. PICK m \in Machines : MachineAction(m)
    BY <1>4
  <2>2. lost \subseteq lost'
    BY <2>1, MachinesGrow DEF Typed
  <2>3. failures' = failures \/ failures' = failures + 1
    BY <2>1, BootAt, WriteAt, LoopTurnAt, SyncCopiesAt, SyncDeletesAt, SyncFailsAt, ExecStopAt,
       LeoStopAt, TerminateAt, PreemptAt DEF MachineAction, Typed
  <2>4. failures = 0 /\ lost = {}
    BY <1>1, <1>2, <2>2, <2>3
  <2>5. Whole /\ CopyOf(o) /\ CopyOf(m)
    BY <1>1, <2>4 DEF CopyInv, Whole
  <2>6. QED
    BY <1>1, <1>2, <2>1, <2>4, <2>5, CopySelf, CopyOther
<1>5. QED
  BY <1>3, <1>4, NextParts

------------------------------------------------------------------------------
(* The last lines. *)

LEMMA AllReader ==
  ASSUME Typed, LoneInv, PrintInv, AllInv, Reader \/ ReadFails, Whole', seen'
  PROVE  AllInv'
<1>1. /\ UNCHANGED <<phase, lines>> /\ UNCHANGED <<logs, lost>> /\ pc # "ended" /\ exit = "none"
  BY ReaderFrame DEF Typed, ReaderType
<1>2. Whole
  BY <1>1 DEF Whole
<1>3. Used' = Used /\ \A m \in Used : m \in Machines /\ Used \subseteq {m}
  BY <1>1, <1>2 DEF Used, LoneInv
<1>4. ASSUME NEW m
      PROVE  LinesOf(m, logs[m])' = LinesOf(m, logs[m])
             /\ FirstLines(m, Shown(logs[m]))' = FirstLines(m, Shown(logs[m]))
  BY <1>1 DEF LinesOf, FirstLines, Shown
<1>5. CASE ReadTask \/ ReadFails \/ PrintPanics
  <2>1. pc' # "status" /\ exit' \notin {"succeeded", "failed"}
    BY <1>1, <1>5 DEF ReadTask, ReadFails, PrintPanics
  <2>2. QED
    BY <2>1 DEF AllInv, Followed
<1>6. CASE ReadLogs
  <2>1. pc = "logs" /\ got' = getLogs /\ UNCHANGED <<active, seen, exit>>
    BY <1>6 DEF ReadLogs
  <2>2. ASSUME NEW m \in Used
        PROVE  got' = LinesOf(m, logs[m])
    BY <1>3, <2>1, LoneLog
  <2>3. ~Followed'
    BY <1>1, <2>1 DEF Followed
  <2>4. \A m \in Used' : got' = LinesOf(m, logs[m])'
    BY <1>3, <1>4, <2>1, <2>2
  <2>5. QED
    BY <2>3, <2>4 DEF AllInv
<1>7. CASE PrintDelta
  <2>1. /\ pc = "status" /\ UNCHANGED seen /\ pc' # "status" /\ PrintsNew /\ Len(got) >= last
        /\ exit' = IF ~follow THEN "once"
                   ELSE IF getStatus \in {"succeeded", "failed"} THEN getStatus ELSE exit
    BY <1>7 DEF PrintDelta
  <2>2. ASSUME Followed', NEW m \in Used
        PROVE  printed' = FirstLines(m, Shown(logs[m]))
    <3>1. getStatus \in {"succeeded", "failed"}
      BY <1>1, <2>1, <2>2 DEF Followed
    <3>2. active = 0
      BY <1>2, <3>1, StatusIsVerdict
    <3>3. got = LinesOf(m, logs[m])
      BY <1>2, <2>1, <3>2 DEF AllInv
    <3>4. PrintOf(m)
      BY <1>3 DEF PrintInv
    <3>5. /\ m \in Machines /\ lines[m] \in 0 .. MaxLines /\ logs[m] \in None .. lines[m]
          /\ logs[m] \in Int
      BY <1>3, LoneLog, Constants DEF Typed, StoreType, None
    <3>6. PICK n \in None .. lines[m] : last <= Shown(n) /\ n <= logs[m]
      BY <3>4 DEF PrintOf
    <3>7. last \in 0 .. lines[m] /\ printed = FirstLines(m, last)
      BY <3>4 DEF PrintOf
    <3>8. last <= Shown(logs[m])
      BY <3>5, <3>6, <3>7 DEF Shown, None
    <3>9. QED
      BY <2>1, <3>3, <3>5, <3>7, <3>8, PrintsOne
  <2>3. Followed' => \A m \in Used' : printed' = FirstLines(m, Shown(logs[m]))'
    BY <1>3, <1>4, <2>2
  <2>4. QED
    BY <2>1, <2>3 DEF AllInv
<1>8. QED
  BY <1>5, <1>6, <1>7 DEF Reader

\* Nothing is written any more when the reader counts no machine.
LEMMA AllMachine ==
  ASSUME Typed, Typed', LoneInv, NEW m \in Machines, MachineAction(m), Whole', seen'
  PROVE  AllInv'
<1>1. pc # "ended" /\ UNCHANGED <<pc, active, seen, exit>>
  BY MachineFrame
<1>2. ~Followed'
  BY <1>1 DEF Followed, Typed, ReaderType
<1>3. Whole /\ seen
  <2>1. lost \subseteq lost'
    BY MachinesGrow DEF Typed
  <2>2. QED
    BY <1>1, <2>1 DEF Whole
<1>4. SUFFICES ASSUME pc = "status", active = 0
               PROVE  FALSE
  BY <1>1, <1>2 DEF AllInv
<1>5. desired = 0 /\ \A o \in Machines : phase[o] \in {"none", "gone"}
  BY <1>3, <1>4 DEF LoneInv
<1>6. m \notin Alive /\ phase[m] \notin {"on", "stopped"}
  BY <1>5, AliveIsUsed
<1>7. ~Boot(m)
  <2>1. Cardinality(Alive) \in {0, 1}
    BY <1>3, LoneAlive
  <2>2. QED
    BY <1>5, <2>1, BootAt DEF Typed
<1>8. QED
  BY <1>6, <1>7, WriteAt, LoopTurnAt, SyncCopiesAt, SyncDeletesAt, SyncFailsAt, ExecStopAt,
     LeoStopAt, TerminateAt, PreemptAt DEF MachineAction, Typed

LEMMA AllStep ==
  ASSUME Typed, Typed', LoneInv, PrintInv, AllInv, Next
  PROVE  AllInv'
<1>1. SUFFICES ASSUME Whole', seen'
               PROVE  AllInv'
  BY DEF AllInv
<1>2. QED
  BY <1>1, AllReader, AllMachine, NextParts

------------------------------------------------------------------------------
(* The theorems. *)

LEMMA TypedIs ==
  TypeOK /\ MachineTypes /\ PhaseInv <=> Typed
BY TypeParts DEF Typed

LEMMA TypedNext == Typed' => (TypeOK /\ MachineTypes /\ PhaseInv)'
BY TypedIs, PTL

LEMMA Initially ==
  ASSUME Init
  PROVE  TypeOK /\ IInv
<1>1. StoreType /\ ReaderType /\ failures \in 0 .. MaxFailures
  <2>1. << >> \in Seq(Line) /\ Len(<< >>) = 0
    OBVIOUS
  <2>2. StoreType
    <3>1. None \in None .. MaxLines /\ 0 \in 0 .. MaxLines
      BY Constants DEF None
    <3>2. <<None, FALSE>> \in (None .. MaxLines) \X BOOLEAN
      BY <3>1
    <3>3. QED
      BY <3>1, <3>2 DEF Init, StoreType
  <2>3. 0 \in 0 .. N /\ 0 \in 0 .. N + MaxLines /\ 0 <= N + MaxLines /\ 0 \in 0 .. MaxFailures
    BY Constants
  <2>4. ReaderType
    BY <2>1, <2>3 DEF Init, ReaderType
  <2>5. QED
    BY <2>2, <2>3, <2>4 DEF Init
<1>2. PhaseInv /\ StoreBounds
  <2>1. ASSUME NEW m \in Machines
        PROVE  PhaseOf(m) /\ BoundsOf(m)
    <3>1. /\ phase[m] = "none" /\ lines[m] = 0 /\ logs[m] = None /\ statuses = {}
          /\ verdict[m] = "none" /\ hashed[m] = <<None, FALSE>> /\ syncing[m] = "no"
          /\ turn[m] = FALSE
      BY DEF Init
    <3>2. File(m) = None /\ hashed[m][2] = FALSE /\ None <= 0
      BY <3>1 DEF File, None
    <3>3. QED
      BY <3>1, <3>2 DEF PhaseOf, BoundsOf
  <2>2. QED
    BY <2>1 DEF PhaseInv, StoreBounds
<1>3. Cardinality(Written) <= MaxLines
  <2>1. ASSUME NEW w \in Written
        PROVE  FALSE
    <3>1. PICK m \in Machines, k \in 1 .. MaxLines : w = <<m, k>> /\ k <= lines[m]
      BY DEF Written
    <3>2. lines[m] = 0
      BY DEF Init
    <3>3. QED
      BY <3>1, <3>2
  <2>2. Written = {}
    BY <2>1
  <2>3. QED
    BY <2>2, FS_EmptySet, Constants
<1>4. Used = {} /\ ~seen /\ exit = "none" /\ desired = Parallelism /\ pc = "read"
  BY DEF Init, Used
<1>5. LoneInv /\ VerdictInv /\ AllInv
  <2>1. \A m \in Machines : phase[m] = "none"
    BY DEF Init
  <2>2. QED
    BY <1>4, <2>1 DEF LoneInv, VerdictInv, AllInv, Followed
<1>6. PrintInv
  <2>1. ASSUME NEW m \in Machines
        PROVE  PrintOf(m)
    <3>1. got = << >> /\ last = 0 /\ printed = << >> /\ lines[m] = 0
      BY DEF Init
    <3>2. None \in None .. 0 /\ None \in None .. MaxLines
      BY Constants DEF None
    <3>3. LinesOf(m, None) = << >>
      BY <3>2, LinesOfCases
    <3>4. Shown(None) = 0 /\ logs[m] = None /\ None <= None /\ None \in Int
      BY DEF Init, Shown, None
    <3>5. QED
      BY <3>1, <3>2, <3>3, <3>4, NoLines DEF PrintOf
  <2>2. QED
    BY <2>1 DEF PrintInv
<1>7. CopyInv
  <2>1. ASSUME NEW m \in Machines
        PROVE  CopyOf(m)
    <3>1. phase[m] = "none" /\ m \notin late
      BY DEF Init
    <3>2. QED
      BY <3>1 DEF CopyOf
  <2>2. QED
    BY <2>1 DEF CopyInv
<1>8. QED
  BY <1>1, <1>2, <1>3, <1>5, <1>6, <1>7, TypeParts DEF IInv

\* IInv, with TypeOK, holds in every state of every behaviour: in particular the state
\* of the machines and of the bucket is what the reader may conclude from it.
THEOREM InductiveInvariant == Spec => [](TypeOK /\ IInv)
<1>1. Init => TypeOK /\ IInv
  BY Initially
<1>2. ASSUME TypeOK, IInv, [Next]_vars
      PROVE  (TypeOK /\ IInv)'
  <2>1. Typed
    BY <1>2, TypedIs DEF IInv
  <2>2. CASE Next
    <3>1. Typed'
      BY <2>1, <2>2, TypedStep
    <3>2. LoneInv'
      BY <1>2, <2>1, <2>2, LoneReader, LoneMachine, NextParts DEF IInv
    <3>3. VerdictInv' /\ PrintInv' /\ CopyInv' /\ AllInv'
      BY <1>2, <2>1, <2>2, <3>1, VerdictStep, PrintStep, CopyStep, AllStep DEF IInv
    <3>4. (TypeOK /\ MachineTypes /\ PhaseInv)'
      BY <3>1, TypedNext
    <3>5. QED
      BY <3>2, <3>3, <3>4 DEF IInv
  <2>3. CASE UNCHANGED vars
    <3>1. Typed' = Typed
      BY <2>3 DEF Typed, ReaderType, StoreType, StoreBounds, PhaseInv, BoundsOf, PhaseOf, File,
         Written, vars, readerVars, machineVars, historyVars
    <3>2. UNCHANGED <<pc, active, got, last, printed, exit, seen>> /\ UNCHANGED <<phase, lines>>
          /\ UNCHANGED <<hashed, syncing, turn, verdict, desired, logs, lost, late, failures>>
      BY <2>3 DEF vars, readerVars, machineVars, historyVars
    <3>3. Used' = Used /\ Whole' = Whole /\ Followed' = Followed
      BY <3>2 DEF Used, Whole, Followed
    <3>4. LoneInv' = LoneInv /\ VerdictInv' = VerdictInv
      BY <3>2, <3>3 DEF LoneInv, VerdictInv
    <3>5. PrintInv' = PrintInv
      BY <3>2, <3>3 DEF PrintInv, PrintOf, LinesOf, FirstLines, Shown
    <3>6. CopyInv' = CopyInv
      BY <3>2, <3>3 DEF CopyInv, CopyOf, Content
    <3>7. AllInv' = AllInv
      BY <3>2, <3>3 DEF AllInv, LinesOf, FirstLines, Shown
    <3>8. (TypeOK /\ MachineTypes /\ PhaseInv)'
      BY <2>1, <3>1, TypedNext
    <3>9. QED
      BY <1>2, <3>4, <3>5, <3>6, <3>7, <3>8 DEF IInv
  <2>4. QED
    BY <1>2, <2>2, <2>3
<1>3. QED
  BY <1>1, <1>2, PTL DEF Spec

\* TypeOK is an invariant: no file holds more lines than its machine has written, and
\* leo counts no more lines than there can be, those of empty files included.
THEOREM TypeCorrect == Spec => []TypeOK
BY InductiveInvariant, PTL

\* The exit status of leo read --follow (read.go:164-174) is the verdict of a task of
\* one machine from which nothing was reclaimed, and the task has been stopped.
THEOREM ExitIsVerdictHolds == Spec => []ExitIsVerdict
<1>1. TypeOK /\ IInv => ExitIsVerdict
  BY DEF IInv, VerdictInv, Whole, ExitIsVerdict
<1>2. QED
  BY <1>1, InductiveInvariant, PTL

\* When leo read --follow exits by the status it has printed the log that is in the bucket
\* and stays there (read.go:79-93), for any number of lines and of failures and however its
\* iterations and the loop of the machine interleave; and if no transfer failed and no sync
\* ran across the end of the script, or the log loop had its turn before leo stop
\* nevertheless, that is every line that the script wrote (machine-script.sh.tpl:10-14).
THEOREM PrintsAllHolds == Spec => []PrintsAll
<1>1. ASSUME TypeOK, IInv
      PROVE  PrintsAll
  <2>1. SUFFICES ASSUME Followed, lost = {}, seen, Parallelism = 1, NEW m \in Used
                 PROVE  /\ printed = PrintedOf(m)
                        /\ failures = 0 /\ m \notin late => logs[m] = lines[m]
    BY DEF PrintsAll
  <2>2. printed = FirstLines(m, Shown(logs[m]))
    BY <1>1, <2>1 DEF IInv, AllInv, Whole
  <2>3. m \in Machines /\ logs[m] \in None .. MaxLines
    BY <1>1 DEF IInv, MachineTypes, Used
  <2>4. printed = PrintedOf(m)
    <3>1. CASE logs[m] > 0
      <4>1. Shown(logs[m]) = logs[m] /\ logs[m] # 0
        BY <2>3, <3>1, Constants DEF Shown, None
      <4>2. QED
        BY <2>2, <2>3, <3>1, <4>1, LinesOfCases DEF PrintedOf
    <3>2. CASE ~(logs[m] > 0)
      <4>1. Shown(logs[m]) = 0 /\ (logs[m] = 0 \/ logs[m] = None)
        BY <2>3, <3>2, Constants DEF Shown, None
      <4>2. QED
        BY <2>2, <2>3, <4>1, LinesOfCases, NoLines DEF PrintedOf
    <3>3. QED
      BY <3>1, <3>2
  <2>5. ASSUME failures = 0, m \notin late
        PROVE  logs[m] = lines[m]
    <3>1. phase[m] = "gone"
      BY <1>1, <2>1, <2>3 DEF IInv, VerdictInv, Whole, Used
    <3>2. QED
      BY <1>1, <2>1, <2>3, <2>5, <3>1 DEF IInv, CopyInv, CopyOf, Whole
  <2>6. QED
    BY <2>4, <2>5
<1>2. QED
  BY <1>1, InductiveInvariant, PTL

\* As long as there is one machine, what is printed is the beginning of its log: no line
\* is lost, repeated or out of order.
THEOREM PrintsOnceHolds == Spec => []PrintsOnce
<1>1. ASSUME TypeOK, IInv
      PROVE  PrintsOnce
  <2>1. SUFFICES ASSUME Cardinality(Used) = 1, NEW m \in Used
                 PROVE  IsPrefix(printed, LinesOf(m, lines[m]))
    BY DEF PrintsOnce
  <2>2. m \in Machines /\ Used \subseteq {m}
    BY <2>1, OnlyOne, AliveIsUsed
  <2>3. last \in 0 .. lines[m] /\ printed = FirstLines(m, last)
    BY <1>1, <2>2 DEF IInv, PrintInv, PrintOf
  <2>4. lines[m] \in Nat /\ lines[m] \in None .. MaxLines /\ last \in Nat /\ last <= lines[m]
    BY <1>1, <2>2, <2>3, Constants DEF TypeOK, None
  <2>5. Len(printed) = last
    BY <2>3, <2>4, FirstLinesTyped
  <2>6. CASE lines[m] = 0
    <3>1. last = 0 /\ printed = << >> /\ LinesOf(m, lines[m]) = <<Blank>>
      BY <2>3, <2>4, <2>6, NoLines, LinesOfCases
    <3>2. Len(<< >>) <= Len(<<Blank>>) /\ Len(<< >>) = 0
      OBVIOUS
    <3>3. SubSeq(<< >>, 1, 0) = << >> /\ SubSeq(<<Blank>>, 1, 0) = << >>
      BY SubSeqEmpty
    <3>4. QED
      BY <3>1, <3>2, <3>3 DEF IsPrefix
  <2>7. CASE lines[m] > 0
    <3>1. PICK t : t = LinesOf(m, lines[m])
      OBVIOUS
    <3>2. t = FirstLines(m, lines[m]) /\ Len(t) = lines[m]
      <4>1. t = FirstLines(m, lines[m])
        BY <2>4, <2>7, <3>1, LinesOfCases
      <4>2. QED
        BY <2>4, <4>1, FirstLinesTyped
    <3>3. printed = SubSeq(t, 1, last)
      BY <2>3, <2>4, <3>2, FirstLinesPrefix
    <3>4. printed = SubSeq(printed, 1, last)
      BY <2>3, <2>4, FirstLinesPrefix
    <3>5. QED
      BY <2>4, <2>5, <3>1, <3>2, <3>3, <3>4 DEF IsPrefix
  <2>8. QED
    BY <2>4, <2>6, <2>7
<1>2. QED
  BY <1>1, InductiveInvariant, PTL
==============================================================================
