--------------------------- MODULE Induction_proofs ---------------------------
(***************************************************************************)
(* Induction and recursion over the natural numbers, stated for a set and a *)
(* function and not for an operator, and what they show of FlattenSeq.      *)
(***************************************************************************)
EXTENDS Integers, Sequences, SequencesExt, SequenceTheorems, WellFoundedInduction, TLAPS

\* A set of natural numbers has a least member.
LEMMA LeastMember ==
  ASSUME NEW T, T \subseteq Nat, T # {}
  PROVE  \E m \in T : \A k \in T : m <= k
<1>1. PICK R : R = {ss \in Nat \X Nat : ss[1] < ss[2]}
  OBVIOUS
<1>2. IsWellFoundedOn(R, Nat)
  BY <1>1, NatLessThanWellFounded DEF OpToRel
<1>3. PICK m \in T : \A k \in T : ~(<<k, m>> \in R)
  BY <1>2, WFMin
<1>4. ASSUME NEW k \in T
      PROVE  m <= k
  <2>1. <<k, m>> \notin R /\ k \in Nat /\ m \in Nat
    BY <1>3
  <2>2. ~(k < m)
    BY <1>1, <2>1
  <2>3. QED
    BY <2>1, <2>2
<1>5. QED
  BY <1>4

\* The principle of induction.
LEMMA SetInduction ==
  ASSUME NEW T, 0 \in T, \A n \in Nat : n \in T => n + 1 \in T
  PROVE  Nat \subseteq T
<1>1. SUFFICES ASSUME Nat \ T # {}
               PROVE  FALSE
  OBVIOUS
<1>2. PICK m \in Nat \ T : \A k \in Nat \ T : m <= k
  BY <1>1, LeastMember
<1>3. m # 0 /\ m - 1 \in Nat
  BY <1>2
<1>4. m - 1 \in T
  BY <1>2, <1>3
<1>5. QED
  BY <1>2, <1>3, <1>4

\* f is defined by recursion up to n; g is the step.
Recursion(S, first, n, g, f) ==
  /\ f \in [0 .. n -> S]
  /\ f[0] = first /\ \A k \in 1 .. n : f[k] = g[<<k, f[k - 1]>>]

\* Such a function exists.
LEMMA RecursionExists ==
  ASSUME NEW S, NEW first \in S, NEW n \in Nat, NEW g \in [(1 .. n) \X S -> S]
  PROVE  \E f : Recursion(S, first, n, g, f)
<1> DEFINE Upto(m, f) == f[0] = first /\ \A k \in 1 .. m : f[k] = g[<<k, f[k - 1]>>]
           T == {m \in Nat : m <= n => \E f \in [0 .. m -> S] : Upto(m, f)}
<1>1. 0 \in T
  <2>1. PICK f \in [0 .. 0 -> S] : f = [k \in 0 .. 0 |-> first]
    OBVIOUS
  <2>2. Upto(0, f)
    BY <2>1
  <2>3. QED
    BY <2>2
<1>2. ASSUME NEW m \in Nat, m \in T
      PROVE  m + 1 \in T
  <2>1. SUFFICES ASSUME m + 1 <= n
                 PROVE  \E f \in [0 .. m + 1 -> S] : Upto(m + 1, f)
    OBVIOUS
  <2>2. PICK f \in [0 .. m -> S] : Upto(m, f)
    BY <1>2, <2>1
  <2>3. PICK h : h = [k \in 0 .. m + 1 |-> IF k = m + 1 THEN g[<<m + 1, f[m]>>] ELSE f[k]]
    OBVIOUS
  <2>4. g[<<m + 1, f[m]>>] \in S
    <3>1. f[m] \in S /\ m + 1 \in 1 .. n
      BY <2>1, <2>2
    <3>2. <<m + 1, f[m]>> \in (1 .. n) \X S
      BY <3>1
    <3>3. QED
      BY <3>2
  <2>5. h \in [0 .. m + 1 -> S]
    <3>1. ASSUME NEW k \in 0 .. m + 1, k # m + 1
          PROVE  f[k] \in S
      BY <3>1, <2>2
    <3>2. QED
      BY <2>3, <2>4, <3>1
  <2>6. ASSUME NEW k \in 0 .. m
        PROVE  h[k] = f[k]
    BY <2>3
  <2>7. ASSUME NEW k \in 1 .. m + 1
        PROVE  h[k] = g[<<k, h[k - 1]>>]
    <3>1. CASE k = m + 1
      <4>1. k - 1 = m /\ m \in 0 .. m /\ k \in 0 .. m + 1
        BY <3>1
      <4>2. h[k - 1] = f[m] /\ h[k] = g[<<m + 1, f[m]>>]
        BY <2>3, <2>6, <3>1, <4>1
      <4>3. QED
        BY <3>1, <4>2
    <3>2. CASE k # m + 1
      <4>1. k \in 1 .. m /\ k \in 0 .. m /\ k - 1 \in 0 .. m
        BY <3>2
      <4>2. h[k] = f[k] /\ h[k - 1] = f[k - 1]
        BY <2>6, <4>1
      <4>3. QED
        BY <2>2, <4>1, <4>2
    <3>3. QED
      BY <3>1, <3>2
  <2>8. h[0] = first
    BY <2>2, <2>6
  <2>9. QED
    BY <2>5, <2>7, <2>8
<1>3. Nat \subseteq T
  BY <1>1, <1>2, SetInduction
<1>4. \E f \in [0 .. n -> S] : Upto(n, f)
  BY <1>3
<1>5. QED
  BY <1>4 DEF Recursion

\* The partial results of a concatenation.
Partial(f, seqs, n) ==
  f = [i \in 1 .. n |-> IF i = 1 THEN seqs[i] ELSE f[i - 1] \o seqs[i]]

LEMMA PartialExists ==
  ASSUME NEW seqs
  PROVE  \A n \in Nat : \E f : Partial(f, seqs, n)
<1> DEFINE T == {n \in Nat : \E f : Partial(f, seqs, n)}
<1>1. 0 \in T
  <2>1. Partial([i \in 1 .. 0 |-> 0], seqs, 0)
    BY DEF Partial
  <2>2. QED
    BY <2>1
<1>2. ASSUME NEW n \in Nat, n \in T
      PROVE  n + 1 \in T
  <2>1. PICK f : Partial(f, seqs, n)
    BY <1>2
  <2>2. PICK g : g = [i \in 1 .. n + 1 |->
                        IF i = n + 1 THEN (IF i = 1 THEN seqs[i] ELSE f[n] \o seqs[i]) ELSE f[i]]
    OBVIOUS
  <2>3. ASSUME NEW i \in 1 .. n + 1
        PROVE  g[i] = IF i = 1 THEN seqs[i] ELSE g[i - 1] \o seqs[i]
    <3>1. CASE i = n + 1 /\ i = 1
      BY <2>2, <3>1
    <3>2. CASE i = n + 1 /\ i # 1
      <4>1. i - 1 = n /\ n \in 1 .. n + 1 /\ n # n + 1
        BY <3>2
      <4>2. g[n] = f[n]
        BY <2>2, <4>1
      <4>3. QED
        BY <2>2, <3>2, <4>1, <4>2
    <3>3. CASE i # n + 1 /\ i = 1
      <4>1. i \in 1 .. n /\ g[i] = f[i]
        BY <2>2, <3>3
      <4>2. QED
        BY <2>1, <3>3, <4>1 DEF Partial
    <3>4. CASE i # n + 1 /\ i # 1
      <4>1. i \in 1 .. n /\ g[i] = f[i] /\ i - 1 \in 1 .. n + 1 /\ i - 1 # n + 1
        BY <2>2, <3>4
      <4>2. g[i - 1] = f[i - 1]
        BY <2>2, <4>1
      <4>3. QED
        BY <2>1, <3>4, <4>1, <4>2 DEF Partial
    <3>5. QED
      BY <3>1, <3>2, <3>3, <3>4
  <2>4. Partial(g, seqs, n + 1)
    BY <2>2, <2>3 DEF Partial
  <2>5. QED
    BY <2>4
<1>3. Nat \subseteq T
  BY <1>1, <1>2, SetInduction
<1>4. QED
  BY <1>3

\* FlattenSeq, unfolded.
LEMMA FlattenUnfolded ==
  ASSUME NEW seqs, NEW n \in Nat, n = Len(seqs), n > 0
  PROVE  \E f : Partial(f, seqs, n) /\ FlattenSeq(seqs) = f[n]
<1>1. \E f : Partial(f, seqs, n)
  BY PartialExists
<1>2. PICK g : g = CHOOSE f : f = [i \in 1 .. Len(seqs) |-> IF i = 1 THEN seqs[i] ELSE f[i - 1] \o seqs[i]]
  OBVIOUS
<1>3. Partial(g, seqs, n)
  BY <1>1, <1>2 DEF Partial
<1>4. FlattenSeq(seqs) = g[n]
  BY <1>2 DEF FlattenSeq
<1>5. QED
  BY <1>3, <1>4

\* The concatenation of sequences over S is one.
LEMMA FlattenTyped ==
  ASSUME NEW S, NEW seqs, NEW n \in Nat, n = Len(seqs), n > 0,
         \A i \in 1 .. n : seqs[i] \in Seq(S)
  PROVE  FlattenSeq(seqs) \in Seq(S)
<1>1. PICK f : Partial(f, seqs, n) /\ FlattenSeq(seqs) = f[n]
  BY FlattenUnfolded
<1> DEFINE T == {k \in Nat : k \in 1 .. n => f[k] \in Seq(S)}
<1>2. 0 \in T
  OBVIOUS
<1>3. ASSUME NEW k \in Nat, k \in T
      PROVE  k + 1 \in T
  <2>1. SUFFICES ASSUME k + 1 \in 1 .. n
                 PROVE  f[k + 1] \in Seq(S)
    OBVIOUS
  <2>2. f[k + 1] = IF k + 1 = 1 THEN seqs[k + 1] ELSE f[(k + 1) - 1] \o seqs[k + 1]
    BY <1>1, <2>1 DEF Partial
  <2>3. (k + 1) - 1 = k /\ (k + 1 # 1 => k \in 1 .. n) /\ seqs[k + 1] \in Seq(S)
    BY <2>1
  <2>4. k + 1 # 1 => f[k] \in Seq(S)
    BY <1>3, <2>3
  <2>5. QED
    BY <2>2, <2>3, <2>4
<1>4. Nat \subseteq T
  BY <1>2, <1>3, SetInduction
<1>5. QED
  BY <1>1, <1>4

\* If all but one are empty, the concatenation is that one.
LEMMA FlattenSingle ==
  ASSUME NEW S, NEW seqs, NEW n \in Nat, n = Len(seqs), NEW m \in 1 .. n,
         seqs[m] \in Seq(S), \A i \in 1 .. n : i # m => seqs[i] = << >>
  PROVE  FlattenSeq(seqs) = seqs[m]
<1>1. PICK f : Partial(f, seqs, n) /\ FlattenSeq(seqs) = f[n]
  BY FlattenUnfolded
<1> DEFINE T == {k \in Nat : k \in 1 .. n => f[k] = IF k < m THEN << >> ELSE seqs[m]}
<1>2. 0 \in T
  OBVIOUS
<1>3. ASSUME NEW k \in Nat, k \in T
      PROVE  k + 1 \in T
  <2>1. SUFFICES ASSUME k + 1 \in 1 .. n
                 PROVE  f[k + 1] = IF k + 1 < m THEN << >> ELSE seqs[m]
    OBVIOUS
  <2>2. f[k + 1] = IF k + 1 = 1 THEN seqs[k + 1] ELSE f[(k + 1) - 1] \o seqs[k + 1]
    BY <1>1, <2>1 DEF Partial
  <2>3. (k + 1) - 1 = k /\ (k + 1 # 1 => k \in 1 .. n)
    BY <2>1
  <2>4. k + 1 # 1 => f[k] = IF k < m THEN << >> ELSE seqs[m]
    BY <1>3, <2>3
  <2>5. << >> \o << >> = << >> /\ << >> \o seqs[m] = seqs[m] /\ seqs[m] \o << >> = seqs[m]
    OBVIOUS
  <2>6. CASE k + 1 < m
    <3>1. seqs[k + 1] = << >> /\ k < m
      BY <2>1, <2>6
    <3>2. QED
      BY <2>2, <2>3, <2>4, <2>5, <2>6, <3>1
  <2>7. CASE k + 1 = m
    <3>1. k < m /\ ~(k + 1 < m) /\ seqs[k + 1] = seqs[m]
      BY <2>7
    <3>2. f[k + 1] = seqs[m]
      <4>1. CASE k + 1 = 1
        BY <2>2, <3>1, <4>1
      <4>2. CASE k + 1 # 1
        BY <2>2, <2>3, <2>4, <2>5, <3>1, <4>2
      <4>3. QED
        BY <4>1, <4>2
    <3>3. QED
      BY <3>1, <3>2
  <2>8. CASE k + 1 > m
    <3>1. ~(k < m) /\ k + 1 # m /\ k + 1 # 1
      BY <2>8
    <3>2. seqs[k + 1] = << >>
      BY <2>1, <3>1
    <3>3. QED
      BY <2>2, <2>3, <2>4, <2>5, <2>8, <3>1, <3>2
  <2>9. QED
    BY <2>6, <2>7, <2>8
<1>4. Nat \subseteq T
  BY <1>2, <1>3, SetInduction
<1>5. n \in 1 .. n /\ ~(n < m)
  OBVIOUS
<1>6. QED
  BY <1>1, <1>4, <1>5

\* The length of a concatenation, by a bound for the lengths of its beginnings.
LEMMA FlattenLength ==
  ASSUME NEW S, NEW seqs, NEW n \in Nat, n = Len(seqs), n > 0,
         \A i \in 1 .. n : seqs[i] \in Seq(S),
         NEW b \in [0 .. n -> Nat], \A i \in 1 .. n : b[i - 1] + Len(seqs[i]) <= b[i]
  PROVE  Len(FlattenSeq(seqs)) <= b[n]
<1>1. PICK f : Partial(f, seqs, n) /\ FlattenSeq(seqs) = f[n]
  BY FlattenUnfolded
<1> DEFINE T == {k \in Nat : k \in 1 .. n => f[k] \in Seq(S) /\ Len(f[k]) <= b[k]}
<1>2. 0 \in T
  OBVIOUS
<1>3. ASSUME NEW k \in Nat, k \in T
      PROVE  k + 1 \in T
  <2>1. SUFFICES ASSUME k + 1 \in 1 .. n
                 PROVE  f[k + 1] \in Seq(S) /\ Len(f[k + 1]) <= b[k + 1]
    OBVIOUS
  <2>2. f[k + 1] = IF k + 1 = 1 THEN seqs[k + 1] ELSE f[(k + 1) - 1] \o seqs[k + 1]
    BY <1>1, <2>1 DEF Partial
  <2>3. (k + 1) - 1 = k /\ (k + 1 # 1 => k \in 1 .. n) /\ seqs[k + 1] \in Seq(S) /\ k \in 0 .. n
    BY <2>1
  <2>4. b[k] + Len(seqs[k + 1]) <= b[k + 1] /\ b[k] \in Nat /\ b[k + 1] \in Nat
        /\ Len(seqs[k + 1]) \in Nat
    BY <2>1, <2>3
  <2>5. CASE k + 1 = 1
    BY <2>2, <2>3, <2>4, <2>5
  <2>6. CASE k + 1 # 1
    <3>1. f[k] \in Seq(S) /\ Len(f[k]) <= b[k]
      BY <1>3, <2>3, <2>6
    <3>2. f[k + 1] = f[k] \o seqs[k + 1]
      BY <2>2, <2>3, <2>6
    <3>3. ASSUME NEW s \in Seq(S), NEW t \in Seq(S), NEW x \in Nat, NEW y \in Nat,
                 Len(s) <= x, x + Len(t) <= y
          PROVE  s \o t \in Seq(S) /\ Len(s \o t) <= y
      <4>1. Len(s \o t) = Len(s) + Len(t) /\ Len(s) \in Nat /\ Len(t) \in Nat
        OBVIOUS
      <4>2. QED
        BY <3>3, <4>1
    <3>4. QED
      BY <2>3, <2>4, <3>1, <3>2, <3>3
  <2>7. QED
    BY <2>5, <2>6
<1>4. Nat \subseteq T
  BY <1>2, <1>3, SetInduction
<1>5. n \in 1 .. n
  OBVIOUS
<1>6. QED
  BY <1>1, <1>4, <1>5
===============================================================================
