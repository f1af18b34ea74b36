-------------------------- MODULE TaskIdentity_proofs --------------------------
(***************************************************************************)
(* Theorems about TaskIdentity, for texts of any length, any number of tasks *)
(* that share a cloud, of runs of CI and of applies: a task finds what is its *)
(* own, and only that.                                                      *)
(***************************************************************************)
EXTENDS TaskIdentity, Integers, Induction_proofs

------------------------------------------------------------------------------
(* Normalisation. *)

\* The characters, those that the code has as constants by name.
Characters == STRING \union {"~", "-", "#", "uid", "pet", "given"}
Texts == Seq(Characters)

LEMMA Constants ==
  /\ nameLength \in Nat /\ nameLength > 1
  /\ MaxPipelines \in Nat /\ MaxPipelines > 0 /\ MaxApplies \in Nat
  /\ "leo" \notin Tasks /\ Names \subseteq Texts
<1>1. STRING \subseteq Characters
  BY DEF Characters
<1>2. ASSUME NEW text \in Names
      PROVE  text \in Texts
  <2>1. text \in Seq(STRING)
    BY IdentityConstants
  <2>2. QED
    BY <1>1, <2>1, SeqMonotonic DEF Texts
<1>3. QED
  BY <1>2, IdentityConstants

\* No two dashes in a row.
DashesApart(text) ==
  \A k \in 1 .. Len(text) :
    text[k] # "~" /\ (text[k] = "-" /\ k < Len(text) => text[k + 1] # "-")

HasAlnum(text) == \E k \in 1 .. Len(text) : IsAlnum(text[k])

\* What WellFormed says of the name.
Normal(text) ==
  /\ Len(text) <= nameLength
  /\ \A k \in DOMAIN text :
       IsAlnum(text[k])
       \/ (text[k] = "-" /\ k \notin {1, Len(text)} /\ IsAlnum(text[k + 1]))

LEMMA Appended ==
  ASSUME NEW S, "-" \in S, NEW text \in Seq(S), NEW c \in S, DashesApart(text),
         c # "~", c = "-" => text = << >> \/ Last(text) # "-"
  PROVE  /\ Append(text, c) \in Seq(S) /\ DashesApart(Append(text, c))
         /\ HasAlnum(text) \/ IsAlnum(c) => HasAlnum(Append(text, c))
<1>1. PICK n \in Nat : n = Len(text)
  BY LenProperties
<1>2. PICK a : a = Append(text, c)
  OBVIOUS
<1>3. /\ a \in Seq(S) /\ Len(a) = n + 1
      /\ \A k \in 1 .. n : a[k] = text[k]
      /\ a[n + 1] = c
  BY <1>1, <1>2, AppendProperties
<1>4. ASSUME NEW k \in 1 .. n + 1
      PROVE  a[k] # "~" /\ (a[k] = "-" /\ k < n + 1 => a[k + 1] # "-")
  <2>1. CASE k = n + 1
    BY <1>3, <2>1
  <2>2. CASE k < n
    <3>1. k \in 1 .. n /\ k + 1 \in 1 .. n /\ k < Len(text)
      BY <1>1, <2>2
    <3>2. QED
      BY <1>1, <1>3, <3>1 DEF DashesApart
  <2>3. CASE k = n
    <3>1. n \in 1 .. n /\ text # << >> /\ Last(text) = text[n]
      <4>1. n \in 1 .. n /\ n # 0 /\ Len(<< >>) = 0
        BY <2>3
      <4>2. QED
        BY <1>1, <4>1 DEF Last
    <3>2. a[k] = text[n] /\ a[k + 1] = c /\ text[n] # "~"
      BY <1>1, <1>3, <2>3, <3>1 DEF DashesApart
    <3>3. QED
      BY <3>1, <3>2
  <2>4. QED
    BY <2>1, <2>2, <2>3
<1>5. DashesApart(a)
  BY <1>3, <1>4 DEF DashesApart
<1>6. ASSUME HasAlnum(text) \/ IsAlnum(c)
      PROVE  HasAlnum(a)
  <2>1. CASE HasAlnum(text)
    <3>1. PICK k \in 1 .. n : IsAlnum(text[k])
      BY <1>1, <2>1 DEF HasAlnum
    <3>2. k \in 1 .. n + 1 /\ IsAlnum(a[k])
      BY <1>3, <3>1
    <3>3. QED
      BY <1>3, <3>2 DEF HasAlnum
  <2>2. CASE IsAlnum(c)
    <3>1. n + 1 \in 1 .. n + 1 /\ IsAlnum(a[n + 1])
      BY <1>3, <2>2
    <3>2. QED
      BY <1>3, <3>1 DEF HasAlnum
  <2>3. QED
    BY <1>6, <2>1, <2>2
<1>7. QED
  BY <1>2, <1>3, <1>5, <1>6

LEMMA ExtendedApart ==
  ASSUME NEW S, "-" \in S, NEW text \in Seq(S), NEW c \in S, DashesApart(text)
  PROVE  /\ Extended(text, c) \in Seq(S) /\ DashesApart(Extended(text, c))
         /\ HasAlnum(text) \/ IsAlnum(c) => HasAlnum(Extended(text, c))
<1>1. CASE IsAlnum(c)
  <2>1. c # "~" /\ c # "-" /\ Extended(text, c) = Append(text, c)
    BY <1>1 DEF IsAlnum, Extended
  <2>2. QED
    BY <1>1, <2>1, Appended
<1>2. CASE ~IsAlnum(c) /\ text # << >> /\ Last(text) = "-"
  <2>1. Extended(text, c) = text
    BY <1>2 DEF Extended
  <2>2. QED
    BY <1>2, <2>1
<1>3. CASE ~IsAlnum(c) /\ ~(text # << >> /\ Last(text) = "-")
  <2>1. Extended(text, c) = Append(text, "-")
    BY <1>3 DEF Extended
  <2>2. "-" \in S /\ "-" # "~"
    OBVIOUS
  <2>3. text = << >> \/ Last(text) # "-"
    BY <1>3
  <2>4. QED
    BY <1>3, <2>1, <2>2, <2>3, Appended
<1>4. QED
  BY <1>1, <1>2, <1>3

\* Dashed, unfolded.
LEMMA DashedUnfolded ==
  ASSUME NEW S, "-" \in S, NEW text \in Seq(S), NEW n \in Nat, n = Len(text)
  PROVE  \E d \in [0 .. n -> Seq(S)] :
           /\ d[0] = << >> /\ \A k \in 1 .. n : d[k] = Extended(d[k - 1], text[k])
           /\ Dashed(text) = d[n]
<1>1. << >> \in Seq(S)
  OBVIOUS
<1>2. PICK g : g = [p \in (1 .. n) \X Seq(S) |-> Extended(p[2], text[p[1]])]
  OBVIOUS
<1>3. ASSUME NEW k \in 1 .. n, NEW t \in Seq(S)
      PROVE  Extended(t, text[k]) \in Seq(S)
  <2>1. text[k] \in S /\ "-" \in S
    <3>1. text \in Seq(S) /\ k \in 1 .. Len(text)
      OBVIOUS
    <3>2. text[k] \in S
      BY <3>1, ElementOfSeq
    <3>3. QED
      BY <3>2
  <2>2. Append(t, text[k]) \in Seq(S) /\ Append(t, "-") \in Seq(S)
    BY <2>1, AppendProperties
  <2>3. QED
    BY <2>2 DEF Extended
<1>4. g \in [(1 .. n) \X Seq(S) -> Seq(S)]
  <2>1. ASSUME NEW p \in (1 .. n) \X Seq(S)
        PROVE  Extended(p[2], text[p[1]]) \in Seq(S)
    BY <1>3
  <2>2. QED
    BY <1>2, <2>1
<1>5. PICK d \in [0 .. n -> Seq(S)] : d[0] = << >> /\ \A k \in 1 .. n : d[k] = g[<<k, d[k - 1]>>]
  <2>1. PICK d : Recursion(Seq(S), << >>, n, g, d)
    BY <1>1, <1>4, RecursionExists
  <2>2. QED
    BY <2>1 DEF Recursion
<1>6. ASSUME NEW k \in 1 .. n
      PROVE  d[k] = Extended(d[k - 1], text[k])
  <2>1. k - 1 \in 0 .. n
    OBVIOUS
  <2>2. <<k, d[k - 1]>> \in (1 .. n) \X Seq(S)
    BY <2>1
  <2>3. g[<<k, d[k - 1]>>] = Extended(d[k - 1], text[k])
    BY <1>2, <2>2
  <2>4. QED
    BY <1>5, <2>3
<1>7. d = [k \in 0 .. n |-> IF k = 0 THEN << >> ELSE Extended(d[k - 1], text[k])]
  <2>1. ASSUME NEW k \in 0 .. n
        PROVE  d[k] = IF k = 0 THEN << >> ELSE Extended(d[k - 1], text[k])
    <3>1. k # 0 => k \in 1 .. n
      OBVIOUS
    <3>2. QED
      BY <1>5, <1>6, <3>1
  <2>2. QED
    BY <2>1
<1>8. PICK e : e = CHOOSE dashed : dashed = [k \in 0 .. Len(text) |->
                      IF k = 0 THEN << >> ELSE Extended(dashed[k - 1], text[k])]
  OBVIOUS
<1>9. e = [k \in 0 .. n |-> IF k = 0 THEN << >> ELSE Extended(e[k - 1], text[k])]
  BY <1>7, <1>8
<1>10. Dashed(text) = e[n]
  BY <1>8 DEF Dashed
<1>11. e[0] = << >> /\ \A k \in 1 .. n : e[k] = Extended(e[k - 1], text[k])
  <2>1. 0 \in 0 .. n /\ \A k \in 1 .. n : k \in 0 .. n /\ k # 0
    OBVIOUS
  <2>2. QED
    BY <1>9, <2>1
<1> DEFINE T == {k \in Nat : k <= n => e[k] = d[k]}
<1>12. 0 \in T
  BY <1>5, <1>11
<1>13. ASSUME NEW k \in Nat, k \in T
       PROVE  k + 1 \in T
  <2>1. SUFFICES ASSUME k + 1 <= n
                 PROVE  e[k + 1] = d[k + 1]
    OBVIOUS
  <2>2. k + 1 \in 1 .. n /\ (k + 1) - 1 = k /\ e[k] = d[k]
    BY <1>13, <2>1
  <2>3. QED
    BY <1>6, <1>11, <2>2
<1>14. Nat \subseteq T
  BY <1>12, <1>13, SetInduction
<1>15. e[n] = d[n]
  BY <1>14
<1>16. QED
  BY <1>5, <1>6, <1>10, <1>15

\* The text of which runs were replaced has no two dashes in a row, and what letters
\* and digits there were.
LEMMA DashedApart ==
  ASSUME NEW S, "-" \in S, NEW text \in Seq(S)
  PROVE  /\ Dashed(text) \in Seq(S) /\ DashesApart(Dashed(text))
         /\ HasAlnum(text) => HasAlnum(Dashed(text))
<1>1. PICK n \in Nat : n = Len(text)
  BY LenProperties
<1>2. PICK d \in [0 .. n -> Seq(S)] :
           /\ d[0] = << >> /\ \A k \in 1 .. n : d[k] = Extended(d[k - 1], text[k])
           /\ Dashed(text) = d[n]
  BY <1>1, DashedUnfolded
<1> DEFINE T == {k \in Nat : k <= n =>
                   /\ DashesApart(d[k])
                   /\ (\E j \in 1 .. k : IsAlnum(text[j])) => HasAlnum(d[k])}
<1>3. 0 \in T
  <2>1. DashesApart(<< >>)
    <3>1. Len(<< >>) = 0
      OBVIOUS
    <3>2. 1 .. 0 = {}
      OBVIOUS
    <3>3. QED
      BY <3>1, <3>2 DEF DashesApart
  <2>2. QED
    BY <1>2, <2>1
<1>4. ASSUME NEW k \in Nat, k \in T
      PROVE  k + 1 \in T
  <2>1. SUFFICES ASSUME k + 1 <= n
                 PROVE  /\ DashesApart(d[k + 1])
                        /\ (\E j \in 1 .. k + 1 : IsAlnum(text[j])) => HasAlnum(d[k + 1])
    OBVIOUS
  <2>2. k + 1 \in 1 .. n /\ (k + 1) - 1 = k /\ k \in 0 .. n
    BY <2>1
  <2>3. d[k] \in Seq(S) /\ DashesApart(d[k])
        /\ ((\E j \in 1 .. k : IsAlnum(text[j])) => HasAlnum(d[k]))
    BY <1>4, <2>2
  <2>4. d[k + 1] = Extended(d[k], text[k + 1])
    BY <1>2, <2>2
  <2>5. text[k + 1] \in S
    BY <1>1, <2>2, ElementOfSeq
  <2>6. DashesApart(d[k + 1])
        /\ (HasAlnum(d[k]) \/ IsAlnum(text[k + 1]) => HasAlnum(d[k + 1]))
    BY <2>3, <2>4, <2>5, ExtendedApart
  <2>7. ASSUME NEW j \in 1 .. k + 1, IsAlnum(text[j])
        PROVE  HasAlnum(d[k + 1])
    <3>1. j = k + 1 \/ j \in 1 .. k
      OBVIOUS
    <3>2. QED
      BY <2>3, <2>6, <2>7, <3>1
  <2>8. QED
    BY <2>6, <2>7
<1>5. Nat \subseteq T
  BY <1>3, <1>4, SetInduction
<1>6. DashesApart(d[n]) /\ ((\E j \in 1 .. n : IsAlnum(text[j])) => HasAlnum(d[n]))
  BY <1>5
<1>7. QED
  BY <1>1, <1>2, <1>6 DEF HasAlnum

\* A text without runs is as it was.
LEMMA DashedNormal ==
  ASSUME NEW S, "-" \in S, NEW text \in Seq(S), Normal(text)
  PROVE  Dashed(text) = text
<1>1. PICK n \in Nat : n = Len(text)
  BY LenProperties
<1>2. PICK d \in [0 .. n -> Seq(S)] :
           /\ d[0] = << >> /\ \A k \in 1 .. n : d[k] = Extended(d[k - 1], text[k])
           /\ Dashed(text) = d[n]
  BY <1>1, DashedUnfolded
<1> DEFINE T == {k \in Nat : k <= n => d[k] = SubSeq(text, 1, k)}
<1>3. 0 \in T
  <2>1. SubSeq(text, 1, 0) = << >>
    BY SubSeqEmpty
  <2>2. QED
    BY <1>2, <2>1
<1>4. ASSUME NEW k \in Nat, k \in T
      PROVE  k + 1 \in T
  <2>1. SUFFICES ASSUME k + 1 <= n
                 PROVE  d[k + 1] = SubSeq(text, 1, k + 1)
    OBVIOUS
  <2>2. k + 1 \in 1 .. n /\ (k + 1) - 1 = k /\ k \in 0 .. n
    BY <2>1
  <2>3. PICK s : s = SubSeq(text, 1, k)
    OBVIOUS
  <2>4. d[k] = s /\ d[k + 1] = Extended(s, text[k + 1])
    <3>1. k <= n
      BY <2>2
    <3>2. d[k] = s
      BY <1>4, <2>3, <3>1
    <3>3. d[k + 1] = Extended(d[(k + 1) - 1], text[k + 1])
      BY <1>2, <2>2
    <3>4. QED
      BY <2>2, <3>2, <3>3
  <2>5. Append(s, text[k + 1]) = SubSeq(text, 1, k + 1)
    <3>1. SubSeq(text, 1, k + 1) = SubSeq(text, 1, (k + 1) - 1) \o <<text[k + 1]>>
      BY <1>1, <2>2, SubSeqRecursiveSecond
    <3>2. s \in Seq(S) /\ text[k + 1] \in S
      BY <1>1, <1>2, <2>2, <2>4, ElementOfSeq
    <3>3. Append(s, text[k + 1]) = s \o <<text[k + 1]>>
      BY <3>2, AppendIsConcat
    <3>4. QED
      BY <2>2, <2>3, <3>1, <3>3
  <2>6. DOMAIN text = 1 .. n
    BY <1>1, LenProperties
  <2>7. CASE IsAlnum(text[k + 1])
    BY <2>4, <2>5, <2>7 DEF Extended
  <2>8. CASE ~IsAlnum(text[k + 1])
    <3>1. text[k + 1] = "-" /\ k # 0
      BY <1>1, <2>2, <2>6, <2>8 DEF Normal
    <3>2. k \in 1 .. n /\ k # n
      BY <2>2, <3>1
    <3>3. text[k] # "-"
      BY <1>1, <2>6, <2>8, <3>2 DEF Normal, IsAlnum
    <3>4. Last(s) = text[k] /\ s # << >>
      <4>1. \A i \in 1 .. k : text[i] \in S
        BY <1>1, <3>2, ElementOfSeq
      <4>2. /\ Len(s) = IF 1 <= k THEN k - 1 + 1 ELSE 0
            /\ \A i \in 1 .. k - 1 + 1 : s[i] = text[1 + i - 1]
        BY <2>3, <4>1, SubSeqProperties
      <4>3. k \in 1 .. k - 1 + 1 /\ 1 + k - 1 = k /\ Len(s) = k /\ k # 0
        BY <3>2, <4>2
      <4>4. s[k] = text[k]
        BY <4>2, <4>3
      <4>5. Len(<< >>) = 0
        OBVIOUS
      <4>6. QED
        BY <4>3, <4>4, <4>5 DEF Last
    <3>5. Extended(s, text[k + 1]) = Append(s, "-")
      BY <2>8, <3>3, <3>4 DEF Extended
    <3>6. QED
      BY <2>4, <2>5, <3>1, <3>5
  <2>9. QED
    BY <2>7, <2>8
<1>5. Nat \subseteq T
  BY <1>3, <1>4, SetInduction
<1>6. d[n] = SubSeq(text, 1, n)
  BY <1>5
<1>7. SubSeq(text, 1, n) = text
  BY <1>1, SubSeqFull
<1>8. QED
  BY <1>2, <1>6, <1>7

LEMMA TruncatedApart ==
  ASSUME NEW S, "-" \in S, NEW text \in Seq(S), DashesApart(text)
  PROVE  /\ Truncated(text) \in Seq(S) /\ DashesApart(Truncated(text))
         /\ Len(Truncated(text)) <= nameLength
         /\ HasAlnum(text) => HasAlnum(Truncated(text))
<1>1. PICK n \in Nat : n = Len(text)
  BY LenProperties
<1>2. CASE n <= nameLength
  <2>1. Truncated(text) = text
    BY <1>1, <1>2, Constants DEF Truncated
  <2>2. QED
    BY <1>1, <1>2, <2>1
<1>3. CASE n > nameLength
  <2>1. PICK u : u = SubSeq(text, 1, nameLength)
    OBVIOUS
  <2>2. Truncated(text) = u
    BY <1>1, <1>3, <2>1, Constants DEF Truncated
  <2>3. \A i \in 1 .. nameLength : i \in 1 .. n /\ text[i] \in S
    <3>1. \A i \in 1 .. nameLength : i \in 1 .. n
      BY <1>3, Constants
    <3>2. QED
      BY <1>1, <3>1, ElementOfSeq
  <2>4. /\ u \in Seq(S)
        /\ Len(u) = IF 1 <= nameLength THEN nameLength - 1 + 1 ELSE 0
        /\ \A i \in 1 .. nameLength - 1 + 1 : u[i] = text[1 + i - 1]
    BY <2>1, <2>3, Constants, SubSeqProperties
  <2>5. Len(u) = nameLength /\ \A i \in 1 .. nameLength : u[i] = text[i]
    <3>1. ASSUME NEW i \in 1 .. nameLength
          PROVE  i \in 1 .. nameLength - 1 + 1 /\ 1 + i - 1 = i
      BY Constants
    <3>2. QED
      BY <2>4, <3>1, Constants
  <2>6. ASSUME NEW k \in 1 .. nameLength
        PROVE  u[k] # "~" /\ (u[k] = "-" /\ k < nameLength => u[k + 1] # "-")
    <3>1. k < nameLength => k + 1 \in 1 .. nameLength /\ k < n
      BY <1>3, Constants
    <3>2. QED
      BY <1>1, <2>3, <2>5, <3>1 DEF DashesApart
  <2>7. DashesApart(u)
    BY <2>5, <2>6 DEF DashesApart
  <2>8. HasAlnum(u)
    <3>1. 1 \in 1 .. nameLength /\ 2 \in 1 .. nameLength /\ 1 < nameLength /\ 1 + 1 = 2
      BY Constants
    <3>2. u[1] # "~" /\ u[2] # "~" /\ (u[1] = "-" => u[2] # "-")
      BY <2>6, <3>1
    <3>3. IsAlnum(u[1]) \/ IsAlnum(u[2])
      BY <3>2 DEF IsAlnum
    <3>4. QED
      BY <2>5, <3>1, <3>3 DEF HasAlnum
  <2>9. QED
    BY <2>2, <2>4, <2>5, <2>7, <2>8, Constants
<1>4. QED
  BY <1>1, <1>2, <1>3, Constants

LEMMA TrimmedNormal ==
  ASSUME NEW S, "-" \in S, NEW text \in Seq(S), DashesApart(text), Len(text) <= nameLength
  PROVE  /\ Trimmed(text) \in Seq(S) /\ Normal(Trimmed(text))
         /\ HasAlnum(text) => Trimmed(text) # << >>
<1>1. PICK n \in Nat : n = Len(text)
  BY LenProperties
<1>2. PICK from : from = IF text # << >> /\ Head(text) = "-" THEN 2 ELSE 1
  OBVIOUS
<1>3. PICK to : to = IF text # << >> /\ Last(text) = "-" THEN Len(text) - 1 ELSE Len(text)
  OBVIOUS
<1>4. PICK u : u = SubSeq(text, from, to)
  OBVIOUS
<1>5. Trimmed(text) = u
  BY <1>2, <1>3, <1>4 DEF Trimmed
<1>6. from \in {1, 2} /\ to \in {n - 1, n} /\ from \in Int /\ to \in Int /\ to <= n /\ 1 <= from
  <2>1. from \in {1, 2}
    BY <1>2
  <2>2. to \in {n - 1, n}
    BY <1>1, <1>3
  <2>3. QED
    BY <2>1, <2>2
<1>7. n > 0 => text # << >> /\ Head(text) = text[1] /\ Last(text) = text[n]
  <2>1. Len(<< >>) = 0
    OBVIOUS
  <2>2. QED
    BY <1>1, <2>1 DEF Last
<1>8. n > 0 => (from = 1 => text[1] # "-") /\ (from = 2 => text[1] = "-")
               /\ (to = n => text[n] # "-") /\ (to = n - 1 => text[n] = "-")
  BY <1>1, <1>2, <1>3, <1>7
<1>9. \A i \in from .. to : i \in 1 .. n /\ text[i] \in S
  <2>1. \A i \in from .. to : i \in 1 .. n
    BY <1>6
  <2>2. QED
    BY <1>1, <2>1, ElementOfSeq
<1>10. /\ u \in Seq(S)
       /\ Len(u) = IF from <= to THEN to - from + 1 ELSE 0
       /\ \A i \in 1 .. to - from + 1 : u[i] = text[from + i - 1]
  BY <1>4, <1>6, <1>9, SubSeqProperties
<1>11. DOMAIN u = 1 .. Len(u) /\ Len(u) \in Nat
  BY <1>10, LenProperties
<1>12. Len(u) <= nameLength
  BY <1>1, <1>6, <1>10, Constants
<1>13. ASSUME NEW k \in 1 .. Len(u)
       PROVE  IsAlnum(u[k])
              \/ (u[k] = "-" /\ k \notin {1, Len(u)} /\ IsAlnum(u[k + 1]))
  <2>1. from <= to /\ Len(u) = to - from + 1 /\ k \in 1 .. to - from + 1
    BY <1>10
  <2>2. PICK j \in Int : j = from + k - 1
    BY <1>6
  <2>3. j \in from .. to /\ j \in 1 .. n /\ n > 0
    BY <1>6, <2>1, <2>2
  <2>4. u[k] = text[j] /\ text[j] # "~"
    BY <1>1, <1>10, <2>1, <2>2, <2>3 DEF DashesApart
  <2>5. SUFFICES ASSUME text[j] = "-"
                 PROVE  k \notin {1, Len(u)} /\ IsAlnum(u[k + 1])
    BY <2>4 DEF IsAlnum
  <2>6. \A i \in 1 .. n : text[i] # "~" /\ (text[i] = "-" /\ i < n => text[i + 1] # "-")
    BY <1>1 DEF DashesApart
  <2>7. k # 1
    <3>1. SUFFICES ASSUME k = 1
                   PROVE  FALSE
      OBVIOUS
    <3>2. j = from
      BY <1>6, <2>2, <3>1
    <3>3. CASE from = 1
      BY <1>8, <2>3, <2>5, <3>2, <3>3
    <3>4. CASE from = 2
      <4>1. 1 \in 1 .. n /\ 1 < n /\ 1 + 1 = 2 /\ text[1] = "-" /\ text[2] = "-"
        BY <1>8, <2>3, <2>5, <3>2, <3>4
      <4>2. QED
        BY <2>6, <4>1
    <3>5. QED
      BY <1>6, <3>3, <3>4
  <2>8. k # Len(u)
    <3>1. SUFFICES ASSUME k = Len(u)
                   PROVE  FALSE
      OBVIOUS
    <3>2. j = to
      BY <1>6, <2>1, <2>2, <3>1
    <3>3. CASE to = n
      BY <1>8, <2>3, <2>5, <3>2, <3>3
    <3>4. CASE to = n - 1
      <4>1. j \in 1 .. n /\ j < n /\ j + 1 = n /\ text[n] = "-"
        BY <1>8, <2>3, <3>2, <3>4
      <4>2. QED
        BY <2>5, <2>6, <4>1
    <3>5. QED
      BY <1>6, <3>3, <3>4
  <2>9. k + 1 \in 1 .. to - from + 1 /\ from + (k + 1) - 1 = j + 1 /\ j + 1 \in 1 .. n /\ j < n
    BY <1>6, <2>1, <2>2, <2>3, <2>8
  <2>10. u[k + 1] = text[j + 1]
    <3>1. u[k + 1] = text[from + (k + 1) - 1]
      BY <1>10, <2>9
    <3>2. QED
      BY <2>9, <3>1
  <2>11. IsAlnum(u[k + 1])
    BY <2>3, <2>5, <2>6, <2>9, <2>10 DEF IsAlnum
  <2>12. QED
    BY <2>7, <2>8, <2>11
<1>14. Normal(u)
  BY <1>11, <1>12, <1>13 DEF Normal
<1>15. ASSUME HasAlnum(text)
       PROVE  u # << >>
  <2>1. PICK j \in 1 .. n : IsAlnum(text[j])
    BY <1>1, <1>15 DEF HasAlnum
  <2>2. text[j] # "-" /\ n > 0
    BY <2>1 DEF IsAlnum
  <2>3. from <= j
    BY <1>6, <1>8, <2>2
  <2>4. j <= to
    BY <1>6, <1>8, <2>2
  <2>5. Len(u) # 0
    BY <1>6, <1>10, <2>3, <2>4
  <2>6. Len(<< >>) = 0
    OBVIOUS
  <2>7. QED
    BY <2>5, <2>6
<1>16. QED
  BY <1>5, <1>10, <1>14, <1>15

\* What is kept of a text has the form of WellFormed, and is not empty if the text has
\* a letter or a digit (identifier.go:103-115).
THEOREM NormalizeForm ==
  ASSUME NEW S, "-" \in S, NEW text \in Seq(S)
  PROVE  /\ normalize(text) \in Seq(S) /\ Normal(normalize(text))
         /\ HasAlnum(text) => normalize(text) # << >>
<1>1. Dashed(text) \in Seq(S) /\ DashesApart(Dashed(text))
      /\ (HasAlnum(text) => HasAlnum(Dashed(text)))
  BY DashedApart
<1>2. PICK d : d = Dashed(text)
  OBVIOUS
<1>3. PICK e : e = Truncated(d)
  OBVIOUS
<1>4. e \in Seq(S) /\ DashesApart(e) /\ Len(e) <= nameLength /\ (HasAlnum(d) => HasAlnum(e))
  BY <1>1, <1>2, <1>3, TruncatedApart
<1>5. Trimmed(e) \in Seq(S) /\ Normal(Trimmed(e)) /\ (HasAlnum(e) => Trimmed(e) # << >>)
  BY <1>4, TrimmedNormal
<1>6. QED
  BY <1>1, <1>2, <1>3, <1>4, <1>5 DEF normalize

\* What was kept once is kept as it is: an identifier that is parsed and printed again
\* is the same (identifier.go:31-40, 77-80).
THEOREM NormalizeFixed ==
  ASSUME NEW S, "-" \in S, NEW text \in Seq(S), Normal(text)
  PROVE  normalize(text) = text
<1>1. PICK n \in Nat : n = Len(text)
  BY LenProperties
<1>2. DOMAIN text = 1 .. n
  BY <1>1, LenProperties
<1>3. Dashed(text) = text
  BY DashedNormal
<1>4. Truncated(text) = text
  BY <1>1, Constants DEF Truncated, Normal
<1>5. Trimmed(text) = text
  <2>1. ASSUME n > 0
        PROVE  Head(text) # "-" /\ Last(text) # "-"
    <3>1. 1 \in 1 .. n /\ n \in 1 .. n
      BY <2>1
    <3>2. text[1] # "-" /\ text[n] # "-"
      BY <1>1, <1>2, <3>1 DEF Normal, IsAlnum
    <3>3. Head(text) = text[1] /\ Last(text) = text[n]
      <4>1. text # << >>
        BY <1>1, <2>1
      <4>2. QED
        BY <1>1, <4>1 DEF Last
    <3>4. QED
      BY <3>2, <3>3
  <2>2. text # << >> => n > 0
    BY <1>1, EmptySeq
  <2>3. Trimmed(text) = SubSeq(text, 1, Len(text))
    BY <2>1, <2>2 DEF Trimmed
  <2>4. QED
    BY <2>3, SubSeqFull
<1>6. QED
  BY <1>3, <1>4, <1>5 DEF normalize

------------------------------------------------------------------------------
(* Identifiers. *)

Identifiers == [name : Texts, salt : Texts, sum : Texts]

\* A string that an identifier was printed as; its name may be empty.
Sound(long) ==
  /\ long \in Identifiers
  /\ Normal(long.name)
  /\ long.sum = hash(long.name \o long.salt)

OfText(text) == Long(NewDeterministicIdentifier(text))
RandomId(n) == Long(NewRandomIdentifier(<<>>, n))

\* The identifier that the attribute name stands for.
NameId(t) == Long(ByName(t))

LEMMA Alphabet ==
  /\ \A s \in {"~", "-", "#", "uid", "pet", "given"} : s \in Characters
  /\ \A m \in Numbers : decimal[m] \in Characters /\ IsAlnum(decimal[m])
  /\ \A m \in Numbers : \A n \in Numbers : decimal[m] = decimal[n] => m = n
<1>1. \A m \in Numbers : decimal[m] \in STRING /\ IsAlnum(decimal[m])
  BY IdentityConstants
<1>2. \A m \in Numbers : \A n \in Numbers : decimal[m] = decimal[n] => m = n
  BY IdentityConstants
<1>3. QED
  BY <1>1, <1>2 DEF Characters

\* Different texts have different digests.
LEMMA HashInjective ==
  ASSUME NEW a \in Texts, NEW b \in Texts
  PROVE  /\ hash(a) \in Texts
         /\ hash(a) = hash(b) => a = b
<1>1. <<"#">> \in Texts
  BY Alphabet DEF Texts
<1>2. hash(a) \in Texts
  BY <1>1, ConcatProperties DEF hash, Texts
<1>3. hash(a) = hash(b) => a = b
  BY <1>1, ConcatSimplifications DEF hash, Texts
<1>4. QED
  BY <1>2, <1>3

\* A letter or digit alone is kept.
LEMMA SingleKept ==
  ASSUME NEW c \in Characters, IsAlnum(c)
  PROVE  <<c>> \in Texts /\ Normal(<<c>>) /\ normalize(<<c>>) = <<c>>
<1>1. <<c>> \in Texts /\ Len(<<c>>) = 1 /\ DOMAIN <<c>> = {1} /\ <<c>>[1] = c
  BY DEF Texts
<1>2. Normal(<<c>>)
  BY <1>1, Constants DEF Normal
<1>3. QED
  BY <1>1, <1>2, Alphabet, NormalizeFixed DEF Texts

\* What Long prints is sound, and has the parts that it was printed from.
LEMMA LongSound ==
  ASSUME NEW text \in Texts, NEW salt \in Texts
  PROVE  /\ Sound(Long(Identifier(text, salt)))
         /\ Long(Identifier(text, salt)).name = normalize(text)
         /\ Long(Identifier(text, salt)).salt = salt
<1>1. normalize(text) \in Texts /\ Normal(normalize(text))
  BY Alphabet, NormalizeForm DEF Texts
<1>2. normalize(text) \o salt \in Texts
  BY <1>1, ConcatProperties DEF Texts
<1>3. hash(normalize(text) \o salt) \in Texts
  BY <1>2, HashInjective
<1>4. Long(Identifier(text, salt)) =
        [name |-> normalize(text), salt |-> salt, sum |-> hash(normalize(text) \o salt)]
  BY DEF Long, Identifier
<1>5. QED
  BY <1>1, <1>3, <1>4 DEF Sound, Identifiers

\* What is sound and parsed is printed as it was (identifier.go:31-40, 77-80).
LEMMA ParsedAgain ==
  ASSUME NEW long, Sound(long)
  PROVE  /\ Long(ParseIdentifier(long)) = long
         /\ IsIdentifier(long) <=> long.name # <<>>
<1>1. long.name \in Texts /\ Normal(long.name)
  BY DEF Sound, Identifiers
<1>2. normalize(long.name) = long.name
  BY <1>1, Alphabet, NormalizeFixed DEF Texts
<1>3. Long(ParseIdentifier(long)) =
        [name |-> long.name, salt |-> long.salt, sum |-> hash(long.name \o long.salt)]
  BY <1>2 DEF Long, ParseIdentifier, Identifier
<1>4. long = [name |-> long.name, salt |-> long.salt, sum |-> long.sum]
  BY DEF Sound, Identifiers
<1>5. QED
  BY <1>3, <1>4 DEF Sound, IsIdentifier

LEMMA NoIdParts ==
  /\ NoId \in Identifiers /\ ~IsIdentifier(NoId)
  /\ \A long : Sound(long) => long # NoId
<1>1. NoId \in Identifiers
  BY DEF NoId, Identifiers, Texts
<1>2. ~IsIdentifier(NoId)
  BY DEF NoId, IsIdentifier
<1>3. ASSUME NEW long, Sound(long)
      PROVE  long # NoId
  <2>1. SUFFICES ASSUME long = NoId
                 PROVE  FALSE
    OBVIOUS
  <2>2. <<>> = hash(<<>> \o <<>>)
    BY <1>3, <2>1 DEF Sound, NoId
  <2>3. <<>> \o <<>> = <<>> /\ <<>> \in Texts
    BY ConcatEmptySeq DEF Texts
  <2>4. hash(<<>>) = <<"#">> \o <<>> /\ Len(<<"#">> \o <<>>) = 1 /\ Len(<<>>) = 0
    BY DEF hash
  <2>5. QED
    BY <2>2, <2>3, <2>4
<1>4. QED
  BY <1>1, <1>2, <1>3

LEMMA OfTextParts ==
  ASSUME NEW text \in Texts
  PROVE  /\ Sound(OfText(text))
         /\ OfText(text).name = normalize(text) /\ OfText(text).salt = hash(normalize(text))
         /\ HasAlnum(text) => OfText(text).name # <<>>
<1>1. normalize(text) \in Texts /\ (HasAlnum(text) => normalize(text) # <<>>)
  BY Alphabet, NormalizeForm DEF Texts
<1>2. hash(normalize(text)) \in Texts
  BY <1>1, HashInjective
<1>3. OfText(text) = Long(Identifier(text, hash(normalize(text))))
  BY DEF OfText, NewDeterministicIdentifier
<1>4. QED
  BY <1>1, <1>2, <1>3, LongSound

LEMMA RandomIdParts ==
  ASSUME NEW n \in Numbers
  PROVE  /\ <<"uid", decimal[n]>> \in Texts
         /\ Sound(RandomId(n))
         /\ RandomId(n).name = <<"pet">> /\ RandomId(n).salt = hash(<<"uid", decimal[n]>>)
<1>1. "uid" \in Characters /\ "pet" \in Characters /\ decimal[n] \in Characters
  BY Alphabet
<1>2. <<"uid", decimal[n]>> \in Texts
  BY <1>1 DEF Texts
<1>3. hash(<<"uid", decimal[n]>>) \in Texts
  BY <1>2, HashInjective
<1>4. <<"pet">> \in Texts /\ normalize(<<"pet">>) = <<"pet">>
  <2>1. IsAlnum("pet")
    BY DEF IsAlnum
  <2>2. QED
    BY <1>1, <2>1, SingleKept
<1>5. RandomId(n) = Long(Identifier(<<"pet">>, hash(<<"uid", decimal[n]>>)))
  BY DEF RandomId, NewRandomIdentifier
<1>6. QED
  BY <1>2, <1>3, <1>4, <1>5, LongSound

\* Another number gives another random identifier.
LEMMA RandomIdApart ==
  ASSUME NEW m \in Numbers, NEW n \in Numbers, RandomId(m) = RandomId(n)
  PROVE  m = n
<1>1. <<"uid", decimal[m]>> \in Texts /\ <<"uid", decimal[n]>> \in Texts
      /\ hash(<<"uid", decimal[m]>>) = hash(<<"uid", decimal[n]>>)
  BY RandomIdParts
<1>2. <<"uid", decimal[m]>> = <<"uid", decimal[n]>>
  BY <1>1, HashInjective
<1>3. decimal[m] = decimal[n]
  BY <1>2
<1>4. QED
  BY <1>3, Alphabet

\* What CI said of the runs of Terraform until the one numbered p, and may ever say.
SeedsTo(p) == UNION {Seeds(n) : n \in 0 .. p}
SomeSeeds == SeedsTo(MaxPipelines)

LEMMA SeedsGrow ==
  ASSUME NEW p \in 0 .. MaxPipelines, NEW q \in p .. MaxPipelines
  PROVE  Seeds(p) \subseteq SeedsTo(p) /\ SeedsTo(p) \subseteq SeedsTo(q)
<1>1. p \in 0 .. p /\ \A n \in 0 .. p : n \in 0 .. q
  BY Constants
<1>2. QED
  BY <1>1 DEF SeedsTo

\* It is one character.
LEMMA SeedKept ==
  ASSUME NEW text \in SomeSeeds, text # <<>>
  PROVE  /\ text \in Texts /\ normalize(text) = text
         /\ Len(text) = 1 /\ OfText(text).name = text
<1>1. PICK n \in 0 .. MaxPipelines : text \in Seeds(n)
  BY DEF SomeSeeds, SeedsTo
<1>2. n \in Numbers
  BY Constants DEF Numbers
<1>3. PICK c \in Characters : text = <<c>> /\ IsAlnum(c)
  <2>1. CASE text = <<decimal[n]>>
    <3>1. decimal[n] \in Characters /\ IsAlnum(decimal[n])
      BY <1>2, Alphabet
    <3>2. QED
      BY <2>1, <3>1
  <2>2. CASE \E p \in Triggerers : text = <<p>>
    <3>1. PICK p \in Triggerers : text = <<p>>
      BY <2>2
    <3>2. p \in STRING /\ IsAlnum(p) /\ STRING \subseteq Characters
      BY IdentityConstants DEF Characters
    <3>3. QED
      BY <3>1, <3>2
  <2>3. QED
    BY <1>1, <2>1, <2>2 DEF Seeds
<1>4. text \in Texts /\ normalize(text) = text
  BY <1>3, SingleKept
<1>5. Len(text) = 1
  BY <1>3
<1>6. QED
  BY <1>4, <1>5, OfTextParts

\* What a name or CI gives is no random identifier.
LEMMA OfTextNotRandom ==
  ASSUME NEW text \in Texts, NEW n \in Numbers,
         text \in Names \/ (text \in SomeSeeds /\ text # <<>>)
  PROVE  OfText(text) # RandomId(n)
<1>1. SUFFICES ASSUME OfText(text) = RandomId(n)
               PROVE  FALSE
  OBVIOUS
<1>2. PICK kept \in Texts : kept = normalize(text)
  BY Alphabet, NormalizeForm DEF Texts
<1>3. kept = <<"uid", decimal[n]>>
  <2>1. hash(kept) = hash(<<"uid", decimal[n]>>) /\ <<"uid", decimal[n]>> \in Texts
    BY <1>1, <1>2, OfTextParts, RandomIdParts
  <2>2. QED
    BY <2>1, HashInjective
<1>4. CASE text \in Names
  <2>1. PICK S : S = Characters \ {"uid"}
    OBVIOUS
  <2>2. text \in Seq(S)
    <3>1. \A k \in 1 .. Len(text) : text[k] \in S
      <4>1. text \in Seq(Characters) /\ DOMAIN text = 1 .. Len(text)
        BY DEF Texts
      <4>2. \A k \in 1 .. Len(text) : text[k] \in Characters
        BY <4>1, ElementOfSeq
      <4>3. \A k \in DOMAIN text : text[k] # "uid"
        BY <1>4, IdentityConstants
      <4>4. QED
        BY <2>1, <4>1, <4>2, <4>3
    <3>2. QED
      BY <3>1 DEF Texts
  <2>3. "-" \in S
    BY <2>1, Alphabet
  <2>4. kept \in Seq(S)
    BY <1>2, <2>2, <2>3, NormalizeForm
  <2>5. Len(kept) = 2 /\ kept[1] = "uid"
    BY <1>3
  <2>6. 1 \in 1 .. Len(kept)
    BY <2>5
  <2>7. kept[1] \in S
    BY <2>4, <2>6, ElementOfSeq
  <2>8. QED
    BY <2>1, <2>5, <2>7
<1>5. CASE text \in SomeSeeds /\ text # <<>>
  <2>1. kept = text /\ Len(kept) = 1
    BY <1>2, <1>5, SeedKept
  <2>2. Len(kept) = 2
    BY <1>3
  <2>3. QED
    BY <2>1, <2>2
<1>6. QED
  BY <1>4, <1>5

------------------------------------------------------------------------------
(* The invariant. *)

NameInv == name \in [Tasks -> {Text(text) : text \in Names} \union {Given(LeoId)}]

\* What Terraform's state has was printed from an identifier; if it cannot be parsed,
\* its name being empty, it is what the attribute name gives again.
IdInv ==
  /\ id \in [Tasks -> Identifiers]
  /\ \A t \in Tasks :
       \/ id[t] = NoId
       \/ Sound(id[t]) /\ (id[t].name = <<>> => ~Unnamed(t) /\ id[t] = NameId(t))

Things == [id : Identifiers, by : Tasks \union {"leo"}, seed : SomeSeeds, on : BOOLEAN]

\* The thing has the identifier that whoever made it had then; n counts the applies.
MadeBy(thing, n) ==
  \/ thing.by = "leo" /\ thing.id = LeoId
  \/ thing.by \in Tasks /\ ~Unnamed(thing.by) /\ thing.id = NameId(thing.by)
  \/ /\ thing.by \in Tasks /\ Unnamed(thing.by) /\ thing.seed # <<>>
     /\ thing.id = OfText(thing.seed)
  \/ /\ thing.by \in Tasks /\ Unnamed(thing.by) /\ thing.seed = <<>>
     /\ \E k \in 1 .. n : thing.id = RandomId(k)

ThingInv ==
  /\ cloud \subseteq Things
  /\ \A thing \in cloud : thing.seed \in SeedsTo(pipeline) /\ MadeBy(thing, applies)

\* A random identifier is of one task.
ChanceInv ==
  \A x \in cloud : \A y \in cloud : \A n \in 1 .. applies :
    x.id = RandomId(n) /\ y.id = RandomId(n) /\ x.by \in Tasks /\ y.by \in Tasks
      /\ Unnamed(x.by) /\ Unnamed(y.by) => x.by = y.by

IInv ==
  /\ pipeline \in 0 .. MaxPipelines /\ seed \in Seeds(pipeline) /\ applies \in 0 .. MaxApplies
  /\ NameInv /\ IdInv /\ ThingInv /\ ChanceInv

LEMMA LeoIdIsRandom == LeoId = RandomId(0) /\ 0 \in Numbers
<1>1. 0 \in Numbers
  BY Constants DEF Numbers
<1>2. QED
  BY <1>1 DEF LeoId, RandomId

\* The attribute name is a text, or the identifier that leo create printed.
LEMMA NameIdParts ==
  ASSUME NameInv, NEW t \in Tasks
  PROVE  /\ Sound(NameId(t))
         /\ \/ name[t].text = <<"given">> /\ NameId(t) = LeoId
            \/ name[t].text \in Names /\ NameId(t) = OfText(name[t].text)
<1>1. name[t] \in {Text(text) : text \in Names} \union {Given(LeoId)}
  BY DEF NameInv
<1>2. CASE name[t] = Given(LeoId)
  <2>1. name[t].text = <<"given">> /\ name[t].long = LeoId
    BY <1>2 DEF Given
  <2>2. Sound(LeoId) /\ LeoId.name = <<"pet">>
    BY LeoIdIsRandom, RandomIdParts
  <2>3. IsIdentifier(LeoId) /\ Long(ParseIdentifier(LeoId)) = LeoId
    <3>1. <<"pet">> # <<>>
      OBVIOUS
    <3>2. QED
      BY <2>2, <3>1, ParsedAgain
  <2>4. NameId(t) = LeoId
    BY <2>1, <2>3 DEF NameId, ByName
  <2>5. QED
    BY <2>1, <2>2, <2>4
<1>3. CASE \E text \in Names : name[t] = Text(text)
  <2>1. PICK text \in Names : name[t] = Text(text)
    BY <1>3
  <2>2. name[t].text = text /\ name[t].long = NoId
    BY <2>1 DEF Text
  <2>3. NameId(t) = OfText(text)
    BY <2>2, NoIdParts DEF NameId, ByName, OfText
  <2>4. text \in Texts
    BY Constants
  <2>5. QED
    BY <2>2, <2>3, <2>4, OfTextParts
<1>4. QED
  BY <1>1, <1>2, <1>3

\* The identifier of a task that Terraform does not have.
LEMMA Chosen ==
  ASSUME IInv, NEW t \in Tasks, id[t] = NoId
  PROVE  /\ Sound(Long(Identify(t)))
         /\ ~Unnamed(t) => Long(Identify(t)) = NameId(t)
         /\ Unnamed(t) /\ seed # <<>> => Long(Identify(t)) = OfText(seed)
         /\ Unnamed(t) /\ seed = <<>> => Long(Identify(t)) = RandomId(applies + 1)
         /\ Unnamed(t) => Long(Identify(t)).name # <<>>
<1>1. seed \in SomeSeeds /\ applies + 1 \in Numbers
  <2>1. pipeline \in 0 .. MaxPipelines /\ MaxPipelines \in pipeline .. MaxPipelines
    BY Constants DEF IInv
  <2>2. seed \in SomeSeeds
    BY <2>1, SeedsGrow DEF IInv, SomeSeeds
  <2>3. QED
    BY <2>2, Constants DEF IInv, Numbers
<1>2. Identify(t) = Choose(t)
  BY NoIdParts DEF Identify
<1>3. ~Unnamed(t) => Long(Identify(t)) = NameId(t)
  BY <1>2 DEF Unnamed, Choose, NameId
<1>4. Unnamed(t) /\ seed # <<>> => Long(Identify(t)) = OfText(seed)
  BY <1>2 DEF Unnamed, Choose, ByPipeline, OfText
<1>5. Unnamed(t) /\ seed = <<>> => Long(Identify(t)) = RandomId(applies + 1)
  BY <1>2 DEF Unnamed, Choose, ByChance, RandomId
<1>6. Sound(NameId(t))
  BY NameIdParts DEF IInv
<1>7. seed # <<>> => Sound(OfText(seed)) /\ OfText(seed).name # <<>>
  BY <1>1, SeedKept, OfTextParts
<1>8. Sound(RandomId(applies + 1)) /\ RandomId(applies + 1).name # <<>>
  <2>1. <<"pet">> # <<>>
    OBVIOUS
  <2>2. QED
    BY <1>1, <2>1, RandomIdParts
<1>9. QED
  BY <1>1, <1>3, <1>4, <1>5, <1>6, <1>7, <1>8

\* A task that Terraform has keeps its identifier.
LEMMA Kept ==
  ASSUME IInv, NEW t \in Tasks, id[t] # NoId
  PROVE  Long(Identify(t)) = id[t]
<1>1. Sound(id[t]) /\ (id[t].name = <<>> => ~Unnamed(t) /\ id[t] = NameId(t))
  BY DEF IInv, IdInv
<1>2. CASE id[t].name # <<>>
  BY <1>1, <1>2, ParsedAgain DEF Identify
<1>3. CASE id[t].name = <<>>
  <2>1. ~IsIdentifier(id[t])
    BY <1>1, <1>3, ParsedAgain
  <2>2. Identify(t) = ByName(t)
    BY <1>1, <1>3, <2>1 DEF Identify, Choose, Unnamed
  <2>3. QED
    BY <1>1, <1>3, <2>2 DEF NameId
<1>4. QED
  BY <1>2, <1>3

\* What the attribute says of a task does not change.
LEMMA NameStays ==
  ASSUME NameInv, UNCHANGED name
  PROVE  /\ NameInv'
         /\ \A t \in Tasks : NameId(t)' = NameId(t) /\ Unnamed(t)' = Unnamed(t)
<1>1. NameInv'
  BY DEF NameInv
<1>2. ASSUME NEW t \in Tasks
      PROVE  NameId(t)' = NameId(t) /\ Unnamed(t)' = Unnamed(t)
  BY DEF NameId, ByName, Unnamed
<1>3. QED
  BY <1>1, <1>2

\* A random identifier is of an apply of before.
LEMMA RandomIsOld ==
  ASSUME IInv, NEW thing \in cloud, NEW n \in 1 .. applies + 1,
         thing.id = RandomId(n), thing.by \in Tasks, Unnamed(thing.by)
  PROVE  n \in 1 .. applies
<1>1. thing \in Things /\ MadeBy(thing, applies)
  BY DEF IInv, ThingInv
<1>2. thing.by # "leo" /\ thing.seed \in SomeSeeds
  BY <1>1, Constants DEF Things
<1>3. n \in Numbers /\ \A k \in 1 .. applies : k \in Numbers
  BY <1>2, Constants DEF IInv, Numbers
<1>4. CASE thing.seed # <<>> /\ thing.id = OfText(thing.seed)
  <2>1. thing.seed \in Texts
    BY <1>2, <1>4, SeedKept
  <2>2. QED
    BY <1>2, <1>3, <1>4, <2>1, OfTextNotRandom
<1>5. CASE \E k \in 1 .. applies : thing.id = RandomId(k)
  <2>1. PICK k \in 1 .. applies : thing.id = RandomId(k)
    BY <1>5
  <2>2. k = n
    BY <1>3, <2>1, RandomIdApart
  <2>3. QED
    BY <2>1, <2>2
<1>6. QED
  BY <1>1, <1>2, <1>4, <1>5 DEF MadeBy

\* A thing that was there and is still there, whether it is on or not.
Same(x, y) == x \in Things /\ x.id = y.id /\ x.by = y.by /\ x.seed = y.seed

LEMMA SameMadeBy ==
  ASSUME IInv, UNCHANGED name, applies' \in {applies, applies + 1},
         NEW x, NEW y \in cloud, Same(x, y)
  PROVE  MadeBy(x, applies)'
<1>1. MadeBy(y, applies) /\ applies \in Nat
  BY Constants DEF IInv, ThingInv
<1>2. \A t \in Tasks : NameId(t)' = NameId(t) /\ Unnamed(t)' = Unnamed(t)
  BY NameStays DEF IInv
<1>3. \A k \in 1 .. applies : k \in 1 .. applies'
  BY <1>1
<1>4. QED
  BY <1>1, <1>2, <1>3 DEF MadeBy, Same

\* A step that makes nothing.
LEMMA CloudShrinks ==
  ASSUME IInv, UNCHANGED name, pipeline' \in pipeline .. MaxPipelines,
         applies' \in {applies, applies + 1},
         \A x \in cloud' : \E y \in cloud : Same(x, y)
  PROVE  ThingInv' /\ ChanceInv'
<1>1. \A t \in Tasks : Unnamed(t)' = Unnamed(t)
  BY NameStays DEF IInv
<1>2. cloud' \subseteq Things
  BY DEF Same
<1>3. ASSUME NEW x \in cloud'
      PROVE  x.seed \in SeedsTo(pipeline') /\ MadeBy(x, applies)'
  <2>1. PICK y \in cloud : Same(x, y)
    OBVIOUS
  <2>2. MadeBy(x, applies)'
    BY <2>1, SameMadeBy
  <2>3. y.seed \in SeedsTo(pipeline) /\ x.seed = y.seed
    BY <2>1 DEF IInv, ThingInv, Same
  <2>4. QED
    BY <2>2, <2>3, SeedsGrow DEF IInv
<1>4. ThingInv'
  BY <1>2, <1>3 DEF ThingInv
<1>5. ASSUME NEW x \in cloud', NEW y \in cloud', NEW n \in 1 .. applies',
             x.id = RandomId(n), y.id = RandomId(n), x.by \in Tasks, y.by \in Tasks,
             Unnamed(x.by)', Unnamed(y.by)'
      PROVE  x.by = y.by
  <2>1. PICK a \in cloud : Same(x, a)
    OBVIOUS
  <2>2. PICK b \in cloud : Same(y, b)
    OBVIOUS
  <2>3. n \in 1 .. applies + 1
    BY Constants DEF IInv
  <2>4. Unnamed(a.by) /\ Unnamed(b.by)
    BY <1>1, <1>5, <2>1, <2>2 DEF Same
  <2>5. n \in 1 .. applies
    BY <1>5, <2>1, <2>3, <2>4, RandomIsOld DEF Same
  <2>6. a.id = RandomId(n) /\ b.id = RandomId(n) /\ a.by \in Tasks /\ b.by \in Tasks
    BY <1>5, <2>1, <2>2 DEF Same
  <2>7. a.by = b.by
    BY <2>4, <2>5, <2>6 DEF IInv, ChanceInv
  <2>8. QED
    BY <2>1, <2>2, <2>7 DEF Same
<1>6. ChanceInv'
  BY <1>5 DEF ChanceInv
<1>7. QED
  BY <1>4, <1>6

\* An apply that makes something.
LEMMA CloudGrows ==
  ASSUME IInv, NEW t \in Tasks, UNCHANGED <<name, pipeline, seed>>, id[t] = NoId,
         applies' = applies + 1,
         cloud' = cloud \union {Made(t, Long(Identify(t)))}
  PROVE  ThingInv' /\ ChanceInv'
<1>1. PICK m : m = Made(t, Long(Identify(t)))
  OBVIOUS
<1>2. /\ \A u \in Tasks : NameId(u)' = NameId(u) /\ Unnamed(u)' = Unnamed(u)
      /\ applies \in Nat /\ pipeline' = pipeline /\ seed \in SeedsTo(pipeline) /\ seed \in SomeSeeds
  <2>1. pipeline \in 0 .. MaxPipelines /\ MaxPipelines \in pipeline .. MaxPipelines
    BY Constants DEF IInv
  <2>2. seed \in SeedsTo(pipeline) /\ seed \in SomeSeeds
    BY <2>1, SeedsGrow DEF IInv, SomeSeeds
  <2>3. QED
    BY <2>2, NameStays, Constants DEF IInv
<1>3. m.id = Long(Identify(t)) /\ m.by = t /\ m.seed = seed /\ m.on = TRUE
  BY <1>1 DEF Made
<1>4. m \in Things
  <2>1. Long(Identify(t)) \in Identifiers
    BY Chosen DEF Sound
  <2>2. QED
    BY <1>1, <1>2, <2>1 DEF Made, Things
<1>5. MadeBy(m, applies)'
  <2>1. CASE ~Unnamed(t)
    <3>1. m.id = NameId(t)
      BY <1>3, <2>1, Chosen
    <3>2. QED
      BY <1>2, <1>3, <2>1, <3>1 DEF MadeBy
  <2>2. CASE Unnamed(t) /\ seed # <<>>
    <3>1. m.id = OfText(m.seed)
      BY <1>3, <2>2, Chosen
    <3>2. QED
      BY <1>2, <1>3, <2>2, <3>1 DEF MadeBy
  <2>3. CASE Unnamed(t) /\ seed = <<>>
    <3>1. m.id = RandomId(applies + 1) /\ applies + 1 \in 1 .. applies'
      BY <1>2, <1>3, <2>3, Chosen
    <3>2. QED
      BY <1>2, <1>3, <2>3, <3>1 DEF MadeBy
  <2>4. QED
    BY <1>2, <2>1, <2>2, <2>3
<1>6. cloud' \subseteq Things
  BY <1>1, <1>4 DEF IInv, ThingInv
<1>7. ASSUME NEW x \in cloud'
      PROVE  x.seed \in SeedsTo(pipeline') /\ MadeBy(x, applies)'
  <2>1. CASE x = m
    BY <1>2, <1>3, <1>5, <2>1
  <2>2. CASE x \in cloud
    <3>1. Same(x, x) /\ x.seed \in SeedsTo(pipeline)
      BY <2>2 DEF IInv, ThingInv, Same
    <3>2. MadeBy(x, applies)'
      BY <2>2, <3>1, SameMadeBy
    <3>3. QED
      BY <1>2, <3>1, <3>2
  <2>3. QED
    BY <1>1, <2>1, <2>2
<1>8. ThingInv'
  BY <1>6, <1>7 DEF ThingInv
<1>9. ASSUME NEW n \in 1 .. applies', m.id = RandomId(n), Unnamed(t)
      PROVE  n = applies + 1
  <2>1. n \in Numbers /\ applies + 1 \in Numbers
    BY <1>2, Constants DEF IInv, Numbers
  <2>2. CASE seed # <<>>
    <3>1. m.id = OfText(seed) /\ seed \in Texts
      BY <1>2, <1>3, <1>9, <2>2, Chosen, SeedKept
    <3>2. QED
      BY <1>2, <1>9, <2>1, <2>2, <3>1, OfTextNotRandom
  <2>3. CASE seed = <<>>
    <3>1. m.id = RandomId(applies + 1)
      BY <1>3, <1>9, <2>3, Chosen
    <3>2. QED
      BY <1>9, <2>1, <3>1, RandomIdApart
  <2>4. QED
    BY <1>2, <2>2, <2>3
<1>10. ASSUME NEW y \in cloud, NEW n \in 1 .. applies', y.id = RandomId(n),
              y.by \in Tasks, Unnamed(y.by)
       PROVE  n \in 1 .. applies
  <2>1. n \in 1 .. applies + 1
    OBVIOUS
  <2>2. QED
    BY <1>10, <2>1, RandomIsOld
<1>11. ASSUME NEW x \in cloud', NEW y \in cloud', NEW n \in 1 .. applies',
              x.id = RandomId(n), y.id = RandomId(n), x.by \in Tasks, y.by \in Tasks,
              Unnamed(x.by), Unnamed(y.by)
       PROVE  x.by = y.by
  <2>1. x \in cloud => n \in 1 .. applies
    BY <1>10, <1>11
  <2>2. y \in cloud => n \in 1 .. applies
    BY <1>10, <1>11
  <2>3. x = m => n \notin 1 .. applies
    BY <1>2, <1>3, <1>9, <1>11
  <2>4. y = m => n \notin 1 .. applies
    BY <1>2, <1>3, <1>9, <1>11
  <2>5. (x \in cloud \/ x = m) /\ (y \in cloud \/ y = m)
    BY <1>1
  <2>6. CASE x \in cloud /\ y \in cloud
    BY <1>11, <2>1, <2>6 DEF IInv, ChanceInv
  <2>7. QED
    BY <2>1, <2>2, <2>3, <2>4, <2>5, <2>6
<1>12. ChanceInv'
  <2>1. ASSUME NEW x \in cloud', NEW y \in cloud', NEW n \in 1 .. applies',
               x.id = RandomId(n), y.id = RandomId(n), x.by \in Tasks, y.by \in Tasks,
               Unnamed(x.by)', Unnamed(y.by)'
        PROVE  x.by = y.by
    <3>1. Unnamed(x.by) /\ Unnamed(y.by)
      BY <1>2, <2>1
    <3>2. QED
      BY <1>11, <2>1, <3>1
  <2>2. QED
    BY <2>1 DEF ChanceInv
<1>13. QED
  BY <1>8, <1>12

------------------------------------------------------------------------------
(* One lemma per action. *)

LEMMA InitInvariant == Init => IInv
<1> SUFFICES ASSUME Init
             PROVE  IInv
  OBVIOUS
<1>1. pipeline \in 0 .. MaxPipelines /\ seed \in Seeds(pipeline)
      /\ applies \in 0 .. MaxApplies /\ seed \in SeedsTo(pipeline) /\ seed \in SomeSeeds
  <2>1. pipeline = 0 /\ seed \in Seeds(0) /\ applies = 0
    BY DEF Init
  <2>2. 0 \in 0 .. MaxPipelines /\ MaxPipelines \in 0 .. MaxPipelines /\ 0 \in 0 .. MaxApplies
    BY Constants
  <2>3. QED
    BY <2>1, <2>2, SeedsGrow DEF SomeSeeds
<1>2. NameInv
  BY DEF Init, NameInv
<1>3. IdInv
  BY NoIdParts DEF Init, IdInv
<1>4. ASSUME NEW thing \in cloud
      PROVE  /\ thing \in Things /\ thing.seed \in SeedsTo(pipeline) /\ MadeBy(thing, applies)
             /\ thing.by = "leo"
  <2>1. thing = Made("leo", LeoId)
    BY DEF Init
  <2>2. LeoId \in Identifiers
    BY LeoIdIsRandom, RandomIdParts DEF Sound
  <2>3. QED
    BY <1>1, <2>1, <2>2 DEF Made, Things, MadeBy
<1>5. ThingInv /\ ChanceInv
  BY <1>4, Constants DEF ThingInv, ChanceInv
<1>6. QED
  BY <1>1, <1>2, <1>3, <1>5 DEF IInv

\* What Terraform's state has of the other tasks, and of this one if it is sound.
LEMMA IdStays ==
  ASSUME IInv, UNCHANGED name, id' \in [Tasks -> Identifiers],
         \A u \in Tasks : \/ id'[u] \in {NoId, id[u]}
                          \/ /\ Sound(id'[u])
                             /\ id'[u].name = <<>> => ~Unnamed(u) /\ id'[u] = NameId(u)
  PROVE  IdInv'
<1>1. \A u \in Tasks : NameId(u)' = NameId(u) /\ Unnamed(u)' = Unnamed(u)
  BY NameStays DEF IInv
<1>2. ASSUME NEW u \in Tasks
      PROVE  \/ id'[u] = NoId
             \/ Sound(id'[u]) /\ (id'[u].name = <<>> => ~Unnamed(u) /\ id'[u] = NameId(u))
  BY DEF IInv, IdInv
<1>3. QED
  BY <1>1, <1>2 DEF IdInv

LEMMA ApplyInvariant ==
  ASSUME IInv, NEW t \in Tasks, Apply(t)
  PROVE  IInv'
<1>1. PICK long : long = Long(Identify(t))
  OBVIOUS
<1>2. /\ id[t] = NoId /\ applies < MaxApplies /\ applies' = applies + 1
      /\ UNCHANGED <<name, pipeline, seed>>
  BY DEF Apply
<1>3. applies' \in 0 .. MaxApplies /\ pipeline' \in 0 .. MaxPipelines
      /\ pipeline' \in pipeline .. MaxPipelines
  BY <1>2, Constants DEF IInv
<1>4. NameInv'
  BY <1>2, NameStays DEF IInv
<1>5. Sound(long) /\ (long.name = <<>> => ~Unnamed(t) /\ long = NameId(t))
  BY <1>1, <1>2, Chosen
<1>6. IdInv'
  <2>1. id' = [id EXCEPT ![t] = long] \/ id' = id
    BY <1>1 DEF Apply
  <2>2. id \in [Tasks -> Identifiers] /\ long \in Identifiers
    BY <1>5 DEF IInv, IdInv, Sound
  <2>3. id' \in [Tasks -> Identifiers] /\ \A u \in Tasks : id'[u] = id[u] \/ (u = t /\ id'[u] = long)
    BY <2>1, <2>2
  <2>4. QED
    BY <1>2, <1>5, <2>3, IdStays
<1>7. ThingInv' /\ ChanceInv'
  <2>1. CASE cloud' = cloud \union {Made(t, long)}
    BY <1>1, <1>2, <2>1, CloudGrows
  <2>2. CASE cloud' = Without(long)
    <3>1. \A x \in cloud' : x \in cloud /\ Same(x, x)
      BY <2>2 DEF IInv, ThingInv, Without, Same
    <3>2. QED
      BY <1>2, <1>3, <3>1, CloudShrinks
  <2>3. QED
    BY <1>1, <2>1, <2>2 DEF Apply
<1>8. seed' \in Seeds(pipeline')
  BY <1>2 DEF IInv
<1>9. QED
  BY <1>3, <1>4, <1>6, <1>7, <1>8 DEF IInv

LEMMA RefreshInvariant ==
  ASSUME IInv, NEW t \in Tasks, Refresh(t)
  PROVE  IInv'
<1>1. id' = id /\ UNCHANGED <<name, pipeline, seed, cloud, applies>>
  <2>1. Long(Identify(t)) = id[t]
    BY Kept DEF Refresh
  <2>2. id \in [Tasks -> Identifiers]
    BY DEF IInv, IdInv
  <2>3. QED
    BY <2>1, <2>2 DEF Refresh
<1>2. NameInv'
  BY <1>1, NameStays DEF IInv
<1>3. IdInv'
  BY <1>1, IdStays DEF IInv, IdInv
<1>4. \A x \in cloud' : x \in cloud /\ Same(x, x)
  BY <1>1 DEF IInv, ThingInv, Same
<1>5. pipeline' \in pipeline .. MaxPipelines
  BY <1>1, Constants DEF IInv
<1>6. QED
  BY <1>1, <1>2, <1>3, <1>4, <1>5, CloudShrinks DEF IInv

LEMMA DestroyInvariant ==
  ASSUME IInv, NEW t \in Tasks, Destroy(t)
  PROVE  IInv'
<1>1. /\ id' = [id EXCEPT ![t] = NoId] /\ UNCHANGED <<name, pipeline, seed, applies>>
      /\ cloud' \subseteq cloud
  BY DEF Destroy, Without
<1>2. NameInv'
  BY <1>1, NameStays DEF IInv
<1>3. IdInv'
  <2>1. id \in [Tasks -> Identifiers] /\ NoId \in Identifiers
    BY NoIdParts DEF IInv, IdInv
  <2>2. id' \in [Tasks -> Identifiers] /\ \A u \in Tasks : id'[u] \in {NoId, id[u]}
    BY <1>1, <2>1
  <2>3. QED
    BY <1>1, <2>2, IdStays
<1>4. \A x \in cloud' : x \in cloud /\ Same(x, x)
  BY <1>1 DEF IInv, ThingInv, Same
<1>5. pipeline' \in pipeline .. MaxPipelines
  BY <1>1, Constants DEF IInv
<1>6. QED
  BY <1>1, <1>2, <1>3, <1>4, <1>5, CloudShrinks DEF IInv

LEMMA LeoInvariant ==
  ASSUME IInv, NEW thing \in cloud, LeoStop(thing) \/ LeoDelete(thing)
  PROVE  IInv'
<1>1. /\ UNCHANGED <<name, pipeline, seed, id, applies>>
      /\ \A x \in cloud' : \E y \in cloud : x = y \/ x = [y EXCEPT !.on = FALSE]
  BY DEF LeoStop, LeoDelete, Without
<1>2. NameInv'
  BY <1>1, NameStays DEF IInv
<1>3. IdInv'
  BY <1>1, IdStays DEF IInv, IdInv
<1>4. ASSUME NEW x \in cloud'
      PROVE  \E y \in cloud : Same(x, y)
  <2>1. PICK y \in cloud : x = y \/ x = [y EXCEPT !.on = FALSE]
    BY <1>1
  <2>2. y \in Things
    BY DEF IInv, ThingInv
  <2>3. Same(x, y)
    BY <2>1, <2>2 DEF Same, Things
  <2>4. QED
    BY <2>3
<1>5. pipeline' \in pipeline .. MaxPipelines
  BY <1>1, Constants DEF IInv
<1>6. QED
  BY <1>1, <1>2, <1>3, <1>4, <1>5, CloudShrinks DEF IInv

LEMMA NextPipelineInvariant ==
  ASSUME IInv, NextPipeline
  PROVE  IInv'
<1>1. /\ UNCHANGED <<name, id, cloud, applies>>
      /\ pipeline' \in 0 .. MaxPipelines /\ pipeline' \in pipeline .. MaxPipelines
      /\ seed' \in Seeds(pipeline')
  BY Constants DEF IInv, NextPipeline
<1>2. NameInv'
  BY <1>1, NameStays DEF IInv
<1>3. IdInv'
  BY <1>1, IdStays DEF IInv, IdInv
<1>4. \A x \in cloud' : x \in cloud /\ Same(x, x)
  BY <1>1 DEF IInv, ThingInv, Same
<1>5. QED
  BY <1>1, <1>2, <1>3, <1>4, CloudShrinks DEF IInv

LEMMA StutterInvariant ==
  ASSUME IInv, UNCHANGED vars
  PROVE  IInv'
<1>1. UNCHANGED <<name, pipeline, seed, id, cloud, applies>>
  BY DEF vars
<1>2. NameInv'
  BY <1>1, NameStays DEF IInv
<1>3. IdInv'
  BY <1>1, IdStays DEF IInv, IdInv
<1>4. \A x \in cloud' : x \in cloud /\ Same(x, x)
  BY <1>1 DEF IInv, ThingInv, Same
<1>5. pipeline' \in pipeline .. MaxPipelines
  BY <1>1, Constants DEF IInv
<1>6. QED
  BY <1>1, <1>2, <1>3, <1>4, <1>5, CloudShrinks DEF IInv

THEOREM InductiveInvariant == Spec => []IInv
<1>1. Init => IInv
  BY InitInvariant
<1>2. IInv /\ [Next]_vars => IInv'
  <2> SUFFICES ASSUME IInv, [Next]_vars
               PROVE  IInv'
    OBVIOUS
  <2>1. ASSUME NEW t \in Tasks, Apply(t)
        PROVE  IInv'
    BY <2>1, ApplyInvariant
  <2>2. ASSUME NEW t \in Tasks, Refresh(t)
        PROVE  IInv'
    BY <2>2, RefreshInvariant
  <2>3. ASSUME NEW t \in Tasks, Destroy(t)
        PROVE  IInv'
    BY <2>3, DestroyInvariant
  <2>4. ASSUME NEW thing \in cloud, LeoStop(thing) \/ LeoDelete(thing)
        PROVE  IInv'
    BY <2>4, LeoInvariant
  <2>5. CASE NextPipeline
    BY <2>5, NextPipelineInvariant
  <2>6. CASE UNCHANGED vars
    BY <2>6, StutterInvariant
  <2>7. QED
    BY <2>1, <2>2, <2>3, <2>4, <2>5, <2>6 DEF Next
<1>3. QED
  BY <1>1, <1>2, PTL DEF Spec

------------------------------------------------------------------------------
(* Properties. *)

LEMMA TypesHold == IInv => TypeOK
<1> SUFFICES ASSUME IInv
             PROVE  TypeOK
  OBVIOUS
<1>1. ASSUME NEW long, Sound(long)
      PROVE  WellFormed(long)
  BY <1>1 DEF Sound, Normal, WellFormed
<1>2. \A t \in Tasks : id[t] = NoId \/ WellFormed(id[t])
  BY <1>1 DEF IInv, IdInv
<1>3. ASSUME NEW thing \in cloud
      PROVE  /\ WellFormed(thing.id) /\ thing.by \in Tasks \union {"leo"}
             /\ thing.on \in BOOLEAN /\ thing.seed \in SeedsTo(pipeline)
  <2>1. thing \in Things /\ thing.seed \in SeedsTo(pipeline) /\ MadeBy(thing, applies)
    BY DEF IInv, ThingInv
  <2>2. thing.seed \in SomeSeeds /\ \A n \in 1 .. applies : n \in Numbers
    BY <2>1, Constants DEF IInv, Things, Numbers
  <2>3. Sound(LeoId) /\ (thing.by \in Tasks => Sound(NameId(thing.by)))
    BY LeoIdIsRandom, RandomIdParts, NameIdParts DEF IInv
  <2>4. /\ thing.seed # <<>> => Sound(OfText(thing.seed))
        /\ \A n \in 1 .. applies : Sound(RandomId(n))
    BY <2>2, SeedKept, OfTextParts, RandomIdParts
  <2>5. Sound(thing.id)
    BY <2>1, <2>3, <2>4 DEF MadeBy
  <2>6. QED
    BY <1>1, <2>1, <2>5, Constants DEF IInv, Things
<1>4. QED
  BY <1>2, <1>3 DEF IInv, TypeOK, SeedsTo

\* What is kept in Terraform's state and in the cloud has the form of an identifier
\* (identifier.go:103-115).
THEOREM TypeCorrect == Spec => []TypeOK
BY InductiveInvariant, TypesHold, PTL

\* A task that Terraform has keeps its identifier (resource_task.go:431).
THEOREM KeepsIdentifierHolds == Spec => []KeepsIdentifier
<1>1. IInv => KeepsIdentifier
  BY Kept DEF KeepsIdentifier
<1>2. QED
  BY <1>1, InductiveInvariant, PTL

\* The next apply finds what an apply that died left (resource_task.go:433-447).
THEOREM LeftoversFoundHolds == Spec => []LeftoversFound
<1>1. ASSUME IInv, NEW thing \in cloud, NEW t \in Tasks, thing.by = t, id[t] = NoId,
             Unnamed(t) => seed # <<>> /\ thing.seed = seed
      PROVE  thing.id = Long(Identify(t))
  <2>1. MadeBy(thing, applies) /\ t # "leo"
    BY <1>1, Constants DEF IInv, ThingInv
  <2>2. CASE ~Unnamed(t)
    <3>1. thing.id = NameId(t)
      BY <1>1, <2>1, <2>2 DEF MadeBy
    <3>2. QED
      BY <1>1, <2>2, <3>1, Chosen
  <2>3. CASE Unnamed(t)
    <3>1. seed # <<>> /\ thing.seed = seed
      BY <1>1, <2>3
    <3>2. thing.id = OfText(seed)
      BY <1>1, <2>1, <2>3, <3>1 DEF MadeBy
    <3>3. QED
      BY <1>1, <2>3, <3>1, <3>2, Chosen
  <2>4. QED
    BY <2>2, <2>3
<1>2. IInv => LeftoversFound
  BY <1>1 DEF LeftoversFound
<1>3. QED
  BY <1>2, InductiveInvariant, PTL

\* What has no name, or one with a letter or a digit, can be stopped and deleted
\* (identifier.go:31-40).
THEOREM IsReachableHolds == Spec => []IsReachable
<1>1. ASSUME IInv, NEW thing \in cloud,
             \A t \in Tasks :
               thing.by = t => Unnamed(t) \/ \E k \in DOMAIN name[t].text : IsAlnum(name[t].text[k])
      PROVE  IsIdentifier(thing.id) /\ Long(ParseIdentifier(thing.id)) = thing.id
  <2>1. thing \in Things /\ MadeBy(thing, applies)
    BY <1>1 DEF IInv, ThingInv
  <2>2. thing.seed \in SomeSeeds /\ \A n \in 1 .. applies : n \in Numbers
    BY <1>1, <2>1, Constants DEF IInv, Things, Numbers
  <2>3. <<"pet">> # <<>>
    OBVIOUS
  <2>4. \A n \in Numbers : Sound(RandomId(n)) /\ RandomId(n).name # <<>>
    BY <2>3, RandomIdParts
  <2>5. Sound(thing.id) /\ thing.id.name # <<>>
    <3>1. CASE thing.by = "leo" /\ thing.id = LeoId
      BY <2>4, <3>1, LeoIdIsRandom
    <3>2. CASE thing.by \in Tasks /\ ~Unnamed(thing.by) /\ thing.id = NameId(thing.by)
      <4>1. PICK text : text = name[thing.by].text
        OBVIOUS
      <4>2. CASE text = <<"given">> /\ NameId(thing.by) = LeoId
        BY <2>4, <3>2, <4>2, LeoIdIsRandom
      <4>3. CASE text \in Names /\ NameId(thing.by) = OfText(text)
        <5>1. text \in Texts /\ DOMAIN text = 1 .. Len(text)
          BY <4>3, Constants, LenProperties DEF Texts
        <5>2. HasAlnum(text)
          BY <1>1, <3>2, <4>1, <5>1 DEF HasAlnum
        <5>3. QED
          BY <3>2, <4>3, <5>1, <5>2, OfTextParts
      <4>4. QED
        BY <1>1, <3>2, <4>1, <4>2, <4>3, NameIdParts DEF IInv
    <3>3. CASE thing.seed # <<>> /\ thing.id = OfText(thing.seed)
      BY <2>2, <3>3, SeedKept, OfTextParts
    <3>4. CASE \E n \in 1 .. applies : thing.id = RandomId(n)
      BY <2>2, <2>4, <3>4
    <3>5. QED
      BY <2>1, <3>1, <3>2, <3>3, <3>4 DEF MadeBy
  <2>6. QED
    BY <2>5, ParsedAgain
<1>2. IInv => IsReachable
  BY <1>1 DEF IsReachable
<1>3. QED
  BY <1>2, InductiveInvariant, PTL

\* What two tasks have names for.
LEMMA SharedByTwoNames ==
  ASSUME IInv, NEW t \in Tasks, NEW u \in Tasks, ~Unnamed(t), ~Unnamed(u),
         NameId(t) = NameId(u)
  PROVE  Alike(t, u)
<1>1. NameInv
  BY DEF IInv
<1>2. CASE NameId(t) = LeoId
  <2>1. ASSUME NEW v \in Tasks, NameId(v) = LeoId
        PROVE  name[v].text = <<"given">>
    <3>1. CASE name[v].text \in Names /\ NameId(v) = OfText(name[v].text)
      BY <2>1, <3>1, Constants, LeoIdIsRandom, OfTextNotRandom
    <3>2. QED
      BY <1>1, <3>1, NameIdParts
  <2>2. name[t].text = name[u].text
    BY <1>2, <2>1
  <2>3. QED
    BY <2>2 DEF Alike
<1>3. CASE NameId(t) # LeoId
  <2>1. /\ name[t].text \in Names /\ NameId(t) = OfText(name[t].text)
        /\ name[u].text \in Names /\ NameId(u) = OfText(name[u].text)
    BY <1>1, <1>3, NameIdParts
  <2>2. normalize(name[t].text) = normalize(name[u].text)
    <3>1. name[t].text \in Texts /\ name[u].text \in Texts
      BY <2>1, Constants
    <3>2. /\ OfText(name[t].text).name = normalize(name[t].text)
          /\ OfText(name[u].text).name = normalize(name[u].text)
      BY <3>1, OfTextParts
    <3>3. QED
      BY <2>1, <3>2
  <2>3. QED
    BY <2>2 DEF Alike
<1>4. QED
  BY <1>2, <1>3

\* What a task without a name made, and one with a name too.
LEMMA SharedBySeed ==
  ASSUME IInv, NEW x \in cloud, NEW y \in cloud, x.id = y.id,
         x.by \in Tasks, y.by \in Tasks, Unnamed(x.by), ~Unnamed(y.by)
  PROVE  IsSeed(y.by, x)
<1>1. x \in Things /\ MadeBy(x, applies) /\ MadeBy(y, applies) /\ x.by # "leo" /\ y.by # "leo"
  BY Constants DEF IInv, ThingInv
<1>2. x.seed \in SomeSeeds /\ \A n \in 1 .. applies : n \in Numbers
  BY <1>1, Constants DEF IInv, Things, Numbers
<1>3. PICK text : text = name[y.by].text
  OBVIOUS
<1>4. y.id = NameId(y.by)
  BY <1>1 DEF MadeBy
<1>5. \/ y.id = RandomId(0)
      \/ text \in Names /\ text \in Texts /\ y.id = OfText(text)
  BY <1>3, <1>4, NameIdParts, LeoIdIsRandom, Constants DEF IInv
<1>6. CASE \E n \in 1 .. applies : x.id = RandomId(n)
  <2>1. PICK n \in 1 .. applies : x.id = RandomId(n)
    BY <1>6
  <2>2. n \in Numbers /\ 0 \in Numbers /\ n # 0
    BY <1>2, LeoIdIsRandom
  <2>3. y.id # RandomId(0)
    BY <2>1, <2>2, RandomIdApart
  <2>4. QED
    BY <1>5, <2>1, <2>2, <2>3, OfTextNotRandom
<1>7. CASE x.seed # <<>> /\ x.id = OfText(x.seed)
  <2>1. x.seed \in Texts /\ OfText(x.seed).name = x.seed
    BY <1>2, <1>7, SeedKept
  <2>2. y.id # RandomId(0)
    BY <1>2, <1>7, <2>1, LeoIdIsRandom, OfTextNotRandom
  <2>3. text \in Texts /\ OfText(text) = OfText(x.seed)
    BY <1>5, <1>7, <2>2
  <2>4. normalize(text) = x.seed
    BY <2>1, <2>3, OfTextParts
  <2>5. QED
    BY <1>3, <1>7, <2>4 DEF IsSeed
<1>8. QED
  BY <1>1, <1>6, <1>7 DEF MadeBy

\* What two tasks without a name made.
LEMMA SharedUnnamed ==
  ASSUME IInv, NEW x \in cloud, NEW y \in cloud, x.id = y.id, x.by # y.by,
         x.by \in Tasks, y.by \in Tasks, Unnamed(x.by), Unnamed(y.by)
  PROVE  x.seed = y.seed /\ x.seed # <<>>
<1>1. /\ x \in Things /\ MadeBy(x, applies) /\ x.by # "leo"
      /\ y \in Things /\ MadeBy(y, applies) /\ y.by # "leo"
  BY Constants DEF IInv, ThingInv
<1>2. x.seed \in SomeSeeds /\ y.seed \in SomeSeeds
  BY <1>1 DEF Things
<1>3. ASSUME NEW n \in 1 .. applies, x.id = RandomId(n)
      PROVE  FALSE
  BY <1>3 DEF IInv, ChanceInv
<1>4. x.seed # <<>> /\ x.id = OfText(x.seed)
  BY <1>1, <1>3 DEF MadeBy
<1>5. y.seed # <<>> /\ y.id = OfText(y.seed)
  BY <1>1, <1>3 DEF MadeBy
<1>6. OfText(x.seed).name = x.seed /\ OfText(y.seed).name = y.seed
  BY <1>2, <1>4, <1>5, SeedKept
<1>7. QED
  BY <1>4, <1>5, <1>6

\* Tasks have things in common only by their names, or by what CI says.
THEOREM SharedByNameHolds == Spec => []SharedByName
<1>1. ASSUME IInv, NEW x \in cloud, NEW y \in cloud, x.id = y.id, x.by # y.by,
             "leo" \notin {x.by, y.by}
      PROVE  \/ Alike(x.by, y.by)
             \/ Unnamed(x.by) /\ Unnamed(y.by) /\ x.seed = y.seed /\ x.seed # <<>>
             \/ Unnamed(x.by) /\ IsSeed(y.by, x)
             \/ Unnamed(y.by) /\ IsSeed(x.by, y)
  <2>1. x.by \in Tasks /\ y.by \in Tasks /\ MadeBy(x, applies) /\ MadeBy(y, applies)
    BY <1>1 DEF IInv, ThingInv, Things
  <2>2. CASE ~Unnamed(x.by) /\ ~Unnamed(y.by)
    <3>1. x.id = NameId(x.by) /\ y.id = NameId(y.by)
      BY <1>1, <2>1, <2>2 DEF MadeBy
    <3>2. QED
      BY <1>1, <2>1, <2>2, <3>1, SharedByTwoNames
  <2>3. CASE Unnamed(x.by) /\ ~Unnamed(y.by)
    BY <1>1, <2>1, <2>3, SharedBySeed
  <2>4. CASE ~Unnamed(x.by) /\ Unnamed(y.by)
    BY <1>1, <2>1, <2>4, SharedBySeed
  <2>5. CASE Unnamed(x.by) /\ Unnamed(y.by)
    BY <1>1, <2>1, <2>5, SharedUnnamed
  <2>6. QED
    BY <2>2, <2>3, <2>4, <2>5
<1>2. IInv => SharedByName
  BY <1>1 DEF SharedByName
<1>3. QED
  BY <1>2, InductiveInvariant, PTL
==============================================================================
