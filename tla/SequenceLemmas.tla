--------------------------- MODULE SequenceLemmas ---------------------------
(***************************************************************************)
(* Induction over the naturals in a form without operator parameters, and  *)
(* with it what FlattenSeq computes: the recursion behind it has a         *)
(* solution, and the pieces lie in the result one behind the other.        *)
(***************************************************************************)
EXTENDS Integers, SequencesExt, SequenceTheorems,
        WellFoundedInduction, TLAPS

\* A set of naturals has a least member.
LEMMA LeastExists ==
    ASSUME NEW T \in SUBSET Nat, T # {}
    PROVE  \E x \in T : \A y \in T : x <= y
<1> DEFINE R == OpToRel(<, Nat)
<1>1. IsWellFoundedOn(R, Nat)
  BY NatLessThanWellFounded
<1>2. PICK x \in T : \A y \in T : <<y, x>> \notin R
  <2> HIDE DEF R
  <2> QED
    BY <1>1, WFMin
<1>3. \A y \in T : ~(y < x)
  BY <1>2 DEF OpToRel
<1> QED
  BY <1>3

\* A set that holds 0 and with each natural its successor holds every natural.
LEMMA NatSetInduction ==
    ASSUME NEW S, 0 \in S, \A n \in Nat : n \in S => n + 1 \in S
    PROVE  \A n \in Nat : n \in S
<1> DEFINE T == Nat \ S
<1> SUFFICES ASSUME T # {} PROVE FALSE
  OBVIOUS
<1>1. PICK x \in T : \A y \in T : x <= y
  <2>1. T \in SUBSET Nat
    OBVIOUS
  <2> HIDE DEF T
  <2> QED
    BY <2>1, LeastExists
<1>2. x \in Nat /\ x # 0
  OBVIOUS
<1>3. x - 1 \in Nat /\ ~(x <= x - 1) /\ (x - 1) + 1 = x
  BY <1>2
<1>4. x - 1 \in S
  BY <1>1, <1>3
<1> QED
  BY <1>3, <1>4

\* The same over an interval.
LEMMA IntervalInduction ==
    ASSUME NEW n \in Nat, NEW S, 1 \in S, \A i \in 1..(n - 1) : i \in S => i + 1 \in S
    PROVE  \A i \in 1..n : i \in S
<1> DEFINE M == {m \in Nat : m < n => m + 1 \in S}
<1>1. 0 \in M
  OBVIOUS
<1>2. ASSUME NEW m \in Nat, m \in M
      PROVE  m + 1 \in M
  <2> SUFFICES ASSUME m + 1 < n
               PROVE  (m + 1) + 1 \in S
    OBVIOUS
  <2>1. m + 1 \in S /\ m + 1 \in 1..(n - 1)
    BY <1>2
  <2> QED
    BY <2>1
<1>3. \A m \in Nat : m \in M
  <2> HIDE DEF M
  <2> QED
    BY <1>1, <1>2, NatSetInduction
<1> SUFFICES ASSUME NEW i \in 1..n
             PROVE  i \in S
  OBVIOUS
<1>4. i - 1 \in Nat /\ i - 1 < n /\ (i - 1) + 1 = i
  OBVIOUS
<1>5. i - 1 \in M
  <2> HIDE DEF M
  <2> QED
    BY <1>3, <1>4
<1> QED
  BY <1>4, <1>5

\* f is computed from its first value by steps.
Iterates(f, n, first, step) ==
    \A i \in 1..n : f[i] = IF i = 1 THEN first ELSE step[<<i, f[i - 1]>>]

\* A recursion over an interval has a solution.
LEMMA IterationExists ==
    ASSUME NEW T, NEW n \in Nat, NEW first \in T, NEW step \in [(1..n) \X T -> T]
    PROVE  \E f \in [1..n -> T] : Iterates(f, n, first, step)
<1> USE DEF Iterates
<1> DEFINE Upto(f, m) == \A i \in 1..m : f[i] = IF i = 1 THEN first ELSE step[<<i, f[i - 1]>>]
           Solved(m) == \E f \in [1..m -> T] : Upto(f, m)
           M == {m \in Nat : Solved(m)}
<1>1. CASE n = 0
  <2>1. [i \in 1..n |-> first] \in [1..n -> T]
    OBVIOUS
  <2> QED
    BY <1>1, <2>1
<1>2. CASE n # 0
  <2>1. Solved(1)
    <3> DEFINE f == [i \in 1..1 |-> first]
    <3>1. f \in [1..1 -> T] /\ \A i \in 1..1 : f[i] = first /\ i = 1
      OBVIOUS
    <3> HIDE DEF f
    <3> QED
      BY <3>1
  <2>2. ASSUME NEW m \in 1..(n - 1), Solved(m)
        PROVE  Solved(m + 1)
    <3>1. PICK f \in [1..m -> T] : Upto(f, m)
      BY <2>2
    <3> DEFINE last == step[<<m + 1, f[m]>>]
               g == [i \in 1..(m + 1) |-> IF i = m + 1 THEN last ELSE f[i]]
    <3>2. last \in T
      OBVIOUS
    <3>3. g \in [1..(m + 1) -> T]
      BY <3>2
    <3>4. \A i \in 1..m : g[i] = f[i]
      OBVIOUS
    <3>5. g[m + 1] = step[<<m + 1, g[m]>>]
      <4>1. g[m + 1] = last /\ g[m] = f[m]
        BY <3>4
      <4> HIDE DEF g
      <4> QED
        BY <4>1
    <3>6. Upto(g, m + 1)
      <4> HIDE DEF g, last
      <4> SUFFICES ASSUME NEW i \in 1..(m + 1)
                   PROVE  g[i] = IF i = 1 THEN first ELSE step[<<i, g[i - 1]>>]
        OBVIOUS
      <4>1. CASE i = m + 1
        BY <3>5, <4>1
      <4>2. CASE i \in 1..m
        <5>1. i = 1 \/ i - 1 \in 1..m
          BY <4>2
        <5>2. g[i] = f[i] /\ (i # 1 => g[i - 1] = f[i - 1])
          BY <3>4, <4>2, <5>1
        <5>3. f[i] = IF i = 1 THEN first ELSE step[<<i, f[i - 1]>>]
          BY <3>1, <4>2
        <5> QED
          BY <5>2, <5>3
      <4> QED
        BY <4>1, <4>2
    <3> QED
      BY <3>3, <3>6
  <2>3. \A m \in 1..n : m \in M
    <3>1. 1 \in M /\ \A m \in 1..(n - 1) : m \in M => m + 1 \in M
      <4> HIDE DEF Solved
      <4> QED
        BY <2>1, <2>2
    <3> HIDE DEF M
    <3> QED
      BY <3>1, IntervalInduction
  <2>4. Solved(n)
    <3> HIDE DEF Solved
    <3> QED
      BY <1>2, <2>3
  <2> QED
    BY <2>4
<1> QED
  BY <1>1, <1>2

-----------------------------------------------------------------------------
(***************************************************************************)
(* What FlattenSeq computes.                                               *)
(***************************************************************************)

\* f holds what the first i pieces give, for every i.
Flattens(f, seqs) ==
    /\ f[1] = seqs[1]
    /\ \A i \in 2..Len(seqs) : f[i] = f[i - 1] \o seqs[i]

\* Sequence s begins with r.
Begins(s, r) == Len(r) <= Len(s) /\ \A k \in 1..Len(r) : s[k] = r[k]

\* FlattenSeq is the last value of the recursion, and begins with each of its values.
LEMMA FlattenIs ==
    ASSUME NEW S, NEW seqs \in Seq(Seq(S)), seqs # <<>>
    PROVE  \E f \in [1..Len(seqs) -> Seq(S)] :
              /\ Flattens(f, seqs)
              /\ FlattenSeq(seqs) = f[Len(seqs)]
              /\ \A i \in 1..Len(seqs) : Begins(FlattenSeq(seqs), f[i])
<1> DEFINE n == Len(seqs)
           T == Seq(S)
           step == [p \in (1..n) \X T |-> p[2] \o seqs[p[1]]]
           Value(f, i) == IF i = 1 THEN seqs[i] ELSE f[i - 1] \o seqs[i]
           Solves(f) == f = [i \in 1..n |-> Value(f, i)]
           flatten == CHOOSE f : Solves(f)
<1>1. n \in Nat /\ n >= 1 /\ \A i \in 1..n : seqs[i] \in T
  OBVIOUS
<1>2. step \in [(1..n) \X T -> T] /\ seqs[1] \in T
  BY <1>1
<1>3. PICK f \in [1..n -> T] : Iterates(f, n, seqs[1], step)
  <2>1. n \in Nat
    BY <1>1
  <2>2. seqs[1] \in T
    BY <1>2
  <2>3. step \in [(1..n) \X T -> T]
    BY <1>2
  <2> HIDE DEF n, T, step
  <2> QED
    BY <2>1, <2>2, <2>3, IterationExists
<1>4. \A i \in 1..n : f[i] = Value(f, i)
  <2> SUFFICES ASSUME NEW i \in 1..n
               PROVE  f[i] = Value(f, i)
    OBVIOUS
  <2>1. CASE i = 1
    BY <1>3, <2>1 DEF Iterates
  <2>2. CASE i # 1
    <3>1. i - 1 \in 1..n
      BY <1>1, <2>2
    <3>2. f[i - 1] \in T
      <4> HIDE DEF T, n
      <4> QED
        BY <3>1
    <3>3. step[<<i, f[i - 1]>>] = f[i - 1] \o seqs[i]
      <4> HIDE DEF T, n
      <4> QED
        BY <3>2
    <3>4. f[i] = step[<<i, f[i - 1]>>]
      BY <1>3, <2>2 DEF Iterates
    <3> QED
      BY <2>2, <3>3, <3>4
  <2> QED
    BY <2>1, <2>2
<1>5. Solves(f)
  <2> HIDE DEF Value, n, T
  <2> QED
    BY <1>4
<1>6. Solves(flatten)
  <2> HIDE DEF Solves
  <2> QED
    BY <1>5
<1>7. FlattenSeq(seqs) = flatten[n]
  BY <1>1 DEF FlattenSeq
<1> HIDE DEF flatten
<1>8. \A i \in 1..n : flatten[i] = f[i]
  <2> DEFINE M == {i \in 1..n : flatten[i] = f[i]}
  <2>1. \A i \in 1..n : flatten[i] = Value(flatten, i)
    <3> HIDE DEF Value, n
    <3> QED
      BY <1>6
  <2>2. 1 \in M
    <3>1. 1 \in 1..n
      BY <1>1
    <3>2. flatten[1] = Value(flatten, 1) /\ f[1] = Value(f, 1)
      <4> HIDE DEF Value, n
      <4> QED
        BY <1>4, <2>1, <3>1
    <3> QED
      BY <3>1, <3>2
  <2>3. ASSUME NEW i \in 1..(n - 1), i \in M
        PROVE  i + 1 \in M
    <3>1. i + 1 \in 1..n /\ i + 1 # 1 /\ (i + 1) - 1 = i
      BY <1>1
    <3>2. flatten[i + 1] = flatten[i] \o seqs[i + 1] /\ f[i + 1] = f[i] \o seqs[i + 1]
      BY <1>4, <2>1, <3>1
    <3> QED
      BY <2>3, <3>1, <3>2
  <2>4. \A i \in 1..n : i \in M
    <3> HIDE DEF M, n
    <3> QED
      BY <1>1, <2>2, <2>3, IntervalInduction
  <2> QED
    BY <2>4
<1>9. FlattenSeq(seqs) = f[n]
  <2> HIDE DEF n
  <2> QED
    BY <1>1, <1>7, <1>8
<1>10. ASSUME NEW i \in 2..n
       PROVE  f[i] = f[i - 1] \o seqs[i] /\ i - 1 \in 1..n
  <2>1. i \in 1..n /\ i # 1 /\ i - 1 \in 1..n
    BY <1>1
  <2>2. f[i] = Value(f, i)
    <3> HIDE DEF Value, n
    <3> QED
      BY <1>4, <2>1
  <2> QED
    BY <2>1, <2>2
<1>11. \A i \in 1..n : Begins(f[n], f[i])
  <2> DEFINE M == {j \in 1..n : Begins(f[n], f[n + 1 - j])}
  <2>1. 1 \in M
    <3> HIDE DEF n
    <3>1. n + 1 - 1 = n /\ 1 \in 1..n
      BY <1>1
    <3>2. f[n] \in Seq(S)
      BY <1>1
    <3>3. Begins(f[n], f[n])
      BY <3>2 DEF Begins
    <3> QED
      BY <3>1, <3>3
  <2>2. ASSUME NEW j \in 1..(n - 1), j \in M
        PROVE  j + 1 \in M
    <3> HIDE DEF n
    <3> DEFINE i == n + 1 - j
    <3>1. i \in 2..n /\ i - 1 \in 1..n /\ n + 1 - (j + 1) = i - 1 /\ j + 1 \in 1..n
      BY <1>1
    <3> HIDE DEF i
    <3>2. f[i] = f[i - 1] \o seqs[i]
      BY <1>10, <3>1
    <3>3. f[i - 1] \in Seq(S) /\ seqs[i] \in Seq(S) /\ f[n] \in Seq(S) /\ f[i] \in Seq(S)
      BY <1>1, <3>1
    <3>4. Begins(f[i], f[i - 1])
      <4>1. ASSUME NEW s \in Seq(S), NEW t \in Seq(S)
            PROVE  Begins(s \o t, s)
        BY DEF Begins
      <4> QED
        BY <3>2, <3>3, <4>1
    <3>5. Begins(f[n], f[i])
      BY <2>2 DEF i
    <3>6. ASSUME NEW u \in Seq(S), NEW v \in Seq(S), NEW w \in Seq(S),
                 Begins(u, v), Begins(v, w)
          PROVE  Begins(u, w)
      BY <3>6 DEF Begins
    <3>7. Begins(f[n], f[i - 1])
      <4> HIDE DEF M
      <4> QED
        BY <3>3, <3>4, <3>5, <3>6
    <3> QED
      BY <3>1, <3>7
  <2>3. \A j \in 1..n : j \in M
    <3> HIDE DEF M, n
    <3> QED
      BY <1>1, <2>1, <2>2, IntervalInduction
  <2> SUFFICES ASSUME NEW i \in 1..n
               PROVE  Begins(f[n], f[i])
    OBVIOUS
  <2>4. n + 1 - i \in 1..n /\ n + 1 - (n + 1 - i) = i
    BY <1>1
  <2>5. n + 1 - i \in M
    <3> HIDE DEF M, n
    <3> QED
      BY <2>3, <2>4
  <2> QED
    BY <2>4, <2>5
<1>12. Flattens(f, seqs)
  <2>1. f[1] = seqs[1]
    <3>1. 1 \in 1..n
      BY <1>1
    <3>2. f[1] = Value(f, 1)
      <4> HIDE DEF Value, n
      <4> QED
        BY <1>4, <3>1
    <3> QED
      BY <3>2
  <2> QED
    BY <1>10, <2>1 DEF Flattens
<1> QED
  BY <1>9, <1>11, <1>12
-----------------------------------------------------------------------------
(***************************************************************************)
(* Pieces of a string.                                                     *)
(***************************************************************************)

\* r lies in s, behind its first p elements.
At(s, p, r) == \A k \in 1..Len(r) : s[p + k] = r[k]

\* Two pieces in a row lie each at its place.
LEMMA AtConcat ==
    ASSUME NEW S, NEW r \in Seq(S), NEW t \in Seq(S), NEW p \in Nat, NEW s,
           At(s, p, r \o t)
    PROVE  At(s, p, r) /\ At(s, p + Len(r), t)
<1>1. Len(r) \in Nat /\ Len(t) \in Nat /\ Len(r \o t) = Len(r) + Len(t)
  OBVIOUS
<1>2. ASSUME NEW k \in 1..Len(r)
      PROVE  s[p + k] = r[k]
  <2>1. k \in 1..Len(r \o t) /\ (r \o t)[k] = r[k]
    BY <1>1
  <2> QED
    BY <2>1 DEF At
<1>3. ASSUME NEW k \in 1..Len(t)
      PROVE  s[(p + Len(r)) + k] = t[k]
  <2>1. Len(r) + k \in 1..Len(r \o t) /\ (r \o t)[Len(r) + k] = t[k]
    BY <1>1
  <2>2. p + (Len(r) + k) = (p + Len(r)) + k
    BY <1>1
  <2>3. s[p + (Len(r) + k)] = (r \o t)[Len(r) + k]
    BY <2>1 DEF At
  <2> QED
    BY <2>1, <2>2, <2>3
<1> QED
  BY <1>2, <1>3 DEF At

\* At one place there is one piece of each length.
LEMMA AtSame ==
    ASSUME NEW S, NEW r \in Seq(S), NEW t \in Seq(S), NEW p, NEW s,
           At(s, p, r), At(s, p, t), Len(r) = Len(t)
    PROVE  r = t
<1>1. \A k \in 1..Len(r) : r[k] = t[k]
  BY DEF At
<1>2. \A u \in Seq(S) : u = [k \in 1..Len(u) |-> u[k]]
  OBVIOUS
<1> QED
  BY <1>1, <1>2

LEMMA AtIsSubSeq ==
    ASSUME NEW S, NEW s \in Seq(S), NEW r \in Seq(S), NEW p \in Nat,
           p + Len(r) <= Len(s), At(s, p, r)
    PROVE  SubSeq(s, p + 1, p + Len(r)) = r
<1> DEFINE t == SubSeq(s, p + 1, p + Len(r))
<1>1. Len(r) \in Nat /\ Len(s) \in Nat
  OBVIOUS
<1>2. t \in Seq(S) /\ Len(t) = Len(r) /\ \A k \in 1..Len(r) : t[k] = s[p + k]
  BY <1>1
<1>3. \A k \in 1..Len(r) : t[k] = r[k]
  BY <1>2 DEF At
<1> HIDE DEF t
<1>4. \A u \in Seq(S) : u = [k \in 1..Len(u) |-> u[k]]
  OBVIOUS
<1>5. t = r
  BY <1>2, <1>3, <1>4
<1> QED
  BY <1>5 DEF t

\* Pieces of one length lie in the result at the multiples of that length.
LEMMA FlattenWidth ==
    ASSUME NEW S, NEW seqs \in Seq(Seq(S)), seqs # <<>>, NEW width \in Nat,
           \A i \in 1..Len(seqs) : Len(seqs[i]) = width
    PROVE  /\ FlattenSeq(seqs) \in Seq(S) /\ Len(FlattenSeq(seqs)) = Len(seqs) * width
           /\ \A i \in 1..Len(seqs) : At(FlattenSeq(seqs), (i - 1) * width, seqs[i])
<1> DEFINE n == Len(seqs)
           flat == FlattenSeq(seqs)
<1>1. n \in Nat /\ n >= 1 /\ \A i \in 1..n : seqs[i] \in Seq(S)
  OBVIOUS
<1>2. PICK f \in [1..n -> Seq(S)] :
          Flattens(f, seqs) /\ flat = f[n] /\ \A i \in 1..n : Begins(flat, f[i])
  BY FlattenIs
<1>3. f[1] = seqs[1] /\ \A i \in 2..n : f[i] = f[i - 1] \o seqs[i]
  BY <1>2 DEF Flattens
<1> HIDE DEF n, flat
<1>4. \A i \in 1..n : Len(f[i]) = i * width
  <2> DEFINE M == {i \in 1..n : Len(f[i]) = i * width}
  <2>1. 1 \in M
    <3>1. 1 \in 1..n
      BY <1>1
    <3>2. Len(f[1]) = width
      BY <1>3, <3>1 DEF n
    <3> QED
      BY <3>1, <3>2
  <2>2. ASSUME NEW i \in 1..(n - 1), i \in M
        PROVE  i + 1 \in M
    <3>1. i + 1 \in 1..n /\ i + 1 \in 2..n /\ (i + 1) - 1 = i /\ i \in Nat
      BY <1>1
    <3>2. f[i + 1] = f[i] \o seqs[i + 1]
      BY <1>3, <3>1
    <3>3. f[i] \in Seq(S) /\ seqs[i + 1] \in Seq(S) /\ Len(seqs[i + 1]) = width
      <4>1. Len(seqs[i + 1]) = width
        BY <3>1 DEF n
      <4> HIDE DEF M
      <4> QED
        BY <1>1, <3>1, <4>1
    <3>4. Len(f[i + 1]) = i * width + width
      <4>1. Len(f[i + 1]) = Len(f[i]) + Len(seqs[i + 1])
        <5>1. \A r, t \in Seq(S) : Len(r \o t) = Len(r) + Len(t)
          OBVIOUS
        <5> QED
          BY <3>2, <3>3, <5>1
      <4>2. Len(f[i]) = i * width
        BY <2>2
      <4> HIDE DEF M
      <4> QED
        BY <3>3, <4>1, <4>2
    <3>5. (i + 1) * width = i * width + width
      BY <3>1
    <3> QED
      BY <3>1, <3>4, <3>5
  <2>3. \A i \in 1..n : i \in M
    <3> HIDE DEF M
    <3> QED
      BY <1>1, <2>1, <2>2, IntervalInduction
  <2> QED
    BY <2>3
<1>5. ASSUME NEW i \in 1..n
      PROVE  At(flat, (i - 1) * width, seqs[i])
  <2>1. At(flat, 0, f[i])
    BY <1>2 DEF Begins, At
  <2>2. CASE i = 1
    <3>1. (i - 1) * width = 0
      BY <2>2
    <3> QED
      BY <1>3, <2>1, <2>2, <3>1
  <2>3. CASE i # 1
    <3>1. i \in 2..n /\ i - 1 \in 1..n
      BY <1>1, <2>3
    <3>2. f[i - 1] \in Seq(S) /\ seqs[i] \in Seq(S) /\ f[i] = f[i - 1] \o seqs[i]
      BY <1>1, <1>2, <1>3, <3>1
    <3>3. At(flat, 0 + Len(f[i - 1]), seqs[i])
      BY <2>1, <3>2, AtConcat
    <3>4. Len(f[i - 1]) = (i - 1) * width /\ Len(f[i - 1]) \in Nat
      BY <1>4, <3>1, <3>2
    <3>5. 0 + Len(f[i - 1]) = (i - 1) * width
      BY <3>4
    <3> QED
      BY <3>3, <3>5
  <2> QED
    BY <2>2, <2>3
<1>6. flat \in Seq(S) /\ Len(flat) = n * width
  BY <1>1, <1>2, <1>4
<1> QED
  BY <1>5, <1>6 DEF n, flat

\* Cut into pieces of one length and joined again, a sequence is as it was.
LEMMA FlattenPieces ==
    ASSUME NEW S, NEW s \in Seq(S), NEW n \in Nat \ {0}, NEW width \in Nat, Len(s) = n * width
    PROVE  FlattenSeq([i \in 1..n |-> SubSeq(s, (i - 1) * width + 1, i * width)]) = s
<1> DEFINE pieces == [i \in 1..n |-> SubSeq(s, (i - 1) * width + 1, i * width)]
<1>1. ASSUME NEW i \in 1..n
      PROVE  /\ (i - 1) * width \in Nat /\ i * width \in Nat
             /\ i * width = (i - 1) * width + width
             /\ i * width <= Len(s)
  <2>1. i \in Nat /\ i - 1 \in Nat /\ n - i \in Nat
    OBVIOUS
  <2>2. \A k \in Nat : k * width \in Nat
    OBVIOUS
  <2>3. (i - 1) * width \in Nat /\ i * width \in Nat /\ (n - i) * width \in Nat
    BY <2>1, <2>2
  <2>4. i * width = (i - 1) * width + width /\ n * width = i * width + (n - i) * width
    BY <2>1
  <2> QED
    BY <2>3, <2>4
<1>2. \A i \in 1..n : pieces[i] \in Seq(S)
  BY <1>1
<1>3. pieces \in Seq(Seq(S)) /\ Len(pieces) = n /\ pieces # <<>>
  <2>1. pieces \in [1..n -> Seq(S)]
    BY <1>2
  <2> HIDE DEF pieces
  <2>2. pieces \in Seq(Seq(S)) /\ Len(pieces) = n
    BY <2>1
  <2> QED
    BY <2>2
<1>4. \A i \in 1..n : pieces[i] = SubSeq(s, (i - 1) * width + 1, i * width)
  OBVIOUS
<1> HIDE DEF pieces
<1>5. PICK f \in [1..n -> Seq(S)] : Flattens(f, pieces) /\ FlattenSeq(pieces) = f[n]
  BY <1>3, FlattenIs
<1>6. f[1] = pieces[1] /\ \A i \in 2..n : f[i] = f[i - 1] \o pieces[i]
  BY <1>3, <1>5 DEF Flattens
<1>7. \A i \in 1..n : f[i] = SubSeq(s, 1, i * width)
  <2> DEFINE M == {i \in 1..n : f[i] = SubSeq(s, 1, i * width)}
  <2>1. 1 \in M
    <3>1. 1 \in 1..n /\ (1 - 1) * width + 1 = 1
      OBVIOUS
    <3> QED
      BY <1>4, <1>6, <3>1
  <2>2. ASSUME NEW i \in 1..(n - 1), i \in M
        PROVE  i + 1 \in M
    <3>1. i + 1 \in 1..n /\ i + 1 \in 2..n /\ (i + 1) - 1 = i /\ i \in 1..n
      OBVIOUS
    <3>2. f[i + 1] = SubSeq(s, 1, i * width) \o SubSeq(s, i * width + 1, (i + 1) * width)
      BY <1>4, <1>6, <2>2, <3>1
    <3> DEFINE a == i * width
               b == (i + 1) * width
    <3>3. a \in Nat /\ b \in Nat /\ a <= b /\ b <= Len(s)
      <4>1. /\ (i + 1) * width \in Nat /\ (i + 1) * width = ((i + 1) - 1) * width + width
            /\ (i + 1) * width <= Len(s)
        BY <1>1, <3>1
      <4>2. i * width \in Nat
        BY <1>1, <3>1
      <4> QED
        BY <3>1, <4>1, <4>2
    <3> HIDE DEF a, b
    <3>4. 1 \in 1..Len(s) + 1 /\ a \in 1 - 1..Len(s) /\ b \in a..Len(s)
      BY <3>3
    <3>5. SubSeq(s, 1, a) \o SubSeq(s, a + 1, b) = SubSeq(s, 1, b)
      BY <3>4, ConcatAdjacentSubSeq
    <3> QED
      BY <3>1, <3>2, <3>5 DEF a, b
  <2>3. \A i \in 1..n : i \in M
    <3> HIDE DEF M
    <3> QED
      BY <2>1, <2>2, IntervalInduction
  <2> QED
    BY <2>3
<1>8. f[n] = s
  <2>1. f[n] = SubSeq(s, 1, Len(s))
    BY <1>7
  <2> QED
    BY <2>1, SubSeqFull
<1>9. FlattenSeq(pieces) = s
  BY <1>5, <1>8
<1> QED
  BY <1>9 DEF pieces
=============================================================================
