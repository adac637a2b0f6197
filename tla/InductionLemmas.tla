--------------------------- MODULE InductionLemmas ---------------------------
(***************************************************************************)
(* What the proofs about loops over sequences rest on: induction over the  *)
(* natural numbers, stated for a set so that a lemma can be cited for any  *)
(* property, and FlattenSeq of the community modules, the concatenation of *)
(* all sequences of a sequence.                                            *)
(***************************************************************************)
EXTENDS Integers, Sequences, SequencesExt, SequenceTheorems, WellFoundedInduction, TLAPS

\* A set that holds 0 and the successor of each number it holds is all of Nat:
\* otherwise there would be a least number outside.
LEMMA NatSetInduction ==
    ASSUME NEW S, 0 \in S, \A n \in Nat : n \in S => n + 1 \in S
    PROVE  \A n \in Nat : n \in S
<1> DEFINE T == Nat \ S
<1> SUFFICES ASSUME T # {} PROVE FALSE
  OBVIOUS
<1>1. PICK m \in T : \A x \in T : ~(<<x, m>> \in OpToRel(<, Nat))
  BY NatLessThanWellFounded, WFMin
<1>2. m \in Nat /\ m # 0 /\ m - 1 \in Nat
  OBVIOUS
<1>3. <<m - 1, m>> \in OpToRel(<, Nat)
  <2>1. <<m - 1, m>> \in Nat \X Nat /\ m - 1 < m
    BY <1>2
  <2> QED
    BY <2>1, Zenon DEF OpToRel
<1>4. m - 1 \in S
  BY <1>1, <1>2, <1>3
<1>5. m - 1 + 1 = m
  BY <1>2
<1> QED
  BY <1>2, <1>4, <1>5

\* A sequence is its last element behind the others.
LEMMA AppendLast ==
    ASSUME NEW S, NEW k \in Nat, NEW f \in [1..(k + 1) -> S]
    PROVE  Append([i \in 1..k |-> f[i]], f[k + 1]) = f
<1> DEFINE s == [i \in 1..k |-> f[i]]
           a == Append(s, f[k + 1])
<1>1. \A i \in 1..k : i \in 1..(k + 1)
  OBVIOUS
<1>2. s \in [1..k -> S] /\ f[k + 1] \in S
  BY <1>1
<1>3. s \in Seq(S) /\ Len(s) = k /\ f \in Seq(S) /\ Len(f) = k + 1
  BY <1>2
<1>4. /\ a \in Seq(S) /\ Len(a) = k + 1 /\ a[k + 1] = f[k + 1]
      /\ \A i \in 1..k : a[i] = s[i]
  <2> HIDE DEF s
  <2> QED
    BY <1>2, <1>3, AppendProperties
<1>5. \A i \in 1..(k + 1) : a[i] = f[i]
  <2> HIDE DEF a
  <2> TAKE i \in 1..(k + 1)
  <2>1. CASE i = k + 1
    BY <1>4, <2>1
  <2>2. CASE i # k + 1
    <3>1. i \in 1..k
      BY <2>2
    <3> QED
      BY <1>4, <3>1
  <2> QED
    BY <2>1, <2>2
<1> HIDE DEF a
<1> QED
  BY <1>3, <1>4, <1>5, SeqEqual DEF a

\* An element behind a concatenation.
LEMMA ConcatAppend ==
    ASSUME NEW S, NEW s \in Seq(S), NEW t \in Seq(S), NEW e \in S
    PROVE  s \o Append(t, e) = Append(s \o t, e)
<1>1. Append(t, e) = t \o <<e>> /\ <<e>> \in Seq(S) /\ s \o t \in Seq(S)
  BY AppendIsConcat, ConcatProperties
<1>2. Append(s \o t, e) = (s \o t) \o <<e>>
  BY <1>1, AppendIsConcat
<1> QED
  BY <1>1, <1>2, ConcatAssociative

-----------------------------------------------------------------------------
(* FlattenSeq *)

\* r holds the concatenations of the first sequences of seqs.
Flattens(r, seqs, n) ==
    r = [i \in 1..n |-> IF i = 1 THEN seqs[i] ELSE r[i - 1] \o seqs[i]]

\* Its values.
LEMMA FlattensAt ==
    ASSUME NEW r, NEW seqs, NEW n \in Nat, Flattens(r, seqs, n), NEW i \in 1..n
    PROVE  r[i] = IF i = 1 THEN seqs[i] ELSE r[i - 1] \o seqs[i]
<1>1. r = [j \in 1..n |-> IF j = 1 THEN seqs[j] ELSE r[j - 1] \o seqs[j]]
  BY DEF Flattens
<1> DEFINE e(j) == IF j = 1 THEN seqs[j] ELSE r[j - 1] \o seqs[j]
<1>2. r = [j \in 1..n |-> e(j)]
  BY <1>1
<1> HIDE DEF e
<1>3. r[i] = e(i)
  BY <1>2
<1> QED
  BY <1>3 DEF e

\* The recursive function of FlattenSeq exists.
LEMMA FlattensExists ==
    ASSUME NEW seqs, NEW n \in Nat
    PROVE  \E r : Flattens(r, seqs, n)
<1> DEFINE S == {m \in Nat : \E r : Flattens(r, seqs, m)}
<1>1. 0 \in S
  <2>1. Flattens([i \in 1..0 |-> <<>>], seqs, 0)
    BY DEF Flattens
  <2> QED
    BY <2>1
<1>2. ASSUME NEW m \in Nat, m \in S PROVE m + 1 \in S
  <2>1. PICK r : Flattens(r, seqs, m)
    BY <1>2
  <2> DEFINE h == [i \in 1..(m + 1) |->
                     IF i <= m THEN r[i] ELSE IF i = 1 THEN seqs[i] ELSE r[i - 1] \o seqs[i]]
  <2>2. \A i \in 1..(m + 1) : h[i] = IF i = 1 THEN seqs[i] ELSE h[i - 1] \o seqs[i]
    <3> TAKE i \in 1..(m + 1)
    <3>1. CASE i = 1
      <4>1. 1 <= m => r[1] = seqs[1]
        BY <2>1, FlattensAt
      <4> QED
        BY <3>1, <4>1
    <3>2. CASE i # 1
      <4>1. i - 1 \in 1..(m + 1) /\ i - 1 <= m
        BY <3>2
      <4>2. h[i - 1] = r[i - 1]
        BY <4>1
      <4>3. ASSUME i <= m PROVE r[i] = r[i - 1] \o seqs[i]
        <5>1. i \in 1..m
          BY <4>3
        <5>2. r[i] = IF i = 1 THEN seqs[i] ELSE r[i - 1] \o seqs[i]
          BY <2>1, <5>1, FlattensAt
        <5> QED
          BY <3>2, <5>2, ZenonT(30)
      <4> QED
        BY <3>2, <4>2, <4>3
    <3> QED
      BY <3>1, <3>2
  <2>3. h = [i \in 1..(m + 1) |-> h[i]]
    OBVIOUS
  <2> HIDE DEF h
  <2>4. Flattens(h, seqs, m + 1)
    BY <2>2, <2>3 DEF Flattens
  <2> HIDE DEF Flattens
  <2> QED
    BY <2>4
<1>3. \A m \in Nat : m \in S
  <2> HIDE DEF S
  <2> QED
    BY <1>1, <1>2, NatSetInduction
<1> QED
  BY <1>3

\* FlattenSeq is its last element.
LEMMA FlattenDef ==
    ASSUME NEW seqs, Len(seqs) \in Nat \ {0}
    PROVE  \E r : Flattens(r, seqs, Len(seqs)) /\ FlattenSeq(seqs) = r[Len(seqs)]
<1>1. FlattenSeq(seqs) = (CHOOSE r : Flattens(r, seqs, Len(seqs)))[Len(seqs)]
  BY DEF FlattenSeq, Flattens
<1>2. \E r : Flattens(r, seqs, Len(seqs))
  BY FlattensExists
<1> QED
  BY <1>1, <1>2

\* The concatenations of the first sequences are the same in a longer one.
LEMMA FlattensPrefix ==
    ASSUME NEW seqs, NEW more, NEW n \in Nat, NEW m \in Nat, n <= m,
           NEW r, Flattens(r, seqs, n), NEW q, Flattens(q, more, m),
           \A i \in 1..n : seqs[i] = more[i]
    PROVE  \A i \in 1..n : r[i] = q[i]
<1> DEFINE S == {k \in Nat : k \in 1..n => r[k] = q[k]}
<1>1. 0 \in S
  OBVIOUS
<1>2. ASSUME NEW k \in Nat, k \in S PROVE k + 1 \in S
  <2> SUFFICES ASSUME k + 1 \in 1..n PROVE r[k + 1] = q[k + 1]
    OBVIOUS
  <2>1. k + 1 \in 1..m /\ seqs[k + 1] = more[k + 1] /\ (k + 1) - 1 = k
    OBVIOUS
  <2>2. r[k + 1] = IF k + 1 = 1 THEN seqs[k + 1] ELSE r[k] \o seqs[k + 1]
    BY <2>1, FlattensAt
  <2>3. q[k + 1] = IF k + 1 = 1 THEN more[k + 1] ELSE q[k] \o more[k + 1]
    BY <2>1, FlattensAt
  <2>4. k + 1 # 1 => k \in 1..n
    OBVIOUS
  <2> QED
    BY <1>2, <2>1, <2>2, <2>3, <2>4
<1>3. \A k \in Nat : k \in S
  <2> HIDE DEF S
  <2> QED
    BY <1>1, <1>2, NatSetInduction
<1> QED
  BY <1>3

\* The concatenation of sequences of elements of S is one.
LEMMA FlattenType ==
    ASSUME NEW S, NEW seqs \in Seq(Seq(S))
    PROVE  FlattenSeq(seqs) \in Seq(S)
<1>1. CASE seqs = <<>>
  <2>1. Len(seqs) = 0
    BY <1>1
  <2> QED
    BY <1>1, <2>1 DEF FlattenSeq
<1>2. CASE seqs # <<>>
  <2>1. Len(seqs) \in Nat \ {0}
    BY <1>2, EmptySeq
  <2>2. PICK r : Flattens(r, seqs, Len(seqs)) /\ FlattenSeq(seqs) = r[Len(seqs)]
    BY <2>1, FlattenDef
  <2> DEFINE T == {k \in Nat : k \in 1..Len(seqs) => r[k] \in Seq(S)}
  <2>3. 0 \in T
    OBVIOUS
  <2>4. ASSUME NEW k \in Nat, k \in T PROVE k + 1 \in T
    <3> SUFFICES ASSUME k + 1 \in 1..Len(seqs) PROVE r[k + 1] \in Seq(S)
      OBVIOUS
    <3>1. r[k + 1] = IF k + 1 = 1 THEN seqs[k + 1] ELSE r[(k + 1) - 1] \o seqs[k + 1]
      BY <2>1, <2>2, FlattensAt
    <3>2. seqs[k + 1] \in Seq(S)
      BY ElementOfSeq
    <3>3. k + 1 # 1 => k \in 1..Len(seqs)
      BY <2>1
    <3> QED
      BY <2>4, <3>1, <3>2, <3>3
  <2>5. \A k \in Nat : k \in T
    <3> HIDE DEF T
    <3> QED
      BY <2>3, <2>4, NatSetInduction
  <2> QED
    BY <2>1, <2>2, <2>5
<1> QED
  BY <1>1, <1>2

\* A sequence at the end is concatenated last.
LEMMA FlattenAppend ==
    ASSUME NEW S, NEW seqs \in Seq(Seq(S)), NEW s \in Seq(S)
    PROVE  FlattenSeq(Append(seqs, s)) = FlattenSeq(seqs) \o s
<1> DEFINE more == Append(seqs, s)
           n == Len(seqs)
<1>1. n \in Nat /\ Len(more) = n + 1 /\ more[n + 1] = s /\ \A i \in 1..n : seqs[i] = more[i]
  BY LenProperties
<1> HIDE DEF more
<1>2. PICK q : Flattens(q, more, n + 1) /\ FlattenSeq(more) = q[n + 1]
  BY <1>1, FlattenDef
<1>3. q[n + 1] = IF n + 1 = 1 THEN more[n + 1] ELSE q[(n + 1) - 1] \o more[n + 1]
  <2>1. n + 1 \in Nat /\ n + 1 \in 1..(n + 1)
    BY <1>1
  <2> QED
    BY <1>2, <2>1, FlattensAt
<1>4. CASE n = 0
  <2>1. seqs = <<>>
    BY <1>4, EmptySeq
  <2>2. FlattenSeq(seqs) = <<>>
    BY <1>4, <2>1 DEF FlattenSeq
  <2>3. <<>> \o s = s
    BY ConcatEmptySeq
  <2> QED
    BY <1>1, <1>2, <1>3, <1>4, <2>2, <2>3 DEF more
<1>5. CASE n # 0
  <2>1. PICK r : Flattens(r, seqs, n) /\ FlattenSeq(seqs) = r[n]
    BY <1>1, <1>5, FlattenDef
  <2>2. r[n] = q[n]
    <3>1. n + 1 \in Nat /\ n <= n + 1 /\ n \in 1..n
      BY <1>1, <1>5
    <3> HIDE DEF n
    <3>2. \A i \in 1..n : r[i] = q[i]
      BY <1>1, <1>2, <2>1, <3>1, FlattensPrefix
    <3> QED
      BY <3>1, <3>2
  <2> QED
    BY <1>1, <1>2, <1>3, <1>5, <2>1, <2>2 DEF more
<1> QED
  BY <1>4, <1>5

\* Nothing is concatenated to nothing.
LEMMA FlattenEmpty == FlattenSeq(<<>>) = <<>>
BY DEF FlattenSeq

\* A sequence of sequences is flattened into the flattening of its beginning
\* and more.
LEMMA FlattenPrefix ==
    ASSUME NEW S, NEW seqs \in Seq(Seq(S)), NEW w \in 0..Len(seqs)
    PROVE  \E t \in Seq(S) : FlattenSeq(seqs) = FlattenSeq([i \in 1..w |-> seqs[i]]) \o t
<1> DEFINE beginning(s, m) == [i \in 1..m |-> s[i]]
           begins(s, m) == \E t \in Seq(S) : FlattenSeq(s) = FlattenSeq(beginning(s, m)) \o t
           N == {n \in Nat : \A s \in Seq(Seq(S)) : Len(s) = n => \A m \in 0..n : begins(s, m)}
<1>1. ASSUME NEW s \in Seq(Seq(S)) PROVE begins(s, Len(s))
  <2>1. FlattenSeq(s) \in Seq(S)
    BY FlattenType
  <2>2. <<>> \in Seq(S) /\ FlattenSeq(s) = FlattenSeq(s) \o <<>>
    BY <2>1, EmptySeq, ConcatEmptySeq
  <2>3. beginning(s, Len(s)) = s
    <3>1. s \in [1..Len(s) -> Seq(S)]
      BY LenProperties
    <3> QED
      BY <3>1
  <2> QED
    BY <2>2, <2>3
<1>2. ASSUME NEW n \in Nat, \A s \in Seq(Seq(S)) : Len(s) = n => \A m \in 0..n : begins(s, m),
             NEW s \in Seq(Seq(S)), Len(s) = n + 1, NEW m \in 0..(n + 1)
      PROVE  begins(s, m)
  <2>1. CASE m = n + 1
    BY <1>1, <1>2, <2>1
  <2>2. CASE m \in 0..n
    <3> DEFINE b == beginning(s, n)
    <3>1. \A i \in 1..n : i \in 1..(n + 1) /\ s[i] \in Seq(S)
      BY <1>2, ElementOfSeq
    <3>2. b \in Seq(Seq(S)) /\ Len(b) = n /\ s[n + 1] \in Seq(S)
      BY <1>2, <3>1, ElementOfSeq
    <3>3. Append(b, s[n + 1]) = s
      <4>1. s \in [1..(n + 1) -> Seq(S)]
        BY <1>2, LenProperties
      <4> QED
        BY <4>1, AppendLast
    <3>4. \A i \in 1..m : i \in 1..n /\ b[i] = s[i]
      BY <2>2
    <3>5. beginning(b, m) = beginning(s, m)
      BY <3>4
    <3>6. beginning(s, m) \in Seq(Seq(S))
      <4>1. \A i \in 1..m : i \in 1..(n + 1) /\ s[i] \in Seq(S)
        BY <1>2, <2>2, ElementOfSeq
      <4> QED
        BY <2>2, <4>1
    <3> DEFINE f == FlattenSeq(beginning(s, m))
    <3> HIDE DEF b
    <3>7. PICK t \in Seq(S) : FlattenSeq(b) = f \o t
      <4>1. begins(b, m)
        <5> HIDE DEF begins
        <5> QED
          BY <1>2, <2>2, <3>2
      <4> HIDE DEF beginning
      <4> QED
        BY <3>5, <4>1
    <3>8. FlattenSeq(s) = FlattenSeq(b) \o s[n + 1]
      BY <3>2, <3>3, FlattenAppend
    <3> HIDE DEF beginning
    <3>9. f \in Seq(S)
      BY <3>6, FlattenType
    <3> DEFINE u == s[n + 1]
    <3>10. u \in Seq(S) /\ t \in Seq(S)
      BY <3>2, <3>7
    <3> HIDE DEF f, u
    <3>11. (f \o t) \o u = f \o (t \o u) /\ t \o u \in Seq(S)
      BY <3>9, <3>10, ConcatAssociative, ConcatProperties, SMTT(30)
    <3>12. FlattenSeq(s) = f \o (t \o u)
      BY <3>7, <3>8, <3>11 DEF u
    <3> QED
      BY <3>11, <3>12 DEF f
  <2> HIDE DEF begins
  <2> QED
    BY <1>2, <2>1, <2>2
<1> HIDE DEF begins
<1>3. 0 \in N
  <2>1. \A m \in 0..0 : m = 0
    OBVIOUS
  <2> QED
    BY <1>1, <2>1
<1>4. ASSUME NEW n \in Nat, n \in N PROVE n + 1 \in N
  <2>1. \A s \in Seq(Seq(S)) : Len(s) = n => \A m \in 0..n : begins(s, m)
    BY <1>4
  <2>2. \A s \in Seq(Seq(S)) : Len(s) = n + 1 => \A m \in 0..(n + 1) : begins(s, m)
    BY <1>2, <2>1
  <2> QED
    BY <2>2
<1> HIDE DEF N
<1>5. \A n \in Nat : n \in N
  BY <1>3, <1>4, NatSetInduction
<1>6. Len(seqs) \in N
  BY <1>5, LenProperties
<1> QED
  BY <1>6 DEF N, begins

\* The k-th of the sequences lies behind those before it.
LEMMA FlattenPart ==
    ASSUME NEW S, NEW seqs \in Seq(Seq(S)), NEW k \in 1..Len(seqs)
    PROVE  /\ SubSeq(seqs, 1, k - 1) \in Seq(Seq(S))
           /\ \E t \in Seq(S) :
                FlattenSeq(seqs) = (FlattenSeq(SubSeq(seqs, 1, k - 1)) \o seqs[k]) \o t
<1> DEFINE b == [i \in 1..k |-> seqs[i]]
           a == [i \in 1..(k - 1) |-> seqs[i]]
           c == SubSeq(seqs, 1, k - 1)
<1>0. Len(seqs) \in Nat /\ k \in Nat /\ k - 1 \in Nat /\ k = (k - 1) + 1
  OBVIOUS
<1>1. \A i \in 1..k : i \in 1..Len(seqs) /\ seqs[i] \in Seq(S)
  BY <1>0, ElementOfSeq
<1>2. b \in [1..k -> Seq(S)] /\ seqs[k] \in Seq(S) /\ b[k] = seqs[k] /\ k \in 0..Len(seqs)
  BY <1>0, <1>1
<1>3. a \in Seq(Seq(S))
  <2>1. \A i \in 1..(k - 1) : i \in 1..k
    BY <1>0
  <2> QED
    BY <1>0, <1>1, <2>1
<1>4. c = a
  BY <1>0, SubSeqProperties
<1>5. Append(a, seqs[k]) = b
  <2>1. \A i \in 1..(k - 1) : i \in 1..k /\ b[i] = seqs[i]
    BY <1>0
  <2>2. [i \in 1..(k - 1) |-> b[i]] = a
    BY <2>1
  <2> DEFINE m == k - 1
  <2>3. m \in Nat /\ b \in [1..(m + 1) -> Seq(S)] /\ b[m + 1] = seqs[k] /\ [i \in 1..m |-> b[i]] = a
    BY <1>0, <1>2, <2>2
  <2> HIDE DEF a, b, m
  <2> QED
    BY <2>3, AppendLast
<1> HIDE DEF a, b, c
<1>6. FlattenSeq(b) = FlattenSeq(a) \o seqs[k]
  BY <1>2, <1>3, <1>5, FlattenAppend
<1>7. \E t \in Seq(S) : FlattenSeq(seqs) = FlattenSeq(b) \o t
  BY <1>2, FlattenPrefix DEF b
<1> QED
  BY <1>3, <1>4, <1>6, <1>7 DEF c

\* The j-th byte of the i-th of n sequences of length b.
LEMMA CellInside ==
    ASSUME NEW n \in Nat, NEW b \in Nat, NEW i \in 1..n, NEW j \in 1..b
    PROVE  (i - 1) * b + j \in 1..(n * b)
<1> DEFINE x == (i - 1) * b
           y == n * b
<1>1. x \in Nat /\ y \in Nat
  OBVIOUS
<1>2. x + b <= y
  <2>1. i * b <= n * b
    OBVIOUS
  <2>2. x + b = i * b
    OBVIOUS
  <2> QED
    BY <2>1, <2>2
<1> HIDE DEF x, y
<1>3. x + j \in 1..y
  BY <1>1, <1>2
<1> QED
  BY <1>3 DEF x, y

\* The elements of a concatenation.
LEMMA ConcatElements ==
    ASSUME NEW S, NEW u \in Seq(S), NEW e \in Seq(S)
    PROVE  /\ u \o e \in Seq(S) /\ Len(u \o e) = Len(u) + Len(e) /\ Len(u) \in Nat /\ Len(e) \in Nat
           /\ \A k \in 1..Len(u) : (u \o e)[k] = u[k]
           /\ \A k \in 1..Len(e) : (u \o e)[Len(u) + k] = e[k]
<1> DEFINE m == Len(u)
           b == Len(e)
           x == u \o e
<1>0. m \in Nat /\ b \in Nat
  BY LenProperties
<1>1. /\ x \in Seq(S) /\ Len(x) = m + b
      /\ \A k \in 1..(m + b) : x[k] = IF k <= m THEN u[k] ELSE e[k - m]
  BY ConcatProperties
<1> HIDE DEF m, b, x
<1>2. ASSUME NEW k \in 1..m PROVE x[k] = u[k]
  <2>1. k \in 1..(m + b) /\ k <= m
    BY <1>0
  <2> QED
    BY <1>1, <2>1
<1>3. ASSUME NEW k \in 1..b PROVE x[m + k] = e[k]
  <2>1. m + k \in 1..(m + b) /\ ~(m + k <= m) /\ (m + k) - m = k
    BY <1>0
  <2>2. x[m + k] = e[(m + k) - m]
    BY <1>1, <2>1
  <2> QED
    BY <2>1, <2>2
<1> QED
  BY <1>0, <1>1, <1>2, <1>3 DEF m, b, x

\* The sequences of length b lie one behind the other in r.
Blocks(r, seqs, b) ==
    /\ Len(r) = Len(seqs) * b
    /\ \A i \in 1..Len(seqs) : \A j \in 1..b : r[(i - 1) * b + j] = seqs[i][j]

LEMMA FlattenBlocks ==
    ASSUME NEW S, NEW b \in Nat, NEW seqs \in Seq(Seq(S)), \A i \in 1..Len(seqs) : Len(seqs[i]) = b
    PROVE  FlattenSeq(seqs) \in Seq(S) /\ Blocks(FlattenSeq(seqs), seqs, b)
<1> DEFINE laid(s, n) == /\ Len(FlattenSeq(s)) = n * b
                         /\ \A i \in 1..n : \A j \in 1..b : FlattenSeq(s)[(i - 1) * b + j] = s[i][j]
           equal(s, n) == Len(s) = n /\ \A i \in 1..n : Len(s[i]) = b
           N == {n \in Nat : \A s \in Seq(Seq(S)) : equal(s, n) => laid(s, n)}
<1>1. 0 \in N
  <2>1. ASSUME NEW s \in Seq(Seq(S)), Len(s) = 0 PROVE laid(s, 0)
    <3>1. s = <<>>
      BY <2>1, EmptySeq
    <3>2. FlattenSeq(s) = <<>> /\ Len(<<>>) = 0 /\ 0 * b = 0
      BY <3>1, FlattenEmpty
    <3> QED
      BY <3>2
  <2> HIDE DEF laid
  <2> QED
    BY <2>1
<1>2. ASSUME NEW n \in Nat, n \in N PROVE n + 1 \in N
  <2> SUFFICES ASSUME NEW s \in Seq(Seq(S)), equal(s, n + 1) PROVE laid(s, n + 1)
    <3> HIDE DEF laid, equal
    <3> QED
      OBVIOUS
  <2> DEFINE t == [i \in 1..n |-> s[i]]
             e == s[n + 1]
             u == FlattenSeq(t)
             v == FlattenSeq(s)
  <2>1. \A i \in 1..n : i \in 1..(n + 1)
    OBVIOUS
  <2>2. t \in Seq(Seq(S)) /\ equal(t, n) /\ e \in Seq(S) /\ Len(e) = b
    BY <2>1, ElementOfSeq
  <2>3. Append(t, e) = s
    <3>1. s \in [1..(n + 1) -> Seq(S)]
      BY LenProperties
    <3> QED
      BY <3>1, AppendLast
  <2>4. laid(t, n)
    <3> HIDE DEF laid, equal, t
    <3> QED
      BY <1>2, <2>2
  <2>5. u \in Seq(S) /\ v = u \o e
    <3> HIDE DEF t, e
    <3> QED
      BY <2>2, <2>3, FlattenType, FlattenAppend DEF equal
  <2>6. Len(u) = n * b /\ \A i \in 1..n : \A j \in 1..b : u[(i - 1) * b + j] = s[i][j]
    BY <2>4
  <2> HIDE DEF u, v, e, t
  <2>7. /\ Len(v) = n * b + b
        /\ \A k \in 1..(n * b) : v[k] = u[k]
        /\ \A k \in 1..b : v[n * b + k] = e[k]
    <3>1. u \in Seq(S) /\ e \in Seq(S)
      BY <2>2, <2>5
    <3>2. /\ Len(u \o e) = Len(u) + Len(e)
          /\ \A k \in 1..Len(u) : (u \o e)[k] = u[k]
          /\ \A k \in 1..Len(e) : (u \o e)[Len(u) + k] = e[k]
      BY <3>1, ConcatElements
    <3>3. Len(u) = n * b /\ Len(e) = b /\ u \o e = v
      BY <2>2, <2>5, <2>6
    <3> QED
      BY <3>2, <3>3
  <2>8. ASSUME NEW i \in 1..(n + 1), NEW j \in 1..b PROVE v[(i - 1) * b + j] = s[i][j]
    <3>1. CASE i = n + 1
      <4>1. (i - 1) * b + j = n * b + j
        BY <3>1
      <4> QED
        BY <2>7, <3>1, <4>1 DEF e
    <3>2. CASE i # n + 1
      <4>1. i \in 1..n
        BY <3>2
      <4>4. (i - 1) * b + j \in 1..(n * b)
        BY <4>1, CellInside
      <4> QED
        BY <2>6, <2>7, <4>1, <4>4
    <3> QED
      BY <3>1, <3>2
  <2>9. n * b + b = (n + 1) * b
    OBVIOUS
  <2> QED
    BY <2>7, <2>8, <2>9 DEF v
<1> HIDE DEF N
<1>3. Len(seqs) \in N
  BY <1>1, <1>2, NatSetInduction, LenProperties
<1>4. laid(seqs, Len(seqs))
  BY <1>3 DEF N
<1>5. Blocks(FlattenSeq(seqs), seqs, b)
  BY <1>4 DEF Blocks
<1> QED
  BY <1>5, FlattenType

=============================================================================
