------------------------- MODULE ExtractCommandProofs -------------------------
(***************************************************************************)
(* Theorems about the extract command: opening the disc, the selection of  *)
(* tracks, and the sectors each track is read from.                        *)
(***************************************************************************)
EXTENDS ExtractCommand, FiniteSetTheorems, InductionLemmas

\* A parse that panics was given some sectors, fewer than the header declares.
LEMMA PanicBeyondData ==
    ASSUME NEW c, NEW n, ParsePanics(c, n)
    PROVE  c.size > n /\ n # 0
BY DEF ParsePanics, SearchPanics, Rejected, HeaderUnreadable

\* The history variable keeps its type, and `at` names a copy.
HistoryInv ==
    /\ disc \in Discs
    /\ source \in {"iso", "net"}
    /\ at \in Areas \X Copies
    /\ whole \in [Areas -> [Copies -> BOOLEAN]]
    /\ WholeReadsNeverPanic

\* Every step of the opening preserves it; the step that panics establishes
\* what it says of a panic.
LEMMA HistoryStep ==
    ASSUME HistoryInv, ReaderNext
    PROVE  HistoryInv'
<1> USE DEF HistoryInv
<1>0. source' \in {"iso", "net"} /\ disc' \in Discs
  BY DEF ReaderNext, ReadMasterToc, ReadMasterText, ReadTocCopy, TocPanics
<1>1. CASE ReadMasterToc
  BY <1>0, <1>1 DEF ReadMasterToc, WholeReadsNeverPanic
<1>2. CASE ReadMasterText
  BY <1>0, <1>2 DEF ReadMasterText, WholeReadsNeverPanic
<1>3. CASE ReadTocCopy
  <2>1. pc' # "panicked"
    BY <1>3 DEF ReadTocCopy
  <2>2. at' \in Areas \X Copies
    BY <1>3 DEF ReadTocCopy, Areas, Copies
  <2>3. whole' \in [Areas -> [Copies -> BOOLEAN]]
    <3>1. PICK n : whole' = [whole EXCEPT ![at[1]][at[2]] = (n >= disc[at[1]].tocSize)]
      BY <1>3 DEF ReadTocCopy
    <3>2. at[1] \in Areas /\ at[2] \in Copies
      OBVIOUS
    <3> DEFINE b == (n >= disc[at[1]].tocSize)
    <3>3. b \in BOOLEAN
      OBVIOUS
    <3>4. whole' = [whole EXCEPT ![at[1]][at[2]] = b]
      BY <3>1
    <3> HIDE DEF b
    <3> QED
      BY <3>2, <3>3, <3>4
  <2> QED
    BY <1>0, <2>1, <2>2, <2>3 DEF WholeReadsNeverPanic
<1>4. CASE TocPanics
  <2>1. PICK n \in Delivered(at[1], at[2]) :
          /\ ParsePanics(disc[at[1]].copies[at[2]], n)
          /\ whole' = [whole EXCEPT ![at[1]][at[2]] = (n >= disc[at[1]].tocSize)]
    BY <1>4 DEF TocPanics
  <2>2. at[1] \in Areas /\ at[2] \in Copies /\ UNCHANGED <<at, disc, source>>
    BY <1>4 DEF TocPanics
  <2> DEFINE b == (n >= disc[at[1]].tocSize)
  <2>3. b \in BOOLEAN
    OBVIOUS
  <2>4. whole' = [whole EXCEPT ![at[1]][at[2]] = b]
    BY <2>1
  <2>5. disc[at[1]].copies[at[2]].size > n /\ n # 0
    BY <2>1, PanicBeyondData
  <2>6. disc[at[1]].tocSize \in Nat /\ disc[at[1]].copies[at[2]].size \in Nat
    BY DiscsAssumption DEF Areas, Copies
  <2>7. n \in Nat
    BY <2>1, <2>6, DiscsAssumption DEF Delivered, IsoDelivers, NetDelivers
  <2>8. b => disc[at[1]].copies[at[2]].size > disc[at[1]].tocSize
    BY <2>5, <2>6, <2>7
  <2>9. ~b => source # "iso"
    BY <2>1, <2>5, <2>6 DEF Delivered, IsoDelivers
  <2>10. ~b => source = "net"
    BY <2>9 DEF HistoryInv
  <2> HIDE DEF b
  <2>11. whole' \in [Areas -> [Copies -> BOOLEAN]] /\ whole'[at[1]][at[2]] = b
    BY <2>2, <2>3, <2>4
  <2> QED
    BY <1>0, <2>2, <2>8, <2>11, <2>10 DEF WholeReadsNeverPanic
<1> QED
  BY <1>1, <1>2, <1>3, <1>4 DEF ReaderNext

\* Opening a disc panics only on a copy that was cut short or whose header
\* claims more sectors than the master TOC, on every disc and for every
\* delivery: the table search stays inside the data otherwise.  An image cuts
\* nothing short.
THEOREM NoPanicOnWholeReads == Spec => []WholeReadsNeverPanic
<1>1. Init => HistoryInv
  BY DEF Init, ReaderInit, HistoryInv, WholeReadsNeverPanic, Areas, Copies
<1>2. HistoryInv /\ [Next]_vars => HistoryInv'
  <2> SUFFICES ASSUME HistoryInv, [Next]_vars PROVE HistoryInv'
    OBVIOUS
  <2>1. CASE Open
    BY <2>1, HistoryStep DEF Open
  <2>2. CASE UNCHANGED readerVars
    BY <2>2 DEF readerVars, HistoryInv, WholeReadsNeverPanic
  <2>3. ASSUME ~Open PROVE UNCHANGED readerVars
    BY <2>3 DEF Next, vars, readerVars, SelectTracks, AreaDone, Complete, Ended,
                TrackRejected, ExtractTrack, TrackFails, TrackPanics
  <2> QED
    BY <2>1, <2>2, <2>3
<1>3. HistoryInv => WholeReadsNeverPanic
  BY DEF HistoryInv, WholeReadsNeverPanic
<1> QED
  BY <1>1, <1>2, <1>3, PTL DEF Spec

-----------------------------------------------------------------------------
(* One intact copy is enough *)

\* The least of a set of sectors: a non-empty set of naturals has a least element, which Min chooses.
LEMMA MinOfNats ==
    ASSUME NEW S \in SUBSET Nat, S # {}
    PROVE  Min(S) \in S /\ \A x \in S : Min(S) <= x
<1>1. PICK m \in S : \A x \in S : ~(<<x, m>> \in OpToRel(<, Nat))
  BY NatLessThanWellFounded, WFMin
<1>2. \A x \in S : m <= x
  <2> TAKE x \in S
  <2>1. m \in Nat /\ x \in Nat
    OBVIOUS
  <2>2. <<x, m>> \in Nat \X Nat /\ x < m => <<x, m>> \in OpToRel(<, Nat)
    BY Zenon DEF OpToRel
  <2>3. ~(x < m)
    BY <1>1, <2>1, <2>2
  <2> QED
    BY <2>1, <2>3
<1> QED
  BY <1>2 DEF Min

\* A TOC with all its tables.
WithAllTables(p) == p # <<>> /\ p[1].tables = Tables

\* An intact copy that is read in full, with whatever may follow it, is accepted
\* with all its tables.
LEMMA IntactIsParsed ==
    ASSUME NEW a \in Areas, NEW k \in Copies, disc \in Discs,
           Intact(a, disc[a].copies[k]), NEW n \in Nat, n >= disc[a].tocSize
    PROVE  WithAllTables(FromBytes(disc[a].copies[k], n))
<1> DEFINE c == disc[a].copies[k]
<1>1. /\ n \in Nat \ {0} /\ c.size \in Nat \ {0}
      /\ c.text \in Nat /\ disc[a].tocSize \in Nat
  BY DiscsAssumption DEF Areas, Copies
<1>2. Min({n, c.size}) = c.size
  <2>1. c.size <= n
    BY <1>1 DEF Intact
  <2>2. {n, c.size} \in SUBSET Nat /\ {n, c.size} # {}
    BY <1>1
  <2>3. /\ Min({n, c.size}) \in {n, c.size}
        /\ \A x \in {n, c.size} : Min({n, c.size}) <= x
    BY <2>2, MinOfNats
  <2> HIDE DEF c
  <2> QED
    BY <1>1, <2>1, <2>3
<1>3. Searched(c, n) = 1..(c.size - 1)
  BY <1>2 DEF Searched
<1>4. \A t \in Tables : Found(c, t, n)
  BY <1>3 DEF Found, Intact
<1>5. ~IglCut(c, n)
  <2> DEFINE S == {s \in Searched(c, n) : c.sectors[s] = "igl"}
  <2>1. PICK s \in 1..(c.size - 1) : c.sectors[s] = "igl" /\ s + 1 < c.size
    BY DEF Intact, Tables
  <2>2. s \in S /\ S \in SUBSET Nat
    BY <1>3, <2>1
  <2>3. Min(S) \in Nat /\ Min(S) <= s
    BY <2>2, MinOfNats
  <2>4. Min(S) + 1 < n
    BY <1>1, <2>1, <2>3 DEF Intact
  <2> QED
    BY <1>1, <2>3, <2>4 DEF IglCut
<1>6. ~Rejected(c, n)
  BY <1>1 DEF Rejected, HeaderUnreadable, TextUnreadable, Intact
<1> QED
  BY <1>4, <1>5, <1>6 DEF FromBytes, WithAllTables

\* An area's TOC, or none.
Optional == {<<>>} \cup {<<t>> : t \in Tocs}

\* from_bytes yields a TOC or none, whatever was delivered.
LEMMA FromBytesType ==
    ASSUME NEW a \in Areas, NEW k \in Copies, NEW n, disc \in Discs
    PROVE  FromBytes(disc[a].copies[k], n) \in Optional
<1> DEFINE c == disc[a].copies[k]
           found == {t \in Tables : Found(c, t, n)}
<1>1. c.size \in Nat
  BY DiscsAssumption DEF Areas, Copies
<1>2. found \in SUBSET Tables
  OBVIOUS
<1>3. [size |-> c.size, tables |-> found] \in Tocs
  <2> HIDE DEF c, found
  <2> QED
    BY <1>1, <1>2 DEF Tocs
<1> QED
  BY <1>3 DEF FromBytes, Optional

OpeningTypes ==
    /\ disc \in Discs /\ at \in Areas \X Copies
    /\ parsed \in [Areas -> [Copies -> Optional]]
    /\ toc \in [Areas -> Optional]
    /\ whole \in [Areas -> [Copies -> BOOLEAN]]

\* An intact copy that was read in full was parsed with all its tables.
WholeIsParsed ==
    pc # "panicked" => \A a \in Areas : \A k \in Copies :
      whole[a][k] /\ Intact(a, disc[a].copies[k]) => WithAllTables(parsed[a][k])

\* The TOC of an area is chosen from its two copies, except between the two.
TocIsChosen ==
    \A a \in Areas :
      a # at[1] \/ at[2] = 1 \/ pc = "open" => toc[a] = Choose(parsed[a])

OpeningInv == OpeningTypes /\ WholeIsParsed /\ TocIsChosen

\* Every step of the opening preserves it: what ReadTocCopy does to one copy
\* leaves what is known of the others, and the second copy brings the choice.
LEMMA OpeningStep ==
    ASSUME OpeningInv, ReaderNext
    PROVE  OpeningInv'
<1> USE DEF OpeningInv, OpeningTypes
<1>1. CASE ReadMasterToc
  BY <1>1 DEF ReadMasterToc, WholeIsParsed, Intact, TocIsChosen
<1>2. CASE ReadMasterText
  BY <1>2 DEF ReadMasterText, WholeIsParsed, Intact, TocIsChosen
<1>3. CASE ReadTocCopy
  <2>0. PICK a \in Areas, k \in Copies : at = <<a, k>>
    OBVIOUS
  <2>1. PICK n \in Delivered(a, k) :
          /\ at = <<a, k>> /\ pc = "toc" /\ UNCHANGED disc
          /\ parsed' = [parsed EXCEPT ![a][k] = FromBytes(disc[a].copies[k], n)]
          /\ whole' = [whole EXCEPT ![a][k] = (n >= disc[a].tocSize)]
          /\ IF k = 1
             THEN at' = <<a, 2>> /\ UNCHANGED <<pc, toc>>
             ELSE /\ toc' = [toc EXCEPT ![a] = Choose(parsed'[a])]
                  /\ at' = IF a = 1 THEN <<2, 1>> ELSE at
                  /\ pc' = IF a = 1 THEN "toc" ELSE "open"
    BY <1>3, <2>0 DEF ReadTocCopy
  <2> DEFINE p == FromBytes(disc[a].copies[k], n)
             b == (n >= disc[a].tocSize)
  <2>2. disc[a].tocSize \in Nat
    BY DiscsAssumption DEF Areas
  <2>3. n \in Nat
    BY <2>1, <2>2, DiscsAssumption DEF Delivered, IsoDelivers, NetDelivers
  <2>4. p \in Optional /\ b \in BOOLEAN
    <3>1. p \in Optional
      BY FromBytesType
    <3>2. b \in BOOLEAN
      BY <2>2, <2>3
    <3> QED
      BY <3>1, <3>2
  <2>5. b /\ Intact(a, disc[a].copies[k]) => WithAllTables(p)
    BY <2>3, IntactIsParsed
  <2>6. parsed' = [parsed EXCEPT ![a][k] = p] /\ whole' = [whole EXCEPT ![a][k] = b]
    BY <2>1
  <2> HIDE DEF p, b
  <2>7. /\ parsed' \in [Areas -> [Copies -> Optional]]
        /\ whole' \in [Areas -> [Copies -> BOOLEAN]]
    BY <2>4, <2>6
  <2>8. at' \in Areas \X Copies
    BY <2>1 DEF Areas, Copies
  <2>9. toc' \in [Areas -> Optional]
    <3>1. parsed'[a] \in [Copies -> Optional]
      BY <2>7
    <3>2. Choose(parsed'[a]) \in Optional
      BY <3>1 DEF Choose, Copies
    <3> QED
      BY <2>1, <3>2
  <2>10. WholeIsParsed'
    <3>1. \A x \in Areas, y \in Copies :
            Intact(x, disc[x].copies[y])' <=> Intact(x, disc[x].copies[y])
      BY <2>1 DEF Intact
    <3>2. \A x \in Areas, y \in Copies :
            /\ whole'[x][y] = IF x = a /\ y = k THEN b ELSE whole[x][y]
            /\ parsed'[x][y] = IF x = a /\ y = k THEN p ELSE parsed[x][y]
      BY <2>6
    <3> QED
      BY <2>1, <2>5, <3>1, <3>2 DEF WholeIsParsed
  <2>11. TocIsChosen'
    <3>1. \A other \in Areas \ {a} :
            toc'[other] = toc[other] /\ parsed'[other] = parsed[other]
      BY <2>1, <2>6
    <3>2. \A other \in Areas \ {a} : toc'[other] = Choose(parsed'[other])
      BY <2>1, <3>1 DEF TocIsChosen
    <3>3. CASE k = 1
      BY <2>1, <3>2, <3>3 DEF TocIsChosen
    <3>4. CASE k = 2
      <4>1. toc'[a] = Choose(parsed'[a])
        BY <2>1, <3>4
      <4> QED
        BY <3>2, <4>1 DEF TocIsChosen
    <3> QED
      BY <3>3, <3>4 DEF Copies
  <2> QED
    BY <2>1, <2>7, <2>8, <2>9, <2>10, <2>11
<1>4. CASE TocPanics
  <2>1. pc' = "panicked" /\ UNCHANGED <<disc, at, parsed, toc>>
    BY <1>4 DEF TocPanics
  <2>2. whole' \in [Areas -> [Copies -> BOOLEAN]]
    BY <1>4 DEF TocPanics
  <2> QED
    BY <2>1, <2>2 DEF WholeIsParsed, TocIsChosen
<1> QED
  BY <1>1, <1>2, <1>3, <1>4 DEF ReaderNext

\* On every disc, whatever the other copy holds and however much of it was
\* delivered: a copy that is intact and was read in full gives the area a TOC
\* with all its tables when the other yields none, and an area is missing only
\* if both yield none.
THEOREM IntactSuffices == Spec => []IntactCopySuffices
<1>1. Init => OpeningInv
  BY DEF Init, ReaderInit, OpeningInv, OpeningTypes, WholeIsParsed, TocIsChosen, Choose,
         Optional, Areas, Copies
<1>2. OpeningInv /\ [Next]_vars => OpeningInv'
  <2> SUFFICES ASSUME OpeningInv, [Next]_vars PROVE OpeningInv'
    OBVIOUS
  <2>1. CASE Open
    BY <2>1, OpeningStep DEF Open
  <2>2. CASE UNCHANGED readerVars
    BY <2>2 DEF readerVars, OpeningInv, OpeningTypes, WholeIsParsed, Intact, TocIsChosen
  <2>3. ASSUME ~Open PROVE UNCHANGED readerVars
    BY <2>3 DEF Next, vars, readerVars, SelectTracks, AreaDone, Complete, Ended,
                TrackRejected, ExtractTrack, TrackFails, TrackPanics
  <2> QED
    BY <2>1, <2>2, <2>3
<1>3. OpeningInv => IntactCopySuffices
  <2> SUFFICES ASSUME OpeningInv, pc = "open", NEW a \in Areas
               PROVE  /\ toc[a] = <<>> => parsed[a] = [k \in Copies |-> <<>>]
                      /\ \A k \in Copies :
                           (Intact(a, disc[a].copies[k]) /\ whole[a][k] /\ parsed[a][3 - k] = <<>>)
                             => toc[a] # <<>> /\ toc[a][1].tables = Tables
    BY DEF IntactCopySuffices
  <2>1. toc[a] = Choose(parsed[a]) /\ parsed[a] \in [Copies -> Optional]
    BY DEF OpeningInv, OpeningTypes, TocIsChosen
  <2>2. toc[a] = <<>> => parsed[a] = [k \in Copies |-> <<>>]
    <3> SUFFICES ASSUME toc[a] = <<>> PROVE parsed[a] = [k \in Copies |-> <<>>]
      OBVIOUS
    <3>1. parsed[a][1] = <<>> /\ parsed[a][2] = <<>>
      BY <2>1 DEF Choose
    <3> QED
      BY <2>1, <3>1 DEF Copies
  <2>3. ASSUME NEW k \in Copies, Intact(a, disc[a].copies[k]), whole[a][k],
               parsed[a][3 - k] = <<>>
        PROVE  toc[a] # <<>> /\ toc[a][1].tables = Tables
    <3>2. parsed[a][k] # <<>> /\ parsed[a][k][1].tables = Tables
      BY <2>3 DEF OpeningInv, WholeIsParsed, WithAllTables
    <3>3. toc[a] = parsed[a][k]
      BY <2>1, <2>3, <3>2 DEF Choose, Copies
    <3> QED
      BY <3>2, <3>3
  <2> QED
    BY <2>2, <2>3
<1> QED
  BY <1>1, <1>2, <1>3, PTL DEF Spec

-----------------------------------------------------------------------------
(* The track selection *)

\* The elements of a finite set of numbers can be listed from low to high: by
\* induction on an upper bound, the highest goes behind the others.
LEMMA EnumerationExists ==
    \A n \in Nat : \A S \in SUBSET (1..n) :
      /\ IsFiniteSet(S)
      /\ \E seq \in [1..Cardinality(S) -> S] : ToSet(seq) = S /\ Ascending(seq)
<1> DEFINE Enumerable(S) ==
             /\ IsFiniteSet(S)
             /\ \E seq \in [1..Cardinality(S) -> S] : ToSet(seq) = S /\ Ascending(seq)
           X == {n \in Nat : \A S \in SUBSET (1..n) : Enumerable(S)}
<1>1. 0 \in X
  <2> SUFFICES ASSUME NEW S \in SUBSET (1..0) PROVE Enumerable(S)
    OBVIOUS
  <2>0. S = {}
    OBVIOUS
  <2>1. S = {} /\ IsFiniteSet(S) /\ Cardinality(S) = 0
    BY <2>0, FS_EmptySet
  <2>2. <<>> \in [1..0 -> {}] /\ ToSet(<<>>) = {} /\ Ascending(<<>>)
    BY DEF ToSet, Ascending
  <2> QED
    BY <2>1, <2>2
<1>2. ASSUME NEW n \in Nat, n \in X PROVE n + 1 \in X
  <2> SUFFICES ASSUME NEW S \in SUBSET (1..(n + 1)) PROVE Enumerable(S)
    OBVIOUS
  <2>1. CASE n + 1 \notin S
    <3>1. S \in SUBSET (1..n)
      BY <2>1
    <3> QED
      BY <1>2, <3>1
  <2>2. CASE n + 1 \in S
    <3> DEFINE T == S \ {n + 1}
               k == Cardinality(T)
    <3>1. T \in SUBSET (1..n)
      OBVIOUS
    <3>2. IsFiniteSet(T)
      BY <1>2, <3>1
    <3>3. PICK s \in [1..k -> T] : ToSet(s) = T /\ Ascending(s)
      BY <1>2, <3>1
    <3>4. k \in Nat
      BY <3>2, FS_CardinalityType
    <3>5. T \cup {n + 1} = S /\ n + 1 \notin T
      BY <2>2
    <3> HIDE DEF T
    <3>6. IsFiniteSet(S) /\ Cardinality(S) = k + 1
      BY <3>2, <3>5, FS_AddElement
    <3> DEFINE r == [i \in 1..(k + 1) |-> IF i <= k THEN s[i] ELSE n + 1]
    <3> HIDE DEF k
    <3>7. \A i \in 1..k : i \in 1..(k + 1) /\ r[i] = s[i] /\ s[i] \in T
      BY <3>3, <3>4
    <3>8. k + 1 \in 1..(k + 1) /\ r[k + 1] = n + 1
      BY <3>4
    <3>9. \A i \in 1..(k + 1) : i = k + 1 \/ i \in 1..k
      BY <3>4
    <3>10. DOMAIN r = 1..(k + 1) /\ DOMAIN s = 1..k
      BY <3>3
    <3> HIDE DEF r
    <3>11. \A i \in 1..(k + 1) : r[i] \in S
      BY <3>5, <3>7, <3>8, <3>9
    <3>12. r \in [1..(k + 1) -> S]
      BY <3>10, <3>11 DEF r
    <3>13. ToSet(r) = S
      <4>1. ASSUME NEW x \in S PROVE \E i \in 1..(k + 1) : r[i] = x
        <5>1. CASE x = n + 1
          BY <3>8, <5>1
        <5>2. CASE x # n + 1
          <6>1. x \in ToSet(s)
            BY <3>3, <3>5, <5>2
          <6>2. PICK i \in 1..k : s[i] = x
            BY <3>10, <6>1 DEF ToSet
          <6> QED
            BY <3>7, <6>2
        <5> QED
          BY <5>1, <5>2
      <4> QED
        BY <3>10, <3>11, <4>1 DEF ToSet
    <3>14. Ascending(r)
      <4> SUFFICES ASSUME NEW i \in 1..(k + 1), NEW j \in 1..(k + 1), i < j
                   PROVE  r[i] < r[j]
        BY <3>10 DEF Ascending
      <4>1. i \in 1..k
        BY <3>4
      <4>2. CASE j \in 1..k
        <5>1. s[i] < s[j]
          BY <3>3, <3>10, <4>1, <4>2 DEF Ascending
        <5> QED
          BY <3>7, <4>1, <4>2, <5>1
      <4>3. CASE j = k + 1
        <5>1. r[i] \in 1..n
          BY <3>1, <3>7, <4>1
        <5> QED
          BY <3>8, <4>3, <5>1
      <4> QED
        BY <3>9, <4>2, <4>3
    <3> QED
      BY <3>6, <3>12, <3>13, <3>14
  <2> QED
    BY <2>1, <2>2
<1> HIDE DEF X
<1>3. \A n \in Nat : n \in X
  BY <1>1, <1>2, NatSetInduction
<1> QED
  BY <1>3 DEF X

\* Of the parts of a selection the first and the last number are numbers.
LEMMA PartNumbers ==
    ASSUME NEW ps \in Seq(Seq(Nat)), NEW i \in 1..Len(ps), PartOk(ps[i])
    PROVE  /\ ps[i][1] \in Nat \ {0}
           /\ ps[i][Len(ps[i])] \in Nat
           /\ ps[i][1] <= ps[i][Len(ps[i])]
<1>1. ps[i] \in Seq(Nat)
  OBVIOUS
<1>2. Len(ps[i]) \in 1..2 /\ ps[i][1] > 0 /\ ps[i][1] <= ps[i][Len(ps[i])]
  BY DEF PartOk
<1>3. 1 \in 1..Len(ps[i]) /\ Len(ps[i]) \in 1..Len(ps[i])
  BY <1>1, <1>2
<1>4. ps[i][1] \in Nat /\ ps[i][Len(ps[i])] \in Nat
  BY <1>1, <1>3
<1> QED
  BY <1>2, <1>4

\* A selection without an error names positive numbers up to some highest one.
LEMMA ListedBounded ==
    ASSUME NEW ps \in Seq(Seq(Nat)), \A i \in DOMAIN ps : PartOk(ps[i])
    PROVE  \E m \in Nat : Listed(ps) \in SUBSET (1..m)
<1> DEFINE L == Len(ps)
           last(i) == ps[i][Len(ps[i])]
           X == {n \in Nat : n <= L => \E m \in Nat : \A i \in 1..n : last(i) <= m}
<1>0. L \in Nat /\ DOMAIN ps = 1..L
  OBVIOUS
<1>1. \A i \in 1..L : ps[i][1] \in Nat \ {0} /\ last(i) \in Nat
  BY <1>0, PartNumbers
<1> HIDE DEF last, L
<1>2. 0 \in X
  OBVIOUS
<1>3. ASSUME NEW n \in Nat, n \in X PROVE n + 1 \in X
  <2> SUFFICES ASSUME n + 1 <= L PROVE \E m \in Nat : \A i \in 1..(n + 1) : last(i) <= m
    OBVIOUS
  <2>1. PICK m \in Nat : \A i \in 1..n : last(i) <= m
    BY <1>0, <1>3
  <2>2. n + 1 \in 1..L /\ \A i \in 1..(n + 1) : i = n + 1 \/ i \in 1..n
    BY <1>0
  <2>3. last(n + 1) \in Nat /\ \A i \in 1..n : last(i) \in Nat
    BY <1>0, <1>1, <2>2
  <2>4. PICK h \in Nat : h >= m /\ h >= last(n + 1)
    <3>1. CASE m >= last(n + 1)
      BY <2>3, <3>1
    <3>2. CASE m < last(n + 1)
      BY <2>3, <3>2
    <3> QED
      BY <2>3, <3>1, <3>2
  <2>5. \A i \in 1..(n + 1) : last(i) <= h
    BY <2>1, <2>2, <2>3, <2>4
  <2> QED
    BY <2>5
<1> HIDE DEF X
<1>4. L \in X
  BY <1>0, <1>2, <1>3, NatSetInduction
<1>5. PICK m \in Nat : \A i \in 1..L : last(i) <= m
  BY <1>0, <1>4 DEF X
<1>6. ASSUME NEW x \in Listed(ps) PROVE x \in 1..m
  <2>1. PICK p \in ToSet(ps) : x \in p[1]..p[Len(p)]
    BY <1>6 DEF Listed
  <2>2. PICK i \in 1..L : ps[i] = p
    BY <1>0, <2>1 DEF ToSet
  <2>3. x \in ps[i][1]..last(i)
    BY <2>1, <2>2 DEF last
  <2>4. last(i) <= m /\ last(i) \in Nat /\ ps[i][1] \in Nat \ {0}
    BY <1>1, <1>5
  <2> QED
    BY <2>3, <2>4
<1> QED
  BY <1>6

\* What Sorted yields: every number named, once, in ascending order.
LEMMA SortedWorks ==
    ASSUME NEW ps \in Seq(Seq(Nat)), \A i \in DOMAIN ps : PartOk(ps[i])
    PROVE  /\ Sorted(ps) \in Seq(Nat \ {0})
           /\ ToSet(Sorted(ps)) = Listed(ps)
           /\ Ascending(Sorted(ps))
           /\ ps # <<>> => Sorted(ps) # <<>>
           /\ ps = <<>> => Sorted(ps) = <<>>
<1> DEFINE S == Listed(ps)
           s == Sorted(ps)
<1>1. PICK m \in Nat : S \in SUBSET (1..m)
  BY ListedBounded
<1>2. IsFiniteSet(S) /\ \E seq \in [1..Cardinality(S) -> S] : ToSet(seq) = S /\ Ascending(seq)
  BY <1>1, EnumerationExists
<1>3. s \in [1..Cardinality(S) -> S] /\ ToSet(s) = S /\ Ascending(s)
  <2> HIDE DEF S
  <2>1. s = CHOOSE seq \in [1..Cardinality(S) -> S] : ToSet(seq) = S /\ Ascending(seq)
    BY DEF Sorted, S
  <2> QED
    BY <1>2, <2>1
<1>4. Cardinality(S) \in Nat /\ S \subseteq Nat \ {0}
  BY <1>1, <1>2, FS_CardinalityType
<1> HIDE DEF S, s
<1>5. s \in Seq(Nat \ {0})
  <2>1. \A i \in 1..Cardinality(S) : s[i] \in Nat \ {0}
    BY <1>3, <1>4
  <2>2. s \in [1..Cardinality(S) -> Nat \ {0}]
    BY <1>3, <2>1
  <2> QED
    BY <1>4, <2>2
<1>6. ASSUME ps # <<>> PROVE s # <<>>
  <2>1. 1 \in DOMAIN ps /\ Len(ps) \in Nat /\ 1 \in 1..Len(ps)
    BY <1>6
  <2>2. ps[1][1] \in Nat \ {0} /\ ps[1][Len(ps[1])] \in Nat /\ ps[1][1] <= ps[1][Len(ps[1])]
    BY <2>1, PartNumbers
  <2>3. ps[1] \in ToSet(ps) /\ ps[1][1] \in ps[1][1]..ps[1][Len(ps[1])]
    BY <2>1, <2>2 DEF ToSet
  <2>4. ps[1][1] \in S
    BY <2>3 DEF Listed, S
  <2>5. ToSet(<<>>) = {}
    BY DEF ToSet
  <2> QED
    BY <1>3, <2>4, <2>5
<1>7. ASSUME ps = <<>> PROVE s = <<>>
  <2>1. S = {}
    BY <1>7 DEF S, Listed, ToSet
  <2>2. Cardinality(S) = 0
    BY <2>1, FS_EmptySet
  <2> QED
    BY <1>3, <2>2
<1> QED
  BY <1>3, <1>5, <1>6, <1>7 DEF s, S

-----------------------------------------------------------------------------
(* The inductive invariant of the command *)

\* The file of a track, by the range computed from the TOC.
FileOf(a, t) == [track |-> t, from |-> Sectors(a, t).from, to |-> Sectors(a, t).to]

CommandTypes ==
    /\ OpeningTypes
    /\ source \in {"iso", "net"}
    /\ pc \in {"master", "text", "toc", "open", "failed", "panicked"}
    /\ wanted \in SUBSET Areas /\ wanted # {} /\ parts \in Selections
    /\ area \in 1..3 /\ next \in Nat \ {0}
    /\ phase \in {"opening", "extracting", "ok", "err", "panicked"}
    /\ extracted \in [Areas -> Seq(Files)]

\* Before the selection was parsed, or when it was refused, nothing has begun.
NothingBegun ==
    /\ phase \notin {"extracting", "ok"} /\ selected = <<>> /\ area = 1 /\ next = 1
    /\ extracted = [a \in Areas |-> <<>>]

SelectionHolds ==
    /\ \A i \in DOMAIN parts : PartOk(parts[i])
    /\ selected = Sorted(parts) /\ pc = "open" /\ phase # "opening"

\* The areas are taken one behind the other, each in full.
AreasInOrder ==
    /\ phase = "ok" => area = 3
    /\ \A a \in Areas :
         /\ a > area => extracted[a] = <<>>
         /\ a = area => Len(extracted[a]) = next - 1
         /\ a < area /\ a \in wanted /\ toc[a] # <<>> => Len(extracted[a]) = Len(Requested(a))

\* The files of an area are those of the first tracks requested.
FilesAreRequested ==
    \A a \in Areas :
      /\ extracted[a] # <<>> => a \in wanted /\ toc[a] # <<>> /\ disc[a].perThree # 0
      /\ \A i \in 1..Len(extracted[a]) :
           i <= Len(Requested(a)) /\ \E t \in 1..Count(a) :
                                      Requested(a)[i] = t /\ extracted[a][i] = FileOf(a, t)

CommandInv ==
    /\ CommandTypes
    /\ WholeIsParsed /\ TocIsChosen
    /\ NothingBegun \/ SelectionHolds
    /\ AreasInOrder
    /\ FilesAreRequested

\* What the assumption says of an area of the disc at hand.
LEMMA AreaFacts ==
    ASSUME disc \in Discs, NEW a \in Areas
    PROVE  /\ U32 \in Nat \ {0}
           /\ Count(a) \in Nat
           /\ \A t \in 1..Count(a) : disc[a].times[t] \in Nat /\ disc[a].durs[t] \in Nat
           /\ \A t \in 1..Count(a) : disc[a].ranges[t].start \in 0..(U32 - 1)
           /\ \A t \in 1..Count(a) : disc[a].ranges[t].length \in 0..(U32 - 1)
           /\ disc[a].first \in 0..(U32 - 1) /\ disc[a].end \in 0..(U32 - 1)
           /\ disc[a].perThree \in {0, 14, 16}
<1> USE DEF Areas
<1>1. disc[a].times \in Seq(Nat) /\ disc[a].durs \in Seq(Nat)
  BY CommandAssumption
<1>2. Len(disc[a].times) = Len(disc[a].durs) /\ Len(disc[a].times) = Len(disc[a].ranges)
  BY CommandAssumption
<1>3. \A t \in 1..Len(disc[a].ranges) :
        disc[a].ranges[t].start \in 0..(U32 - 1) /\ disc[a].ranges[t].length \in 0..(U32 - 1)
  BY CommandAssumption
<1>4. /\ disc[a].first \in 0..(U32 - 1) /\ disc[a].end \in 0..(U32 - 1)
      /\ disc[a].perThree \in {0, 14, 16}
  BY CommandAssumption
<1>5. U32 \in Nat \ {0}
  BY CommandAssumption
<1>6. Count(a) = Len(disc[a].times) /\ Count(a) \in Nat
  BY <1>1 DEF Count
<1>7. \A t \in 1..Count(a) : disc[a].times[t] \in Nat /\ disc[a].durs[t] \in Nat
  <2> DEFINE times == disc[a].times
             durs == disc[a].durs
  <2>1. times \in Seq(Nat) /\ durs \in Seq(Nat) /\ Len(durs) = Count(a) /\ Len(times) = Count(a)
    BY <1>1, <1>2, <1>6
  <2> HIDE DEF times, durs
  <2>2. \A t \in 1..Count(a) : times[t] \in Nat /\ durs[t] \in Nat
    BY <2>1
  <2> QED
    BY <2>2 DEF times, durs
<1> QED
  BY <1>2, <1>3, <1>4, <1>5, <1>6, <1>7

\* Remainders and thirds.
LEMMA Remainder ==
    ASSUME NEW x \in Nat, NEW n \in Nat \ {0}
    PROVE  x % n \in 0..(n - 1) /\ (x < n => x % n = x)
OBVIOUS

LEMMA PlaceType ==
    ASSUME disc \in Discs, NEW a \in Areas, NEW f \in Nat
    PROVE  Place(a, f) \in Nat /\ SectorOf(a, f) \in 0..(U32 - 1)
<1>1. disc[a].first \in Nat /\ disc[a].perThree \in {0, 14, 16} /\ U32 \in Nat \ {0}
  BY AreaFacts
<1>2. (f * disc[a].perThree) \div 3 \in Nat
  BY <1>1
<1>3. Place(a, f) \in Nat
  BY <1>1, <1>2 DEF Place
<1> QED
  BY <1>1, <1>3, Remainder DEF SectorOf

\* The ranges are ranges of u32 numbers, wrapped or not.
LEMMA SectorsType ==
    ASSUME disc \in Discs, NEW a \in Areas, NEW t \in 1..Count(a)
    PROVE  Sectors(a, t).from \in 0..(U32 - 1) /\ Sectors(a, t).to \in 0..(U32 - 1)
<1>0. Count(a) \in Nat /\ U32 \in Nat \ {0}
  BY AreaFacts
<1>1. disc[a].first \in 0..(U32 - 1) /\ disc[a].end \in 0..(U32 - 1)
  BY AreaFacts
<1>2. StartOf(a, t) \in 0..(U32 - 1)
  <2>1. SectorOf(a, disc[a].times[t]) \in 0..(U32 - 1)
    BY AreaFacts, PlaceType
  <2> QED
    BY <1>1, <2>1 DEF StartOf
<1>3. EndOf(a, t) \in 0..(U32 - 1)
  <2>1. CASE t < Count(a)
    <3>1. t + 1 \in 1..Count(a)
      BY <1>0, <2>1
    <3>2. disc[a].times[t + 1] \in Nat
      BY <3>1, AreaFacts
    <3>3. SectorOf(a, disc[a].times[t + 1]) \in 0..(U32 - 1)
      BY <3>2, PlaceType
    <3> QED
      BY <2>1, <3>3 DEF EndOf
  <2>2. CASE ~(t < Count(a))
    BY <1>1, <2>2 DEF EndOf
  <2> QED
    BY <2>1, <2>2
<1>4. CASE Explicit(a, t)
  <2> DEFINE s == disc[a].ranges[t].start
             n == disc[a].ranges[t].length
  <2>1. s \in 0..(U32 - 1) /\ n \in 0..(U32 - 1)
    BY AreaFacts
  <2>2. Sectors(a, t) = [from |-> s, to |-> (s + n) % U32]
    BY <1>4 DEF Sectors
  <2> HIDE DEF s, n
  <2>3. (s + n) % U32 \in 0..(U32 - 1)
    <3>1. s + n \in Nat
      BY <1>0, <2>1
    <3> QED
      BY <1>0, <3>1, Remainder
  <2> QED
    BY <2>1, <2>2, <2>3
<1>5. CASE ~Explicit(a, t)
  <2>1. Sectors(a, t) = [from |-> StartOf(a, t), to |-> EndOf(a, t)]
    BY <1>5 DEF Sectors
  <2> QED
    BY <1>2, <1>3, <2>1
<1> QED
  BY <1>4, <1>5

\* What the tracks requested of an area are.
LEMMA RequestedWorks ==
    ASSUME CommandTypes, NothingBegun \/ SelectionHolds, NEW a \in Areas
    PROVE  /\ Requested(a) \in Seq(Nat \ {0})
           /\ Ascending(Requested(a))
           /\ SelectionHolds => ToSet(Requested(a)) = Named(a)
<1>1. parts \in Seq(Seq(Nat)) /\ disc \in Discs
  BY CommandAssumption DEF CommandTypes, OpeningTypes
<1>2. Count(a) \in Nat
  BY <1>1, AreaFacts
<1>3. CASE selected = <<>>
  <2> DEFINE r == [i \in 1..Count(a) |-> i]
  <2>1. Requested(a) = r
    BY <1>3 DEF Requested
  <2>2. r \in Seq(Nat \ {0}) /\ Ascending(r)
    BY <1>2 DEF Ascending
  <2>3. ToSet(r) = 1..Count(a)
    BY <1>2 DEF ToSet
  <2>4. SelectionHolds => parts = <<>>
    BY <1>1, <1>3, SortedWorks DEF SelectionHolds
  <2> HIDE DEF r
  <2> QED
    BY <2>1, <2>2, <2>3, <2>4 DEF Named
<1>4. CASE selected # <<>>
  <2>1. SelectionHolds
    BY <1>4 DEF NothingBegun
  <2>2. selected = Sorted(parts) /\ \A i \in DOMAIN parts : PartOk(parts[i])
    BY <2>1 DEF SelectionHolds
  <2>3. Requested(a) = Sorted(parts)
    BY <1>4, <2>2 DEF Requested
  <2>4. /\ Sorted(parts) \in Seq(Nat \ {0})
        /\ ToSet(Sorted(parts)) = Listed(parts)
        /\ Ascending(Sorted(parts))
    BY <1>1, <2>2, SortedWorks
  <2>5. parts # <<>>
    BY <1>1, <1>4, <2>2, SortedWorks
  <2> QED
    BY <2>3, <2>4, <2>5 DEF Named
<1> QED
  BY <1>3, <1>4

\* Opening the disc begins no extraction.
LEMMA OpenKeeps ==
    ASSUME CommandInv, Open
    PROVE  CommandInv'
<1> USE DEF CommandInv
<1>1. phase = "opening" /\ ReaderNext /\ phase' \in {"opening", "err", "panicked"}
  BY DEF Open
<1>2. UNCHANGED <<wanted, parts, selected, area, next, extracted>>
  BY DEF Open
<1>3. NothingBegun
  BY <1>1 DEF SelectionHolds
<1>4. NothingBegun'
  BY <1>1, <1>2, <1>3 DEF NothingBegun
<1>5. OpeningTypes' /\ WholeIsParsed' /\ TocIsChosen'
  BY <1>1, OpeningStep DEF OpeningInv, CommandTypes
<1>6. /\ source' \in {"iso", "net"}
      /\ pc' \in {"master", "text", "toc", "open", "failed", "panicked"}
  BY <1>1 DEF ReaderNext, ReadMasterToc, ReadMasterText, ReadTocCopy, TocPanics, CommandTypes
<1>7. CommandTypes'
  BY <1>1, <1>2, <1>5, <1>6 DEF CommandTypes
<1>8. extracted' = [a \in Areas |-> <<>>] /\ area' = 1 /\ next' = 1 /\ phase' # "ok"
  BY <1>4 DEF NothingBegun
<1>9. \A a \in Areas : extracted'[a] = <<>> /\ Len(extracted'[a]) = 0 /\ ~(a < area')
  BY <1>8 DEF Areas
<1>10. AreasInOrder'
  BY <1>8, <1>9 DEF AreasInOrder, Areas
<1>11. FilesAreRequested'
  BY <1>9 DEF FilesAreRequested
<1> QED
  BY <1>4, <1>5, <1>7, <1>10, <1>11

\* Parsing the selection.
LEMMA SelectKeeps ==
    ASSUME CommandInv, SelectTracks
    PROVE  CommandInv'
<1> USE DEF CommandInv
<1>1. phase = "opening" /\ pc = "open" /\ phase' \in {"extracting", "err"}
  BY DEF SelectTracks
<1>2. UNCHANGED <<disc, source, pc, at, parsed, toc, whole, wanted, parts, area, next, extracted>>
  BY DEF SelectTracks, readerVars
<1>3. NothingBegun
  BY <1>1 DEF SelectionHolds
<1>4. NothingBegun' \/ SelectionHolds'
  <2>1. CASE \A i \in DOMAIN parts : PartOk(parts[i])
    BY <1>1, <1>2, <2>1 DEF SelectTracks, SelectionHolds
  <2>2. CASE ~\A i \in DOMAIN parts : PartOk(parts[i])
    BY <1>1, <1>2, <1>3, <2>2 DEF SelectTracks, NothingBegun
  <2> QED
    BY <2>1, <2>2
<1>5. WholeIsParsed' /\ TocIsChosen' /\ CommandTypes'
  BY <1>1, <1>2 DEF CommandTypes, OpeningTypes, WholeIsParsed, Intact, TocIsChosen
<1>8. extracted' = [a \in Areas |-> <<>>] /\ area' = 1 /\ next' = 1 /\ phase' # "ok"
  BY <1>1, <1>2, <1>3 DEF NothingBegun
<1>9. \A a \in Areas : extracted'[a] = <<>> /\ Len(extracted'[a]) = 0 /\ ~(a < area')
  BY <1>8 DEF Areas
<1>10. AreasInOrder'
  BY <1>8, <1>9 DEF AreasInOrder, Areas
<1>11. FilesAreRequested'
  BY <1>9 DEF FilesAreRequested
<1> QED
  BY <1>4, <1>5, <1>10, <1>11

\* What is computed from the disc, the TOCs and the selection stays with them.
LEMMA Derived ==
    ASSUME UNCHANGED <<disc, toc, selected>>
    PROVE  \A a \in Areas : /\ Requested(a)' = Requested(a) /\ Count(a)' = Count(a)
                            /\ \A t \in Nat : FileOf(a, t)' = FileOf(a, t)
BY DEF Requested, Count, FileOf, Sectors, Explicit, StartOf, EndOf, SectorOf, Place

\* A step of the extraction that completes no file leaves all of it, but for the
\* place it has reached.
LEMMA Unmoved ==
    ASSUME CommandInv, phase = "extracting", AreasInOrder',
           phase' \in {"extracting", "ok", "err", "panicked"}, area' \in 1..3, next' \in Nat \ {0},
           UNCHANGED <<disc, source, pc, at, parsed, toc, whole, wanted, parts, selected, extracted>>
    PROVE  CommandInv'
<1> USE DEF CommandInv
<1>1. SelectionHolds'
  BY DEF NothingBegun, SelectionHolds
<1>2. WholeIsParsed' /\ TocIsChosen' /\ CommandTypes'
  BY DEF CommandTypes, OpeningTypes, WholeIsParsed, Intact, TocIsChosen
<1>3. FilesAreRequested'
  <2>1. \A a \in Areas : /\ Requested(a)' = Requested(a) /\ Count(a)' = Count(a)
                         /\ \A t \in Nat : FileOf(a, t)' = FileOf(a, t)
    BY Derived
  <2>2. \A a \in Areas : \A t \in 1..Count(a) : t \in Nat
    BY AreaFacts DEF CommandTypes, OpeningTypes
  <2>3. FilesAreRequested
    OBVIOUS
  <2> QED
    BY <2>1, <2>2, <2>3 DEF FilesAreRequested
<1> QED
  BY <1>1, <1>2, <1>3

\* Going on to the next area: the tracks of the one at hand are all there.
LEMMA AreaDoneKeeps ==
    ASSUME CommandInv, AreaDone
    PROVE  CommandInv'
<1>1. /\ phase = "extracting" /\ phase' = "extracting" /\ area \in 1..2 /\ area' = area + 1 /\ next' = 1
      /\ area \notin wanted \/ toc[area] = <<>> \/ next > Len(Requested(area))
  BY DEF AreaDone, CommandInv, CommandTypes
<1>2. UNCHANGED <<disc, source, pc, at, parsed, toc, whole, wanted, parts, selected, extracted>>
  BY DEF AreaDone, readerVars
<1>3. \A a \in Areas : Requested(a)' = Requested(a)
  BY <1>2 DEF Requested, Count
<1>4. \A a \in Areas : extracted[a] \in Seq(Files) /\ Requested(a) \in Seq(Nat \ {0})
  BY RequestedWorks DEF CommandInv, CommandTypes
<1>5. next \in Nat \ {0}
  BY DEF CommandInv, CommandTypes
<1>6. ASSUME NEW a \in Areas
      PROVE  /\ a > area' => extracted'[a] = <<>>
             /\ a = area' => Len(extracted'[a]) = next' - 1
             /\ a < area' /\ a \in wanted' /\ toc'[a] # <<>>
                  => Len(extracted'[a]) = Len(Requested(a)')
  <2>0. a \in 1..2
    BY DEF Areas
  <2>1. /\ a > area => extracted[a] = <<>>
        /\ a = area => Len(extracted[a]) = next - 1
        /\ a < area /\ a \in wanted /\ toc[a] # <<>> => Len(extracted[a]) = Len(Requested(a))
    BY DEF CommandInv, AreasInOrder
  <2>2. CASE a > area'
    BY <1>1, <1>2, <2>0, <2>1, <2>2
  <2>3. CASE a = area'
    <3>1. extracted'[a] = <<>>
      BY <1>1, <1>2, <2>0, <2>1, <2>3
    <3> QED
      BY <1>1, <2>3, <3>1
  <2>4. CASE a = area
    <3>1. a < area' /\ ~(a > area') /\ a # area'
      BY <1>1, <2>4
    <3>2. ASSUME a \in wanted, toc[a] # <<>> PROVE Len(extracted[a]) = Len(Requested(a))
      <4>1. next > Len(Requested(a)) /\ Len(extracted[a]) = next - 1
        BY <1>1, <2>1, <2>4, <3>2
      <4>2. Len(extracted[a]) <= Len(Requested(a))
        <5>1. CASE next = 1
          BY <1>4, <4>1, <5>1
        <5>2. CASE next # 1
          <6>1. next - 1 \in 1..Len(extracted[a])
            BY <1>5, <4>1, <5>2
          <6>2. next - 1 <= Len(Requested(a))
            BY <6>1 DEF CommandInv, FilesAreRequested
          <6> QED
            BY <4>1, <6>2
        <5> QED
          BY <5>1, <5>2
      <4>3. Len(Requested(a)) \in Nat
        BY <1>4
      <4> QED
        BY <1>5, <4>1, <4>2, <4>3
    <3> QED
      BY <1>2, <1>3, <3>1, <3>2
  <2>5. CASE a < area
    <3>1. a < area' /\ ~(a > area') /\ a # area'
      BY <1>1, <2>0, <2>5
    <3> QED
      BY <1>2, <1>3, <2>1, <2>5, <3>1
  <2> QED
    BY <1>1, <2>0, <2>2, <2>3, <2>4, <2>5
<1>7. AreasInOrder'
  BY <1>1, <1>6 DEF AreasInOrder
<1> QED
  BY <1>1, <1>2, <1>7, Unmoved

\* The end of both areas.
LEMMA CompleteKeeps ==
    ASSUME CommandInv, Complete
    PROVE  CommandInv'
<1>1. /\ phase = "extracting" /\ area = 3 /\ phase' = "ok"
      /\ UNCHANGED <<disc, source, pc, at, parsed, toc, whole, wanted, parts, selected, area, next, extracted>>
  BY DEF Complete, readerVars
<1>2. AreasInOrder'
  BY <1>1 DEF CommandInv, AreasInOrder, Requested, Count
<1>3. area' \in 1..3 /\ next' \in Nat \ {0}
  BY <1>1 DEF CommandInv, CommandTypes
<1> QED
  BY <1>1, <1>2, <1>3, Unmoved

\* A track that is refused, or fails, or panics ends the command.
LEMMA EndKeeps ==
    ASSUME CommandInv, TrackRejected \/ TrackFails \/ TrackPanics
    PROVE  CommandInv'
<1>1. /\ phase = "extracting" /\ phase' \in {"err", "panicked"}
      /\ UNCHANGED <<disc, source, pc, at, parsed, toc, whole, wanted, parts, selected, area, next, extracted>>
  BY DEF TrackRejected, TrackFails, TrackPanics, AtTrack, readerVars
<1>2. AreasInOrder'
  BY <1>1 DEF CommandInv, AreasInOrder, Requested, Count
<1>3. area' \in 1..3 /\ next' \in Nat \ {0}
  BY <1>1 DEF CommandInv, CommandTypes
<1> QED
  BY <1>1, <1>2, <1>3, Unmoved

\* The next file of the area at hand.
LEMMA ExtractKeeps ==
    ASSUME CommandInv, ExtractTrack
    PROVE  CommandInv'
<1> DEFINE a == area
           t == track
           file == FileOf(a, t)
<1>1. /\ phase = "extracting" /\ a \in 1..2 /\ a \in wanted /\ toc[a] # <<>>
      /\ next <= Len(Requested(a)) /\ ~(track > Count(a)) /\ disc[a].perThree # 0
  BY DEF ExtractTrack, AtTrack, Rejects, CommandInv, CommandTypes, Areas
<1>2. /\ next' = next + 1
      /\ UNCHANGED <<disc, source, pc, at, parsed, toc, whole, wanted, parts, selected, area, phase>>
  BY DEF ExtractTrack, readerVars
<1>3. extracted' = [extracted EXCEPT ![a] = Append(@, file)]
  BY DEF ExtractTrack, FileOf
<1>4. a \in Areas /\ next \in Nat \ {0} /\ disc \in Discs
  BY <1>1 DEF Areas, CommandInv, CommandTypes, OpeningTypes
<1>5. Requested(a) \in Seq(Nat \ {0})
  BY <1>4, RequestedWorks DEF CommandInv
<1>6. next \in 1..Len(Requested(a)) /\ t = Requested(a)[next]
  BY <1>1, <1>4, <1>5 DEF track
<1>7. t \in Nat \ {0}
  BY <1>5, <1>6
<1>8. t \in 1..Count(a) /\ Count(a) \in Nat
  BY <1>1, <1>4, <1>7, AreaFacts
<1>9. file \in Files
  <2>1. Sectors(a, t).from \in 0..(U32 - 1) /\ Sectors(a, t).to \in 0..(U32 - 1)
    BY <1>4, <1>8, SectorsType
  <2> HIDE DEF t
  <2> QED
    BY <1>7, <2>1 DEF FileOf, Files
<1>10. extracted \in [Areas -> Seq(Files)]
  BY DEF CommandInv, CommandTypes
<1>11. Len(extracted[a]) = next - 1
  BY <1>4 DEF CommandInv, AreasInOrder
<1>12. \A b \in Areas : /\ Requested(b)' = Requested(b) /\ Count(b)' = Count(b)
                        /\ \A u \in Nat : FileOf(b, u)' = FileOf(b, u)
  BY <1>2, Derived
<1> HIDE DEF file, t
<1>13. /\ extracted' \in [Areas -> Seq(Files)]
       /\ extracted'[a] = Append(extracted[a], file)
       /\ \A b \in Areas \ {a} : extracted'[b] = extracted[b]
  BY <1>3, <1>4, <1>9, <1>10
<1>14. /\ Len(extracted'[a]) = next
       /\ extracted'[a][next] = file
       /\ \A i \in 1..(next - 1) : extracted'[a][i] = extracted[a][i]
  <2>1. extracted[a] \in Seq(Files)
    BY <1>4, <1>10
  <2> QED
    BY <1>4, <1>9, <1>11, <1>13, <2>1
<1> HIDE DEF a
<1>15. SelectionHolds'
  BY <1>1, <1>2 DEF CommandInv, NothingBegun, SelectionHolds
<1>16. WholeIsParsed' /\ TocIsChosen'
  BY <1>2 DEF CommandInv, WholeIsParsed, Intact, TocIsChosen
<1>17. CommandTypes'
  BY <1>2, <1>4, <1>13 DEF CommandInv, CommandTypes, OpeningTypes
<1>18. AreasInOrder'
  <2> SUFFICES ASSUME NEW b \in Areas
               PROVE  /\ b > area' => extracted'[b] = <<>>
                      /\ b = area' => Len(extracted'[b]) = next' - 1
                      /\ b < area' /\ b \in wanted' /\ toc'[b] # <<>>
                           => Len(extracted'[b]) = Len(Requested(b)')
    BY <1>1, <1>2 DEF AreasInOrder
  <2>1. /\ b > area => extracted[b] = <<>>
        /\ b < area /\ b \in wanted /\ toc[b] # <<>> => Len(extracted[b]) = Len(Requested(b))
    BY DEF CommandInv, AreasInOrder
  <2>2. CASE b = a
    <3>1. ~(b > area') /\ ~(b < area') /\ b = area'
      BY <1>1, <1>2, <2>2 DEF a
    <3>2. Len(extracted'[b]) = next' - 1
      BY <1>2, <1>4, <1>14, <2>2
    <3> QED
      BY <3>1, <3>2
  <2>3. CASE b # a
    <3>1. b # area' /\ extracted'[b] = extracted[b] /\ area' = area
      BY <1>2, <1>13, <2>3 DEF a
    <3>2. Requested(b)' = Requested(b) /\ toc' = toc /\ wanted' = wanted
      BY <1>2, <1>12
    <3> QED
      BY <2>1, <3>1, <3>2
  <2> QED
    BY <2>2, <2>3
<1>19. FilesAreRequested'
  <2>1. ASSUME NEW b \in Areas
        PROVE  /\ extracted'[b] # <<>> => b \in wanted /\ toc[b] # <<>> /\ disc[b].perThree # 0
               /\ \A i \in 1..Len(extracted'[b]) :
                    i <= Len(Requested(b)) /\ \E u \in 1..Count(b) :
                                               Requested(b)[i] = u /\ extracted'[b][i] = FileOf(b, u)
    <3>1. /\ extracted[b] # <<>> => b \in wanted /\ toc[b] # <<>> /\ disc[b].perThree # 0
          /\ \A i \in 1..Len(extracted[b]) :
               i <= Len(Requested(b)) /\ \E u \in 1..Count(b) :
                                          Requested(b)[i] = u /\ extracted[b][i] = FileOf(b, u)
      BY DEF CommandInv, FilesAreRequested
    <3>2. CASE b # a
      <4>1. extracted'[b] = extracted[b]
        BY <1>13, <3>2
      <4> QED
        BY <3>1, <4>1
    <3>3. CASE b = a
      <4>1. b \in wanted /\ toc[b] # <<>> /\ disc[b].perThree # 0
        BY <1>1, <3>3
      <4>2. next <= Len(Requested(b)) /\ Requested(b)[next] = t /\ t \in 1..Count(b)
        BY <1>6, <1>8, <3>3
      <4>3. extracted'[b][next] = FileOf(b, t)
        BY <1>14, <3>3 DEF file
      <4>4. \A i \in 1..next : i = next \/ i \in 1..(next - 1)
        BY <1>4
      <4>5. \A i \in 1..(next - 1) : extracted'[b][i] = extracted[b][i]
        BY <1>14, <3>3
      <4>6. Len(extracted[b]) = next - 1 /\ Len(extracted'[b]) = next
        BY <1>11, <1>14, <3>3
      <4> QED
        BY <3>1, <4>1, <4>2, <4>3, <4>4, <4>5, <4>6
    <3> QED
      BY <3>2, <3>3
  <2>2. \A b \in Areas : \A u \in 1..Count(b) : u \in Nat
    BY <1>4, AreaFacts
  <2> QED
    BY <1>2, <1>12, <2>1, <2>2 DEF FilesAreRequested
<1> QED
  BY <1>15, <1>16, <1>17, <1>18, <1>19 DEF CommandInv

\* The invariant, for every disc, delivery and selection.
THEOREM CommandInvariant == Spec => []CommandInv
<1>1. Init => CommandInv
  <2> SUFFICES ASSUME Init PROVE CommandInv
    OBVIOUS
  <2>1. ReaderInit
    BY DEF Init
  <2>2. OpeningTypes /\ WholeIsParsed /\ TocIsChosen
    BY <2>1 DEF ReaderInit, OpeningTypes, WholeIsParsed, TocIsChosen, Choose, Optional, Areas, Copies
  <2>3. extracted \in [Areas -> Seq(Files)] /\ extracted = [a \in Areas |-> <<>>]
    BY DEF Init
  <2>4. CommandTypes
    <3>1. wanted \in SUBSET Areas /\ wanted # {}
      BY DEF Init, Areas
    <3>2. /\ source \in {"iso", "net"} /\ pc = "master" /\ phase = "opening"
          /\ area = 1 /\ next = 1 /\ parts \in Selections
      BY DEF Init, ReaderInit
    <3> QED
      BY <2>2, <2>3, <3>1, <3>2 DEF CommandTypes
  <2>5. NothingBegun /\ area = 1 /\ next = 1 /\ phase # "ok"
    BY <2>3 DEF Init, NothingBegun
  <2>6. \A a \in Areas : extracted[a] = <<>> /\ Len(extracted[a]) = 0 /\ ~(a < area)
    BY <2>3, <2>5 DEF Areas
  <2>7. AreasInOrder
    BY <2>5, <2>6 DEF AreasInOrder, Areas
  <2>8. FilesAreRequested
    BY <2>6 DEF FilesAreRequested
  <2> QED
    BY <2>2, <2>4, <2>5, <2>7, <2>8 DEF CommandInv
<1>2. CommandInv /\ [Next]_vars => CommandInv'
  <2> SUFFICES ASSUME CommandInv, [Next]_vars PROVE CommandInv'
    OBVIOUS
  <2>1. CASE UNCHANGED vars
    <3>1. UNCHANGED <<disc, source, pc, at, parsed, toc, whole, wanted, parts, selected, area,
                      next, extracted, phase>>
      BY <2>1 DEF vars
    <3>2. CommandTypes' /\ WholeIsParsed' /\ TocIsChosen'
      BY <3>1 DEF CommandInv, CommandTypes, OpeningTypes, WholeIsParsed, Intact, TocIsChosen
    <3>3. NothingBegun' \/ SelectionHolds'
      BY <3>1 DEF CommandInv, NothingBegun, SelectionHolds
    <3>4. AreasInOrder'
      BY <3>1 DEF CommandInv, AreasInOrder, Requested, Count
    <3>5. FilesAreRequested'
      <4>1. \A a \in Areas : /\ Requested(a)' = Requested(a) /\ Count(a)' = Count(a)
                             /\ \A t \in Nat : FileOf(a, t)' = FileOf(a, t)
        BY <3>1, Derived
      <4>2. \A a \in Areas : \A t \in 1..Count(a) : t \in Nat
        BY AreaFacts DEF CommandInv, CommandTypes, OpeningTypes
      <4>3. FilesAreRequested
        BY DEF CommandInv
      <4> QED
        BY <3>1, <4>1, <4>2, <4>3 DEF FilesAreRequested
    <3> QED
      BY <3>2, <3>3, <3>4, <3>5 DEF CommandInv
  <2>2. CASE Open
    BY <2>2, OpenKeeps
  <2>3. CASE SelectTracks
    BY <2>3, SelectKeeps
  <2>4. CASE AreaDone
    BY <2>4, AreaDoneKeeps
  <2>5. CASE Complete
    BY <2>5, CompleteKeeps
  <2>6. CASE TrackRejected \/ TrackFails \/ TrackPanics
    BY <2>6, EndKeeps
  <2>7. CASE ExtractTrack
    BY <2>7, ExtractKeeps
  <2> QED
    BY <2>1, <2>2, <2>3, <2>4, <2>5, <2>6, <2>7 DEF Next, Ended
<1> QED
  BY <1>1, <1>2, PTL DEF Spec

-----------------------------------------------------------------------------
(* What follows from it *)

\* A file that is there, and the track it was made of.
LEMMA FileFacts ==
    ASSUME CommandInv, NEW a \in Areas, NEW i \in 1..Len(extracted[a])
    PROVE  /\ i \in 1..Len(Requested(a))
           /\ Requested(a)[i] \in 1..Count(a)
           /\ extracted[a][i] = FileOf(a, Requested(a)[i])
           /\ extracted[a][i].track = Requested(a)[i]
           /\ extracted[a][i].from = Sectors(a, Requested(a)[i]).from
           /\ extracted[a][i].to = Sectors(a, Requested(a)[i]).to
           /\ a \in wanted /\ toc[a] # <<>> /\ disc[a].perThree \in {14, 16}
<1>1. disc \in Discs /\ extracted[a] \in Seq(Files) /\ extracted[a] # <<>>
  BY DEF CommandInv, CommandTypes, OpeningTypes
<1>2. Requested(a) \in Seq(Nat \ {0})
  BY RequestedWorks DEF CommandInv
<1>3. /\ i <= Len(Requested(a)) /\ Requested(a)[i] <= Count(a)
      /\ extracted[a][i] = FileOf(a, Requested(a)[i])
      /\ a \in wanted /\ toc[a] # <<>> /\ disc[a].perThree # 0
  BY <1>1 DEF CommandInv, FilesAreRequested
<1>4. i \in 1..Len(Requested(a)) /\ Requested(a)[i] \in Nat \ {0}
  BY <1>1, <1>2, <1>3
<1>5. Count(a) \in Nat /\ disc[a].perThree \in {14, 16}
  BY <1>1, <1>3, AreaFacts
<1> QED
  BY <1>3, <1>4, <1>5 DEF FileOf

\* Where something was extracted, the selection was parsed.
LEMMA SelectionParsed ==
    ASSUME CommandInv, NEW a \in Areas, extracted[a] # <<>> \/ phase = "ok"
    PROVE  SelectionHolds
BY DEF CommandInv, NothingBegun

\* The tracks in the files are positions of the tracks requested.
LEMMA DoneAre ==
    ASSUME CommandInv, NEW a \in Areas
    PROVE  Done(a) = {Requested(a)[i] : i \in 1..Len(extracted[a])}
<1>1. DOMAIN extracted[a] = 1..Len(extracted[a])
  BY DEF CommandInv, CommandTypes
<1>2. \A i \in 1..Len(extracted[a]) : extracted[a][i].track = Requested(a)[i]
  BY FileFacts
<1> QED
  BY <1>1, <1>2 DEF Done, ToSet

\* Every value of every variable is one the program's types hold: sector numbers
\* stay u32, tracks exist in their area.
THEOREM CommandTypeCorrect == Spec => []TypeOK
<1>1. CommandInv => TypeOK
  <2> SUFFICES ASSUME CommandInv PROVE TypeOK
    OBVIOUS
  <2>1. ReaderTypeOK
    BY DEF CommandInv, CommandTypes, OpeningTypes, ReaderTypeOK, Optional
  <2>2. selected \in Seq(Nat \ {0})
    <3>1. CASE NothingBegun
      BY <3>1 DEF NothingBegun
    <3>2. CASE SelectionHolds
      <4>1. parts \in Seq(Seq(Nat))
        BY CommandAssumption DEF CommandInv, CommandTypes
      <4> QED
        BY <3>2, <4>1, SortedWorks DEF SelectionHolds
    <3> QED
      BY <3>1, <3>2 DEF CommandInv
  <2>3. \A a \in Areas : \A i \in DOMAIN extracted[a] :
          a \in wanted /\ extracted[a][i].track \in 1..Count(a)
    <3>1. \A a \in Areas : DOMAIN extracted[a] = 1..Len(extracted[a])
      BY DEF CommandInv, CommandTypes
    <3> QED
      BY <3>1, FileFacts
  <2> QED
    BY <2>1, <2>2, <2>3 DEF CommandInv, CommandTypes, TypeOK
<1> QED
  BY <1>1, CommandInvariant, PTL

\* When the command reports success, the files of each area asked for are
\* exactly those of the tracks named, each once and in ascending order, or no
\* copy of its TOC could be parsed.
THEOREM SuccessIsComplete == Spec => []OkMeansAllTracks
<1>1. CommandInv => OkMeansAllTracks
  <2> SUFFICES ASSUME CommandInv, phase = "ok", NEW a \in wanted,
                      parsed[a] # [k \in Copies |-> <<>>]
               PROVE  /\ Done(a) = Named(a)
                      /\ Ascending([i \in DOMAIN extracted[a] |-> extracted[a][i].track])
    BY DEF OkMeansAllTracks
  <2>1. a \in Areas /\ SelectionHolds /\ area = 3
    BY SelectionParsed DEF CommandInv, CommandTypes, AreasInOrder, Areas
  <2>2. toc[a] # <<>>
    <3>1. toc[a] = Choose(parsed[a]) /\ parsed[a] \in [Copies -> Optional]
      BY <2>1 DEF CommandInv, CommandTypes, OpeningTypes, TocIsChosen, SelectionHolds
    <3>2. toc[a] = <<>> => parsed[a][1] = <<>> /\ parsed[a][2] = <<>>
      BY <3>1 DEF Choose
    <3> QED
      BY <3>1, <3>2 DEF Copies
  <2>3. Len(extracted[a]) = Len(Requested(a))
    BY <2>1, <2>2 DEF CommandInv, AreasInOrder, Areas
  <2>4. /\ Requested(a) \in Seq(Nat \ {0}) /\ Ascending(Requested(a))
        /\ ToSet(Requested(a)) = Named(a)
    BY <2>1, RequestedWorks DEF CommandInv
  <2>5. Done(a) = Named(a)
    <3>1. Done(a) = {Requested(a)[i] : i \in 1..Len(extracted[a])}
      BY <2>1, DoneAre
    <3>2. ToSet(Requested(a)) = {Requested(a)[i] : i \in 1..Len(Requested(a))}
      BY <2>4 DEF ToSet
    <3> QED
      BY <2>3, <2>4, <3>1, <3>2
  <2>6. [i \in DOMAIN extracted[a] |-> extracted[a][i].track] = Requested(a)
    <3>1. DOMAIN extracted[a] = 1..Len(Requested(a)) /\ DOMAIN Requested(a) = 1..Len(Requested(a))
      BY <2>1, <2>3, <2>4 DEF CommandInv, CommandTypes
    <3>2. \A i \in 1..Len(Requested(a)) : extracted[a][i].track = Requested(a)[i]
      BY <2>1, <2>3, FileFacts
    <3>3. Requested(a) = [i \in 1..Len(Requested(a)) |-> Requested(a)[i]]
      BY <2>4
    <3> QED
      BY <3>1, <3>2, <3>3
  <2> QED
    BY <2>4, <2>5, <2>6
<1> QED
  BY <1>1, CommandInvariant, PTL

\* Wherever the command stops, the files are those of the lowest tracks named,
\* and the stereo area came before the multichannel area.
THEOREM LowTracksAreSafe == Spec => []LowerTracksFirst
<1>1. CommandInv => LowerTracksFirst
  <2> SUFFICES ASSUME CommandInv, NEW a \in Areas, NEW e \in ToSet(extracted[a])
               PROVE  /\ \A t \in Named(a) : t < e.track => t \in Done(a)
                      /\ (a = 2 /\ 1 \in wanted /\ toc[1] # <<>>) => Done(1) = Named(1)
    BY DEF LowerTracksFirst
  <2>1. extracted[a] \in Seq(Files)
    BY DEF CommandInv, CommandTypes
  <2>2. PICK i \in 1..Len(extracted[a]) : e = extracted[a][i]
    BY <2>1 DEF ToSet
  <2>3. SelectionHolds
    BY <2>1, <2>2, SelectionParsed
  <2>4. \A b \in Areas : /\ Requested(b) \in Seq(Nat \ {0}) /\ Ascending(Requested(b))
                         /\ ToSet(Requested(b)) = Named(b)
    BY <2>3, RequestedWorks DEF CommandInv
  <2>5. e.track = Requested(a)[i] /\ i \in 1..Len(Requested(a))
    BY <2>2, FileFacts
  <2>6. ASSUME NEW t \in Named(a), t < e.track PROVE t \in Done(a)
    <3>1. Requested(a) \in Seq(Nat \ {0}) /\ Ascending(Requested(a)) /\ ToSet(Requested(a)) = Named(a)
      BY <2>4
    <3>2. DOMAIN Requested(a) = 1..Len(Requested(a)) /\ Len(Requested(a)) \in Nat
      BY <3>1
    <3>3. PICK j \in 1..Len(Requested(a)) : Requested(a)[j] = t
      BY <3>1, <3>2 DEF ToSet
    <3>4. ~(i < j)
      <4>1. i < j => Requested(a)[i] < Requested(a)[j]
        BY <2>5, <3>1, <3>2, <3>3 DEF Ascending
      <4>2. t \in Nat /\ e.track \in Nat
        BY <2>5, <3>1, <3>3
      <4> QED
        BY <2>5, <2>6, <3>3, <4>1, <4>2
    <3>5. j \in 1..Len(extracted[a])
      BY <2>1, <2>2, <3>2, <3>4
    <3> QED
      BY <3>3, <3>5, DoneAre
  <2>7. ASSUME a = 2, 1 \in wanted, toc[1] # <<>> PROVE Done(1) = Named(1)
    <3>1. 1 \in Areas /\ area \in 1..3
      BY DEF Areas, CommandInv, CommandTypes
    <3>2. 1 < area
      <4>1. extracted[2] # <<>>
        BY <2>1, <2>2, <2>7
      <4>2. ~(2 > area)
        BY <4>1 DEF CommandInv, AreasInOrder, Areas
      <4> QED
        BY <3>1, <4>2
    <3>3. Len(extracted[1]) = Len(Requested(1))
      BY <2>7, <3>1, <3>2 DEF CommandInv, AreasInOrder
    <3>4. Requested(1) \in Seq(Nat \ {0}) /\ ToSet(Requested(1)) = Named(1)
      BY <2>4, <3>1
    <3>5. Done(1) = {Requested(1)[j] : j \in 1..Len(extracted[1])}
      BY <3>1, DoneAre
    <3>6. ToSet(Requested(1)) = {Requested(1)[j] : j \in 1..Len(Requested(1))}
      BY <3>4 DEF ToSet
    <3> QED
      BY <3>3, <3>4, <3>5, <3>6
  <2> QED
    BY <2>6, <2>7
<1> QED
  BY <1>1, CommandInvariant, PTL

\* Without SACDTRL1 the ranges of a whole-area extraction tile the area, whatever
\* times the TOC holds.
THEOREM EstimatesTile == Spec => []RangesTile
<1>1. CommandInv => RangesTile
  <2> SUFFICES ASSUME CommandInv, NEW a \in wanted, Estimated(a), parts = <<>>
               PROVE  LET es == extracted[a]
                      IN  /\ es # <<>> => es[1].from = disc[a].first
                          /\ \A i \in 2..Len(es) : es[i].from = es[i - 1].to
                          /\ Len(es) = Count(a) /\ es # <<>> => es[Len(es)].to = disc[a].end
    BY DEF RangesTile
  <2>1. a \in Areas /\ disc \in Discs /\ Count(a) \in Nat /\ parts \in Seq(Seq(Nat))
    BY AreaFacts, CommandAssumption DEF CommandInv, CommandTypes, OpeningTypes
  <2> DEFINE es == extracted[a]
  <2>2. es \in Seq(Files) /\ Len(es) \in Nat /\ (es # <<>> => Len(es) >= 1)
    BY <2>1 DEF CommandInv, CommandTypes
  <2>3. selected = <<>>
    <3>1. SelectionHolds => selected = Sorted(parts) /\ \A i \in DOMAIN parts : PartOk(parts[i])
      BY DEF SelectionHolds
    <3>2. SelectionHolds => selected = <<>>
      BY <2>1, <3>1, SortedWorks
    <3> QED
      BY <3>2 DEF CommandInv, NothingBegun
  <2>4. Requested(a) = [i \in 1..Count(a) |-> i]
    BY <2>3 DEF Requested
  <2>5. \A i \in 1..Len(es) : /\ i \in 1..Count(a)
                              /\ es[i].from = Sectors(a, i).from /\ es[i].to = Sectors(a, i).to
    <3> TAKE i \in 1..Len(es)
    <3>1. /\ i \in 1..Len(Requested(a))
          /\ es[i].from = Sectors(a, Requested(a)[i]).from
          /\ es[i].to = Sectors(a, Requested(a)[i]).to
      BY <2>1, FileFacts
    <3>2. Len(Requested(a)) = Count(a)
      BY <2>1, <2>4
    <3>3. i \in 1..Count(a) /\ Requested(a)[i] = i
      BY <2>1, <2>4, <3>1, <3>2
    <3> QED
      BY <3>1, <3>3
  <2>6. \A t : ~Explicit(a, t)
    BY DEF Explicit, Estimated
  <2>7. \A t : Sectors(a, t) = [from |-> StartOf(a, t), to |-> EndOf(a, t)]
    BY <2>6 DEF Sectors
  <2>8. \A t : Sectors(a, t).from = StartOf(a, t) /\ Sectors(a, t).to = EndOf(a, t)
    BY <2>7
  <2>9. \A i \in 1..Len(es) : es[i].from = StartOf(a, i) /\ es[i].to = EndOf(a, i)
    BY <2>5, <2>8
  <2> HIDE DEF es
  <2>10. es # <<>> => es[1].from = disc[a].first
    <3>1. StartOf(a, 1) = disc[a].first
      BY DEF StartOf
    <3> QED
      BY <2>2, <2>9, <3>1
  <2>11. \A i \in 2..Len(es) : es[i].from = es[i - 1].to
    <3> TAKE i \in 2..Len(es)
    <3>1. i \in 1..Len(es) /\ i - 1 \in 1..Len(es) /\ i - 1 + 1 = i
      BY <2>2
    <3>2. i \in 1..Count(a)
      BY <2>5, <3>1
    <3>3. StartOf(a, i) = SectorOf(a, disc[a].times[i])
      BY DEF StartOf
    <3>4. EndOf(a, i - 1) = SectorOf(a, disc[a].times[i])
      BY <2>1, <3>1, <3>2 DEF EndOf
    <3> QED
      BY <2>9, <3>1, <3>3, <3>4
  <2>12. Len(es) = Count(a) /\ es # <<>> => es[Len(es)].to = disc[a].end
    <3>1. EndOf(a, Count(a)) = disc[a].end
      BY <2>1 DEF EndOf
    <3> QED
      BY <2>2, <2>9, <3>1
  <2> QED
    BY <2>10, <2>11, <2>12 DEF es
<1> QED
  BY <1>1, CommandInvariant, PTL

\* The estimate grows with the frame: not down, and up by a sector at least when
\* the frame does.
LEMMA ThirdsGrow ==
    ASSUME NEW x \in Nat, NEW y \in Nat, NEW p \in {14, 16}
    PROVE  /\ (x * p) \div 3 \in Nat /\ (y * p) \div 3 \in Nat
           /\ x <= y => (x * p) \div 3 <= (y * p) \div 3
           /\ x < y => (x * p) \div 3 < (y * p) \div 3
           /\ x < y => ((x + 1) * p - 1) \div 3 <= (y * p) \div 3
           /\ 3 * ((x * p) \div 3) + 2 >= 14 * x
           /\ (x * p) \div 3 <= ((x + 1) * p - 1) \div 3
<1>1. CASE p = 14
  BY <1>1
<1>2. CASE p = 16
  BY <1>2
<1> QED
  BY <1>1, <1>2

LEMMA PlacesGrow ==
    ASSUME disc \in Discs, NEW a \in Areas, disc[a].perThree \in {14, 16},
           NEW x \in Nat, NEW y \in Nat
    PROVE  /\ Place(a, x) \in Nat /\ Place(a, y) \in Nat /\ disc[a].first <= Place(a, x)
           /\ x <= y => Place(a, x) <= Place(a, y)
           /\ x < y => Place(a, x) < Place(a, y)
<1> DEFINE p == disc[a].perThree
           b == disc[a].first
<1>1. b \in Nat /\ p \in {14, 16}
  BY AreaFacts
<1> HIDE DEF p
<1> DEFINE u == (x * p) \div 3
           v == (y * p) \div 3
<1>2. u \in Nat /\ v \in Nat /\ (x <= y => u <= v) /\ (x < y => u < v)
  BY <1>1, ThirdsGrow
<1>3. Place(a, x) = b + u /\ Place(a, y) = b + v
  BY DEF Place, p
<1> HIDE DEF b, u, v
<1> QED
  BY <1>1, <1>2, <1>3 DEF b

\* Where the TOC is consistent, an estimated range begins where the track does
\* and ends behind it, and neither of its bounds wraps.
LEMMA EstimateOfConsistent ==
    ASSUME CommandInv, NEW a \in Areas, NEW t \in 1..Count(a), disc[a].perThree \in {14, 16},
           Consistent(a), ~Explicit(a, t)
    PROVE  /\ Sectors(a, t).from <= Place(a, disc[a].times[t])
           /\ Place(a, disc[a].times[t] + disc[a].durs[t]) <= Sectors(a, t).to
           /\ Sectors(a, t).from \in Nat /\ Sectors(a, t).to \in Nat
           /\ disc[a].times[t] \in Nat /\ disc[a].durs[t] \in Nat \ {0}
           /\ Place(a, disc[a].times[t] + disc[a].durs[t]) <= DiscSectors
<1>1. disc \in Discs
  BY DEF CommandInv, CommandTypes, OpeningTypes
<1>2. /\ Count(a) \in Nat /\ U32 \in Nat \ {0}
      /\ disc[a].first \in Nat /\ disc[a].end \in Nat
  BY <1>1, AreaFacts
<1>3. DiscSectors \in Nat /\ DiscSectors < U32
  BY CommandAssumption
<1>4. \A u \in 1..Count(a) : disc[a].times[u] \in Nat /\ disc[a].durs[u] \in Nat
  BY <1>1, AreaFacts
<1>5. /\ \A u \in 2..Count(a) : disc[a].times[u - 1] + disc[a].durs[u - 1] <= disc[a].times[u]
      /\ \A u \in 1..Count(a) : disc[a].durs[u] > 0
      /\ \A u \in 1..Count(a) : Place(a, disc[a].times[u] + disc[a].durs[u]) <= disc[a].end
      /\ disc[a].end <= DiscSectors
  BY DEF Consistent
<1> DEFINE begin(u) == disc[a].times[u]
           behind(u) == disc[a].times[u] + disc[a].durs[u]
<1>6. \A u \in 1..Count(a) : begin(u) \in Nat /\ behind(u) \in Nat /\ begin(u) < behind(u)
  BY <1>4, <1>5
<1>7. \A u \in 1..Count(a) : /\ Place(a, begin(u)) \in Nat /\ Place(a, behind(u)) \in Nat
                             /\ Place(a, begin(u)) < Place(a, behind(u))
                             /\ disc[a].first <= Place(a, begin(u))
  BY <1>1, <1>6, PlacesGrow
<1>8. \A u \in 1..Count(a) : Place(a, behind(u)) <= disc[a].end /\ Place(a, behind(u)) <= DiscSectors
  <2> SUFFICES ASSUME NEW u \in 1..Count(a)
               PROVE  Place(a, behind(u)) <= disc[a].end /\ Place(a, behind(u)) <= DiscSectors
    OBVIOUS
  <2>1. Place(a, behind(u)) <= disc[a].end /\ Place(a, behind(u)) \in Nat
    BY <1>5, <1>7
  <2> HIDE DEF behind
  <2> QED
    BY <1>2, <1>3, <1>5, <2>1
<1>9. \A u \in 1..Count(a) : SectorOf(a, begin(u)) = Place(a, begin(u))
  <2> SUFFICES ASSUME NEW u \in 1..Count(a) PROVE SectorOf(a, begin(u)) = Place(a, begin(u))
    OBVIOUS
  <2> DEFINE q == Place(a, begin(u))
  <2>1. q \in Nat /\ q < Place(a, behind(u)) /\ Place(a, behind(u)) <= DiscSectors
    BY <1>7, <1>8
  <2>2. Place(a, behind(u)) \in Nat
    BY <1>7
  <2>3. SectorOf(a, begin(u)) = q % U32
    BY DEF SectorOf
  <2> HIDE DEF q, begin, behind
  <2>4. q < U32
    BY <1>2, <1>3, <2>1, <2>2
  <2>5. q % U32 = q
    BY <1>2, <2>1, <2>4, Remainder
  <2> QED
    BY <2>3, <2>5 DEF q
<1>10. Sectors(a, t) = [from |-> StartOf(a, t), to |-> EndOf(a, t)]
  BY DEF Sectors
<1>11. StartOf(a, t) \in Nat /\ StartOf(a, t) <= Place(a, begin(t))
  <2>1. StartOf(a, t) = disc[a].first \/ StartOf(a, t) = Place(a, begin(t))
    BY <1>9 DEF StartOf
  <2> HIDE DEF begin
  <2> QED
    BY <1>2, <1>7, <2>1
<1>12. EndOf(a, t) \in Nat /\ Place(a, behind(t)) <= EndOf(a, t)
  <2>1. CASE t < Count(a)
    <3>1. t + 1 \in 1..Count(a) /\ t + 1 \in 2..Count(a) /\ t + 1 - 1 = t
      BY <1>2, <2>1
    <3>2. EndOf(a, t) = Place(a, begin(t + 1))
      BY <1>9, <2>1, <3>1 DEF EndOf
    <3>3. behind(t) <= begin(t + 1)
      BY <1>5, <3>1
    <3>4. behind(t) \in Nat /\ begin(t + 1) \in Nat
      BY <1>6, <3>1
    <3> HIDE DEF begin, behind
    <3>5. Place(a, behind(t)) <= Place(a, begin(t + 1)) /\ Place(a, begin(t + 1)) \in Nat
      BY <1>1, <3>3, <3>4, PlacesGrow
    <3> QED
      BY <3>2, <3>5
  <2>2. CASE ~(t < Count(a))
    <3>1. EndOf(a, t) = disc[a].end
      BY <2>2 DEF EndOf
    <3> HIDE DEF behind
    <3> QED
      BY <1>2, <1>8, <3>1
  <2> QED
    BY <2>1, <2>2
<1>13. Sectors(a, t).from = StartOf(a, t) /\ Sectors(a, t).to = EndOf(a, t)
  BY <1>10
<1>14. begin(t) \in Nat /\ disc[a].durs[t] \in Nat \ {0}
  BY <1>4, <1>5
<1> QED
  BY <1>8, <1>11, <1>12, <1>13, <1>14

\* A file that is empty although its extraction succeeded comes of a TOC that
\* contradicts itself, or of an estimate in a compressed area.
THEOREM EmptyFilesExplained == Spec => []EmptyOnlyByContradiction
<1>1. CommandInv => EmptyOnlyByContradiction
  <2> SUFFICES ASSUME CommandInv, NEW a \in Areas, NEW e \in ToSet(extracted[a]), e.from >= e.to
               PROVE  IF Explicit(a, e.track)
                      THEN disc[a].ranges[e.track].start + disc[a].ranges[e.track].length >= U32
                      ELSE disc[a].dst \/ ~Consistent(a)
    BY DEF EmptyOnlyByContradiction
  <2>1. extracted[a] \in Seq(Files) /\ disc \in Discs
    BY DEF CommandInv, CommandTypes, OpeningTypes
  <2>2. PICK i \in 1..Len(extracted[a]) : e = extracted[a][i]
    BY <2>1 DEF ToSet
  <2> DEFINE t == e.track
  <2>3. /\ t \in 1..Count(a) /\ disc[a].perThree \in {14, 16}
        /\ e.from = Sectors(a, t).from /\ e.to = Sectors(a, t).to
    BY <2>2, FileFacts
  <2> HIDE DEF t
  <2>4. ASSUME Explicit(a, t), ~(disc[a].ranges[t].start + disc[a].ranges[t].length >= U32)
        PROVE  FALSE
    <3> DEFINE s == disc[a].ranges[t].start
               n == disc[a].ranges[t].length
    <3>1. s \in 0..(U32 - 1) /\ n \in 0..(U32 - 1) /\ U32 \in Nat \ {0}
      BY <2>1, <2>3, AreaFacts
    <3>2. n # 0 /\ ~(s + n >= U32)
      BY <2>4 DEF Explicit
    <3>3. Sectors(a, t) = [from |-> s, to |-> (s + n) % U32]
      BY <2>4 DEF Sectors
    <3> HIDE DEF s, n
    <3>4. s + n \in Nat /\ s + n < U32
      BY <3>1, <3>2
    <3>5. (s + n) % U32 = s + n
      BY <3>1, <3>4, Remainder
    <3>6. e.from = s /\ e.to = s + n
      BY <2>3, <3>3, <3>5
    <3> QED
      BY <3>1, <3>2, <3>6
  <2>5. ASSUME ~Explicit(a, t), ~disc[a].dst, Consistent(a)
        PROVE  FALSE
    <3> DEFINE x == disc[a].times[t]
               n == disc[a].durs[t]
    <3>1. /\ e.from <= Place(a, x) /\ Place(a, x + n) <= e.to
          /\ e.from \in Nat /\ e.to \in Nat /\ x \in Nat /\ n \in Nat \ {0}
      BY <2>3, <2>5, EstimateOfConsistent
    <3> HIDE DEF x, n
    <3>2. x + n \in Nat /\ x < x + n
      BY <3>1
    <3>3. /\ Place(a, x) \in Nat /\ Place(a, x + n) \in Nat
          /\ Place(a, x) < Place(a, x + n)
      BY <2>1, <2>3, <3>1, <3>2, PlacesGrow
    <3> QED
      BY <3>1, <3>3
  <2> QED
    BY <2>4, <2>5 DEF t
<1> QED
  BY <1>1, CommandInvariant, PTL

\* The minutes of every frame on the disc fit in a u8: with 256 * 4500 frames, a
\* disc of up to 5.3 million sectors, more than twice the size of an SACD layer.
MinutesFit == 3 * DiscSectors + 2 < 14 * (MinuteLimit * MinuteFrames)

\* On a disc whose minutes fit in a u8, an estimated range of an uncompressed area
\* with a consistent TOC holds the track's window but for the one sector its last
\* frame shares.  Where they do not fit, the window wraps to other frames.
THEOREM EstimatesHoldWindows ==
    ASSUME MinutesFit
    PROVE  Spec => []EstimateCutsOneSharedSector
<1>1. CommandInv => EstimateCutsOneSharedSector
  <2> SUFFICES ASSUME CommandInv, NEW a \in Areas,
                      Estimated(a), Consistent(a), ~disc[a].dst,
                      NEW e \in ToSet(extracted[a]),
                      NEW f \in Window(a, e.track).first..Window(a, e.track).last
               PROVE  SectorsOf(a, f) \subseteq e.from..e.to
    BY DEF EstimateCutsOneSharedSector
  <2>1. extracted[a] \in Seq(Files) /\ disc \in Discs
    BY DEF CommandInv, CommandTypes, OpeningTypes
  <2>2. PICK i \in 1..Len(extracted[a]) : e = extracted[a][i]
    BY <2>1 DEF ToSet
  <2> DEFINE t == e.track
             x == disc[a].times[t]
             n == disc[a].durs[t]
  <2>3. /\ t \in 1..Count(a) /\ disc[a].perThree \in {14, 16}
        /\ e.from = Sectors(a, t).from /\ e.to = Sectors(a, t).to
    BY <2>2, FileFacts
  <2>4. f \in Timecode(x)..(Timecode(x + n) - 1)
    BY DEF Window
  <2>5. ~Explicit(a, t)
    BY DEF Explicit, Estimated
  <2>6. /\ e.from <= Place(a, x) /\ Place(a, x + n) <= e.to
        /\ e.from \in Nat /\ e.to \in Nat /\ x \in Nat /\ n \in Nat \ {0}
        /\ Place(a, x + n) <= DiscSectors
    <3> HIDE DEF t
    <3> QED
      BY <2>3, <2>5, EstimateOfConsistent
  <2>7. SectorsOf(a, f) = Place(a, f)..(disc[a].first + (((f + 1) * disc[a].perThree - 1) \div 3))
    BY DEF SectorsOf
  <2> HIDE DEF t, x, n
  <2> DEFINE p == disc[a].perThree
             b == disc[a].first
             m == MinuteLimit * MinuteFrames
             y == x + n
  <2>8. p \in {14, 16} /\ b \in Nat /\ y \in Nat /\ m \in Nat \ {0} /\ DiscSectors \in Nat
    BY <2>1, <2>3, <2>6, AreaFacts, CommandAssumption
  <2>9. Place(a, x) = b + (x * p) \div 3 /\ Place(a, y) = b + (y * p) \div 3
    BY DEF Place
  <2>10. 3 * DiscSectors + 2 < 14 * m
    BY DEF MinutesFit
  <2> HIDE DEF p, b, m
  <2> DEFINE u == (y * p) \div 3
  <2>11. u \in Nat /\ 3 * u + 2 >= 14 * y
    BY <2>8, ThirdsGrow
  <2>12. u <= DiscSectors
    <3> HIDE DEF u, y
    <3>1. b + u <= DiscSectors
      BY <2>6, <2>9 DEF u, y
    <3> QED
      BY <2>8, <2>11, <3>1
  <2> HIDE DEF u
  <2>13. y < m /\ x < y
    <3>1. x < y
      BY <2>6
    <3> HIDE DEF y
    <3>2. y < m
      BY <2>8, <2>10, <2>11, <2>12
    <3> QED
      BY <3>1, <3>2
  <2>14. Timecode(x) = x /\ Timecode(y) = y
    <3>1. x < m
      BY <2>6, <2>8, <2>13
    <3>2. x % m = x /\ y % m = y
      BY <2>6, <2>8, <2>13, <3>1, Remainder
    <3> QED
      BY <3>2 DEF Timecode, m
  <2>15. f \in Nat /\ x <= f /\ f < y
    <3>1. f \in x..(y - 1)
      BY <2>4, <2>14
    <3> QED
      BY <2>6, <2>8, <3>1
  <2> DEFINE h == ((f + 1) * p - 1) \div 3
             l == (f * p) \div 3
             k == (x * p) \div 3
  <2>16. h <= u /\ l \in Nat /\ k \in Nat /\ k <= l /\ l <= h
    <3>1. (f * p) \div 3 \in Nat /\ ((f + 1) * p - 1) \div 3 <= (y * p) \div 3
      BY <2>8, <2>15, ThirdsGrow
    <3>2. (x * p) \div 3 \in Nat /\ (x * p) \div 3 <= (f * p) \div 3
      BY <2>6, <2>8, <2>15, ThirdsGrow
    <3>3. (f * p) \div 3 <= ((f + 1) * p - 1) \div 3
      BY <2>8, <2>15, ThirdsGrow
    <3> QED
      BY <3>1, <3>2, <3>3 DEF u
  <2>17. SectorsOf(a, f) = (b + l)..(b + h)
    BY <2>7 DEF Place, b, p
  <2>18. e.from <= b + k /\ b + u <= e.to
    BY <2>6, <2>9 DEF u
  <2>19. h \in Int
    BY <2>8, <2>15
  <2> HIDE DEF h, l, k, y
  <2>20. e.from <= b + l /\ b + l \in Nat
    BY <2>6, <2>8, <2>16, <2>18
  <2>21. b + h <= e.to /\ b + h \in Int
    BY <2>6, <2>8, <2>11, <2>16, <2>18, <2>19
  <2>22. e.from \in Nat /\ e.to \in Nat
    BY <2>6
  <2> QED
    BY <2>17, <2>20, <2>21, <2>22
<1> QED
  BY <1>1, CommandInvariant, PTL

=============================================================================
