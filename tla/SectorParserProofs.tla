-------------------------- MODULE SectorParserProofs --------------------------
(***************************************************************************)
(* Proofs about the audio sector parser, for every number of sectors a     *)
(* frame may lie in, every number of frames that start in one, every chunk *)
(* size and every track.  The invariant says, at each packet, how much of  *)
(* which frame has been read: after i packets of a sector the parser holds *)
(* exactly the parts of the current frame read so far, or nothing, and     *)
(* what it has yielded is what the frames before it call for.              *)
(***************************************************************************)
EXTENDS SectorParser, InductionLemmas

\* The first m parts of frame f.
FirstParts(f, m) == [i \in 1..m |-> <<f, i>>]

ParserStates ==
    [buffer : Seq(Parts), count : Nat, started : BOOLEAN, timecode : {NoTime} \cup 1..track.last,
     decoded : Nat, filtered : Nat, infoIdx : Nat, out : Seq(Seq(Parts))]

-----------------------------------------------------------------------------
(* A compressed track, of which m parts of frame f have been read last.  z *)
(* gives the sizes of all frames up to f, snd those truly declared.        *)

\* The parser holds what it has read of f, or it has done with f.
InHand(p, f, m) ==
    /\ p.started => f >= 1 /\ m >= 1 /\ p.timecode = f /\ p.buffer = FirstParts(f, m)
    /\ ~p.started => p.buffer = <<>> /\ p.count = 0

\* For a frame that is truly declared the count says what is to come.
Counted(p, f, m, z, snd) == f \in snd => IF p.started THEN p.count = z[f] - m ELSE m = z[f]

\* The frames that are behind the parser: f is one unless it is in hand.
Past(p, f) == IF p.started THEN f - 1 ELSE f

\* The wanted frames among 1..n, whole and in order.
Exact(n, z) ==
    [i \in 1..(LastWanted(n) - FirstWanted + 1) |->
       FirstParts(FirstWanted + i - 1, z[FirstWanted + i - 1])]

\* What has been yielded when the frames 1..n are past.
Yields(y, n, z, snd) ==
    /\ y \in Seq(Seq(Parts))
    /\ \A i \in DOMAIN y : \E g \in Nat, l \in Nat : y[i] = FirstParts(g, l)
    /\ \A g \in snd : g <= n /\ InFilter(g) => \E i \in DOMAIN y : y[i] = FirstParts(g, z[g])
    /\ 1..n \subseteq snd => y = Exact(n, z)

Good(p, f, m, z, snd) ==
    /\ p \in ParserStates /\ f \in 0..track.last /\ m \in 0..MaxParts
    /\ f >= 1 => m <= z[f]
    /\ InHand(p, f, m) /\ Counted(p, f, m, z, snd)
    /\ Yields(yielded \o p.out, Past(p, f), z, snd)

\* The disc as a whole.
Disc(h, z, snd) == z \in [1..h -> 1..MaxParts] /\ snd \subseteq 1..h /\ h \in 0..track.last

-----------------------------------------------------------------------------
(* What the frames call for *)

LEMMA FirstPartsType ==
    ASSUME track \in Tracks, NEW f \in 0..track.last, NEW m \in 0..MaxParts
    PROVE  /\ FirstParts(f, m) \in Seq(Parts) /\ Len(FirstParts(f, m)) = m
           /\ m >= 1 => FirstParts(f, m) # <<>>
<1>1. MaxParts \in Nat
  BY ParserAssumption
<1>2. \A i \in 1..m : <<f, i>> \in Parts
  BY <1>1 DEF Parts
<1> QED
  BY <1>1, <1>2 DEF FirstParts

\* One part more.
LEMMA FirstPartsNext ==
    ASSUME track \in Tracks, NEW f \in 0..track.last, NEW m \in 0..MaxParts, m + 1 <= MaxParts
    PROVE  Append(FirstParts(f, m), <<f, m + 1>>) = FirstParts(f, m + 1)
<1>1. MaxParts \in Nat /\ m + 1 \in 0..MaxParts
  BY ParserAssumption
<1>2. /\ FirstParts(f, m) \in Seq(Parts) /\ Len(FirstParts(f, m)) = m
      /\ FirstParts(f, m + 1) \in Seq(Parts) /\ Len(FirstParts(f, m + 1)) = m + 1
  BY <1>1, FirstPartsType
<1>6. <<f, m + 1>> \in Parts
  BY <1>1 DEF Parts
<1> DEFINE t == FirstParts(f, m + 1)
<1>3. t \in [1..(m + 1) -> Parts] /\ t[m + 1] = <<f, m + 1>> /\ m \in Nat
  BY <1>2 DEF FirstParts
<1>4. FirstParts(f, m) = [i \in 1..m |-> t[i]]
  BY <1>1 DEF FirstParts
<1> HIDE DEF t
<1>5. Append([i \in 1..m |-> t[i]], t[m + 1]) = t
  BY <1>3, AppendLast
<1> QED
  BY <1>3, <1>4, <1>5 DEF t

\* One frame more calls for its parts, if the filter accepts it.
LEMMA ExactNext ==
    ASSUME track \in Tracks, NEW h, NEW z, NEW snd, Disc(h, z, snd), NEW n \in Nat, n + 1 <= h
    PROVE  Exact(n + 1, z) = IF InFilter(n + 1) THEN Append(Exact(n, z), FirstParts(n + 1, z[n + 1]))
                             ELSE Exact(n, z)
<1> DEFINE a == FirstWanted
           k == LastWanted(n) - a + 1
           e(i) == FirstParts(a + i - 1, z[a + i - 1])
<1>1. track.from \in Nat /\ track.to \in Nat /\ a \in Nat \ {0} /\ LastWanted(n) \in Int
  BY ParserAssumption DEF FirstWanted, LastWanted
<1>2. track.last \in Nat /\ MaxParts \in Nat /\ h \in Nat
  BY ParserAssumption DEF Disc
<1>3. Exact(n, z) = [i \in 1..k |-> e(i)]
  BY DEF Exact
<1>4. Exact(n + 1, z) = [i \in 1..(LastWanted(n + 1) - a + 1) |-> e(i)]
  BY DEF Exact
<1>5. CASE ~InFilter(n + 1)
  <2>1. CASE n + 1 >= track.to
    <3>1. LastWanted(n + 1) = track.to - 1 /\ LastWanted(n) = track.to - 1
      BY <1>1, <2>1 DEF LastWanted
    <3> QED
      BY <1>3, <1>4, <1>5, <3>1
  <2>2. CASE n + 1 < track.from
    <3>1. LastWanted(n + 1) - a + 1 < 1 /\ k < 1 /\ LastWanted(n + 1) \in Int
      BY <1>1, <2>2 DEF LastWanted, FirstWanted
    <3>2. 1..k = {} /\ 1..(LastWanted(n + 1) - a + 1) = {}
      BY <1>1, <3>1
    <3> HIDE DEF k, e, a
    <3> QED
      BY <1>3, <1>4, <1>5, <3>2
  <2> QED
    BY <1>1, <1>5, <2>1, <2>2 DEF InFilter
<1>6. CASE InFilter(n + 1)
  <2>1. k \in Nat /\ LastWanted(n) = n /\ LastWanted(n + 1) = n + 1 /\ a <= n + 1
    BY <1>1, <1>6 DEF InFilter, LastWanted, FirstWanted
  <2>2. k + 1 = LastWanted(n + 1) - a + 1 /\ a + (k + 1) - 1 = n + 1
    BY <1>1, <2>1
  <2>3. \A i \in 1..(k + 1) : e(i) \in Seq(Parts)
    <3> TAKE i \in 1..(k + 1)
    <3>1. a + i - 1 \in 1..h
      BY <1>1, <1>2, <2>1
    <3>2. z[a + i - 1] \in 0..MaxParts /\ a + i - 1 \in 0..track.last
      BY <1>2, <3>1 DEF Disc
    <3> QED
      BY <3>2, FirstPartsType
  <2> DEFINE s == [i \in 1..k |-> e(i)]
             t == [i \in 1..(k + 1) |-> e(i)]
  <2>4. \A i \in 1..k : i \in 1..(k + 1)
    BY <2>1
  <2>5. e(k + 1) = FirstParts(n + 1, z[n + 1])
    BY <2>2
  <2> HIDE DEF e, k
  <2>8. Append(s, e(k + 1)) = t
    <3>1. t \in [1..(k + 1) -> Seq(Parts)] /\ t[k + 1] = e(k + 1)
      BY <2>1, <2>3
    <3>2. s = [i \in 1..k |-> t[i]]
      BY <2>4
    <3> HIDE DEF s, t
    <3>3. Append([i \in 1..k |-> t[i]], t[k + 1]) = t
      BY <2>1, <3>1, AppendLast
    <3> QED
      BY <3>1, <3>2, <3>3
  <2> QED
    BY <1>3, <1>4, <1>6, <2>2, <2>5, <2>8
<1> QED
  BY <1>5, <1>6

\* A frame that is done with is yielded if the filter accepts it; one that is
\* truly declared is whole then.
LEMMA YieldsEmit ==
    ASSUME track \in Tracks, NEW h, NEW z, NEW snd, Disc(h, z, snd), NEW n \in Nat, n + 1 <= h,
           NEW y, Yields(y, n, z, snd), NEW l \in 0..MaxParts, n + 1 \in snd => l = z[n + 1]
    PROVE  Yields(IF InFilter(n + 1) THEN Append(y, FirstParts(n + 1, l)) ELSE y, n + 1, z, snd)
<1> DEFINE b == FirstParts(n + 1, l)
           w == IF InFilter(n + 1) THEN Append(y, b) ELSE y
<1>1. MaxParts \in Nat /\ track.last \in Nat /\ h \in Nat /\ h <= track.last
  BY ParserAssumption DEF Disc
<1>2. n + 1 \in 0..track.last /\ n + 1 \in Nat /\ l \in Nat
  BY <1>1
<1>3. b \in Seq(Parts)
  BY <1>2, FirstPartsType
<1>4. y \in Seq(Seq(Parts))
  BY DEF Yields
<1>5. \A i \in DOMAIN y : i \in DOMAIN w /\ w[i] = y[i]
  BY <1>3, <1>4, AppendProperties
<1>6. w \in Seq(Seq(Parts))
  BY <1>3, <1>4, AppendProperties
<1>7. \A i \in DOMAIN w : \E g \in Nat, k \in Nat : w[i] = FirstParts(g, k)
  <2> TAKE i \in DOMAIN w
  <2>1. CASE i \in DOMAIN y
    BY <1>5, <2>1 DEF Yields
  <2>2. CASE i \notin DOMAIN y
    <3>1. InFilter(n + 1) /\ w[i] = b
      BY <1>3, <1>4, <2>2, AppendProperties
    <3> QED
      BY <1>2, <3>1
  <2> QED
    BY <2>1, <2>2
<1>8. ASSUME NEW g \in snd, g <= n + 1, InFilter(g)
      PROVE  \E i \in DOMAIN w : w[i] = FirstParts(g, z[g])
  <2>1. CASE g = n + 1
    <3>1. Len(y) + 1 \in DOMAIN w /\ w[Len(y) + 1] = b /\ l = z[g]
      BY <1>3, <1>4, <1>8, <2>1, AppendProperties
    <3> QED
      BY <2>1, <3>1
  <2>2. CASE g # n + 1
    <3>1. g <= n
      BY <1>1, <1>8, <2>2 DEF Disc
    <3>2. PICK i \in DOMAIN y : y[i] = FirstParts(g, z[g])
      BY <1>8, <3>1 DEF Yields
    <3> QED
      BY <1>5, <3>2
  <2> QED
    BY <2>1, <2>2
<1>9. ASSUME 1..(n + 1) \subseteq snd PROVE w = Exact(n + 1, z)
  <2>1. 1..n \subseteq snd /\ n + 1 \in snd
    BY <1>9
  <2>2. y = Exact(n, z) /\ b = FirstParts(n + 1, z[n + 1])
    BY <2>1 DEF Yields
  <2> QED
    BY <2>2, ExactNext
<1> HIDE DEF w
<1>10. Yields(w, n + 1, z, snd)
  BY <1>6, <1>7, <1>8, <1>9 DEF Yields
<1> QED
  BY <1>10 DEF w

\* A frame that is not truly declared may be missing.
LEMMA YieldsSkip ==
    ASSUME NEW h, NEW z, NEW snd, Disc(h, z, snd), track \in Tracks, NEW n \in Nat, n + 1 \notin snd,
           NEW y, Yields(y, n, z, snd)
    PROVE  Yields(y, n + 1, z, snd)
<1>1. \A g \in snd : g \in Nat /\ (g <= n + 1 => g <= n)
  BY ParserAssumption DEF Disc
<1>2. ~(1..(n + 1) \subseteq snd)
  <2>1. n + 1 \in 1..(n + 1)
    OBVIOUS
  <2> QED
    BY <2>1
<1> QED
  BY <1>1, <1>2 DEF Yields

-----------------------------------------------------------------------------
(* One packet *)

\* A packet with the next part of frame f.
LEMMA ContinueGood ==
    ASSUME track \in Tracks, NEW h, NEW z, NEW snd, Disc(h, z, snd), NEW p, NEW f, NEW m,
           Good(p, f, m, z, snd), m + 1 <= MaxParts, f <= h, f >= 1 => m + 1 <= z[f],
           NEW packet, packet.data = <<f, m + 1>>
    PROVE  /\ Good(CountDown(ContinueFrame(p, packet)), f, m + 1, z, snd)
           /\ CountDown(ContinueFrame(p, packet)).infoIdx = p.infoIdx
<1> DEFINE b == Append(p.buffer, <<f, m + 1>>)
           q == CountDown(ContinueFrame(p, packet))
<1>1. MaxParts \in Nat /\ track.last \in Nat /\ p \in ParserStates /\ f \in 0..track.last
      /\ m \in 0..MaxParts /\ m + 1 \in 0..MaxParts /\ f \in Int /\ m \in Int
  BY ParserAssumption DEF Good
<1>2. f \in snd => f >= 1 /\ f \in 1..h /\ z[f] \in Nat
  BY <1>1 DEF Disc
<1>3. CASE ~p.started
  <2>1. q = p
    BY <1>3 DEF CountDown, ContinueFrame
  <2>2. f \notin snd
    BY <1>1, <1>2, <1>3 DEF Good, Counted
  <2> HIDE DEF q
  <2>3. InHand(q, f, m + 1) /\ Counted(q, f, m + 1, z, snd)
    BY <1>3, <2>1, <2>2 DEF Good, InHand, Counted
  <2>4. Good(q, f, m + 1, z, snd) /\ q.infoIdx = p.infoIdx
    BY <1>1, <2>1, <2>3 DEF Good
  <2> QED
    BY <2>4 DEF q
<1>4. CASE p.started
  <2>1. f >= 1 /\ m >= 1 /\ p.timecode = f /\ p.buffer = FirstParts(f, m)
    BY <1>4 DEF Good, InHand
  <2>2. b = FirstParts(f, m + 1)
    BY <1>1, <2>1, FirstPartsNext
  <2>3. b \in Seq(Parts)
    BY <1>1, <2>2, FirstPartsType
  <2> DEFINE c == IF p.count > 0 THEN p.count - 1 ELSE p.count
  <2>4. q = [p EXCEPT !.buffer = b, !.count = c]
    BY <1>1, <1>4 DEF CountDown, ContinueFrame, ParserStates
  <2>c. p.count \in Nat /\ c \in Nat
    BY <1>1 DEF ParserStates
  <2> HIDE DEF b, q, c
  <2>5. /\ q \in ParserStates /\ q.started /\ q.buffer = b /\ q.timecode = f /\ q.out = p.out
        /\ q.infoIdx = p.infoIdx /\ q.count = c
    BY <1>1, <1>4, <2>1, <2>3, <2>4, <2>c DEF ParserStates
  <2>6. Counted(q, f, m + 1, z, snd)
    <3>1. f \in snd => p.count = z[f] - m
      BY <1>4 DEF Good, Counted
    <3> QED
      BY <1>1, <1>2, <2>5, <2>c, <3>1 DEF Counted, c
  <2>7. InHand(q, f, m + 1)
    BY <1>1, <2>1, <2>2, <2>5 DEF InHand
  <2>8. Yields(yielded \o q.out, Past(q, f), z, snd)
    BY <1>4, <2>5 DEF Good, Past
  <2>9. Good(q, f, m + 1, z, snd)
    BY <1>1, <2>5, <2>6, <2>7, <2>8 DEF Good
  <2> QED
    BY <2>5, <2>9 DEF q
<1> QED
  BY <1>3, <1>4

\* What is done with a frame that is complete: it is yielded or filtered.
LEMMA EmitYields ==
    ASSUME track \in Tracks, yielded \in Seq(Seq(Parts)), NEW h, NEW z, NEW snd, Disc(h, z, snd),
           NEW p, NEW f, NEW m, Good(p, f, m, z, snd), f <= h, p.started, f \in snd => m = z[f]
    PROVE  /\ Emit(p) \in ParserStates /\ Emit(p).infoIdx = p.infoIdx
           /\ Yields(yielded \o Emit(p).out, f, z, snd)
<1>1. MaxParts \in Nat /\ track.last \in Nat /\ p \in ParserStates /\ f \in 0..track.last
      /\ m \in 0..MaxParts /\ h \in Int
  BY ParserAssumption DEF Good, Disc
<1>2. f >= 1 /\ p.timecode = f /\ p.buffer = FirstParts(f, m) /\ f - 1 \in Nat
  BY <1>1 DEF Good, InHand
<1>3. ShouldYield(p) <=> InFilter(f)
  BY <1>1, <1>2 DEF ShouldYield, NoTime
<1>4. /\ p.out \in Seq(Seq(Parts)) /\ p.buffer \in Seq(Parts)
      /\ p.decoded + 1 \in Nat /\ p.filtered + 1 \in Nat
  BY <1>1 DEF ParserStates
<1>5. Yields(yielded \o p.out, f - 1, z, snd)
  BY DEF Good, Past
<1>6. Yields(IF InFilter(f) THEN Append(yielded \o p.out, p.buffer) ELSE yielded \o p.out, f, z, snd)
  <2>1. (f - 1) + 1 = f
    BY <1>1
  <2> QED
    BY <1>1, <1>2, <1>5, <2>1, YieldsEmit
<1>7. CASE InFilter(f)
  <2>1. Emit(p) = [p EXCEPT !.out = Append(p.out, p.buffer), !.decoded = p.decoded + 1]
    BY <1>1, <1>3, <1>7 DEF Emit, ParserStates
  <2>2. Append(p.out, p.buffer) \in Seq(Seq(Parts))
    BY <1>4, AppendProperties
  <2>3. Emit(p).out = Append(p.out, p.buffer)
    BY <1>1, <2>1 DEF ParserStates
  <2>4. yielded \o Emit(p).out = Append(yielded \o p.out, p.buffer)
    <3>1. yielded \o Append(p.out, p.buffer) = Append(yielded \o p.out, p.buffer)
      BY <1>4, ConcatAppend, SMTT(30)
    <3> QED
      BY <2>3, <3>1
  <2>5. Emit(p) \in ParserStates /\ Emit(p).infoIdx = p.infoIdx
    BY <1>1, <1>4, <2>1, <2>2 DEF ParserStates
  <2> QED
    BY <1>6, <1>7, <2>4, <2>5
<1>8. CASE ~InFilter(f)
  <2>1. Emit(p) = [p EXCEPT !.filtered = p.filtered + 1]
    BY <1>1, <1>3, <1>8 DEF Emit, ParserStates
  <2>2. Emit(p) \in ParserStates /\ Emit(p).infoIdx = p.infoIdx /\ Emit(p).out = p.out
    BY <1>1, <1>4, <2>1 DEF ParserStates
  <2> QED
    BY <1>6, <1>8, <2>2
<1> QED
  BY <1>7, <1>8

\* A packet that starts frame f + 1: what was in hand is yielded when it is
\* complete, and given up when more of it was declared.
LEMMA StartGood ==
    ASSUME track \in Tracks, yielded \in Seq(Seq(Parts)), NEW h, NEW z, NEW snd, Disc(h, z, snd),
           NEW p, NEW f, NEW m, Good(p, f, m, z, snd), f + 1 <= h, f >= 1 => m = z[f],
           NEW infos, p.infoIdx < Len(infos), infos[p.infoIdx + 1].time = f + 1,
           infos[p.infoIdx + 1].count \in Nat,
           f + 1 \in snd => infos[p.infoIdx + 1].count = z[f + 1],
           NEW packet, packet.data = <<f + 1, 1>>
    PROVE  /\ Good(CountDown(StartFrame(p, packet, infos)), f + 1, 1, z, snd)
           /\ CountDown(StartFrame(p, packet, infos)).infoIdx = p.infoIdx + 1
<1> DEFINE n == infos[p.infoIdx + 1].count
           q == IF Complete(p) THEN Emit(p) ELSE p
           b == <<packet.data>>
           c == IF n > 0 THEN n - 1 ELSE n
           r == CountDown(StartFrame(p, packet, infos))
<1>1. MaxParts \in Nat \ {0} /\ track.last \in Nat /\ p \in ParserStates /\ f \in 0..track.last
      /\ m \in 0..MaxParts /\ h \in 0..track.last /\ p.infoIdx \in Nat /\ 1 \in 0..MaxParts
      /\ f + 1 \in 1..track.last /\ f + 1 \in 0..track.last
  <2>1. MaxParts \in Nat \ {0} /\ track.last \in Nat
    BY ParserAssumption
  <2>2. p \in ParserStates /\ f \in 0..track.last /\ m \in 0..MaxParts
    BY DEF Good
  <2>3. h \in 0..track.last
    BY DEF Disc
  <2>4. p.infoIdx \in Nat
    BY <2>2 DEF ParserStates
  <2> QED
    BY <2>1, <2>2, <2>3, <2>4
<1>2. p.count \in Nat /\ p.started \in BOOLEAN /\ z[f + 1] \in 1..MaxParts
  BY <1>1 DEF ParserStates, Disc
<1>3. /\ q \in ParserStates /\ q.infoIdx = p.infoIdx
      /\ Yields(yielded \o q.out, f, z, snd)
  <2>1. CASE ~p.started
    BY <1>1, <2>1 DEF Good, Past, Complete
  <2>2. CASE p.started
    <3>1. f >= 1 /\ m >= 1 /\ p.buffer = FirstParts(f, m) /\ f - 1 \in Nat /\ f - 1 + 1 = f
      BY <1>1, <2>2 DEF Good, InHand
    <3>2. p.buffer # <<>>
      BY <1>1, <3>1, FirstPartsType
    <3>3. CASE p.count = 0
      <4>1. q = Emit(p)
        BY <2>2, <3>2, <3>3 DEF Complete
      <4>2. f <= h /\ (f \in snd => m = z[f])
        BY <1>1, <3>1
      <4>3. /\ Emit(p) \in ParserStates /\ Emit(p).infoIdx = p.infoIdx
            /\ Yields(yielded \o Emit(p).out, f, z, snd)
        BY <2>2, <4>2, EmitYields
      <4> HIDE DEF q
      <4> QED
        BY <4>1, <4>3
    <3>4. CASE p.count # 0
      <4>1. f \notin snd
        BY <1>1, <2>2, <3>1, <3>4 DEF Good, Counted
      <4>2. Yields(yielded \o p.out, f - 1, z, snd)
        BY <2>2 DEF Good, Past
      <4>3. Yields(yielded \o p.out, f, z, snd)
        BY <3>1, <4>1, <4>2, YieldsSkip
      <4> QED
        BY <1>1, <3>4, <4>3 DEF Complete
    <3> QED
      BY <3>3, <3>4
  <2> QED
    BY <1>2, <2>1, <2>2
<1>4. b = FirstParts(f + 1, 1) /\ b \in Seq(Parts)
  <2>1. b = [i \in 1..1 |-> <<f + 1, i>>]
    OBVIOUS
  <2>2. b = FirstParts(f + 1, 1)
    BY <2>1 DEF FirstParts
  <2> QED
    BY <1>1, <2>2, FirstPartsType
<1>5. c \in Nat /\ n \in Nat /\ p.infoIdx + 1 \in Nat
  <2>1. p.infoIdx \in Nat /\ n \in Nat
    BY <1>1
  <2> HIDE DEF n
  <2> QED
    BY <2>1
<1> DEFINE s == [q EXCEPT !.buffer = b, !.count = n, !.started = TRUE, !.timecode = f + 1,
                          !.infoIdx = p.infoIdx + 1]
<1>6. StartFrame(p, packet, infos) = s
  <2> HIDE DEF Complete, Emit
  <2> QED
    BY <1>3 DEF StartFrame
<1> HIDE DEF q, b, n
<1>7. s \in ParserStates /\ s.started /\ s.count = n
  BY <1>1, <1>3, <1>4, <1>5 DEF ParserStates
<1> DEFINE t == [q EXCEPT !.buffer = b, !.count = c, !.started = TRUE, !.timecode = f + 1,
                          !.infoIdx = p.infoIdx + 1]
<1>8. r = t
  <2>1. CountDown(s) = IF n > 0 THEN [s EXCEPT !.count = n - 1] ELSE s
    BY <1>7 DEF CountDown
  <2>2. n > 0 => [s EXCEPT !.count = n - 1] = t
    BY <1>3 DEF ParserStates
  <2>3. ~(n > 0) => s = t
    OBVIOUS
  <2> QED
    BY <1>6, <2>1, <2>2, <2>3
<1> HIDE DEF r, c
<1>9. /\ r \in ParserStates /\ r.started /\ r.buffer = b /\ r.count = c /\ r.timecode = f + 1
      /\ r.out = q.out /\ r.infoIdx = p.infoIdx + 1
  BY <1>1, <1>3, <1>4, <1>5, <1>8 DEF ParserStates
<1>10. InHand(r, f + 1, 1)
  BY <1>1, <1>4, <1>9 DEF InHand
<1>11. Counted(r, f + 1, 1, z, snd)
  BY <1>2, <1>5, <1>9 DEF Counted, c, n
<1>12. Yields(yielded \o r.out, Past(r, f + 1), z, snd)
  <2>1. Past(r, f + 1) = f
    BY <1>1, <1>9 DEF Past
  <2>2. yielded \o r.out = yielded \o q.out
    BY <1>9
  <2> QED
    BY <1>3, <2>1, <2>2
<1>13. Good(r, f + 1, 1, z, snd)
  BY <1>1, <1>2, <1>9, <1>10, <1>11, <1>12 DEF Good
<1> QED
  BY <1>9, <1>13 DEF r

\* The end of a sector: a complete frame is done with, one in hand has more to
\* come.
LEMMA EndGood ==
    ASSUME track \in Tracks, track.dst, yielded \in Seq(Seq(Parts)), NEW h, NEW z, NEW snd,
           Disc(h, z, snd), NEW p, NEW f, NEW m, Good(p, f, m, z, snd), f <= h
    PROVE  /\ Good(EndSector(p), f, m, z, snd)
           /\ EndSector(p).started => EndSector(p).count > 0
<1> DEFINE r == EndSector(p)
<1>1. track.last \in Nat /\ p \in ParserStates /\ f \in 0..track.last /\ m \in 0..MaxParts
      /\ p.count \in Nat /\ p.started \in BOOLEAN
  BY ParserAssumption DEF Good, ParserStates
<1>2. CASE Complete(p)
  <2>1. p.started /\ p.count = 0
    BY <1>2 DEF Complete
  <2>2. f >= 1
    BY <2>1 DEF Good, InHand
  <2>3. f \in snd => m = z[f]
    <3>1. f \in snd => z[f] \in Int
      BY ParserAssumption DEF Disc
    <3> QED
      BY <1>1, <2>1, <3>1 DEF Good, Counted
  <2>4. Emit(p) \in ParserStates /\ Yields(yielded \o Emit(p).out, f, z, snd)
    BY <2>1, <2>3, EmitYields
  <2> DEFINE e == Emit(p)
  <2>5. r = [e EXCEPT !.buffer = <<>>, !.started = FALSE, !.count = 0]
    BY <1>2 DEF EndSector
  <2>e. <<>> \in Seq(Parts) /\ 0 \in Nat /\ FALSE \in BOOLEAN /\ e \in ParserStates
    BY <2>4
  <2> HIDE DEF r, e
  <2>6. r \in ParserStates /\ ~r.started /\ r.buffer = <<>> /\ r.count = 0 /\ r.out = e.out
    BY <2>5, <2>e DEF ParserStates
  <2>7. InHand(r, f, m) /\ Counted(r, f, m, z, snd) /\ Past(r, f) = f
    BY <2>3, <2>6 DEF InHand, Counted, Past
  <2>8. Good(r, f, m, z, snd)
    BY <1>1, <2>4, <2>6, <2>7 DEF Good, e
  <2> QED
    BY <2>6, <2>8 DEF r
<1>3. CASE ~Complete(p)
  <2>1. EndSector(p) = p
    BY <1>3 DEF EndSector
  <2>2. p.started => p.buffer # <<>>
    <3>1. p.started => m >= 1 /\ p.buffer = FirstParts(f, m)
      BY DEF Good, InHand
    <3> QED
      BY <1>1, <3>1, FirstPartsType
  <2> QED
    BY <1>1, <1>3, <2>1, <2>2 DEF Complete
<1> QED
  BY <1>2, <1>3

-----------------------------------------------------------------------------
(* One sector *)

DiscOK ==
    /\ track \in Tracks /\ left \in 0..MaxParts /\ Disc(frame, size, sound)
    /\ left < IF frame = 0 THEN MaxParts ELSE size[frame]
    /\ ~track.damaged => sound = 1..frame

SizeAfter(s) ==
    [f \in DOMAIN size \cup (frame + 1)..(frame + s.starts) |->
       IF f \in DOMAIN size THEN size[f] ELSE PartsOf(s, f - frame)]

SoundAfter(s) ==
    sound \cup {f \in (frame + 1)..(frame + s.starts) :
                   s.declared[f - frame] = PartsOf(s, f - frame) \/ ~track.dst}

\* The frame infos of a sector declare something, on a sound disc the truth.
Declares(s) ==
    \A i \in 1..s.starts :
      /\ s.declared[i] \in Nat /\ PartsOf(s, i) \in 1..MaxParts
      /\ ~track.damaged /\ track.dst => s.declared[i] = PartsOf(s, i)

\* Continuation packets in the sector, and where its a-th audio packet leaves us.
Conts      == IF left = 0 THEN 0 ELSE 1
FrameAt(a) == IF a <= Conts THEN frame ELSE frame + a - Conts
PartAt(a)  == IF a <= Conts THEN PartsRead + a ELSE 1
InfosAt(a) == IF a <= Conts THEN 0 ELSE a - Conts

AudioPacket(a) ==
    IF a <= Conts THEN [audio |-> TRUE, start |-> FALSE, data |-> <<frame, PartsRead + 1>>]
    ELSE Start(frame + a - Conts)

AudioCount(s) == Conts + s.starts

\* The audio packets among the first i packets of the sector.
Before(s, i) == IF s.pad # 0 /\ s.pad <= i THEN i - 1 ELSE i

PacketSet == [audio : BOOLEAN, start : BOOLEAN, data : Parts]

\* The fields of a sector.
LEMMA SectorFields ==
    ASSUME DiscOK, NEW s \in Sectors, WellFormed(s)
    PROVE  /\ MaxParts \in Nat \ {0} /\ frame \in Nat /\ left \in Nat /\ track.last \in Nat
           /\ s.starts \in Nat /\ s.parts \in 1..MaxParts /\ s.pad \in Nat
           /\ frame + s.starts <= track.last /\ (left > 1 => s.starts = 0)
           /\ s.pad <= AudioCount(s) + 1 /\ Len(Cont) = Conts
           /\ Declares(s)
<1>1. MaxParts \in Nat \ {0} /\ frame \in Nat /\ left \in Nat /\ track.last \in Nat
  BY ParserAssumption DEF DiscOK, Disc
<1>2. PICK k \in 0..MaxStarts :
         s \in [starts : {k}, parts : 1..MaxParts, declared : [1..k -> AnyCount], pad : 0..(MaxStarts + 2)]
  BY DEF Sectors
<1>3. s.starts \in Nat /\ s.parts \in 1..MaxParts /\ s.pad \in Nat
  BY <1>2, ParserAssumption
<1>4. Len(Cont) = Conts
  BY DEF Cont, Conts
<1>5. Declares(s)
  <2> SUFFICES ASSUME NEW i \in 1..s.starts
               PROVE  /\ s.declared[i] \in Nat /\ PartsOf(s, i) \in 1..MaxParts
                      /\ ~track.damaged /\ track.dst => s.declared[i] = PartsOf(s, i)
    BY DEF Declares
  <2>1. s.declared[i] \in Declared(PartsOf(s, i))
    BY DEF WellFormed
  <2>2. PartsOf(s, i) \in 1..MaxParts
    BY <1>1, <1>3 DEF PartsOf
  <2>3. Declared(PartsOf(s, i)) \subseteq Nat
    <3>1. Counts \subseteq Nat
      BY ParserAssumption
    <3>2. {0} \subseteq Nat /\ {PartsOf(s, i)} \subseteq Nat
      BY <1>1, <2>2
    <3> QED
      BY <3>1, <3>2 DEF Declared
  <2>4. ~track.damaged /\ track.dst => Declared(PartsOf(s, i)) = {PartsOf(s, i)}
    BY DEF Declared
  <2> QED
    BY <2>1, <2>2, <2>3, <2>4
<1> QED
  BY <1>1, <1>3, <1>4, <1>5 DEF WellFormed, AudioCount

\* The disc behind the sector.
LEMMA AdvanceDisc ==
    ASSUME DiscOK, NEW s \in Sectors, WellFormed(s)
    PROVE  /\ Disc(frame + s.starts, SizeAfter(s), SoundAfter(s))
           /\ \A f \in 1..frame : SizeAfter(s)[f] = size[f] /\ (f \in SoundAfter(s) <=> f \in sound)
           /\ \A f \in (frame + 1)..(frame + s.starts) : SizeAfter(s)[f] = PartsOf(s, f - frame)
           /\ ~track.damaged => SoundAfter(s) = 1..(frame + s.starts)
<1>1. /\ MaxParts \in Nat \ {0} /\ frame \in Nat /\ s.starts \in Nat /\ s.parts \in 1..MaxParts
      /\ frame + s.starts <= track.last /\ track.last \in Nat /\ Declares(s)
  BY SectorFields
<1> DEFINE new == {f \in (frame + 1)..(frame + s.starts) :
                      s.declared[f - frame] = PartsOf(s, f - frame) \/ ~track.dst}
<1>0. \A f \in (frame + 1)..(frame + s.starts) :
         /\ f - frame \in 1..s.starts /\ PartsOf(s, f - frame) \in 1..MaxParts
         /\ ~track.damaged => s.declared[f - frame] = PartsOf(s, f - frame) \/ ~track.dst
  <2> TAKE f \in (frame + 1)..(frame + s.starts)
  <2>1. f - frame \in 1..s.starts
    BY <1>1
  <2> QED
    BY <1>1, <2>1 DEF Declares
<1>2. DOMAIN size = 1..frame /\ (\A f \in 1..frame : size[f] \in 1..MaxParts) /\ sound \subseteq 1..frame
  BY DEF DiscOK, Disc
<1>3. 1..frame \cup (frame + 1)..(frame + s.starts) = 1..(frame + s.starts)
  BY <1>1
<1>4. SizeAfter(s) = [f \in 1..(frame + s.starts) |->
         IF f \in 1..frame THEN size[f] ELSE PartsOf(s, f - frame)]
  BY <1>2, <1>3 DEF SizeAfter
<1>5. SizeAfter(s) \in [1..(frame + s.starts) -> 1..MaxParts]
  <2>1. \A f \in 1..(frame + s.starts) : f \in 1..frame \/ f \in (frame + 1)..(frame + s.starts)
    BY <1>1
  <2> QED
    BY <1>0, <1>2, <1>4, <2>1
<1>6. /\ \A f \in 1..frame : SizeAfter(s)[f] = size[f]
      /\ \A f \in (frame + 1)..(frame + s.starts) : SizeAfter(s)[f] = PartsOf(s, f - frame)
  BY <1>1, <1>4
<1>7. /\ SoundAfter(s) \subseteq 1..(frame + s.starts)
      /\ \A f \in 1..frame : f \in SoundAfter(s) <=> f \in sound
  <2>1. SoundAfter(s) = sound \cup new
    BY DEF SoundAfter
  <2>2. \A f \in new : f \in 1..(frame + s.starts) /\ f \notin 1..frame
    BY <1>1
  <2>3. \A f \in 1..frame : f \in 1..(frame + s.starts)
    BY <1>1
  <2> HIDE DEF new
  <2> QED
    BY <1>2, <2>1, <2>2, <2>3
<1>8. ASSUME ~track.damaged PROVE SoundAfter(s) = 1..(frame + s.starts)
  <2>1. new = (frame + 1)..(frame + s.starts)
    BY <1>0, <1>8
  <2>2. sound = 1..frame
    BY <1>8 DEF DiscOK
  <2> QED
    BY <1>3, <2>1, <2>2 DEF SoundAfter
<1> QED
  BY <1>1, <1>5, <1>6, <1>7, <1>8 DEF Disc

\* The parts read of the current frame.
LEMMA PartsReadType ==
    ASSUME DiscOK
    PROVE  PartsRead \in 1..MaxParts /\ (frame >= 1 => PartsRead <= size[frame])
BY ParserAssumption DEF DiscOK, Disc, PartsRead

\* The audio packets of a sector, in order.
LEMMA AudioShape ==
    ASSUME DiscOK, NEW s \in Sectors, WellFormed(s),
           NEW audio, audio = Cont \o [i \in 1..s.starts |-> Start(frame + i)]
    PROVE  /\ audio \in Seq(PacketSet) /\ Len(audio) = AudioCount(s)
           /\ \A a \in 1..AudioCount(s) : audio[a] = AudioPacket(a)
<1> DEFINE starts == [i \in 1..s.starts |-> Start(frame + i)]
<1>1. /\ MaxParts \in Nat \ {0} /\ frame \in Nat /\ left \in Nat /\ s.starts \in Nat
      /\ frame + s.starts <= track.last /\ track.last \in Nat /\ Len(Cont) = Conts
  BY SectorFields
<1>2. starts \in Seq(PacketSet) /\ Len(starts) = s.starts
  <2>1. \A i \in 1..s.starts : Start(frame + i) \in PacketSet
    BY <1>1 DEF Start, PacketSet, Parts
  <2> QED
    <3> DEFINE e(i) == Start(frame + i)
    <3>1. \A i \in 1..s.starts : e(i) \in PacketSet
      BY <2>1
    <3>2. starts = [i \in 1..s.starts |-> e(i)]
      OBVIOUS
    <3> HIDE DEF e
    <3>3. [i \in 1..s.starts |-> e(i)] \in [1..s.starts -> PacketSet]
      BY <3>1
    <3>4. starts \in [1..s.starts -> PacketSet] /\ s.starts \in Nat
      BY <1>1, <3>2, <3>3
    <3> HIDE DEF starts
    <3> QED
      BY <3>4
<1>3. Cont \in Seq(PacketSet) /\ (left # 0 => Cont[1] = AudioPacket(1))
  <2>1. CASE left = 0
    BY <2>1 DEF Cont
  <2>2. CASE left # 0
    <3>1. PartsRead + 1 \in 1..MaxParts
      BY <1>1, <2>2 DEF DiscOK, Disc, PartsRead
    <3>2. [audio |-> TRUE, start |-> FALSE, data |-> <<frame, PartsRead + 1>>] \in PacketSet
      BY <1>1, <3>1 DEF PacketSet, Parts
    <3>3. Cont = <<[audio |-> TRUE, start |-> FALSE, data |-> <<frame, PartsRead + 1>>]>>
      BY <2>2 DEF Cont, PartsRead
    <3> QED
      BY <2>2, <3>2, <3>3 DEF AudioPacket, Conts
  <2> QED
    BY <2>1, <2>2
<1>4. /\ audio \in Seq(PacketSet) /\ Len(audio) = Conts + s.starts
      /\ \A a \in 1..(Conts + s.starts) : audio[a] = IF a <= Conts THEN Cont[a] ELSE starts[a - Conts]
  <2>1. audio = Cont \o starts
    OBVIOUS
  <2> HIDE DEF starts
  <2> QED
    <3>1. /\ Cont \o starts \in Seq(PacketSet) /\ Len(Cont \o starts) = Len(Cont) + Len(starts)
          /\ \A a \in 1..(Len(Cont) + Len(starts)) :
                (Cont \o starts)[a] = IF a <= Len(Cont) THEN Cont[a] ELSE starts[a - Len(Cont)]
      BY <1>2, <1>3, ConcatProperties
    <3> QED
      BY <1>1, <1>2, <2>1, <3>1
<1> HIDE DEF starts
<1>5. ASSUME NEW a \in 1..(Conts + s.starts) PROVE audio[a] = AudioPacket(a)
  <2>1. CASE a <= Conts
    <3>1. a = 1 /\ left # 0
      BY <2>1 DEF Conts
    <3> QED
      BY <1>3, <1>4, <2>1, <3>1
  <2>2. CASE ~(a <= Conts)
    <3>1. a - Conts \in 1..s.starts /\ frame + (a - Conts) = frame + a - Conts
      BY <1>1, <2>2 DEF Conts
    <3>2. starts[a - Conts] = Start(frame + (a - Conts))
      BY <3>1 DEF starts
    <3> QED
      BY <1>4, <2>2, <3>1, <3>2 DEF AudioPacket
  <2> QED
    BY <2>1, <2>2
<1> QED
  BY <1>4, <1>5 DEF AudioCount

\* Each packet of a sector is the next audio packet or holds no audio.
LEMMA PacketsShape ==
    ASSUME DiscOK, NEW s \in Sectors, WellFormed(s)
    PROVE  /\ Packets(s) \in Seq(PacketSet) /\ Before(s, 0) = 0
           /\ Before(s, Len(Packets(s))) = AudioCount(s)
           /\ \A i \in 1..Len(Packets(s)) :
                 \/ ~Packets(s)[i].audio /\ Before(s, i) = Before(s, i - 1)
                 \/ /\ Before(s, i) = Before(s, i - 1) + 1 /\ Before(s, i) \in 1..AudioCount(s)
                    /\ Packets(s)[i] = AudioPacket(Before(s, i))
<1> DEFINE audio == Cont \o [i \in 1..s.starts |-> Start(frame + i)]
           j == s.pad
           n == AudioCount(s)
<1>1. /\ MaxParts \in Nat \ {0} /\ s.starts \in Nat /\ j \in Nat /\ j <= n + 1 /\ n \in Nat
      /\ track.last \in Nat
  BY SectorFields DEF AudioCount, Conts
<1>2. /\ audio \in Seq(PacketSet) /\ Len(audio) = n
      /\ \A a \in 1..n : audio[a] = AudioPacket(a)
  BY AudioShape
<1>3. Packets(s) = IF j = 0 THEN audio ELSE InsertAt(audio, j, Padding)
  BY DEF Packets
<1> HIDE DEF audio, j, n
<1>4. CASE j = 0
  <2>1. Packets(s) = audio /\ \A i \in Nat : Before(s, i) = i
    BY <1>3, <1>4 DEF Before, j
  <2> QED
    BY <1>1, <1>2, <2>1 DEF n
<1>5. CASE j # 0
  <2> DEFINE u == SubSeq(audio, 1, j - 1)
             v == SubSeq(audio, j, n)
  <2>1. Packets(s) = u \o <<Padding>> \o v
    BY <1>2, <1>3, <1>5 DEF InsertAt
  <2>2. /\ u \in Seq(PacketSet) /\ Len(u) = j - 1 /\ \A i \in 1..(j - 1) : u[i] = AudioPacket(i)
    BY <1>1, <1>2, <1>5, SubSeqProperties
  <2>3. /\ v \in Seq(PacketSet) /\ Len(v) = n + 1 - j
        /\ \A i \in 1..(n + 1 - j) : v[i] = AudioPacket(j + i - 1)
    BY <1>1, <1>2, <1>5, SubSeqProperties
  <2>4. <<Padding>> \in Seq(PacketSet) /\ Len(<<Padding>>) = 1 /\ ~Padding.audio
    <3>1. Padding \in PacketSet /\ ~Padding.audio
      BY <1>1 DEF Padding, PacketSet, Parts
    <3> QED
      BY <3>1
  <2> HIDE DEF u, v
  <2>5. /\ u \o <<Padding>> \in Seq(PacketSet) /\ Len(u \o <<Padding>>) = j
        /\ \A i \in 1..j : (u \o <<Padding>>)[i] = IF i < j THEN AudioPacket(i) ELSE Padding
    <3> DEFINE g == <<Padding>>
    <3>1. g \in Seq(PacketSet) /\ Len(g) = 1 /\ g[1] = Padding
      BY <2>4
    <3> HIDE DEF g
    <3>2. /\ u \o g \in Seq(PacketSet) /\ Len(u \o g) = j
          /\ \A i \in 1..j : (u \o g)[i] = IF i <= j - 1 THEN u[i] ELSE g[i - (j - 1)]
      <4>1. j - 1 + 1 = j
        BY <1>1
      <4>2. /\ u \o g \in Seq(PacketSet) /\ Len(u \o g) = Len(u) + Len(g)
            /\ \A i \in 1..(Len(u) + Len(g)) :
                  (u \o g)[i] = IF i <= Len(u) THEN u[i] ELSE g[i - Len(u)]
        BY <2>2, <3>1, ConcatProperties
      <4>3. Len(u) = j - 1 /\ Len(u) + Len(g) = j
        BY <2>2, <3>1, <4>1
      <4> QED
        BY <4>2, <4>3
    <3>3. \A i \in 1..j : (u \o g)[i] = IF i < j THEN AudioPacket(i) ELSE Padding
      BY <1>1, <2>2, <3>1, <3>2
    <3> QED
      BY <3>2, <3>3 DEF g
  <2> DEFINE w == u \o <<Padding>>
  <2>w. \A i \in 1..j : w[i] = IF i < j THEN AudioPacket(i) ELSE Padding
    BY <2>5
  <2> HIDE DEF w
  <2>6. /\ Packets(s) \in Seq(PacketSet) /\ Len(Packets(s)) = n + 1
        /\ \A i \in 1..(n + 1) : Packets(s)[i] = IF i <= j THEN w[i] ELSE v[i - j]
    <3>1. w \in Seq(PacketSet) /\ Len(w) = j /\ j + (n + 1 - j) = n + 1
      BY <1>1, <2>5 DEF w
    <3>2. /\ w \o v \in Seq(PacketSet) /\ Len(w \o v) = Len(w) + Len(v)
          /\ \A i \in 1..(Len(w) + Len(v)) :
                (w \o v)[i] = IF i <= Len(w) THEN w[i] ELSE v[i - Len(w)]
      BY <2>3, <3>1, ConcatProperties
    <3>3. Packets(s) = w \o v
      BY <2>1 DEF w
    <3>4. Len(w) = j /\ Len(w) + Len(v) = n + 1
      BY <1>1, <2>3, <3>1
    <3> QED
      BY <3>2, <3>3, <3>4
  <2>7. \A i \in 1..(n + 1) :
          Packets(s)[i] = IF i < j THEN AudioPacket(i) ELSE IF i = j THEN Padding ELSE AudioPacket(i - 1)
    <3> TAKE i \in 1..(n + 1)
    <3>1. CASE i <= j
      <4>1. i \in 1..j
        BY <1>1, <3>1
      <4> QED
        BY <1>1, <2>6, <2>w, <3>1, <4>1
    <3>2. CASE i > j
      <4>1. i - j \in 1..(n + 1 - j) /\ j + (i - j) - 1 = i - 1
        BY <1>1, <3>2
      <4>2. v[i - j] = AudioPacket(i - 1)
        <5> DEFINE k == i - j
        <5>1. k \in 1..(n + 1 - j) /\ j + k - 1 = i - 1
          BY <4>1
        <5> HIDE DEF k
        <5>2. v[k] = AudioPacket(i - 1)
          BY <2>3, <5>1
        <5> QED
          BY <5>2 DEF k
      <4> QED
        BY <1>1, <2>6, <3>2, <4>2
    <3> QED
      BY <1>1, <3>1, <3>2
  <2>8. \A i \in 0..(n + 1) : Before(s, i) = IF j <= i THEN i - 1 ELSE i
    BY <1>5 DEF Before, j
  <2>9. ASSUME NEW i \in 1..Len(Packets(s))
        PROVE  \/ ~Packets(s)[i].audio /\ Before(s, i) = Before(s, i - 1)
               \/ /\ Before(s, i) = Before(s, i - 1) + 1 /\ Before(s, i) \in 1..n
                  /\ Packets(s)[i] = AudioPacket(Before(s, i))
    <3>1. i \in 1..(n + 1) /\ i \in 0..(n + 1) /\ i - 1 \in 0..(n + 1)
      BY <1>1, <2>6
    <3> QED
      <4>1. CASE i < j
        BY <1>1, <2>7, <2>8, <3>1, <4>1
      <4>2. CASE i = j
        <5>1. Packets(s)[i] = Padding /\ Before(s, i) = i - 1 /\ Before(s, i - 1) = i - 1
          BY <1>1, <2>7, <2>8, <3>1, <4>2
        <5> QED
          BY <2>4, <5>1
      <4>3. CASE i > j
        BY <1>1, <1>5, <2>7, <2>8, <3>1, <4>3 DEF j
      <4> QED
        BY <1>1, <3>1, <4>1, <4>2, <4>3
  <2> QED
    BY <1>1, <1>5, <2>6, <2>8, <2>9 DEF n
<1> QED
  BY <1>4, <1>5

\* The next audio packet continues the current frame or starts the next one,
\* of which the sector's frame infos tell.
LEMMA PositionNext ==
    ASSUME DiscOK, NEW s \in Sectors, WellFormed(s), NEW a \in Nat, a + 1 \in 1..AudioCount(s),
           NEW f, f = FrameAt(a), NEW m, m = PartAt(a), NEW z, z = SizeAfter(s)
    PROVE  /\ f \in 0..(frame + s.starts) /\ m \in 0..MaxParts
           /\ \/ /\ AudioPacket(a + 1) = [audio |-> TRUE, start |-> FALSE, data |-> <<f, m + 1>>]
                 /\ FrameAt(a + 1) = f /\ PartAt(a + 1) = m + 1 /\ InfosAt(a + 1) = InfosAt(a)
                 /\ m + 1 <= MaxParts /\ (f >= 1 => m + 1 <= z[f])
              \/ /\ AudioPacket(a + 1) = Start(f + 1)
                 /\ FrameAt(a + 1) = f + 1 /\ PartAt(a + 1) = 1 /\ InfosAt(a + 1) = InfosAt(a) + 1
                 /\ f + 1 <= frame + s.starts /\ m = (IF f = 0 THEN MaxParts ELSE z[f])
                 /\ InfosAt(a) < Len(Infos(s)) /\ Infos(s)[InfosAt(a) + 1].time = f + 1
                 /\ Infos(s)[InfosAt(a) + 1].count \in Nat
                 /\ track.dst /\ f + 1 \in SoundAfter(s) => Infos(s)[InfosAt(a) + 1].count = z[f + 1]
<1> DEFINE h == frame + s.starts
<1>1. /\ MaxParts \in Nat \ {0} /\ frame \in Nat /\ left \in Nat /\ track.last \in Nat
      /\ s.starts \in Nat /\ s.parts \in 1..MaxParts /\ (left > 1 => s.starts = 0)
      /\ h <= track.last /\ Declares(s)
  BY SectorFields
<1>2. /\ PartsRead \in 1..MaxParts
      /\ left < (IF frame = 0 THEN MaxParts ELSE size[frame])
      /\ (IF frame = 0 THEN MaxParts ELSE size[frame]) \in 1..MaxParts
      /\ PartsRead = (IF frame = 0 THEN MaxParts ELSE size[frame]) - left
  BY <1>1, PartsReadType DEF DiscOK, Disc, PartsRead
<1>3. /\ \A g \in 1..frame : z[g] = size[g]
      /\ \A g \in (frame + 1)..h : z[g] = PartsOf(s, g - frame)
  <2>1. /\ \A g \in 1..frame : SizeAfter(s)[g] = size[g]
        /\ \A g \in (frame + 1)..(frame + s.starts) : SizeAfter(s)[g] = PartsOf(s, g - frame)
    BY AdvanceDisc
  <2> QED
    BY <2>1
<1>4. frame >= 1 => frame \in 1..frame
  BY <1>1
<1>5. CASE a + 1 <= Conts
  <2>1. left > 0 /\ a = 0 /\ f = frame /\ m = PartsRead
    BY <1>1, <1>2, <1>5 DEF Conts, FrameAt, PartAt
  <2>2. /\ AudioPacket(a + 1) = [audio |-> TRUE, start |-> FALSE, data |-> <<f, m + 1>>]
        /\ FrameAt(a + 1) = f /\ PartAt(a + 1) = m + 1 /\ InfosAt(a + 1) = InfosAt(a)
    <3>1. a + 1 = 1 /\ a + 1 <= Conts /\ a <= Conts
      BY <1>5, <2>1 DEF Conts
    <3> QED
      BY <1>2, <2>1, <3>1 DEF AudioPacket, FrameAt, PartAt, InfosAt
  <2>3. m + 1 <= MaxParts /\ (f >= 1 => m + 1 <= z[f])
    BY <1>1, <1>2, <1>3, <1>4, <2>1
  <2>4. f \in 0..(frame + s.starts) /\ m \in 0..MaxParts
    BY <1>1, <1>2, <2>1
  <2> QED
    BY <2>2, <2>3, <2>4
<1>6. CASE ~(a + 1 <= Conts)
  <2>1. f + 1 = frame + (a + 1) - Conts /\ InfosAt(a) = a - Conts /\ f \in Nat
        /\ f = frame + a - Conts /\ InfosAt(a) \in Nat
    BY <1>1, <1>6 DEF FrameAt, InfosAt, Conts
  <2>2. a + 1 - Conts \in 1..s.starts
    BY <1>1, <1>6 DEF AudioCount, Conts
  <2>3. AudioPacket(a + 1) = Start(f + 1)
    BY <1>6, <2>1 DEF AudioPacket
  <2>4. FrameAt(a + 1) = f + 1 /\ PartAt(a + 1) = 1 /\ InfosAt(a + 1) = InfosAt(a) + 1
    BY <1>1, <1>6, <2>1 DEF FrameAt, PartAt, InfosAt, Conts
  <2>5. f + 1 <= h /\ f \in 0..h
    BY <1>1, <2>1, <2>2 DEF Conts
  <2>6. m = (IF f = 0 THEN MaxParts ELSE z[f]) /\ m \in 0..MaxParts
    <3>1. CASE a = Conts
      <4>1. f = frame /\ m = PartsRead + Conts
        BY <1>1, <1>2, <2>1, <3>1 DEF PartAt, Conts
      <4>2. left = Conts
        BY <1>1, <2>2, <3>1 DEF Conts
      <4> QED
        BY <1>1, <1>2, <1>3, <1>4, <4>1, <4>2
    <3>2. CASE a # Conts
      <4>1. ~(a <= Conts)
        BY <1>6, <3>2 DEF Conts
      <4>2. m = 1 /\ f \in (frame + 1)..h /\ f # h /\ f # 0
        BY <1>1, <2>1, <2>5, <4>1 DEF PartAt, Conts
      <4>3. f - frame # s.starts
        BY <1>1, <4>2
      <4> QED
        BY <1>1, <1>3, <4>2, <4>3 DEF PartsOf
    <3> QED
      BY <3>1, <3>2
  <2> DEFINE k == InfosAt(a) + 1
  <2>7. k \in 1..s.starts /\ f + 1 = frame + k
    BY <1>1, <2>1, <2>2 DEF Conts
  <2>8. /\ Len(Infos(s)) = s.starts
        /\ Infos(s)[k] = [time |-> frame + k, count |-> s.declared[k]]
    <3> HIDE DEF k
    <3> QED
      BY <1>1, <2>7 DEF Infos
  <2>9. InfosAt(a) < Len(Infos(s)) /\ Infos(s)[k].time = f + 1 /\ Infos(s)[k].count \in Nat
    <3>1. s.declared[k] \in Nat
      BY <1>1, <2>7 DEF Declares
    <3> HIDE DEF k
    <3> QED
      BY <1>1, <2>1, <2>7, <2>8, <3>1 DEF k
  <2>10. ASSUME track.dst, f + 1 \in SoundAfter(s) PROVE Infos(s)[k].count = z[f + 1]
    <3> HIDE DEF k
    <3>1. f + 1 \in (frame + 1)..h /\ (f + 1) - frame = k /\ f + 1 \notin 1..frame
      BY <1>1, <2>7
    <3>2. s.declared[k] = PartsOf(s, k)
      <4>1. f + 1 \notin sound
        BY <3>1 DEF DiscOK, Disc
      <4>2. f + 1 \in {g \in (frame + 1)..h : s.declared[g - frame] = PartsOf(s, g - frame) \/ ~track.dst}
        BY <2>10, <4>1 DEF SoundAfter
      <4> QED
        BY <2>10, <3>1, <4>2
    <3>3. z[f + 1] = PartsOf(s, k)
      BY <1>3, <3>1
    <3> QED
      BY <2>8, <3>2, <3>3
  <2> QED
    BY <2>3, <2>4, <2>5, <2>6, <2>9, <2>10
<1> QED
  BY <1>5, <1>6

-----------------------------------------------------------------------------
(* An uncompressed track, which is one stream of packets *)

Follows(a, b, z) ==
    \/ a[1] = b[1] /\ b[2] = a[2] + 1
    \/ b = <<a[1] + 1, 1>> /\ a[2] = IF a[1] = 0 THEN MaxParts ELSE z[a[1]]

\* The stream begins with the range, has no gap, and its last packet is part m
\* of frame f; while it is empty the disc stands where the range begins.
Flow(stream, f, m, z) ==
    /\ stream \in Seq(Parts)
    /\ \A i \in 1..Len(stream) : stream[i][1] <= f
    /\ \A i \in 2..Len(stream) : Follows(stream[i - 1], stream[i], z)
    /\ Len(stream) > 0 => stream[1] = FirstPacket /\ stream[Len(stream)] = <<f, m>>
    /\ Len(stream) = 0 => f = 0 /\ m = MaxParts - track.lead

\* The next packet of the disc continues the stream.
LEMMA FlowAppend ==
    ASSUME track \in Tracks, NEW stream, NEW f \in Nat, NEW m \in Nat, NEW z, Flow(stream, f, m, z),
           NEW g, NEW n, <<g, n>> \in Parts,
           \/ g = f /\ n = m + 1
           \/ g = f + 1 /\ n = 1 /\ m = IF f = 0 THEN MaxParts ELSE z[f]
    PROVE  Flow(Append(stream, <<g, n>>), g, n, z)
<1> DEFINE t == Append(stream, <<g, n>>)
           k == Len(stream)
<1>1. stream \in Seq(Parts) /\ k \in Nat
  BY LenProperties DEF Flow
<1>2. t \in Seq(Parts) /\ Len(t) = k + 1 /\ t[k + 1] = <<g, n>> /\ \A i \in 1..k : t[i] = stream[i]
  BY <1>1, AppendProperties
<1>3. g \in Nat /\ f <= g
  OBVIOUS
<1>4. \A i \in 1..k : stream[i][1] \in Nat /\ stream[i][1] <= f
  <2> TAKE i \in 1..k
  <2>1. stream[i] \in Parts
    BY <1>1, ElementOfSeq
  <2> QED
    BY <2>1 DEF Flow, Parts
<1> HIDE DEF t, k
<1>5. \A i \in 1..(k + 1) : t[i][1] <= g
  <2> TAKE i \in 1..(k + 1)
  <2>1. CASE i = k + 1
    BY <1>2, <1>3, <2>1
  <2>2. CASE i # k + 1
    <3>1. i \in 1..k
      BY <1>1, <2>2
    <3>2. stream[i][1] \in Nat /\ stream[i][1] <= f
      BY <1>4, <3>1
    <3> QED
      BY <1>2, <1>3, <3>1, <3>2
  <2> QED
    BY <2>1, <2>2
<1>6. \A i \in 2..(k + 1) : Follows(t[i - 1], t[i], z)
  <2> TAKE i \in 2..(k + 1)
  <2>1. CASE i = k + 1
    <3>1. k \in 1..k /\ i - 1 = k
      BY <1>1, <2>1
    <3>2. t[i - 1] = <<f, m>> /\ t[i] = <<g, n>>
      BY <1>2, <2>1, <3>1 DEF Flow, k
    <3> QED
      BY <3>2 DEF Follows
  <2>2. CASE i # k + 1
    <3>1. i \in 1..k /\ i - 1 \in 1..k /\ i \in 2..k
      BY <1>1, <2>2
    <3>2. Follows(stream[i - 1], stream[i], z)
      BY <3>1 DEF Flow, k
    <3> QED
      BY <1>2, <3>1, <3>2
  <2> QED
    BY <2>1, <2>2
<1>7. t[1] = FirstPacket
  <2>1. CASE k = 0
    <3>1. f = 0 /\ m = MaxParts - track.lead /\ track.lead \in 0..(MaxParts - 1) /\ MaxParts \in Nat
      BY <2>1, ParserAssumption DEF Flow, k
    <3>2. n \in 1..MaxParts
      BY DEF Parts
    <3> QED
      BY <1>2, <2>1, <3>1, <3>2 DEF FirstPacket
  <2>2. CASE k # 0
    <3>1. 1 \in 1..k
      BY <1>1, <2>2
    <3> QED
      BY <1>1, <1>2, <2>2, <3>1 DEF Flow, k
  <2> QED
    BY <2>1, <2>2
<1>8. Flow(t, g, n, z)
  BY <1>1, <1>2, <1>5, <1>6, <1>7 DEF Flow
<1> QED
  BY <1>8 DEF t

\* A stream that ends in frame f depends on the sizes up to f only.
LEMMA FlowExtends ==
    ASSUME NEW stream, NEW f \in Nat, NEW m, NEW z, Flow(stream, f, m, z),
           NEW y, \A g \in 1..f : y[g] = z[g]
    PROVE  Flow(stream, f, m, y)
<1>1. ASSUME NEW i \in 2..Len(stream) PROVE Follows(stream[i - 1], stream[i], y)
  <2>1. i - 1 \in 1..Len(stream) /\ stream \in Seq(Parts)
    BY LenProperties DEF Flow
  <2>2. stream[i - 1] \in Parts /\ stream[i - 1][1] <= f
    BY <2>1, ElementOfSeq DEF Flow
  <2>3. stream[i - 1][1] = 0 \/ stream[i - 1][1] \in 1..f
    BY <2>2 DEF Parts
  <2>4. Follows(stream[i - 1], stream[i], z)
    BY DEF Flow
  <2> QED
    BY <2>3, <2>4 DEF Follows
<1> QED
  BY <1>1 DEF Flow

-----------------------------------------------------------------------------
(* The loop over the packets of a sector *)

\* The parser has read the first a audio packets of the sector.
Reads(p, a, s) ==
    IF track.dst
    THEN Good(p, FrameAt(a), PartAt(a), SizeAfter(s), SoundAfter(s)) /\ p.infoIdx = InfosAt(a)
    ELSE /\ p \in ParserStates /\ p.out = <<>>
         /\ Flow(FlattenSeq(yielded) \o p.buffer, FrameAt(a), PartAt(a), SizeAfter(s))

\* Frames that start later change nothing for what has been read.
LEMMA GoodExtends ==
    ASSUME track \in Tracks, Disc(frame, size, sound), NEW p, NEW m, Good(p, frame, m, size, sound),
           NEW h, NEW z, NEW snd, Disc(h, z, snd), frame <= h,
           \A g \in 1..frame : z[g] = size[g] /\ (g \in snd <=> g \in sound)
    PROVE  Good(p, frame, m, z, snd)
<1> DEFINE n == Past(p, frame)
           y == yielded \o p.out
<1>1. frame \in Nat /\ h \in Nat /\ p.started \in BOOLEAN /\ sound \subseteq 1..frame /\ snd \subseteq 1..h
  BY ParserAssumption DEF Disc, Good, ParserStates
<1>2. n \in Int /\ n <= frame /\ Yields(y, n, size, sound)
  BY <1>1 DEF Past, Good
<1> HIDE DEF n, y
<1>3. \A g \in snd : g <= n => g \in 1..frame /\ g \in sound /\ z[g] = size[g]
  BY <1>1, <1>2
<1>4. Exact(n, z) = Exact(n, size)
  <2>1. track.from \in Nat /\ track.to \in Nat
    BY ParserAssumption
  <2>2. FirstWanted \in Nat \ {0} /\ LastWanted(n) \in Int /\ LastWanted(n) <= n
    BY <1>2, <2>1 DEF FirstWanted, LastWanted
  <2> DEFINE k == LastWanted(n) - FirstWanted + 1
             e(i) == FirstParts(FirstWanted + i - 1, z[FirstWanted + i - 1])
             d(i) == FirstParts(FirstWanted + i - 1, size[FirstWanted + i - 1])
  <2>3. \A i \in 1..k : e(i) = d(i)
    <3> TAKE i \in 1..k
    <3>1. FirstWanted + i - 1 \in 1..frame
      BY <1>1, <1>2, <2>2
    <3> QED
      BY <3>1
  <2>4. Exact(n, z) = [i \in 1..k |-> e(i)] /\ Exact(n, size) = [i \in 1..k |-> d(i)]
    BY DEF Exact
  <2> HIDE DEF e, d, k
  <2> QED
    BY <2>3, <2>4
<1>5. 1..n \subseteq snd => 1..n \subseteq sound
  BY <1>1, <1>2, <1>3
<1>6. Yields(y, n, z, snd)
  BY <1>2, <1>3, <1>4, <1>5 DEF Yields
<1>7. Counted(p, frame, m, z, snd)
  <2>1. frame \in snd => frame \in 1..frame
    BY <1>1
  <2> QED
    BY <2>1 DEF Good, Counted
<1>8. frame >= 1 => m <= z[frame]
  <2>1. frame >= 1 => frame \in 1..frame
    BY <1>1
  <2> QED
    BY <2>1 DEF Good
<1> QED
  BY <1>6, <1>7, <1>8 DEF Good, n, y

\* One audio packet.
LEMMA PacketReads ==
    ASSUME DiscOK, NEW s \in Sectors, WellFormed(s), yielded \in Seq(Seq(Parts)),
           NEW a \in Nat, a + 1 \in 1..AudioCount(s), NEW p, Reads(p, a, s)
    PROVE  Reads(ParsePacket(p, AudioPacket(a + 1), Infos(s)), a + 1, s)
<1> DEFINE f == FrameAt(a)
           m == PartAt(a)
           z == SizeAfter(s)
           snd == SoundAfter(s)
           h == frame + s.starts
           q == AudioPacket(a + 1)
           continues ==
             /\ q = [audio |-> TRUE, start |-> FALSE, data |-> <<f, m + 1>>]
             /\ FrameAt(a + 1) = f /\ PartAt(a + 1) = m + 1 /\ InfosAt(a + 1) = InfosAt(a)
             /\ m + 1 <= MaxParts /\ (f >= 1 => m + 1 <= z[f])
           starts ==
             /\ q = Start(f + 1)
             /\ FrameAt(a + 1) = f + 1 /\ PartAt(a + 1) = 1 /\ InfosAt(a + 1) = InfosAt(a) + 1
             /\ f + 1 <= h /\ m = (IF f = 0 THEN MaxParts ELSE z[f])
             /\ InfosAt(a) < Len(Infos(s)) /\ Infos(s)[InfosAt(a) + 1].time = f + 1
             /\ Infos(s)[InfosAt(a) + 1].count \in Nat
             /\ track.dst /\ f + 1 \in snd => Infos(s)[InfosAt(a) + 1].count = z[f + 1]
<1>1. f \in 0..h /\ m \in 0..MaxParts /\ (continues \/ starts)
  BY PositionNext
<1>2. track \in Tracks /\ track.dst \in BOOLEAN /\ Disc(h, z, snd) /\ h \in 0..track.last
      /\ track.last \in Nat /\ MaxParts \in Nat \ {0}
  BY AdvanceDisc, ParserAssumption DEF DiscOK, Disc
<1>3. f \in Nat /\ m \in Nat /\ f <= h
  BY <1>1, <1>2
<1> HIDE DEF f, m, z, snd, h, q
<1>4. CASE track.dst
  <2>1. Good(p, f, m, z, snd) /\ p.infoIdx = InfosAt(a)
    BY <1>4 DEF Reads, f, m, z, snd
  <2>2. CASE continues
    <3>1. q.data = <<f, m + 1>> /\ q.audio = TRUE /\ q.start = FALSE
      BY <2>2
    <3>2. ParsePacket(p, q, Infos(s)) = CountDown(ContinueFrame(p, q))
      BY <1>4, <3>1 DEF ParsePacket
    <3>3. /\ Good(CountDown(ContinueFrame(p, q)), f, m + 1, z, snd)
          /\ CountDown(ContinueFrame(p, q)).infoIdx = p.infoIdx
      <4>1. m + 1 <= MaxParts /\ (f >= 1 => m + 1 <= z[f]) /\ q.data = <<f, m + 1>>
        BY <2>2, <3>1
      <4> HIDE DEF continues, starts
      <4>2. track \in Tracks
        BY <1>2
      <4>3. Disc(h, z, snd)
        BY <1>2
      <4>4. Good(p, f, m, z, snd)
        BY <2>1
      <4>5. m + 1 <= MaxParts
        BY <4>1
      <4>6. f <= h
        BY <1>3
      <4>7. f >= 1 => m + 1 <= z[f]
        BY <4>1
      <4>8. q.data = <<f, m + 1>>
        BY <4>1
      <4> QED
        BY <4>2, <4>3, <4>4, <4>5, <4>6, <4>7, <4>8, ContinueGood
    <3> QED
      BY <1>4, <2>1, <2>2, <3>2, <3>3 DEF Reads, z, snd, q
  <2>3. CASE starts
    <3>1. q.data = <<f + 1, 1>> /\ q.audio = TRUE /\ q.start = TRUE
      BY <2>3 DEF Start
    <3>2. ParsePacket(p, q, Infos(s)) = CountDown(StartFrame(p, q, Infos(s)))
      BY <1>4, <3>1 DEF ParsePacket
    <3>3. f >= 1 => m = z[f]
      BY <2>3
    <3>4. /\ Good(CountDown(StartFrame(p, q, Infos(s))), f + 1, 1, z, snd)
          /\ CountDown(StartFrame(p, q, Infos(s))).infoIdx = p.infoIdx + 1
      <4>1. /\ p.infoIdx < Len(Infos(s)) /\ Infos(s)[p.infoIdx + 1].time = f + 1
            /\ Infos(s)[p.infoIdx + 1].count \in Nat /\ f + 1 <= h
            /\ (f + 1 \in snd => Infos(s)[p.infoIdx + 1].count = z[f + 1])
        BY <1>4, <2>1, <2>3
      <4> HIDE DEF continues, starts
      <4>2. track \in Tracks
        BY <1>2
      <4>3. Disc(h, z, snd)
        BY <1>2
      <4>4. Good(p, f, m, z, snd)
        BY <2>1
      <4>5. f + 1 <= h
        BY <4>1
      <4>6. p.infoIdx < Len(Infos(s))
        BY <4>1
      <4>7. Infos(s)[p.infoIdx + 1].time = f + 1
        BY <4>1
      <4>8. Infos(s)[p.infoIdx + 1].count \in Nat
        BY <4>1
      <4>9. f + 1 \in snd => Infos(s)[p.infoIdx + 1].count = z[f + 1]
        BY <4>1
      <4>10. q.data = <<f + 1, 1>>
        BY <3>1
      <4> QED
        BY <3>3, <4>2, <4>3, <4>4, <4>5, <4>6, <4>7, <4>8, <4>9, <4>10, StartGood
    <3> QED
      BY <1>4, <2>1, <2>3, <3>2, <3>4 DEF Reads, z, snd, q
  <2> QED
    BY <1>1, <2>2, <2>3
<1>5. CASE ~track.dst
  <2>1. /\ p \in ParserStates /\ p.out = <<>> /\ p.buffer \in Seq(Parts)
        /\ Flow(FlattenSeq(yielded) \o p.buffer, f, m, z)
    BY <1>5 DEF Reads, f, m, z, ParserStates
  <2> DEFINE g == FrameAt(a + 1)
             n == PartAt(a + 1)
  <2>2. q.data = <<g, n>> /\ q.audio = TRUE
    BY <1>1 DEF Start
  <2>3. /\ <<g, n>> \in Parts
        /\ \/ g = f /\ n = m + 1
           \/ g = f + 1 /\ n = 1 /\ m = IF f = 0 THEN MaxParts ELSE z[f]
    BY <1>1, <1>2, <1>3 DEF Parts
  <2> DEFINE r == ParsePacket(p, q, Infos(s))
  <2>4. r = [p EXCEPT !.buffer = Append(p.buffer, <<g, n>>)]
    BY <1>5, <2>2 DEF ParsePacket
  <2> HIDE DEF g, n, r
  <2>5. Append(p.buffer, <<g, n>>) \in Seq(Parts)
    BY <2>1, <2>3, AppendProperties
  <2>6. r \in ParserStates /\ r.out = <<>> /\ r.buffer = Append(p.buffer, <<g, n>>)
    BY <2>1, <2>4, <2>5 DEF ParserStates
  <2>7. FlattenSeq(yielded) \in Seq(Parts)
    BY FlattenType
  <2>8. FlattenSeq(yielded) \o r.buffer = Append(FlattenSeq(yielded) \o p.buffer, <<g, n>>)
    <3>1. FlattenSeq(yielded) \o Append(p.buffer, <<g, n>>)
            = Append(FlattenSeq(yielded) \o p.buffer, <<g, n>>)
      <4> DEFINE d == <<g, n>>
      <4>1. d \in Parts
        BY <2>3
      <4> HIDE DEF d
      <4>2. FlattenSeq(yielded) \o Append(p.buffer, d) = Append(FlattenSeq(yielded) \o p.buffer, d)
        BY <2>1, <2>7, <4>1, ConcatAppend
      <4> QED
        BY <4>2 DEF d
    <3> QED
      BY <2>6, <3>1
  <2>9. Flow(FlattenSeq(yielded) \o r.buffer, g, n, z)
    <3> DEFINE st == FlattenSeq(yielded) \o p.buffer
    <3> HIDE DEF st
    <3>1. Flow(Append(st, <<g, n>>), g, n, z)
      BY <1>2, <1>3, <2>1, <2>3, FlowAppend DEF st
    <3> QED
      BY <2>8, <3>1 DEF st
  <2> QED
    BY <1>5, <2>6, <2>9 DEF Reads, g, n, r, z, q
<1> QED
  BY <1>2, <1>4, <1>5

\* r[i] is the parser behind the first i of the packets.
Parses(r, packets, infos, n) ==
    r = [i \in 0..n |-> IF i = 0 THEN [parser EXCEPT !.infoIdx = 0]
                       ELSE ParsePacket(r[i - 1], packets[i], infos)]

\* Its values.
LEMMA ParsesAt ==
    ASSUME NEW r, NEW packets, NEW infos, NEW n \in Nat, Parses(r, packets, infos, n), NEW i \in 0..n
    PROVE  r[i] = IF i = 0 THEN [parser EXCEPT !.infoIdx = 0]
                  ELSE ParsePacket(r[i - 1], packets[i], infos)
<1> DEFINE e(j) == IF j = 0 THEN [parser EXCEPT !.infoIdx = 0]
                   ELSE ParsePacket(r[j - 1], packets[j], infos)
<1>1. r = [j \in 0..n |-> e(j)]
  BY DEF Parses
<1> HIDE DEF e
<1>2. r[i] = e(i)
  BY <1>1
<1> QED
  BY <1>2 DEF e

\* The function that ParsePackets defines by recursion exists.
LEMMA ParsesExists ==
    ASSUME NEW packets, NEW infos, NEW n \in Nat
    PROVE  \E r : Parses(r, packets, infos, n)
<1> DEFINE S == {m \in Nat : \E r : Parses(r, packets, infos, m)}
           start == [parser EXCEPT !.infoIdx = 0]
<1>1. 0 \in S
  <2> DEFINE h == [i \in 0..0 |-> start]
  <2> HIDE DEF start
  <2>1. h = [i \in 0..0 |-> IF i = 0 THEN start ELSE ParsePacket(h[i - 1], packets[i], infos)]
    OBVIOUS
  <2> HIDE DEF h
  <2>2. Parses(h, packets, infos, 0)
    BY <2>1 DEF Parses, start
  <2> HIDE DEF Parses
  <2> QED
    BY <2>2
<1>2. ASSUME NEW m \in Nat, m \in S PROVE m + 1 \in S
  <2>1. PICK r : Parses(r, packets, infos, m)
    BY <1>2
  <2> HIDE DEF start
  <2> DEFINE h == [i \in 0..(m + 1) |->
                     IF i <= m THEN r[i] ELSE ParsePacket(r[i - 1], packets[i], infos)]
  <2>2. \A i \in 0..(m + 1) : h[i] = IF i = 0 THEN start ELSE ParsePacket(h[i - 1], packets[i], infos)
    <3> TAKE i \in 0..(m + 1)
    <3>1. CASE i = 0
      <4>1. 0 \in 0..m
        OBVIOUS
      <4>2. r[0] = start
        BY <2>1, <4>1, ParsesAt DEF start
      <4> QED
        BY <3>1, <4>2
    <3>2. CASE i # 0
      <4>1. i - 1 \in 0..(m + 1) /\ i - 1 <= m
        BY <3>2
      <4>2. h[i - 1] = r[i - 1]
        BY <4>1
      <4>3. ASSUME i <= m PROVE r[i] = ParsePacket(r[i - 1], packets[i], infos)
        <5>1. i \in 0..m
          BY <4>3
        <5> QED
          BY <2>1, <3>2, <5>1, ParsesAt
      <4> QED
        BY <3>2, <4>2, <4>3
    <3> QED
      BY <3>1, <3>2
  <2>3. h = [i \in 0..(m + 1) |-> h[i]]
    OBVIOUS
  <2> HIDE DEF h
  <2>4. Parses(h, packets, infos, m + 1)
    BY <2>2, <2>3 DEF Parses, start
  <2> HIDE DEF Parses
  <2> QED
    BY <2>4
<1>3. \A m \in Nat : m \in S
  <2> HIDE DEF S
  <2> QED
    BY <1>1, <1>2, NatSetInduction
<1> QED
  BY <1>3

\* ParsePackets is its last value.
LEMMA ParsePacketsDef ==
    ASSUME NEW packets, Len(packets) \in Nat, NEW infos
    PROVE  \E r : /\ Parses(r, packets, infos, Len(packets))
                 /\ ParsePackets(packets, infos) = r[Len(packets)]
<1>1. ParsePackets(packets, infos)
        = (CHOOSE r : Parses(r, packets, infos, Len(packets)))[Len(packets)]
  BY DEF ParsePackets, Parses
<1>2. \E r : Parses(r, packets, infos, Len(packets))
  BY ParsesExists
<1> QED
  BY <1>1, <1>2

\* What the parser has read at a sector boundary: all parts so far, and a
\* compressed frame in hand has more to come.
AtBoundary ==
    IF track.dst
    THEN /\ Good(parser, frame, PartsRead, size, sound)
         /\ parser.started => parser.count > 0
    ELSE /\ parser \in ParserStates /\ parser.out = <<>>
         /\ Flow(FlattenSeq(yielded) \o parser.buffer, frame, PartsRead, size)

\* The parser as the loop finds it.
LEMMA BeginReads ==
    ASSUME DiscOK, NEW s \in Sectors, WellFormed(s), AtBoundary
    PROVE  Reads([parser EXCEPT !.infoIdx = 0], 0, s)
<1> DEFINE q == [parser EXCEPT !.infoIdx = 0]
           z == SizeAfter(s)
           snd == SoundAfter(s)
           h == frame + s.starts
<1>1. /\ frame \in Nat /\ s.starts \in Nat /\ PartsRead \in 1..MaxParts /\ MaxParts \in Nat
      /\ track \in Tracks /\ Disc(frame, size, sound)
  BY SectorFields, PartsReadType DEF DiscOK
<1>2. FrameAt(0) = frame /\ PartAt(0) = PartsRead /\ InfosAt(0) = 0
  BY <1>1 DEF FrameAt, PartAt, InfosAt, Conts
<1>3. parser \in ParserStates
  BY DEF AtBoundary, Good
<1>4. /\ q \in ParserStates /\ q.infoIdx = 0 /\ q.out = parser.out /\ q.buffer = parser.buffer
      /\ q.count = parser.count /\ q.started = parser.started /\ q.timecode = parser.timecode
  BY <1>3 DEF ParserStates
<1>5. /\ Disc(h, z, snd) /\ frame <= h
      /\ \A g \in 1..frame : z[g] = size[g] /\ (g \in snd <=> g \in sound)
  BY <1>1, AdvanceDisc
<1> HIDE DEF q, z, snd, h
<1>6. CASE track.dst
  <2>1. Good(parser, frame, PartsRead, size, sound)
    BY <1>6 DEF AtBoundary
  <2>2. Good(q, frame, PartsRead, size, sound)
    BY <1>4, <2>1 DEF Good, InHand, Counted, Past
  <2>3. Good(q, frame, PartsRead, z, snd)
    BY <1>1, <1>5, <2>2, GoodExtends
  <2> QED
    BY <1>2, <1>4, <1>6, <2>3 DEF Reads, q, z, snd
<1>7. CASE ~track.dst
  <2>1. Flow(FlattenSeq(yielded) \o q.buffer, frame, PartsRead, size)
    BY <1>4, <1>7 DEF AtBoundary
  <2>2. Flow(FlattenSeq(yielded) \o q.buffer, frame, PartsRead, z)
    BY <1>1, <1>5, <2>1, FlowExtends
  <2> QED
    BY <1>2, <1>4, <1>7, <2>2 DEF Reads, q, z, AtBoundary
<1> QED
  BY <1>6, <1>7

\* The loop over the first packets of a sector reads their audio.
LEMMA ParseReads ==
    ASSUME DiscOK, NEW s \in Sectors, WellFormed(s), yielded \in Seq(Seq(Parts)), AtBoundary,
           NEW packets, NEW n \in 0..Len(Packets(s)), Len(packets) = n,
           \A i \in 1..n : packets[i] = Packets(s)[i]
    PROVE  Reads(ParsePackets(packets, Infos(s)), Before(s, n), s)
<1>1. /\ Packets(s) \in Seq(PacketSet) /\ Before(s, 0) = 0
      /\ \A i \in 1..Len(Packets(s)) :
            \/ ~Packets(s)[i].audio /\ Before(s, i) = Before(s, i - 1)
            \/ /\ Before(s, i) = Before(s, i - 1) + 1 /\ Before(s, i) \in 1..AudioCount(s)
               /\ Packets(s)[i] = AudioPacket(Before(s, i))
  BY PacketsShape
<1>2. n \in Nat /\ Len(Packets(s)) \in Nat
  BY <1>1, LenProperties
<1>3. PICK r : Parses(r, packets, Infos(s), n) /\ ParsePackets(packets, Infos(s)) = r[n]
  BY <1>2, ParsePacketsDef
<1>4. \A i \in Nat : Before(s, i) \in Nat
  BY SectorFields DEF Before
<1> DEFINE S == {i \in Nat : i <= n => Reads(r[i], Before(s, i), s)}
<1>5. 0 \in S
  <2>1. r[0] = [parser EXCEPT !.infoIdx = 0]
    <3>1. 0 \in 0..n
      BY <1>2
    <3> QED
      BY <1>2, <1>3, <3>1, ParsesAt
  <2> QED
    BY <1>1, <2>1, BeginReads
<1>6. ASSUME NEW i \in Nat, i \in S PROVE i + 1 \in S
  <2> SUFFICES ASSUME i + 1 <= n PROVE Reads(r[i + 1], Before(s, i + 1), s)
    OBVIOUS
  <2>1. i + 1 \in 0..n /\ i + 1 \in 1..n /\ i + 1 \in 1..Len(Packets(s)) /\ i + 1 - 1 = i /\ i + 1 # 0
    BY <1>2
  <2>2. r[i + 1] = ParsePacket(r[i], packets[i + 1], Infos(s))
    BY <1>2, <1>3, <2>1, ParsesAt
  <2>3. packets[i + 1] = Packets(s)[i + 1]
    BY <2>1
  <2>4. Reads(r[i], Before(s, i), s)
    BY <1>2, <1>6
  <2>5. CASE ~Packets(s)[i + 1].audio /\ Before(s, i + 1) = Before(s, i)
    <3>1. r[i + 1] = r[i]
      BY <2>2, <2>3, <2>5 DEF ParsePacket
    <3> QED
      BY <2>4, <2>5, <3>1
  <2>6. CASE /\ Before(s, i + 1) = Before(s, i) + 1 /\ Before(s, i + 1) \in 1..AudioCount(s)
             /\ Packets(s)[i + 1] = AudioPacket(Before(s, i + 1))
    <3> DEFINE a == Before(s, i)
    <3>1. a \in Nat /\ a + 1 \in 1..AudioCount(s) /\ Reads(r[i], a, s)
      BY <1>4, <2>4, <2>6
    <3>2. r[i + 1] = ParsePacket(r[i], AudioPacket(a + 1), Infos(s))
      BY <2>2, <2>3, <2>6
    <3> HIDE DEF a
    <3>3. Reads(ParsePacket(r[i], AudioPacket(a + 1), Infos(s)), a + 1, s)
      BY <3>1, PacketReads
    <3> QED
      BY <2>6, <3>2, <3>3 DEF a
  <2> QED
    BY <1>1, <2>1, <2>5, <2>6
<1>7. \A i \in Nat : i \in S
  <2> HIDE DEF S
  <2> QED
    BY <1>5, <1>6, NatSetInduction
<1> QED
  BY <1>2, <1>3, <1>7

-----------------------------------------------------------------------------
(* The inductive invariant *)

ParserInv ==
    /\ DiscOK
    /\ parser \in ParserStates /\ parser.out = <<>>
    /\ yielded \in Seq(Seq(Parts))
    /\ pc \in {"sectors", "flushed", "failed"}
    /\ pc = "sectors" => AtBoundary
    /\ pc # "sectors" => NeverMixesFrames /\ PartialOnlyAtRangeEnd /\ AudioIsContinuous

\* The first parts of a frame hold packets of that frame only.
LEMMA FirstPartsPure ==
    \A f, m : \A i, j \in DOMAIN FirstParts(f, m) : FirstParts(f, m)[i][1] = FirstParts(f, m)[j][1]
<1>1. \A f, m : \A i \in DOMAIN FirstParts(f, m) : FirstParts(f, m)[i] = <<f, i>>
  BY DEF FirstParts
<1>2. \A f, m : \A i \in DOMAIN FirstParts(f, m) : FirstParts(f, m)[i][1] = f
  BY <1>1
<1> QED
  BY <1>2

\* What is left of the current frame.
LEMMA AdvanceRead ==
    ASSUME DiscOK, NEW s \in Sectors, WellFormed(s), Advance(s)
    PROVE  /\ DiscOK' /\ track' = track
           /\ frame' = FrameAt(AudioCount(s)) /\ PartsRead' = PartAt(AudioCount(s))
           /\ frame' = frame + s.starts /\ size' = SizeAfter(s) /\ sound' = SoundAfter(s)
<1>1. /\ MaxParts \in Nat \ {0} /\ frame \in Nat /\ left \in Nat /\ track.last \in Nat
      /\ s.starts \in Nat /\ s.parts \in 1..MaxParts /\ frame + s.starts <= track.last
      /\ (left > 1 => s.starts = 0)
  BY SectorFields
<1>2. /\ track' = track /\ frame' = frame + s.starts
      /\ left' = (IF s.starts > 0 THEN s.parts - 1 ELSE IF left > 0 THEN left - 1 ELSE 0)
      /\ size' = SizeAfter(s) /\ sound' = SoundAfter(s)
  BY DEF Advance, SizeAfter, SoundAfter
<1>3. /\ Disc(frame', size', sound')
      /\ \A f \in 1..frame : size'[f] = size[f]
      /\ \A f \in (frame + 1)..(frame + s.starts) :
            size'[f] = PartsOf(s, f - frame)
      /\ ~track.damaged => sound' = 1..frame'
  BY <1>2, AdvanceDisc
<1>4. left < (IF frame = 0 THEN MaxParts ELSE size[frame]) /\ left \in 0..MaxParts /\ track \in Tracks
      /\ (frame # 0 => size[frame] \in 1..MaxParts)
  BY <1>1 DEF DiscOK, Disc
<1>5. CASE s.starts > 0
  <2>1. /\ frame' # 0 /\ size'[frame'] = s.parts /\ left' = s.parts - 1
        /\ frame' \in (frame + 1)..(frame + s.starts)
    <3>1. frame' \in (frame + 1)..(frame + s.starts) /\ frame' - frame = s.starts
      BY <1>1, <1>2, <1>5
    <3> QED
      BY <1>1, <1>2, <1>3, <1>5, <3>1 DEF PartsOf
  <2>2. left' < (IF frame' = 0 THEN MaxParts ELSE size'[frame']) /\ left' \in 0..MaxParts
    BY <1>1, <2>1
  <2>3. PartsRead' = 1
    BY <1>1, <2>1 DEF PartsRead
  <2>4. ~(AudioCount(s) <= Conts) /\ frame + AudioCount(s) - Conts = frame'
    BY <1>1, <1>2, <1>5 DEF AudioCount, Conts
  <2>5. DiscOK'
    BY <1>2, <1>3, <1>4, <2>2 DEF DiscOK, Disc
  <2> QED
    BY <1>2, <2>3, <2>4, <2>5 DEF FrameAt, PartAt
<1>6. CASE s.starts = 0
  <2>1. /\ frame' = frame /\ (frame # 0 => size'[frame] = size[frame])
        /\ left' = IF left > 0 THEN left - 1 ELSE 0
    <3>1. frame # 0 => frame \in 1..frame
      BY <1>1
    <3> QED
      BY <1>1, <1>2, <1>3, <1>6, <3>1
  <2>2. left' < (IF frame' = 0 THEN MaxParts ELSE size'[frame']) /\ left' \in 0..MaxParts
    BY <1>1, <1>4, <2>1
  <2>3. AudioCount(s) = Conts /\ Conts <= Conts /\ PartsRead' = PartsRead + Conts
    BY <1>1, <1>4, <1>6, <2>1 DEF AudioCount, Conts, PartsRead
  <2>4. DiscOK'
    BY <1>2, <1>3, <1>4, <2>2 DEF DiscOK, Disc
  <2> QED
    BY <1>2, <2>1, <2>3, <2>4 DEF FrameAt, PartAt
<1> QED
  BY <1>1, <1>5, <1>6

\* What the sector has completed is handed out.
LEMMA GoodHandedOut ==
    ASSUME track' = track, yielded \in Seq(Seq(Parts)), NEW r,
           Good(r, frame', PartsRead', size', sound'),
           yielded' = yielded \o r.out, parser' = [r EXCEPT !.out = <<>>]
    PROVE  /\ Good(parser, frame, PartsRead, size, sound)'
           /\ (parser \in ParserStates)' /\ parser'.out = <<>> /\ (yielded \in Seq(Seq(Parts)))'
           /\ parser'.started = r.started /\ parser'.count = r.count
<1>1. r \in ParserStates /\ r.out \in Seq(Seq(Parts)) /\ <<>> \in Seq(Seq(Parts))
  BY DEF Good, ParserStates
<1> DEFINE q == [r EXCEPT !.out = <<>>]
<1>2. /\ q \in ParserStates /\ q.out = <<>> /\ q.buffer = r.buffer /\ q.count = r.count
      /\ q.started = r.started /\ q.timecode = r.timecode
  BY <1>1 DEF ParserStates
<1>3. parser' = q
  OBVIOUS
<1> HIDE DEF q
<1>4. yielded' \in Seq(Seq(Parts)) /\ yielded' \o q.out = yielded \o r.out
  <2>1. yielded' \in Seq(Seq(Parts))
    BY <1>1, ConcatProperties
  <2>2. yielded' \o <<>> = yielded'
    BY <2>1, ConcatEmptySeq
  <2> QED
    BY <1>2, <2>1, <2>2
<1>5. Parts' = Parts /\ ParserStates' = ParserStates
  BY DEF Parts, ParserStates
<1>6. /\ InHand(q, frame', PartsRead') /\ Counted(q, frame', PartsRead', size', sound')
      /\ Yields(yielded' \o q.out, Past(q, frame'), size', sound')
      /\ frame' \in 0..track.last /\ PartsRead' \in 0..MaxParts
      /\ (frame' >= 1 => PartsRead' <= size'[frame'])
  BY <1>2, <1>4 DEF Good, InHand, Counted, Past
<1>7. InHand(parser, frame, PartsRead)' /\ Counted(parser, frame, PartsRead, size, sound)'
  BY <1>3, <1>6 DEF InHand, Counted, FirstParts
<1>8. Yields(yielded \o parser.out, Past(parser, frame), size, sound)'
  <2> DEFINE n == Past(q, frame')
             y == yielded' \o q.out
  <2>1. Past(parser, frame)' = n /\ (yielded \o parser.out)' = y
    BY <1>3 DEF Past
  <2>2. \A g : InFilter(g)' <=> InFilter(g)
    BY DEF InFilter
  <2>3. Exact(n, size') = Exact(Past(parser, frame), size)'
    BY <2>1 DEF Exact, FirstWanted, LastWanted, FirstParts
  <2>4. /\ y \in Seq(Seq(Parts))
        /\ \A i \in DOMAIN y : \E g \in Nat, l \in Nat : y[i] = FirstParts(g, l)
        /\ \A g \in sound' : g <= n /\ InFilter(g) => \E i \in DOMAIN y : y[i] = FirstParts(g, size'[g])
        /\ 1..n \subseteq sound' => y = Exact(n, size')
    BY <1>6 DEF Yields
  <2> HIDE DEF n, y
  <2>5. (yielded \o parser.out \in Seq(Seq(Parts)))'
    BY <1>5, <2>1, <2>4
  <2>6. (\A i \in DOMAIN (yielded \o parser.out) :
            \E g \in Nat, l \in Nat : (yielded \o parser.out)[i] = FirstParts(g, l))'
    <3>1. (yielded \o parser.out)' = y
      BY <2>1
    <3>2. \A i \in DOMAIN y : \E g \in Nat, l \in Nat : y[i] = FirstParts(g, l)
      BY <2>4
    <3> QED
      BY <3>1, <3>2
  <2>7. (\A g \in sound : g <= Past(parser, frame) /\ InFilter(g) =>
            \E i \in DOMAIN (yielded \o parser.out) :
              (yielded \o parser.out)[i] = FirstParts(g, size[g]))'
    BY <2>1, <2>2, <2>4 DEF FirstParts
  <2>8. (1..Past(parser, frame) \subseteq sound => yielded \o parser.out = Exact(Past(parser, frame), size))'
    BY <2>1, <2>3, <2>4
  <2> QED
    BY <2>5, <2>6, <2>7, <2>8 DEF Yields
<1> QED
  BY <1>2, <1>3, <1>4, <1>5, <1>6, <1>7, <1>8 DEF Good

\* What the invariant says of a compressed track at a sector boundary.
LEMMA Boundary ==
    ASSUME ParserInv, pc = "sectors", track.dst
    PROVE  /\ InHand(parser, frame, PartsRead) /\ Counted(parser, frame, PartsRead, size, sound)
           /\ Yields(yielded, Past(parser, frame), size, sound)
           /\ parser.started => parser.count > 0
           /\ parser.started \in BOOLEAN /\ frame \in Nat /\ left \in Nat
           /\ PartsRead \in 1..MaxParts /\ PartsRead \in Int
           /\ frame >= 1 => PartsRead = size[frame] - left /\ size[frame] \in 1..MaxParts
<1>1. Good(parser, frame, PartsRead, size, sound) /\ (parser.started => parser.count > 0)
  BY DEF ParserInv, AtBoundary
<1>2. yielded \o parser.out = yielded
  BY ConcatEmptySeq DEF ParserInv
<1>3. parser.started \in BOOLEAN
  BY DEF ParserInv, ParserStates
<1>4. MaxParts \in Nat /\ track.last \in Nat /\ DiscOK
  BY ParserAssumption DEF ParserInv, DiscOK
<1>5. frame \in Nat /\ left \in Nat /\ (frame >= 1 => frame \in 1..frame /\ size[frame] \in 1..MaxParts)
  BY <1>4 DEF DiscOK, Disc
<1>6. PartsRead \in 1..MaxParts
  BY <1>4, PartsReadType
<1>7. frame >= 1 => PartsRead = size[frame] - left
  BY <1>5 DEF PartsRead
<1> QED
  BY <1>1, <1>2, <1>3, <1>4, <1>5, <1>6, <1>7 DEF Good

\* On a sound disc every frame yielded so far is whole.
LEMMA WholeFrames ==
    ASSUME ParserInv, pc = "sectors", track.dst, ~track.damaged
    PROVE  /\ yielded = Exact(Past(parser, frame), size)
           /\ \A i \in DOMAIN yielded : yielded[i] = Frame(yielded[i][1][1])
<1> DEFINE n == Past(parser, frame)
           e(i) == FirstParts(FirstWanted + i - 1, size[FirstWanted + i - 1])
<1>1. sound = 1..frame /\ Disc(frame, size, sound) /\ frame \in Nat /\ MaxParts \in Nat
  BY Boundary, ParserAssumption DEF ParserInv, DiscOK
<1>2. n \in Int /\ n <= frame
  BY <1>1, Boundary DEF Past
<1>3. yielded = Exact(n, size)
  <2>1. 1..n \subseteq sound
    BY <1>1, <1>2
  <2> QED
    BY <2>1, Boundary DEF Yields
<1>4. FirstWanted \in Nat \ {0} /\ LastWanted(n) \in Int /\ LastWanted(n) <= n
  <2>1. track.from \in Nat /\ track.to \in Nat
    BY ParserAssumption DEF ParserInv, DiscOK
  <2> HIDE DEF n
  <2> QED
    BY <1>2, <2>1 DEF FirstWanted, LastWanted
<1> HIDE DEF n
<1>5. yielded = [i \in 1..(LastWanted(n) - FirstWanted + 1) |-> e(i)]
  BY <1>3 DEF Exact
<1>6. ASSUME NEW i \in DOMAIN yielded PROVE yielded[i] = Frame(yielded[i][1][1])
  <2> DEFINE g == FirstWanted + i - 1
  <2>1. i \in 1..(LastWanted(n) - FirstWanted + 1)
    BY <1>5, <1>6
  <2>2. g \in 1..frame
    BY <1>1, <1>2, <1>4, <2>1
  <2>3. size[g] \in 1..MaxParts
    BY <1>1, <2>2 DEF Disc
  <2>4. yielded[i] = e(i)
    <3> HIDE DEF e
    <3> QED
      BY <1>5, <2>1
  <2>5. yielded[i] = FirstParts(g, size[g])
    BY <2>4
  <2> HIDE DEF g
  <2>6. yielded[i][1] = <<g, 1>>
    BY <1>1, <2>3, <2>5 DEF FirstParts
  <2>7. yielded[i][1][1] = g
    BY <2>6
  <2> QED
    BY <2>5, <2>7 DEF Frame, FirstParts
<1> QED
  BY <1>3, <1>6 DEF n

\* A stream without a gap is what AudioIsContinuous asks for.
LEMMA FlowContinuous ==
    ASSUME DiscOK, NEW stream, Flow(stream, frame, PartsRead, size)
    PROVE  Continuous(stream) /\ ReachesDisc(stream)
<1>1. stream \in Seq(Parts) /\ Len(stream) \in Nat
  BY LenProperties DEF Flow
<1>2. stream # <<>> => Len(stream) > 0 /\ Head(stream) = stream[1]
  BY <1>1, EmptySeq
<1>3. Continuous(stream)
  BY <1>1, <1>2 DEF Flow, Follows, Continuous
<1>4. ASSUME frame > 0 \/ left < track.lead PROVE Len(stream) # 0
  <2>1. MaxParts \in Nat /\ track.lead \in Nat /\ frame \in Nat /\ left \in Nat
    BY ParserAssumption DEF DiscOK, Disc
  <2> QED
    BY <1>4, <2>1 DEF Flow, PartsRead
<1>5. ReachesDisc(stream)
  BY <1>1, <1>2, <1>4 DEF Flow, Last, ReachesDisc
<1> QED
  BY <1>3, <1>5

-----------------------------------------------------------------------------
(* The steps *)

LEMMA InitOK ==
    ASSUME ParserInit PROVE ParserInv
<1>1. /\ track \in Tracks /\ MaxParts \in Nat \ {0} /\ track.last \in Nat /\ track.to \in Nat
      /\ track.from \in Nat
  BY ParserAssumption DEF ParserInit
<1>2. DiscOK /\ frame = 0 /\ PartsRead = MaxParts - track.lead
  <2>1. size \in [1..0 -> 1..MaxParts]
    BY DEF ParserInit
  <2> QED
    BY <1>1, <2>1, ParserAssumption DEF ParserInit, DiscOK, Disc, PartsRead
<1>3. parser \in ParserStates /\ parser.out = <<>> /\ parser.buffer = <<>> /\ ~parser.started /\ parser.count = 0
  BY <1>1 DEF ParserInit, ParserStates, NoTime
<1>4. yielded = <<>> /\ yielded \in Seq(Seq(Parts)) /\ yielded \o parser.out = <<>>
  BY <1>3, ConcatEmptySeq DEF ParserInit
<1>5. AtBoundary
  <2>1. PartsRead \in 1..MaxParts
    BY <1>2, PartsReadType
  <2>2. CASE track.dst
    <3>1. InHand(parser, 0, PartsRead) /\ Past(parser, 0) = 0
      BY <1>3 DEF InHand, Past
    <3>2. sound = {}
      BY DEF ParserInit
    <3>3. Exact(0, size) = <<>>
      <4>1. LastWanted(0) - FirstWanted + 1 <= 0 /\ LastWanted(0) - FirstWanted + 1 \in Int
        BY <1>1 DEF LastWanted, FirstWanted
      <4> DEFINE k == LastWanted(0) - FirstWanted + 1
                 e(i) == FirstParts(FirstWanted + i - 1, size[FirstWanted + i - 1])
      <4>2. 1..k = 1..0
        BY <4>1
      <4>3. Exact(0, size) = [i \in 1..k |-> e(i)]
        BY DEF Exact
      <4> HIDE DEF k, e
      <4>6. \A i \in 1..k : e(i) \in Parts
        BY <4>2
      <4>7. [i \in 1..k |-> e(i)] \in [1..k -> Parts]
        BY <4>6
      <4>4. Exact(0, size) \in [1..0 -> Parts]
        BY <4>2, <4>3, <4>7
      <4>5. Exact(0, size) \in Seq(Parts) /\ Len(Exact(0, size)) = 0
        BY <4>4
      <4> QED
        BY <4>5, EmptySeq
    <3>4. Yields(<<>>, 0, size, sound)
      BY <3>2, <3>3 DEF Yields
    <3>5. Good(parser, frame, PartsRead, size, sound)
      BY <1>1, <1>2, <1>3, <1>4, <2>1, <3>1, <3>2, <3>4 DEF Good, Counted
    <3> QED
      BY <1>3, <2>2, <3>5 DEF AtBoundary
  <2>3. CASE ~track.dst
    <3>1. FlattenSeq(yielded) \o parser.buffer = <<>>
      BY <1>3, <1>4, FlattenEmpty, ConcatEmptySeq
    <3>2. Flow(<<>>, frame, PartsRead, size)
      BY <1>2 DEF Flow
    <3> QED
      BY <1>3, <2>3, <3>1, <3>2 DEF AtBoundary
  <2> QED
    BY <2>2, <2>3
<1> QED
  BY <1>2, <1>3, <1>4, <1>5 DEF ParserInv, ParserInit

\* A sector that is read to its end.
LEMMA SectorOK ==
    ASSUME ParserInv, ParseSector PROVE ParserInv'
<1>1. pc = "sectors" /\ pc' = pc /\ DiscOK /\ AtBoundary /\ yielded \in Seq(Seq(Parts))
  BY DEF ParserInv, ParseSector
<1>2. PICK s \in Sectors :
        /\ WellFormed(s) /\ Advance(s)
        /\ yielded' = yielded \o EndSector(ParsePackets(Packets(s), Infos(s))).out
        /\ parser' = [EndSector(ParsePackets(Packets(s), Infos(s))) EXCEPT !.out = <<>>]
  BY DEF ParseSector
<1> DEFINE q == ParsePackets(Packets(s), Infos(s))
           r == EndSector(q)
           a == AudioCount(s)
<1>3. Reads(q, a, s)
  <2>1. Packets(s) \in Seq(PacketSet) /\ Before(s, Len(Packets(s))) = a
    BY <1>1, <1>2, PacketsShape
  <2>2. Len(Packets(s)) \in 0..Len(Packets(s))
    BY <2>1, LenProperties
  <2>3. Reads(q, Before(s, Len(Packets(s))), s)
    BY <1>1, <1>2, <2>2, ParseReads
  <2> QED
    BY <2>1, <2>3
<1>4. /\ DiscOK' /\ track' = track /\ track \in Tracks /\ Disc(frame', size', sound')
      /\ frame' = FrameAt(a) /\ PartsRead' = PartAt(a)
      /\ size' = SizeAfter(s) /\ sound' = SoundAfter(s) /\ frame' \in Nat
  <2>1. /\ DiscOK' /\ track' = track
        /\ frame' = FrameAt(a) /\ PartsRead' = PartAt(a)
        /\ size' = SizeAfter(s) /\ sound' = SoundAfter(s)
    BY <1>1, <1>2, AdvanceRead
  <2>2. track \in Tracks /\ track.last \in Nat
    BY <1>1, ParserAssumption DEF DiscOK
  <2>3. Disc(frame', size', sound')
    BY <2>1 DEF DiscOK, Disc
  <2> QED
    BY <2>1, <2>2, <2>3 DEF Disc
<1>5. yielded' = yielded \o r.out /\ parser' = [r EXCEPT !.out = <<>>]
  BY <1>2
<1> HIDE DEF q, r, a
<1>6. CASE track.dst
  <2>1. Good(q, frame', PartsRead', size', sound')
    BY <1>3, <1>4, <1>6 DEF Reads
  <2>2. Good(r, frame', PartsRead', size', sound') /\ (r.started => r.count > 0)
    <3>1. frame' <= frame'
      BY <1>4
    <3> QED
      BY <1>1, <1>4, <1>6, <2>1, <3>1, EndGood DEF r
  <2>3. /\ Good(parser, frame, PartsRead, size, sound)'
        /\ (parser \in ParserStates)' /\ parser'.out = <<>> /\ (yielded \in Seq(Seq(Parts)))'
        /\ parser'.started = r.started /\ parser'.count = r.count
    BY <1>1, <1>4, <1>5, <2>2, GoodHandedOut
  <2>4. AtBoundary'
    BY <1>4, <1>6, <2>2, <2>3 DEF AtBoundary
  <2> QED
    BY <1>1, <1>4, <2>3, <2>4 DEF ParserInv
<1>7. CASE ~track.dst
  <2>1. /\ q \in ParserStates /\ q.out = <<>>
        /\ Flow(FlattenSeq(yielded) \o q.buffer, frame', PartsRead', size')
    BY <1>3, <1>4, <1>7 DEF Reads
  <2>2. q.buffer \in Seq(Parts) /\ <<>> \in Seq(Seq(Parts)) /\ <<>> \in Seq(Parts)
    BY <2>1 DEF ParserStates
  <2>3. /\ parser' \in ParserStates /\ parser'.out = <<>> /\ yielded' \in Seq(Seq(Parts))
        /\ FlattenSeq(yielded') \o parser'.buffer = FlattenSeq(yielded) \o q.buffer
    <3>1. CASE Len(q.buffer) >= ChunkSize
      <4>1. r = [q EXCEPT !.out = Append(q.out, q.buffer), !.buffer = <<>>]
        BY <1>7, <3>1 DEF EndSector, r
      <4>2. Append(q.out, q.buffer) \in Seq(Seq(Parts)) /\ Append(q.out, q.buffer) = <<q.buffer>>
        BY <2>1, <2>2
      <4>3. r \in ParserStates /\ r.buffer = <<>> /\ r.out = <<q.buffer>>
        BY <2>1, <2>2, <4>1, <4>2 DEF ParserStates
      <4>4. parser' \in ParserStates /\ parser'.out = <<>> /\ parser'.buffer = <<>>
        BY <1>5, <2>2, <4>3 DEF ParserStates
      <4>5. yielded' = Append(yielded, q.buffer)
        BY <1>1, <1>5, <2>2, <4>3, AppendIsConcat
      <4>6. FlattenSeq(yielded') = FlattenSeq(yielded) \o q.buffer
        BY <1>1, <2>2, <4>5, FlattenAppend
      <4>7. yielded' \in Seq(Seq(Parts))
        BY <1>1, <2>2, <4>5, AppendProperties
      <4>8. FlattenSeq(yielded') \in Seq(Parts)
        BY <4>7, FlattenType
      <4>9. FlattenSeq(yielded') \o <<>> = FlattenSeq(yielded')
        BY <4>8, ConcatEmptySeq
      <4> QED
        BY <4>4, <4>6, <4>7, <4>9
    <3>2. CASE ~(Len(q.buffer) >= ChunkSize)
      <4>1. r = q
        BY <1>7, <3>2 DEF EndSector, r
      <4>2. parser' \in ParserStates /\ parser'.out = <<>> /\ parser'.buffer = q.buffer
        BY <1>5, <2>1, <2>2, <4>1 DEF ParserStates
      <4>3. yielded' = yielded
        BY <1>1, <1>5, <2>1, <4>1, ConcatEmptySeq
      <4> QED
        BY <1>1, <4>2, <4>3
    <3> QED
      BY <3>1, <3>2
  <2>4. Parts' = Parts /\ ParserStates' = ParserStates
    BY <1>4 DEF Parts, ParserStates
  <2>5. Flow(FlattenSeq(yielded) \o parser.buffer, frame, PartsRead, size)'
    <3> DEFINE st == FlattenSeq(yielded') \o parser'.buffer
    <3>1. Flow(st, frame', PartsRead', size')
      BY <2>1, <2>3
    <3>2. st = (FlattenSeq(yielded) \o parser.buffer)'
      OBVIOUS
    <3> HIDE DEF st
    <3> QED
      BY <1>4, <2>4, <3>1, <3>2 DEF Flow, Follows, FirstPacket
  <2>6. AtBoundary'
    BY <1>4, <1>7, <2>3, <2>4, <2>5 DEF AtBoundary
  <2> QED
    BY <1>1, <1>4, <2>3, <2>4, <2>6 DEF ParserInv
<1> QED
  BY <1>6, <1>7

\* A sector that is not read to its end.
LEMMA FailOK ==
    ASSUME ParserInv, ParseSectorFails PROVE ParserInv'
<1>1. /\ pc = "sectors" /\ pc' = "failed" /\ DiscOK /\ AtBoundary /\ yielded \in Seq(Seq(Parts))
      /\ track' = track /\ frame' = frame /\ left' = left /\ size' = size /\ sound' = sound
      /\ yielded' = yielded /\ track.dst \in BOOLEAN
  BY ParserAssumption DEF ParserInv, DiscOK, ParseSectorFails, disc
<1>2. PICK s \in Sectors : /\ WellFormed(s)
                          /\ \E i \in 0..Len(Packets(s)) :
                               parser' = [ParsePackets(SubSeq(Packets(s), 1, i), Infos(s)) EXCEPT !.out = <<>>]
  BY DEF ParseSectorFails
<1>3. PICK i \in 0..Len(Packets(s)) :
        parser' = [ParsePackets(SubSeq(Packets(s), 1, i), Infos(s)) EXCEPT !.out = <<>>]
  BY <1>2
<1> DEFINE packets == SubSeq(Packets(s), 1, i)
           q == ParsePackets(packets, Infos(s))
           a == Before(s, i)
<1>4. Packets(s) \in Seq(PacketSet) /\ Len(Packets(s)) \in Nat
  BY <1>1, <1>2, PacketsShape, LenProperties
<1>5. Len(packets) = i /\ \A j \in 1..i : packets[j] = Packets(s)[j]
  BY <1>4, SubSeqProperties
<1> HIDE DEF packets
<1>6. Reads(q, a, s)
  BY <1>1, <1>2, <1>5, ParseReads
<1>7. parser' = [q EXCEPT !.out = <<>>]
  BY <1>3 DEF packets
<1> HIDE DEF q, a
<1>8. q \in ParserStates
  BY <1>6 DEF Reads, Good
<1>9. parser' \in ParserStates /\ parser'.out = <<>> /\ parser'.buffer = q.buffer
  <2>1. <<>> \in Seq(Seq(Parts))
    OBVIOUS
  <2> QED
    BY <1>7, <1>8, <2>1 DEF ParserStates
<1>10. NeverMixesFrames'
  <2> SUFFICES ASSUME track.dst,
                      NEW b \in {parser'.buffer} \cup {yielded[j] : j \in DOMAIN yielded}
               PROVE  \A j, k \in DOMAIN b : b[j][1] = b[k][1]
    BY <1>1 DEF NeverMixesFrames
  <2>1. CASE b = parser'.buffer
    <3>1. InHand(q, FrameAt(a), PartAt(a)) /\ q.started \in BOOLEAN
      BY <1>6, <1>8 DEF Reads, Good, ParserStates
    <3>2. b = FirstParts(FrameAt(a), PartAt(a)) \/ b = <<>>
      BY <1>9, <2>1, <3>1 DEF InHand
    <3> QED
      BY <3>2, FirstPartsPure
  <2>2. CASE b # parser'.buffer
    <3>1. PICK j \in DOMAIN yielded : b = yielded[j]
      BY <2>2
    <3>2. \E g \in Nat, l \in Nat : b = FirstParts(g, l)
      BY <1>1, <3>1, Boundary DEF Yields
    <3> QED
      BY <3>2, FirstPartsPure
  <2> QED
    BY <2>1, <2>2
<1>11. PartialOnlyAtRangeEnd'
  <2> SUFFICES ASSUME track.dst, ~track.damaged, NEW j \in DOMAIN yielded
               PROVE  yielded[j] = Frame(yielded[j][1][1])'
    BY <1>1 DEF PartialOnlyAtRangeEnd
  <2>1. yielded[j] = Frame(yielded[j][1][1])
    BY <1>1, WholeFrames
  <2> QED
    BY <1>1, <2>1 DEF Frame
<1>12. AudioIsContinuous'
  BY <1>1 DEF AudioIsContinuous
<1>13. DiscOK' /\ Parts' = Parts /\ ParserStates' = ParserStates
  BY <1>1 DEF DiscOK, Disc, Parts, ParserStates
<1> QED
  BY <1>1, <1>9, <1>10, <1>11, <1>12, <1>13 DEF ParserInv

\* The end of the range.
LEMMA FlushOK ==
    ASSUME ParserInv, Flush PROVE ParserInv'
<1>1. /\ pc = "sectors" /\ pc' = "flushed" /\ DiscOK /\ AtBoundary /\ yielded \in Seq(Seq(Parts))
      /\ track' = track /\ frame' = frame /\ left' = left /\ size' = size /\ sound' = sound
      /\ track.dst \in BOOLEAN /\ parser \in ParserStates /\ parser.out = <<>>
  BY ParserAssumption DEF ParserInv, DiscOK, Flush, disc
<1>2. parser.buffer \in Seq(Parts) /\ parser.decoded + 1 \in Nat /\ <<>> \in Seq(Parts)
  BY <1>1 DEF ParserStates
<1>3. /\ \/ yielded' = yielded
         \/ /\ yielded' = Append(yielded, parser.buffer) /\ parser.buffer # <<>>
            /\ (track.dst => ShouldYield(parser))
      /\ ~track.dst => yielded' = IF parser.buffer = <<>> THEN yielded ELSE Append(yielded, parser.buffer)
      /\ parser' \in ParserStates /\ parser'.out = <<>> /\ parser'.buffer = <<>>
  <2>1. CASE parser.buffer = <<>>
    BY <1>1, <2>1 DEF Flush
  <2>2. CASE parser.buffer # <<>> /\ track.dst /\ ~ShouldYield(parser)
    <3>1. parser' = [parser EXCEPT !.buffer = <<>>] /\ yielded' = yielded
      BY <2>2 DEF Flush
    <3>2. parser' \in ParserStates /\ parser'.out = <<>> /\ parser'.buffer = <<>>
      BY <1>1, <1>2, <3>1 DEF ParserStates
    <3> QED
      BY <2>2, <3>1, <3>2
  <2>3. CASE parser.buffer # <<>> /\ (track.dst => ShouldYield(parser))
    <3> DEFINE d == IF track.dst THEN parser.decoded + 1 ELSE parser.decoded
    <3>1. parser' = [parser EXCEPT !.buffer = <<>>, !.decoded = d] /\ yielded' = Append(yielded, parser.buffer)
      BY <1>1, <2>3 DEF Flush, ParserStates
    <3>2. d \in Nat
      BY <1>1, <1>2 DEF ParserStates
    <3> HIDE DEF d
    <3>3. parser' \in ParserStates /\ parser'.out = <<>> /\ parser'.buffer = <<>>
      BY <1>1, <1>2, <3>1, <3>2 DEF ParserStates
    <3> QED
      BY <2>3, <3>1, <3>3
  <2> QED
    BY <1>1, <2>1, <2>2, <2>3
<1>4. yielded' \in Seq(Seq(Parts))
  BY <1>1, <1>2, <1>3, AppendProperties
<1>5. ASSUME track.dst, yielded' = Append(yielded, parser.buffer), parser.buffer # <<>>, ShouldYield(parser)
      PROVE  /\ parser.buffer = FirstParts(frame, PartsRead) /\ InFilter(frame)
             /\ frame \in Nat /\ PartsRead \in Nat /\ parser.buffer[1][1] = frame
             /\ Len(yielded') = Len(yielded) + 1 /\ yielded'[Len(yielded) + 1] = parser.buffer
             /\ \A j \in 1..Len(yielded) : yielded'[j] = yielded[j]
             /\ Len(yielded) \in Nat /\ DOMAIN yielded' = 1..(Len(yielded) + 1)
             /\ DOMAIN yielded = 1..Len(yielded)
             /\ ~track.damaged => left > 0
  <2>1. /\ InHand(parser, frame, PartsRead) /\ Counted(parser, frame, PartsRead, size, sound)
        /\ (parser.started => parser.count > 0) /\ frame \in Nat /\ PartsRead \in 1..MaxParts
        /\ MaxParts \in Nat /\ left \in Nat
        /\ (frame >= 1 => PartsRead = size[frame] - left /\ size[frame] \in 1..MaxParts)
    BY <1>1, <1>5, Boundary, ParserAssumption
  <2>2. /\ parser.started /\ parser.buffer = FirstParts(frame, PartsRead) /\ frame >= 1
        /\ parser.timecode = frame
    BY <1>5, <2>1 DEF InHand
  <2>3. InFilter(frame)
    BY <1>5, <2>1, <2>2 DEF ShouldYield, NoTime
  <2>4. parser.buffer[1] = <<frame, 1>>
    BY <2>1, <2>2 DEF FirstParts
  <2>5. parser.buffer[1][1] = frame
    BY <2>4
  <2>6. ~track.damaged => left > 0
    <3>1. ~track.damaged => frame \in sound
      BY <1>1, <2>1, <2>2 DEF DiscOK
    <3>2. frame \in sound => left = parser.count
      BY <2>1, <2>2 DEF Counted
    <3> QED
      BY <2>1, <2>2, <3>1, <3>2
  <2>7. /\ Len(yielded') = Len(yielded) + 1 /\ yielded'[Len(yielded) + 1] = parser.buffer
        /\ \A j \in 1..Len(yielded) : yielded'[j] = yielded[j]
        /\ Len(yielded) \in Nat /\ DOMAIN yielded' = 1..(Len(yielded) + 1)
        /\ DOMAIN yielded = 1..Len(yielded)
    BY <1>1, <1>2, <1>4, <1>5, AppendProperties, LenProperties
  <2> QED
    BY <2>1, <2>2, <2>3, <2>5, <2>6, <2>7
<1>6. NeverMixesFrames'
  <2> SUFFICES ASSUME track.dst,
                      NEW b \in {parser'.buffer} \cup {yielded'[j] : j \in DOMAIN yielded'}
               PROVE  \A j, k \in DOMAIN b : b[j][1] = b[k][1]
    BY <1>1 DEF NeverMixesFrames
  <2>1. CASE b = parser'.buffer
    BY <1>3, <2>1
  <2>2. CASE b # parser'.buffer
    <3>1. PICK j \in DOMAIN yielded' : b = yielded'[j]
      BY <2>2
    <3>2. \E g \in Nat, l \in Nat : b = FirstParts(g, l)
      <4>1. \A k \in DOMAIN yielded : \E g \in Nat, l \in Nat : yielded[k] = FirstParts(g, l)
        BY <1>1, Boundary DEF Yields
      <4>2. CASE yielded' = yielded
        BY <3>1, <4>1, <4>2
      <4>3. CASE yielded' # yielded
        <5>1. /\ j \in 1..(Len(yielded) + 1) /\ Len(yielded) \in Nat
              /\ (j = Len(yielded) + 1 => b = FirstParts(frame, PartsRead))
              /\ (j # Len(yielded) + 1 => j \in DOMAIN yielded /\ b = yielded[j])
          BY <1>3, <1>5, <3>1, <4>3
        <5> QED
          BY <1>3, <1>5, <4>1, <4>3, <5>1
      <4> QED
        BY <4>2, <4>3
    <3> QED
      BY <3>2, FirstPartsPure
  <2> QED
    BY <2>1, <2>2
<1>7. PartialOnlyAtRangeEnd'
  <2> SUFFICES ASSUME track.dst, ~track.damaged, NEW j \in DOMAIN yielded'
               PROVE  \/ yielded'[j] = Frame(yielded'[j][1][1])
                      \/ /\ j = Len(yielded') /\ yielded'[j][1][1] = frame
                         /\ left > 0 /\ InFilter(frame)
    BY <1>1 DEF PartialOnlyAtRangeEnd, InFilter, Frame
  <2>1. \A k \in DOMAIN yielded : yielded[k] = Frame(yielded[k][1][1])
    BY <1>1, WholeFrames
  <2>3. CASE yielded' = yielded
    BY <2>1, <2>3
  <2>4. CASE yielded' # yielded
    <3>1. CASE j = Len(yielded) + 1
      BY <1>3, <1>5, <2>4, <3>1
    <3>2. CASE j # Len(yielded) + 1
      <4>1. j \in DOMAIN yielded /\ yielded'[j] = yielded[j]
        BY <1>3, <1>5, <2>4, <3>2
      <4> QED
        BY <2>1, <4>1
    <3> QED
      BY <3>1, <3>2
  <2> QED
    BY <2>3, <2>4
<1>8. AudioIsContinuous'
  <2> SUFFICES ASSUME ~track.dst PROVE AudioIsContinuous'
    BY <1>1 DEF AudioIsContinuous
  <2> DEFINE st == FlattenSeq(yielded) \o parser.buffer
  <2>1. Flow(st, frame, PartsRead, size)
    BY <1>1 DEF AtBoundary
  <2>2. (FlattenSeq(yielded) \o parser.buffer)' = st
    <3>1. FlattenSeq(yielded) \in Seq(Parts)
      BY <1>1, FlattenType
    <3>2. FlattenSeq(yielded') \in Seq(Parts)
      BY <1>4, FlattenType
    <3>3. FlattenSeq(yielded') \o <<>> = FlattenSeq(yielded')
      BY <3>2, ConcatEmptySeq
    <3>4. CASE parser.buffer = <<>>
      BY <1>3, <3>4
    <3>5. CASE parser.buffer # <<>>
      <4>1. yielded' = Append(yielded, parser.buffer)
        BY <1>3, <3>5
      <4>2. FlattenSeq(yielded') = st
        BY <1>1, <1>2, <4>1, FlattenAppend
      <4> QED
        BY <1>3, <3>3, <4>2
    <3> QED
      BY <3>4, <3>5
  <2> HIDE DEF st
  <2>3. Continuous(st) /\ ReachesDisc(st)
    BY <1>1, <2>1, FlowContinuous
  <2>4. Continuous(FlattenSeq(yielded) \o parser.buffer)'
    BY <1>1, <2>2, <2>3 DEF Continuous, FirstPacket
  <2>5. ReachesDisc(FlattenSeq(yielded) \o parser.buffer)'
    BY <1>1, <2>2, <2>3 DEF ReachesDisc, PartsRead
  <2> QED
    BY <1>1, <1>3, <2>4, <2>5 DEF AudioIsContinuous
<1>9. DiscOK' /\ Parts' = Parts /\ ParserStates' = ParserStates
  BY <1>1 DEF DiscOK, Disc, Parts, ParserStates
<1> QED
  BY <1>1, <1>3, <1>4, <1>6, <1>7, <1>8, <1>9 DEF ParserInv

-----------------------------------------------------------------------------
(* The theorems *)

\* Every step keeps the invariant.
LEMMA ParserStep == ParserInv /\ [ParserNext]_parserVars => ParserInv'
<1> SUFFICES ASSUME ParserInv, [ParserNext]_parserVars PROVE ParserInv'
  OBVIOUS
<1>1. CASE ParseSector
  BY <1>1, SectorOK
<1>2. CASE ParseSectorFails
  BY <1>2, FailOK
<1>3. CASE Flush
  BY <1>3, FlushOK
<1>4. CASE UNCHANGED parserVars
  <2>1. /\ track' = track /\ frame' = frame /\ left' = left /\ size' = size /\ sound' = sound
        /\ parser' = parser /\ yielded' = yielded /\ pc' = pc
    BY <1>4 DEF parserVars, disc
  <2>2. DiscOK' /\ Parts' = Parts /\ ParserStates' = ParserStates
    BY <2>1 DEF ParserInv, DiscOK, Disc, Parts, ParserStates
  <2>3. AtBoundary' <=> AtBoundary
    BY <2>1 DEF AtBoundary, Good, InHand, Counted, Past, Yields, Exact, FirstWanted, LastWanted,
                InFilter, ParserStates, Parts, PartsRead, Flow, Follows, FirstPacket
  <2>4. /\ NeverMixesFrames' <=> NeverMixesFrames
        /\ PartialOnlyAtRangeEnd' <=> PartialOnlyAtRangeEnd
        /\ AudioIsContinuous' <=> AudioIsContinuous
    BY <2>1 DEF NeverMixesFrames, PartialOnlyAtRangeEnd, Frame, InFilter, AudioIsContinuous, Continuous,
                ReachesDisc, FirstPacket, PartsRead
  <2> QED
    BY <2>1, <2>2, <2>3, <2>4 DEF ParserInv
<1> QED
  BY <1>1, <1>2, <1>3, <1>4 DEF ParserNext, Done

\* The invariant holds of every reachable state.
THEOREM InvariantHolds == ParserSpec => []ParserInv
<1>1. ParserInit => ParserInv
  BY InitOK
<1> QED
  BY <1>1, ParserStep, PTL DEF ParserSpec

\* The parser's fields, the disc and what is returned keep their types, and
\* parse_sector leaves nothing it has completed behind.
THEOREM ParserTypeCorrect == ParserSpec => []ParserTypeOK
<1>1. ParserInv => ParserTypeOK
  <2> SUFFICES ASSUME ParserInv PROVE ParserTypeOK
    OBVIOUS
  <2>1. /\ track \in Tracks /\ left \in 0..MaxParts /\ Disc(frame, size, sound) /\ track.last \in Nat
    BY ParserAssumption DEF ParserInv, DiscOK
  <2>2. frame \in 0..track.last /\ DOMAIN size \subseteq 1..track.last /\ sound \subseteq 1..track.last
    BY <2>1 DEF Disc
  <2>3. DOMAIN parser = Fields
    BY DEF ParserInv, ParserStates, Fields
  <2>4. /\ parser.buffer \in Seq(Parts) /\ parser.count \in Nat /\ parser.started \in BOOLEAN
        /\ parser.timecode \in {NoTime} \cup 1..track.last
        /\ parser.decoded \in Nat /\ parser.filtered \in Nat
    BY DEF ParserInv, ParserStates
  <2> QED
    BY <2>1, <2>2, <2>3, <2>4 DEF ParserTypeOK, ParserInv
<1> QED
  BY <1>1, InvariantHolds, PTL

\* The invariant implies the agreement of the countdown.
LEMMA CountAgreesAlways == ParserInv => CountAgreesWithDisc
<1> SUFFICES ASSUME ParserInv, pc = "sectors", track.dst, ~track.damaged
             PROVE  IF left > 0 /\ frame > 0
                    THEN /\ parser.started /\ parser.count = left
                         /\ parser.buffer = SubSeq(Frame(frame), 1, size[frame] - left)
                    ELSE ~parser.started /\ parser.count = 0 /\ parser.buffer = <<>>
  BY DEF CountAgreesWithDisc
<1>1. /\ InHand(parser, frame, PartsRead) /\ Counted(parser, frame, PartsRead, size, sound)
      /\ (parser.started => parser.count > 0) /\ parser.started \in BOOLEAN
      /\ frame \in Nat /\ left \in Nat /\ PartsRead \in 1..MaxParts /\ MaxParts \in Nat
      /\ (frame >= 1 => PartsRead = size[frame] - left /\ size[frame] \in 1..MaxParts)
  BY Boundary, ParserAssumption
<1>2. frame >= 1 => frame \in sound
  BY <1>1 DEF ParserInv, DiscOK
<1>3. parser.started => left > 0 /\ frame > 0 /\ parser.count = left
  BY <1>1, <1>2 DEF InHand, Counted
<1>4. left > 0 /\ frame > 0 => parser.started
  BY <1>1, <1>2 DEF Counted
<1>5. parser.started => parser.buffer = SubSeq(Frame(frame), 1, size[frame] - left)
  <2> SUFFICES ASSUME parser.started PROVE FirstParts(frame, PartsRead) = SubSeq(Frame(frame), 1, PartsRead)
    BY <1>1, <1>3 DEF InHand
  <2> DEFINE k == size[frame]
  <2>1. k \in 1..MaxParts /\ PartsRead \in 1..k /\ k \in 0..MaxParts /\ frame \in 0..track.last
    BY <1>1, <1>3 DEF ParserInv, DiscOK, Disc
  <2>2. Frame(frame) = FirstParts(frame, k)
    BY DEF Frame, FirstParts
  <2> HIDE DEF k
  <2>3. FirstParts(frame, k) \in Seq(Parts) /\ Len(FirstParts(frame, k)) = k
    BY <2>1, FirstPartsType DEF ParserInv, DiscOK
  <2>4. PartsRead \in 0..MaxParts
    BY <1>1
  <2>5. FirstParts(frame, PartsRead) \in Seq(Parts) /\ Len(FirstParts(frame, PartsRead)) = PartsRead
    BY <2>1, <2>4, FirstPartsType DEF ParserInv, DiscOK
  <2>6. /\ SubSeq(FirstParts(frame, k), 1, PartsRead) \in Seq(Parts)
        /\ Len(SubSeq(FirstParts(frame, k), 1, PartsRead)) = PartsRead
        /\ \A i \in 1..PartsRead : SubSeq(FirstParts(frame, k), 1, PartsRead)[i] = FirstParts(frame, k)[i]
    BY <1>1, <2>1, <2>3, SubSeqProperties
  <2>7. \A i \in 1..PartsRead : FirstParts(frame, PartsRead)[i] = <<frame, i>> /\ FirstParts(frame, k)[i] = <<frame, i>>
    <3>1. \A i \in 1..PartsRead : i \in 1..k
      BY <1>1, <2>1
    <3> QED
      BY <3>1 DEF FirstParts
  <2> QED
    <3> DEFINE s == SubSeq(FirstParts(frame, k), 1, PartsRead)
               t == FirstParts(frame, PartsRead)
    <3>1. s \in Seq(Parts) /\ t \in Seq(Parts) /\ Len(t) = PartsRead /\ Len(s) = PartsRead
      BY <2>5, <2>6
    <3>2. \A i \in 1..PartsRead : t[i] = s[i]
      BY <2>6, <2>7
    <3> HIDE DEF s, t
    <3>3. t = s
      BY <3>1, <3>2, SeqEqual
    <3> QED
      BY <2>2, <3>3 DEF s, t
<1>6. ~parser.started => parser.count = 0 /\ parser.buffer = <<>>
  BY <1>1 DEF InHand
<1> QED
  BY <1>1, <1>3, <1>4, <1>5, <1>6

\* At every sector boundary of a sound disc the countdown of declared sectors
\* is what the disc still holds of the frame in hand (audio.rs 463-471).
THEOREM CountAgrees == ParserSpec => []CountAgreesWithDisc
BY CountAgreesAlways, InvariantHolds, PTL

\* The invariant determines what has been yielded.
LEMMA YieldsAlways == ParserInv => YieldsExactlyTheTrack
<1> DEFINE e(i) == Frame(FirstWanted + i - 1)
           d(i) == FirstParts(FirstWanted + i - 1, size[FirstWanted + i - 1])
           k(n) == LastWanted(n) - FirstWanted + 1
<1> SUFFICES ASSUME ParserInv, pc = "sectors", track.dst, ~track.damaged
             PROVE  yielded = [i \in 1..k(LastEnded) |-> e(i)]
  BY DEF YieldsExactlyTheTrack
<1>1. /\ InHand(parser, frame, PartsRead) /\ Counted(parser, frame, PartsRead, size, sound)
      /\ (parser.started => parser.count > 0) /\ parser.started \in BOOLEAN
      /\ frame \in Nat /\ left \in Nat
      /\ (frame >= 1 => PartsRead = size[frame] - left /\ size[frame] \in 1..MaxParts)
  BY Boundary
<1>2. yielded = Exact(Past(parser, frame), size)
  BY WholeFrames
<1>3. frame >= 1 => frame \in sound
  BY <1>1 DEF ParserInv, DiscOK
<1>4. frame >= 1 => Past(parser, frame) = LastEnded
  BY <1>1, <1>3, ParserAssumption DEF Counted, Past, LastEnded
<1>5. 1..k(Past(parser, frame)) = 1..k(LastEnded)
  <2>1. CASE frame >= 1
    BY <1>4, <2>1
  <2>2. CASE frame = 0
    <3>1. Past(parser, frame) = 0 /\ (LastEnded = 0 \/ LastEnded = -1)
      BY <1>1, <2>2 DEF InHand, Past, LastEnded
    <3>2. track.to \in Nat /\ track.from \in Nat
      BY ParserAssumption DEF ParserInv, DiscOK
    <3>3. k(0) <= 0 /\ k(-1) <= 0 /\ k(0) \in Int /\ k(-1) \in Int
      BY <3>2 DEF LastWanted, FirstWanted
    <3>4. 1..k(0) = {} /\ 1..k(-1) = {}
      BY <3>3
    <3> HIDE DEF k
    <3> QED
      BY <3>1, <3>4
  <2> QED
    BY <1>1, <2>1, <2>2
<1>6. \A i : e(i) = d(i)
  BY DEF Frame, FirstParts
<1>7. Exact(Past(parser, frame), size) = [i \in 1..k(Past(parser, frame)) |-> d(i)]
  BY DEF Exact
<1> HIDE DEF e, d, k
<1>8. [i \in 1..k(Past(parser, frame)) |-> d(i)] = [i \in 1..k(LastEnded) |-> e(i)]
  BY <1>5, <1>6
<1> QED
  BY <1>2, <1>7, <1>8

\* On a sound disc the frames yielded so far are the complete frames of the
\* timecode range, each whole and once, in disc order (audio.rs 383-517).
THEOREM YieldsTheTrack == ParserSpec => []YieldsExactlyTheTrack
BY YieldsAlways, InvariantHolds, PTL

\* A frame is yielded short of parts only by flush, and only as the last one
\* (audio.rs 521-541).
THEOREM PartialAtRangeEnd == ParserSpec => []PartialOnlyAtRangeEnd
<1>1. ParserInv => PartialOnlyAtRangeEnd
  <2> SUFFICES ASSUME ParserInv, pc = "sectors" PROVE PartialOnlyAtRangeEnd
    BY DEF ParserInv
  <2> QED
    BY WholeFrames DEF PartialOnlyAtRangeEnd
<1> QED
  BY <1>1, InvariantHolds, PTL

\* Whatever the frame infos declare, packets of two frames never end up in one
\* buffer (audio.rs 405-443).
THEOREM FramesStayApart == ParserSpec => []NeverMixesFrames
<1>1. ParserInv => NeverMixesFrames
  <2> SUFFICES ASSUME ParserInv, pc = "sectors", track.dst,
                      NEW b \in {parser.buffer} \cup {yielded[j] : j \in DOMAIN yielded}
               PROVE  \A j, k \in DOMAIN b : b[j][1] = b[k][1]
    BY DEF ParserInv, NeverMixesFrames
  <2>1. CASE b = parser.buffer
    <3>1. b = FirstParts(frame, PartsRead) \/ b = <<>>
      BY <2>1, Boundary DEF InHand
    <3> QED
      BY <3>1, FirstPartsPure
  <2>2. CASE b # parser.buffer
    <3>1. PICK j \in DOMAIN yielded : b = yielded[j]
      BY <2>2
    <3>2. \E g \in Nat, l \in Nat : b = FirstParts(g, l)
      BY <3>1, Boundary DEF Yields
    <3> QED
      BY <3>2, FirstPartsPure
  <2> QED
    BY <2>1, <2>2
<1> QED
  BY <1>1, InvariantHolds, PTL

\* A frame that is declared right is yielded whole, whatever is declared of the
\* frames around it (audio.rs 405-443).
THEOREM DamageStaysLocal == ParserSpec => []DamageIsLocal
<1>1. ParserInv => DamageIsLocal
  <2> SUFFICES ASSUME ParserInv, pc = "sectors", track.dst, NEW f \in sound, f \in Ended, InFilter(f)
               PROVE  \E i \in DOMAIN yielded : yielded[i] = Frame(f)
    BY DEF DamageIsLocal
  <2>1. /\ InHand(parser, frame, PartsRead) /\ Counted(parser, frame, PartsRead, size, sound)
        /\ (parser.started => parser.count > 0) /\ parser.started \in BOOLEAN
        /\ frame \in Nat /\ left \in Nat
        /\ (frame >= 1 => PartsRead = size[frame] - left /\ size[frame] \in 1..MaxParts)
        /\ Yields(yielded, Past(parser, frame), size, sound)
    BY Boundary
  <2>2. f \in 1..LastEnded /\ LastEnded = (IF left > 0 THEN frame - 1 ELSE frame)
    BY DEF Ended, LastEnded
  <2>3. f <= Past(parser, frame)
    <3>1. parser.started /\ f = frame => left = 0 /\ parser.count = left
      BY <2>1, <2>2 DEF Counted
    <3> QED
      BY <2>1, <2>2, <3>1 DEF Past
  <2>4. PICK i \in DOMAIN yielded : yielded[i] = FirstParts(f, size[f])
    BY <2>1, <2>3 DEF Yields
  <2> QED
    BY <2>4 DEF Frame, FirstParts
<1> QED
  BY <1>1, InvariantHolds, PTL

\* The invariant implies that the audio has no gap.
LEMMA AudioAlways == ParserInv => AudioIsContinuous
<1> SUFFICES ASSUME ParserInv, pc = "sectors", ~track.dst PROVE AudioIsContinuous
  BY DEF ParserInv, AudioIsContinuous
<1>1. Flow(FlattenSeq(yielded) \o parser.buffer, frame, PartsRead, size) /\ DiscOK
  BY DEF ParserInv, AtBoundary
<1> DEFINE st == FlattenSeq(yielded) \o parser.buffer
<1>2. Continuous(st) /\ ReachesDisc(st)
  <2> HIDE DEF st
  <2> QED
    BY <1>1, FlowContinuous DEF st
<1> QED
  BY <1>2 DEF AudioIsContinuous

\* The chunks of an uncompressed track and what is buffered are the packets of
\* the disc without a gap or a repetition (audio.rs 472-490, 546-549).
THEOREM AudioContinuous == ParserSpec => []AudioIsContinuous
BY AudioAlways, InvariantHolds, PTL

=============================================================================
