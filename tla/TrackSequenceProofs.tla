------------------------- MODULE TrackSequenceProofs -------------------------
(***************************************************************************)
(* The files of a selection, for every number of channels, block size,     *)
(* track length and piece: what TrackSequence promises of them, proved     *)
(* from SequenceInv.  A piece is an induction on its bytes, a file one on  *)
(* its rows of blocks, the selection one step of the loop per track.       *)
(***************************************************************************)
EXTENDS TrackSequence, InductionLemmas, FiniteSetTheorems

-----------------------------------------------------------------------------
(* Arithmetic of blocks and of the round-robin *)

\* Quotient and remainder are the only ones.
LEMMA DivUnique ==
    ASSUME NEW d \in Nat \ {0}, NEW q \in Nat, NEW r \in Nat, r < d
    PROVE  /\ q * d + r \in Nat
           /\ (q * d + r) \div d = q
           /\ (q * d + r) % d = r
<1> DEFINE n == q * d + r
           u == n \div d
           v == n % d
<1>0. n \in Nat /\ q * d \in Nat
  OBVIOUS
<1>1. u \in Int /\ v \in 0..(d - 1) /\ n = d * u + v
  BY <1>0
<1>2. n = q * d + r
  OBVIOUS
<1> HIDE DEF u, v, n
<1>3. ~(u + 1 <= q)
  BY <1>1, <1>2
<1>4. ~(q + 1 <= u)
  BY <1>1, <1>2
<1>5. u = q
  BY <1>1, <1>3, <1>4
<1>6. v = r
  BY <1>1, <1>2, <1>5
<1> QED
  BY <1>0, <1>5, <1>6 DEF u, v, n

\* Any number has them.
LEMMA DivExists ==
    ASSUME NEW d \in Nat \ {0}, NEW n \in Nat
    PROVE  /\ n \div d \in Nat /\ n % d \in Nat /\ n % d < d
           /\ n = (n \div d) * d + (n % d)
<1> DEFINE u == n \div d
           v == n % d
<1>1. u \in Int /\ v \in 0..(d - 1) /\ n = d * u + v
  OBVIOUS
<1> HIDE DEF u, v
<1>2. u >= 0
  BY <1>1
<1> QED
  BY <1>1, <1>2 DEF u, v

\* The bytes of channel c among the first n that are dealt out in turn.
Share(c, n) == (n + Channels - c) \div Channels

LEMMA ShareStep ==
    ASSUME NEW c \in Chan, NEW n \in Nat
    PROVE  /\ Share(c, n) \in Nat
           /\ (n % Channels) + 1 \in Chan
           /\ c = (n % Channels) + 1 => Share(c, n) = n \div Channels /\ Share(c, n + 1) = Share(c, n) + 1
           /\ c # (n % Channels) + 1 => Share(c, n + 1) = Share(c, n)
<1> DEFINE q == n \div Channels
           r == n % Channels
<1>0. Channels \in Nat \ {0} /\ c \in 1..Channels
  BY WriterAssumption DEF Chan
<1>1. q \in Nat /\ r \in Nat /\ r < Channels /\ n = q * Channels + r
  BY <1>0, DivExists
<1> HIDE DEF q, r
<1>2. CASE c <= r
  <2>1. n + Channels - c = (q + 1) * Channels + (r - c)
    BY <1>0, <1>1
  <2>2. (n + 1) + Channels - c = (q + 1) * Channels + (r + 1 - c)
    BY <1>0, <1>1
  <2>3. q + 1 \in Nat /\ r - c \in Nat /\ r - c < Channels /\ r + 1 - c \in Nat /\ r + 1 - c < Channels
    BY <1>0, <1>1, <1>2
  <2>4. Share(c, n) = q + 1 /\ Share(c, n + 1) = q + 1
    <3>1. ((q + 1) * Channels + (r - c)) \div Channels = q + 1
      BY <1>0, <2>3, DivUnique
    <3>2. ((q + 1) * Channels + (r + 1 - c)) \div Channels = q + 1
      BY <1>0, <2>3, DivUnique
    <3> QED
      BY <2>1, <2>2, <3>1, <3>2 DEF Share
  <2> QED
    BY <1>0, <1>1, <1>2, <2>4 DEF r, Chan
<1>3. CASE c = r + 1
  <2>1. n + Channels - c = q * Channels + (Channels - 1)
    BY <1>0, <1>1, <1>3
  <2>2. (n + 1) + Channels - c = (q + 1) * Channels + 0
    BY <1>0, <1>1, <1>3
  <2>3. Channels - 1 \in Nat /\ Channels - 1 < Channels /\ 0 \in Nat /\ 0 < Channels /\ q + 1 \in Nat
    BY <1>0, <1>1
  <2>4. Share(c, n) = q /\ Share(c, n + 1) = q + 1
    BY <1>0, <1>1, <2>1, <2>2, <2>3, DivUnique DEF Share
  <2> QED
    BY <1>0, <1>1, <1>3, <2>4 DEF r, q, Chan
<1>4. CASE c > r + 1
  <2>1. n + Channels - c = q * Channels + (r + Channels - c)
    BY <1>0, <1>1
  <2>2. (n + 1) + Channels - c = q * Channels + (r + 1 + Channels - c)
    BY <1>0, <1>1
  <2>3. /\ r + Channels - c \in Nat /\ r + Channels - c < Channels
        /\ r + 1 + Channels - c \in Nat /\ r + 1 + Channels - c < Channels
    BY <1>0, <1>1, <1>4
  <2>4. Share(c, n) = q /\ Share(c, n + 1) = q
    BY <1>0, <1>1, <2>1, <2>2, <2>3, DivUnique DEF Share
  <2> QED
    BY <1>0, <1>1, <1>4, <2>4 DEF r, Chan
<1> QED
  BY <1>0, <1>1, <1>2, <1>3, <1>4

\* Every channel has as many as the last one, or one more; behind a whole round
\* all have the same.
LEMMA ShareBounds ==
    ASSUME NEW c \in Chan, NEW n \in Nat
    PROVE  /\ Share(c, n) \in {Share(Channels, n), Share(Channels, n) + 1}
           /\ Share(c, n) <= n
           /\ n % Channels = 0 => Share(c, n) = n \div Channels
<1> DEFINE q == n \div Channels
           r == n % Channels
<1>0. Channels \in Nat \ {0} /\ c \in 1..Channels
  BY WriterAssumption DEF Chan
<1>1. q \in Nat /\ r \in Nat /\ r < Channels /\ n = q * Channels + r
  BY <1>0, DivExists
<1> HIDE DEF q, r
<1>2. Share(Channels, n) = q
  <2>1. n + Channels - Channels = q * Channels + r
    BY <1>0, <1>1
  <2>2. (q * Channels + r) \div Channels = q
    BY <1>0, <1>1, DivUnique
  <2> QED
    BY <2>1, <2>2 DEF Share
<1>3. q <= n
  BY <1>0, <1>1
<1>4. CASE c <= r
  <2>1. n + Channels - c = (q + 1) * Channels + (r - c)
    BY <1>0, <1>1
  <2>2. q + 1 \in Nat /\ r - c \in Nat /\ r - c < Channels
    BY <1>0, <1>1, <1>4
  <2>3. Share(c, n) = q + 1
    <3>1. Channels \in Nat \ {0}
      BY <1>0
    <3>2. ((q + 1) * Channels + (r - c)) \div Channels = q + 1
      BY <2>2, <3>1, DivUnique, SMTT(30)
    <3> QED
      BY <2>1, <3>2 DEF Share
  <2>4. q + 1 <= n
    BY <1>0, <1>1, <1>4
  <2> QED
    BY <1>0, <1>1, <1>2, <1>4, <2>3, <2>4 DEF r
<1>5. CASE c > r
  <2>1. n + Channels - c = q * Channels + (r + Channels - c)
    BY <1>0, <1>1
  <2>2. r + Channels - c \in Nat /\ r + Channels - c < Channels
    BY <1>0, <1>1, <1>5
  <2>3. Share(c, n) = q
    BY <1>0, <1>1, <2>1, <2>2, DivUnique DEF Share
  <2> QED
    BY <1>2, <1>3, <2>3 DEF q
<1> QED
  BY <1>0, <1>1, <1>4, <1>5

-----------------------------------------------------------------------------
(* Blocks *)

\* Where the i-th byte of a channel lies.
Spot(i, c) == ((i - 1) \div Block) * Channels * Block + (c - 1) * Block + ((i - 1) % Block) + 1

LEMMA SpotInside ==
    ASSUME NEW r \in Nat, NEW c \in Chan, NEW i \in 1..(r * Block)
    PROVE  Spot(i, c) \in 1..(r * (Channels * Block))
<1> DEFINE q == (i - 1) \div Block
           o == (i - 1) % Block
           row == Channels * Block
<1>0. /\ Channels \in Nat \ {0} /\ Block \in Nat \ {0} /\ c \in 1..Channels
      /\ row \in Nat /\ i \in Nat \ {0} /\ r * Block \in Nat
  BY WriterAssumption DEF Chan
<1>1. q \in Nat /\ o \in Nat /\ o < Block /\ i - 1 = q * Block + o
  BY <1>0, DivExists
<1>2. Spot(i, c) = q * row + ((c - 1) * Block + o + 1)
  <2> HIDE DEF q, o
  <2>1. q * Channels * Block = q * (Channels * Block)
    BY <1>0, <1>1
  <2> QED
    BY <1>0, <1>1, <2>1 DEF Spot, q, o
<1> HIDE DEF q, o
<1>3. q < r
  <2> SUFFICES ASSUME r <= q PROVE FALSE
    BY <1>0, <1>1
  <2>1. r * Block <= q * Block
    BY <1>0, <1>1
  <2> QED
    BY <1>0, <1>1, <2>1
<1>4. (c - 1) * Block + o + 1 \in 1..row
  <2>1. c * Block <= row
    BY <1>0
  <2>2. (c - 1) * Block = c * Block - Block /\ (c - 1) * Block \in Nat
    BY <1>0
  <2> QED
    BY <1>0, <1>1, <2>1, <2>2
<1>5. q * row + row <= r * row /\ q * row \in Nat /\ r * row \in Nat
  <2> HIDE DEF row
  <2>1. (q + 1) * row <= r * row
    BY <1>0, <1>1, <1>3
  <2>2. (q + 1) * row = q * row + row
    BY <1>0, <1>1
  <2> QED
    BY <1>0, <1>1, <2>1, <2>2
<1> HIDE DEF row
<1>6. Spot(i, c) \in 1..(r * row)
  BY <1>0, <1>2, <1>4, <1>5
<1> QED
  BY <1>6 DEF row

LEMMA SpotInRow ==
    ASSUME NEW r \in Nat, NEW c \in Chan, NEW j \in 1..Block
    PROVE  /\ Spot(r * Block + j, c) = r * (Channels * Block) + ((c - 1) * Block + j)
           /\ (c - 1) * Block + j \in 1..(Channels * Block)
<1>0. Channels \in Nat \ {0} /\ Block \in Nat \ {0} /\ c \in 1..Channels
  BY WriterAssumption DEF Chan
<1>1. j - 1 \in Nat /\ j - 1 < Block /\ (r * Block + j) - 1 = r * Block + (j - 1)
  BY <1>0
<1>2. ((r * Block + j) - 1) \div Block = r /\ ((r * Block + j) - 1) % Block = j - 1
  <2>1. (r * Block + (j - 1)) \div Block = r /\ (r * Block + (j - 1)) % Block = j - 1
    BY <1>0, <1>1, DivUnique
  <2> QED
    BY <1>1, <2>1
<1>3. r * Channels * Block = r * (Channels * Block) /\ r * (Channels * Block) \in Nat
  BY <1>0
<1>4. (c - 1) * Block + j \in 1..(Channels * Block)
  <2>1. c * Block <= Channels * Block
    BY <1>0
  <2>2. (c - 1) * Block = c * Block - Block /\ (c - 1) * Block \in Nat
    BY <1>0
  <2> QED
    BY <1>0, <1>1, <2>1, <2>2
<1>5. (c - 1) * Block \in Nat
  BY <1>0
<1>6. Spot(r * Block + j, c) = r * Channels * Block + (c - 1) * Block + (j - 1) + 1
  BY <1>2 DEF Spot
<1> QED
  BY <1>0, <1>3, <1>4, <1>5, <1>6

\* Nothing is in no data.
LEMMA ChannelOfEmpty ==
    ASSUME NEW c \in Chan
    PROVE  ChannelOf(<<>>, c) = <<>>
<1> DEFINE rows == Len(<<>>) \div (Channels * Block)
<1>1. Channels * Block \in Nat \ {0} /\ Block \in Nat
  BY WriterAssumption
<1>2. rows = 0
  <2>1. 0 * (Channels * Block) + 0 = 0 /\ 0 \in Nat /\ 0 < Channels * Block
    BY <1>1
  <2>2. 0 \div (Channels * Block) = 0
    BY <1>1, <2>1, DivUnique
  <2> QED
    BY <2>2
<1>3. 1..(rows * Block) = {}
  BY <1>1, <1>2
<1> HIDE DEF rows
<1>4. \A f : [i \in 1..(rows * Block) |-> f[i]] = <<>>
  BY <1>3
<1> QED
  BY <1>3 DEF ChannelOf, rows

\* Rows of blocks hold as many bytes of each channel.
LEMMA ChannelOfType ==
    ASSUME NEW S, NEW data \in Seq(S), NEW r \in Nat, Len(data) = r * (Channels * Block), NEW c \in Chan
    PROVE  /\ ChannelOf(data, c) \in Seq(S)
           /\ Len(ChannelOf(data, c)) = r * Block /\ r * Block \in Nat
           /\ \A i \in 1..(r * Block) : ChannelOf(data, c)[i] = data[Spot(i, c)]
<1> DEFINE rows == Len(data) \div (Channels * Block)
           spots == [i \in 1..(r * Block) |-> data[Spot(i, c)]]
<1>1. Channels * Block \in Nat \ {0} /\ Block \in Nat /\ r * Block \in Nat
  BY WriterAssumption
<1>2. rows = r
  <2>1. r * (Channels * Block) + 0 = r * (Channels * Block) /\ 0 \in Nat /\ 0 < Channels * Block
    BY <1>1
  <2>2. (r * (Channels * Block) + 0) \div (Channels * Block) = r
    BY <1>1, <2>1, DivUnique
  <2> QED
    BY <2>1, <2>2
<1>3. ChannelOf(data, c) = [i \in 1..(rows * Block) |-> data[Spot(i, c)]]
  BY DEF ChannelOf, Spot
<1>4. ChannelOf(data, c) = spots
  <2> HIDE DEF rows
  <2> QED
    BY <1>2, <1>3
<1>5. \A i \in 1..(r * Block) : data[Spot(i, c)] \in S
  <2> TAKE i \in 1..(r * Block)
  <2>1. Spot(i, c) \in 1..Len(data)
    BY SpotInside
  <2> QED
    BY <2>1, ElementOfSeq
<1>6. spots \in Seq(S) /\ Len(spots) = r * Block
  BY <1>1, <1>5
<1> QED
  BY <1>1, <1>4, <1>6

\* What is saved and what is held may be joined in either order.
LEMMA Regroup ==
    ASSUME NEW S, NEW s \in Seq(S), NEW a \in Seq(S), NEW b \in Seq(S)
    PROVE  (s \o a) \o b = s \o (a \o b)
BY ConcatAssociative, SMTT(30)

\* A row of blocks behind the data gives every channel its block.
LEMMA ChannelOfRow ==
    ASSUME NEW S, NEW data \in Seq(S), NEW r \in Nat, Len(data) = r * (Channels * Block),
           NEW blocks \in [Chan -> Seq(S)], \A k \in Chan : Len(blocks[k]) = Block
    PROVE  /\ data \o FlattenSeq(blocks) \in Seq(S)
           /\ Len(data \o FlattenSeq(blocks)) = (r + 1) * (Channels * Block)
           /\ \A c \in Chan : ChannelOf(data \o FlattenSeq(blocks), c) = ChannelOf(data, c) \o blocks[c]
<1> DEFINE row == FlattenSeq(blocks)
           more == data \o row
           size == Channels * Block
<1>0. Channels \in Nat \ {0} /\ Block \in Nat \ {0} /\ size \in Nat /\ Chan = 1..Channels
  BY WriterAssumption DEF Chan
<1>1. /\ row \in Seq(S) /\ Len(row) = size
      /\ \A i \in Chan : \A j \in 1..Block : row[(i - 1) * Block + j] = blocks[i][j]
  <2>1. blocks \in Seq(Seq(S)) /\ Len(blocks) = Channels
    <3>1. blocks \in [1..Channels -> Seq(S)] /\ Channels \in Nat
      BY <1>0
    <3> QED
      BY <3>1, SMTT(30)
  <2>2. \A i \in 1..Len(blocks) : Len(blocks[i]) = Block
    BY <1>0, <2>1
  <2>3. /\ FlattenSeq(blocks) \in Seq(S) /\ Len(FlattenSeq(blocks)) = Len(blocks) * Block
        /\ \A i \in 1..Len(blocks) : \A j \in 1..Block :
             FlattenSeq(blocks)[(i - 1) * Block + j] = blocks[i][j]
    <3>1. FlattenSeq(blocks) \in Seq(S) /\ Blocks(FlattenSeq(blocks), blocks, Block)
      BY <1>0, <2>1, <2>2, FlattenBlocks
    <3> QED
      BY <3>1 DEF Blocks
  <2> QED
    BY <1>0, <2>1, <2>3
<1> HIDE DEF row, size
<1>2. /\ more \in Seq(S) /\ Len(more) = Len(data) + Len(row) /\ Len(data) \in Nat
      /\ \A k \in 1..Len(data) : more[k] = data[k]
      /\ \A k \in 1..Len(row) : more[Len(data) + k] = row[k]
  <2> DEFINE d == data
  <2>1. d \in Seq(S) /\ row \in Seq(S)
    BY <1>1
  <2> HIDE DEF more, d
  <2>2. /\ d \o row \in Seq(S) /\ Len(d \o row) = Len(d) + Len(row) /\ Len(d) \in Nat
        /\ \A k \in 1..Len(d) : (d \o row)[k] = d[k]
        /\ \A k \in 1..Len(row) : (d \o row)[Len(d) + k] = row[k]
    BY <2>1, ConcatElements
  <2> QED
    BY <2>2 DEF more, d
<1>3. Len(more) = (r + 1) * size
  <2>1. r * size + size = (r + 1) * size
    BY <1>0
  <2> QED
    BY <1>1, <1>2, <2>1 DEF size
<1> HIDE DEF more
<1>4. ASSUME NEW c \in Chan PROVE ChannelOf(more, c) = ChannelOf(data, c) \o blocks[c]
  <2> DEFINE a == ChannelOf(data, c)
             b == ChannelOf(more, c)
             e == blocks[c]
  <2>1. /\ b \in Seq(S) /\ Len(b) = (r + 1) * Block
        /\ \A i \in 1..((r + 1) * Block) : b[i] = more[Spot(i, c)]
    BY <1>2, <1>3, ChannelOfType, SMTT(30) DEF size
  <2>2. /\ a \in Seq(S) /\ Len(a) = r * Block /\ r * Block \in Nat
        /\ \A i \in 1..(r * Block) : a[i] = data[Spot(i, c)]
    BY ChannelOfType
  <2>3. e \in Seq(S) /\ Len(e) = Block
    OBVIOUS
  <2> HIDE DEF a, b, e
  <2>10. a \in Seq(S) /\ e \in Seq(S)
    BY <2>2, <2>3
  <2>4. /\ a \o e \in Seq(S) /\ Len(a \o e) = Len(a) + Len(e)
        /\ \A k \in 1..Len(a) : (a \o e)[k] = a[k]
        /\ \A k \in 1..Len(e) : (a \o e)[Len(a) + k] = e[k]
    BY <2>10, ConcatElements
  <2> DEFINE m == r * Block
             t == a \o e
  <2>5. (r + 1) * Block = m + Block
    BY <1>0
  <2>6. ASSUME NEW i \in 1..m PROVE b[i] = t[i]
    <3>1. Spot(i, c) \in 1..Len(data)
      BY SpotInside
    <3>2. i \in 1..((r + 1) * Block)
      BY <1>0, <2>2, <2>5
    <3> QED
      BY <1>2, <2>1, <2>2, <2>4, <3>1, <3>2
  <2>7. ASSUME NEW j \in 1..Block PROVE b[m + j] = t[m + j]
    <3>1. Spot(m + j, c) = Len(data) + ((c - 1) * Block + j) /\ (c - 1) * Block + j \in 1..Len(row)
      BY <1>1, SpotInRow DEF size
    <3>2. m + j \in 1..((r + 1) * Block)
      BY <1>0, <2>2, <2>5
    <3>3. b[m + j] = e[j]
      <4> DEFINE q == (c - 1) * Block + j
      <4>1. b[m + j] = more[Len(data) + q] /\ q \in 1..Len(row)
        BY <2>1, <3>1, <3>2
      <4>2. row[q] = blocks[c][j]
        BY <1>0, <1>1
      <4> HIDE DEF q
      <4>3. more[Len(data) + q] = row[q]
        BY <1>2, <4>1
      <4> QED
        BY <4>1, <4>2, <4>3 DEF e
    <3>4. t[m + j] = e[j]
      BY <2>2, <2>3, <2>4
    <3> QED
      BY <3>3, <3>4
  <2> HIDE DEF m, t
  <2>8. m \in Nat /\ Len(b) = m + Block /\ Len(t) = m + Block /\ t \in Seq(S)
    BY <2>1, <2>2, <2>3, <2>4, <2>5 DEF m, t
  <2>9. \A i \in 1..(m + Block) : b[i] = t[i]
    <3> TAKE i \in 1..(m + Block)
    <3>1. CASE i <= m
      <4>1. i \in 1..m
        BY <2>8, <3>1
      <4> QED
        BY <2>6, <4>1
    <3>2. CASE ~(i <= m)
      <4>1. i - m \in 1..Block /\ m + (i - m) = i
        BY <1>0, <2>8, <3>2
      <4> QED
        BY <2>7, <4>1
    <3> QED
      BY <3>1, <3>2
  <2> QED
    BY <2>1, <2>8, <2>9, SeqEqual DEF a, b, t, e
<1> QED
  BY <1>2, <1>3, <1>4 DEF more, row, size

-----------------------------------------------------------------------------
(* write_samples, byte by byte *)

\* r[1..k] is the writer behind the first k of the bytes.
Folded(r, base, bytes, s) ==
    IF s = {} THEN base ELSE WriteByte(r[s \ {Max(s)}], bytes[Max(s)])

Folds(r, base, bytes, D) == r = [s \in SUBSET D |-> Folded(r, base, bytes, s)]

LEMMA FoldsAt ==
    ASSUME NEW r, NEW base, NEW bytes, NEW D, Folds(r, base, bytes, D)
    PROVE  \A s \in SUBSET D : r[s] = Folded(r, base, bytes, s)
BY DEF Folds

LEMMA MaxOfRange ==
    ASSUME NEW m \in Nat, NEW s \in SUBSET (1..(m + 1)), m + 1 \in s
    PROVE  Max(s) = m + 1
<1>1. \A y \in s : m + 1 >= y
  OBVIOUS
<1>2. \A x \in s : (\A y \in s : x >= y) => x = m + 1
  OBVIOUS
<1>3. Max(s) = CHOOSE x \in s : \A y \in s : x >= y
  BY DEF Max
<1> QED
  BY <1>1, <1>2, <1>3

\* The function that FoldLeft defines by recursion exists.
LEMMA FoldsExist ==
    ASSUME NEW base, NEW bytes, NEW n \in Nat
    PROVE  \E r : Folds(r, base, bytes, 1..n)
<1> DEFINE S == {m \in Nat : \E r : Folds(r, base, bytes, 1..m)}
<1>1. 0 \in S
  <2> DEFINE h == [s \in SUBSET (1..0) |-> base]
  <2>1. \A s \in SUBSET (1..0) : s = {}
    OBVIOUS
  <2>2. h = [s \in SUBSET (1..0) |-> Folded(h, base, bytes, s)]
    BY <2>1 DEF Folded
  <2> HIDE DEF h
  <2>3. Folds(h, base, bytes, 1..0)
    BY <2>2 DEF Folds
  <2> HIDE DEF Folds
  <2> QED
    BY <2>3
<1>2. ASSUME NEW m \in Nat, m \in S PROVE m + 1 \in S
  <2>1. PICK r : Folds(r, base, bytes, 1..m)
    BY <1>2
  <2> DEFINE h == [s \in SUBSET (1..(m + 1)) |->
                     IF m + 1 \in s THEN WriteByte(r[s \ {m + 1}], bytes[m + 1]) ELSE r[s]]
             e(s) == Folded(h, base, bytes, s)
  <2>2. ASSUME NEW s \in SUBSET (1..m) PROVE s \in SUBSET (1..(m + 1)) /\ h[s] = r[s]
    <3>1. m + 1 \notin s /\ \A x \in s : x \in 1..(m + 1)
      OBVIOUS
    <3> QED
      BY <3>1
  <2>3. ASSUME NEW s \in SUBSET (1..(m + 1)) PROVE h[s] = e(s)
    <3>1. CASE m + 1 \in s
      <4>1. Max(s) = m + 1
        BY <3>1, MaxOfRange
      <4>2. s \ {m + 1} \in SUBSET (1..m)
        OBVIOUS
      <4>3. h[s \ {m + 1}] = r[s \ {m + 1}]
        BY <2>2, <4>2
      <4>4. h[s] = WriteByte(r[s \ {m + 1}], bytes[m + 1])
        BY <3>1
      <4>5. s # {}
        BY <3>1
      <4> HIDE DEF h
      <4>6. e(s) = WriteByte(h[s \ {m + 1}], bytes[m + 1])
        BY <4>1, <4>5 DEF Folded
      <4> QED
        BY <4>3, <4>4, <4>6
    <3>2. CASE m + 1 \notin s
      <4>1. s \in SUBSET (1..m)
        BY <3>2
      <4>2. s \ {Max(s)} \in SUBSET (1..m)
        BY <4>1
      <4>3. h[s] = r[s] /\ h[s \ {Max(s)}] = r[s \ {Max(s)}]
        BY <2>2, <4>1, <4>2
      <4>0. \A t \in SUBSET (1..m) :
              r[t] = Folded(r, base, bytes, t)
        BY <2>1, FoldsAt
      <4>4. r[s] = IF s = {} THEN base ELSE WriteByte(r[s \ {Max(s)}], bytes[Max(s)])
        BY <4>0, <4>1 DEF Folded
      <4> HIDE DEF h
      <4> QED
        BY <4>3, <4>4 DEF Folded
    <3> QED
      BY <3>1, <3>2
  <2>4. h = [s \in SUBSET (1..(m + 1)) |-> h[s]]
    OBVIOUS
  <2> HIDE DEF h
  <2>5. Folds(h, base, bytes, 1..(m + 1))
    BY <2>3, <2>4 DEF Folds
  <2> HIDE DEF Folds
  <2> QED
    BY <2>5
<1>3. \A m \in Nat : m \in S
  <2> HIDE DEF S
  <2> QED
    BY <1>1, <1>2, NatSetInduction
<1> QED
  BY <1>3

\* write_samples counts the bytes, then takes one after the other.
Counted(w, bytes) == [w EXCEPT !.decoded = @ + Len(bytes)]

OneByOne(f, w, bytes, n) ==
    /\ f[0] = Counted(w, bytes)
    /\ \A k \in 0..(n - 1) : f[k + 1] = WriteByte(f[k], bytes[k + 1])
    /\ WriteSamples(w, bytes) = f[n]

LEMMA WriteSamplesDef ==
    ASSUME NEW w, NEW bytes, NEW n \in Nat, DOMAIN bytes = 1..n
    PROVE  \E f : OneByOne(f, w, bytes, n)
<1> DEFINE base == Counted(w, bytes)
           D == 1..n
<1>1. WriteSamples(w, bytes) = (CHOOSE r : Folds(r, base, bytes, D))[D]
  BY DEF WriteSamples, FoldLeft, MapThenFoldSet, Folds, Folded, Counted
<1> HIDE DEF base
<1>2. PICK r : Folds(r, base, bytes, D) /\ WriteSamples(w, bytes) = r[D]
  BY <1>1, FoldsExist
<1>6. \A s \in SUBSET D :
        r[s] = Folded(r, base, bytes, s)
  BY <1>2, FoldsAt, ZenonT(40)
<1> DEFINE f == [k \in 0..n |-> r[1..k]]
<1>3. f[0] = base
  <2>1. {} \in SUBSET D /\ 1..0 = {}
    OBVIOUS
  <2>2. r[{}] = base
    BY <1>6, <2>1 DEF Folded
  <2> QED
    BY <2>1, <2>2
<1>4. ASSUME NEW k \in 0..(n - 1) PROVE f[k + 1] = WriteByte(f[k], bytes[k + 1])
  <2> DEFINE s == 1..(k + 1)
  <2>1. s \in SUBSET D /\ k + 1 \in s /\ s # {} /\ s \ {k + 1} = 1..k
    OBVIOUS
  <2>2. Max(s) = k + 1
    BY <2>1, MaxOfRange
  <2>3. r[s] = WriteByte(r[s \ {k + 1}], bytes[k + 1])
    BY <1>6, <2>1, <2>2 DEF Folded
  <2>4. f[k + 1] = r[s] /\ f[k] = r[1..k]
    OBVIOUS
  <2> QED
    BY <2>1, <2>3, <2>4
<1>5. f[n] = r[D]
  OBVIOUS
<1> HIDE DEF f
<1>7. OneByOne(f, w, bytes, n)
  BY <1>2, <1>3, <1>4, <1>5 DEF base, OneByOne
<1> QED
  BY <1>7

-----------------------------------------------------------------------------
(* The writer *)

Writers == [buffers : Tails, pos : Nat, decoded : Nat, data : Seq(Bytes), nopad : BOOLEAN]

\* What has come to channel c of the file: blocks written, then its buffer.
Given(w, c) == ChannelOf(w.data, c) \o w.buffers[c]

\* A sequence is its beginning and its rest.
LEMMA CutAt ==
    ASSUME NEW S, NEW s \in Seq(S), NEW k \in Nat, k <= Len(s)
    PROVE  /\ SubSeq(s, 1, k) \in Seq(S) /\ Len(SubSeq(s, 1, k)) = k
           /\ SubSeq(s, k + 1, Len(s)) \in Seq(S) /\ Len(SubSeq(s, k + 1, Len(s))) = Len(s) - k
           /\ SubSeq(s, 1, k) \o SubSeq(s, k + 1, Len(s)) = s
<1> DEFINE n == Len(s)
           a == SubSeq(s, 1, k)
           b == SubSeq(s, k + 1, n)
<1>0. n \in Nat /\ k \in 0..n
  BY LenProperties
<1>1. /\ a \in Seq(S) /\ Len(a) = k
      /\ \A i \in 1..k : a[i] = s[i]
  <2>1. /\ SubSeq(s, 1, k) \in Seq(S) /\ Len(SubSeq(s, 1, k)) = IF 1 <= k THEN k - 1 + 1 ELSE 0
        /\ \A i \in 1..(k - 1 + 1) : SubSeq(s, 1, k)[i] = s[1 + i - 1]
    BY <1>0, SubSeqProperties
  <2>2. \A i \in 1..k : i \in 1..(k - 1 + 1) /\ 1 + i - 1 = i
    BY <1>0
  <2> HIDE DEF n
  <2> QED
    BY <1>0, <2>1, <2>2
<1>2. /\ b \in Seq(S) /\ Len(b) = n - k
      /\ \A i \in 1..(n - k) : b[i] = s[k + i]
  <2>1. /\ SubSeq(s, k + 1, n) \in Seq(S)
        /\ Len(SubSeq(s, k + 1, n)) = IF k + 1 <= n THEN n - (k + 1) + 1 ELSE 0
        /\ \A i \in 1..(n - (k + 1) + 1) : SubSeq(s, k + 1, n)[i] = s[(k + 1) + i - 1]
    BY <1>0, SubSeqProperties
  <2> HIDE DEF n
  <2>2. \A i \in 1..(n - k) : i \in 1..(n - (k + 1) + 1) /\ (k + 1) + i - 1 = k + i
    BY <1>0
  <2> QED
    BY <1>0, <2>1, <2>2
<1>3. a \o b = s
  <2>1. 1 \in 1..(Len(s) + 1) /\ k \in (1 - 1)..Len(s) /\ Len(s) \in k..Len(s)
    BY <1>0
  <2>2. a \o b = SubSeq(s, 1, Len(s))
    BY <2>1, ConcatAdjacentSubSeq
  <2> QED
    BY <2>2, SubSeqFull
<1> QED
  BY <1>1, <1>2, <1>3 DEF n

\* A full block of every channel goes to the file and is in the file what it was
\* in the buffers.
LEMMA FlushAll ==
    ASSUME NEW v \in Writers, \A c \in Chan : Len(v.buffers[c]) >= Block,
           NEW r \in Nat, Len(v.data) = r * (Channels * Block)
    PROVE  LET u == FlushBlocks(v)
           IN  /\ u \in Writers
               /\ u.pos = v.pos /\ u.decoded = v.decoded /\ u.nopad = v.nopad
               /\ Len(u.data) = (r + 1) * (Channels * Block)
               /\ \A c \in Chan :
                    /\ Len(u.buffers[c]) = Len(v.buffers[c]) - Block
                    /\ ChannelOf(u.data, c) = ChannelOf(v.data, c) \o SubSeq(v.buffers[c], 1, Block)
                    /\ Given(u, c) = Given(v, c)
<1> DEFINE u == FlushBlocks(v)
           blocks == [c \in Chan |-> SubSeq(v.buffers[c], 1, Block)]
           rest == [c \in Chan |-> SubSeq(v.buffers[c], Block + 1, Len(v.buffers[c]))]
           d == v.data
           more == d \o FlattenSeq(blocks)
<1>0. Block \in Nat
  BY WriterAssumption
<1>1. /\ v.buffers \in [Chan -> Seq(Bytes)] /\ d \in Seq(Bytes)
      /\ v.pos \in Nat /\ v.decoded \in Nat /\ v.nopad \in BOOLEAN
  BY DEF Writers, Tails
<1>2. u = [v EXCEPT !.buffers = rest, !.data = more]
  <2> DEFINE bs == [c \in Chan |-> IF Len(v.buffers[c]) >= Block THEN SubSeq(v.buffers[c], 1, Block)
                                   ELSE <<>>]
             rs == [c \in Chan |-> IF Len(v.buffers[c]) >= Block
                                   THEN SubSeq(v.buffers[c], Block + 1, Len(v.buffers[c]))
                                   ELSE v.buffers[c]]
  <2>1. bs = blocks /\ rs = rest
    OBVIOUS
  <2>2. u = [v EXCEPT !.buffers = rs, !.data = d \o FlattenSeq(bs)]
    BY DEF FlushBlocks
  <2> HIDE DEF bs, rs, blocks, rest
  <2> QED
    BY <2>1, <2>2
<1>3. ASSUME NEW c \in Chan
      PROVE  /\ blocks[c] \in Seq(Bytes) /\ Len(blocks[c]) = Block
             /\ rest[c] \in Seq(Bytes) /\ Len(rest[c]) = Len(v.buffers[c]) - Block
             /\ blocks[c] \o rest[c] = v.buffers[c]
  <2> DEFINE b == v.buffers[c]
  <2>1. b \in Seq(Bytes) /\ Block <= Len(b)
    <3>1. Len(b) \in Nat /\ b \in Seq(Bytes)
      BY <1>1, LenProperties
    <3> QED
      BY <1>0, <3>1
  <2>2. blocks[c] = SubSeq(b, 1, Block) /\ rest[c] = SubSeq(b, Block + 1, Len(b))
    OBVIOUS
  <2> HIDE DEF b, blocks, rest
  <2>3. /\ SubSeq(b, 1, Block) \in Seq(Bytes) /\ Len(SubSeq(b, 1, Block)) = Block
        /\ SubSeq(b, Block + 1, Len(b)) \in Seq(Bytes)
        /\ Len(SubSeq(b, Block + 1, Len(b))) = Len(b) - Block
        /\ SubSeq(b, 1, Block) \o SubSeq(b, Block + 1, Len(b)) = b
    BY <1>0, <2>1, CutAt
  <2> QED
    BY <2>2, <2>3 DEF b
<1>4. blocks \in [Chan -> Seq(Bytes)] /\ rest \in [Chan -> Seq(Bytes)]
  BY <1>3
<1>5. \A c \in Chan : blocks[c] = SubSeq(v.buffers[c], 1, Block)
  OBVIOUS
<1> HIDE DEF blocks, rest
<1>6. /\ more \in Seq(Bytes) /\ Len(more) = (r + 1) * (Channels * Block)
      /\ \A c \in Chan : ChannelOf(more, c) = ChannelOf(d, c) \o blocks[c]
  <2>1. \A c \in Chan : Len(blocks[c]) = Block
    BY <1>3
  <2>2. d \in Seq(Bytes) /\ Len(d) = r * (Channels * Block)
    BY <1>1
  <2> HIDE DEF d
  <2>3. /\ d \o FlattenSeq(blocks) \in Seq(Bytes)
        /\ Len(d \o FlattenSeq(blocks)) = (r + 1) * (Channels * Block)
        /\ \A c \in Chan : ChannelOf(d \o FlattenSeq(blocks), c) = ChannelOf(d, c) \o blocks[c]
    BY <1>4, <2>1, <2>2, ChannelOfRow
  <2> QED
    BY <2>3
<1> HIDE DEF more
<1>7. /\ u \in Writers /\ u.buffers = rest /\ u.data = more
      /\ u.pos = v.pos /\ u.decoded = v.decoded /\ u.nopad = v.nopad
  <2> HIDE DEF u
  <2> QED
    BY <1>2, <1>4, <1>6 DEF Writers, Tails
<1> HIDE DEF u
<1>8. ASSUME NEW c \in Chan PROVE Given(u, c) = Given(v, c)
  <2> DEFINE a == ChannelOf(d, c)
             x == blocks[c]
             y == rest[c]
  <2>1. a \in Seq(Bytes) /\ x \in Seq(Bytes) /\ y \in Seq(Bytes)
    BY <1>1, <1>3, ChannelOfType
  <2>2. Given(u, c) = (a \o x) \o y
    BY <1>6, <1>7 DEF Given
  <2>3. Given(v, c) = a \o (x \o y)
    BY <1>3 DEF Given
  <2> HIDE DEF a, x, y
  <2> QED
    BY <2>1, <2>2, <2>3, ConcatAssociative
<1> QED
  BY <1>3, <1>5, <1>6, <1>7, <1>8 DEF u, d

\* Byte n of track t, as it is delivered, and what stands for it in the file.
ByteAt(t, n) ==
    [track |-> t, ch |-> (n % Channels) + 1, n |-> (n \div Channels) + 1, order |-> "msb"]
Sample(t, c, i) == [track |-> t, ch |-> c, n |-> i, order |-> "lsb"]

\* Those of the first n bytes of track t that belong to channel c.
DealtTo(t, c, n) == [i \in 1..Share(c, n) |-> Sample(t, c, i)]

\* w has taken n bytes of track t behind a carry of h bytes in every channel.
Dealt(w, t, carry, h, n) ==
    /\ w \in Writers
    /\ w.pos = h * Channels + n
    /\ Len(w.buffers[Channels]) < Block
    /\ \E r \in Nat : /\ Len(w.data) = r * (Channels * Block)
                      /\ \A c \in Chan : Len(w.buffers[c]) + r * Block = h + Share(c, n)
    /\ \A c \in Chan : Given(w, c) = carry[c] \o DealtTo(t, c, n)

LEMMA ByteFacts ==
    ASSUME NEW t \in Tracks, NEW n \in Nat, n < MaxLen * Channels
    PROVE  /\ ReverseBits(ByteAt(t, n)) = Sample(t, (n % Channels) + 1, n \div Channels + 1)
           /\ ReverseBits(ByteAt(t, n)) \in Bytes
           /\ ByteAt(t, n) \in Bytes
<1> DEFINE q == n \div Channels
           r == n % Channels
<1>0. Channels \in Nat \ {0} /\ MaxLen \in Nat
  BY WriterAssumption, SequenceAssumption
<1>1. q \in Nat /\ r \in Nat /\ r < Channels /\ n = q * Channels + r
  BY <1>0, DivExists
<1> HIDE DEF q, r
<1>2. r + 1 \in Chan
  BY <1>0, <1>1 DEF Chan
<1>3. q + 1 \in 1..MaxLen
  <2> SUFFICES ASSUME MaxLen <= q PROVE FALSE
    BY <1>0, <1>1
  <2>1. MaxLen * Channels <= q * Channels
    BY <1>0, <1>1
  <2>2. q * Channels \in Nat /\ MaxLen * Channels \in Nat
    BY <1>0, <1>1
  <2> QED
    BY <1>1, <2>1, <2>2
<1>4. ByteAt(t, n) = [track |-> t, ch |-> r + 1, n |-> q + 1, order |-> "msb"]
  BY DEF ByteAt, q, r
<1>5. ReverseBits(ByteAt(t, n)) = [track |-> t, ch |-> r + 1, n |-> q + 1, order |-> "lsb"]
  BY <1>4 DEF ReverseBits
<1> QED
  BY <1>2, <1>3, <1>4, <1>5 DEF Sample, Bytes, q, r

\* A channel's share grows at its turn only.
LEMMA DealtToStep ==
    ASSUME NEW t \in Tracks, NEW n \in Nat, n < MaxLen * Channels, NEW c \in Chan
    PROVE  /\ DealtTo(t, c, n) \in Seq(Bytes) /\ DealtTo(t, c, n + 1) \in Seq(Bytes)
           /\ c = (n % Channels) + 1 =>
                DealtTo(t, c, n + 1) = Append(DealtTo(t, c, n), ReverseBits(ByteAt(t, n)))
           /\ c # (n % Channels) + 1 => DealtTo(t, c, n + 1) = DealtTo(t, c, n)
<1>0. Channels \in Nat \ {0} /\ MaxLen \in Nat
  BY WriterAssumption, SequenceAssumption
<1>1. ASSUME NEW m \in Nat, m <= MaxLen * Channels
      PROVE  /\ DealtTo(t, c, m) \in [1..Share(c, m) -> Bytes]
             /\ Share(c, m) \in Nat
  <2>1. Share(c, m) \in Nat
    BY ShareStep
  <2>2. Share(c, m) <= MaxLen
    <3> DEFINE q == m \div Channels
               r == m % Channels
    <3>1. q \in Nat /\ r \in Nat /\ r < Channels /\ m = q * Channels + r
      BY <1>0, DivExists
    <3> HIDE DEF q, r
    <3>2. q <= MaxLen
      <4> SUFFICES ASSUME MaxLen + 1 <= q PROVE FALSE
        BY <1>0, <3>1
      <4>1. (MaxLen + 1) * Channels <= q * Channels
        BY <1>0, <3>1
      <4>2. (MaxLen + 1) * Channels = MaxLen * Channels + Channels
        BY <1>0
      <4>3. q * Channels \in Nat /\ MaxLen * Channels \in Nat
        BY <1>0, <3>1
      <4> QED
        BY <1>0, <1>1, <3>1, <4>1, <4>2, <4>3
    <3>3. CASE r = 0
      <4>1. Share(c, m) = q
        BY <3>3, ShareBounds DEF q, r
      <4> QED
        BY <3>2, <4>1
    <3>4. CASE r # 0
      <4>1. q < MaxLen
        <5> SUFFICES ASSUME q = MaxLen PROVE FALSE
          BY <1>0, <3>1, <3>2
        <5> QED
          BY <1>0, <1>1, <3>1, <3>4
      <4>2. Share(c, m) \in {q, q + 1}
        <5>1. Share(c, m) \in {Share(Channels, m), Share(Channels, m) + 1}
          BY ShareBounds
        <5>2. Share(Channels, m) = q
          <6>1. m + Channels - Channels = q * Channels + r
            BY <1>0, <3>1
          <6> QED
            BY <1>0, <3>1, <6>1, DivUnique DEF Share
        <5> QED
          BY <5>1, <5>2
      <4> QED
        BY <1>0, <3>1, <4>1, <4>2
    <3> QED
      BY <3>3, <3>4
  <2>3. \A i \in 1..Share(c, m) : Sample(t, c, i) \in Bytes
    BY <1>0, <2>1, <2>2 DEF Sample, Bytes
  <2> QED
    BY <2>1, <2>3 DEF DealtTo
<1>2. n + 1 \in Nat /\ n + 1 <= MaxLen * Channels /\ n <= MaxLen * Channels
  BY <1>0
<1>3. DealtTo(t, c, n) \in [1..Share(c, n) -> Bytes] /\ Share(c, n) \in Nat
  BY <1>1, <1>2
<1>4. DealtTo(t, c, n + 1) \in [1..Share(c, n + 1) -> Bytes] /\ Share(c, n + 1) \in Nat
  BY <1>1, <1>2
<1>5. ASSUME c = (n % Channels) + 1
      PROVE  DealtTo(t, c, n + 1) = Append(DealtTo(t, c, n), ReverseBits(ByteAt(t, n)))
  <2> DEFINE f == DealtTo(t, c, n + 1)
             k == Share(c, n)
  <2>1. Share(c, n + 1) = k + 1 /\ k = n \div Channels /\ k \in Nat
    BY <1>3, <1>5, ShareStep
  <2>2. f \in [1..(k + 1) -> Bytes]
    BY <1>4, <2>1
  <2>3. f[k + 1] = ReverseBits(ByteAt(t, n))
    <3>1. f[k + 1] = Sample(t, c, k + 1)
      BY <2>1 DEF DealtTo
    <3> HIDE DEF f, k
    <3> QED
      BY <1>5, <2>1, <3>1, ByteFacts
  <2>4. [i \in 1..k |-> f[i]] = DealtTo(t, c, n)
    <3>1. \A i \in 1..k : f[i] = Sample(t, c, i)
      BY <2>1 DEF DealtTo
    <3> HIDE DEF f
    <3> QED
      BY <3>1 DEF DealtTo
  <2> HIDE DEF f, k
  <2>5. Append([i \in 1..k |-> f[i]], f[k + 1]) = f
    BY <2>1, <2>2, AppendLast
  <2> QED
    BY <2>3, <2>4, <2>5 DEF f
<1>6. ASSUME c # (n % Channels) + 1 PROVE DealtTo(t, c, n + 1) = DealtTo(t, c, n)
  BY <1>6, ShareStep DEF DealtTo
<1> QED
  BY <1>3, <1>4, <1>5, <1>6

\* The next byte goes to the channel whose turn it is; a row of blocks leaves the
\* buffers when the last channel's block is full.
LEMMA ByteStep ==
    ASSUME NEW t \in Tracks, NEW n \in Nat, n < MaxLen * Channels, NEW carry \in Tails, NEW h \in Nat,
           NEW w, Dealt(w, t, carry, h, n)
    PROVE  /\ Dealt(WriteByte(w, ByteAt(t, n)), t, carry, h, n + 1)
           /\ WriteByte(w, ByteAt(t, n)).decoded = w.decoded
           /\ WriteByte(w, ByteAt(t, n)).nopad = w.nopad
<1> DEFINE turn == (n % Channels) + 1
           e == ReverseBits(ByteAt(t, n))
           v == [w EXCEPT !.buffers[turn] = Append(@, e), !.pos = @ + 1]
<1>0. Channels \in Nat \ {0} /\ Block \in Nat \ {0} /\ Channels \in Chan
  BY WriterAssumption DEF Chan
<1>1. /\ w \in Writers /\ w.buffers \in [Chan -> Seq(Bytes)] /\ w.data \in Seq(Bytes)
      /\ w.pos = h * Channels + n /\ w.pos \in Nat /\ w.decoded \in Nat /\ w.nopad \in BOOLEAN
      /\ h * Channels \in Nat
  <2>1. w \in Writers /\ w.pos = h * Channels + n /\ h * Channels \in Nat
    BY <1>0 DEF Dealt
  <2> QED
    BY <2>1 DEF Writers, Tails
<1>2. PICK r \in Nat : /\ Len(w.data) = r * (Channels * Block)
                       /\ \A c \in Chan : Len(w.buffers[c]) + r * Block = h + Share(c, n)
  BY DEF Dealt
<1> DEFINE m == r * Block
<1>13. m \in Nat /\ (r + 1) * Block = m + Block /\ \A c \in Chan : Len(w.buffers[c]) + m = h + Share(c, n)
  <2>1. m \in Nat /\ (r + 1) * Block = m + Block
    BY <1>0
  <2> QED
    BY <1>2, <2>1
<1> HIDE DEF m
<1>3. turn \in Chan /\ e \in Bytes
  BY ShareStep, ByteFacts, <1>0
<1>4. (w.pos % Channels) + 1 = turn
  <2> DEFINE q == n \div Channels
             o == n % Channels
  <2>1. q \in Nat /\ o \in Nat /\ o < Channels /\ n = q * Channels + o
    BY <1>0, DivExists
  <2> HIDE DEF q, o
  <2>2. w.pos = (h + q) * Channels + o /\ h + q \in Nat
    BY <1>0, <1>1, <2>1
  <2>3. ((h + q) * Channels + o) % Channels = o
    BY <1>0, <2>1, <2>2, DivUnique
  <2> QED
    BY <2>2, <2>3 DEF o
<1>5. WriteByte(w, ByteAt(t, n))
        = IF \A k \in Chan : Len(v.buffers[k]) >= Block THEN FlushBlocks(v) ELSE v
  BY <1>4 DEF WriteByte
<1> HIDE DEF e, turn
<1>6. /\ v \in Writers /\ v.data = w.data /\ v.pos = w.pos + 1
      /\ v.decoded = w.decoded /\ v.nopad = w.nopad
      /\ v.buffers = [w.buffers EXCEPT ![turn] = Append(@, e)]
  <2>1. Append(w.buffers[turn], e) \in Seq(Bytes)
    BY <1>1, <1>3
  <2>2. [w.buffers EXCEPT ![turn] = Append(@, e)] \in [Chan -> Seq(Bytes)]
    BY <1>1, <1>3, <2>1
  <2>3. v = [w EXCEPT !.buffers = [w.buffers EXCEPT ![turn] = Append(@, e)], !.pos = w.pos + 1]
    BY <1>1 DEF Writers
  <2>4. w.pos + 1 \in Nat
    BY <1>1
  <2> DEFINE bs == [w.buffers EXCEPT ![turn] = Append(@, e)]
  <2> HIDE DEF v, bs
  <2> QED
    BY <1>1, <2>2, <2>3, <2>4 DEF Writers, Tails, bs
<1> HIDE DEF v
<1>7. ASSUME NEW c \in Chan
      PROVE  /\ c = turn => v.buffers[c] = Append(w.buffers[c], e)
             /\ c # turn => v.buffers[c] = w.buffers[c]
             /\ v.buffers[c] \in Seq(Bytes) /\ Len(v.buffers[c]) \in Nat
             /\ Len(v.buffers[c]) + m = h + Share(c, n + 1)
  <2> DEFINE b == w.buffers[c]
             a == v.buffers[c]
  <2>1. /\ c = turn => a = Append(b, e)
        /\ c # turn => a = b
    BY <1>1, <1>6
  <2>2. b \in Seq(Bytes) /\ Len(b) \in Nat
    BY <1>1, LenProperties
  <2>3. Len(b) + m = h + Share(c, n)
    BY <1>13
  <2> HIDE DEF a, b
  <2>4. CASE c = turn
    <3>1. a \in Seq(Bytes) /\ Len(a) = Len(b) + 1
      BY <1>3, <2>1, <2>2, <2>4, AppendProperties
    <3>2. Share(c, n) \in Nat /\ Share(c, n + 1) = Share(c, n) + 1
      BY <2>4, ShareStep DEF turn
    <3>3. Len(a) + m = h + Share(c, n + 1)
      <4> DEFINE x == Len(b)
                 y == Share(c, n)
      <4>1. x \in Nat /\ y \in Nat /\ x + m = h + y
        BY <2>2, <2>3, <3>2
      <4>2. Len(a) = x + 1 /\ Share(c, n + 1) = y + 1
        BY <3>1, <3>2
      <4> HIDE DEF x, y
      <4>3. (x + 1) + m = h + (y + 1)
        BY <1>13, <4>1
      <4> QED
        BY <4>2, <4>3
    <3> QED
      BY <2>1, <2>2, <2>4, <3>1, <3>3 DEF a, b
  <2>5. CASE c # turn
    <3>1. Share(c, n + 1) = Share(c, n)
      BY <2>5, ShareStep DEF turn
    <3> QED
      BY <2>1, <2>2, <2>3, <2>5, <3>1 DEF a, b
  <2> QED
    BY <2>4, <2>5
<1>8. ASSUME NEW c \in Chan PROVE Given(v, c) = carry[c] \o DealtTo(t, c, n + 1)
  <2> DEFINE a == ChannelOf(w.data, c)
             b == w.buffers[c]
             s == carry[c]
             d == DealtTo(t, c, n)
  <2>1. a \in Seq(Bytes) /\ b \in Seq(Bytes) /\ s \in Seq(Bytes) /\ d \in Seq(Bytes)
    <3>1. a \in Seq(Bytes)
      BY <1>1, <1>2, ChannelOfType
    <3>2. d \in Seq(Bytes)
      BY DealtToStep
    <3> QED
      BY <1>1, <3>1, <3>2 DEF Tails
  <2>2. a \o b = s \o d
    BY DEF Dealt, Given
  <2>3. CASE c = turn
    <3>1. Given(v, c) = a \o Append(b, e)
      BY <1>6, <1>7, <2>3 DEF Given
    <3>2. DealtTo(t, c, n + 1) = Append(d, e)
      BY <2>3, DealtToStep DEF turn, e
    <3> HIDE DEF a, b, s, d
    <3>3. a \o Append(b, e) = Append(a \o b, e)
      BY <1>3, <2>1, ConcatAppend
    <3>4. s \o Append(d, e) = Append(s \o d, e)
      BY <1>3, <2>1, ConcatAppend
    <3> QED
      BY <2>2, <3>1, <3>2, <3>3, <3>4 DEF s
  <2>4. CASE c # turn
    <3>1. Given(v, c) = a \o b
      BY <1>6, <1>7, <2>4 DEF Given
    <3>2. DealtTo(t, c, n + 1) = d
      BY <2>4, DealtToStep DEF turn
    <3> QED
      BY <2>2, <3>1, <3>2
  <2> QED
    BY <2>3, <2>4
<1>9. v.pos = h * Channels + (n + 1)
  BY <1>0, <1>1, <1>6
<1>10. Len(v.buffers[Channels]) <= Block
  <2>1. Len(w.buffers[Channels]) < Block
    BY DEF Dealt
  <2>2. Len(v.buffers[Channels]) \in {Len(w.buffers[Channels]), Len(w.buffers[Channels]) + 1}
    <3>1. w.buffers[Channels] \in Seq(Bytes)
      BY <1>0, <1>1
    <3> QED
      BY <1>0, <1>3, <1>7, <3>1, AppendProperties
  <2>3. Len(w.buffers[Channels]) \in Nat
    BY <1>0, <1>1, LenProperties
  <2> QED
    BY <1>0, <2>1, <2>2, <2>3
<1>11. CASE \A k \in Chan : Len(v.buffers[k]) >= Block
  <2> DEFINE u == FlushBlocks(v)
  <2>1. Len(v.data) = r * (Channels * Block)
    BY <1>2, <1>6
  <2>2. /\ u \in Writers
        /\ u.pos = v.pos /\ u.decoded = v.decoded /\ u.nopad = v.nopad
        /\ Len(u.data) = (r + 1) * (Channels * Block)
        /\ \A c \in Chan : Len(u.buffers[c]) = Len(v.buffers[c]) - Block /\ Given(u, c) = Given(v, c)
    BY <1>6, <1>11, <2>1, FlushAll
  <2>3. WriteByte(w, ByteAt(t, n)) = u
    BY <1>5, <1>11
  <2> HIDE DEF u
  <2>4. Len(u.buffers[Channels]) < Block
    BY <1>0, <1>7, <1>10, <2>2, SMTT(30)
  <2>5. ASSUME NEW c \in Chan PROVE Len(u.buffers[c]) + (r + 1) * Block = h + Share(c, n + 1)
    <3>1. Len(v.buffers[c]) + m = h + Share(c, n + 1) /\ Len(v.buffers[c]) \in Nat
      BY <1>7
    <3>2. Len(u.buffers[c]) = Len(v.buffers[c]) - Block
      BY <2>2
    <3>3. Len(u.buffers[c]) + (m + Block) = h + Share(c, n + 1)
      <4>1. \A x, y \in Nat : x + m = y => (x - Block) + (m + Block) = y
        BY <1>0, <1>13
      <4>2. h + Share(c, n + 1) \in Nat
        <5>1. n + 1 \in Nat
          OBVIOUS
        <5>2. Share(c, n + 1) \in Nat
          BY <5>1, ShareStep
        <5> QED
          BY <5>2
      <4> QED
        BY <3>1, <3>2, <4>1, <4>2
    <3> QED
      BY <1>13, <3>3
  <2>6. Dealt(u, t, carry, h, n + 1)
    <3>1. \E x \in Nat : /\ Len(u.data) = x * (Channels * Block)
                         /\ \A c \in Chan : Len(u.buffers[c]) + x * Block = h + Share(c, n + 1)
      BY <2>2, <2>5
    <3>2. u.pos = h * Channels + (n + 1)
      BY <1>9, <2>2
    <3>3. \A c \in Chan : Given(u, c) = carry[c] \o DealtTo(t, c, n + 1)
      BY <1>8, <2>2
    <3> QED
      BY <2>2, <2>4, <3>1, <3>2, <3>3 DEF Dealt
  <2> QED
    BY <1>6, <2>2, <2>3, <2>6
<1>12. CASE ~\A k \in Chan : Len(v.buffers[k]) >= Block
  <2>1. WriteByte(w, ByteAt(t, n)) = v
    BY <1>5, <1>12
  <2>2. PICK k \in Chan : ~(Len(v.buffers[k]) >= Block)
    BY <1>12
  <2>3. Len(v.buffers[Channels]) < Block
    <3>1. /\ Share(k, n + 1) \in {Share(Channels, n + 1), Share(Channels, n + 1) + 1}
          /\ Share(Channels, n + 1) \in Nat
      <4>1. n + 1 \in Nat
        OBVIOUS
      <4> QED
        BY <1>0, <4>1, ShareBounds, ShareStep
    <3>2. /\ Len(v.buffers[k]) + m = h + Share(k, n + 1)
          /\ Len(v.buffers[Channels]) + m = h + Share(Channels, n + 1)
          /\ Len(v.buffers[k]) \in Nat /\ Len(v.buffers[Channels]) \in Nat /\ m \in Nat
      BY <1>0, <1>7, <1>13
    <3> DEFINE x == Len(v.buffers[k])
               y == Len(v.buffers[Channels])
    <3>3. ~(x >= Block) /\ Block \in Nat
      BY <1>0, <2>2
    <3>4. x \in Nat /\ y \in Nat /\ m \in Nat /\ y <= x
      BY <3>1, <3>2, SMTT(30)
    <3> HIDE DEF x, y
    <3> QED
      BY <3>3, <3>4 DEF y
  <2>4. Dealt(v, t, carry, h, n + 1)
    <3>1. \E x \in Nat : /\ Len(v.data) = x * (Channels * Block)
                         /\ \A c \in Chan : Len(v.buffers[c]) + x * Block = h + Share(c, n + 1)
      <4>1. Len(v.data) = r * (Channels * Block)
        BY <1>2, <1>6
      <4>2. \A c \in Chan : Len(v.buffers[c]) + r * Block = h + Share(c, n + 1)
        BY <1>7 DEF m
      <4> QED
        BY <4>1, <4>2
    <3> QED
      BY <1>6, <1>8, <1>9, <2>3, <3>1 DEF Dealt
  <2> QED
    BY <1>6, <2>1, <2>4
<1> QED
  BY <1>11, <1>12

\* write_samples takes a piece as if its bytes came one by one, and counts them.
LEMMA PieceStep ==
    ASSUME NEW t \in Tracks, NEW n \in Nat, NEW k \in Nat, n + k <= MaxLen * Channels,
           NEW carry \in Tails, NEW h \in Nat, NEW w, Dealt(w, t, carry, h, n),
           NEW bytes, bytes = [i \in 1..k |-> ByteAt(t, n + i - 1)]
    PROVE  /\ Dealt(WriteSamples(w, bytes), t, carry, h, n + k)
           /\ WriteSamples(w, bytes).decoded = w.decoded + k
           /\ WriteSamples(w, bytes).nopad = w.nopad
<1> DEFINE base == [w EXCEPT !.decoded = @ + Len(bytes)]
<1>0. Channels \in Nat \ {0} /\ MaxLen \in Nat /\ MaxLen * Channels \in Nat
  BY WriterAssumption, SequenceAssumption
<1>1. w \in Writers /\ w.decoded \in Nat
  BY DEF Dealt, Writers
<1>2. DOMAIN bytes = 1..k /\ Len(bytes) = k /\ \A i \in 1..k : bytes[i] = ByteAt(t, n + i - 1)
  <2>1. \A i \in 1..k : ByteAt(t, n + i - 1) \in Bytes
    <3> TAKE i \in 1..k
    <3>1. n + i - 1 \in Nat /\ n + i - 1 < MaxLen * Channels
      BY <1>0
    <3> QED
      BY <3>1, ByteFacts
  <2>2. bytes \in [1..k -> Bytes]
    BY <2>1
  <2> QED
    BY <2>2
<1>3. Dealt(base, t, carry, h, n) /\ base.decoded = w.decoded + k /\ base.nopad = w.nopad
  <2>1. /\ base \in Writers /\ base.decoded = w.decoded + k /\ base.nopad = w.nopad
        /\ base.buffers = w.buffers /\ base.data = w.data /\ base.pos = w.pos
    <3>1. base = [w EXCEPT !.decoded = w.decoded + k] /\ w.decoded + k \in Nat
      BY <1>1, <1>2 DEF Writers
    <3> HIDE DEF base
    <3> QED
      BY <1>1, <3>1 DEF Writers
  <2> HIDE DEF base
  <2> QED
    BY <2>1 DEF Dealt, Given
<1>8. base = Counted(w, bytes)
  BY DEF Counted
<1> HIDE DEF base
<1>4. PICK f : /\ f[0] = base
               /\ \A j \in 0..(k - 1) : f[j + 1] = WriteByte(f[j], bytes[j + 1])
               /\ WriteSamples(w, bytes) = f[k]
  <2>1. DOMAIN bytes = 1..k
    BY <1>2
  <2>2. PICK f : OneByOne(f, w, bytes, k)
    BY <2>1, WriteSamplesDef
  <2> QED
    BY <1>8, <2>2 DEF OneByOne
<1> DEFINE taken(j) == /\ Dealt(f[j], t, carry, h, n + j)
                       /\ f[j].decoded = w.decoded + k /\ f[j].nopad = w.nopad
           S == {j \in Nat : j <= k => taken(j)}
<1>5. 0 \in S
  <2>1. n + 0 = n
    OBVIOUS
  <2> QED
    BY <1>3, <1>4, <2>1
<1>6. ASSUME NEW j \in Nat, j \in S PROVE j + 1 \in S
  <2> SUFFICES ASSUME j + 1 <= k PROVE taken(j + 1)
    <3> HIDE DEF taken
    <3> QED
      OBVIOUS
  <2>1. taken(j)
    <3> HIDE DEF taken
    <3>1. j <= k
      OBVIOUS
    <3> QED
      BY <1>6, <3>1
  <2>2. j \in 0..(k - 1) /\ j + 1 \in 1..k /\ n + (j + 1) - 1 = n + j
    OBVIOUS
  <2>3. f[j + 1] = WriteByte(f[j], ByteAt(t, n + j))
    BY <1>2, <1>4, <2>2
  <2>4. n + j \in Nat /\ n + j < MaxLen * Channels /\ (n + j) + 1 = n + (j + 1)
    BY <1>0
  <2> DEFINE g == f[j]
             m == n + j
  <2>5. Dealt(g, t, carry, h, m)
    BY <2>1
  <2> HIDE DEF g, m
  <2>6. /\ Dealt(WriteByte(g, ByteAt(t, m)), t, carry, h, m + 1)
        /\ WriteByte(g, ByteAt(t, m)).decoded = g.decoded
        /\ WriteByte(g, ByteAt(t, m)).nopad = g.nopad
    BY <2>4, <2>5, ByteStep DEF m
  <2> QED
    BY <2>1, <2>3, <2>4, <2>6 DEF g, m
<1>7. taken(k)
  <2>1. \A j \in Nat : j \in S
    <3> HIDE DEF S
    <3> QED
      BY <1>5, <1>6, NatSetInduction
  <2> HIDE DEF taken
  <2>2. k \in S
    BY <2>1
  <2> QED
    BY <2>2
<1> QED
  BY <1>4, <1>7

-----------------------------------------------------------------------------
(* The file a writer leaves *)

Sounds  == Bytes \ {Pad}
Pads(p) == [i \in 1..p |-> Pad]

\* In pieces without padding and in any pieces the grouping does not matter.
LEMMA SoundsRegroup ==
    \A s, a, b \in Seq(Sounds) : (s \o a) \o b = s \o (a \o b)
<1> TAKE s, a, b \in Seq(Sounds)
<1> QED
  BY Regroup, SMTT(30)

LEMMA BytesRegroup ==
    \A s, a, b \in Seq(Bytes) : (s \o a) \o b = s \o (a \o b)
<1> TAKE s, a, b \in Seq(Bytes)
<1> QED
  BY Regroup, SMTT(30)

LEMMA PartsOfConcat ==
    ASSUME NEW S, NEW T, NEW a \in Seq(S), NEW b \in Seq(S), a \o b \in Seq(T)
    PROVE  a \in Seq(T) /\ b \in Seq(T)
<1> DEFINE d == a \o b
<1>1. /\ Len(d) = Len(a) + Len(b) /\ Len(a) \in Nat /\ Len(b) \in Nat
      /\ \A k \in 1..Len(a) : d[k] = a[k]
      /\ \A k \in 1..Len(b) : d[Len(a) + k] = b[k]
  BY ConcatElements
<1>2. \A k \in 1..Len(d) : d[k] \in T
  <2> HIDE DEF d
  <2>1. d \in Seq(T)
    BY DEF d
  <2> QED
    BY <2>1, ElementOfSeq
<1> HIDE DEF d
<1>3. \A k \in 1..Len(a) : a[k] \in T
  <2> TAKE k \in 1..Len(a)
  <2>1. k \in 1..Len(d)
    BY <1>1
  <2> QED
    BY <1>1, <1>2, <2>1
<1>4. \A k \in 1..Len(b) : b[k] \in T
  <2> TAKE k \in 1..Len(b)
  <2>1. Len(a) + k \in 1..Len(d)
    BY <1>1
  <2> QED
    BY <1>1, <1>2, <2>1
<1>5. a = [k \in 1..Len(a) |-> a[k]] /\ b = [k \in 1..Len(b) |-> b[k]]
  OBVIOUS
<1> QED
  BY <1>1, <1>3, <1>4, <1>5

\* What is dealt out are sounds of the one track, one behind the other.
LEMMA DealtSounds ==
    ASSUME NEW t \in Tracks, NEW n \in Nat, n <= MaxLen * Channels, NEW c \in Chan
    PROVE  /\ DealtTo(t, c, n) \in Seq(Sounds) /\ Len(DealtTo(t, c, n)) = Share(c, n)
           /\ Share(c, n) \in Nat
           /\ \A i \in 1..Share(c, n) : DealtTo(t, c, n)[i] = Sample(t, c, i)
<1>1. Share(c, n) \in Nat /\ DealtTo(t, c, n) \in [1..Share(c, n) -> {Sample(t, c, i) : i \in 1..Share(c, n)}]
  BY ShareStep DEF DealtTo
<1>2. Len(DealtTo(t, c, n)) = Share(c, n)
  BY <1>1
<1>3. \A i \in 1..Share(c, n) : DealtTo(t, c, n)[i] = Sample(t, c, i)
  BY DEF DealtTo
<1>4. Share(c, n) <= MaxLen
  <2> DEFINE q == n \div Channels
             r == n % Channels
             l == Share(Channels, n)
  <2>0. Channels \in Nat \ {0} /\ MaxLen \in Nat
    BY WriterAssumption, SequenceAssumption
  <2>1. q \in Nat /\ r \in Nat /\ r < Channels /\ n = q * Channels + r
    BY <2>0, DivExists
  <2>2. Share(c, n) = (n + (Channels - c)) \div Channels /\ Channels - c \in 0..(Channels - 1)
    <3>1. c \in 1..Channels /\ n + Channels - c = n + (Channels - c)
      BY <2>0 DEF Chan
    <3> QED
      BY <2>0, <3>1 DEF Share
  <2> DEFINE y == (n + (Channels - c)) \div Channels
             x == (n + (Channels - c)) % Channels
  <2>3. n + (Channels - c) \in Nat
    BY <2>0, <2>2
  <2>4. y \in Nat /\ x \in Nat /\ n + (Channels - c) = y * Channels + x
    <3> DEFINE m == n + (Channels - c)
    <3>1. m \in Nat
      BY <2>3
    <3> HIDE DEF m
    <3>2. /\ m \div Channels \in Nat /\ m % Channels \in Nat
          /\ m = (m \div Channels) * Channels + (m % Channels)
      BY <2>0, <3>1, DivExists
    <3> QED
      BY <3>2 DEF m
  <2> HIDE DEF y, x
  <2>5. ASSUME y >= MaxLen + 1 PROVE FALSE
    <3>1. y * Channels >= (MaxLen + 1) * Channels
      BY <2>0, <2>4, <2>5, SMTT(30)
    <3>2. (MaxLen + 1) * Channels = MaxLen * Channels + Channels
      BY <2>0
    <3> DEFINE u == y * Channels
               v == MaxLen * Channels
    <3>3. u \in Nat /\ v \in Nat /\ u >= v + Channels /\ n <= v /\ n + (Channels - c) = u + x
      BY <2>0, <2>4, <3>1, <3>2
    <3> HIDE DEF u, v
    <3> QED
      BY <2>0, <2>2, <2>4, <3>3
  <2> QED
    BY <2>0, <2>2, <2>4, <2>5 DEF y
<1>5. \A i \in 1..Share(c, n) : Sample(t, c, i) \in Sounds
  <2> TAKE i \in 1..Share(c, n)
  <2>1. i \in 1..MaxLen
    BY <1>1, <1>4, SequenceAssumption
  <2>2. Sample(t, c, i) \in Bytes
    BY <2>1 DEF Sample, Bytes
  <2>3. t # 0
    BY SequenceAssumption DEF Tracks
  <2>4. Sample(t, c, i).track = t /\ Pad.track = 0
    BY DEF Sample, Pad
  <2> QED
    BY <2>2, <2>3, <2>4 DEF Sounds
<1>6. DealtTo(t, c, n) = [i \in 1..Share(c, n) |-> Sample(t, c, i)]
  BY DEF DealtTo
<1> QED
  BY <1>1, <1>2, <1>3, <1>5, <1>6

PadsIn(bytes) == {j \in DOMAIN bytes : bytes[j] = Pad}

\* Audio takes away what padding there is.
LEMMA AudioOf ==
    ASSUME NEW a \in Seq(Sounds), NEW p \in Nat, NEW bytes, bytes = a \o Pads(p)
    PROVE  /\ Audio(bytes) = a /\ Len(bytes) = Len(a) + p /\ Len(a) \in Nat
           /\ PadsIn(bytes) = (Len(a) + 1)..(Len(a) + p)
<1> DEFINE n == Len(a)
<1>1. /\ a \in Seq(Bytes) /\ Pads(p) \in Seq(Bytes) /\ Len(Pads(p)) = p
      /\ \A j \in 1..p : Pads(p)[j] = Pad
  BY DEF Sounds, Bytes, Pads
<1>2. /\ bytes \in Seq(Bytes) /\ Len(bytes) = n + p /\ n \in Nat
      /\ \A k \in 1..n : bytes[k] = a[k]
      /\ \A k \in 1..p : bytes[n + k] = Pad
  <2> DEFINE b == Pads(p)
  <2>1. a \in Seq(Bytes) /\ b \in Seq(Bytes) /\ Len(b) = p /\ bytes = a \o b
    BY <1>1
  <2> HIDE DEF b
  <2>2. a \in Seq(Bytes) /\ b \in Seq(Bytes)
    BY <2>1
  <2>3. /\ a \o b \in Seq(Bytes) /\ Len(a \o b) = Len(a) + Len(b) /\ Len(a) \in Nat
        /\ \A k \in 1..Len(a) : (a \o b)[k] = a[k]
        /\ \A k \in 1..Len(b) : (a \o b)[Len(a) + k] = b[k]
    BY <2>2, ConcatElements
  <2>4. \A k \in 1..p : b[k] = Pad
    BY <1>1 DEF b
  <2> QED
    BY <2>1, <2>3, <2>4
<1>3. \A k \in 1..n : a[k] # Pad
  BY ElementOfSeq DEF Sounds
<1>4. DOMAIN bytes = 1..(n + p) /\ n \in Nat
  BY <1>2
<1> HIDE DEF n
<1>5. \A j \in 1..(n + p) : IF j <= n THEN bytes[j] # Pad ELSE bytes[j] = Pad
  <2> TAKE j \in 1..(n + p)
  <2>1. CASE j <= n
    BY <1>2, <1>3, <1>4, <2>1
  <2>2. CASE ~(j <= n)
    <3>1. j - n \in 1..p /\ n + (j - n) = j
      BY <1>4, <2>2
    <3> QED
      BY <1>2, <2>2, <3>1
  <2> QED
    BY <2>1, <2>2
<1>6. {j \in DOMAIN bytes : bytes[j] = Pad} = (n + 1)..(n + p)
  <2>1. \A j \in (n + 1)..(n + p) : j \in 1..(n + p) /\ ~(j <= n)
    BY <1>4
  <2>2. \A j \in 1..(n + p) : ~(j <= n) => j \in (n + 1)..(n + p)
    BY <1>4
  <2> QED
    BY <1>4, <1>5, <2>1, <2>2
<1>7. {j \in DOMAIN bytes : bytes[j] # Pad} = 1..n
  <2>1. \A j \in 1..n : j \in 1..(n + p) /\ j <= n
    BY <1>4
  <2>2. \A j \in 1..(n + p) : j <= n => j \in 1..n
    BY <1>4
  <2> QED
    BY <1>4, <1>5, <2>1, <2>2
<1>8. Cardinality(1..n) = n
  <2>1. Cardinality(1..n) = IF 1 > n THEN 0 ELSE n - 1 + 1
    BY <1>4, FS_Interval
  <2> QED
    BY <1>4, <2>1
<1>9. SubSeq(bytes, 1, n) = a
  <2>1. /\ SubSeq(bytes, 1, n) \in Seq(Bytes)
        /\ Len(SubSeq(bytes, 1, n)) = IF 1 <= n THEN n - 1 + 1 ELSE 0
        /\ \A i \in 1..(n - 1 + 1) : SubSeq(bytes, 1, n)[i] = bytes[1 + i - 1]
    <3>1. \A i \in 1..n : i \in 1..Len(bytes)
      BY <1>2
    <3> QED
      BY <1>2, <1>4, SubSeqProperties
  <2> DEFINE s == SubSeq(bytes, 1, n)
  <2>2. Len(s) = n /\ \A i \in 1..n : s[i] = a[i]
    <3>1. \A i \in 1..n : i \in 1..(n - 1 + 1) /\ 1 + i - 1 = i
      BY <1>4
    <3> QED
      BY <1>2, <1>4, <2>1, <3>1
  <2>3. s \in Seq(Bytes)
    BY <2>1
  <2> HIDE DEF s
  <2>4. s = [i \in 1..n |-> s[i]] /\ a = [i \in 1..n |-> a[i]]
    BY <2>2, <2>3 DEF n
  <2> QED
    BY <2>2, <2>4 DEF s
<1>10. Audio(bytes) = SubSeq(bytes, 1, Cardinality({j \in DOMAIN bytes : bytes[j] # Pad}))
  BY DEF Audio
<1> QED
  BY <1>2, <1>6, <1>7, <1>8, <1>9, <1>10 DEF n, PadsIn

\* What finalize keeps for the next track.
Rest(w) == IF KeepsCarry(w) THEN w.buffers ELSE [c \in Chan |-> <<>>]

\* The file of w has the given sounds and p bytes of padding in every channel,
\* and they and the carry are all that came.
Closed(w, audio, p) ==
    /\ audio \in [Chan -> Seq(Sounds)] /\ p \in 0..(Block - 1)
    /\ Finished(w).data \in Seq(Bytes) /\ Len(Finished(w).data) % (Channels * Block) = 0
    /\ \A c \in Chan : /\ ChannelOf(Finished(w).data, c) = audio[c] \o Pads(p)
                       /\ audio[c] \o Rest(w)[c] = Given(w, c)
    /\ w.nopad => p = 0
    /\ Rest(w) \in [Chan -> Seq(Sounds)]
    /\ \A c \in Chan : Len(Rest(w)[c]) < Block /\ Len(Rest(w)[c]) = Len(Rest(w)[1])
    /\ \A c \in Chan : Given(w, c) \in Seq(Sounds)

PadAll(w) == [w EXCEPT !.buffers = [c \in Chan |-> Padded(@[c])]]

\* Padding the buffers and flushing them appends the padding to every channel.
LEMMA FlushPadded ==
    ASSUME NEW w \in Writers, NEW l \in Nat, l < Block, \A c \in Chan : Len(w.buffers[c]) = l,
           NEW r \in Nat, Len(w.data) = r * (Channels * Block),
           NEW u, u = FlushBlocks(PadAll(w))
    PROVE  /\ u.data \in Seq(Bytes) /\ Len(u.data) = (r + 1) * (Channels * Block)
           /\ \A c \in Chan : ChannelOf(u.data, c) = Given(w, c) \o Pads(Block - l)
<1> DEFINE padded == [c \in Chan |-> Padded(w.buffers[c])]
           v == [w EXCEPT !.buffers = padded]
           p == Block - l
<1>0. Block \in Nat \ {0} /\ p \in Nat
  BY WriterAssumption
<1>1. /\ w.buffers \in [Chan -> Seq(Bytes)] /\ w.data \in Seq(Bytes)
      /\ w.pos \in Nat /\ w.decoded \in Nat /\ w.nopad \in BOOLEAN
  BY DEF Writers, Tails
<1>2. PadAll(w) = v
  BY DEF PadAll
<1>3. Pads(p) \in Seq(Bytes) /\ Len(Pads(p)) = p
  <2> HIDE DEF p
  <2> QED
    BY <1>0 DEF Pads, Bytes
<1>4. ASSUME NEW c \in Chan
      PROVE  /\ padded[c] = w.buffers[c] \o Pads(p)
             /\ padded[c] \in Seq(Bytes) /\ Len(padded[c]) = Block
  <2> DEFINE b == w.buffers[c]
             e == Pads(p)
  <2>1. b \in Seq(Bytes) /\ Len(b) = l /\ e \in Seq(Bytes) /\ Len(e) = p
    BY <1>1, <1>3
  <2>2. padded[c] = b \o e
    BY <2>1 DEF Padded, Pads
  <2> HIDE DEF b, e
  <2>3. b \in Seq(Bytes) /\ e \in Seq(Bytes)
    BY <2>1
  <2>4. b \o e \in Seq(Bytes) /\ Len(b \o e) = Len(b) + Len(e)
    BY <2>3, ConcatElements
  <2>5. Len(b \o e) = Block
    BY <1>0, <2>1, <2>4
  <2> HIDE DEF p, padded
  <2> QED
    BY <2>2, <2>4, <2>5 DEF b, e
<1>5. padded \in [Chan -> Seq(Bytes)]
  BY <1>4
<1> HIDE DEF padded, p
<1>6. /\ v \in Writers /\ v.buffers = padded /\ v.data = w.data
  BY <1>1, <1>5 DEF Writers, Tails
<1> HIDE DEF v
<1>7. u = FlushBlocks(v)
  BY <1>2
<1>8. \A c \in Chan : Len(v.buffers[c]) >= Block
  BY <1>0, <1>4, <1>6
<1>9. /\ u \in Writers /\ Len(u.data) = (r + 1) * (Channels * Block)
      /\ \A c \in Chan : ChannelOf(u.data, c) = ChannelOf(v.data, c) \o SubSeq(v.buffers[c], 1, Block)
  BY <1>6, <1>7, <1>8, FlushAll
<1>10. ASSUME NEW c \in Chan
       PROVE  ChannelOf(u.data, c) = Given(w, c) \o Pads(p)
  <2> DEFINE a == ChannelOf(w.data, c)
             b == w.buffers[c]
             e == Pads(p)
  <2>1. a \in Seq(Bytes) /\ b \in Seq(Bytes) /\ e \in Seq(Bytes)
    BY <1>1, <1>3, ChannelOfType
  <2>2. SubSeq(v.buffers[c], 1, Block) = b \o e
    BY <1>4, <1>6, SubSeqFull
  <2>3. ChannelOf(u.data, c) = a \o (b \o e)
    BY <1>6, <1>9, <2>2
  <2>4. Given(w, c) \o Pads(p) = (a \o b) \o e
    BY DEF Given
  <2> HIDE DEF a, b, e
  <2>5. (a \o b) \o e = a \o (b \o e)
    BY <2>1, ConcatAssociative
  <2> QED
    BY <2>3, <2>4, <2>5
<1>11. u.data \in Seq(Bytes)
  BY <1>9 DEF Writers
<1> QED
  BY <1>9, <1>10, <1>11 DEF p

\* finalize behind a whole number of rounds: every channel's partial block is as
\* long, and is written with padding or kept.
LEMMA FinalizeCloses ==
    ASSUME NEW t \in Tracks, NEW n \in Nat, n <= MaxLen * Channels, n % Channels = 0,
           NEW tail \in [Chan -> Seq(Sounds)], NEW h \in Nat, NEW w, Dealt(w, t, tail, h, n)
    PROVE  \E audio, p : Closed(w, audio, p)
<1> DEFINE m == n \div Channels
           l == Len(w.buffers[1])
<1>0. /\ Channels \in Nat \ {0} /\ Block \in Nat \ {0} /\ Channels * Block \in Nat \ {0}
      /\ 1 \in Chan /\ Channels \in Chan
  BY WriterAssumption DEF Chan
<1>1. /\ w \in Writers /\ w.buffers \in [Chan -> Seq(Bytes)] /\ w.data \in Seq(Bytes)
      /\ w.nopad \in BOOLEAN
  BY DEF Dealt, Writers, Tails
<1>2. PICK r \in Nat : /\ Len(w.data) = r * (Channels * Block)
                       /\ \A c \in Chan : Len(w.buffers[c]) + r * Block = h + Share(c, n)
  BY DEF Dealt
<1>3. /\ m \in Nat /\ \A c \in Chan : Share(c, n) = m
  BY <1>0, ShareBounds, DivExists
<1>4. l \in Nat /\ l < Block /\ \A c \in Chan : Len(w.buffers[c]) = l
  <2>1. \A c \in Chan : Len(w.buffers[c]) \in Nat
    BY <1>1, LenProperties
  <2> DEFINE x == r * Block
             s(c) == Len(w.buffers[c])
  <2> HIDE DEF m
  <2>2. x \in Nat /\ \A c \in Chan : s(c) + x = h + m
    <3>1. x \in Nat
      BY <1>0
    <3> QED
      BY <1>2, <1>3, <3>1
  <2>3. s(Channels) < Block
    BY DEF Dealt
  <2> HIDE DEF x, s
  <2>4. \A c \in Chan : s(c) \in Nat /\ s(c) = h + m - x
    <3> TAKE c \in Chan
    <3>1. s(c) \in Nat
      BY <2>1 DEF s
    <3> QED
      BY <1>3, <2>2, <3>1
  <2>5. l = s(1)
    BY DEF s
  <2> HIDE DEF l
  <2>6. l \in Nat /\ l < Block /\ \A c \in Chan : s(c) = l
    <3>1. s(1) \in Nat /\ s(1) = h + m - x /\ s(Channels) = h + m - x
      BY <1>0, <2>4
    <3>2. \A c \in Chan : s(c) = h + m - x
      BY <2>4
    <3> QED
      BY <2>3, <2>5, <3>1, <3>2
  <2> QED
    BY <2>6 DEF s
<1>5. ASSUME NEW c \in Chan
      PROVE  /\ ChannelOf(w.data, c) \in Seq(Bytes) /\ w.buffers[c] \in Seq(Bytes)
             /\ Given(w, c) \in Seq(Sounds)
             /\ ChannelOf(w.data, c) \in Seq(Sounds) /\ w.buffers[c] \in Seq(Sounds)
  <2> DEFINE a == ChannelOf(w.data, c)
             b == w.buffers[c]
             d == DealtTo(t, c, n)
  <2>1. a \in Seq(Bytes) /\ b \in Seq(Bytes)
    BY <1>1, <1>2, ChannelOfType
  <2>2. tail[c] \in Seq(Sounds) /\ d \in Seq(Sounds)
    BY DealtSounds
  <2>3. Given(w, c) = a \o b /\ Given(w, c) = tail[c] \o d
    BY DEF Given, Dealt
  <2> HIDE DEF a, b, d
  <2>4. Given(w, c) \in Seq(Sounds)
    BY <2>2, <2>3, ConcatProperties
  <2>5. a \in Seq(Sounds) /\ b \in Seq(Sounds)
    BY <2>1, <2>3, <2>4, PartsOfConcat
  <2> QED
    BY <2>1, <2>4, <2>5 DEF a, b
<1>6. HasPartial(w) <=> l # 0
  <2>1. \A c \in Chan : w.buffers[c] = <<>> <=> Len(w.buffers[c]) = 0
    BY <1>1, EmptySeq
  <2> QED
    BY <1>0, <1>4, <2>1 DEF HasPartial
<1> HIDE DEF l, m
<1> DEFINE blocks == [c \in Chan |-> ChannelOf(w.data, c)]
           all == [c \in Chan |-> Given(w, c)]
           none == [c \in Chan |-> <<>>]
<1>7. \A k \in Nat : (k * (Channels * Block)) % (Channels * Block) = 0
  <2> DEFINE d == Channels * Block
  <2>1. d \in Nat \ {0}
    BY <1>0
  <2> HIDE DEF d
  <2>2. ASSUME NEW k \in Nat PROVE (k * d) % d = 0
    <3>1. (k * d + 0) % d = 0
      BY <2>1, DivUnique
    <3>2. k * d + 0 = k * d
      BY <2>1
    <3> QED
      BY <3>1, <3>2
  <2> QED
    BY <2>2 DEF d
<1>8. Pads(0) = <<>> /\ \A c \in Chan : blocks[c] \o <<>> = blocks[c] /\ all[c] \o <<>> = all[c]
  BY <1>5 DEF Pads
<1>9. CASE l = 0
  <2>1. ~HasPartial(w) /\ Finished(w) = w /\ ~KeepsCarry(w) /\ Rest(w) = none
    BY <1>6, <1>9 DEF Finished, KeepsCarry, Rest
  <2>2. \A c \in Chan : w.buffers[c] = <<>> /\ Given(w, c) = blocks[c]
    BY <1>1, <1>4, <1>5, <1>8, <1>9, EmptySeq DEF Given
  <2>3. /\ blocks \in [Chan -> Seq(Sounds)] /\ none \in [Chan -> Seq(Sounds)]
        /\ \A c \in Chan : none[c] = <<>> /\ Len(none[c]) = 0
    BY <1>5
  <2>4. \A c \in Chan : ChannelOf(w.data, c) = blocks[c] /\ Given(w, c) \in Seq(Sounds)
    BY <1>5
  <2>5. Len(w.data) % (Channels * Block) = 0
    BY <1>2, <1>7
  <2> HIDE DEF blocks, none
  <2>6. Closed(w, blocks, 0)
    <3>1. \A c \in Chan : /\ ChannelOf(Finished(w).data, c) = blocks[c] \o Pads(0)
                          /\ blocks[c] \o Rest(w)[c] = Given(w, c)
      BY <1>8, <2>1, <2>2, <2>3, <2>4
    <3>2. \A c \in Chan : Len(Rest(w)[c]) < Block /\ Len(Rest(w)[c]) = Len(Rest(w)[1])
      BY <1>0, <2>1, <2>3
    <3>3. 0 \in 0..(Block - 1)
      BY <1>0
    <3> QED
      BY <1>1, <2>1, <2>3, <2>4, <2>5, <3>1, <3>2, <3>3 DEF Closed
  <2> QED
    BY <2>6
<1>10. CASE l # 0 /\ w.nopad
  <2>1. Finished(w) = w /\ Rest(w) = w.buffers
    BY <1>6, <1>10 DEF Finished, KeepsCarry, Rest
  <2>2. \A c \in Chan : blocks[c] \o w.buffers[c] = Given(w, c)
    BY DEF Given
  <2>3. /\ blocks \in [Chan -> Seq(Sounds)] /\ w.buffers \in [Chan -> Seq(Sounds)]
        /\ \A c \in Chan : Len(w.buffers[c]) = l /\ Len(w.buffers[1]) = l
    BY <1>0, <1>1, <1>4, <1>5
  <2>4. \A c \in Chan : ChannelOf(w.data, c) = blocks[c] /\ Given(w, c) \in Seq(Sounds)
    BY <1>5
  <2>5. Len(w.data) % (Channels * Block) = 0
    BY <1>2, <1>7
  <2> HIDE DEF blocks
  <2>6. Closed(w, blocks, 0)
    <3>1. \A c \in Chan : /\ ChannelOf(Finished(w).data, c) = blocks[c] \o Pads(0)
                          /\ blocks[c] \o Rest(w)[c] = Given(w, c)
      BY <1>8, <2>1, <2>2, <2>3, <2>4
    <3>2. \A c \in Chan : Len(Rest(w)[c]) < Block /\ Len(Rest(w)[c]) = Len(Rest(w)[1])
      BY <1>0, <1>4, <2>1, <2>3
    <3>3. 0 \in 0..(Block - 1)
      BY <1>0
    <3> QED
      BY <1>1, <2>1, <2>3, <2>4, <2>5, <3>1, <3>2, <3>3 DEF Closed
  <2> QED
    BY <2>6
<1>11. CASE l # 0 /\ ~w.nopad
  <2> DEFINE u == FlushBlocks(PadAll(w))
             p == Block - l
  <2>1. Finished(w) = u /\ Rest(w) = none
    BY <1>6, <1>11 DEF Finished, KeepsCarry, Rest, PadAll
  <2>9. u = FlushBlocks(PadAll(w))
    OBVIOUS
  <2> HIDE DEF u
  <2>2. /\ u.data \in Seq(Bytes) /\ Len(u.data) = (r + 1) * (Channels * Block)
        /\ \A c \in Chan : ChannelOf(u.data, c) = Given(w, c) \o Pads(p)
    BY <1>1, <1>2, <1>4, <2>9, FlushPadded, SMTT(30) DEF p
  <2> HIDE DEF p
  <2>3. p \in 0..(Block - 1) /\ r + 1 \in Nat
    BY <1>0, <1>4, <1>11 DEF p
  <2>4. Len(u.data) % (Channels * Block) = 0
    BY <1>7, <2>2, <2>3
  <2>5. /\ all \in [Chan -> Seq(Sounds)] /\ none \in [Chan -> Seq(Sounds)]
        /\ \A c \in Chan : none[c] = <<>> /\ Len(none[c]) = 0
    BY <1>5
  <2>6. \A c \in Chan : all[c] = Given(w, c) /\ Given(w, c) \in Seq(Sounds)
    BY <1>5
  <2> HIDE DEF all, none
  <2>7. Closed(w, all, p)
    <3>1. \A c \in Chan : /\ ChannelOf(Finished(w).data, c) = all[c] \o Pads(p)
                          /\ all[c] \o Rest(w)[c] = Given(w, c)
      BY <1>8, <2>1, <2>2, <2>5, <2>6
    <3>2. \A c \in Chan : Len(Rest(w)[c]) < Block /\ Len(Rest(w)[c]) = Len(Rest(w)[1])
      BY <1>0, <2>1, <2>5
    <3> QED
      BY <1>11, <2>1, <2>2, <2>3, <2>4, <2>5, <2>6, <3>1, <3>2 DEF Closed
  <2> QED
    BY <2>7
<1> QED
  BY <1>1, <1>9, <1>10, <1>11

-----------------------------------------------------------------------------
(* The selection *)

LEMMA SelectionAscends ==
    ASSUME NEW sel \in Selections
    PROVE  /\ sel \in Seq(Tracks) /\ Len(sel) \in Nat
           /\ \A i \in 1..Len(sel) : sel[i] \in Tracks
           /\ \A i, j \in 1..Len(sel) : i < j => sel[i] < sel[j]
<1> DEFINE n == Len(sel)
<1>1. sel \in Seq(Tracks)
  BY DEF Selections
<1>2. n \in Nat /\ \A i \in 1..n : sel[i] \in Tracks /\ sel[i] \in Nat
  <2>1. n \in Nat
    BY <1>1, LenProperties
  <2>2. \A i \in 1..n : sel[i] \in Tracks
    BY <1>1, ElementOfSeq
  <2> HIDE DEF n
  <2> QED
    BY <2>1, <2>2, SequenceAssumption DEF Tracks
<1>3. \A i \in 2..n : sel[i - 1] < sel[i]
  BY DEF Selections
<1> HIDE DEF n
<1> DEFINE S == {j \in Nat : j \in 1..n => \A i \in 1..n : i < j => sel[i] < sel[j]}
<1>4. 0 \in S
  OBVIOUS
<1>5. ASSUME NEW j \in Nat, j \in S PROVE j + 1 \in S
  <2> SUFFICES ASSUME j + 1 \in 1..n, NEW i \in 1..n, i < j + 1 PROVE sel[i] < sel[j + 1]
    OBVIOUS
  <2>1. j \in 1..n /\ j + 1 \in 2..n /\ (j + 1) - 1 = j
    BY <1>2
  <2>2. sel[j] < sel[j + 1]
    BY <1>3, <2>1
  <2>3. i # j => sel[i] < sel[j]
    BY <1>5, <2>1
  <2> QED
    BY <1>2, <2>1, <2>2, <2>3
<1>6. \A j \in Nat : j \in S
  <2> HIDE DEF S
  <2> QED
    BY <1>4, <1>5, NatSetInduction
<1>7. \A i, j \in 1..n : i < j => sel[i] < sel[j]
  BY <1>2, <1>6
<1> QED
  BY <1>1, <1>2, <1>7 DEF n

\* The holes before position k.
HolesTo(sel, k)  == {i \in 2..Len(sel) : i <= k /\ sel[i] # sel[i - 1] + 1}
Holes(sel, k)    == Cardinality(HolesTo(sel, k))
Unbroken(sel)    == \A i \in 2..Len(sel) : sel[i] = sel[i - 1] + 1

LEMMA HolesNext ==
    ASSUME NEW sel \in Selections, NEW k \in Nat
    PROVE  /\ Holes(sel, k) \in Nat /\ Holes(sel, k + 1) \in Nat
           /\ Holes(sel, k) <= Holes(sel, k + 1)
           /\ (k + 1 \in 2..Len(sel) /\ sel[k + 1] # sel[k] + 1) =>
                Holes(sel, k + 1) = Holes(sel, k) + 1
<1> DEFINE n == Len(sel)
           A == HolesTo(sel, k)
           B == HolesTo(sel, k + 1)
<1>0. n \in Nat
  BY SelectionAscends
<1>1. IsFiniteSet(A) /\ IsFiniteSet(B)
  <2>1. IsFiniteSet(2..n)
    BY <1>0, FS_Interval
  <2>2. A \subseteq 2..n /\ B \subseteq 2..n
    BY DEF HolesTo
  <2> HIDE DEF A, B
  <2> QED
    BY <2>1, <2>2, FS_Subset
<1>2. Cardinality(A) \in Nat /\ Cardinality(B) \in Nat
  BY <1>1, FS_CardinalityType
<1>6. Holes(sel, k) = Cardinality(A) /\ Holes(sel, k + 1) = Cardinality(B)
  BY DEF Holes
<1>3. \A i \in 2..n : i <= k + 1 <=> i <= k \/ i = k + 1
  BY <1>0
<1>4. CASE k + 1 \in 2..n /\ sel[k + 1] # sel[k] + 1
  <2>1. (k + 1) - 1 = k /\ ~(k + 1 <= k)
    OBVIOUS
  <2>2. k + 1 \notin A /\ B = A \cup {k + 1}
    BY <1>3, <1>4, <2>1 DEF HolesTo
  <2> HIDE DEF A, B
  <2>3. Cardinality(A \cup {k + 1}) = Cardinality(A) + 1
    BY <1>1, <2>2, FS_AddElement
  <2> QED
    BY <1>2, <1>6, <2>2, <2>3
<1>5. CASE ~(k + 1 \in 2..n /\ sel[k + 1] # sel[k] + 1)
  <2>1. (k + 1) - 1 = k
    OBVIOUS
  <2>2. B = A
    BY <1>3, <1>5, <2>1 DEF HolesTo
  <2> HIDE DEF A, B
  <2> QED
    BY <1>2, <1>5, <1>6, <2>2 DEF n
<1> QED
  BY <1>4, <1>5

LEMMA HolesType ==
    ASSUME NEW sel \in Selections, NEW k \in Nat
    PROVE  Holes(sel, k) \in Nat
BY HolesNext

-----------------------------------------------------------------------------
(* What a channel holds over all files *)

\* Everything delivered for channel c by the first k selected tracks.
Heard(sel, l, c, k) == FlattenSeq([i \in 1..k |-> DealtTo(sel[i], c, l[sel[i]])])

\* No byte of a track stands behind one of a later track, none of a track is left out.
Rising(s) ==
    \A i \in 2..Len(s) : \/ s[i - 1].track < s[i].track
                         \/ s[i - 1].track = s[i].track /\ s[i].n = s[i - 1].n + 1

\* Channel c holds s when k tracks have been delivered and the carry over the first
\* j of them has been settled.
SoFar(s, sel, l, c, k, j) ==
    /\ s \in Seq(Sounds) /\ Rising(s)
    /\ \A i \in 1..Len(s) : \A m \in (k + 1)..Len(sel) : s[i].track < sel[m]
    /\ Unbroken(sel) => s = Heard(sel, l, c, k)
    /\ Len(Heard(sel, l, c, k)) <= Len(s) + Holes(sel, j) * (Block - 1)

Lengths == [Tracks -> 0..(MaxLen * Channels)]

LEMMA HeardNext ==
    ASSUME NEW sel \in Selections, NEW l \in Lengths, NEW c \in Chan, NEW k \in Nat, k + 1 <= Len(sel)
    PROVE  /\ Heard(sel, l, c, k) \in Seq(Sounds) /\ Heard(sel, l, c, k + 1) \in Seq(Sounds)
           /\ DealtTo(sel[k + 1], c, l[sel[k + 1]]) \in Seq(Sounds)
           /\ Heard(sel, l, c, k + 1) = Heard(sel, l, c, k) \o DealtTo(sel[k + 1], c, l[sel[k + 1]])
<1> DEFINE d(i) == DealtTo(sel[i], c, l[sel[i]])
           a == [i \in 1..k |-> d(i)]
           b == [i \in 1..(k + 1) |-> d(i)]
<1>1. \A i \in 1..Len(sel) : d(i) \in Seq(Sounds)
  <2> TAKE i \in 1..Len(sel)
  <2>1. sel[i] \in Tracks
    BY SelectionAscends
  <2>2. l[sel[i]] \in Nat /\ l[sel[i]] <= MaxLen * Channels
    BY <2>1, WriterAssumption, SequenceAssumption DEF Lengths
  <2> QED
    BY <2>1, <2>2, DealtSounds
<1>2. Len(sel) \in Nat
  BY SelectionAscends
<1>3. \A i \in 1..(k + 1) : d(i) \in Seq(Sounds)
  BY <1>1, <1>2
<1> HIDE DEF d
<1>4. b \in [1..(k + 1) -> Seq(Sounds)] /\ a \in Seq(Seq(Sounds)) /\ b \in Seq(Seq(Sounds))
  BY <1>3
<1>5. Append(a, d(k + 1)) = b
  <2>1. a = [i \in 1..k |-> b[i]] /\ b[k + 1] = d(k + 1)
    OBVIOUS
  <2> HIDE DEF a, b
  <2> QED
    BY <1>4, <2>1, AppendLast
<1>6. Heard(sel, l, c, k) = FlattenSeq(a) /\ Heard(sel, l, c, k + 1) = FlattenSeq(b)
  BY DEF Heard, d
<1> HIDE DEF a, b
<1>7. d(k + 1) \in Seq(Sounds)
  BY <1>3
<1>8. FlattenSeq(b) = FlattenSeq(a) \o d(k + 1)
  BY <1>4, <1>5, <1>7, FlattenAppend
<1>9. FlattenSeq(a) \in Seq(Sounds) /\ FlattenSeq(b) \in Seq(Sounds)
  BY <1>4, FlattenType
<1> QED
  BY <1>6, <1>7, <1>8, <1>9 DEF d

LEMMA HeardNothing ==
    ASSUME NEW sel, NEW l, NEW c
    PROVE  Heard(sel, l, c, 0) = <<>>
<1>1. [i \in 1..0 |-> DealtTo(sel[i], c, l[sel[i]])] = <<>>
  OBVIOUS
<1> QED
  BY <1>1, FlattenEmpty DEF Heard

LEMMA HeardType ==
    ASSUME NEW sel \in Selections, NEW l \in Lengths, NEW c \in Chan, NEW k \in 0..Len(sel)
    PROVE  Heard(sel, l, c, k) \in Seq(Sounds)
<1>1. Len(sel) \in Nat
  BY SelectionAscends
<1>2. CASE k = 0
  <2>1. Heard(sel, l, c, 0) = <<>>
    BY HeardNothing
  <2>2. <<>> \in Seq(Sounds)
    OBVIOUS
  <2> QED
    BY <1>2, <2>1, <2>2
<1>3. CASE k # 0
  <2>1. k - 1 \in Nat /\ (k - 1) + 1 = k
    BY <1>1, <1>3
  <2>2. (k - 1) + 1 <= Len(sel)
    BY <1>1, <2>1
  <2>3. Heard(sel, l, c, (k - 1) + 1) \in Seq(Sounds)
    BY <2>1, <2>2, HeardNext
  <2> QED
    BY <2>1, <2>3
<1> QED
  BY <1>2, <1>3

\* Tracks that have delivered nothing add nothing.
LEMMA HeardTrailing ==
    ASSUME NEW sel \in Selections, NEW l \in Lengths, NEW c \in Chan, NEW k \in 0..Len(sel),
           \A i \in (k + 1)..Len(sel) : l[sel[i]] = 0
    PROVE  Heard(sel, l, c, Len(sel)) = Heard(sel, l, c, k)
<1> DEFINE S == {x \in Nat : k + x <= Len(sel) => Heard(sel, l, c, k + x) = Heard(sel, l, c, k)}
<1>0. Len(sel) \in Nat /\ k \in Nat
  BY SelectionAscends
<1>1. 0 \in S
  BY <1>0
<1>2. ASSUME NEW x \in Nat, x \in S PROVE x + 1 \in S
  <2> SUFFICES ASSUME k + (x + 1) <= Len(sel)
               PROVE  Heard(sel, l, c, k + (x + 1)) = Heard(sel, l, c, k)
    OBVIOUS
  <2> DEFINE y == k + x
  <2>1. y \in Nat /\ y + 1 <= Len(sel) /\ y + 1 = k + (x + 1) /\ y + 1 \in (k + 1)..Len(sel)
        /\ y \in 0..Len(sel) /\ y + 1 \in 1..Len(sel)
    BY <1>0
  <2>2. Heard(sel, l, c, y) = Heard(sel, l, c, k)
    BY <1>0, <1>2, <2>1
  <2> HIDE DEF y
  <2>3. Heard(sel, l, c, y + 1) = Heard(sel, l, c, y) \o DealtTo(sel[y + 1], c, l[sel[y + 1]])
        /\ Heard(sel, l, c, y) \in Seq(Sounds)
    BY <2>1, HeardNext
  <2>4. DealtTo(sel[y + 1], c, l[sel[y + 1]]) = <<>>
    <3>1. sel[y + 1] \in Tracks
      BY <2>1, SelectionAscends
    <3>2. 0 \in Nat /\ 0 <= MaxLen * Channels
      BY WriterAssumption, SequenceAssumption
    <3>3. Share(c, 0) \in Nat /\ Share(c, 0) <= 0
      BY ShareBounds, ShareStep
    <3> DEFINE d == DealtTo(sel[y + 1], c, 0)
    <3>4. d \in Seq(Sounds) /\ Len(d) = 0
      BY <3>1, <3>2, <3>3, DealtSounds
    <3> HIDE DEF d
    <3>5. d = <<>>
      BY <3>4, EmptySeq
    <3>6. l[sel[y + 1]] = 0
      BY <2>1
    <3> QED
      BY <3>5, <3>6 DEF d
  <2>5. Heard(sel, l, c, y) \o <<>> = Heard(sel, l, c, y)
    BY <2>3
  <2> QED
    BY <2>1, <2>2, <2>3, <2>4, <2>5
<1>3. \A x \in Nat : x \in S
  <2> HIDE DEF S
  <2> QED
    BY <1>1, <1>2, NatSetInduction
<1>4. Len(sel) - k \in Nat /\ k + (Len(sel) - k) = Len(sel)
  BY <1>0
<1>5. Len(sel) - k \in S
  BY <1>3, <1>4
<1> QED
  BY <1>0, <1>4, <1>5

\* Only the lengths of the tracks delivered count.
LEMMA HeardSame ==
    ASSUME NEW sel, NEW l, NEW more, NEW c, NEW k \in Nat,
           \A i \in 1..k : l[sel[i]] = more[sel[i]]
    PROVE  Heard(sel, l, c, k) = Heard(sel, more, c, k)
<1>1. [i \in 1..k |-> DealtTo(sel[i], c, l[sel[i]])] = [i \in 1..k |-> DealtTo(sel[i], c, more[sel[i]])]
  OBVIOUS
<1> QED
  BY <1>1 DEF Heard

\* Behind what channel c holds come the next track's bytes.
LEMMA SoFarGrows ==
    ASSUME NEW sel \in Selections, NEW l \in Lengths, NEW c \in Chan, NEW k \in Nat, k + 1 <= Len(sel),
           NEW j \in Nat, NEW s, SoFar(s, sel, l, c, k, j)
    PROVE  SoFar(s \o DealtTo(sel[k + 1], c, l[sel[k + 1]]), sel, l, c, k + 1, j)
<1> DEFINE t == sel[k + 1]
           d == DealtTo(t, c, l[t])
           x == s \o d
           n == Len(s)
           m == Share(c, l[t])
<1>0. /\ Len(sel) \in Nat /\ k + 1 \in 1..Len(sel) /\ t \in Tracks /\ t \in Nat
      /\ \A i \in (k + 2)..Len(sel) : i \in 1..Len(sel) /\ t < sel[i]
  <2>1. Len(sel) \in Nat /\ k + 1 \in 1..Len(sel)
    BY SelectionAscends
  <2>2. \A i \in (k + 2)..Len(sel) : i \in 1..Len(sel) /\ k + 1 < i
    BY <2>1
  <2> QED
    BY <2>1, <2>2, SelectionAscends, SequenceAssumption DEF Tracks
<1>1. /\ d \in Seq(Sounds) /\ Len(d) = m /\ m \in Nat
      /\ \A i \in 1..m : d[i].track = t /\ d[i].n = i
  <2>1. l[t] \in Nat /\ l[t] <= MaxLen * Channels
    BY <1>0, WriterAssumption, SequenceAssumption DEF Lengths
  <2>2. /\ d \in Seq(Sounds) /\ Len(d) = m /\ m \in Nat
        /\ \A i \in 1..m : d[i] = Sample(t, c, i)
    BY <1>0, <2>1, DealtSounds
  <2>3. \A i \in 1..m : Sample(t, c, i).track = t /\ Sample(t, c, i).n = i
    BY DEF Sample
  <2> HIDE DEF d, m, t
  <2> QED
    BY <2>2, <2>3
<1>2. /\ s \in Seq(Sounds) /\ n \in Nat /\ Rising(s)
      /\ \A i \in 1..n : \A y \in (k + 1)..Len(sel) : s[i].track < sel[y]
  BY LenProperties DEF SoFar
<1> HIDE DEF d
<1>3. /\ x \in Seq(Sounds) /\ Len(x) = n + m
      /\ \A i \in 1..n : x[i] = s[i]
      /\ \A i \in 1..m : x[n + i] = d[i]
  <2>1. s \in Seq(Sounds) /\ d \in Seq(Sounds)
    BY <1>1, <1>2
  <2>2. /\ x \in Seq(Sounds) /\ Len(x) = Len(s) + Len(d)
        /\ \A i \in 1..Len(s) : x[i] = s[i]
        /\ \A i \in 1..Len(d) : x[Len(s) + i] = d[i]
    BY <2>1, ConcatElements
  <2> HIDE DEF x
  <2> QED
    BY <1>1, <2>2
<1> HIDE DEF x, n, m, t
<1>4. \A i \in 1..(n + m) : i > n => i - n \in 1..m /\ x[i].track = t /\ x[i].n = i - n
  <2> TAKE i \in 1..(n + m)
  <2> HAVE i > n
  <2>1. i - n \in 1..m /\ n + (i - n) = i
    BY <1>1, <1>2
  <2> QED
    BY <1>1, <1>3, <2>1
<1>5. Rising(x)
  <2> SUFFICES ASSUME NEW i \in 2..(n + m)
               PROVE  \/ x[i - 1].track < x[i].track
                      \/ x[i - 1].track = x[i].track /\ x[i].n = x[i - 1].n + 1
    BY <1>3 DEF Rising
  <2>0. i \in 1..(n + m) /\ i - 1 \in 1..(n + m)
    BY <1>1, <1>2
  <2>1. CASE i <= n
    <3>1. i \in 2..n /\ i \in 1..n /\ i - 1 \in 1..n
      BY <1>2, <2>1
    <3>2. \A e \in 2..n : \/ s[e - 1].track < s[e].track
                          \/ s[e - 1].track = s[e].track /\ s[e].n = s[e - 1].n + 1
      BY <1>2 DEF Rising, n
    <3> QED
      BY <1>3, <3>1, <3>2
  <2>2. CASE i = n + 1
    <3>1. n \in 1..n /\ i - 1 = n /\ k + 1 \in (k + 1)..Len(sel)
      BY <1>0, <1>2, <2>2
    <3>2. s[n].track < t
      BY <1>2, <3>1 DEF t
    <3>3. x[i].track = t /\ x[i - 1] = s[n]
      BY <1>2, <1>3, <1>4, <2>0, <2>2, <3>1
    <3> QED
      BY <3>2, <3>3
  <2>3. CASE i > n + 1
    <3>1. i > n /\ i - 1 > n /\ (i - 1) - n + 1 = i - n
      BY <1>2, <2>3
    <3> QED
      BY <1>4, <2>0, <3>1
  <2> QED
    BY <1>2, <2>1, <2>2, <2>3
<1>6. \A i \in 1..Len(x) : \A y \in ((k + 1) + 1)..Len(sel) : x[i].track < sel[y]
  <2> TAKE i \in 1..Len(x)
  <2> TAKE y \in ((k + 1) + 1)..Len(sel)
  <2>0. i \in 1..(n + m) /\ y \in (k + 1)..Len(sel) /\ y \in (k + 2)..Len(sel)
    BY <1>0, <1>3
  <2>1. CASE i <= n
    <3>1. i \in 1..n
      BY <1>2, <2>0, <2>1
    <3> QED
      BY <1>2, <1>3, <2>0, <3>1
  <2>2. CASE i > n
    BY <1>0, <1>4, <2>0, <2>2
  <2> QED
    BY <1>2, <2>0, <2>1, <2>2
<1> DEFINE a == Heard(sel, l, c, k)
           b == Heard(sel, l, c, k + 1)
           g == Holes(sel, j) * (Block - 1)
<1>7. a \in Seq(Sounds) /\ b \in Seq(Sounds) /\ b = a \o d
  BY HeardNext DEF d, t
<1>8. Unbroken(sel) => x = b
  <2>1. Unbroken(sel) => s = a
    BY DEF SoFar
  <2> HIDE DEF a, b
  <2> QED
    BY <1>7, <2>1 DEF x
<1>9. Len(b) <= Len(x) + g
  <2>1. Len(a) <= n + g
    BY DEF SoFar, n
  <2>2. g \in Int
    BY HolesType, WriterAssumption
  <2> HIDE DEF a, b, g
  <2>3. Len(b) = Len(a) + Len(d) /\ Len(a) \in Nat
    BY <1>1, <1>7, ConcatProperties, LenProperties
  <2> QED
    BY <1>1, <1>2, <1>3, <2>1, <2>2, <2>3
<1>10. SoFar(x, sel, l, c, k + 1, j)
  BY <1>3, <1>5, <1>6, <1>8, <1>9 DEF SoFar
<1> QED
  BY <1>10 DEF x, d, t

\* At a hole the carry is given up: less than a block.
LEMMA SoFarDrops ==
    ASSUME NEW sel \in Selections, NEW l \in Lengths, NEW c \in Chan, NEW k \in Nat, k # 0,
           k + 1 <= Len(sel), sel[k + 1] # sel[k] + 1,
           NEW s \in Seq(Sounds), NEW e \in Seq(Sounds), Len(e) < Block,
           SoFar(s \o e, sel, l, c, k, k)
    PROVE  SoFar(s, sel, l, c, k, k + 1)
<1> DEFINE x == s \o e
           n == Len(s)
           a == Heard(sel, l, c, k)
           g == Holes(sel, k)
           b == Block - 1
<1>0. Len(sel) \in Nat /\ k + 1 \in 2..Len(sel) /\ (k + 1) - 1 = k
  BY SelectionAscends
<1>1. /\ Len(x) = n + Len(e) /\ n \in Nat /\ Len(e) \in Nat
      /\ \A i \in 1..n : x[i] = s[i]
  <2>1. s \in Seq(Sounds) /\ e \in Seq(Sounds)
    OBVIOUS
  <2> QED
    BY <2>1, ConcatElements
<1>2. /\ Rising(x) /\ \A i \in 1..Len(x) : \A m \in (k + 1)..Len(sel) : x[i].track < sel[m]
      /\ Len(a) <= Len(x) + g * b
  BY DEF SoFar
<1> HIDE DEF x, n
<1>3. Rising(s)
  <2>1. \A i \in 2..n : i \in 2..Len(x) /\ i \in 1..n /\ i - 1 \in 1..n
    BY <1>1
  <2> QED
    BY <1>1, <1>2, <2>1 DEF Rising, n
<1>4. \A i \in 1..Len(s) : \A m \in (k + 1)..Len(sel) : s[i].track < sel[m]
  <2>1. \A i \in 1..n : i \in 1..Len(x)
    BY <1>1
  <2> QED
    BY <1>1, <1>2, <2>1 DEF n
<1>5. ~Unbroken(sel)
  BY <1>0 DEF Unbroken
<1>6. g \in Nat /\ Holes(sel, k + 1) = g + 1 /\ b \in Nat /\ Len(e) <= b
  <2>1. g \in Nat /\ Holes(sel, k + 1) = g + 1
    BY <1>0, HolesNext
  <2>2. b \in Nat /\ Len(e) <= b
    BY <1>1, WriterAssumption
  <2> QED
    BY <2>1, <2>2
<1>7. Len(a) \in Nat
  <2>1. k \in 0..Len(sel)
    BY <1>0
  <2>2. a \in Seq(Sounds)
    BY <2>1, HeardType
  <2> QED
    BY <2>2, LenProperties
<1> HIDE DEF a, g, b
<1>8. Len(a) <= n + Holes(sel, k + 1) * b
  <2>1. (g + 1) * b = g * b + b /\ g * b \in Nat
    BY <1>6
  <2> DEFINE u == g * b
             v == (g + 1) * b
  <2>2. v = u + b /\ u \in Nat /\ Len(a) <= Len(x) + u
    BY <1>2, <2>1
  <2>3. Holes(sel, k + 1) * b = v
    BY <1>6
  <2> HIDE DEF u, v
  <2> QED
    BY <1>1, <1>6, <1>7, <2>2, <2>3
<1> QED
  BY <1>3, <1>4, <1>5, <1>8 DEF SoFar, n, a, b

LEMMA SoFarKeeps ==
    ASSUME NEW sel \in Selections, NEW l \in Lengths, NEW c \in Chan, NEW k \in 0..Len(sel),
           NEW s, SoFar(s, sel, l, c, k, k)
    PROVE  SoFar(s, sel, l, c, k, k + 1)
<1> DEFINE a == Heard(sel, l, c, k)
           g == Holes(sel, k)
           f == Holes(sel, k + 1)
           b == Block - 1
<1>0. Len(sel) \in Nat /\ k \in Nat /\ b \in Nat
  BY SelectionAscends, WriterAssumption
<1>1. g \in Nat /\ f \in Nat /\ g <= f
  BY <1>0, HolesNext
<1>2. Len(a) \in Nat /\ Len(s) \in Nat /\ Len(a) <= Len(s) + g * b
  <2>1. a \in Seq(Sounds)
    BY HeardType
  <2>2. s \in Seq(Sounds)
    BY DEF SoFar
  <2> QED
    BY <2>1, <2>2, LenProperties DEF SoFar
<1> HIDE DEF a, g, f, b
<1>3. Len(a) <= Len(s) + f * b
  <2>1. PICK y \in Nat : f = g + y
    <3>1. f - g \in Nat /\ f = g + (f - g)
      BY <1>1
    <3> QED
      BY <3>1
  <2>2. f * b = g * b + y * b /\ g * b \in Nat /\ y * b \in Nat
    BY <1>0, <1>1, <2>1
  <2> DEFINE u == f * b
             v == g * b
             z == y * b
  <2>3. u = v + z /\ v \in Nat /\ z \in Nat /\ Len(a) <= Len(s) + v
    BY <1>2, <2>2
  <2> HIDE DEF u, v, z
  <2>4. Len(a) <= Len(s) + u
    BY <1>2, <2>3
  <2> QED
    BY <2>4 DEF u
<1> QED
  BY <1>3 DEF SoFar, a, b, f

LEMMA SoFarSame ==
    ASSUME NEW s, NEW sel, NEW l, NEW more, NEW c, NEW k \in Nat, NEW j, SoFar(s, sel, l, c, k, j),
           \A i \in 1..k : l[sel[i]] = more[sel[i]]
    PROVE  SoFar(s, sel, more, c, k, j)
<1>1. Heard(sel, l, c, k) = Heard(sel, more, c, k)
  BY HeardSame
<1> QED
  BY <1>1 DEF SoFar

-----------------------------------------------------------------------------
(* The files and the carry *)

\* Every track from any of these bytes to track u has been selected.
Reaches(s, sel, u) ==
    \A i \in 1..Len(s) : /\ s[i].track <= u
                         /\ \A t \in s[i].track..u : \E m \in 1..Len(sel) : sel[m] = t

\* A partial block of every channel, as long in each.
Tailed(tail, sel, u) ==
    /\ tail \in [Chan -> Seq(Sounds)]
    /\ \A c \in Chan : Len(tail[c]) = Len(tail[1]) /\ Len(tail[c]) < Block /\ Reaches(tail[c], sel, u)

\* A file has these sounds and p bytes of padding in every channel.
FileHolds(f, sel, np, audio, p) ==
    /\ audio \in [Chan -> Seq(Sounds)] /\ p \in 0..(Block - 1)
    /\ f.track \in Tracks /\ f.data \in Seq(Bytes) /\ f.samples \in Nat
    /\ Len(f.data) % (Channels * Block) = 0
    /\ \A c \in Chan : ChannelOf(f.data, c) = audio[c] \o Pads(p) /\ Reaches(audio[c], sel, f.track)
    /\ np /\ f.track < TrackCount => p = 0
    /\ ~np => f.samples = 8 * Len(audio[1])

FileOK(f, sel, np) == \E audio, p : FileHolds(f, sel, np, audio, p)

\* The audio of channel c in all files.
Saved(fs, c) == FlattenSeq([i \in DOMAIN fs |-> Audio(ChannelOf(fs[i].data, c))])

Filed(fs, n, sel, np) ==
    /\ fs = [i \in 1..n |-> fs[i]]
    /\ \A i \in 1..n : FileOK(fs[i], sel, np)

LEMMA SavedNext ==
    ASSUME NEW n \in Nat, NEW fs, NEW sel, NEW np, Filed(fs, n, sel, np),
           NEW f, NEW audio, NEW p, FileHolds(f, sel, np, audio, p), NEW c \in Chan
    PROVE  /\ Saved(fs, c) \in Seq(Sounds)
           /\ Saved(Append(fs, f), c) = Saved(fs, c) \o audio[c]
<1> DEFINE e(g) == Audio(ChannelOf(g.data, c))
           a == [i \in 1..n |-> e(fs[i])]
           more == Append(fs, f)
<1>1. ASSUME NEW g, NEW x, NEW q, FileHolds(g, sel, np, x, q)
      PROVE  e(g) = x[c] /\ x[c] \in Seq(Sounds)
  <2> DEFINE y == x[c]
             z == ChannelOf(g.data, c)
  <2>1. y \in Seq(Sounds) /\ q \in Nat /\ z = y \o Pads(q)
    BY <1>1, WriterAssumption DEF FileHolds
  <2> HIDE DEF y, z
  <2>2. Audio(z) = y
    BY <2>1, AudioOf
  <2> QED
    BY <2>1, <2>2 DEF y, z
<1>2. \A i \in 1..n : e(fs[i]) \in Seq(Sounds)
  <2> TAKE i \in 1..n
  <2>1. PICK x, q : FileHolds(fs[i], sel, np, x, q)
    BY DEF Filed, FileOK
  <2> HIDE DEF e
  <2> QED
    BY <1>1, <2>1
<1>3. e(f) = audio[c] /\ audio[c] \in Seq(Sounds)
  BY <1>1
<1>4. Len(fs) = n /\ DOMAIN fs = 1..n
  <2>1. fs = [i \in 1..n |-> fs[i]]
    BY DEF Filed
  <2> QED
    BY <2>1, Z3
<1>5. more = [i \in 1..(n + 1) |-> IF i = n + 1 THEN f ELSE fs[i]]
  BY <1>4 DEF Filed
<1>6. /\ DOMAIN more = 1..(n + 1) /\ more[n + 1] = f
      /\ \A i \in 1..n : more[i] = fs[i]
  BY <1>5
<1> HIDE DEF e, more
<1> DEFINE b == [i \in 1..(n + 1) |-> e(more[i])]
<1>7. a \in Seq(Seq(Sounds)) /\ e(f) \in Seq(Sounds) /\ b \in [1..(n + 1) -> Seq(Sounds)]
  <2>1. \A i \in 1..(n + 1) : e(more[i]) \in Seq(Sounds)
    <3> TAKE i \in 1..(n + 1)
    <3>1. i \in 1..n \/ i = n + 1
      OBVIOUS
    <3> QED
      BY <1>2, <1>3, <1>6, <3>1
  <2>2. a \in [1..n -> Seq(Sounds)]
    BY <1>2
  <2>3. a \in Seq(Seq(Sounds))
    <3> HIDE DEF a
    <3> QED
      BY <2>2, SMTT(30)
  <2>4. b \in [1..(n + 1) -> Seq(Sounds)]
    BY <2>1
  <2> QED
    BY <1>3, <2>3, <2>4
<1>8. Append(a, e(f)) = b
  <2>1. a = [i \in 1..n |-> b[i]] /\ b[n + 1] = e(f)
    BY <1>6
  <2> HIDE DEF a, b
  <2> QED
    BY <1>7, <2>1, AppendLast
<1>9. Saved(fs, c) = FlattenSeq(a) /\ Saved(more, c) = FlattenSeq(b)
  BY <1>4, <1>6 DEF Saved, e
<1> HIDE DEF a, b
<1>10. FlattenSeq(a) \in Seq(Sounds)
  BY <1>7, FlattenType
<1>11. FlattenSeq(Append(a, e(f))) = FlattenSeq(a) \o e(f)
  BY <1>7, FlattenAppend
<1> QED
  BY <1>3, <1>8, <1>9, <1>10, <1>11 DEF more

LEMMA SavedNothing ==
    ASSUME NEW c
    PROVE  Saved(<<>>, c) = <<>>
<1>1. [i \in DOMAIN <<>> |-> Audio(ChannelOf((<<>>)[i].data, c))] = <<>>
  OBVIOUS
<1> QED
  BY <1>1, FlattenEmpty DEF Saved

\* A new writer, with or without a carry.
LEMMA Created ==
    ASSUME NEW b \in BOOLEAN
    PROVE  /\ Create(b) \in Writers /\ Create(b).nopad = b /\ Create(b).decoded = 0
           /\ Create(b).data = <<>> /\ Create(b).pos = 0
           /\ Create(b).buffers = [c \in Chan |-> <<>>]
<1>1. [c \in Chan |-> <<>>] \in Tails /\ <<>> \in Seq(Bytes)
  BY DEF Tails
<1> QED
  BY <1>1 DEF Create, Writers

LEMMA Loaded ==
    ASSUME NEW b \in BOOLEAN, NEW tails \in [Chan -> Seq(Sounds)], NEW w, w = PreLoadCarry(Create(b), tails)
    PROVE  /\ w \in Writers /\ w.nopad = b /\ w.decoded = 0 /\ w.data = <<>>
           /\ w.pos = Len(tails[1]) * Channels /\ w.buffers = tails
<1> DEFINE v == Create(b)
           p == Len(tails[1]) * Channels
           bs == [c \in Chan |-> v.buffers[c] \o tails[c]]
<1>1. bs = tails
  <2>1. \A c \in Chan : v.buffers[c] = <<>>
    BY Created
  <2>2. \A c \in Chan : <<>> \o tails[c] = tails[c]
    <3> TAKE c \in Chan
    <3> DEFINE e == tails[c]
    <3>1. e \in Seq(Sounds)
      OBVIOUS
    <3> HIDE DEF e
    <3>2. <<>> \o e = e
      BY <3>1, ConcatEmptySeq
    <3> QED
      BY <3>2 DEF e
  <2> HIDE DEF v
  <2>3. bs = [c \in Chan |-> tails[c]]
    BY <2>1, <2>2
  <2> QED
    BY <2>3
<1>2. w = [v EXCEPT !.buffers = bs, !.pos = p]
  BY DEF PreLoadCarry
<1>3. v \in Writers /\ v.nopad = b /\ v.decoded = 0 /\ v.data = <<>>
  BY Created
<1>4. p \in Nat
  <2>1. 1 \in Chan
    BY WriterAssumption DEF Chan
  <2>2. Len(tails[1]) \in Nat
    BY <2>1, LenProperties
  <2> QED
    BY <2>2, WriterAssumption
<1>5. tails \in Tails
  BY DEF Tails, Sounds
<1> HIDE DEF v, p, bs
<1> QED
  BY <1>1, <1>2, <1>3, <1>4, <1>5 DEF Writers, p

LEMMA FreshDealt ==
    ASSUME NEW t \in Tracks, NEW tail \in [Chan -> Seq(Sounds)],
           \A c \in Chan : Len(tail[c]) = Len(tail[1]) /\ Len(tail[c]) < Block,
           NEW w \in Writers, w.buffers = tail, w.data = <<>>, w.pos = Len(tail[1]) * Channels
    PROVE  Dealt(w, t, tail, Len(tail[1]), 0)
<1> DEFINE h == Len(tail[1])
<1>0. Channels \in Nat \ {0} /\ Block \in Nat \ {0} /\ 1 \in Chan /\ Channels \in Chan
  BY WriterAssumption DEF Chan
<1>1. h \in Nat
  BY <1>0, LenProperties
<1>2. \A c \in Chan : Share(c, 0) = 0
  BY ShareBounds, ShareStep
<1>3. \A c \in Chan : DealtTo(t, c, 0) = <<>>
  BY <1>2 DEF DealtTo
<1>4. \A c \in Chan : Given(w, c) = tail[c] \o DealtTo(t, c, 0)
  <2> TAKE c \in Chan
  <2> DEFINE e == tail[c]
  <2>1. e \in Seq(Sounds)
    OBVIOUS
  <2>2. Given(w, c) = <<>> \o e /\ DealtTo(t, c, 0) = <<>>
    BY <1>3, ChannelOfEmpty DEF Given
  <2> HIDE DEF e
  <2>3. <<>> \o e = e /\ e \o <<>> = e
    BY <2>1, ConcatEmptySeq
  <2> QED
    BY <2>2, <2>3 DEF e
<1>5. Len(w.data) = 0 * (Channels * Block)
  BY <1>0
<1> HIDE DEF h
<1>6. w.pos = h * Channels + 0
  <2> DEFINE x == h * Channels
  <2>1. x \in Nat /\ w.pos = x
    BY <1>0, <1>1 DEF h
  <2> HIDE DEF x
  <2>2. w.pos = x + 0
    BY <2>1
  <2> QED
    BY <2>2 DEF x
<1>7. \A c \in Chan : Len(w.buffers[c]) + 0 * Block = h + Share(c, 0)
  <2>1. 0 * Block = 0
    BY <1>0
  <2> QED
    BY <1>0, <1>1, <1>2, <2>1 DEF h
<1>8. Len(w.buffers[Channels]) < Block
  BY <1>0
<1>9. \E r \in Nat : /\ Len(w.data) = r * (Channels * Block)
                     /\ \A c \in Chan : Len(w.buffers[c]) + r * Block = h + Share(c, 0)
  <2>1. 0 \in Nat
    OBVIOUS
  <2> QED
    BY <1>5, <1>7, <2>1
<1> QED
  BY <1>4, <1>6, <1>8, <1>9 DEF Dealt, h

-----------------------------------------------------------------------------
(* The invariant *)

\* The tails of the carry, empty without one.
Carried == IF pendingCarry = <<>> THEN [c \in Chan |-> <<>>] ELSE pendingCarry[1].tails

\* From track i of the selection on nothing has been delivered.
Silent(i) == \A m \in i..Len(selection) : len[selection[m]] = 0

\* No file is open.
Between ==
    /\ writer = Create(FALSE) /\ Silent(next)
    /\ pendingCarry # <<>> =>
         /\ nopad /\ next > 1
         /\ pendingCarry = <<[track |-> selection[next - 1], tails |-> Carried]>>
         /\ Tailed(Carried, selection, selection[next - 1])
    /\ \A c \in Chan : SoFar(Saved(files, c) \o Carried[c], selection, len, c, next - 1, next - 1)

\* A file is being written, behind a carry.
Behind(tail) ==
    /\ Tailed(tail, selection, track)
    /\ Dealt(writer, track, tail, Len(tail[1]), len[track])
    /\ ~nopad => \A c \in Chan : tail[c] = <<>>
    /\ \A c \in Chan : SoFar(Saved(files, c) \o tail[c], selection, len, c, next - 1, next)

\* The track at hand has a file, and no later track has delivered anything.
During ==
    /\ next <= Len(selection) /\ Silent(next + 1) /\ pendingCarry = <<>>
    /\ writer.nopad = ApplyNopad /\ writer.decoded = len[track]
    /\ \E tail : Behind(tail)

\* One file for each track done, as finalize leaves it.
Basics ==
    /\ nopad \in BOOLEAN /\ selection \in Selections /\ next \in 1..(Len(selection) + 1)
    /\ len \in Lengths
    /\ files = [i \in 1..(next - 1) |-> files[i]]
    /\ \A i \in 1..(next - 1) :
         files[i].track = selection[i] /\ FileOK(files[i], selection, nopad)
    /\ pc \in {"open", "write", "done", "failed"}

\* A failure leaves the state as it finds it, between files or in one.
SequenceInv ==
    /\ Basics
    /\ pc \in {"open", "done"} => Between
    /\ pc = "write" => During
    /\ pc = "failed" => Between \/ During

LEMMA SequenceInit == Init => SequenceInv
<1> SUFFICES ASSUME Init PROVE SequenceInv
  OBVIOUS
<1>1. /\ nopad \in BOOLEAN /\ selection \in Selections /\ next = 1 /\ writer = Create(FALSE)
      /\ pendingCarry = <<>> /\ files = <<>> /\ pc = "open" /\ len = [t \in Tracks |-> 0]
  BY DEF Init
<1>2. Len(selection) \in Nat /\ \A i \in 1..Len(selection) : selection[i] \in Tracks
  BY <1>1, SelectionAscends
<1>3. Basics
  <2>1. len \in Lengths
    BY <1>1, WriterAssumption, SequenceAssumption DEF Lengths
  <2>2. next \in 1..(Len(selection) + 1) /\ 1..(next - 1) = {}
    BY <1>1, <1>2
  <2>3. files = [i \in 1..(next - 1) |-> files[i]]
    BY <1>1, <2>2
  <2> QED
    BY <1>1, <2>1, <2>2, <2>3 DEF Basics
<1>4. Silent(next)
  BY <1>1, <1>2 DEF Silent
<1>5. ASSUME NEW c \in Chan
      PROVE  SoFar(Saved(files, c) \o Carried[c], selection, len, c, next - 1, next - 1)
  <2> DEFINE none == Saved(files, c) \o Carried[c]
             a == Heard(selection, len, c, 0)
  <2>1. none = <<>> /\ a = <<>> /\ next - 1 = 0
    BY <1>1, HeardNothing, SavedNothing DEF Carried
  <2>2. Holes(selection, 0) \in Nat
    BY <1>1, HolesType
  <2>3. Len(<<>>) = 0 /\ <<>> \in Seq(Sounds) /\ Rising(<<>>)
    BY DEF Rising
  <2>4. Holes(selection, 0) * (Block - 1) \in Nat
    BY <2>2, WriterAssumption
  <2> HIDE DEF none, a
  <2>5. Len(a) <= Len(none) + Holes(selection, 0) * (Block - 1)
    BY <2>1, <2>3, <2>4
  <2>6. SoFar(none, selection, len, c, 0, 0)
    BY <2>1, <2>3, <2>5 DEF SoFar, a
  <2> QED
    BY <2>1, <2>6 DEF none
<1>6. Between
  BY <1>1, <1>4, <1>5 DEF Between
<1> QED
  BY <1>1, <1>3, <1>6 DEF SequenceInv

LEMMA SavedType ==
    ASSUME Basics, NEW c \in Chan
    PROVE  Saved(files, c) \in Seq(Sounds)
<1>1. Len(selection) \in Nat
  BY SelectionAscends DEF Basics
<1>2. next - 1 \in Nat
  BY <1>1 DEF Basics
<1> DEFINE n == next - 1
<1>3. /\ files = [i \in 1..n |-> files[i]]
      /\ \A i \in 1..n : FileOK(files[i], selection, nopad)
  BY DEF Basics
<1> HIDE DEF n
<1> DEFINE e(i) == Audio(ChannelOf(files[i].data, c))
           a == [i \in 1..n |-> e(i)]
<1>4. \A i \in 1..n : e(i) \in Seq(Sounds)
  <2> TAKE i \in 1..n
  <2>1. PICK x, q : FileHolds(files[i], selection, nopad, x, q)
    BY <1>3 DEF FileOK
  <2> DEFINE y == x[c]
             z == ChannelOf(files[i].data, c)
  <2>2. y \in Seq(Sounds) /\ q \in Nat /\ z = y \o Pads(q)
    BY <2>1, WriterAssumption DEF FileHolds
  <2> HIDE DEF y, z
  <2>3. Audio(z) = y
    BY <2>2, AudioOf
  <2> QED
    BY <2>2, <2>3 DEF y, z
<1>5. DOMAIN files = 1..n /\ n \in Nat
  BY <1>2, <1>3, Z3 DEF n
<1>6. Saved(files, c) = FlattenSeq(a)
  BY <1>5 DEF Saved
<1> HIDE DEF e
<1>7. a \in [1..n -> Seq(Sounds)]
  BY <1>4
<1> HIDE DEF a
<1>8. a \in Seq(Seq(Sounds))
  BY <1>5, <1>7, SMTT(30)
<1> QED
  BY <1>6, <1>8, FlattenType

LEMMA NextTrack ==
    ASSUME Basics, next <= Len(selection)
    PROVE  /\ next \in Nat \ {0} /\ next - 1 \in Nat /\ (next - 1) + 1 = next
           /\ Len(selection) \in Nat /\ next - 1 \in 0..Len(selection)
           /\ track \in Tracks /\ track \in Nat /\ len[track] \in 0..(MaxLen * Channels)
           /\ nopad \in BOOLEAN /\ selection \in Selections /\ len \in Lengths
           /\ ApplyNopad \in BOOLEAN
<1>1. /\ selection \in Selections /\ next \in 1..(Len(selection) + 1) /\ len \in Lengths
      /\ nopad \in BOOLEAN
  BY DEF Basics
<1>2. Len(selection) \in Nat
  BY <1>1, SelectionAscends
<1>3. next \in 1..Len(selection)
  BY <1>1, <1>2
<1>4. track \in Tracks
  BY <1>1, <1>3, SelectionAscends DEF track
<1>5. track \in Nat
  BY <1>4, SequenceAssumption DEF Tracks
<1>6. len[track] \in 0..(MaxLen * Channels)
  BY <1>1, <1>4 DEF Lengths
<1>7. next \in Nat \ {0} /\ next - 1 \in Nat /\ (next - 1) + 1 = next /\ next - 1 \in 0..Len(selection)
  BY <1>1, <1>2, <1>3
<1>8. ApplyNopad \in BOOLEAN
  BY <1>1 DEF ApplyNopad
<1> QED
  BY <1>1, <1>2, <1>4, <1>5, <1>6, <1>7, <1>8

\* Opening a file: the carry is loaded, or given up at a hole.
LEMMA SequenceOpen == SequenceInv /\ OpenFile => SequenceInv'
<1> SUFFICES ASSUME SequenceInv, OpenFile PROVE SequenceInv'
  OBVIOUS
<1> DEFINE w == Create(ApplyNopad)
           k == next - 1
           none == [c \in Chan |-> <<>>]
<1>1. /\ next <= Len(selection) /\ pendingCarry' = <<>> /\ pc' = "write"
      /\ writer' = IF CarryApplies THEN PreLoadCarry(w, pendingCarry[1].tails) ELSE w
      /\ nopad' = nopad /\ selection' = selection /\ next' = next /\ len' = len /\ files' = files
  BY DEF OpenFile
<1>2. Basics /\ Between
  BY DEF SequenceInv, OpenFile
<1>3. /\ next \in Nat \ {0} /\ k \in Nat /\ k + 1 = next /\ Len(selection) \in Nat
      /\ k \in 0..Len(selection) /\ track \in Tracks /\ track \in Nat
      /\ nopad \in BOOLEAN /\ selection \in Selections /\ len \in Lengths /\ ApplyNopad \in BOOLEAN
  BY <1>1, <1>2, NextTrack
<1> HIDE DEF k
<1>4. Basics'
  BY <1>1, <1>2 DEF Basics
<1>5. /\ Silent(next + 1)' /\ len[track] = 0 /\ track' = track /\ ApplyNopad' = ApplyNopad
      /\ next' <= Len(selection')
  <2>1. \A m \in next..Len(selection) : len[selection[m]] = 0
    BY <1>2 DEF Between, Silent
  <2>2. next \in next..Len(selection)
        /\ \A m \in (next + 1)..Len(selection) : m \in next..Len(selection)
    BY <1>1, <1>3
  <2>3. len[track] = 0
    BY <2>1, <2>2 DEF track
  <2>4. Silent(next + 1)'
    BY <1>1, <2>1, <2>2 DEF Silent
  <2> QED
    BY <1>1, <2>3, <2>4 DEF track, ApplyNopad
<1>6. ASSUME NEW tail, Tailed(tail, selection, track),
             writer' \in Writers, writer'.nopad = ApplyNopad, writer'.decoded = 0,
             writer'.data = <<>>, writer'.buffers = tail, writer'.pos = Len(tail[1]) * Channels,
             ~nopad => \A c \in Chan : tail[c] = <<>>,
             \A c \in Chan : SoFar(Saved(files, c) \o tail[c], selection, len, c, k, next)
      PROVE  SequenceInv'
  <2>1. Dealt(writer', track, tail, Len(tail[1]), 0)
    <3>1. tail \in [Chan -> Seq(Sounds)]
          /\ \A c \in Chan : Len(tail[c]) = Len(tail[1]) /\ Len(tail[c]) < Block
      BY <1>6 DEF Tailed
    <3> QED
      BY <1>3, <1>6, <3>1, FreshDealt
  <2>2. Behind(tail)'
    BY <1>1, <1>5, <1>6, <2>1 DEF Behind, k
  <2>3. During'
    BY <1>1, <1>5, <1>6, <2>2 DEF During
  <2> QED
    BY <1>1, <1>4, <2>3 DEF SequenceInv
<1>7. /\ w \in Writers /\ w.nopad = ApplyNopad /\ w.decoded = 0 /\ w.data = <<>> /\ w.pos = 0
      /\ w.buffers = none
  BY <1>3, Created
<1>8. /\ 1 \in Chan /\ none \in [Chan -> Seq(Sounds)] /\ Len(<<>>) = 0 /\ 0 < Block
      /\ \A c \in Chan : none[c] = <<>> /\ Len(none[c]) = 0
  BY WriterAssumption DEF Chan
<1>9. Tailed(none, selection, track)
  <2>1. \A c \in Chan : Reaches(none[c], selection, track)
    BY <1>8 DEF Reaches
  <2> HIDE DEF none
  <2> QED
    BY <1>8, <2>1 DEF Tailed
<1>10. ASSUME ~CarryApplies,
              \A c \in Chan : SoFar(Saved(files, c) \o none[c], selection, len, c, k, next)
       PROVE  SequenceInv'
  <2>1. writer' = w
    BY <1>1, <1>10
  <2>2. w.pos = Len(none[1]) * Channels
    <3>1. 0 * Channels = 0 /\ Len(none[1]) = 0
      BY <1>8, WriterAssumption
    <3> HIDE DEF none, w
    <3> QED
      BY <1>7, <3>1
  <2> HIDE DEF none, w
  <2> QED
    BY <1>6, <1>7, <1>8, <1>9, <1>10, <2>1, <2>2
<1>11. \A c \in Chan : SoFar(Saved(files, c) \o Carried[c], selection, len, c, k, k)
  BY <1>2 DEF Between, k
<1>12. CASE pendingCarry = <<>>
  <2>1. ~CarryApplies /\ Carried = none
    BY <1>12 DEF CarryApplies, Carried
  <2>2. \A c \in Chan : SoFar(Saved(files, c) \o none[c], selection, len, c, k, next)
    <3> HIDE DEF none
    <3> QED
      BY <1>3, <1>11, <2>1, SoFarKeeps
  <2> QED
    BY <1>10, <2>1, <2>2
<1>13. CASE pendingCarry # <<>>
  <2> DEFINE e == Carried
  <2>1. /\ nopad /\ next > 1 /\ Tailed(e, selection, selection[k])
        /\ pendingCarry[1].tails = e /\ pendingCarry[1].track = selection[k]
    BY <1>2, <1>13 DEF Between, k
  <2>2. CarryApplies <=> selection[k] + 1 = track
    BY <1>13, <2>1 DEF CarryApplies
  <2>3. k \in 1..Len(selection) /\ selection[k] \in Nat /\ next = k + 1 /\ track = selection[k + 1]
        /\ k + 1 \in 1..Len(selection) /\ k # 0 /\ k + 1 <= Len(selection)
    <3>1. k \in 1..Len(selection) /\ k + 1 \in 1..Len(selection) /\ k # 0
      BY <1>1, <1>3, <2>1
    <3>2. selection[k] \in Nat
      BY <1>3, <3>1, SelectionAscends, SequenceAssumption DEF Tracks
    <3> QED
      BY <1>1, <1>3, <3>1, <3>2 DEF track
  <2> HIDE DEF e
  <2>4. /\ e \in [Chan -> Seq(Sounds)]
        /\ \A c \in Chan : /\ Len(e[c]) = Len(e[1]) /\ Len(e[c]) < Block
                           /\ Reaches(e[c], selection, selection[k])
    BY <2>1 DEF Tailed
  <2>5. CASE CarryApplies
    <3>1. writer' = PreLoadCarry(w, e)
      BY <1>1, <2>1, <2>5
    <3>2. /\ writer' \in Writers /\ writer'.nopad = ApplyNopad /\ writer'.decoded = 0
          /\ writer'.data = <<>> /\ writer'.pos = Len(e[1]) * Channels /\ writer'.buffers = e
      BY <1>3, <2>4, <3>1, Loaded
    <3>3. Tailed(e, selection, track)
      <4>1. selection[k] + 1 = track
        BY <2>2, <2>5
      <4>2. ASSUME NEW c \in Chan PROVE Reaches(e[c], selection, track)
        <5> SUFFICES ASSUME NEW i \in 1..Len(e[c])
                     PROVE  /\ e[c][i].track <= track
                            /\ \A t \in e[c][i].track..track : \E m \in 1..Len(selection) : selection[m] = t
          BY DEF Reaches
        <5>1. /\ e[c][i].track <= selection[k]
              /\ \A t \in e[c][i].track..selection[k] :
                   \E m \in 1..Len(selection) : selection[m] = t
          BY <2>4 DEF Reaches
        <5>2. e[c][i].track \in Nat
          <6>1. e[c] \in Seq(Sounds)
            BY <2>4
          <6>2. e[c][i] \in Sounds
            BY <6>1, ElementOfSeq
          <6> QED
            BY <6>2, SequenceAssumption DEF Sounds, Bytes, Tracks
        <5> DEFINE b == e[c][i].track
        <5> HIDE DEF b
        <5>3. b <= track
          BY <2>3, <4>1, <5>1, <5>2 DEF b
        <5>4. ASSUME NEW t \in b..track PROVE \E m \in 1..Len(selection) : selection[m] = t
          <6>1. CASE t = track
            BY <2>3, <6>1
          <6>2. CASE t # track
            <7>1. t \in b..selection[k]
              BY <1>3, <2>3, <4>1, <5>2, <6>2 DEF b
            <7> QED
              BY <5>1, <7>1 DEF b
          <6> QED
            BY <6>1, <6>2
        <5> QED
          BY <5>3, <5>4 DEF b
      <4> QED
        BY <2>4, <4>2 DEF Tailed
    <3>4. \A c \in Chan : SoFar(Saved(files, c) \o e[c], selection, len, c, k, next)
      BY <1>3, <1>11, <2>3, SoFarKeeps DEF e
    <3> QED
      BY <1>6, <2>1, <3>2, <3>3, <3>4
  <2>6. CASE ~CarryApplies
    <3>1. selection[k + 1] # selection[k] + 1
      BY <2>2, <2>3, <2>6
    <3>2. ASSUME NEW c \in Chan
          PROVE  SoFar(Saved(files, c) \o none[c], selection, len, c, k, next)
      <4> DEFINE s == Saved(files, c)
                 x == e[c]
      <4>1. s \in Seq(Sounds) /\ s \o <<>> = s
        <5>1. Saved(files, c) \in Seq(Sounds)
          BY <1>2, SavedType
        <5> QED
          BY <5>1, ConcatEmptySeq
      <4>2. x \in Seq(Sounds) /\ Len(x) < Block /\ SoFar(s \o x, selection, len, c, k, k)
        BY <1>11, <2>4 DEF e
      <4> HIDE DEF s, x
      <4>3. SoFar(s, selection, len, c, k, k + 1)
        BY <1>3, <2>3, <3>1, <4>1, <4>2, SoFarDrops
      <4>4. s \o none[c] = s
        BY <1>8, <4>1
      <4> QED
        BY <2>3, <4>3, <4>4 DEF s
    <3> QED
      BY <1>10, <2>6, <3>2
  <2> QED
    BY <2>5, <2>6
<1> QED
  BY <1>12, <1>13

LEMMA TrackIsNew ==
    ASSUME Basics, next <= Len(selection)
    PROVE  /\ \A i \in 1..(next - 1) : selection[i] # track
           /\ \A i \in (next + 1)..Len(selection) : selection[i] # track
<1>1. /\ next \in Nat \ {0} /\ Len(selection) \in Nat /\ next \in 1..Len(selection)
      /\ \A i \in 1..Len(selection) : selection[i] \in Nat
      /\ \A i, j \in 1..Len(selection) : i < j => selection[i] < selection[j]
  BY NextTrack, SelectionAscends, SequenceAssumption DEF Tracks
<1>2. \A i \in 1..(next - 1) : i \in 1..Len(selection) /\ i < next
  BY <1>1
<1>3. \A i \in (next + 1)..Len(selection) : i \in 1..Len(selection) /\ next < i
  BY <1>1
<1> QED
  BY <1>1, <1>2, <1>3 DEF track

\* The bytes of a piece follow those the track has delivered.
LEMMA SequenceWrite == SequenceInv /\ WritePiece => SequenceInv'
<1> SUFFICES ASSUME SequenceInv, WritePiece PROVE SequenceInv'
  OBVIOUS
<1> DEFINE n == len[track]
<1>1. Basics /\ During /\ next <= Len(selection)
  BY DEF SequenceInv, WritePiece, During
<1>2. PICK k \in 1..MaxPiece : /\ n + k <= MaxLen * Channels
                               /\ writer' = WriteSamples(writer, Piece(k))
                               /\ len' = [len EXCEPT ![track] = @ + k]
  BY DEF WritePiece
<1>3. /\ nopad' = nopad /\ selection' = selection /\ next' = next
      /\ pendingCarry' = pendingCarry /\ files' = files /\ pc' = "write"
  BY DEF WritePiece
<1>4. /\ next \in Nat \ {0} /\ next - 1 \in Nat /\ track \in Tracks /\ n \in 0..(MaxLen * Channels)
      /\ len \in Lengths /\ MaxLen * Channels \in Nat /\ k \in Nat
  BY <1>1, NextTrack, WriterAssumption, SequenceAssumption
<1>5. /\ len' \in Lengths /\ len'[track] = n + k
      /\ \A t \in Tracks : t # track => len'[t] = len[t]
  <2>1. n + k \in 0..(MaxLen * Channels)
    BY <1>2, <1>4
  <2> QED
    BY <1>2, <1>4, <2>1 DEF Lengths
<1>6. track' = track /\ ApplyNopad' = ApplyNopad
  BY <1>3 DEF track, ApplyNopad
<1>7. /\ selection \in Selections /\ \A i \in 1..Len(selection) : selection[i] \in Tracks
      /\ Len(selection) \in Nat
  BY <1>1, SelectionAscends DEF Basics
<1>8. Silent(next + 1)' /\ \A i \in 1..(next - 1) : len[selection[i]] = len'[selection[i]]
  <2>1. \A m \in (next + 1)..Len(selection) : len[selection[m]] = 0
    BY <1>1 DEF During, Silent
  <2>2. /\ \A m \in (next + 1)..Len(selection) : m \in 1..Len(selection)
        /\ \A m \in 1..(next - 1) : m \in 1..Len(selection)
    BY <1>1, <1>4, <1>7
  <2>3. /\ \A i \in 1..(next - 1) : selection[i] # track
        /\ \A i \in (next + 1)..Len(selection) : selection[i] # track
    BY <1>1, TrackIsNew
  <2>4. \A m \in (next + 1)..Len(selection) : len'[selection[m]] = 0
    BY <1>5, <1>7, <2>1, <2>2, <2>3
  <2> QED
    BY <1>3, <1>5, <1>7, <2>2, <2>3, <2>4 DEF Silent
<1>9. Basics'
  BY <1>1, <1>3, <1>5 DEF Basics
<1>10. PICK tail : Behind(tail)
  BY <1>1 DEF During
<1> DEFINE h == Len(tail[1])
           bytes == [i \in 1..k |-> ByteAt(track, n + i - 1)]
<1>11. tail \in Tails /\ h \in Nat
  <2>1. tail \in [Chan -> Seq(Sounds)]
    BY <1>10 DEF Behind, Tailed
  <2>2. 1 \in Chan
    BY WriterAssumption DEF Chan
  <2>3. \A c \in Chan : tail[c] \in Seq(Bytes)
    BY <2>1 DEF Sounds
  <2> QED
    BY <2>1, <2>2, <2>3, LenProperties DEF Tails
<1>12. Piece(k) = bytes
  BY DEF Piece, ByteAt
<1>13. Dealt(writer, track, tail, h, n)
  BY <1>10 DEF Behind
<1>14. /\ Dealt(writer', track, tail, h, n + k)
       /\ writer'.decoded = writer.decoded + k /\ writer'.nopad = writer.nopad
  <2>1. bytes = [i \in 1..k |-> ByteAt(track, n + i - 1)] /\ n \in Nat
    BY <1>4
  <2> HIDE DEF bytes, h, n
  <2>2. /\ Dealt(WriteSamples(writer, bytes), track, tail, h, n + k)
        /\ WriteSamples(writer, bytes).decoded = writer.decoded + k
        /\ WriteSamples(writer, bytes).nopad = writer.nopad
    BY <1>2, <1>4, <1>11, <1>13, <2>1, PieceStep
  <2> QED
    BY <1>2, <1>12, <2>2
<1> HIDE DEF n
<1>15. ASSUME NEW c \in Chan
       PROVE  SoFar(Saved(files, c) \o tail[c], selection, len', c, next - 1, next)
  <2>1. SoFar(Saved(files, c) \o tail[c], selection, len, c, next - 1, next)
    BY <1>10 DEF Behind
  <2> QED
    BY <1>4, <1>8, <2>1, SoFarSame
<1>16. Behind(tail)'
  <2>1. Tailed(tail, selection, track) /\ (~nopad => \A c \in Chan : tail[c] = <<>>)
    BY <1>10 DEF Behind
  <2> QED
    BY <1>3, <1>5, <1>6, <1>14, <1>15, <2>1 DEF Behind
<1>17. During'
  <2>1. writer.nopad = ApplyNopad /\ writer.decoded = n /\ pendingCarry = <<>>
    BY <1>1 DEF During, n
  <2> QED
    BY <1>1, <1>3, <1>5, <1>6, <1>8, <1>14, <1>16, <2>1 DEF During
<1> QED
  BY <1>3, <1>9, <1>17 DEF SequenceInv

LEMMA ReachesParts ==
    ASSUME NEW a \in Seq(Sounds), NEW b \in Seq(Sounds), NEW sel, NEW u
    PROVE  Reaches(a \o b, sel, u) <=> Reaches(a, sel, u) /\ Reaches(b, sel, u)
<1> DEFINE x == a \o b
           n == Len(a)
           m == Len(b)
           good(e) == e.track <= u /\ \A t \in e.track..u : \E i \in 1..Len(sel) : sel[i] = t
<1>1. /\ Len(x) = n + m /\ n \in Nat /\ m \in Nat
      /\ \A i \in 1..n : x[i] = a[i]
      /\ \A i \in 1..m : x[n + i] = b[i]
  BY ConcatElements
<1>2. /\ Reaches(x, sel, u) <=> \A i \in 1..Len(x) : good(x[i])
      /\ Reaches(a, sel, u) <=> \A i \in 1..n : good(a[i])
      /\ Reaches(b, sel, u) <=> \A i \in 1..m : good(b[i])
  BY DEF Reaches
<1> HIDE DEF x, n, m, good
<1>3. (\A i \in 1..Len(x) : good(x[i])) => (\A i \in 1..n : good(a[i])) /\ (\A i \in 1..m : good(b[i]))
  <2> SUFFICES ASSUME \A i \in 1..Len(x) : good(x[i])
               PROVE  (\A i \in 1..n : good(a[i])) /\ (\A i \in 1..m : good(b[i]))
    OBVIOUS
  <2>1. (\A i \in 1..n : i \in 1..Len(x)) /\ (\A i \in 1..m : n + i \in 1..Len(x))
    BY <1>1
  <2> QED
    BY <1>1, <2>1
<1>4. (\A i \in 1..n : good(a[i])) /\ (\A i \in 1..m : good(b[i])) => \A i \in 1..Len(x) : good(x[i])
  <2> SUFFICES ASSUME \A i \in 1..n : good(a[i]), \A i \in 1..m : good(b[i]), NEW i \in 1..Len(x)
               PROVE  good(x[i])
    OBVIOUS
  <2>1. CASE i <= n
    <3>1. i \in 1..n
      BY <1>1, <2>1
    <3> QED
      BY <1>1, <3>1
  <2>2. CASE i > n
    <3>1. i - n \in 1..m /\ n + (i - n) = i
      BY <1>1, <2>2
    <3> QED
      BY <1>1, <3>1
  <2> QED
    BY <1>1, <2>1, <2>2
<1> QED
  BY <1>2, <1>3, <1>4 DEF x

LEMMA DealtReaches ==
    ASSUME NEW t \in Tracks, NEW n \in Nat, n <= MaxLen * Channels, NEW c \in Chan, NEW sel,
           NEW m \in 1..Len(sel), sel[m] = t
    PROVE  Reaches(DealtTo(t, c, n), sel, t)
<1>1. t \in Nat
  BY SequenceAssumption DEF Tracks
<1>2. \A i \in 1..Share(c, n) : DealtTo(t, c, n)[i].track = t
  BY DEF DealtTo, Sample
<1>3. Len(DealtTo(t, c, n)) = Share(c, n)
  BY DealtSounds
<1>4. \A x \in t..t : x = t
  BY <1>1
<1> QED
  BY <1>1, <1>2, <1>3, <1>4 DEF Reaches

\* Closing a file: what came goes into it or into the carry.
LEMMA SequenceFinalize == SequenceInv /\ Finalize => SequenceInv'
<1> SUFFICES ASSUME SequenceInv, Finalize PROVE SequenceInv'
  OBVIOUS
<1> DEFINE n == len[track]
           k == next - 1
           f == [track |-> track, data |-> Finished(writer).data, samples |-> SampleCount(writer)]
           d(c) == DealtTo(track, c, n)
<1>1. Basics /\ During /\ next <= Len(selection)
  BY DEF SequenceInv, Finalize, During
<1>2. /\ n % Channels = 0 /\ files' = Append(files, f)
      /\ pendingCarry' = IF KeepsCarry(writer)
                         THEN <<[track |-> track, tails |-> writer.buffers]>> ELSE <<>>
      /\ writer' = Create(FALSE) /\ next' = next + 1 /\ pc' = "open"
      /\ nopad' = nopad /\ selection' = selection /\ len' = len
  BY DEF Finalize
<1>3. /\ next \in Nat \ {0} /\ k \in Nat /\ k + 1 = next /\ Len(selection) \in Nat
      /\ track \in Tracks /\ track = selection[next] /\ next \in 1..Len(selection)
      /\ n \in Nat /\ n <= MaxLen * Channels
      /\ nopad \in BOOLEAN /\ selection \in Selections /\ len \in Lengths
  <2>1. n \in 0..(MaxLen * Channels) /\ MaxLen * Channels \in Nat
    BY <1>1, NextTrack, WriterAssumption, SequenceAssumption
  <2>2. n \in Nat /\ n <= MaxLen * Channels
    BY <2>1
  <2> HIDE DEF n
  <2>3. /\ next \in Nat \ {0} /\ k \in Nat /\ k + 1 = next /\ Len(selection) \in Nat
        /\ track \in Tracks /\ nopad \in BOOLEAN /\ selection \in Selections /\ len \in Lengths
    BY <1>1, NextTrack
  <2>4. next \in 1..Len(selection)
    BY <1>1, <2>3
  <2> QED
    BY <2>2, <2>3, <2>4 DEF track
<1>4. PICK tail : Behind(tail)
  BY <1>1 DEF During
<1>5. /\ writer.nopad = ApplyNopad /\ writer.decoded = n
  BY <1>1 DEF During
<1>6. tail \in [Chan -> Seq(Sounds)] /\ Len(tail[1]) \in Nat
  <2>1. tail \in [Chan -> Seq(Sounds)]
    BY <1>4 DEF Behind, Tailed
  <2>2. 1 \in Chan
    BY WriterAssumption DEF Chan
  <2> QED
    BY <2>1, <2>2, LenProperties
<1>7. Dealt(writer, track, tail, Len(tail[1]), n)
  BY <1>4 DEF Behind
<1>8. \A c \in Chan : d(c) \in Seq(Sounds) /\ Given(writer, c) = tail[c] \o d(c)
  <2>1. \A c \in Chan : Given(writer, c) = tail[c] \o d(c)
    BY <1>7 DEF Dealt
  <2>2. \A c \in Chan : d(c) \in Seq(Sounds)
    BY <1>3, DealtSounds
  <2> QED
    BY <2>1, <2>2
<1> HIDE DEF n, k, f
<1>9. PICK audio, p : Closed(writer, audio, p)
  BY <1>2, <1>3, <1>6, <1>7, FinalizeCloses
<1> DEFINE rest == Rest(writer)
<1>10. /\ audio \in [Chan -> Seq(Sounds)] /\ p \in 0..(Block - 1)
       /\ rest \in [Chan -> Seq(Sounds)]
       /\ \A c \in Chan : Len(rest[c]) < Block /\ Len(rest[c]) = Len(rest[1])
       /\ \A c \in Chan : audio[c] \o rest[c] = Given(writer, c)
  BY <1>9 DEF Closed
<1>11. pendingCarry' # <<>> =>
         /\ nopad /\ rest = writer.buffers
         /\ pendingCarry' = <<[track |-> track, tails |-> rest]>>
  BY <1>2, <1>5 DEF KeepsCarry, ApplyNopad, Rest
<1>12. Carried' = rest
  <2>1. CASE KeepsCarry(writer)
    <3>1. pendingCarry' = <<[track |-> track, tails |-> writer.buffers]>>
      BY <1>2, <2>1
    <3>2. pendingCarry' # <<>> /\ pendingCarry'[1].tails = writer.buffers
      BY <3>1
    <3> QED
      BY <2>1, <3>2 DEF Carried, Rest
  <2>2. CASE ~KeepsCarry(writer)
    <3>1. pendingCarry' = <<>>
      BY <1>2, <2>2
    <3> QED
      BY <2>2, <3>1 DEF Carried, Rest
  <2> QED
    BY <2>1, <2>2
<1> HIDE DEF rest, d
<1>13. ASSUME NEW c \in Chan
       PROVE  Reaches(audio[c], selection, track) /\ Reaches(rest[c], selection, track)
  <2> DEFINE a == audio[c]
             b == rest[c]
             x == tail[c]
             y == d(c)
  <2>1. a \in Seq(Sounds) /\ b \in Seq(Sounds) /\ x \in Seq(Sounds) /\ y \in Seq(Sounds)
    BY <1>6, <1>8, <1>10
  <2>2. a \o b = x \o y
    BY <1>8, <1>10
  <2>3. Reaches(x, selection, track)
    BY <1>4 DEF Behind, Tailed
  <2>4. Reaches(y, selection, track)
    BY <1>3, DealtReaches DEF d
  <2> HIDE DEF a, b, x, y
  <2>5. Reaches(x \o y, selection, track)
    BY <2>1, <2>3, <2>4, ReachesParts
  <2>6. Reaches(a \o b, selection, track)
    BY <2>2, <2>5
  <2>7. Reaches(a, selection, track) /\ Reaches(b, selection, track)
    BY <2>1, <2>6, ReachesParts
  <2> QED
    BY <2>7 DEF a, b
<1>14. Tailed(rest, selection, track)
  BY <1>10, <1>13 DEF Tailed
<1>15. SampleCount(writer) \in Nat
  <2>1. writer.decoded \in Nat /\ Len(writer.data) \in Nat
    <3>1. writer \in Writers
      BY <1>7 DEF Dealt
    <3> QED
      BY <3>1, LenProperties DEF Writers
  <2> DEFINE x == IF KeepsCarry(writer) THEN Len(writer.data) ELSE writer.decoded
             y == x \div Channels
  <2>2. x \in Nat
    BY <2>1
  <2> HIDE DEF x
  <2>3. y \in Nat
    BY <2>2, WriterAssumption, DivExists
  <2>4. SampleCount(writer) = y * 8
    BY DEF SampleCount, x
  <2> HIDE DEF y
  <2> QED
    BY <2>3, <2>4
<1>16. ~nopad => SampleCount(writer) = 8 * Len(audio[1])
  <2> SUFFICES ASSUME ~nopad PROVE SampleCount(writer) = 8 * Len(audio[1])
    OBVIOUS
  <2>1. 1 \in Chan /\ Channels \in Nat \ {0}
    BY WriterAssumption DEF Chan
  <2>2. ~KeepsCarry(writer) /\ rest[1] = <<>> /\ tail[1] = <<>>
    <3>1. ~KeepsCarry(writer)
      BY <1>5 DEF KeepsCarry, ApplyNopad
    <3>2. rest = [c \in Chan |-> <<>>]
      BY <3>1 DEF rest, Rest
    <3>3. tail[1] = <<>>
      BY <1>4, <2>1 DEF Behind
    <3> QED
      BY <2>1, <3>1, <3>2, <3>3
  <2> DEFINE a == audio[1]
             y == d(1)
  <2>3. a \in Seq(Sounds) /\ y \in Seq(Sounds) /\ a \o <<>> = <<>> \o y
    <3>1. audio[1] \o rest[1] = tail[1] \o d(1)
      BY <1>8, <1>10, <2>1
    <3> QED
      BY <1>8, <1>10, <2>1, <2>2, <3>1
  <2>4. Len(y) = n \div Channels
    <3>1. Len(DealtTo(track, 1, n)) = Share(1, n)
      BY <1>3, <2>1, DealtSounds
    <3>2. Share(1, n) = n \div Channels
      BY <1>2, <1>3, <2>1, ShareBounds
    <3> QED
      BY <3>1, <3>2 DEF d
  <2> HIDE DEF a, y
  <2>5. a = y
    BY <2>3, ConcatEmptySeq
  <2> DEFINE q == n \div Channels
  <2>6. q \in Nat
    BY <1>3, <2>1, DivExists
  <2>7. SampleCount(writer) = q * 8
    BY <1>5, <2>2 DEF SampleCount
  <2>8. Len(a) = q
    BY <2>4, <2>5
  <2> HIDE DEF q
  <2> QED
    BY <2>6, <2>7, <2>8 DEF a
<1>17. FileHolds(f, selection, nopad, audio, p)
  <2>1. f.track = track /\ f.data = Finished(writer).data /\ f.samples = SampleCount(writer)
    BY DEF f
  <2>2. /\ Finished(writer).data \in Seq(Bytes) /\ Len(Finished(writer).data) % (Channels * Block) = 0
        /\ \A c \in Chan : ChannelOf(Finished(writer).data, c) = audio[c] \o Pads(p)
        /\ writer.nopad => p = 0
    BY <1>9 DEF Closed
  <2>3. nopad /\ track < TrackCount => p = 0
    BY <1>5, <2>2 DEF ApplyNopad
  <2> QED
    BY <1>3, <1>10, <1>13, <1>15, <1>16, <2>1, <2>2, <2>3 DEF FileHolds
<1>18. /\ files = [i \in 1..k |-> files[i]]
       /\ \A i \in 1..k : files[i].track = selection[i] /\ FileOK(files[i], selection, nopad)
  BY <1>1 DEF Basics, k
<1>19. /\ files' = [i \in 1..next |-> files'[i]]
       /\ \A i \in 1..next : files'[i].track = selection[i] /\ FileOK(files'[i], selection, nopad)
  <2>1. Len(files) = k /\ DOMAIN files = 1..k
    BY <1>3, <1>18, Z3
  <2>2. Append(files, f) = [i \in 1..(k + 1) |-> IF i = k + 1 THEN f ELSE files[i]]
    BY <1>3, <1>18, <2>1
  <2>3. files' = [i \in 1..next |-> IF i = k + 1 THEN f ELSE files[i]]
    BY <1>2, <1>3, <2>2
  <2>4. files'[next] = f /\ \A i \in 1..k : files'[i] = files[i]
    BY <1>3, <2>3
  <2>5. f.track = selection[next] /\ FileOK(f, selection, nopad)
    BY <1>3, <1>17 DEF f, FileOK
  <2>6. \A i \in 1..next : i \in 1..k \/ i = next
    BY <1>3
  <2> QED
    BY <1>18, <2>3, <2>4, <2>5, <2>6
<1>20. next' - 1 = next /\ next' \in 1..(Len(selection) + 1)
  BY <1>2, <1>3
<1>21. Basics'
  <2>1. /\ files' = [i \in 1..(next' - 1) |-> files'[i]]
        /\ \A i \in 1..(next' - 1) : files'[i].track = selection[i] /\ FileOK(files'[i], selection, nopad)
    BY <1>19, <1>20
  <2> QED
    BY <1>2, <1>3, <1>20, <2>1 DEF Basics
<1>22. ASSUME NEW c \in Chan
       PROVE  SoFar(Saved(files', c) \o rest[c], selection, len, c, next, next)
  <2> DEFINE s == Saved(files, c)
             a == audio[c]
             b == rest[c]
             x == tail[c]
             y == d(c)
  <2>1. a \in Seq(Sounds) /\ b \in Seq(Sounds) /\ x \in Seq(Sounds) /\ y \in Seq(Sounds)
    BY <1>6, <1>8, <1>10
  <2>2. a \o b = x \o y
    BY <1>8, <1>10
  <2>3. Saved(files', c) = s \o a /\ s \in Seq(Sounds)
    <3>1. \A i \in 1..k : FileOK(files[i], selection, nopad)
      BY <1>18
    <3>2. files = [i \in 1..k |-> files[i]]
      BY <1>18
    <3>3. Filed(files, k, selection, nopad)
      BY <3>1, <3>2 DEF Filed
    <3>4. /\ Saved(files, c) \in Seq(Sounds)
          /\ Saved(Append(files, f), c) = Saved(files, c) \o audio[c]
      BY <1>3, <1>17, <3>3, SavedNext
    <3> QED
      BY <1>2, <3>4
  <2>4. SoFar(s \o x, selection, len, c, k, next)
    BY <1>4 DEF Behind, k
  <2>5. y = DealtTo(selection[k + 1], c, len[selection[k + 1]])
    BY <1>3 DEF d, n
  <2> HIDE DEF s, a, b, x, y
  <2>6. SoFar((s \o x) \o y, selection, len, c, k + 1, next)
    BY <1>1, <1>3, <2>4, <2>5, SoFarGrows
  <2>10. s \in Seq(Sounds)
    BY <2>3
  <2>7. (s \o x) \o y = s \o (x \o y)
    BY <2>1, <2>10, SoundsRegroup, SMTT(30)
  <2>9. (s \o a) \o b = s \o (a \o b)
    BY <2>1, <2>10, SoundsRegroup, SMTT(30)
  <2>8. SoFar((s \o a) \o b, selection, len, c, next, next)
    BY <1>3, <2>2, <2>6, <2>7, <2>9
  <2> QED
    BY <2>3, <2>8 DEF b
<1>23. Silent(next + 1)
  BY <1>1 DEF During
<1>24. Between'
  <2>1. Silent(next)'
    BY <1>2, <1>23 DEF Silent
  <2>2. pendingCarry' # <<>> =>
          /\ nopad' /\ next' > 1
          /\ pendingCarry' = <<[track |-> selection'[next' - 1], tails |-> Carried']>>
          /\ Tailed(Carried', selection', selection'[next' - 1])
    BY <1>2, <1>3, <1>11, <1>12, <1>14, <1>20
  <2>3. \A c \in Chan : SoFar(Saved(files', c) \o Carried'[c], selection', len', c, next' - 1, next' - 1)
    BY <1>2, <1>12, <1>20, <1>22
  <2> QED
    BY <1>2, <2>1, <2>2, <2>3 DEF Between
<1> QED
  BY <1>2, <1>21, <1>24 DEF SequenceInv

LEMMA SequenceSame ==
    ASSUME UNCHANGED <<nopad, selection, next, writer, pendingCarry, len, files>>
    PROVE  /\ Basics /\ pc' \in {"open", "write", "done", "failed"} => Basics'
           /\ Between => Between'
           /\ During => During'
<1>1. Basics /\ pc' \in {"open", "write", "done", "failed"} => Basics'
  BY DEF Basics
<1>2. Carried' = Carried /\ track' = track /\ ApplyNopad' = ApplyNopad
  BY DEF Carried, track, ApplyNopad
<1>3. (Silent(next) => Silent(next)') /\ (Silent(next + 1) => Silent(next + 1)')
  BY DEF Silent
<1>4. Between => Between'
  BY <1>2, <1>3 DEF Between
<1>5. ASSUME NEW tail, Behind(tail) PROVE Behind(tail)'
  BY <1>2, <1>5 DEF Behind
<1>6. During => During'
  BY <1>2, <1>3, <1>5 DEF During
<1> QED
  BY <1>1, <1>4, <1>6

\* Nothing else changes what is held.
LEMMA SequenceStep == SequenceInv /\ [Next]_vars => SequenceInv'
<1> SUFFICES ASSUME SequenceInv, [Next]_vars PROVE SequenceInv'
  OBVIOUS
<1>1. CASE OpenFile
  BY <1>1, SequenceOpen
<1>2. CASE WritePiece
  BY <1>2, SequenceWrite
<1>3. CASE Finalize
  BY <1>3, SequenceFinalize
<1>4. CASE TrackFails
  BY <1>4, SequenceSame DEF TrackFails, SequenceInv
<1>5. CASE AllDone
  BY <1>5, SequenceSame DEF AllDone, SequenceInv
<1>6. CASE UNCHANGED vars
  BY <1>6, SequenceSame DEF vars, SequenceInv, Basics
<1> QED
  BY <1>1, <1>2, <1>3, <1>4, <1>5, <1>6 DEF Next, Stopped

LEMMA SequenceAlways == Spec => []SequenceInv
BY SequenceInit, SequenceStep, PTL DEF Spec

-----------------------------------------------------------------------------
(* The theorems *)

LEMMA SequenceStates == SequenceInv => Basics /\ (Between \/ During)
BY DEF SequenceInv, Basics

LEMMA FilesInOrder ==
    ASSUME Basics
    PROVE  /\ next - 1 \in Nat /\ DOMAIN files = 1..(next - 1)
           /\ \A i \in DOMAIN files : /\ files[i].track = selection[i]
                                      /\ FileOK(files[i], selection, nopad)
<1>1. next - 1 \in Nat
  <2>1. Len(selection) \in Nat
    BY SelectionAscends DEF Basics
  <2> QED
    BY <2>1 DEF Basics
<1> DEFINE n == next - 1
<1>2. files = [i \in 1..n |-> files[i]]
  BY DEF Basics
<1>3. \A i \in 1..n : files[i].track = selection[i] /\ FileOK(files[i], selection, nopad)
  BY DEF Basics
<1> HIDE DEF n
<1>4. DOMAIN files = 1..n
  BY <1>2
<1> QED
  BY <1>1, <1>3, <1>4 DEF n

\* State and files have their types (extractor.rs 560-640, dsf.rs 88-130).
THEOREM SequenceTypes == Spec => []TypeOK
<1>1. SequenceInv => TypeOK
  <2> SUFFICES ASSUME SequenceInv PROVE TypeOK
    OBVIOUS
  <2>1. Basics /\ (Between \/ During)
    BY SequenceStates
  <2>2. selection \in Seq(Tracks) /\ Len(selection) \in Nat
        /\ \A i \in 1..Len(selection) : selection[i] \in Tracks
    BY <2>1, SelectionAscends DEF Basics
  <2>3. writer \in Writers
    <3>1. CASE Between
      BY <3>1, Created DEF Between
    <3>2. CASE During
      BY <3>2 DEF During, Behind, Dealt
    <3> QED
      BY <2>1, <3>1, <3>2
  <2>4. /\ Len(pendingCarry) <= 1
        /\ \A i \in DOMAIN pendingCarry :
             pendingCarry[i].track \in Tracks /\ pendingCarry[i].tails \in Tails
    <3>1. CASE pendingCarry = <<>>
      BY <3>1
    <3>2. CASE pendingCarry # <<>>
      <4>1. /\ next > 1
            /\ pendingCarry = <<[track |-> selection[next - 1], tails |-> Carried]>>
            /\ Tailed(Carried, selection, selection[next - 1])
        BY <2>1, <3>2 DEF Between, During
      <4>2. next - 1 \in 1..Len(selection)
        BY <2>1, <2>2, <4>1 DEF Basics
      <4> DEFINE e == Carried
                 t == selection[next - 1]
      <4>3. t \in Tracks /\ e \in Tails
        BY <2>2, <4>1, <4>2 DEF Tailed, Tails, Sounds
      <4>4. pendingCarry = <<[track |-> t, tails |-> e]>>
        BY <4>1
      <4> HIDE DEF e, t
      <4> QED
        BY <4>3, <4>4
    <3> QED
      BY <3>1, <3>2
  <2>5. \A i \in DOMAIN files :
          files[i].track = selection[i] /\ files[i].data \in Seq(Bytes) /\ files[i].samples \in Nat
    <3> TAKE i \in DOMAIN files
    <3>1. files[i].track = selection[i] /\ FileOK(files[i], selection, nopad)
      BY <2>1, FilesInOrder
    <3> QED
      BY <3>1 DEF FileOK, FileHolds
  <2> QED
    BY <2>1, <2>2, <2>3, <2>4, <2>5 DEF TypeOK, Basics, Writers, Lengths
<1> QED
  BY <1>1, SequenceAlways, PTL

\* What a channel holds, whether a file is open or not.
LEMMA HeldSoFar ==
    ASSUME SequenceInv, NEW c \in Chan
    PROVE  \E k \in 0..Len(selection) : Silent(k + 1) /\ SoFar(Held(c), selection, len, c, k, next)
<1> DEFINE s == Saved(files, c)
           a == ChannelOf(writer.data, c)
           b == writer.buffers[c]
           e == Carried[c]
<1>1. Basics /\ (Between \/ During)
  BY SequenceStates
<1>2. /\ selection \in Selections /\ len \in Lengths /\ Len(selection) \in Nat
      /\ next \in 1..(Len(selection) + 1) /\ next - 1 \in 0..Len(selection)
      /\ next - 1 \in Nat /\ (next - 1) + 1 = next
  BY <1>1, SelectionAscends DEF Basics
<1>3. s \in Seq(Sounds)
  BY <1>1, SavedType
<1>4. Held(c) = ((s \o e) \o a) \o b
  BY DEF Held, Saved, Carried
<1>5. CASE Between
  <2>1. writer.data = <<>> /\ writer.buffers = [x \in Chan |-> <<>>]
    BY <1>5, Created DEF Between
  <2>2. a = <<>> /\ b = <<>>
    BY <2>1, ChannelOfEmpty
  <2>3. SoFar(s \o e, selection, len, c, next - 1, next - 1)
    BY <1>5 DEF Between
  <2> HIDE DEF s, a, b, e
  <2> DEFINE x == s \o e
  <2>4. x \in Seq(Sounds)
    BY <2>3 DEF SoFar
  <2>5. SoFar(x, selection, len, c, next - 1, next - 1)
    BY <2>3
  <2>6. Held(c) = (x \o a) \o b
    BY <1>4
  <2> HIDE DEF x
  <2>7. x \o <<>> = x
    BY <2>4, ConcatEmptySeq
  <2>8. Held(c) = x
    BY <2>2, <2>6, <2>7
  <2>9. SoFar(x, selection, len, c, next - 1, (next - 1) + 1)
    BY <1>2, <2>5, SoFarKeeps
  <2>10. Silent((next - 1) + 1)
    BY <1>2, <1>5 DEF Between
  <2> QED
    BY <1>2, <2>8, <2>9, <2>10
<1>6. CASE During
  <2>1. next <= Len(selection) /\ Silent(next + 1) /\ pendingCarry = <<>>
    BY <1>6 DEF During
  <2>2. PICK tail : Behind(tail)
    BY <1>6 DEF During
  <2>3. e = <<>>
    BY <2>1 DEF Carried
  <2> DEFINE x == tail[c]
             y == DealtTo(track, c, len[track])
  <2>4. a \o b = x \o y /\ x \in Seq(Sounds) /\ SoFar(s \o x, selection, len, c, next - 1, next)
    BY <2>2 DEF Behind, Dealt, Given, Tailed
  <2>5. track = selection[(next - 1) + 1] /\ (next - 1) + 1 <= Len(selection) /\ next \in Nat
    BY <1>2, <2>1 DEF track
  <2>6. y \in Seq(Sounds)
    BY <1>2, <2>5, HeardNext
  <2>7. a \in Seq(Bytes) /\ b \in Seq(Bytes)
    <3>1. writer \in Writers /\ \E r \in Nat : Len(writer.data) = r * (Channels * Block)
      BY <2>2 DEF Behind, Dealt
    <3>2. writer.data \in Seq(Bytes) /\ b \in Seq(Bytes)
      BY <3>1 DEF Writers, Tails
    <3> QED
      BY <3>1, <3>2, ChannelOfType
  <2>8. SoFar((s \o x) \o y, selection, len, c, (next - 1) + 1, next)
    <3> DEFINE z == s \o x
    <3>1. SoFar(z, selection, len, c, next - 1, next)
      BY <2>4
    <3>2. y = DealtTo(selection[(next - 1) + 1], c, len[selection[(next - 1) + 1]])
      BY <2>5
    <3> HIDE DEF z, y
    <3>3. SoFar(z \o y, selection, len, c, (next - 1) + 1, next)
      BY <1>2, <2>5, <3>1, <3>2, SoFarGrows
    <3> QED
      BY <3>3 DEF z
  <2>9. s \in Seq(Bytes) /\ s \o <<>> = s
    <3>1. s \in Seq(Bytes)
      BY <1>3 DEF Sounds
    <3> QED
      BY <1>3, <3>1, ConcatEmptySeq
  <2> HIDE DEF s, a, b, e, x, y
  <2>10. Held(c) = (s \o a) \o b
    BY <1>4, <2>3, <2>9
  <2>15. /\ s \in Seq(Bytes) /\ a \in Seq(Bytes) /\ b \in Seq(Bytes)
         /\ s \in Seq(Sounds) /\ x \in Seq(Sounds) /\ y \in Seq(Sounds)
    BY <1>3, <2>4, <2>6, <2>7, <2>9
  <2>11. (s \o a) \o b = s \o (a \o b)
    BY <2>15, BytesRegroup, SMTT(30)
  <2>12. (s \o x) \o y = s \o (x \o y)
    BY <2>15, SoundsRegroup, SMTT(30)
  <2>13. SoFar(Held(c), selection, len, c, next, next)
    BY <1>2, <2>4, <2>8, <2>10, <2>11, <2>12
  <2>14. next \in 0..Len(selection)
    BY <1>2, <2>1
  <2> QED
    BY <2>1, <2>13, <2>14
<1> QED
  BY <1>1, <1>5, <1>6

LEMMA HeardIsDelivered ==
    ASSUME NEW c \in Chan, selection \in Selections
    PROVE  FlattenSeq([i \in DOMAIN selection |-> Delivered(selection[i], c)])
             = Heard(selection, len, c, Len(selection))
<1>1. DOMAIN selection = 1..Len(selection)
  <2>1. selection \in Seq(Tracks)
    BY SelectionAscends
  <2> QED
    BY <2>1
<1>2. \A t : Delivered(t, c) = DealtTo(t, c, len[t])
  BY DEF Delivered, DealtTo, Sample, Share
<1> QED
  BY <1>1, <1>2 DEF Heard

\* Over a selection without holes every channel holds, in files, carry and buffers,
\* the bytes delivered and nothing else (dsf.rs 153-211, 235-266, extractor.rs 567-620).
THEOREM SequenceIsGapless == Spec => []Gapless
<1>1. SequenceInv => Gapless
  <2> SUFFICES ASSUME SequenceInv, Consecutive, NEW c \in Chan
               PROVE  Held(c) = FlattenSeq([i \in DOMAIN selection |-> Delivered(selection[i], c)])
    BY DEF Gapless
  <2>1. selection \in Selections /\ len \in Lengths
    BY DEF SequenceInv, Basics
  <2>2. PICK k \in 0..Len(selection) :
          Silent(k + 1) /\ SoFar(Held(c), selection, len, c, k, next)
    BY HeldSoFar
  <2>3. Held(c) = Heard(selection, len, c, k)
    BY <2>2 DEF SoFar, Consecutive, Unbroken
  <2>4. Heard(selection, len, c, Len(selection)) = Heard(selection, len, c, k)
    <3>1. \A i \in (k + 1)..Len(selection) : len[selection[i]] = 0
      BY <2>2 DEF Silent
    <3> QED
      BY <2>1, <3>1, HeardTrailing
  <2> QED
    BY <2>1, <2>3, <2>4, HeardIsDelivered
<1> QED
  BY <1>1, SequenceAlways, PTL

\* What a file holds, as the properties read it.
LEMMA FileFacts ==
    ASSUME Basics, NEW i \in DOMAIN files
    PROVE  \E audio, p : FileHolds(files[i], selection, nopad, audio, p)
BY FilesInOrder DEF FileOK

LEMMA ChannelFacts ==
    ASSUME NEW f, NEW sel, NEW np, NEW audio, NEW p, FileHolds(f, sel, np, audio, p), NEW c \in Chan
    PROVE  LET bytes == ChannelOf(f.data, c)
           IN  /\ Audio(bytes) = audio[c] /\ audio[c] \in Seq(Sounds)
               /\ Len(bytes) = Len(audio[c]) + p /\ Len(audio[c]) \in Nat /\ p \in Nat
               /\ PadsIn(bytes) = (Len(audio[c]) + 1)..(Len(audio[c]) + p)
               /\ Len(audio[c]) = Len(audio[1])
<1> DEFINE bytes(x) == ChannelOf(f.data, x)
           a(x) == audio[x]
<1>1. p \in Nat /\ \A x \in Chan : a(x) \in Seq(Sounds) /\ bytes(x) = a(x) \o Pads(p)
  BY WriterAssumption DEF FileHolds
<1>2. 1 \in Chan
  BY WriterAssumption DEF Chan
<1>3. Len(bytes(c)) = Len(bytes(1))
  <2> DEFINE n == (Len(f.data) \div (Channels * Block)) * Block
  <2>1. Len(f.data) \in Nat
    BY LenProperties DEF FileHolds
  <2>2. n \in Nat
    <3> DEFINE d == Channels * Block
               q == Len(f.data) \div d
    <3>1. d \in Nat \ {0} /\ Block \in Nat
      BY WriterAssumption
    <3> HIDE DEF d
    <3>2. q \in Nat
      BY <2>1, <3>1, DivExists
    <3> HIDE DEF q
    <3>3. q * Block \in Nat
      BY <3>1, <3>2
    <3> QED
      BY <3>3 DEF q, d
  <2>3. \A x \in Chan : DOMAIN bytes(x) = 1..n
    BY DEF ChannelOf
  <2>4. \A x \in Chan : bytes(x) \in Seq(Bytes)
    <3> TAKE x \in Chan
    <3> DEFINE y == a(x)
               z == Pads(p)
    <3>1. y \in Seq(Sounds) /\ bytes(x) = y \o z
      BY <1>1
    <3>2. z \in Seq(Bytes)
      BY <1>1 DEF Bytes, Pads
    <3> HIDE DEF y, z, bytes
    <3>3. y \in Seq(Bytes)
      BY <3>1 DEF Sounds
    <3> QED
      BY <3>1, <3>2, <3>3, ConcatProperties
  <2> HIDE DEF n, bytes
  <2>5. \A x \in Chan : Len(bytes(x)) = n
    BY <2>2, <2>3, <2>4
  <2> QED
    BY <1>2, <2>5
<1> HIDE DEF a, bytes
<1>4. ASSUME NEW x \in Chan
      PROVE  /\ Audio(bytes(x)) = a(x) /\ Len(bytes(x)) = Len(a(x)) + p /\ Len(a(x)) \in Nat
             /\ PadsIn(bytes(x)) = (Len(a(x)) + 1)..(Len(a(x)) + p)
  <2> DEFINE y == a(x)
             z == bytes(x)
  <2>1. y \in Seq(Sounds) /\ z = y \o Pads(p) /\ p \in Nat
    BY <1>1
  <2> HIDE DEF y, z
  <2>2. /\ Audio(z) = y /\ Len(z) = Len(y) + p /\ Len(y) \in Nat
        /\ PadsIn(z) = (Len(y) + 1)..(Len(y) + p)
    BY <2>1, AudioOf
  <2> QED
    BY <2>2 DEF y, z
<1>5. Len(a(c)) = Len(a(1))
  BY <1>1, <1>2, <1>3, <1>4
<1> QED
  BY <1>1, <1>4, <1>5 DEF a, bytes

\* A hole costs at most the partial block before it, keeps every channel's bytes in
\* order, and is never inside a file (extractor.rs 567-620, dsf.rs 133-151, 235-266).
THEOREM HolesLoseTails == Spec => []HolesLoseTailsOnly
<1>1. SequenceInv => HolesLoseTailsOnly
  <2> SUFFICES ASSUME SequenceInv PROVE HolesLoseTailsOnly
    OBVIOUS
  <2> DEFINE holes == Cardinality({i \in 2..Len(selection) :
                                     i <= next /\ selection[i] # selection[i - 1] + 1})
  <2>1. Basics /\ selection \in Selections /\ len \in Lengths /\ Len(selection) \in Nat
    BY SelectionAscends DEF SequenceInv, Basics
  <2>2. holes = Holes(selection, next)
    BY DEF Holes, HolesTo
  <2> HIDE DEF holes
  <2>3. ASSUME NEW c \in Chan
        PROVE  /\ Rising(Held(c))
               /\ Len(FlattenSeq([i \in DOMAIN selection |-> Delivered(selection[i], c)]))
                    - Len(Held(c)) <= holes * (Block - 1)
    <3>1. PICK k \in 0..Len(selection) :
            Silent(k + 1) /\ SoFar(Held(c), selection, len, c, k, next)
      BY HeldSoFar
    <3> DEFINE a == Heard(selection, len, c, k)
               g == holes * (Block - 1)
    <3>2. Heard(selection, len, c, Len(selection)) = a
      <4>1. \A i \in (k + 1)..Len(selection) : len[selection[i]] = 0
        BY <3>1 DEF Silent
      <4> QED
        BY <2>1, <4>1, HeardTrailing
    <3>3. Rising(Held(c)) /\ Len(a) <= Len(Held(c)) + g /\ Held(c) \in Seq(Sounds)
      BY <2>2, <3>1 DEF SoFar
    <3>4. a \in Seq(Sounds)
      BY <2>1, HeardType
    <3>5. g \in Int
      <4>1. holes \in Nat
        BY <2>1, <2>2, HolesType DEF Basics
      <4> QED
        BY <4>1, WriterAssumption
    <3> HIDE DEF a, g
    <3>6. Len(a) \in Nat /\ Len(Held(c)) \in Nat
      BY <3>3, <3>4, LenProperties
    <3>7. Len(a) - Len(Held(c)) <= g
      BY <3>3, <3>5, <3>6
    <3> QED
      BY <2>1, <3>2, <3>3, <3>7, HeardIsDelivered DEF g
  <2>4. ASSUME NEW c \in Chan, NEW f \in DOMAIN files,
               NEW i \in 2..Len(Audio(ChannelOf(files[f].data, c))),
               NEW t \in Audio(ChannelOf(files[f].data, c))[i - 1].track
                           ..Audio(ChannelOf(files[f].data, c))[i].track
        PROVE  \E k \in DOMAIN selection : selection[k] = t
    <3>1. PICK audio, p : FileHolds(files[f], selection, nopad, audio, p)
      BY <2>1, FileFacts
    <3> DEFINE a == audio[c]
               u == files[f].track
    <3>2. Audio(ChannelOf(files[f].data, c)) = a /\ a \in Seq(Sounds) /\ Len(a) \in Nat
      BY <3>1, ChannelFacts
    <3>3. Reaches(a, selection, u) /\ u \in Tracks
      BY <3>1 DEF FileHolds
    <3> HIDE DEF a, u
    <3>4. i \in 2..Len(a) /\ t \in a[i - 1].track..a[i].track
      BY <3>2
    <3>5. i \in 1..Len(a) /\ i - 1 \in 1..Len(a)
      BY <3>2, <3>4
    <3>6. a[i].track \in Nat /\ a[i - 1].track \in Nat /\ u \in Nat
      <4>1. a[i] \in Sounds /\ a[i - 1] \in Sounds
        BY <3>2, <3>5, ElementOfSeq
      <4> QED
        BY <3>3, <4>1, SequenceAssumption DEF Sounds, Bytes, Tracks
    <3>7. a[i].track <= u
      BY <3>3, <3>5 DEF Reaches
    <3>8. t \in a[i - 1].track..u
      <4> DEFINE v == a[i - 1].track
                 w == a[i].track
      <4>1. v \in Nat /\ w \in Nat /\ w <= u /\ t \in v..w
        BY <3>4, <3>6, <3>7
      <4> HIDE DEF v, w
      <4>2. t \in v..u
        BY <3>6, <4>1
      <4> QED
        BY <4>2 DEF v
    <3>9. \E k \in 1..Len(selection) : selection[k] = t
      BY <3>3, <3>5, <3>8 DEF Reaches
    <3>10. DOMAIN selection = 1..Len(selection)
      <4>1. selection \in Seq(Tracks)
        BY <2>1, SelectionAscends
      <4> QED
        BY <4>1
    <3> QED
      BY <3>9, <3>10
  <2>5. ASSUME NEW c \in Chan, NEW data \in {files[f].data : f \in DOMAIN files},
               NEW i \in 2..Len(Audio(ChannelOf(data, c))),
               NEW t \in Audio(ChannelOf(data, c))[i - 1].track..Audio(ChannelOf(data, c))[i].track
        PROVE  \E k \in DOMAIN selection : selection[k] = t
    <3>1. PICK f \in DOMAIN files : data = files[f].data
      OBVIOUS
    <3> QED
      BY <2>4, <3>1
  <2>6. ASSUME NEW c \in Chan
        PROVE  \A i \in 2..Len(Held(c)) :
                 LET a == Held(c)[i - 1]
                     b == Held(c)[i]
                 IN  a.track < b.track \/ (a.track = b.track /\ b.n = a.n + 1)
    BY <2>3 DEF Rising
  <2> QED
    BY <2>3, <2>5, <2>6 DEF HolesLoseTailsOnly, holes
<1> QED
  BY <1>1, SequenceAlways, PTL

\* Padding is the end of a channel's last block, as much in every channel, and with
\* nopad only in the area's last track (dsf.rs 235-266).
THEOREM PaddingEndsFiles == Spec => []PaddingOnlyAtEnd
<1>1. SequenceInv => PaddingOnlyAtEnd
  <2> SUFFICES ASSUME SequenceInv, NEW i \in DOMAIN files
               PROVE  LET data == files[i].data
                          pads(c) == {j \in DOMAIN ChannelOf(data, c) : ChannelOf(data, c)[j] = Pad}
                      IN  /\ Len(data) % (Channels * Block) = 0
                          /\ \A c \in Chan : /\ pads(c) = pads(1) /\ Cardinality(pads(c)) < Block
                                             /\ \A j \in pads(c) : \/ j = Len(ChannelOf(data, c))
                                                                   \/ j + 1 \in pads(c)
                          /\ nopad /\ files[i].track < TrackCount => pads(1) = {}
    BY DEF PaddingOnlyAtEnd
  <2> DEFINE data == files[i].data
             pads(c) == {j \in DOMAIN ChannelOf(data, c) : ChannelOf(data, c)[j] = Pad}
  <2>0. \A c \in Chan : pads(c) = PadsIn(ChannelOf(data, c))
    BY DEF PadsIn
  <2> HIDE DEF pads
  <2>1. PICK audio, p : FileHolds(files[i], selection, nopad, audio, p)
    BY FileFacts DEF SequenceInv
  <2> DEFINE n == Len(audio[1])
  <2>2. 1 \in Chan /\ p \in Nat /\ p < Block /\ Block \in Nat
    BY <2>1, WriterAssumption DEF FileHolds, Chan
  <2>3. \A c \in Chan : pads(c) = (n + 1)..(n + p) /\ Len(ChannelOf(data, c)) = n + p /\ n \in Nat
    <3> TAKE c \in Chan
    <3>1. /\ Len(ChannelOf(data, c)) = Len(audio[c]) + p /\ Len(audio[c]) \in Nat
          /\ PadsIn(ChannelOf(data, c)) = (Len(audio[c]) + 1)..(Len(audio[c]) + p)
          /\ Len(audio[c]) = Len(audio[1])
      BY <2>1, ChannelFacts
    <3> QED
      BY <2>0, <3>1
  <2>4. Len(data) % (Channels * Block) = 0 /\ (nopad /\ files[i].track < TrackCount => p = 0)
    BY <2>1 DEF FileHolds
  <2> HIDE DEF pads, n, data
  <2>5. Cardinality((n + 1)..(n + p)) = p /\ n \in Nat
    <3>1. n \in Nat
      BY <2>2, <2>3
    <3>2. Cardinality((n + 1)..(n + p)) = IF n + 1 > n + p THEN 0 ELSE (n + p) - (n + 1) + 1
      BY <2>2, <3>1, FS_Interval
    <3> QED
      BY <2>2, <3>1, <3>2
  <2>6. \A j \in (n + 1)..(n + p) : j = n + p \/ j + 1 \in (n + 1)..(n + p)
    BY <2>2, <2>5
  <2>7. p = 0 => (n + 1)..(n + p) = {}
    BY <2>5
  <2> QED
    BY <2>2, <2>3, <2>4, <2>5, <2>6, <2>7 DEF pads, data
<1> QED
  BY <1>1, SequenceAlways, PTL

\* Without nopad the patched sample count is the audio's, not the padded one
\* (dsf.rs 278-296).
THEOREM PaddedCountIsAudio == Spec => []PaddedSampleCountIsAudio
<1>1. SequenceInv => PaddedSampleCountIsAudio
  <2> SUFFICES ASSUME SequenceInv, ~nopad, NEW i \in DOMAIN files
               PROVE  files[i].samples = 8 * Len(Audio(ChannelOf(files[i].data, 1)))
    BY DEF PaddedSampleCountIsAudio, SampleCountIsAudio
  <2>1. PICK audio, p : FileHolds(files[i], selection, nopad, audio, p)
    BY FileFacts DEF SequenceInv
  <2>2. 1 \in Chan
    BY WriterAssumption DEF Chan
  <2>3. Audio(ChannelOf(files[i].data, 1)) = audio[1]
    BY <2>1, <2>2, ChannelFacts
  <2> QED
    BY <2>1, <2>3 DEF FileHolds
<1> QED
  BY <1>1, SequenceAlways, PTL

=============================================================================
