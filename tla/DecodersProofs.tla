--------------------------- MODULE DecodersProofs ---------------------------
(***************************************************************************)
(* What the decoders make of a disc is what it was mastered with, for      *)
(* every sector, every text and every order of texts that the assumptions  *)
(* of Decoders describe.  A decoder takes one step, so the invariant only  *)
(* says what the step has put out; the rest is about the bytes.            *)
(***************************************************************************)
EXTENDS Decoders, InductionLemmas, FiniteSetTheorems

\* What the program makes of a sector and of a disc.
OfSector(s) == [done |-> TRUE, split |-> Split(EncodeSector(s))]

TextsOf(d)  == ParseTrackText(EncodeSection(d.tracks, d.order), Len(d.tracks))
MasterOf(d) == MasterText(EncodeMaster(d.master))
TagsOf(d)   == [t \in DOMAIN TextsOf(d) |-> RenderId3(TextsOf(d)[t], MasterOf(d), EncodeToc(d.rest))]
OfDisc(d)   == [done |-> TRUE, texts |-> TextsOf(d), master |-> MasterOf(d), tags |-> TagsOf(d)]

\* Nothing has been read, or what was read is put out.
DecodersInv ==
    \/ \E s \in Sectors : input = [sector |-> s] /\ (output = Pending \/ output = OfSector(s))
    \/ \E d \in Discs : input = [disc |-> d] /\ (output = Pending \/ output = OfDisc(d))

\* The invariant holds from the choice of the input on.
LEMMA DecodersAlways == Spec => []DecodersInv
<1>1. Init => DecodersInv
  BY DEF Init, DecodersInv
<1>2. DecodersInv /\ [Next]_vars => DecodersInv'
  <2> SUFFICES ASSUME DecodersInv, [Next]_vars PROVE DecodersInv'
    OBVIOUS
  <2>1. CASE Stop \/ UNCHANGED vars
    BY <2>1 DEF Stop, vars, DecodersInv
  <2>2. CASE ReadSector
    <3>1. "sector" \in DOMAIN input /\ input' = input /\ output' = OfSector(input.sector)
      BY <2>2 DEF ReadSector, OfSector
    <3> QED
      BY <3>1 DEF DecodersInv
  <2>3. CASE ReadDisc
    <3>1. "disc" \in DOMAIN input /\ input' = input /\ output' = OfDisc(input.disc)
      BY <2>3 DEF ReadDisc, OfDisc, TextsOf, MasterOf, TagsOf
    <3> QED
      BY <3>1 DEF DecodersInv
  <2> QED
    BY <2>1, <2>2, <2>3 DEF Next
<1> QED
  BY <1>1, <1>2, PTL DEF Spec

\* What has been read is of the kind the property speaks of.
LEMMA SectorRead ==
    ASSUME DecodersInv, output.done, "sector" \in DOMAIN input
    PROVE  input.sector \in Sectors /\ output = OfSector(input.sector)
BY DEF DecodersInv, Pending

\* Likewise for a disc.
LEMMA DiscRead ==
    ASSUME DecodersInv, output.done, "disc" \in DOMAIN input
    PROVE  input.disc \in Discs /\ output = OfDisc(input.disc)
BY DEF DecodersInv, Pending

-----------------------------------------------------------------------------
(* Bits *)

\* A flag is one bit.
LEMMA BitsOf ==
    ASSUME NEW b \in Nat
    PROVE  /\ Bits(b, 0, 1) = b % 2 /\ Bits(b, 2, 3) = (b \div 4) % 8 /\ Bits(b, 5, 3) = (b \div 32) % 8
           /\ Bits(b, 7, 1) = (b \div 128) % 2 /\ Bits(b, 3, 3) = (b \div 8) % 8 /\ Bits(b, 0, 3) = b % 8
           /\ Bits(b, 2, 5) = (b \div 4) % 32
<1>1. 2^0 = 1 /\ 2^1 = 2 /\ 2^2 = 4 /\ 2^3 = 8 /\ 2^5 = 32 /\ 2^7 = 128
  OBVIOUS
<1>2. b \div 1 = b
  OBVIOUS
<1> QED
  BY <1>1, <1>2 DEF Bits

\* The header byte.
LEMMA HeaderByte ==
    ASSUME NEW dst \in BOOLEAN, NEW reserved \in {0, 1}, NEW i \in 0..7, NEW p \in 0..7
    PROVE  /\ Bit(dst) + 2 * reserved + 4 * i + 32 * p \in Nat
           /\ FrameHeader(Bit(dst) + 2 * reserved + 4 * i + 32 * p) = [dst |-> dst, infos |-> i, packets |-> p]
<1> DEFINE b == Bit(dst) + 2 * reserved + 4 * i + 32 * p
<1>1. Bit(dst) \in {0, 1} /\ (Bit(dst) = 1 <=> dst)
  BY DEF Bit
<1>2. b \in Nat /\ b % 2 = Bit(dst) /\ (b \div 4) % 8 = i /\ (b \div 32) % 8 = p
  <2> DEFINE x == Bit(dst)
             y == x + 2 * reserved
  <2>1. x \in {0, 1} /\ y \in 0..3 /\ y % 2 = x
    BY <1>1
  <2>2. b = y + 4 * i + 32 * p
    OBVIOUS
  <2> HIDE DEF b, y
  <2>3. b \in Nat /\ b = 4 * (i + 8 * p) + y
    BY <2>1, <2>2
  <2>4. b \div 4 = i + 8 * p
    BY <2>1, <2>3
  <2>5. b \div 32 = p
    BY <2>1, <2>2
  <2>6. b % 2 = y % 2
    BY <2>1, <2>2
  <2> QED
    BY <2>1, <2>3, <2>4, <2>5, <2>6
<1> HIDE DEF b
<1>3. (b % 2 = 1) = dst
  BY <1>1, <1>2
<1> QED
  BY <1>2, <1>3, BitsOf DEF FrameHeader, b

\* A packet's type and length share its two bytes with its flag.
LEMMA PacketType ==
    ASSUME NEW p \in Packets
    PROVE  p.start \in BOOLEAN /\ p.type \in 0..7 /\ p.length \in 0..2047 /\ p.length \in Nat
<1>1. p.start \in BOOLEAN /\ p.type \in 0..7 /\ p.length \in 0..2047
  BY DEF Packets
<1> DEFINE l == p.length
<1>2. l \in 0..2047
  BY <1>1
<1> HIDE DEF l
<1>3. l \in Nat
  BY <1>2
<1> QED
  BY <1>1, <1>3 DEF l

\* The two bytes of a packet.
LEMMA PacketBytes ==
    ASSUME NEW p \in Packets, NEW reserved \in {0, 1}
    PROVE  /\ EncodePacket(p, reserved) \in Seq(Nat) /\ Len(EncodePacket(p, reserved)) = 2
           /\ \A b : (b[1] = EncodePacket(p, reserved)[1] /\ b[2] = EncodePacket(p, reserved)[2])
                       => PacketInfo(b) = p
<1> DEFINE q == p.length \div 256
           r == p.length % 256
           h == 128 * Bit(p.start) + 64 * reserved + 8 * p.type + q
<1>1. /\ p = [start |-> p.start, type |-> p.type, length |-> p.length]
      /\ p.start \in BOOLEAN /\ p.type \in 0..7 /\ p.length \in 0..2047
  BY DEF Packets
<1>2. Bit(p.start) \in {0, 1} /\ (Bit(p.start) = 1 <=> p.start)
  BY <1>1 DEF Bit
<1>3. q \in 0..7 /\ r \in 0..255 /\ p.length = 256 * q + r
  <2> DEFINE l == p.length
  <2>1. l \in 0..2047
    BY <1>1
  <2> HIDE DEF l
  <2>2. l \div 256 \in 0..7 /\ l % 256 \in 0..255 /\ l = 256 * (l \div 256) + (l % 256)
    BY <2>1
  <2> QED
    BY <2>2 DEF l
<1> HIDE DEF q, r
<1>4. h \in Nat /\ (h \div 128) % 2 = Bit(p.start) /\ (h \div 8) % 8 = p.type /\ h % 8 = q
  BY <1>1, <1>2, <1>3
<1>5. EncodePacket(p, reserved) = <<h, r>>
  BY DEF EncodePacket, q, r
<1> HIDE DEF h
<1>6. ASSUME NEW b, b[1] = h, b[2] = r PROVE PacketInfo(b) = p
  <2>1. (Bits(h, 7, 1) = 1) = p.start /\ Bits(h, 3, 3) = p.type /\ Bits(h, 0, 3) = q
    BY <1>1, <1>2, <1>4, BitsOf
  <2>2. PacketInfo(b) = [start |-> p.start, type |-> p.type, length |-> 256 * q + r]
    BY <1>6, <2>1 DEF PacketInfo
  <2> QED
    BY <1>1, <1>3, <2>2
<1> QED
  BY <1>3, <1>4, <1>5, <1>6

\* The three or four bytes of a frame info.
LEMMA InfoBytes ==
    ASSUME NEW i \in Infos, NEW dst \in BOOLEAN
    PROVE  /\ EncodeInfo(i, dst) \in Seq(Nat) /\ Len(EncodeInfo(i, dst)) = InfoSize(dst)
           /\ \A b \in Seq(Nat) :
                (Len(b) = InfoSize(dst) /\ \A j \in 1..InfoSize(dst) : b[j] = EncodeInfo(i, dst)[j])
                  => /\ FrameInfo(b, dst).time = i.time
                     /\ FrameInfo(b, dst).count = IF dst THEN i.count ELSE 0
<1> DEFINE e == EncodeInfo(i, dst)
           m == Bit(i.bit3) + 2 * Bit(i.bit2) + 4 * i.count + 128 * Bit(i.bit1)
           t == i.time
<1>1. t \in [1..3 -> Byte] /\ i.count \in 0..31 /\ i.bit1 \in BOOLEAN /\ i.bit2 \in BOOLEAN /\ i.bit3 \in BOOLEAN
  BY DEF Infos
<1>2. t \in Seq(Nat) /\ Len(t) = 3
  <2>1. t = [j \in 1..3 |-> t[j]] /\ \A j \in 1..3 : t[j] \in Nat
    BY <1>1 DEF Byte
  <2>2. [j \in 1..3 |-> t[j]] \in Seq(Nat) /\ Len([j \in 1..3 |-> t[j]]) = 3
    BY <2>1
  <2> QED
    BY <2>1, <2>2
<1>3. Bit(i.bit1) \in {0, 1} /\ Bit(i.bit2) \in {0, 1} /\ Bit(i.bit3) \in {0, 1}
  BY DEF Bit
<1>4. m \in Nat /\ (m \div 4) % 32 = i.count
  BY <1>1, <1>3
<1>5. /\ e \in Seq(Nat) /\ Len(e) = InfoSize(dst)
      /\ \A j \in 1..3 : e[j] = t[j]
      /\ dst => e[4] = m
  <2> HIDE DEF t, m
  <2>1. CASE dst
    <3> DEFINE f == <<m>>
    <3>1. f \in Seq(Nat) /\ Len(f) = 1 /\ f[1] = m
      BY <1>4
    <3>2. e = t \o f
      BY <2>1 DEF EncodeInfo, t, m
    <3> HIDE DEF e, f
    <3>3. /\ t \o f \in Seq(Nat) /\ Len(t \o f) = 4
          /\ \A j \in 1..Len(t) : (t \o f)[j] = t[j]
          /\ \A j \in 1..Len(f) : (t \o f)[Len(t) + j] = f[j]
      <4>1. /\ t \o f \in Seq(Nat) /\ Len(t \o f) = Len(t) + Len(f)
            /\ \A j \in 1..Len(t) : (t \o f)[j] = t[j]
            /\ \A j \in 1..Len(f) : (t \o f)[Len(t) + j] = f[j]
        <5>1. t \in Seq(Nat) /\ f \in Seq(Nat)
          BY <1>2, <3>1
        <5> QED
          BY <5>1, ConcatElements
      <4> QED
        BY <1>2, <3>1, <4>1
    <3> QED
      BY <1>2, <2>1, <3>1, <3>2, <3>3, SMTT(30) DEF InfoSize
  <2>2. CASE ~dst
    <3>1. e = t \o <<>>
      BY <2>2 DEF EncodeInfo, t
    <3>2. e = t
      BY <1>2, <3>1, ConcatEmptySeq
    <3> QED
      BY <1>2, <2>2, <3>2 DEF InfoSize
  <2> QED
    BY <2>1, <2>2
<1> HIDE DEF e
<1>6. ASSUME NEW b \in Seq(Nat), Len(b) = InfoSize(dst), \A j \in 1..InfoSize(dst) : b[j] = e[j]
      PROVE  FrameInfo(b, dst).time = t /\ FrameInfo(b, dst).count = IF dst THEN i.count ELSE 0
  <2> HIDE DEF m, t
  <2>1. \A j \in 1..3 : j \in 1..InfoSize(dst) /\ b[j] = t[j] /\ b[j] \in Nat
    BY <1>5, <1>6, ElementOfSeq DEF InfoSize
  <2>2. SubSeq(b, 1, 3) \in Seq(Nat) /\ Len(SubSeq(b, 1, 3)) = 3 /\ \A j \in 1..3 : SubSeq(b, 1, 3)[j] = b[j]
    <3>1. \A j \in 1..(3 - 1 + 1) : SubSeq(b, 1, 3)[j] = b[1 + j - 1]
      BY <2>1, SubSeqProperties
    <3>2. SubSeq(b, 1, 3) \in Seq(Nat) /\ Len(SubSeq(b, 1, 3)) = 3
      BY <2>1, SubSeqProperties
    <3> QED
      BY <3>1, <3>2
  <2> DEFINE c == SubSeq(b, 1, 3)
  <2> HIDE DEF c
  <2>3. c = t
    <3>1. c \in Seq(Nat) /\ Len(c) = 3 /\ \A j \in 1..3 : c[j] = t[j]
      BY <2>1, <2>2 DEF c
    <3> QED
      BY <1>2, <3>1, SeqEqual
  <2>4. dst => b[4] = m
    BY <1>5, <1>6 DEF InfoSize
  <2>5. dst => Bits(b[4], 2, 5) = i.count
    BY <1>4, <2>4, BitsOf
  <2>6. FrameInfo(b, dst).time = c /\ FrameInfo(b, dst).count = IF dst THEN Bits(b[4], 2, 5) ELSE 0
    BY DEF FrameInfo, c
  <2> QED
    BY <2>3, <2>5, <2>6
<1> QED
  BY <1>5, <1>6 DEF e, t

-----------------------------------------------------------------------------
(* The header of a sector *)

\* A function from 1 to n is a sequence.
LEMMA FunctionSeq ==
    ASSUME NEW S, NEW n \in Nat, NEW f, f = [i \in 1..n |-> f[i]], \A i \in 1..n : f[i] \in S
    PROVE  f \in Seq(S) /\ Len(f) = n
<1>1. [i \in 1..n |-> f[i]] \in Seq(S) /\ Len([i \in 1..n |-> f[i]]) = n
  OBVIOUS
<1> QED
  BY <1>1

\* Blocks of equal length lie one behind the other.
LEMMA BlocksLie ==
    ASSUME NEW S, NEW m \in Nat, NEW b \in Nat, NEW q, q = [i \in 1..m |-> q[i]],
           \A i \in 1..m : q[i] \in Seq(S) /\ Len(q[i]) = b
    PROVE  FlattenSeq(q) \in Seq(S) /\ Blocks(FlattenSeq(q), q, b)
<1>1. q \in Seq(Seq(S)) /\ Len(q) = m
  BY FunctionSeq
<1>2. \A i \in 1..Len(q) : Len(q[i]) = b
  BY <1>1
<1> QED
  BY <1>1, <1>2, FlattenBlocks

\* Where the header byte, the packets' bytes and the infos' bytes lie in the
\* bytes e of a sector of np packets and ni infos of n bytes.
SectorLayout(s, e, np, ni, n) ==
    /\ np \in 0..7 /\ ni \in 0..7 /\ n \in {3, 4} /\ s.dst \in BOOLEAN /\ s.reserved \in {0, 1}
    /\ \A i \in 1..np : s.packets[i] \in Packets
    /\ \A i \in 1..ni : s.infos[i] \in Infos
    /\ e \in Seq(Nat) /\ Len(e) = 1 + 2 * np + ni * n
    /\ e[1] = Bit(s.dst) + 2 * s.reserved + 4 * ni + 32 * np
    /\ \A i \in 1..np : \A j \in 1..2 : e[1 + ((i - 1) * 2 + j)] = EncodePacket(s.packets[i], s.reserved)[j]
    /\ \A i \in 1..ni : \A j \in 1..n : e[1 + 2 * np + ((i - 1) * n + j)] = EncodeInfo(s.infos[i], s.dst)[j]

\* A mastered sector is laid out in that way.
LEMMA SectorBytes ==
    ASSUME NEW s \in Sectors
    PROVE  SectorLayout(s, EncodeSector(s), Len(s.packets), Len(s.infos), InfoSize(s.dst))
<1> DEFINE e == EncodeSector(s)
           np == Len(s.packets)
           ni == Len(s.infos)
           n == InfoSize(s.dst)
<1>0. e = EncodeSector(s) /\ np = Len(s.packets) /\ ni = Len(s.infos) /\ n = InfoSize(s.dst)
  OBVIOUS
<1> HIDE DEF e, np, ni, n
<1> DEFINE h == <<Bit(s.dst) + 2 * s.reserved + 4 * ni + 32 * np>>
           ps == [i \in 1..np |-> EncodePacket(s.packets[i], s.reserved)]
           is == [i \in 1..ni |-> EncodeInfo(s.infos[i], s.dst)]
           p == FlattenSeq(ps)
           f == FlattenSeq(is)
           g == h \o p
<1>1. /\ s.dst \in BOOLEAN /\ s.reserved \in {0, 1} /\ s.packets \in Seq(Packets) /\ s.infos \in Seq(Infos)
      /\ Len(s.packets) <= 7 /\ Len(s.infos) <= 7
  BY SectorsAssumption
<1>2. /\ np \in 0..7 /\ ni \in 0..7 /\ DOMAIN s.packets = 1..np /\ DOMAIN s.infos = 1..ni
      /\ \A i \in 1..np : s.packets[i] \in Packets
      /\ \A i \in 1..ni : s.infos[i] \in Infos
  <2> DEFINE a == s.packets
             b == s.infos
  <2>1. a \in Seq(Packets) /\ b \in Seq(Infos) /\ Len(a) = np /\ Len(b) = ni /\ np <= 7 /\ ni <= 7
    BY <1>0, <1>1
  <2> HIDE DEF a, b
  <2>2. np \in Nat /\ DOMAIN a = 1..np /\ \A i \in 1..np : a[i] \in Packets
    <3>1. Len(a) \in Nat /\ DOMAIN a = 1..Len(a)
      BY <2>1, LenProperties
    <3>2. \A i \in 1..Len(a) : a[i] \in Packets
      BY <2>1, ElementOfSeq
    <3> QED
      BY <2>1, <3>1, <3>2
  <2>3. ni \in Nat /\ DOMAIN b = 1..ni /\ \A i \in 1..ni : b[i] \in Infos
    <3>1. Len(b) \in Nat /\ DOMAIN b = 1..Len(b)
      BY <2>1, LenProperties
    <3>2. \A i \in 1..Len(b) : b[i] \in Infos
      BY <2>1, ElementOfSeq
    <3> QED
      BY <2>1, <3>1, <3>2
  <2>4. np \in 0..7 /\ ni \in 0..7
    BY <2>1, <2>2, <2>3
  <2> QED
    BY <2>2, <2>3, <2>4 DEF a, b
<1>3. n \in {3, 4}
  BY <1>0 DEF InfoSize
<1>4. e = g \o f
  <2>1. e = (<<Bit(s.dst) + 2 * s.reserved + 4 * Len(s.infos) + 32 * Len(s.packets)>>
              \o FlattenSeq([i \in DOMAIN s.packets |-> EncodePacket(s.packets[i], s.reserved)]))
              \o FlattenSeq([i \in DOMAIN s.infos |-> EncodeInfo(s.infos[i], s.dst)])
    BY <1>0 DEF EncodeSector
  <2>2. DOMAIN s.packets = 1..np /\ DOMAIN s.infos = 1..ni /\ Len(s.packets) = np /\ Len(s.infos) = ni
    BY <1>0, <1>2
  <2> QED
    BY <2>1, <2>2
<1>5. h \in Seq(Nat) /\ Len(h) = 1 /\ h[1] = Bit(s.dst) + 2 * s.reserved + 4 * ni + 32 * np
  <2>1. Bit(s.dst) + 2 * s.reserved + 4 * ni + 32 * np \in Nat
    BY <1>1, <1>2, HeaderByte
  <2> QED
    BY <2>1
<1>6. /\ p \in Seq(Nat) /\ Len(p) = np * 2
      /\ \A i \in 1..np : \A j \in 1..2 : p[(i - 1) * 2 + j] = EncodePacket(s.packets[i], s.reserved)[j]
  <2>1. \A i \in 1..np : ps[i] \in Seq(Nat) /\ Len(ps[i]) = 2
    BY <1>1, <1>2, PacketBytes
  <2>5. ps = [i \in 1..np |-> ps[i]] /\ np \in Nat
    BY <1>2
  <2>3. \A i \in 1..np : ps[i] = EncodePacket(s.packets[i], s.reserved)
    OBVIOUS
  <2>2. 2 \in Nat
    BY <1>3
  <2> HIDE DEF h, ps, is, g, p, f
  <2>6. Len(ps) = np
    BY <2>1, <2>5, FunctionSeq
  <2>4. FlattenSeq(ps) \in Seq(Nat) /\ Blocks(FlattenSeq(ps), ps, 2)
    BY <2>1, <2>2, <2>5, BlocksLie
  <2> QED
    BY <2>3, <2>4, <2>6 DEF p, Blocks
<1>7. /\ f \in Seq(Nat) /\ Len(f) = ni * n
      /\ \A i \in 1..ni : \A j \in 1..n : f[(i - 1) * n + j] = EncodeInfo(s.infos[i], s.dst)[j]
  <2>1. \A i \in 1..ni : is[i] \in Seq(Nat) /\ Len(is[i]) = n
    BY <1>0, <1>1, <1>2, InfoBytes
  <2>5. is = [i \in 1..ni |-> is[i]] /\ ni \in Nat
    BY <1>2
  <2>3. \A i \in 1..ni : is[i] = EncodeInfo(s.infos[i], s.dst)
    OBVIOUS
  <2>2. n \in Nat
    BY <1>3
  <2> HIDE DEF h, ps, is, g, p, f
  <2>6. Len(is) = ni
    BY <2>1, <2>5, FunctionSeq
  <2>4. FlattenSeq(is) \in Seq(Nat) /\ Blocks(FlattenSeq(is), is, n)
    BY <2>1, <2>2, <2>5, BlocksLie
  <2> QED
    BY <2>3, <2>4, <2>6 DEF f, Blocks
<1> HIDE DEF h, p, f
<1>8. /\ g \in Seq(Nat) /\ Len(g) = 1 + np * 2
      /\ g[1] = h[1]
      /\ \A k \in 1..(np * 2) : g[1 + k] = p[k]
  <2>1. h \in Seq(Nat) /\ p \in Seq(Nat)
    BY <1>5, <1>6
  <2>2. /\ h \o p \in Seq(Nat) /\ Len(h \o p) = Len(h) + Len(p)
        /\ \A k \in 1..Len(h) : (h \o p)[k] = h[k]
        /\ \A k \in 1..Len(p) : (h \o p)[Len(h) + k] = p[k]
    BY <2>1, ConcatElements
  <2>3. Len(h) = 1 /\ Len(p) = np * 2
    BY <1>5, <1>6
  <2> QED
    BY <2>2, <2>3
<1> HIDE DEF g
<1>9. /\ e \in Seq(Nat) /\ Len(e) = Len(g) + Len(f)
      /\ \A k \in 1..Len(g) : e[k] = g[k]
      /\ \A k \in 1..Len(f) : e[Len(g) + k] = f[k]
  <2>1. g \in Seq(Nat) /\ f \in Seq(Nat)
    BY <1>7, <1>8
  <2>2. /\ g \o f \in Seq(Nat) /\ Len(g \o f) = Len(g) + Len(f)
        /\ \A k \in 1..Len(g) : (g \o f)[k] = g[k]
        /\ \A k \in 1..Len(f) : (g \o f)[Len(g) + k] = f[k]
    BY <2>1, ConcatElements
  <2> QED
    BY <1>4, <2>2
<1>10. e[1] = h[1] /\ Len(g) = 1 + 2 * np
  <2>1. np \in Nat /\ Len(g) = 1 + np * 2 /\ g[1] = h[1]
    BY <1>2, <1>8
  <2>2. 1 \in 1..Len(g)
    BY <2>1
  <2>3. e[1] = g[1]
    BY <1>9, <2>2
  <2> QED
    BY <2>1, <2>3
<1>11. ASSUME NEW i \in 1..np, NEW j \in 1..2
       PROVE  e[1 + ((i - 1) * 2 + j)] = EncodePacket(s.packets[i], s.reserved)[j]
  <2> DEFINE k == (i - 1) * 2 + j
  <2>1. k \in 1..(np * 2) /\ 1 + k \in 1..(1 + np * 2)
    BY <1>2
  <2>2. p[k] = EncodePacket(s.packets[i], s.reserved)[j]
    BY <1>6
  <2> HIDE DEF k
  <2>3. e[1 + k] = p[k]
    BY <1>8, <1>9, <2>1
  <2> QED
    BY <2>2, <2>3 DEF k
<1>12. ASSUME NEW i \in 1..ni, NEW j \in 1..n
       PROVE  e[1 + 2 * np + ((i - 1) * n + j)] = EncodeInfo(s.infos[i], s.dst)[j]
  <2> DEFINE k == (i - 1) * n + j
  <2>1. k \in 1..(ni * n)
    BY <1>2, <1>3, CellInside
  <2>2. f[k] = EncodeInfo(s.infos[i], s.dst)[j]
    BY <1>7
  <2> HIDE DEF k
  <2>3. e[Len(g) + k] = f[k]
    BY <1>7, <1>9, <2>1
  <2> QED
    BY <1>10, <2>2, <2>3 DEF k
<1>13. Len(e) = 1 + 2 * np + ni * n
  BY <1>7, <1>9, <1>10
<1>14. SectorLayout(s, e, np, ni, n)
  BY <1>1, <1>2, <1>3, <1>5, <1>9, <1>10, <1>11, <1>12, <1>13 DEF SectorLayout
<1> QED
  BY <1>0, <1>14

\* A piece of a sequence of numbers.
LEMMA PieceOf ==
    ASSUME NEW e \in Seq(Nat), NEW a \in Nat \ {0}, NEW n \in Nat, a + n <= Len(e) + 1
    PROVE  /\ SubSeq(e, a, a + n - 1) \in Seq(Nat) /\ Len(SubSeq(e, a, a + n - 1)) = n
           /\ \A j \in 1..n : SubSeq(e, a, a + n - 1)[j] = e[a + j - 1]
<1> DEFINE z == a + n - 1
<1>0. Len(e) \in Nat
  BY LenProperties
<1>1. z \in Int /\ z - a + 1 = n /\ (a <= z <=> n # 0) /\ \A i \in a..z : i \in 1..Len(e)
  BY <1>0
<1>2. \A i \in a..z : e[i] \in Nat
  BY <1>1, ElementOfSeq
<1> HIDE DEF z
<1>3. /\ SubSeq(e, a, z) \in Seq(Nat) /\ Len(SubSeq(e, a, z)) = IF a <= z THEN z - a + 1 ELSE 0
      /\ \A i \in 1..(z - a + 1) : SubSeq(e, a, z)[i] = e[a + i - 1]
  BY <1>1, <1>2, SubSeqProperties
<1> QED
  BY <1>1, <1>3 DEF z

\* The loops over the header find what the sector was mastered with.
HeadersOf(s, h) ==
    /\ h.packets = s.packets /\ h.offset = Len(EncodeSector(s)) /\ h.offset \in Nat
    /\ Len(h.infos) = Len(s.infos)
    /\ \A i \in 1..Len(s.infos) : /\ h.infos[i].time = s.infos[i].time
                                  /\ h.infos[i].count = IF s.dst THEN s.infos[i].count ELSE 0

\* From a sector laid out so the program reads the headers that were mastered.
LEMMA HeadersRead ==
    ASSUME NEW s \in Sectors
    PROVE  HeadersOf(s, Headers(EncodeSector(s)))
<1> DEFINE e == EncodeSector(s)
           np == Len(s.packets)
           ni == Len(s.infos)
           n == InfoSize(s.dst)
           at == 1 + 2 * np
           h == Headers(e)
<1>0. e = EncodeSector(s) /\ np = Len(s.packets) /\ ni = Len(s.infos) /\ n = InfoSize(s.dst)
  OBVIOUS
<1> HIDE DEF e, np, ni, n
<1>1. /\ np \in 0..7 /\ ni \in 0..7 /\ n \in {3, 4} /\ s.dst \in BOOLEAN /\ s.reserved \in {0, 1}
      /\ \A i \in 1..np : s.packets[i] \in Packets
      /\ \A i \in 1..ni : s.infos[i] \in Infos
      /\ e \in Seq(Nat) /\ Len(e) = 1 + 2 * np + ni * n
      /\ e[1] = Bit(s.dst) + 2 * s.reserved + 4 * ni + 32 * np
      /\ \A i \in 1..np : \A j \in 1..2 : e[1 + ((i - 1) * 2 + j)] = EncodePacket(s.packets[i], s.reserved)[j]
      /\ \A i \in 1..ni : \A j \in 1..n : e[1 + 2 * np + ((i - 1) * n + j)] = EncodeInfo(s.infos[i], s.dst)[j]
  <2>1. SectorLayout(s, e, np, ni, n)
    BY <1>0, SectorBytes
  <2> QED
    BY <2>1 DEF SectorLayout
<1>2. s.packets = [i \in 1..np |-> s.packets[i]]
  <2> DEFINE a == s.packets
  <2>1. a \in Seq(Packets) /\ np = Len(a)
    BY <1>0, SectorsAssumption
  <2> HIDE DEF a
  <2>2. a = [i \in 1..np |-> a[i]]
    BY <2>1, LenProperties
  <2> QED
    BY <2>2 DEF a
<1>3. FrameHeader(e[1]) = [dst |-> s.dst, infos |-> ni, packets |-> np]
  <2> DEFINE b == Bit(s.dst) + 2 * s.reserved + 4 * ni + 32 * np
  <2>3. s.dst \in BOOLEAN /\ s.reserved \in {0, 1} /\ ni \in 0..7 /\ np \in 0..7
    BY <1>1
  <2>1. FrameHeader(b) = [dst |-> s.dst, infos |-> ni, packets |-> np]
    BY <2>3, HeaderByte, ZenonT(60)
  <2>2. e[1] = b
    BY <1>1
  <2> HIDE DEF b
  <2> QED
    BY <2>1, <2>2
<1>4. /\ h.packets = [i \in 1..np |-> PacketInfo(SubSeq(e, 2 * i, 2 * i + 1))]
      /\ h.infos = [i \in 1..ni |-> FrameInfo(SubSeq(e, at + n * (i - 1) + 1, at + n * i), s.dst)]
      /\ h.offset = at + n * ni
  BY <1>0, <1>3 DEF Headers
<1> HIDE DEF h
<1>5. h.offset = Len(e) /\ h.offset \in Nat
  BY <1>1, <1>4
<1>6. ASSUME NEW i \in 1..np PROVE PacketInfo(SubSeq(e, 2 * i, 2 * i + 1)) = s.packets[i]
  <2> DEFINE b == SubSeq(e, 2 * i, 2 * i + 1)
  <2>7. ni \in Nat /\ n \in Nat
    BY <1>1
  <2>1. ni * n \in Nat
    BY <2>7
  <2>2. 2 * i \in Nat \ {0} /\ 2 * i + 2 <= Len(e) + 1 /\ 2 * i + 2 - 1 = 2 * i + 1
    BY <1>1, <2>1
  <2>3. b[1] = e[2 * i] /\ b[2] = e[2 * i + 1]
    <3>1. \A j \in 1..2 : b[j] = e[2 * i + j - 1]
      BY <1>1, <2>2, PieceOf
    <3> QED
      BY <3>1
  <2>4. 1 + ((i - 1) * 2 + 1) = 2 * i /\ 1 + ((i - 1) * 2 + 2) = 2 * i + 1
    BY <1>1
  <2>5. b[1] = EncodePacket(s.packets[i], s.reserved)[1] /\ b[2] = EncodePacket(s.packets[i], s.reserved)[2]
    <3>1. 1 \in 1..2 /\ 2 \in 1..2
      OBVIOUS
    <3>2. /\ e[1 + ((i - 1) * 2 + 1)] = EncodePacket(s.packets[i], s.reserved)[1]
          /\ e[1 + ((i - 1) * 2 + 2)] = EncodePacket(s.packets[i], s.reserved)[2]
      BY <1>1, <3>1
    <3> QED
      BY <2>3, <2>4, <3>2
  <2> HIDE DEF b
  <2>6. PacketInfo(b) = s.packets[i]
    BY <1>1, <2>5, PacketBytes, ZenonT(60)
  <2> QED
    BY <2>6 DEF b
<1>7. h.packets = s.packets
  BY <1>2, <1>4, <1>6
<1>8. Len(h.infos) = ni
  BY <1>1, <1>4
<1>9. ASSUME NEW i \in 1..ni
      PROVE  /\ h.infos[i].time = s.infos[i].time
             /\ h.infos[i].count = IF s.dst THEN s.infos[i].count ELSE 0
  <2> DEFINE x == (i - 1) * n
             a == at + x + 1
             b == SubSeq(e, a, a + n - 1)
  <2>1. x \in Nat /\ at \in Nat /\ n \in Nat /\ x + n <= ni * n
    <3>1. n \in 1..n
      BY <1>1
    <3>2. (i - 1) * n + n \in 1..(ni * n)
      BY <1>1, <3>1, CellInside
    <3> QED
      BY <1>1, <3>2
  <2>2. n * (i - 1) = x /\ n * i = x + n
    BY <1>1
  <2>3. h.infos[i] = FrameInfo(b, s.dst)
    <3>1. at + n * (i - 1) + 1 = a /\ at + n * i = a + n - 1
      <4> HIDE DEF at, x
      <4> QED
        BY <2>1, <2>2
    <3> QED
      BY <1>4, <3>1
  <2>4. b \in Seq(Nat) /\ Len(b) = n /\ \A j \in 1..n : b[j] = e[a + j - 1]
    <3>1. a \in Nat \ {0} /\ a + n <= Len(e) + 1
      <4> DEFINE y == ni * n
      <4>2. ni \in Nat /\ n \in Nat
        BY <1>1
      <4>0. y \in Nat
        BY <4>2
      <4>1. x + n <= y /\ Len(e) = 1 + 2 * np + y
        BY <1>1, <2>1
      <4> HIDE DEF x, y
      <4> QED
        BY <1>1, <2>1, <4>1
    <3> HIDE DEF a
    <3> QED
      BY <1>1, <2>1, <3>1, PieceOf
  <2>5. ASSUME NEW j \in 1..n PROVE b[j] = EncodeInfo(s.infos[i], s.dst)[j]
    <3>1. e[1 + 2 * np + (x + j)] = EncodeInfo(s.infos[i], s.dst)[j]
      BY <1>1
    <3>2. a + j - 1 = 1 + 2 * np + (x + j)
      <4> HIDE DEF x
      <4> QED
        BY <1>1, <2>1
    <3> QED
      BY <2>4, <3>1, <3>2
  <2> HIDE DEF b
  <2>6. Len(b) = InfoSize(s.dst) /\ \A j \in 1..InfoSize(s.dst) : b[j] = EncodeInfo(s.infos[i], s.dst)[j]
    BY <2>4, <2>5 DEF n
  <2>7. s.infos[i] \in Infos /\ s.dst \in BOOLEAN /\ b \in Seq(Nat)
    BY <1>1, <2>4
  <2>8. /\ FrameInfo(b, s.dst).time = s.infos[i].time
        /\ FrameInfo(b, s.dst).count = IF s.dst THEN s.infos[i].count ELSE 0
    BY <2>6, <2>7, InfoBytes
  <2> QED
    BY <2>3, <2>8
<1>10. HeadersOf(s, h)
  BY <1>0, <1>5, <1>7, <1>8, <1>9 DEF HeadersOf
<1> QED
  BY <1>0, <1>10 DEF h

-----------------------------------------------------------------------------
(* The packets of a sector *)

\* at holds the places of the payload of packets behind the header.
Payloads(at, packets, offset) ==
    at = [i \in 1..(Len(packets) + 1) |-> IF i = 1 THEN offset ELSE at[i - 1] + packets[i - 1].length]

\* The recursive function of the places exists.
LEMMA PayloadsExist ==
    ASSUME NEW packets, Len(packets) \in Nat, NEW offset
    PROVE  \E at : Payloads(at, packets, offset)
<1> DEFINE e(f, i) == IF i = 1 THEN offset ELSE f[i - 1] + packets[i - 1].length
           T == {n \in Nat : \E f : f = [i \in 1..(n + 1) |-> e(f, i)]}
<1>1. 0 \in T
  <2> DEFINE f == [i \in 1..1 |-> offset]
  <2>1. \A i \in 1..(0 + 1) : e(f, i) = offset
    OBVIOUS
  <2>2. f = [i \in 1..(0 + 1) |-> e(f, i)]
    BY <2>1
  <2> HIDE DEF f, e
  <2> QED
    BY <2>2
<1>2. ASSUME NEW n \in Nat, n \in T PROVE n + 1 \in T
  <2>1. PICK f : f = [i \in 1..(n + 1) |-> e(f, i)]
    <3> HIDE DEF e
    <3> QED
      BY <1>2
  <2> DEFINE g == [i \in 1..((n + 1) + 1) |-> IF i <= n + 1 THEN f[i] ELSE f[n + 1] + packets[n + 1].length]
  <2>2. ASSUME NEW i \in 1..(n + 1) PROVE f[i] = e(f, i)
    <3> HIDE DEF e
    <3> QED
      BY <2>1
  <2>3. ASSUME NEW i \in 1..((n + 1) + 1) PROVE g[i] = e(g, i)
    <3>1. CASE i <= n + 1
      <4>1. i \in 1..(n + 1) /\ g[i] = f[i] /\ (i # 1 => i - 1 \in 1..(n + 1) /\ g[i - 1] = f[i - 1])
        BY <3>1
      <4> QED
        BY <2>2, <4>1
    <3>2. CASE ~(i <= n + 1)
      <4>1. i = (n + 1) + 1 /\ i # 1 /\ i - 1 = n + 1 /\ i - 1 \in 1..((n + 1) + 1) /\ i - 1 <= n + 1
        BY <3>2
      <4>2. g[i] = f[n + 1] + packets[n + 1].length /\ g[i - 1] = f[n + 1]
        BY <3>2, <4>1
      <4> QED
        BY <4>1, <4>2
    <3> QED
      BY <3>1, <3>2
  <2>4. g = [i \in 1..((n + 1) + 1) |-> g[i]]
    OBVIOUS
  <2> HIDE DEF g, e
  <2>5. g = [i \in 1..((n + 1) + 1) |-> e(g, i)]
    BY <2>3, <2>4
  <2> QED
    BY <2>5
<1>3. Len(packets) \in T
  <2> HIDE DEF T
  <2> QED
    BY <1>1, <1>2, NatSetInduction
<1> QED
  BY <1>3 DEF Payloads

\* The first payload begins behind the header, each other behind the one before.
LEMMA PayloadPlaces ==
    ASSUME NEW h, h.offset \in Nat, h.packets \in Seq(Packets)
    PROVE  /\ \A i \in 1..(Len(h.packets) + 1) : PayloadsAt(h)[i] \in Nat
           /\ PayloadsAt(h)[1] = h.offset
           /\ \A i \in 1..Len(h.packets) :
                PayloadsAt(h)[i + 1] = PayloadsAt(h)[i] + h.packets[i].length
<1> DEFINE p == h.packets
           n == Len(p)
           at == PayloadsAt(h)
           e(i) == IF i = 1 THEN h.offset ELSE at[i - 1] + p[i - 1].length
<1>1. n \in Nat /\ \A i \in 1..n : p[i].length \in Nat
  <2>1. n \in Nat /\ \A i \in 1..n : p[i] \in Packets
    BY LenProperties, ElementOfSeq
  <2> HIDE DEF p, n
  <2> QED
    BY <2>1, PacketType
<1>2. Payloads(at, p, h.offset)
  <2>1. at = CHOOSE f : Payloads(f, p, h.offset)
    BY DEF PayloadsAt, Payloads
  <2>2. \E f : Payloads(f, p, h.offset)
    BY <1>1, PayloadsExist
  <2> HIDE DEF at, p
  <2> QED
    BY <2>1, <2>2
<1> HIDE DEF at, p, n
<1>3. at = [i \in 1..(n + 1) |-> e(i)]
  BY <1>2 DEF Payloads, n
<1>4. \A i \in 1..(n + 1) : at[i] = e(i)
  <2> HIDE DEF e
  <2> QED
    BY <1>3
<1>5. at[1] = h.offset
  BY <1>1, <1>4
<1>6. ASSUME NEW i \in 1..n PROVE at[i + 1] = at[i] + p[i].length
  <2>1. i + 1 \in 1..(n + 1) /\ i + 1 # 1 /\ (i + 1) - 1 = i
    BY <1>1
  <2>2. at[i + 1] = e(i + 1)
    BY <1>4, <2>1
  <2> QED
    BY <2>1, <2>2
<1> HIDE DEF e
<1> DEFINE T == {i \in Nat : i + 1 \in 1..(n + 1) => at[i + 1] \in Nat}
<1>7. 0 \in T
  BY <1>5
<1>8. ASSUME NEW i \in Nat, i \in T PROVE i + 1 \in T
  <2> SUFFICES ASSUME (i + 1) + 1 \in 1..(n + 1) PROVE at[(i + 1) + 1] \in Nat
    OBVIOUS
  <2>1. i + 1 \in 1..n /\ i + 1 \in 1..(n + 1)
    BY <1>1
  <2>2. at[i + 1] \in Nat /\ p[i + 1].length \in Nat
    BY <1>1, <1>8, <2>1
  <2> QED
    BY <1>6, <2>1, <2>2
<1>9. ASSUME NEW i \in 1..(n + 1) PROVE at[i] \in Nat
  <2>1. i - 1 \in Nat /\ (i - 1) + 1 = i
    BY <1>1
  <2>2. i - 1 \in T
    <3> HIDE DEF T
    <3> QED
      BY <1>7, <1>8, <2>1, NatSetInduction
  <2> QED
    BY <2>1, <2>2
<1> QED
  BY <1>5, <1>6, <1>9 DEF at, p, n

\* Numbers of which each comes with all those before it are the first ones.
LEMMA FirstOnes ==
    ASSUME NEW n \in Nat, NEW T \in SUBSET (1..n), \A i \in T : \A j \in 1..i : j \in T
    PROVE  \E m \in 0..n : T = 1..m
<1> DEFINE N == {k \in Nat : k <= n => \E m \in 0..k : T \cap (1..k) = 1..m}
<1>1. 0 \in N
  <2>1. T \cap (1..0) = 1..0
    OBVIOUS
  <2> QED
    BY <2>1
<1>2. ASSUME NEW k \in Nat, k \in N PROVE k + 1 \in N
  <2> SUFFICES ASSUME k + 1 <= n PROVE \E m \in 0..(k + 1) : T \cap (1..(k + 1)) = 1..m
    OBVIOUS
  <2>1. CASE k + 1 \in T
    <3>1. T \cap (1..(k + 1)) = 1..(k + 1)
      BY <2>1
    <3> QED
      BY <3>1
  <2>2. CASE k + 1 \notin T
    <3>1. T \cap (1..(k + 1)) = T \cap (1..k)
      BY <2>2
    <3>2. PICK m \in 0..k : T \cap (1..k) = 1..m
      BY <1>2
    <3> QED
      BY <3>1, <3>2
  <2> QED
    BY <2>1, <2>2
<1>3. n \in N
  <2> HIDE DEF N
  <2> QED
    BY <1>1, <1>2, NatSetInduction
<1>4. \E m \in 0..n : T \cap (1..n) = 1..m
  BY <1>3
<1>5. T \cap (1..n) = T
  OBVIOUS
<1> QED
  BY <1>4, <1>5

\* The piece that is made of the k-th packet.
PieceAt(s, h, at, k) ==
    LET starts == {j \in 1..k : h.packets[j].start /\ h.packets[j].type = 2}
    IN  [packet |-> h.packets[k], from |-> at[k],
         info |-> IF k \in starts /\ Cardinality(starts) <= Len(h.infos)
                  THEN <<h.infos[Cardinality(starts)]>> ELSE <<>>]

\* What SectorIsSplit says of a sector and of what is made of it.
IsSplit(s, split) ==
    LET pieces == split.pieces
        n      == Cardinality(DOMAIN pieces)
        at(k)  == IF k = 1 THEN Len(EncodeSector(s)) ELSE pieces[k - 1].from + s.packets[k - 1].length
        starts == {k \in DOMAIN s.packets : s.packets[k].start /\ s.packets[k].type = 2}
        rank(k) == Cardinality({i \in starts : i <= k})
    IN  /\ n <= Len(s.packets) /\ DOMAIN pieces = 1..n
        /\ split.ok <=> n = Len(s.packets)
        /\ n < Len(s.packets) => at(n + 1) + s.packets[n + 1].length > SectorSize
        /\ \A k \in 1..n :
             /\ pieces[k].packet = s.packets[k]
             /\ pieces[k].from = at(k) /\ at(k) + s.packets[k].length <= SectorSize
             /\ IF k \in starts /\ rank(k) <= Len(s.infos)
                THEN LET info == pieces[k].info[1]
                     IN  /\ pieces[k].info # <<>> /\ info.time = s.infos[rank(k)].time
                         /\ info.count = IF s.dst THEN s.infos[rank(k)].count ELSE 0
                ELSE pieces[k].info = <<>>

\* Every mastered sector is split as it should be.
LEMMA SplitSector ==
    ASSUME NEW s \in Sectors
    PROVE  IsSplit(s, Split(EncodeSector(s)))
<1> DEFINE h == Headers(EncodeSector(s))
           p == s.packets
           np == Len(p)
           ni == Len(s.infos)
           at == PayloadsAt(h)
           held == {i \in 1..np : \A j \in 1..i : at[j] + p[j].length <= SectorSize}
           split == Split(EncodeSector(s))
           piece(k) == PieceAt(s, h, at, k)
<1>1. /\ h.packets = p /\ h.offset = Len(EncodeSector(s)) /\ h.offset \in Nat /\ Len(h.infos) = ni
      /\ \A i \in 1..ni : /\ h.infos[i].time = s.infos[i].time
                          /\ h.infos[i].count = IF s.dst THEN s.infos[i].count ELSE 0
  BY HeadersRead DEF HeadersOf
<1>2. p \in Seq(Packets) /\ np \in Nat /\ DOMAIN p = 1..np /\ ni \in Nat
  <2> DEFINE q == s.infos
  <2>1. p \in Seq(Packets) /\ q \in Seq(Infos)
    BY SectorsAssumption
  <2> HIDE DEF p, q
  <2>2. Len(p) \in Nat /\ DOMAIN p = 1..Len(p) /\ Len(q) \in Nat
    BY <2>1, LenProperties
  <2> QED
    BY <2>1, <2>2 DEF q
<1>3. /\ \A i \in 1..(np + 1) : at[i] \in Nat
      /\ at[1] = Len(EncodeSector(s))
      /\ \A i \in 1..np : at[i + 1] = at[i] + p[i].length
      /\ \A i \in 1..np : p[i].length \in Nat
  <2> HIDE DEF h, p
  <2>1. /\ \A i \in 1..(Len(h.packets) + 1) : PayloadsAt(h)[i] \in Nat
        /\ PayloadsAt(h)[1] = h.offset
        /\ \A i \in 1..Len(h.packets) : PayloadsAt(h)[i + 1] = PayloadsAt(h)[i] + h.packets[i].length
    BY <1>1, <1>2, PayloadPlaces
  <2>2. ASSUME NEW i \in 1..np PROVE p[i].length \in Nat
    <3>1. p[i] \in Packets
      BY <1>2, ElementOfSeq
    <3> QED
      BY <3>1, PacketType
  <2> QED
    BY <1>1, <2>1, <2>2
<1>4. /\ split.ok <=> held = 1..np
      /\ DOMAIN split.pieces = held
      /\ \A k \in held : split.pieces[k] = piece(k)
  <2>1. split = [ok |-> held = 1..np, pieces |-> [k \in held |-> piece(k)]]
    <3>1. h.packets = p /\ DOMAIN p = 1..np
      BY <1>1, <1>2
    <3> HIDE DEF p, np
    <3> QED
      BY <3>1 DEF Split, PieceAt
  <2> HIDE DEF split, held, piece
  <2> QED
    BY <2>1
<1> HIDE DEF h, p, np, ni, at, split
<1>5. PICK m \in 0..np : held = 1..m
  <2>1. held \in SUBSET (1..np) /\ \A i \in held : \A j \in 1..i : j \in held
    BY <1>2
  <2> HIDE DEF held
  <2> QED
    BY <1>2, <2>1, FirstOnes
<1>6. \A k \in 1..m : at[k] + p[k].length <= SectorSize /\ k \in 1..np /\ k + 1 \in 1..(np + 1)
  BY <1>2, <1>5
<1>7. m < np => at[m + 1] + p[m + 1].length > SectorSize
  <2> SUFFICES ASSUME m < np PROVE at[m + 1] + p[m + 1].length > SectorSize
    OBVIOUS
  <2>1. m + 1 \in 1..np /\ m + 1 \notin held
    <3> HIDE DEF held
    <3> QED
      BY <1>2, <1>5
  <2>2. PICK j \in 1..(m + 1) : ~(at[j] + p[j].length <= SectorSize)
    BY <2>1
  <2>3. j = m + 1
    BY <1>6, <2>2
  <2>4. at[m + 1] \in Nat /\ p[m + 1].length \in Nat /\ SectorSize \in Nat
    BY <1>2, <1>3, <2>1, SectorSizeAssumption
  <2> QED
    BY <2>2, <2>3, <2>4
<1> HIDE DEF held
<1> DEFINE pieces == split.pieces
<1>8. DOMAIN pieces = 1..m /\ Cardinality(DOMAIN pieces) = m /\ \A k \in 1..m : pieces[k] = piece(k)
  <2>1. Cardinality(1..m) = m
    BY <1>2, FS_Interval
  <2> HIDE DEF piece
  <2> QED
    BY <1>4, <1>5, <2>1
<1>9. ASSUME NEW k \in 1..(m + 1), k <= np
      PROVE  at[k] = IF k = 1 THEN Len(EncodeSector(s)) ELSE pieces[k - 1].from + p[k - 1].length
  <2>1. CASE k = 1
    BY <1>3, <2>1
  <2>2. CASE k # 1
    <3>1. k - 1 \in 1..m /\ k - 1 \in 1..np /\ (k - 1) + 1 = k
      BY <1>2, <2>2
    <3>2. pieces[k - 1].from = at[k - 1]
      <4>1. pieces[k - 1] = piece(k - 1)
        BY <1>8, <3>1
      <4>2. piece(k - 1).from = at[k - 1]
        BY DEF PieceAt
      <4> QED
        BY <4>1, <4>2
    <3> QED
      BY <1>3, <2>2, <3>1, <3>2
  <2> QED
    BY <2>1, <2>2
<1> DEFINE starts == {k \in DOMAIN p : p[k].start /\ p[k].type = 2}
           rank(k) == Cardinality({i \in starts : i <= k})
<1>10. ASSUME NEW k \in 1..m
       PROVE  /\ pieces[k].packet = p[k] /\ pieces[k].from = at[k]
              /\ IF k \in starts /\ rank(k) <= ni
                 THEN LET info == pieces[k].info[1]
                      IN  /\ pieces[k].info # <<>> /\ info.time = s.infos[rank(k)].time
                          /\ info.count = IF s.dst THEN s.infos[rank(k)].count ELSE 0
                 ELSE pieces[k].info = <<>>
  <2> DEFINE first == {j \in 1..k : p[j].start /\ p[j].type = 2}
             r == Cardinality(first)
  <2>1. first = {i \in starts : i <= k} /\ (k \in first <=> k \in starts)
    BY <1>2, <1>6
  <2>2. k \in first => r \in Nat \ {0}
    <3>1. IsFiniteSet(1..k)
      BY <1>5, FS_Interval
    <3>2. first \subseteq 1..k
      OBVIOUS
    <3> HIDE DEF first
    <3>3. IsFiniteSet(first)
      BY <3>1, <3>2, FS_Subset
    <3> QED
      BY <3>3, FS_CardinalityType, FS_EmptySet
  <2> HIDE DEF first, starts
  <2>3. pieces[k].packet = p[k] /\ pieces[k].from = at[k]
        /\ pieces[k].info = IF k \in first /\ r <= ni THEN <<h.infos[r]>> ELSE <<>>
    <3>1. pieces[k] = piece(k)
      BY <1>8
    <3>2. piece(k) = [packet |-> p[k], from |-> at[k],
                      info |-> IF k \in first /\ r <= ni THEN <<h.infos[r]>> ELSE <<>>]
      BY <1>1 DEF PieceAt, first
    <3> HIDE DEF pieces, piece
    <3> QED
      BY <3>1, <3>2
  <2>4. rank(k) = r
    BY <2>1
  <2> HIDE DEF rank, r, pieces
  <2>5. CASE k \in starts /\ rank(k) <= ni
    <3>1. r \in 1..ni /\ pieces[k].info = <<h.infos[r]>>
      BY <1>2, <2>1, <2>2, <2>3, <2>4, <2>5
    <3> DEFINE i == h.infos[r]
    <3>2. i.time = s.infos[r].time /\ i.count = IF s.dst THEN s.infos[r].count ELSE 0
      BY <1>1, <3>1
    <3> HIDE DEF i
    <3>3. pieces[k].info = <<i>> /\ pieces[k].info[1] = i /\ pieces[k].info # <<>>
      BY <3>1 DEF i
    <3> QED
      BY <2>3, <2>4, <2>5, <3>2, <3>3
  <2>6. CASE ~(k \in starts /\ rank(k) <= ni)
    BY <2>1, <2>3, <2>4, <2>6
  <2> QED
    BY <2>5, <2>6
<1>11. m <= np /\ m \in Nat /\ (split.ok <=> m = np)
  <2>1. m \in Nat /\ m <= np
    BY <1>2
  <2>2. 1..m = 1..np <=> m = np
    <3>1. m \in 1..m \/ m = 0
      BY <2>1
    <3>2. np \in 1..np \/ np = 0
      BY <1>2
    <3> QED
      BY <1>2, <2>1, <3>1, <3>2
  <2> QED
    BY <1>4, <1>5, <2>1, <2>2
<1> HIDE DEF starts, rank, pieces, piece
<1>12. /\ m < np => at[m + 1] = IF m + 1 = 1 THEN Len(EncodeSector(s)) ELSE pieces[(m + 1) - 1].from + p[(m + 1) - 1].length
       /\ \A k \in 1..m : at[k] = IF k = 1 THEN Len(EncodeSector(s)) ELSE pieces[k - 1].from + p[k - 1].length
  <2>1. m + 1 \in 1..(m + 1) /\ (m < np => m + 1 <= np) /\ \A k \in 1..m : k \in 1..(m + 1) /\ k <= np
    BY <1>2, <1>11
  <2> QED
    BY <1>9, <2>1
<1> DEFINE place(k) == IF k = 1 THEN Len(EncodeSector(s)) ELSE pieces[k - 1].from + p[k - 1].length
           n == Cardinality(DOMAIN pieces)
<1>13. /\ n <= np /\ DOMAIN pieces = 1..n
       /\ split.ok <=> n = np
       /\ n < np => place(n + 1) + p[n + 1].length > SectorSize
       /\ \A k \in 1..n :
             /\ pieces[k].packet = p[k]
             /\ pieces[k].from = place(k) /\ place(k) + p[k].length <= SectorSize
             /\ IF k \in starts /\ rank(k) <= ni
                THEN LET info == pieces[k].info[1]
                     IN  /\ pieces[k].info # <<>> /\ info.time = s.infos[rank(k)].time
                         /\ info.count = IF s.dst THEN s.infos[rank(k)].count ELSE 0
                ELSE pieces[k].info = <<>>
  <2>1. n = m
    BY <1>8
  <2>2. /\ m < np => at[m + 1] = place(m + 1)
        /\ \A k \in 1..m : at[k] = place(k)
    BY <1>12
  <2> HIDE DEF place, n
  <2>3. \A k \in 1..m : pieces[k].from = place(k) /\ place(k) + p[k].length <= SectorSize
    BY <1>6, <1>10, <2>2
  <2>4. m < np => place(m + 1) + p[m + 1].length > SectorSize
    BY <1>7, <2>2
  <2>5. DOMAIN pieces = 1..m
    BY <1>8
  <2> QED
    BY <1>10, <1>11, <2>1, <2>3, <2>4, <2>5
<1> HIDE DEF place, n
<1> QED
  BY <1>13 DEF IsSplit, place, n, starts, rank, pieces, split, p, np, ni

\* Every sector that the header can describe is cut into its packets, each read
\* from where it lies and with its own frame's info; it is refused only where
\* its packets do not fit (audio.rs 252-330, 384-388).
THEOREM SectorsAreSplit == Spec => []SectorIsSplit
<1>1. DecodersInv => SectorIsSplit
  <2> SUFFICES ASSUME DecodersInv, output.done, "sector" \in DOMAIN input
               PROVE  IsSplit(input.sector, output.split)
    BY DEF SectorIsSplit, IsSplit
  <2>1. input.sector \in Sectors /\ output = OfSector(input.sector)
    BY SectorRead
  <2>2. output.split = Split(EncodeSector(input.sector))
    BY <2>1 DEF OfSector
  <2> QED
    BY <2>1, <2>2, SplitSector
<1> QED
  BY <1>1, DecodersAlways, PTL

-----------------------------------------------------------------------------
(* The frames of a tag *)

\* The place of a frame's kind among those of a tag.
Rank(f) ==
    CASE f.id = "TIT2" -> 1
      [] f.id = "TALB" -> 2
      [] f.id = "TXXX" /\ f.name = "DISCSUBTITLE" -> 3
      [] f.id = "TPE1" -> 4
      [] f.id = "TPE2" -> 5
      [] f.id = "TXXX" /\ f.name = "PERFORMER" -> 6
      [] f.id = "TCOM" -> 7
      [] f.id = "TXXX" /\ f.name = "Catalog Number" -> 8
      [] f.id = "TXXX" /\ f.name = "Album Catalog Number" -> 9
      [] f.id = "TSRC" -> 10
      [] f.id = "TPOS" -> 11
      [] f.id = "TCON" -> 12
      [] f.id = "TYER" -> 13
      [] f.id = "TDAT" -> 14
      [] f.id = "TRCK" -> 15

\* Frames of the kinds behind the a-th up to the b-th, in the order of their
\* kinds: no kind twice.
Ordered(u, a, b) ==
    /\ \A i \in DOMAIN u : Rank(u[i]) \in (a + 1)..b
    /\ \A i, j \in DOMAIN u : i < j => Rank(u[i]) < Rank(u[j])

\* What is found in w is what is found in u or in v.
Joined(w, u, v) == \A id, names : Values(w, id, names) = Values(u, id, names) \cup Values(v, id, names)

\* Frames behind frames of earlier kinds.
LEMMA JoinFrames ==
    ASSUME NEW S, NEW u \in Seq(S), NEW v \in Seq(S), NEW a \in Nat, NEW b \in Nat, NEW c \in Nat,
           a <= b, b <= c, Ordered(u, a, b), Ordered(v, b, c)
    PROVE  u \o v \in Seq(S) /\ Ordered(u \o v, a, c) /\ Joined(u \o v, u, v)
<1> DEFINE w == u \o v
           m == Len(u)
           n == Len(v)
<1>1. /\ w \in Seq(S) /\ Len(w) = m + n /\ m \in Nat /\ n \in Nat
      /\ \A k \in 1..m : w[k] = u[k]
      /\ \A k \in 1..n : w[m + k] = v[k]
  BY ConcatElements
<1>2. DOMAIN w = 1..(m + n) /\ DOMAIN u = 1..m /\ DOMAIN v = 1..n
  <2> HIDE DEF w
  <2> QED
    BY <1>1, LenProperties
<1> HIDE DEF w, m, n
<1>3. \A i \in 1..(m + n) : i \in 1..m \/ (i - m \in 1..n /\ w[i] = v[i - m])
  <2> TAKE i \in 1..(m + n)
  <2> SUFFICES ASSUME i \notin 1..m PROVE i - m \in 1..n /\ w[i] = v[i - m]
    OBVIOUS
  <2>1. i - m \in 1..n /\ m + (i - m) = i
    BY <1>1
  <2> QED
    BY <1>1, <2>1
<1>4. Ordered(w, a, c)
  <2>1. \A i \in 1..m : Rank(u[i]) \in (a + 1)..b
    BY <1>2 DEF Ordered
  <2>2. \A i \in 1..n : Rank(v[i]) \in (b + 1)..c
    BY <1>2 DEF Ordered
  <2>3. ASSUME NEW i \in 1..(m + n) PROVE Rank(w[i]) \in (a + 1)..c
    <3>1. CASE i \in 1..m
      <4>1. w[i] = u[i] /\ Rank(u[i]) \in (a + 1)..b
        BY <1>1, <2>1, <3>1
      <4> QED
        BY <4>1
    <3>2. CASE i \notin 1..m
      <4>1. w[i] = v[i - m] /\ Rank(v[i - m]) \in (b + 1)..c
        BY <1>3, <2>2, <3>2
      <4> QED
        BY <4>1
    <3> QED
      BY <3>1, <3>2
  <2>4. ASSUME NEW i \in 1..(m + n), NEW j \in 1..(m + n), i < j PROVE Rank(w[i]) < Rank(w[j])
    <3>1. CASE j \in 1..m
      <4>1. i \in 1..m /\ w[i] = u[i] /\ w[j] = u[j]
        BY <1>1, <2>4, <3>1
      <4> QED
        BY <1>2, <2>4, <3>1, <4>1 DEF Ordered
    <3>2. CASE i \in 1..m /\ j \notin 1..m
      <4>1. w[i] = u[i] /\ Rank(u[i]) \in (a + 1)..b
        BY <1>1, <2>1, <3>2
      <4>2. w[j] = v[j - m] /\ Rank(v[j - m]) \in (b + 1)..c
        BY <1>3, <2>2, <3>2
      <4> QED
        BY <4>1, <4>2
    <3>3. CASE i \notin 1..m
      <4>1. j \notin 1..m
        BY <1>1, <2>4, <3>3
      <4>2. /\ i - m \in 1..n /\ w[i] = v[i - m]
            /\ j - m \in 1..n /\ w[j] = v[j - m]
        BY <1>3, <3>3, <4>1
      <4>3. i - m < j - m
        BY <1>1, <2>4
      <4> QED
        BY <1>2, <4>2, <4>3 DEF Ordered
    <3> QED
      BY <3>1, <3>2, <3>3
  <2> QED
    BY <1>2, <2>3, <2>4 DEF Ordered
<1>5. ASSUME NEW id, NEW names
      PROVE  Values(w, id, names) = Values(u, id, names) \cup Values(v, id, names)
  <2> DEFINE fits(f) == f.id = id /\ f.name \in names
  <2>1. /\ Values(w, id, names) = {w[i].value : i \in {k \in 1..(m + n) : fits(w[k])}}
        /\ Values(u, id, names) = {u[i].value : i \in {k \in 1..m : fits(u[k])}}
        /\ Values(v, id, names) = {v[i].value : i \in {k \in 1..n : fits(v[k])}}
    BY <1>2 DEF Values
  <2> HIDE DEF fits
  <2>2. ASSUME NEW x \in Values(w, id, names) PROVE x \in Values(u, id, names) \cup Values(v, id, names)
    <3>1. PICK i \in 1..(m + n) : fits(w[i]) /\ x = w[i].value
      BY <2>1
    <3>2. CASE i \in 1..m
      BY <1>1, <2>1, <3>1, <3>2
    <3>3. CASE i \notin 1..m
      BY <1>3, <2>1, <3>1, <3>3
    <3> QED
      BY <3>2, <3>3
  <2>3. ASSUME NEW x \in Values(u, id, names) PROVE x \in Values(w, id, names)
    <3>1. PICK i \in 1..m : fits(u[i]) /\ x = u[i].value
      BY <2>1
    <3>2. i \in 1..(m + n) /\ w[i] = u[i]
      BY <1>1
    <3> QED
      BY <2>1, <3>1, <3>2
  <2>4. ASSUME NEW x \in Values(v, id, names) PROVE x \in Values(w, id, names)
    <3>1. PICK i \in 1..n : fits(v[i]) /\ x = v[i].value
      BY <2>1
    <3>2. m + i \in 1..(m + n) /\ w[m + i] = v[i]
      BY <1>1
    <3> QED
      BY <2>1, <3>1, <3>2
  <2> QED
    BY <2>2, <2>3, <2>4
<1> QED
  BY <1>1, <1>4, <1>5 DEF w, Joined

\* What is found in a frame, and in none.
\* What one frame says, and none.
LEMMA FrameValues ==
    ASSUME NEW f, NEW id, NEW names
    PROVE  /\ Values(<<f>>, id, names) = IF f.id = id /\ f.name \in names THEN {f.value} ELSE {}
           /\ Values(<<>>, id, names) = {}
<1>1. DOMAIN <<f>> = {1} /\ <<f>>[1] = f /\ DOMAIN <<>> = {}
  OBVIOUS
<1> QED
  BY <1>1 DEF Values

\* Frames in order have no two by the same name.
LEMMA OrderedDistinct ==
    ASSUME NEW S, NEW u \in Seq(S), NEW a \in Nat, NEW b \in Nat, Ordered(u, a, b)
    PROVE  \A i, j \in DOMAIN u : i # j => <<u[i].id, u[i].name>> # <<u[j].id, u[j].name>>
<1> SUFFICES ASSUME NEW i \in DOMAIN u, NEW j \in DOMAIN u, i # j, u[i].id = u[j].id, u[i].name = u[j].name
             PROVE  FALSE
  OBVIOUS
<1>1. Rank(u[i]) = Rank(u[j])
  BY DEF Rank
<1>2. Rank(u[i]) \in Int
  BY DEF Ordered
<1>3. i \in Int /\ j \in Int
  BY LenProperties
<1>4. i < j \/ j < i
  BY <1>3
<1> QED
  BY <1>1, <1>2, <1>4 DEF Ordered

\* The names of the catalog numbers' frames.
DiscNumber  == "Catalog Number"
AlbumNumber == "Album Catalog Number"

\* What is asked of a tag: album, disc, catalog numbers, artist.
Asked == {[id |-> "TALB", names |-> {""}],
          [id |-> "TXXX", names |-> {"DISCSUBTITLE"}],
          [id |-> "TXXX", names |-> {DiscNumber}],
          [id |-> "TXXX", names |-> {DiscNumber, AlbumNumber}],
          [id |-> "TPE1", names |-> {""}]}

\* The two catalog numbers go by different names, and no other frame by theirs.
LEMMA NumbersDiffer ==
    /\ DiscNumber # AlbumNumber
    /\ DiscNumber \notin {"", "DISCSUBTITLE", "PERFORMER"} /\ AlbumNumber \notin {"", "DISCSUBTITLE", "PERFORMER"}
BY Zenon DEF DiscNumber, AlbumNumber

\* What the frames of u answer to a question, and frames that answer none.
Answers(u, q) == Values(u, q.id, q.names)
Silent(u) == \A q \in Asked : Answers(u, q) = {}

\* Each question is one of the five.
LEMMA AskedIs ==
    ASSUME NEW q \in Asked
    PROVE  \/ q.id = "TALB" /\ q.names = {""}
           \/ q.id = "TXXX" /\ q.names = {"DISCSUBTITLE"}
           \/ q.id = "TXXX" /\ q.names = {DiscNumber}
           \/ q.id = "TXXX" /\ q.names = {DiscNumber, AlbumNumber}
           \/ q.id = "TPE1" /\ q.names = {""}
<1> DEFINE a == [id |-> "TALB", names |-> {""}]
           b == [id |-> "TXXX", names |-> {"DISCSUBTITLE"}]
           c == [id |-> "TXXX", names |-> {DiscNumber}]
           d == [id |-> "TXXX", names |-> {DiscNumber, AlbumNumber}]
           e == [id |-> "TPE1", names |-> {""}]
<1>1. /\ a.id = "TALB" /\ a.names = {""}
      /\ b.id = "TXXX" /\ b.names = {"DISCSUBTITLE"}
      /\ c.id = "TXXX" /\ c.names = {DiscNumber}
      /\ d.id = "TXXX" /\ d.names = {DiscNumber, AlbumNumber}
      /\ e.id = "TPE1" /\ e.names = {""}
  OBVIOUS
<1>2. q \in {a, b, c, d, e}
  BY DEF Asked
<1> HIDE DEF a, b, c, d, e
<1> QED
  BY <1>1, <1>2

\* Frames of the kinds behind the a-th up to the b-th, and a frame of those kinds.
Part(S, u, a, b)    == u \in Seq(S) /\ a \in Nat /\ b \in Nat /\ a <= b /\ Ordered(u, a, b)
FrameOf(S, f, a, b) == f \in S /\ a \in Nat /\ b \in Nat /\ a <= b /\ Rank(f) \in (a + 1)..b

\* A frame alone, or none, is in order.
LEMMA OneFrame ==
    ASSUME NEW S, NEW f, NEW a, NEW b, FrameOf(S, f, a, b)
    PROVE  Part(S, <<f>>, a, b) /\ Part(S, <<>>, a, b)
<1>1. DOMAIN <<f>> = {1} /\ <<f>>[1] = f /\ DOMAIN <<>> = {}
  OBVIOUS
<1>2. <<f>> \in Seq(S) /\ <<>> \in Seq(S)
  BY DEF FrameOf
<1>3. Ordered(<<f>>, a, b) /\ Ordered(<<>>, a, b)
  BY <1>1 DEF FrameOf, Ordered
<1> QED
  BY <1>2, <1>3 DEF FrameOf, Part

\* A part may have no frame.
LEMMA NoFrame ==
    ASSUME NEW S, NEW a \in Nat, NEW b \in Nat, a <= b
    PROVE  Part(S, <<>>, a, b)
<1>1. <<>> \in Seq(S) /\ DOMAIN <<>> = {}
  OBVIOUS
<1> QED
  BY <1>1 DEF Part, Ordered

\* One frame answers the question it is asked for, none answers nothing.
LEMMA FrameAnswers ==
    ASSUME NEW f, NEW q
    PROVE  /\ Answers(<<f>>, q) = IF f.id = q.id /\ f.name \in q.names THEN {f.value} ELSE {}
           /\ Answers(<<>>, q) = {}
<1> DEFINE id == q.id
           names == q.names
<1> HIDE DEF id, names
<1>1. /\ Values(<<f>>, id, names) = IF f.id = id /\ f.name \in names THEN {f.value} ELSE {}
      /\ Values(<<>>, id, names) = {}
  BY FrameValues
<1> QED
  BY <1>1 DEF Answers, id, names

\* Nothing is asked of the other frames.
LEMMA SilentPart ==
    ASSUME NEW S, NEW f, NEW p, p = <<f>> \/ p = <<>>, NEW a, NEW b, FrameOf(S, f, a, b),
           f.id \notin {"TALB", "TXXX", "TPE1"} \/ f.name = "PERFORMER"
    PROVE  Part(S, p, a, b) /\ Silent(p)
<1>1. Part(S, p, a, b)
  BY OneFrame
<1>2. ASSUME NEW q \in Asked PROVE Answers(p, q) = {}
  <2>1. ~(f.id = q.id /\ f.name \in q.names)
    BY AskedIs, NumbersDiffer
  <2> QED
    BY <2>1, FrameAnswers
<1> QED
  BY <1>1, <1>2 DEF Silent

\* What is answered in w is what is answered in u or in v.
Adds(w, u, v) == \A q : Answers(w, q) = Answers(u, q) \cup Answers(v, q)

\* Parts of a tag in the order of their kinds make a part of a tag.
LEMMA JoinParts ==
    ASSUME NEW S, NEW u, NEW v, NEW a, NEW b, NEW c, Part(S, u, a, b), Part(S, v, b, c)
    PROVE  Part(S, u \o v, a, c) /\ Adds(u \o v, u, v)
<1>1. /\ u \in Seq(S) /\ v \in Seq(S) /\ Ordered(u, a, b) /\ Ordered(v, b, c)
      /\ a \in Nat /\ b \in Nat /\ c \in Nat /\ a <= b /\ b <= c /\ a <= c
  BY DEF Part
<1>2. u \o v \in Seq(S) /\ Ordered(u \o v, a, c) /\ Joined(u \o v, u, v)
  BY <1>1, JoinFrames
<1>3. Part(S, u \o v, a, c)
  BY <1>1, <1>2 DEF Part
<1>4. Adds(u \o v, u, v)
  <2> DEFINE w == u \o v
  <2>1. \A id, names : Values(w, id, names) = Values(u, id, names) \cup Values(v, id, names)
    BY <1>2 DEF Joined
  <2> HIDE DEF w
  <2>2. ASSUME NEW q PROVE Answers(w, q) = Answers(u, q) \cup Answers(v, q)
    BY <2>1 DEF Answers
  <2>3. Adds(w, u, v)
    BY <2>2 DEF Adds
  <2> QED
    BY <2>3 DEF w
<1> QED
  BY <1>3, <1>4

\* Silent frames add nothing.
Keeps(w, u) == \A q \in Asked : Answers(w, q) = Answers(u, q)

\* Silent frames in their place make a part of a tag with the same answers.
LEMMA JoinSilent ==
    ASSUME NEW S, NEW u, NEW v, NEW a, NEW b, NEW c, Part(S, u, a, b), Part(S, v, b, c), Silent(v)
    PROVE  /\ Part(S, u \o v, a, c)
           /\ Keeps(u \o v, u)
<1>1. Part(S, u \o v, a, c) /\ Adds(u \o v, u, v)
  BY JoinParts
<1> QED
  BY <1>1 DEF Adds, Keeps, Silent

\* What the frames on album and disc answer.
AlbumAnswer(album, disc, size, q) ==
    IF q.id = "TALB" THEN {IF album # None THEN album ELSE disc} \ {None}
    ELSE IF /\ q.id = "TXXX" /\ q.names = {"DISCSUBTITLE"}
            /\ album # None /\ disc # None /\ (disc # album \/ size > 1)
         THEN {disc} ELSE {}

\* TALB and DISCSUBTITLE.
LEMMA AlbumPart ==
    ASSUME NEW S, NEW album, NEW disc, NEW size,
           Text("TALB", album) \in S, Text("TALB", disc) \in S, Txxx("DISCSUBTITLE", disc) \in S
    PROVE  /\ Part(S, AlbumFrames(album, disc, size), 1, 3)
           /\ \A q \in Asked : Answers(AlbumFrames(album, disc, size), q) = AlbumAnswer(album, disc, size, q)
<1> DEFINE fa == Text("TALB", album)
           fs == Txxx("DISCSUBTITLE", disc)
           fd == Text("TALB", disc)
           sub == album # None /\ disc # None /\ (disc # album \/ size > 1)
           p == IF album # None THEN <<fa>> ELSE <<>>
           r == IF sub THEN <<fs>> ELSE <<>>
           t == IF album = None /\ disc # None THEN <<fd>> ELSE <<>>
           u == p \o r
           w == u \o t
<1>1. /\ fa.id = "TALB" /\ fa.name = "" /\ fa.value = album
      /\ fd.id = "TALB" /\ fd.name = "" /\ fd.value = disc
      /\ fs.id = "TXXX" /\ fs.name = "DISCSUBTITLE" /\ fs.value = disc
      /\ fa \in S /\ fd \in S /\ fs \in S
  BY DEF Text, Txxx
<1>2. AlbumFrames(album, disc, size) = w
  BY DEF AlbumFrames, If
<1> HIDE DEF fa, fs, fd
<1>3. FrameOf(S, fa, 1, 2) /\ FrameOf(S, fd, 1, 3) /\ FrameOf(S, fs, 2, 3)
  <2>1. Rank(fa) = 2 /\ Rank(fd) = 2 /\ Rank(fs) = 3
    BY <1>1 DEF Rank
  <2> HIDE DEF sub, p, r, t, u, w
  <2>2. Rank(fa) \in (1 + 1)..2 /\ Rank(fd) \in (1 + 1)..3 /\ Rank(fs) \in (2 + 1)..3
    BY <2>1
  <2>3. 1 \in Nat /\ 2 \in Nat /\ 3 \in Nat /\ 1 <= 2 /\ 1 <= 3 /\ 2 <= 3
    OBVIOUS
  <2> QED
    BY <1>1, <2>2, <2>3, Zenon DEF FrameOf
<1>4. ASSUME album # None
      PROVE  Part(S, w, 1, 3) /\ \A q : Answers(w, q) = (Answers(p, q) \cup Answers(r, q)) \cup Answers(t, q)
  <2>1. Part(S, p, 1, 2) /\ Part(S, r, 2, 3) /\ Part(S, t, 3, 3)
    <3>1. Part(S, <<fa>>, 1, 2) /\ Part(S, <<fs>>, 2, 3) /\ Part(S, <<>>, 2, 3)
      BY <1>3, OneFrame
    <3>2. Part(S, <<>>, 3, 3)
      BY NoFrame
    <3> QED
      BY <1>4, <3>1, <3>2
  <2> HIDE DEF p, r, t
  <2>2. Part(S, u, 1, 3) /\ Adds(u, p, r)
    BY <2>1, JoinParts
  <2> HIDE DEF u
  <2>3. Part(S, w, 1, 3) /\ Adds(w, u, t)
    BY <2>1, <2>2, JoinParts
  <2> HIDE DEF w
  <2> QED
    BY <2>2, <2>3 DEF Adds
<1>5. ASSUME album = None
      PROVE  Part(S, w, 1, 3) /\ \A q : Answers(w, q) = (Answers(p, q) \cup Answers(r, q)) \cup Answers(t, q)
  <2>1. Part(S, p, 1, 1) /\ Part(S, r, 1, 1) /\ Part(S, t, 1, 3)
    <3>1. Part(S, <<fd>>, 1, 3) /\ Part(S, <<>>, 1, 3)
      BY <1>3, OneFrame
    <3>2. Part(S, <<>>, 1, 1)
      BY NoFrame
    <3> QED
      BY <1>5, <3>1, <3>2
  <2> HIDE DEF p, r, t
  <2>2. Part(S, u, 1, 1) /\ Adds(u, p, r)
    BY <2>1, JoinParts
  <2> HIDE DEF u
  <2>3. Part(S, w, 1, 3) /\ Adds(w, u, t)
    BY <2>1, <2>2, JoinParts
  <2> HIDE DEF w
  <2> QED
    BY <2>2, <2>3 DEF Adds
<1> HIDE DEF w, u
<1>6. Part(S, w, 1, 3) /\ \A q : Answers(w, q) = (Answers(p, q) \cup Answers(r, q)) \cup Answers(t, q)
  BY <1>4, <1>5
<1>7. ASSUME NEW q \in Asked PROVE Answers(w, q) = AlbumAnswer(album, disc, size, q)
  <2> HIDE DEF sub
  <2>1. Answers(p, q) = IF album # None /\ q.id = "TALB" /\ "" \in q.names THEN {album} ELSE {}
    <3>1. (album # None) => p = <<fa>>
      OBVIOUS
    <3>2. ~(album # None) => p = <<>>
      OBVIOUS
    <3> HIDE DEF p, r, t
    <3> QED
      BY <1>1, <3>1, <3>2, FrameAnswers
  <2>2. Answers(r, q) = IF sub /\ q.id = "TXXX" /\ "DISCSUBTITLE" \in q.names THEN {disc} ELSE {}
    <3>1. (sub) => r = <<fs>>
      OBVIOUS
    <3>2. ~(sub) => r = <<>>
      OBVIOUS
    <3> HIDE DEF p, r, t
    <3> QED
      BY <1>1, <3>1, <3>2, FrameAnswers
  <2>3. Answers(t, q) = IF album = None /\ disc # None /\ q.id = "TALB" /\ "" \in q.names THEN {disc} ELSE {}
    <3>1. (album = None /\ disc # None) => t = <<fd>>
      OBVIOUS
    <3>2. ~(album = None /\ disc # None) => t = <<>>
      OBVIOUS
    <3> HIDE DEF p, r, t
    <3> QED
      BY <1>1, <3>1, <3>2, FrameAnswers
  <2> HIDE DEF p, r, t
  <2>4. Answers(w, q) = (Answers(p, q) \cup Answers(r, q)) \cup Answers(t, q)
    BY <1>6
  <2>5. CASE q.id = "TALB"
    <3>1. q.names = {""}
      BY <2>5, AskedIs
    <3>2. AlbumAnswer(album, disc, size, q) = {IF album # None THEN album ELSE disc} \ {None}
      BY <2>5 DEF AlbumAnswer
    <3> QED
      BY <2>1, <2>2, <2>3, <2>4, <2>5, <3>1, <3>2
  <2>6. CASE q.id = "TXXX" /\ q.names = {"DISCSUBTITLE"}
    <3>1. AlbumAnswer(album, disc, size, q) = IF sub THEN {disc} ELSE {}
      BY <2>6 DEF AlbumAnswer, sub
    <3> QED
      BY <2>1, <2>2, <2>3, <2>4, <2>6, <3>1
  <2>7. CASE q.id # "TALB" /\ ~(q.id = "TXXX" /\ q.names = {"DISCSUBTITLE"})
    <3>1. ~(q.id = "TXXX" /\ "DISCSUBTITLE" \in q.names)
      BY <2>7, AskedIs, NumbersDiffer
    <3>2. AlbumAnswer(album, disc, size, q) = {}
      BY <2>7 DEF AlbumAnswer
    <3> QED
      BY <2>1, <2>2, <2>3, <2>4, <2>7, <3>1, <3>2
  <2> QED
    BY <2>5, <2>6, <2>7
<1> QED
  BY <1>2, <1>6, <1>7

\* What the catalog numbers' frames answer.
CatalogAnswer(disc, album, q) ==
    IF q.id # "TXXX" \/ DiscNumber \notin q.names THEN {}
    ELSE IF AlbumNumber \in q.names THEN {disc, album} \ {None}
    ELSE {IF disc # None THEN disc ELSE album} \ {None}

\* The two catalog numbers.
LEMMA CatalogPart ==
    ASSUME NEW S, NEW disc, NEW album, Txxx(DiscNumber, disc) \in S,
           Txxx(DiscNumber, album) \in S, Txxx(AlbumNumber, album) \in S
    PROVE  /\ Part(S, CatalogFrames(disc, album), 7, 9)
           /\ \A q \in Asked : Answers(CatalogFrames(disc, album), q) = CatalogAnswer(disc, album, q)
<1> DEFINE fd == Txxx(DiscNumber, disc)
           fa == Txxx(DiscNumber, album)
           fs == Txxx(AlbumNumber, album)
           p == IF disc # None THEN <<fd>> ELSE <<>>
           r == IF album # None /\ disc = None THEN <<fa>> ELSE <<>>
           t == IF album # None /\ disc # None /\ album # disc THEN <<fs>> ELSE <<>>
           u == p \o r
           w == u \o t
<1>1. /\ fd.id = "TXXX" /\ fd.name = DiscNumber /\ fd.value = disc
      /\ fa.id = "TXXX" /\ fa.name = DiscNumber /\ fa.value = album
      /\ fs.id = "TXXX" /\ fs.name = AlbumNumber /\ fs.value = album
      /\ fa \in S /\ fd \in S /\ fs \in S
  BY DEF Txxx
<1>2. CatalogFrames(disc, album) = w
  BY Zenon DEF CatalogFrames, If, DiscNumber, AlbumNumber
<1> HIDE DEF fa, fs, fd
<1>3. FrameOf(S, fd, 7, 8) /\ FrameOf(S, fa, 7, 8) /\ FrameOf(S, fs, 8, 9)
  <2>1. Rank(fd) = 8 /\ Rank(fa) = 8 /\ Rank(fs) = 9
    BY <1>1, Zenon DEF Rank, DiscNumber, AlbumNumber
  <2> HIDE DEF p, r, t, u, w
  <2>2. Rank(fd) \in (7 + 1)..8 /\ Rank(fa) \in (7 + 1)..8 /\ Rank(fs) \in (8 + 1)..9
    BY <2>1
  <2>3. 7 \in Nat /\ 8 \in Nat /\ 9 \in Nat /\ 7 <= 8 /\ 8 <= 9
    OBVIOUS
  <2> QED
    BY <1>1, <2>2, <2>3, Zenon DEF FrameOf
<1>4. ASSUME disc # None PROVE Part(S, w, 7, 9) /\ Adds(u, p, r) /\ Adds(w, u, t)
  <2>1. Part(S, p, 7, 8) /\ Part(S, r, 8, 8) /\ Part(S, t, 8, 9)
    <3>1. Part(S, <<fd>>, 7, 8) /\ Part(S, <<fs>>, 8, 9) /\ Part(S, <<>>, 8, 9)
      BY <1>3, OneFrame
    <3>2. Part(S, <<>>, 8, 8)
      BY NoFrame
    <3> QED
      BY <1>4, <3>1, <3>2
  <2> HIDE DEF p, r, t
  <2>2. Part(S, u, 7, 8) /\ Adds(u, p, r)
    BY <2>1, JoinParts
  <2> HIDE DEF u
  <2>3. Part(S, w, 7, 9) /\ Adds(w, u, t)
    BY <2>1, <2>2, JoinParts
  <2> QED
    BY <2>2, <2>3
<1>5. ASSUME disc = None PROVE Part(S, w, 7, 9) /\ Adds(u, p, r) /\ Adds(w, u, t)
  <2>1. Part(S, p, 7, 7) /\ Part(S, r, 7, 8) /\ Part(S, t, 8, 9)
    <3>1. Part(S, <<fa>>, 7, 8) /\ Part(S, <<>>, 7, 8) /\ Part(S, <<>>, 8, 9)
      BY <1>3, OneFrame
    <3>2. Part(S, <<>>, 7, 7)
      BY NoFrame
    <3> QED
      BY <1>5, <3>1, <3>2
  <2> HIDE DEF p, r, t
  <2>2. Part(S, u, 7, 8) /\ Adds(u, p, r)
    BY <2>1, JoinParts
  <2> HIDE DEF u
  <2>3. Part(S, w, 7, 9) /\ Adds(w, u, t)
    BY <2>1, <2>2, JoinParts
  <2> QED
    BY <2>2, <2>3
<1> HIDE DEF w, u
<1>6. Part(S, w, 7, 9) /\ \A q : Answers(w, q) = (Answers(p, q) \cup Answers(r, q)) \cup Answers(t, q)
  <2> HIDE DEF p, r, t
  <2> QED
    BY <1>4, <1>5 DEF Adds
<1>7. ASSUME NEW q \in Asked PROVE Answers(w, q) = CatalogAnswer(disc, album, q)
  <2>1. Answers(p, q) = IF disc # None /\ q.id = "TXXX" /\ DiscNumber \in q.names THEN {disc} ELSE {}
    <3>1. (disc # None => p = <<fd>>) /\ (disc = None => p = <<>>)
      OBVIOUS
    <3> HIDE DEF p, r, t
    <3> QED
      BY <1>1, <3>1, FrameAnswers
  <2>2. Answers(r, q) = IF album # None /\ disc = None /\ q.id = "TXXX" /\ DiscNumber \in q.names
                        THEN {album} ELSE {}
    <3>1. /\ (album # None /\ disc = None) => r = <<fa>>
          /\ ~(album # None /\ disc = None) => r = <<>>
      OBVIOUS
    <3> HIDE DEF p, r, t
    <3> QED
      BY <1>1, <3>1, FrameAnswers
  <2>3. Answers(t, q) = IF /\ album # None /\ disc # None /\ album # disc
                           /\ q.id = "TXXX" /\ AlbumNumber \in q.names
                        THEN {album} ELSE {}
    <3>1. /\ (album # None /\ disc # None /\ album # disc) => t = <<fs>>
          /\ ~(album # None /\ disc # None /\ album # disc) => t = <<>>
      OBVIOUS
    <3> HIDE DEF p, r, t
    <3> QED
      BY <1>1, <3>1, FrameAnswers
  <2> HIDE DEF p, r, t
  <2>4. Answers(w, q) = (Answers(p, q) \cup Answers(r, q)) \cup Answers(t, q)
    BY <1>6
  <2>5. CASE q.id = "TXXX" /\ DiscNumber \in q.names
    BY <2>1, <2>2, <2>3, <2>4, <2>5 DEF CatalogAnswer
  <2>6. CASE ~(q.id = "TXXX" /\ DiscNumber \in q.names)
    <3>1. ~(q.id = "TXXX" /\ AlbumNumber \in q.names)
      BY <2>6, AskedIs, NumbersDiffer
    <3> QED
      BY <2>1, <2>2, <2>3, <2>4, <2>6, <3>1 DEF CatalogAnswer
  <2> QED
    BY <2>5, <2>6
<1> QED
  BY <1>2, <1>6, <1>7

\* TCON, if there is a genre.
LEMMA GenrePart ==
    ASSUME NEW track, NEW disc, NEW album, NEW names
    PROVE  \E v : GenreFrames(track, disc, album, names) \in {<<>>, <<Text("TCON", v)>>}
<1>1. \A c \in BOOLEAN : \A f : If(c, f) \in {<<>>, <<f>>}
  BY DEF If
<1> QED
  BY <1>1 DEF GenreFrames

\* What a tag says of album, disc, numbers and artist, the numbers being disc and album.
Unambiguous(tag, m, size, disc, album) ==
    /\ \A i, j \in DOMAIN tag : i # j => <<tag[i].id, tag[i].name>> # <<tag[j].id, tag[j].name>>
    /\ m.albumTitle # None => Values(tag, "TALB", {""}) = {m.albumTitle}
    /\ m.discTitle # None => m.discTitle \in Values(tag, "TALB", {""})
                                             \cup Values(tag, "TXXX", {"DISCSUBTITLE"})
    /\ (m.discTitle # None /\ m.albumTitle # None /\ size > 1) =>
         Values(tag, "TXXX", {"DISCSUBTITLE"}) = {m.discTitle}
    /\ Values(tag, "TXXX", {DiscNumber, AlbumNumber}) = {disc, album} \ {None}
    /\ disc # None => Values(tag, "TXXX", {DiscNumber}) = {disc}
    /\ m.albumArtist # None => Values(tag, "TPE1", {""}) # {}

\* The last three frames.
LEMMA DatePart ==
    ASSUME NEW S, NEW x \in S, NEW y \in S, NEW z \in S, x.id = "TYER", y.id = "TDAT", z.id = "TRCK"
    PROVE  Part(S, <<x, y, z>>, 12, 15) /\ Silent(<<x, y, z>>)
<1> DEFINE u == <<x, y, z>>
<1>1. u \in Seq(S) /\ DOMAIN u = {1, 2, 3} /\ u[1] = x /\ u[2] = y /\ u[3] = z
  OBVIOUS
<1>2. Rank(x) = 13 /\ Rank(y) = 14 /\ Rank(z) = 15
  BY Zenon DEF Rank
<1> HIDE DEF u
<1>3. Ordered(u, 12, 15)
  BY <1>1, <1>2 DEF Ordered
<1>4. Part(S, u, 12, 15)
  BY <1>1, <1>3 DEF Part
<1>5. ASSUME NEW q \in Asked PROVE Answers(u, q) = {}
  <2>1. x.id # q.id /\ y.id # q.id /\ z.id # q.id
    BY AskedIs
  <2> QED
    BY <1>1, <2>1 DEF Answers, Values
<1> QED
  BY <1>4, <1>5 DEF Silent, u

\* What render_id3 writes, whatever texts and TOCs it is given.
LEMMA RenderedTag ==
    ASSUME NEW texts, NEW m, NEW c
    PROVE  Unambiguous(RenderId3(texts, m, c), m, c.setSize, TrimToNul(c.discCatalog), TrimToNul(c.albumCatalog))
<1> DEFINE performer == Spelled(texts, Performer)
           artist == Or(performer, Or(m.discArtist, m.albumArtist))
           disc  == TrimToNul(c.discCatalog)
           album == TrimToNul(c.albumCatalog)
           A  == AlbumFrames(m.albumTitle, m.discTitle, c.setSize)
           C  == CatalogFrames(disc, album)
           f1 == Text("TIT2", Or(Spelled(texts, Title), DefaultTitle))
           f4 == Text("TPE1", artist)
           f5 == Text("TPE2", m.albumArtist)
           f6 == Txxx("PERFORMER", performer)
           f7 == Text("TCOM", Spelled(texts, Composer))
           f10 == Text("TSRC", AsciiConcat(c.isrc))
           f11 == Text("TPOS", <<c.sequence, Max({c.setSize, 1})>>)
           p4 == If(artist # None, f4)
           p5 == If(m.albumArtist # None, f5)
           p6 == If(performer # None, f6)
           p7 == If(Spelled(texts, Composer) # None, f7)
           p10 == If(\E i \in DOMAIN c.isrc : c.isrc[i][1] # Nul, f10)
           p12 == GenreFrames(c.trackGenre, c.discGenres, c.albumGenres, c.names)
           x == Text("TYER", c.date)
           y == Text("TDAT", c.date)
           z == Text("TRCK", c.track)
           L == <<x, y, z>>
           t1 == <<f1>>
           t2 == t1 \o A
           t3 == t2 \o p4
           t4 == t3 \o p5
           t5 == t4 \o p6
           t6 == t5 \o p7
           t7 == t6 \o C
           t8 == t7 \o p10
           t9 == t8 \o <<f11>>
           t10 == t9 \o p12
           t11 == t10 \o L
<1>1. RenderId3(texts, m, c) = t11
  BY DEF RenderId3
<1>2. /\ p4 \in {<<>>, <<f4>>} /\ (artist # None => p4 = <<f4>>)
      /\ p5 \in {<<>>, <<f5>>} /\ p6 \in {<<>>, <<f6>>} /\ p7 \in {<<>>, <<f7>>} /\ p10 \in {<<>>, <<f10>>}
  BY Zenon DEF If
<1>3. PICK v : p12 \in {<<>>, <<Text("TCON", v)>>}
  BY GenrePart
<1> DEFINE f12 == Text("TCON", v)
           aa == Text("TALB", m.albumTitle)
           ad == Text("TALB", m.discTitle)
           as == Txxx("DISCSUBTITLE", m.discTitle)
           cd == Txxx(DiscNumber, disc)
           ca == Txxx(DiscNumber, album)
           cs == Txxx(AlbumNumber, album)
           S == {f1, f4, f5, f6, f7, f10, f11, f12, x, y, z, aa, ad, as, cd, ca, cs}
<1>4. /\ f1.id = "TIT2" /\ f4.id = "TPE1" /\ f5.id = "TPE2" /\ f6.id = "TXXX" /\ f7.id = "TCOM"
      /\ f10.id = "TSRC" /\ f11.id = "TPOS" /\ f12.id = "TCON"
      /\ x.id = "TYER" /\ y.id = "TDAT" /\ z.id = "TRCK"
      /\ f6.name = "PERFORMER" /\ f4.name = ""
  <2> HIDE DEF performer, artist, disc, album
  <2> QED
    BY DEF Text, Txxx
<1>5. artist # None \/ m.albumArtist = None
  BY DEF Or
<1>6. p12 \in {<<>>, <<f12>>}
  BY <1>3
<1> HIDE DEF t2, t3, t4, t5, t6, t7, t8, t9, t10, t11, A, C, p4, p5, p6, p7, p10, p12, L, performer, artist, disc, album,
             f1, f4, f5, f6, f7, f10, f11, f12, x, y, z, aa, ad, as, cd, ca, cs
<1>7. Rank(f1) = 1 /\ Rank(f4) = 4 /\ Rank(f5) = 5 /\ Rank(f6) = 6 /\ Rank(f7) = 7 /\ Rank(f10) = 10
      /\ Rank(f11) = 11 /\ Rank(f12) = 12
  BY <1>4, Zenon DEF Rank
<1>8. /\ f1 \in S /\ f4 \in S /\ f5 \in S /\ f6 \in S /\ f7 \in S /\ f10 \in S /\ f11 \in S /\ f12 \in S
      /\ x \in S /\ y \in S /\ z \in S /\ aa \in S /\ ad \in S /\ as \in S /\ cd \in S /\ ca \in S /\ cs \in S
  OBVIOUS
<1> HIDE DEF S
<1>9. /\ FrameOf(S, f1, 0, 1) /\ FrameOf(S, f4, 3, 4) /\ FrameOf(S, f5, 4, 5) /\ FrameOf(S, f6, 5, 6)
      /\ FrameOf(S, f7, 6, 7) /\ FrameOf(S, f10, 9, 10) /\ FrameOf(S, f11, 10, 11) /\ FrameOf(S, f12, 11, 12)
  BY <1>7, <1>8 DEF FrameOf
<1>10. Part(S, t1, 0, 1) /\ Silent(t1)
  BY <1>4, <1>9, SilentPart
<1>p5. Part(S, p5, 4, 5) /\ Silent(p5)
  BY <1>2, <1>4, <1>9, SilentPart
<1>p6. Part(S, p6, 5, 6) /\ Silent(p6)
  BY <1>2, <1>4, <1>9, SilentPart
<1>p7. Part(S, p7, 6, 7) /\ Silent(p7)
  BY <1>2, <1>4, <1>9, SilentPart
<1>p10. Part(S, p10, 9, 10) /\ Silent(p10)
  BY <1>2, <1>4, <1>9, SilentPart
<1>p11. Part(S, <<f11>>, 10, 11) /\ Silent(<<f11>>)
  BY <1>4, <1>9, SilentPart
<1>p12. Part(S, p12, 11, 12) /\ Silent(p12)
  BY <1>6, <1>4, <1>9, SilentPart
<1>12. Part(S, p4, 3, 4)
  BY <1>2, <1>9, OneFrame
<1>13. Part(S, L, 12, 15) /\ Silent(L)
  BY <1>4, <1>8, DatePart DEF L
<1>14. Part(S, A, 1, 3) /\ \A q \in Asked : Answers(A, q) = AlbumAnswer(m.albumTitle, m.discTitle, c.setSize, q)
  <2>1. Text("TALB", m.albumTitle) \in S /\ Text("TALB", m.discTitle) \in S /\ Txxx("DISCSUBTITLE", m.discTitle) \in S
    BY <1>8 DEF aa, ad, as
  <2> DEFINE one == m.albumTitle
             other == m.discTitle
             size == c.setSize
  <2>2. A = AlbumFrames(one, other, size)
    BY DEF A
  <2> HIDE DEF one, other, size
  <2>3. /\ Part(S, AlbumFrames(one, other, size), 1, 3)
        /\ \A q \in Asked : Answers(AlbumFrames(one, other, size), q) = AlbumAnswer(one, other, size, q)
    <3>1. Text("TALB", one) \in S /\ Text("TALB", other) \in S /\ Txxx("DISCSUBTITLE", other) \in S
      BY <2>1 DEF one, other
    <3> QED
      BY <3>1, AlbumPart
  <2>4. Part(S, A, 1, 3) /\ \A q \in Asked : Answers(A, q) = AlbumAnswer(one, other, size, q)
    BY <2>2, <2>3
  <2> QED
    BY <2>4 DEF one, other, size
<1>15. Part(S, C, 7, 9) /\ \A q \in Asked : Answers(C, q) = CatalogAnswer(disc, album, q)
  BY <1>8, CatalogPart DEF C, cd, ca, cs
<1> HIDE DEF t1
<1>16. Part(S, t2, 0, 3) /\ Adds(t2, t1, A)
  BY <1>10, <1>14, JoinParts DEF t2
<1>17. Part(S, t3, 0, 4) /\ Adds(t3, t2, p4)
  BY <1>12, <1>16, JoinParts DEF t3
<1>18. Part(S, t4, 0, 5) /\ Keeps(t4, t3)
  BY <1>p5, <1>17, JoinSilent DEF t4
<1>19. Part(S, t5, 0, 6) /\ Keeps(t5, t4)
  BY <1>p6, <1>18, JoinSilent DEF t5
<1>20. Part(S, t6, 0, 7) /\ Keeps(t6, t5)
  BY <1>p7, <1>19, JoinSilent DEF t6
<1>21. Part(S, t7, 0, 9) /\ Adds(t7, t6, C)
  BY <1>15, <1>20, JoinParts DEF t7
<1>22. Part(S, t8, 0, 10) /\ Keeps(t8, t7)
  BY <1>p10, <1>21, JoinSilent DEF t8
<1>23. Part(S, t9, 0, 11) /\ Keeps(t9, t8)
  BY <1>p11, <1>22, JoinSilent DEF t9
<1>24. Part(S, t10, 0, 12) /\ Keeps(t10, t9)
  BY <1>p12, <1>23, JoinSilent DEF t10
<1>25. Part(S, t11, 0, 15) /\ Keeps(t11, t10)
  BY <1>13, <1>24, JoinSilent DEF t11
<1>26. ASSUME NEW q \in Asked
       PROVE  Answers(t11, q) = (AlbumAnswer(m.albumTitle, m.discTitle, c.setSize, q) \cup Answers(p4, q))
                                  \cup CatalogAnswer(disc, album, q)
  <2>1. Answers(t11, q) = Answers(t6, q) \cup Answers(C, q)
    BY <1>21, <1>22, <1>23, <1>24, <1>25 DEF Adds, Keeps
  <2>2. Answers(t6, q) = (Answers(t1, q) \cup Answers(A, q)) \cup Answers(p4, q)
    BY <1>16, <1>17, <1>18, <1>19, <1>20 DEF Adds, Keeps
  <2>3. Answers(t1, q) = {}
    BY <1>10 DEF Silent
  <2> QED
    BY <1>14, <1>15, <2>1, <2>2, <2>3
<1>27. ASSUME NEW q \in Asked, q.id # "TPE1" PROVE Answers(p4, q) = {}
  BY <1>2, <1>4, <1>27, FrameAnswers
<1>28. ASSUME NEW q \in Asked, q.id = "TPE1", q.names = {""}, artist # None PROVE Answers(p4, q) # {}
  BY <1>2, <1>4, <1>28, FrameAnswers
<1> DEFINE q1 == [id |-> "TALB", names |-> {""}]
           q2 == [id |-> "TXXX", names |-> {"DISCSUBTITLE"}]
           q3 == [id |-> "TXXX", names |-> {DiscNumber}]
           q4 == [id |-> "TXXX", names |-> {DiscNumber, AlbumNumber}]
           q5 == [id |-> "TPE1", names |-> {""}]
<1>29. /\ q1 \in Asked /\ q1.id = "TALB" /\ q1.names = {""}
       /\ q2 \in Asked /\ q2.id = "TXXX" /\ q2.names = {"DISCSUBTITLE"}
       /\ q3 \in Asked /\ q3.id = "TXXX" /\ q3.names = {DiscNumber}
       /\ q4 \in Asked /\ q4.id = "TXXX" /\ q4.names = {DiscNumber, AlbumNumber}
       /\ q5 \in Asked /\ q5.id = "TPE1" /\ q5.names = {""}
  BY DEF Asked
<1>30. /\ Values(t11, "TALB", {""}) = Answers(t11, q1)
       /\ Values(t11, "TXXX", {"DISCSUBTITLE"}) = Answers(t11, q2)
       /\ Values(t11, "TXXX", {DiscNumber}) = Answers(t11, q3)
       /\ Values(t11, "TXXX", {DiscNumber, AlbumNumber}) = Answers(t11, q4)
       /\ Values(t11, "TPE1", {""}) = Answers(t11, q5)
  BY DEF Answers
<1> HIDE DEF q1, q2, q3, q4, q5
<1>31. Answers(t11, q1) = {IF m.albumTitle # None THEN m.albumTitle ELSE m.discTitle} \ {None}
  <2>1. AlbumAnswer(m.albumTitle, m.discTitle, c.setSize, q1)
          = {IF m.albumTitle # None THEN m.albumTitle ELSE m.discTitle} \ {None}
    BY <1>29 DEF AlbumAnswer
  <2>2. CatalogAnswer(disc, album, q1) = {} /\ Answers(p4, q1) = {}
    BY <1>27, <1>29 DEF CatalogAnswer
  <2> QED
    BY <1>26, <1>29, <2>1, <2>2
<1>32. Answers(t11, q2) = IF m.albumTitle # None /\ m.discTitle # None /\ (m.discTitle # m.albumTitle \/ c.setSize > 1)
                          THEN {m.discTitle} ELSE {}
  <2>1. AlbumAnswer(m.albumTitle, m.discTitle, c.setSize, q2)
          = IF m.albumTitle # None /\ m.discTitle # None /\ (m.discTitle # m.albumTitle \/ c.setSize > 1)
            THEN {m.discTitle} ELSE {}
    BY <1>29 DEF AlbumAnswer
  <2>2. CatalogAnswer(disc, album, q2) = {} /\ Answers(p4, q2) = {}
    <3>1. DiscNumber \notin q2.names
      BY <1>29, NumbersDiffer
    <3> QED
      BY <1>27, <1>29, <3>1 DEF CatalogAnswer
  <2> QED
    BY <1>26, <1>29, <2>1, <2>2
<1>33. Answers(t11, q3) = {IF disc # None THEN disc ELSE album} \ {None}
  <2>1. AlbumAnswer(m.albumTitle, m.discTitle, c.setSize, q3) = {} /\ Answers(p4, q3) = {}
    <3>1. q3.names # {"DISCSUBTITLE"}
      BY <1>29, NumbersDiffer
    <3> QED
      BY <1>27, <1>29, <3>1 DEF AlbumAnswer
  <2>2. CatalogAnswer(disc, album, q3) = {IF disc # None THEN disc ELSE album} \ {None}
    BY <1>29, NumbersDiffer DEF CatalogAnswer
  <2> QED
    BY <1>26, <1>29, <2>1, <2>2
<1>34. Answers(t11, q4) = {disc, album} \ {None}
  <2>1. AlbumAnswer(m.albumTitle, m.discTitle, c.setSize, q4) = {} /\ Answers(p4, q4) = {}
    <3>1. q4.names # {"DISCSUBTITLE"}
      BY <1>29, NumbersDiffer
    <3> QED
      BY <1>27, <1>29, <3>1 DEF AlbumAnswer
  <2>2. CatalogAnswer(disc, album, q4) = {disc, album} \ {None}
    BY <1>29 DEF CatalogAnswer
  <2> QED
    BY <1>26, <1>29, <2>1, <2>2
<1>35. m.albumArtist # None => Answers(t11, q5) # {}
  BY <1>5, <1>26, <1>28, <1>29, ZenonT(60)
<1>36. \A i, j \in DOMAIN t11 : i # j => <<t11[i].id, t11[i].name>> # <<t11[j].id, t11[j].name>>
  BY <1>25, OrderedDistinct DEF Part
<1>37. Unambiguous(t11, m, c.setSize, disc, album)
  <2>1. m.albumTitle # None => Values(t11, "TALB", {""}) = {m.albumTitle}
    BY <1>30, <1>31
  <2>2. m.discTitle # None => m.discTitle \in Values(t11, "TALB", {""}) \cup Values(t11, "TXXX", {"DISCSUBTITLE"})
    <3>1. CASE m.albumTitle = None
      BY <1>30, <1>31, <3>1
    <3>2. CASE m.albumTitle # None /\ m.discTitle = m.albumTitle
      BY <1>30, <1>31, <3>2
    <3>3. CASE m.albumTitle # None /\ m.discTitle # m.albumTitle
      BY <1>30, <1>32, <3>3
    <3> QED
      BY <3>1, <3>2, <3>3
  <2>3. (m.discTitle # None /\ m.albumTitle # None /\ c.setSize > 1) =>
          Values(t11, "TXXX", {"DISCSUBTITLE"}) = {m.discTitle}
    BY <1>30, <1>32
  <2>4. Values(t11, "TXXX", {DiscNumber, AlbumNumber}) = {disc, album} \ {None}
    BY <1>30, <1>34
  <2>5. disc # None => Values(t11, "TXXX", {DiscNumber}) = {disc}
    BY <1>30, <1>33
  <2>6. m.albumArtist # None => Values(t11, "TPE1", {""}) # {}
    BY <1>30, <1>35
  <2> QED
    BY <1>36, <2>1, <2>2, <2>3, <2>4, <2>5, <2>6, Zenon DEF Unambiguous
<1> QED
  BY <1>1, <1>37 DEF disc, album

-----------------------------------------------------------------------------
(* Strings and places in bytes *)

\* The least and the greatest of a set of numbers.
LEMMA MinIs ==
    ASSUME NEW T \in SUBSET Int, NEW x \in T, \A y \in T : x <= y
    PROVE  Min(T) = x
<1>1. Min(T) \in T /\ \A y \in T : Min(T) <= y
  BY DEF Min
<1>2. Min(T) \in Int /\ x \in Int /\ Min(T) <= x /\ x <= Min(T)
  BY <1>1
<1> QED
  BY <1>2

LEMMA MaxIs ==
    ASSUME NEW T \in SUBSET Int, NEW x \in T, \A y \in T : y <= x
    PROVE  Max(T) = x
<1>1. Max(T) \in T /\ \A y \in T : Max(T) >= y
  BY DEF Max
<1>2. Max(T) \in Int /\ x \in Int /\ Max(T) <= x /\ x <= Max(T)
  BY <1>1
<1> QED
  BY <1>2

\* A search ends at the first place that fits.
LEMMA NextIs ==
    ASSUME NEW bytes, Len(bytes) \in Nat, NEW zero \in BOOLEAN, NEW p \in Nat, NEW e \in Nat,
           p <= e, e <= Len(bytes) + 1,
           \A q \in p..(e - 1) : (bytes[q] = Nul) # zero,
           e <= Len(bytes) => (bytes[e] = Nul) = zero
    PROVE  NextWhere(bytes, p, zero) = e
<1> DEFINE n == Len(bytes)
           places == {q \in p..n : (bytes[q] = Nul) = zero}
<1>1. NextWhere(bytes, p, zero) = IF places = {} THEN n + 1 ELSE Min(places)
  BY DEF NextWhere
<1>2. \A q \in places : e <= q
  OBVIOUS
<1>3. CASE e = n + 1
  <2>1. places = {}
    BY <1>2, <1>3
  <2> QED
    BY <1>1, <1>3, <2>1
<1>4. CASE e # n + 1
  <2>1. e \in places /\ places \in SUBSET Int
    BY <1>4
  <2> HIDE DEF places, n
  <2>2. Min(places) = e
    BY <1>2, <2>1, MinIs
  <2> QED
    BY <1>1, <2>1, <2>2
<1> QED
  BY <1>3, <1>4

\* piece lies in whole behind the first at bytes.
Lies(whole, at, piece) ==
    /\ whole \in Seq(Nat) /\ piece \in Seq(Nat) /\ Len(whole) \in Nat /\ Len(piece) \in Nat
    /\ at \in Nat /\ at + Len(piece) <= Len(whole)
    /\ \A j \in 1..Len(piece) : whole[at + j] = piece[j]

\* A piece of a piece is a piece.
LEMMA LiesInside ==
    ASSUME NEW w, NEW a, NEW p, NEW b, NEW q, Lies(w, a, p), Lies(p, b, q)
    PROVE  Lies(w, a + b, q)
<1> DEFINE l == Len(w)
           m == Len(p)
           n == Len(q)
<1>1. /\ w \in Seq(Nat) /\ q \in Seq(Nat) /\ l \in Nat /\ m \in Nat /\ n \in Nat /\ a \in Nat /\ b \in Nat
      /\ a + m <= l /\ b + n <= m
      /\ \A j \in 1..m : w[a + j] = p[j]
      /\ \A j \in 1..n : p[b + j] = q[j]
  BY DEF Lies
<1> HIDE DEF l, m, n
<1>2. ASSUME NEW j \in 1..n PROVE w[(a + b) + j] = q[j]
  <2>1. b + j \in 1..m /\ a + (b + j) = (a + b) + j
    BY <1>1
  <2> QED
    BY <1>1, <2>1
<1>3. a + b \in Nat /\ (a + b) + n <= l
  BY <1>1
<1> QED
  BY <1>1, <1>2, <1>3 DEF Lies, l, m, n

\* Both sequences of a concatenation are pieces of it.
LEMMA LiesInConcat ==
    ASSUME NEW u \in Seq(Nat), NEW v \in Seq(Nat)
    PROVE  u \o v \in Seq(Nat) /\ Lies(u \o v, 0, u) /\ Lies(u \o v, Len(u), v)
<1> DEFINE w == u \o v
           m == Len(u)
           n == Len(v)
<1>1. /\ w \in Seq(Nat) /\ Len(w) = m + n /\ m \in Nat /\ n \in Nat
      /\ \A k \in 1..m : w[k] = u[k]
      /\ \A k \in 1..n : w[m + k] = v[k]
  BY ConcatElements
<1> HIDE DEF w
<1>2. Lies(w, m, v)
  BY <1>1 DEF Lies
<1>3. Lies(w, 0, u)
  <2> HIDE DEF m, n
  <2>1. 0 \in Nat /\ 0 + m <= m + n /\ \A j \in 1..m : 0 + j = j
    BY <1>1
  <2>2. \A j \in 1..m : w[0 + j] = u[j]
    BY <1>1, <2>1
  <2> QED
    BY <1>1, <2>1, <2>2 DEF Lies, m
<1> QED
  BY <1>1, <1>2, <1>3 DEF w

\* The bytes of the place are the piece.
LEMMA LiesThere ==
    ASSUME NEW w, NEW a, NEW p, Lies(w, a, p)
    PROVE  SubSeq(w, a + 1, a + Len(p)) = p
<1> DEFINE l == Len(w)
           m == Len(p)
           z == SubSeq(w, a + 1, a + m)
<1>1. /\ w \in Seq(Nat) /\ p \in Seq(Nat) /\ l \in Nat /\ m \in Nat /\ a \in Nat /\ a + m <= l
      /\ \A j \in 1..m : w[a + j] = p[j]
  BY DEF Lies
<1>2. z \in Seq(Nat) /\ Len(z) = m /\ \A j \in 1..m : z[j] = w[(a + 1) + j - 1]
  <2>1. (a + 1) + m <= l + 1 /\ a + 1 \in Nat \ {0} /\ (a + 1) + m - 1 = a + m
    <3> HIDE DEF l, m
    <3> QED
      BY <1>1
  <2> DEFINE b == a + 1
  <2> HIDE DEF b, m
  <2>2. /\ SubSeq(w, b, b + m - 1) \in Seq(Nat) /\ Len(SubSeq(w, b, b + m - 1)) = m
        /\ \A j \in 1..m : SubSeq(w, b, b + m - 1)[j] = w[b + j - 1]
    BY <1>1, <2>1, PieceOf DEF b
  <2> QED
    BY <2>1, <2>2 DEF b
<1> HIDE DEF z, m, l
<1>3. ASSUME NEW j \in 1..m PROVE z[j] = p[j]
  <2>1. (a + 1) + j - 1 = a + j
    BY <1>1
  <2> QED
    BY <1>1, <1>2, <2>1
<1>4. z = p
  BY <1>1, <1>2, <1>3, SeqEqual DEF m
<1> QED
  BY <1>4 DEF z, m

\* The k-th of the sequences that lie behind a head.
LEMMA LiesBehind ==
    ASSUME NEW head \in Seq(Nat), NEW coded \in Seq(Seq(Nat)), NEW k \in 1..Len(coded)
    PROVE  Lies(head \o FlattenSeq(coded), Len(head) + Len(FlattenSeq(SubSeq(coded, 1, k - 1))), coded[k])
<1> DEFINE f == FlattenSeq(coded)
           s == SubSeq(coded, 1, k - 1)
           g == FlattenSeq(s)
           c == coded[k]
<1>1. s \in Seq(Seq(Nat)) /\ \E t \in Seq(Nat) : f = (g \o c) \o t
  BY FlattenPart
<1>2. c \in Seq(Nat) /\ f \in Seq(Nat)
  BY ElementOfSeq, FlattenType
<1>3. g \in Seq(Nat)
  <2> HIDE DEF s
  <2> QED
    BY <1>1, FlattenType
<1> HIDE DEF f, s, g, c
<1>4. PICK t \in Seq(Nat) : f = (g \o c) \o t
  BY <1>1
<1>5. g \o c \in Seq(Nat) /\ Lies(g \o c, Len(g), c)
  BY <1>2, <1>3, LiesInConcat
<1>6. Lies(f, 0, g \o c)
  <2> DEFINE h == g \o c
  <2> HIDE DEF h
  <2>1. Lies(h \o t, 0, h)
    BY <1>5, LiesInConcat DEF h
  <2> QED
    BY <1>4, <2>1 DEF h
<1>7. Lies(f, 0 + Len(g), c)
  BY <1>5, <1>6, LiesInside
<1>8. Lies(head \o f, Len(head), f)
  BY <1>2, LiesInConcat
<1>9. Lies(head \o f, Len(head) + (0 + Len(g)), c)
  BY <1>7, <1>8, LiesInside
<1>10. 0 + Len(g) = Len(g)
  BY <1>3, LenProperties
<1> QED
  BY <1>9, <1>10 DEF f, s, g, c

\* What str::trim leaves of a string between blanks.
LEMMA TrimIs ==
    ASSUME NEW s, Len(s) \in Nat, DOMAIN s = 1..Len(s), NEW a \in 1..Len(s), NEW b \in 1..Len(s), a <= b,
           s[a] # Blank, s[b] # Blank,
           \A i \in 1..Len(s) : s[i] # Blank => a <= i /\ i <= b
    PROVE  Trim(s) = SubSeq(s, a, b)
<1> DEFINE kept == {i \in DOMAIN s : s[i] # Blank}
<1>1. a \in kept /\ b \in kept /\ kept \in SUBSET Int /\ \A i \in kept : a <= i /\ i <= b
  OBVIOUS
<1>2. Trim(s) = IF kept = {} THEN None ELSE SubSeq(s, Min(kept), Max(kept))
  BY DEF Trim
<1> HIDE DEF kept
<1>3. Min(kept) = a /\ Max(kept) = b
  BY <1>1, MinIs, MaxIs
<1> QED
  BY <1>1, <1>2, <1>3

\* Of blanks alone it leaves nothing.
LEMMA TrimBlanks ==
    ASSUME NEW s, \A i \in DOMAIN s : s[i] = Blank
    PROVE  Trim(s) = None
BY DEF Trim

\* Text of the disc.
LEMMA CharsAre ==
    ASSUME NEW t \in Seq(Char)
    PROVE  /\ t \in Seq(Nat) /\ Len(t) \in Nat /\ DOMAIN t = 1..Len(t)
           /\ \A i \in 1..Len(t) : t[i] \in Nat /\ t[i] # Nul
           /\ Len(t) = 0 => t = None
<1>1. Len(t) \in Nat /\ DOMAIN t = 1..Len(t) /\ t = [i \in 1..Len(t) |-> t[i]]
  BY LenProperties
<1>2. ASSUME NEW i \in 1..Len(t) PROVE t[i] \in Nat /\ t[i] # Nul
  <2>1. t[i] \in Char
    BY ElementOfSeq
  <2>2. \A c \in Char : c \in Nat /\ c # Nul
    BY DEF Char, Byte
  <2> QED
    BY <2>1, <2>2
<1>3. t \in Seq(Nat)
  BY <1>1, <1>2, FunctionSeq
<1>4. Len(t) = 0 => t = None
  BY EmptySeq DEF None
<1> QED
  BY <1>1, <1>2, <1>3, <1>4

\* The field of a catalog number, filled up with blanks or zeros, says the number.
LEMMA CatalogRead ==
    ASSUME NEW c \in Catalogs
    PROVE  TrimToNul(EncodeCatalog(c)) = c.text
<1> DEFINE t == c.text
           n == Len(t)
           x == c.fill
           f == <<x, x>>
           s == t \o f
<1>1. t \in Seq(Char) /\ x \in {Nul, Blank} /\ (t # None => t[1] # Blank /\ t[n] # Blank)
  BY DEF Catalogs
<1>2. EncodeCatalog(c) = s
  BY DEF EncodeCatalog
<1> HIDE DEF t, x
<1>3. /\ t \in Seq(Nat) /\ n \in Nat /\ DOMAIN t = 1..n
      /\ \A i \in 1..n : t[i] \in Nat /\ t[i] # Nul
      /\ n = 0 => t = None
  BY <1>1, CharsAre
<1>4. f \in Seq(Nat) /\ Len(f) = 2 /\ f[1] = x /\ f[2] = x
  BY <1>1 DEF Nul, Blank
<1>5. t = None => n = 0
  BY DEF None
<1> HIDE DEF f, n
<1>6. s \in Seq(Nat) /\ Lies(s, 0, t) /\ Lies(s, n, f)
  BY <1>3, <1>4, LiesInConcat DEF n
<1>7. Len(s) = n + 2
  <2>1. f \in Seq(Nat) /\ t \in Seq(Nat)
    BY <1>3, <1>4
  <2>2. Len(t \o f) = Len(t) + Len(f)
    BY <2>1, ConcatElements
  <2> QED
    BY <1>4, <2>2 DEF n
<1> HIDE DEF s
<1>8. \A i \in 1..n : s[i] = t[i]
  <2>1. \A i \in 1..n : s[0 + i] = t[i]
    BY <1>6 DEF Lies, n
  <2>2. \A i \in 1..n : 0 + i = i
    BY <1>3
  <2> QED
    BY <2>1, <2>2
<1>9. s[n + 1] = x /\ s[n + 2] = x
  <2>1. \A j \in 1..2 : s[n + j] = f[j]
    BY <1>4, <1>6 DEF Lies
  <2> QED
    BY <1>4, <2>1
<1>10. SubSeq(s, 1, n) = t
  <2>1. SubSeq(s, 0 + 1, 0 + n) = t
    BY <1>6, LiesThere DEF n
  <2>2. 0 + 1 = 1 /\ 0 + n = n
    BY <1>3
  <2> QED
    BY <2>1, <2>2
<1>11. DOMAIN s = 1..Len(s) /\ Len(s) \in Nat
  BY <1>6, LenProperties
<1>12. CASE x = Nul
  <2>1. NextWhere(s, 1, TRUE) = n + 1
    <3>1. \A q \in 1..((n + 1) - 1) : s[q] # Nul
      BY <1>3, <1>8
    <3>2. s[n + 1] = Nul
      BY <1>9, <1>12
    <3>3. 1 \in Nat /\ n + 1 \in Nat /\ 1 <= n + 1 /\ n + 1 <= Len(s) + 1
      BY <1>3, <1>7
    <3> DEFINE e == n + 1
    <3> HIDE DEF e
    <3>4. NextWhere(s, 1, TRUE) = e
      BY <1>11, <3>1, <3>2, <3>3, NextIs DEF e
    <3> QED
      BY <3>4 DEF e
  <2>2. TrimToNul(s) = Trim(t)
    <3>1. (n + 1) - 1 = n
      BY <1>3
    <3> QED
      BY <1>10, <2>1, <3>1 DEF TrimToNul
  <2>3. CASE t = None
    <3>1. Trim(t) = None
      BY <1>3, <1>5, <2>3, TrimBlanks
    <3> QED
      BY <1>2, <2>2, <2>3, <3>1 DEF t
  <2>4. CASE t # None
    <3>1. n \in 1..n /\ 1 \in 1..n /\ 1 <= n /\ \A i \in 1..n : 1 <= i /\ i <= n
      BY <1>3, <2>4
    <3>2. Trim(t) = SubSeq(t, 1, n)
      BY <1>1, <1>3, <2>4, <3>1, TrimIs DEF n
    <3>3. SubSeq(t, 1, n) = t
      BY <1>3, SubSeqFull DEF n
    <3> QED
      BY <1>2, <2>2, <3>2, <3>3 DEF t
  <2> QED
    BY <2>3, <2>4
<1>13. CASE x = Blank
  <2>1. NextWhere(s, 1, TRUE) = n + 3
    <3>1. \A q \in 1..((n + 3) - 1) : s[q] # Nul
      <4>1. ASSUME NEW q \in 1..((n + 3) - 1) PROVE s[q] # Nul
        <5>1. q \in 1..n \/ q = n + 1 \/ q = n + 2
          BY <1>3
        <5>2. Blank # Nul
          BY DEF Blank, Nul
        <5> QED
          BY <1>3, <1>8, <1>9, <1>13, <5>1, <5>2
      <4> QED
        BY <4>1
    <3>2. 1 \in Nat /\ n + 3 \in Nat /\ 1 <= n + 3 /\ n + 3 <= Len(s) + 1 /\ ~(n + 3 <= Len(s))
      BY <1>3, <1>7
    <3> DEFINE e == n + 3
    <3> HIDE DEF e
    <3>3. NextWhere(s, 1, TRUE) = e
      BY <1>11, <3>1, <3>2, NextIs DEF e
    <3> QED
      BY <3>3 DEF e
  <2>2. TrimToNul(s) = Trim(s)
    <3>1. (n + 3) - 1 = Len(s)
      BY <1>3, <1>7
    <3>2. SubSeq(s, 1, Len(s)) = s
      BY <1>6, SubSeqFull
    <3> QED
      BY <2>1, <3>1, <3>2 DEF TrimToNul
  <2>5. \A i \in 1..Len(s) : i \in 1..n \/ s[i] = Blank
    <3>1. \A i \in 1..(n + 2) : i \in 1..n \/ i = n + 1 \/ i = n + 2
      BY <1>3
    <3> QED
      BY <1>7, <1>9, <1>13, <3>1
  <2>3. CASE t = None
    <3>1. \A i \in DOMAIN s : s[i] = Blank
      BY <1>5, <1>11, <2>3, <2>5
    <3>2. Trim(s) = None
      BY <3>1, TrimBlanks
    <3> QED
      BY <1>2, <2>2, <2>3, <3>2 DEF t
  <2>4. CASE t # None
    <3>1. n \in 1..Len(s) /\ 1 \in 1..Len(s) /\ 1 <= n /\ n \in 1..n /\ 1 \in 1..n
      BY <1>3, <1>7, <2>4
    <3>2. s[1] # Blank /\ s[n] # Blank
      BY <1>1, <1>8, <2>4, <3>1 DEF n
    <3>3. \A i \in 1..Len(s) : s[i] # Blank => 1 <= i /\ i <= n
      BY <1>3, <2>5
    <3>4. Trim(s) = SubSeq(s, 1, n)
      BY <1>11, <3>1, <3>2, <3>3, TrimIs
    <3> QED
      BY <1>2, <1>10, <2>2, <3>4 DEF t
  <2> QED
    BY <2>3, <2>4
<1> QED
  BY <1>1, <1>12, <1>13

\* The tag of every track says each thing once and leaves nothing out, whatever
\* texts and numbers the disc has (id3.rs 101-170).
THEOREM TagsAreUnambiguous == Spec => []TagIsUnambiguous
<1>1. DecodersInv => TagIsUnambiguous
  <2> SUFFICES ASSUME DecodersInv, output.done, "disc" \in DOMAIN input, NEW t \in DOMAIN output.tags
               PROVE  Unambiguous(output.tags[t], output.master, input.disc.rest.setSize,
                                  input.disc.rest.discCatalog.text, input.disc.rest.albumCatalog.text)
    BY Zenon DEF TagIsUnambiguous, Unambiguous, DiscNumber, AlbumNumber
  <2> DEFINE d == input.disc
             r == d.rest
             c == EncodeToc(r)
  <2>1. d \in Discs /\ output = OfDisc(d)
    BY DiscRead
  <2>2. r \in Rests
    BY <2>1, DiscsAssumption
  <2>3. output.master = MasterOf(d) /\ output.tags = TagsOf(d)
    BY <2>1 DEF OfDisc
  <2>4. output.tags[t] = RenderId3(TextsOf(d)[t], output.master, c)
    BY <2>3 DEF TagsOf
  <2>5. r.discCatalog \in Catalogs /\ r.albumCatalog \in Catalogs
    BY <2>2 DEF Rests
  <2>6. /\ c.setSize = r.setSize /\ c.discCatalog = EncodeCatalog(r.discCatalog)
        /\ c.albumCatalog = EncodeCatalog(r.albumCatalog)
    <3>1. {"setSize", "discCatalog", "albumCatalog"} \subseteq DOMAIN r
      BY <2>2 DEF Rests
    <3> HIDE DEF r
    <3> QED
      BY <3>1 DEF EncodeToc
  <2>7. TrimToNul(c.discCatalog) = r.discCatalog.text /\ TrimToNul(c.albumCatalog) = r.albumCatalog.text
    BY <2>5, <2>6, CatalogRead
  <2> HIDE DEF d, r, c
  <2>8. Unambiguous(output.tags[t], output.master, c.setSize, TrimToNul(c.discCatalog), TrimToNul(c.albumCatalog))
    BY <2>4, RenderedTag
  <2>9. Unambiguous(output.tags[t], output.master, r.setSize, r.discCatalog.text, r.albumCatalog.text)
    BY <2>6, <2>7, <2>8
  <2> QED
    BY <2>9 DEF r, d
<1> QED
  BY <1>1, DecodersAlways, PTL

-----------------------------------------------------------------------------
(* The texts of the disc *)

\* A text of the disc lies behind the first at bytes, and a zero behind it.
StringAt(w, at, text) ==
    /\ text \in Seq(Char) /\ Lies(w, at, text)
    /\ at + Len(text) + 1 <= Len(w) /\ w[at + Len(text) + 1] = Nul

\* It is read up to its zero.
IsRead(w, at, text) ==
    /\ NextWhere(w, at + 1, TRUE) = at + Len(text) + 1
    /\ SubSeq(w, at + 1, at + Len(text)) = text

\* The search for its zero finds the string's end.
LEMMA StringEnds ==
    ASSUME NEW w, NEW a, NEW text, StringAt(w, a, text)
    PROVE  IsRead(w, a, text)
<1> DEFINE l == Len(text)
           e == a + l + 1
<1>1. /\ \A i \in 1..l : text[i] # Nul
      /\ l \in Nat
  BY CharsAre DEF StringAt
<1>2. /\ Len(w) \in Nat /\ a \in Nat /\ \A j \in 1..l : w[a + j] = text[j]
      /\ e <= Len(w) /\ w[e] = Nul
  BY DEF StringAt, Lies
<1>3. \A q \in (a + 1)..(e - 1) : w[q] # Nul
  <2> TAKE q \in (a + 1)..(e - 1)
  <2> HIDE DEF l
  <2>1. q - a \in 1..l /\ a + (q - a) = q
    BY <1>1, <1>2
  <2> QED
    BY <1>1, <1>2, <2>1
<1>4. NextWhere(w, a + 1, TRUE) = e
  <2> DEFINE p == a + 1
  <2>1. p \in Nat /\ e \in Nat /\ p <= e /\ e <= Len(w) + 1
    <3> HIDE DEF l
    <3> QED
      BY <1>1, <1>2
  <2>2. \A q \in p..(e - 1) : (w[q] = Nul) # TRUE
    BY <1>3
  <2> HIDE DEF p, e
  <2>3. NextWhere(w, p, TRUE) = e
    BY <1>2, <2>1, <2>2, NextIs
  <2> QED
    BY <2>3 DEF p
<1> QED
  BY <1>4, LiesThere DEF StringAt, IsRead

\* A text with its zero, wherever the two lie.
LEMMA StringInside ==
    ASSUME NEW w, NEW a, NEW p, NEW b, NEW text, Lies(w, a, p), StringAt(p, b, text)
    PROVE  StringAt(w, a + b, text)
<1> DEFINE l == Len(text)
           z == b + l + 1
<1>1. Lies(w, a + b, text)
  BY LiesInside DEF StringAt
<1>2. l \in Nat /\ b \in Nat /\ z <= Len(p) /\ p[z] = Nul
  BY DEF StringAt, Lies
<1>3. a \in Nat /\ Len(p) \in Nat /\ Len(w) \in Nat /\ a + Len(p) <= Len(w) /\ \A j \in 1..Len(p) : w[a + j] = p[j]
  BY DEF Lies
<1> HIDE DEF l
<1>4. z \in 1..Len(p) /\ a + z = (a + b) + l + 1
  BY <1>2, <1>3
<1> HIDE DEF z
<1>5. w[a + z] = Nul /\ a + z <= Len(w)
  BY <1>2, <1>3, <1>4
<1> QED
  BY <1>1, <1>4, <1>5 DEF StringAt, l

\* A string of the master text is found behind its position.
LEMMA ExtractAt ==
    ASSUME NEW w, NEW a, NEW text, StringAt(w, a, text)
    PROVE  ExtractString(w, a + 1) = Trim(text)
<1> DEFINE l == Len(text)
           n == Len(w)
           p == a + 1
           x == SubSeq(w, p, n)
           m == n - a
<1>1. w \in Seq(Nat) /\ n \in Nat /\ a \in Nat /\ l \in Nat /\ a + l + 1 <= n /\ text \in Seq(Char)
  BY DEF StringAt, Lies
<1>2. x \in Seq(Nat) /\ Len(x) = m /\ \A j \in 1..m : x[j] = w[a + j]
  <2>1. p \in Nat \ {0} /\ m \in Nat /\ p + m <= n + 1 /\ p + m - 1 = n /\ \A j \in 1..m : p + j - 1 = a + j
    <3> HIDE DEF n, l
    <3> QED
      BY <1>1
  <2> HIDE DEF p, m, x
  <2>2. /\ SubSeq(w, p, p + m - 1) \in Seq(Nat) /\ Len(SubSeq(w, p, p + m - 1)) = m
        /\ \A j \in 1..m : SubSeq(w, p, p + m - 1)[j] = w[p + j - 1]
    BY <1>1, <2>1, PieceOf DEF n
  <2> QED
    BY <2>1, <2>2 DEF x
<1> HIDE DEF x
<1>3. StringAt(x, 0, text)
  <2>1. \A j \in 1..l : w[a + j] = text[j]
    BY DEF StringAt, Lies
  <2>2. text \in Seq(Nat)
    BY DEF StringAt, Lies
  <2>3. w[a + l + 1] = Nul
    BY DEF StringAt
  <2> HIDE DEF l, n
  <2>4. m \in Nat /\ 0 + l <= m /\ 0 + l + 1 <= m /\ l + 1 \in 1..m /\ 0 + l + 1 = l + 1 /\ a + (l + 1) = a + l + 1
        /\ \A j \in 1..l : j \in 1..m /\ 0 + j = j
    BY <1>1
  <2>5. \A j \in 1..l : x[0 + j] = text[j]
    BY <1>2, <2>1, <2>4
  <2>6. x[0 + l + 1] = Nul
    BY <1>2, <2>3, <2>4
  <2>7. Lies(x, 0, text)
    BY <1>1, <1>2, <2>2, <2>4, <2>5 DEF Lies, l
  <2> QED
    BY <1>1, <1>2, <2>4, <2>6, <2>7 DEF StringAt, l
<1>4. TrimToNul(x) = Trim(text)
  <2> DEFINE o == 0
  <2>4. StringAt(x, o, text)
    BY <1>3
  <2> HIDE DEF o
  <2>5. NextWhere(x, o + 1, TRUE) = o + l + 1 /\ SubSeq(x, o + 1, o + l) = text
    <3>1. IsRead(x, o, text)
      BY <2>4, StringEnds
    <3> HIDE DEF m, n, p
    <3> QED
      BY <3>1 DEF IsRead
  <2> HIDE DEF l
  <2>1. NextWhere(x, 0 + 1, TRUE) = 0 + l + 1 /\ SubSeq(x, 0 + 1, 0 + l) = text
    BY <2>5 DEF o
  <2>2. 0 + 1 = 1 /\ 0 + l = l /\ (0 + l + 1) - 1 = l
    BY <1>1
  <2>3. NextWhere(x, 1, TRUE) - 1 = l /\ SubSeq(x, 1, l) = text
    BY <2>1, <2>2
  <2> QED
    BY <2>3 DEF TrimToNul
<1>5. p # 0 /\ ~(p > n)
  <2> HIDE DEF l, n
  <2> QED
    BY <1>1
<1> QED
  BY <1>4, <1>5 DEF ExtractString, x

\* A text with its zero is such a string.
LEMMA Terminated ==
    ASSUME NEW text \in Seq(Char)
    PROVE  /\ Append(text, Nul) \in Seq(Nat)
           /\ StringAt(Append(text, Nul), 0, text)
<1> DEFINE l == Len(text)
           w == text \o <<Nul>>
<1>1. text \in Seq(Nat) /\ l \in Nat
  BY CharsAre
<1>2. <<Nul>> \in Seq(Nat) /\ Len(<<Nul>>) = 1 /\ <<Nul>>[1] = Nul
  BY DEF Nul
<1> DEFINE z == <<Nul>>
<1> HIDE DEF z
<1>3. w = text \o z /\ z \in Seq(Nat) /\ Len(z) = 1 /\ z[1] = Nul
  BY <1>2 DEF z
<1>4. Append(text, Nul) = w
  BY <1>1, AppendIsConcat DEF Nul
<1> HIDE DEF w
<1>5. w \in Seq(Nat) /\ Lies(w, 0, text) /\ Lies(w, l, z)
  BY <1>1, <1>3, LiesInConcat
<1>6. l + 1 <= Len(w) /\ w[l + 1] = Nul
  <2>1. l + Len(z) <= Len(w) /\ \A j \in 1..Len(z) : w[l + j] = z[j]
    BY <1>5 DEF Lies
  <2> QED
    BY <1>3, <2>1
<1>7. StringAt(w, 0, text)
  <2> HIDE DEF l
  <2>1. 0 + l + 1 = l + 1
    BY <1>1
  <2> QED
    BY <1>5, <1>6, <2>1 DEF StringAt, l
<1> QED
  BY <1>4, <1>5, <1>7

\* Every string of the master text is found behind its position.
LEMMA MasterRead ==
    ASSUME NEW m \in MasterTexts, NEW f \in DOMAIN m
    PROVE  MasterText(EncodeMaster(m))[f] = Trim(m[f])
<1> DEFINE F == MasterFields
           coded == [k \in DOMAIN F |-> Append(m[F[k]], Nul)]
           k == CHOOSE i \in DOMAIN F : F[i] = f
           sector == EncodeMaster(m)
           text == m[f]
           g == Len(FlattenSeq(SubSeq(coded, 1, k - 1)))
           head == <<Nul>>
           w == head \o FlattenSeq(coded)
<1>1. /\ F = <<"albumTitle", "albumArtist", "discTitle", "discArtist">>
      /\ DOMAIN m = {"albumTitle", "albumArtist", "discTitle", "discArtist"}
      /\ \A x \in DOMAIN m : m[x] \in Seq(Char)
  BY DEF MasterTexts, MasterFields
<1>2. /\ DOMAIN F = 1..4
      /\ \A i \in 1..4 : F[i] \in DOMAIN m
      /\ \A x \in DOMAIN m : \E i \in 1..4 : F[i] = x
  <2> HIDE DEF F
  <2>1. Len(F) = 4 /\ DOMAIN F = 1..4 /\ F[1] = "albumTitle" /\ F[2] = "albumArtist" /\ F[3] = "discTitle" /\ F[4] = "discArtist"
    BY <1>1
  <2>2. \A i \in 1..4 : i = 1 \/ i = 2 \/ i = 3 \/ i = 4
    OBVIOUS
  <2>3. \A i \in 1..4 : F[i] \in DOMAIN m
    BY <1>1, <2>1, <2>2
  <2>4. \A x \in DOMAIN m : \E i \in 1..4 : F[i] = x
    BY <1>1, <2>1
  <2> QED
    BY <2>1, <2>3, <2>4
<1> HIDE DEF F
<1>3. k \in 1..4 /\ F[k] = f
  BY <1>2
<1>4. /\ sector.bytes = w
      /\ DOMAIN sector.positions = DOMAIN m
      /\ sector.positions[f] = IF text = None THEN 0 ELSE 2 + g
  <2>1. sector.positions = [x \in DOMAIN m |->
                              LET i == CHOOSE j \in DOMAIN MasterFields : MasterFields[j] = x
                              IN  IF m[x] = None THEN 0
                                  ELSE PlaceOf([j \in DOMAIN MasterFields |-> Append(m[MasterFields[j]], Nul)], i)]
    BY DEF EncodeMaster
  <2>2. sector.positions[f] = IF text = None THEN 0 ELSE PlaceOf(coded, k)
    BY <2>1 DEF F
  <2>3. sector.bytes = w
    BY DEF EncodeMaster, F
  <2> QED
    BY <2>1, <2>2, <2>3 DEF PlaceOf
<1>5. MasterText(sector)[f] = ExtractString(w, IF text = None THEN 0 ELSE 2 + g)
  <2> HIDE DEF sector, w, text
  <2> QED
    BY <1>4 DEF MasterText
<1>6. text \in Seq(Char) /\ Trim(None) = None
  <2>1. DOMAIN None = {}
    BY DEF None
  <2> QED
    BY <1>1, <2>1, TrimBlanks
<1>7. CASE text = None
  <2>1. ExtractString(w, 0) = None
    BY DEF ExtractString
  <2> HIDE DEF sector, w, text
  <2>2. MasterText(sector)[f] = Trim(text)
    BY <1>5, <1>6, <1>7, <2>1
  <2> QED
    BY <2>2 DEF sector, text
<1>8. CASE text # None
  <2> DEFINE a == 1 + g
  <2>1. coded = [i \in 1..4 |-> coded[i]] /\ \A i \in 1..4 : coded[i] \in Seq(Nat)
    <3>1. \A i \in 1..4 : Append(m[F[i]], Nul) \in Seq(Nat)
      BY <1>1, <1>2, Terminated
    <3> QED
      BY <1>2, <3>1
  <2>2. coded[k] = Append(text, Nul)
    BY <1>2, <1>3
  <2> HIDE DEF coded, text, k, sector
  <2>3. coded \in Seq(Seq(Nat)) /\ Len(coded) = 4
    BY <2>1, FunctionSeq
  <2>4. head \in Seq(Nat) /\ Len(head) = 1
    BY DEF Nul
  <2> HIDE DEF head
  <2>5. Lies(w, a, coded[k])
    <3>1. k \in 1..Len(coded)
      BY <1>3, <2>3
    <3>2. Lies(w, Len(head) + g, coded[k])
      BY <2>3, <2>4, <3>1, LiesBehind
    <3> QED
      BY <2>4, <3>2
  <2>6. StringAt(coded[k], 0, text)
    BY <1>6, <2>2, Terminated
  <2> DEFINE o == 0
  <2>7. StringAt(coded[k], o, text)
    BY <2>6
  <2> HIDE DEF o, a, w
  <2>8. StringAt(w, a + o, text)
    BY <2>5, <2>7, StringInside
  <2>9. ExtractString(w, (a + o) + 1) = Trim(text)
    BY <2>8, ExtractAt
  <2>10. a \in Nat
    BY <2>5 DEF Lies
  <2>11. g \in Nat /\ (a + o) + 1 = 2 + g
    <3>1. a = 1 + g /\ g \in Nat
      <4>1. SubSeq(coded, 1, k - 1) \in Seq(Seq(Nat))
        BY <1>3, <2>3, FlattenPart
      <4>2. g \in Nat
        BY <4>1, FlattenType, LenProperties
      <4> QED
        BY <4>2 DEF a
    <3> HIDE DEF g
    <3> QED
      BY <3>1 DEF o
  <2>12. MasterText(sector)[f] = Trim(text)
    <3> HIDE DEF g
    <3> QED
      BY <1>5, <1>8, <2>9, <2>11
  <2> QED
    BY <2>12 DEF sector, text
<1> QED
  BY <1>7, <1>8

\* An item of a track: its type, its text and zeros to the end.
ItemAt(w, item, pad) ==
    /\ Len(w) = 3 + Len(item.text) + pad /\ w[1] = item.type
    /\ StringAt(w, 2, item.text)
    /\ \A j \in (3 + Len(item.text))..Len(w) : w[j] = Nul

\* An item is laid out in that way.
LEMMA ItemBytes ==
    ASSUME NEW item \in Texts, NEW pad \in Nat
    PROVE  EncodeItem(item, pad) \in Seq(Nat) /\ ItemAt(EncodeItem(item, pad), item, pad)
<1> DEFINE text == item.text
           l == Len(text)
           a == <<item.type, Blank>>
           z == <<Nul>>
           y == Zeros(pad)
           u == a \o text
           v == u \o z
           w == v \o y
<1>1. item.type \in Nat /\ text \in Seq(Char)
  <2>1. item.type \in Char /\ text \in Seq(Char)
    BY DEF Texts
  <2>2. \A c \in Char : c \in Nat
    BY DEF Char, Byte
  <2> QED
    BY <2>1, <2>2
<1>2. text \in Seq(Nat) /\ l \in Nat
  BY <1>1, CharsAre
<1>3. a \in Seq(Nat) /\ Len(a) = 2 /\ a[1] = item.type
  BY <1>1 DEF Blank
<1>4. z \in Seq(Nat) /\ Len(z) = 1 /\ z[1] = Nul
  BY DEF Nul
<1>5. y \in Seq(Nat) /\ Len(y) = pad /\ \A j \in 1..pad : y[j] = Nul
  <2>1. y = [j \in 1..pad |-> y[j]] /\ \A j \in 1..pad : y[j] = Nul /\ y[j] \in Nat
    BY DEF Zeros, Nul
  <2> HIDE DEF y
  <2>2. y \in Seq(Nat) /\ Len(y) = pad
    BY <2>1, FunctionSeq
  <2> QED
    BY <2>1, <2>2
<1>6. EncodeItem(item, pad) = w
  BY DEF EncodeItem
<1> HIDE DEF a, z, y, text, l
<1>7. u \in Seq(Nat) /\ Len(u) = 2 + l /\ Lies(u, 0, a) /\ Lies(u, 2, text)
  <2>1. u \in Seq(Nat) /\ Lies(u, 0, a) /\ Lies(u, Len(a), text)
    BY <1>2, <1>3, LiesInConcat
  <2>2. Len(u) = Len(a) + Len(text)
    BY <1>2, <1>3, ConcatElements
  <2> QED
    BY <1>3, <2>1, <2>2 DEF l
<1> HIDE DEF u
<1>8. v \in Seq(Nat) /\ Len(v) = 3 + l /\ Lies(v, 0, u) /\ Lies(v, 2 + l, z)
  <2>1. v \in Seq(Nat) /\ Lies(v, 0, u) /\ Lies(v, Len(u), z)
    BY <1>4, <1>7, LiesInConcat
  <2>2. Len(v) = Len(u) + Len(z)
    BY <1>4, <1>7, ConcatElements
  <2> QED
    BY <1>2, <1>4, <1>7, <2>1, <2>2
<1> HIDE DEF v
<1>9. w \in Seq(Nat) /\ Len(w) = 3 + l + pad /\ Lies(w, 0, v) /\ Lies(w, 3 + l, y)
  <2>1. w \in Seq(Nat) /\ Lies(w, 0, v) /\ Lies(w, Len(v), y)
    BY <1>5, <1>8, LiesInConcat
  <2>2. Len(w) = Len(v) + Len(y)
    BY <1>5, <1>8, ConcatElements
  <2> QED
    BY <1>5, <1>8, <2>1, <2>2
<1> HIDE DEF w
<1>10. \A j \in 1..(3 + l) : w[j] = v[j]
  <2>1. \A j \in 1..Len(v) : w[0 + j] = v[j]
    BY <1>9 DEF Lies
  <2>2. \A j \in 1..(3 + l) : 0 + j = j
    BY <1>2
  <2> QED
    BY <1>8, <2>1, <2>2
<1>11. \A j \in 1..(2 + l) : v[j] = u[j]
  <2>1. \A j \in 1..Len(u) : v[0 + j] = u[j]
    BY <1>8 DEF Lies
  <2>2. \A j \in 1..(2 + l) : 0 + j = j
    BY <1>2
  <2> QED
    BY <1>7, <2>1, <2>2
<1>12. w[1] = item.type
  <2>1. u[0 + 1] = a[1] /\ 0 + 1 = 1
    BY <1>3, <1>7 DEF Lies
  <2>2. 1 \in 1..(2 + l) /\ 1 \in 1..(3 + l)
    BY <1>2
  <2> QED
    BY <1>3, <1>10, <1>11, <2>1, <2>2
<1>13. w[3 + l] = Nul
  <2>1. \A j \in 1..Len(z) : v[(2 + l) + j] = z[j]
    BY <1>8 DEF Lies
  <2>2. (2 + l) + 1 = 3 + l /\ 3 + l \in 1..(3 + l) /\ 1 \in 1..1
    BY <1>2
  <2>3. v[(2 + l) + 1] = z[1]
    BY <1>4, <2>1, <2>2
  <2> QED
    BY <1>4, <1>10, <2>2, <2>3
<1>14. ASSUME NEW j \in (3 + l)..Len(w) PROVE w[j] = Nul
  <2>1. CASE j = 3 + l
    BY <1>13, <2>1
  <2>2. CASE j # 3 + l
    <3>1. j - (3 + l) \in 1..pad /\ (3 + l) + (j - (3 + l)) = j
      BY <1>2, <1>9, <2>2
    <3>2. \A i \in 1..pad : w[(3 + l) + i] = y[i]
      BY <1>5, <1>9 DEF Lies
    <3> QED
      BY <1>5, <3>1, <3>2
  <2> QED
    BY <2>1, <2>2
<1>15. StringAt(w, 2, text)
  <2>1. Lies(w, 0 + (0 + 2), text)
    <3> DEFINE o == 0
               t == 2
    <3>1. Lies(w, o, v) /\ Lies(v, o, u) /\ Lies(u, t, text)
      BY <1>7, <1>8, <1>9
    <3> HIDE DEF o, t
    <3>2. Lies(v, o + t, text)
      BY <3>1, LiesInside
    <3>3. Lies(w, o + (o + t), text)
      BY <3>1, <3>2, LiesInside
    <3> QED
      BY <3>3 DEF o, t
  <2>2. 0 + (0 + 2) = 2 /\ 2 + l + 1 = 3 + l /\ 3 + l <= Len(w)
    BY <1>2, <1>9
  <2> QED
    BY <1>1, <1>13, <2>1, <2>2 DEF StringAt, l
<1> QED
  BY <1>6, <1>9, <1>12, <1>14, <1>15 DEF ItemAt, l, text

\* The state in which the loop over a track's items meets the next item.
AtItem(ptr, texts) == [ptr |-> ptr, texts |-> texts, ended |-> FALSE]

\* From an item of n bytes behind a the loop comes to the next one.
Taken(bytes, a, n, item, texts, next) ==
    /\ ParseItem(bytes, AtItem(a + 1, texts)) = AtItem(next, SetText(texts, item.type, item.text))
    /\ (a + n < Len(bytes) /\ bytes[a + n + 1] # Nul) => next = a + n + 1

\* The loop takes an item and stands at the next one, if there is one.
LEMMA ItemParsed ==
    ASSUME NEW bytes, NEW a, NEW piece, NEW item \in Texts, NEW pad \in Nat, NEW texts,
           Lies(bytes, a, piece), ItemAt(piece, item, pad)
    PROVE  \E next : Taken(bytes, a, Len(piece), item, texts, next)
<1> DEFINE text == item.text
           l == Len(text)
           n == Len(piece)
           z == Len(bytes)
           o == a + 2
           end == o + l + 1
           next == NextWhere(bytes, end + 1, FALSE)
<1>1. /\ a \in Nat /\ n \in Nat /\ z \in Nat /\ a + n <= z
      /\ \A j \in 1..n : bytes[a + j] = piece[j]
  BY DEF Lies
<1>2. /\ n = 3 + l + pad /\ piece[1] = item.type /\ StringAt(piece, 2, text)
      /\ \A j \in (3 + l)..n : piece[j] = Nul
  BY DEF ItemAt
<1>3. l \in Nat /\ text \in Seq(Char)
  BY <1>2 DEF StringAt, Lies
<1>4. StringAt(bytes, o, text)
  <2> DEFINE t == 2
  <2>1. StringAt(piece, t, text)
    BY <1>2
  <2> HIDE DEF t, text
  <2>2. StringAt(bytes, a + t, text)
    BY <2>1, StringInside
  <2> QED
    BY <2>2 DEF t
<1> HIDE DEF l, n, z
<1>5. NextWhere(bytes, o + 1, TRUE) = end /\ SubSeq(bytes, o + 1, end - 1) = text /\ end <= z
  <2>1. IsRead(bytes, o, text)
    <3> HIDE DEF o, text
    <3> QED
      BY <1>4, StringEnds
  <2>2. end - 1 = o + l
    BY <1>1, <1>3
  <2>3. end <= z
    BY <1>4 DEF StringAt, l, z
  <2> HIDE DEF o
  <2> QED
    BY <2>1, <2>2, <2>3 DEF IsRead, l
<1>6. bytes[a + 1] = item.type /\ o + 1 = (a + 1) + 2 /\ end \in Nat
  <2>1. 1 \in 1..n
    BY <1>1, <1>2, <1>3
  <2> QED
    BY <1>1, <1>2, <1>3, <2>1
<1>7. ParseItem(bytes, AtItem(a + 1, texts)) = AtItem(next, SetText(texts, item.type, text))
  <2> DEFINE s == AtItem(a + 1, texts)
  <2>1. s.ptr = a + 1 /\ s.texts = texts /\ s.ended = FALSE
    BY DEF AtItem
  <2>2. NextWhere(bytes, s.ptr + 2, TRUE) = end /\ SubSeq(bytes, s.ptr + 2, end - 1) = text /\ bytes[s.ptr] = item.type
    <3> HIDE DEF end, o
    <3> QED
      BY <1>5, <1>6, <2>1
  <2>3. ~(s.ended \/ end > Len(bytes))
    <3> HIDE DEF end
    <3> QED
      BY <1>1, <1>5, <1>6, <2>1 DEF z
  <2> HIDE DEF end, o, text
  <2>4. ParseItem(bytes, s) = [s EXCEPT !.texts = SetText(@, item.type, text), !.ptr = NextWhere(bytes, end + 1, FALSE)]
    <3> HIDE DEF s
    <3> QED
      BY <2>2, <2>3 DEF ParseItem
  <2> QED
    BY <2>4 DEF AtItem
<1>8. (a + n < z /\ bytes[a + n + 1] # Nul) => next = a + n + 1
  <2> SUFFICES ASSUME a + n < z, bytes[a + n + 1] # Nul PROVE next = a + n + 1
    OBVIOUS
  <2> DEFINE e == a + n + 1
             p == end + 1
  <2>1. p \in Nat /\ e \in Nat /\ p <= e /\ e <= z + 1
    BY <1>1, <1>2, <1>3
  <2>2. ASSUME NEW q \in p..(e - 1) PROVE bytes[q] = Nul
    <3>1. q - a \in (3 + l)..n /\ q - a \in 1..n /\ a + (q - a) = q
      BY <1>1, <1>2, <1>3
    <3> QED
      BY <1>1, <1>2, <3>1
  <2>3. \A q \in p..(e - 1) : (bytes[q] = Nul) # FALSE
    BY <2>2
  <2>4. (bytes[e] = Nul) = FALSE
    OBVIOUS
  <2> HIDE DEF p, e
  <2>5. NextWhere(bytes, p, FALSE) = e
    BY <1>1, <2>1, <2>3, <2>4, NextIs DEF z
  <2> QED
    BY <2>5 DEF e, p
<1> HIDE DEF next
<1>9. Taken(bytes, a, n, item, texts, next)
  BY <1>7, <1>8 DEF Taken, z
<1> QED
  BY <1>9 DEF n


-----------------------------------------------------------------------------
(* The texts of a track *)

\* The last of the first n items that gives a text of type k.
Said(items, n, k) ==
    LET given == {i \in 1..n : items[i].type = k /\ items[i].text # None}
    IN  IF given = {} THEN None ELSE items[Max(given)].text

AllSaid(items, n) == [k \in TextTypes |-> Said(items, n, k)]

\* One more item sets its text.
LEMMA OneMoreSaid ==
    ASSUME NEW items, NEW n \in Nat
    PROVE  SetText(AllSaid(items, n), items[n + 1].type, items[n + 1].text) = AllSaid(items, n + 1)
<1> DEFINE type == items[n + 1].type
           text == items[n + 1].text
           old == AllSaid(items, n)
           new == AllSaid(items, n + 1)
           set == SetText(old, type, text)
<1>1. set = IF text = None \/ type \notin TextTypes THEN old ELSE [old EXCEPT ![type] = text]
  BY DEF SetText
<1>2. old = [k \in TextTypes |-> old[k]] /\ new = [k \in TextTypes |-> new[k]]
  BY DEF AllSaid
<1>3. set = [k \in TextTypes |-> set[k]]
  <2> HIDE DEF old, text, type, set
  <2> QED
    BY <1>1, <1>2
<1>4. ASSUME NEW k \in TextTypes PROVE set[k] = new[k]
  <2> DEFINE G(m) == {i \in 1..m : items[i].type = k /\ items[i].text # None}
  <2>1. /\ old[k] = IF G(n) = {} THEN None ELSE items[Max(G(n))].text
        /\ new[k] = IF G(n + 1) = {} THEN None ELSE items[Max(G(n + 1))].text
    BY DEF AllSaid, Said
  <2>2. CASE type = k /\ text # None
    <3>1. n + 1 \in G(n + 1) /\ G(n + 1) \in SUBSET Int /\ \A i \in G(n + 1) : i <= n + 1
      BY <2>2
    <3> DEFINE H == G(n + 1)
               m == n + 1
    <3>2. m \in H /\ H \in SUBSET Int /\ \A i \in H : i <= m
      BY <3>1
    <3> HIDE DEF H, m
    <3>3. Max(H) = m
      BY <3>2, MaxIs
    <3>4. new[k] = text
      <4> HIDE DEF G, new
      <4>1. new[k] = IF H = {} THEN None ELSE items[Max(H)].text
        BY <2>1 DEF H
      <4> QED
        BY <3>2, <3>3, <4>1 DEF m
    <3>5. set[k] = text
      <4> HIDE DEF old, set, text, type
      <4> QED
        BY <1>1, <1>2, <2>2
    <3> QED
      BY <3>4, <3>5
  <2>3. CASE ~(type = k /\ text # None)
    <3>1. G(n + 1) = G(n)
      <4>1. \A i \in 1..(n + 1) : i \in 1..n \/ i = n + 1
        OBVIOUS
      <4>2. \A i \in 1..n : i \in 1..(n + 1)
        OBVIOUS
      <4> QED
        BY <2>3, <4>1, <4>2
    <3>2. set[k] = old[k]
      <4> HIDE DEF old, set, text, type
      <4> QED
        BY <1>1, <1>2, <2>3
    <3> HIDE DEF G, set, old, new
    <3> QED
      BY <2>1, <3>1, <3>2
  <2> HIDE DEF set, new
  <2> QED
    BY <2>2, <2>3
<1> HIDE DEF set, new
<1>5. set = new
  BY <1>2, <1>3, <1>4
<1> QED
  BY <1>5 DEF set, new

\* Nothing is said before the first item.
LEMMA NothingSaid == \A items : AllSaid(items, 0) = NoTexts
<1> SUFFICES ASSUME NEW items PROVE AllSaid(items, 0) = NoTexts
  OBVIOUS
<1>1. ASSUME NEW k PROVE Said(items, 0, k) = None
  <2>1. {i \in 1..0 : items[i].type = k /\ items[i].text # None} = {}
    OBVIOUS
  <2> QED
    BY <2>1 DEF Said
<1> QED
  BY <1>1 DEF AllSaid, NoTexts

\* At the end all that was mastered is said.
LEMMA EverythingSaid ==
    ASSUME NEW items \in Seq(Texts)
    PROVE  AllSaid(items, Len(items)) = [k \in TextTypes |-> Mastered(items, k)]
<1>1. DOMAIN items = 1..Len(items)
  BY LenProperties
<1>2. ASSUME NEW k PROVE Said(items, Len(items), k) = Mastered(items, k)
  BY <1>1 DEF Said, Mastered
<1> QED
  BY <1>2 DEF AllSaid

\* r holds the states of the loop over n items whose first begins at ptr.
Items(r, bytes, ptr, n) ==
    r = [i \in 0..n |-> IF i = 0 THEN AtItem(ptr, NoTexts) ELSE ParseItem(bytes, r[i - 1])]

\* The recursive function of these states exists.
LEMMA ItemsExist ==
    ASSUME NEW bytes, NEW ptr, NEW n \in Nat
    PROVE  \E r : Items(r, bytes, ptr, n)
<1> DEFINE e(f, i) == IF i = 0 THEN AtItem(ptr, NoTexts) ELSE ParseItem(bytes, f[i - 1])
           T == {m \in Nat : \E f : f = [i \in 0..m |-> e(f, i)]}
<1>1. 0 \in T
  <2> DEFINE f == [i \in 0..0 |-> AtItem(ptr, NoTexts)]
  <2>1. \A i \in 0..0 : e(f, i) = AtItem(ptr, NoTexts)
    OBVIOUS
  <2>2. f = [i \in 0..0 |-> e(f, i)]
    BY <2>1
  <2> HIDE DEF f, e
  <2> QED
    BY <2>2
<1>2. ASSUME NEW m \in Nat, m \in T PROVE m + 1 \in T
  <2>1. PICK f : f = [i \in 0..m |-> e(f, i)]
    <3> HIDE DEF e
    <3> QED
      BY <1>2
  <2> DEFINE g == [i \in 0..(m + 1) |-> IF i <= m THEN f[i] ELSE ParseItem(bytes, f[m])]
  <2>2. ASSUME NEW i \in 0..m PROVE f[i] = e(f, i)
    <3> HIDE DEF e
    <3> QED
      BY <2>1
  <2>3. ASSUME NEW i \in 0..(m + 1) PROVE g[i] = e(g, i)
    <3>1. CASE i <= m
      <4>1. i \in 0..m /\ g[i] = f[i] /\ (i # 0 => i - 1 \in 0..m /\ g[i - 1] = f[i - 1])
        BY <3>1
      <4> QED
        BY <2>2, <4>1
    <3>2. CASE ~(i <= m)
      <4>1. i = m + 1 /\ i # 0 /\ i - 1 = m /\ i - 1 \in 0..(m + 1) /\ i - 1 <= m
        BY <3>2
      <4>2. g[i] = ParseItem(bytes, f[m]) /\ g[i - 1] = f[m]
        BY <3>2, <4>1
      <4> QED
        BY <4>1, <4>2
    <3> QED
      BY <3>1, <3>2
  <2>4. g = [i \in 0..(m + 1) |-> g[i]]
    OBVIOUS
  <2> HIDE DEF g, e
  <2>5. g = [i \in 0..(m + 1) |-> e(g, i)]
    BY <2>3, <2>4
  <2> QED
    BY <2>5
<1>3. n \in T
  <2> HIDE DEF T
  <2> QED
    BY <1>1, <1>2, NatSetInduction
<1> QED
  BY <1>3 DEF Items

\* The first state is that before the first item, each other follows the one before.
LEMMA ItemsAt ==
    ASSUME NEW r, NEW bytes, NEW ptr, NEW n \in Nat, Items(r, bytes, ptr, n), NEW i \in 0..n
    PROVE  r[i] = IF i = 0 THEN AtItem(ptr, NoTexts) ELSE ParseItem(bytes, r[i - 1])
<1> DEFINE e(j) == IF j = 0 THEN AtItem(ptr, NoTexts) ELSE ParseItem(bytes, r[j - 1])
<1>1. r = [j \in 0..n |-> e(j)]
  BY DEF Items
<1> HIDE DEF e
<1>2. r[i] = e(i)
  BY <1>1
<1> QED
  BY <1>2 DEF e

\* The texts behind a position are those of the last state.
LEMMA TextsAtIs ==
    ASSUME NEW bytes, NEW pos, Len(bytes) \in Nat, pos \in 1..Len(bytes), bytes[pos] \in Nat
    PROVE  \E r : Items(r, bytes, pos + 4, bytes[pos]) /\ TextsAt(bytes, pos) = r[bytes[pos]].texts
<1> DEFINE n == bytes[pos]
           R == CHOOSE r : Items(r, bytes, pos + 4, n)
<1>1. Items(R, bytes, pos + 4, n)
  BY ItemsExist
<1>2. ~(pos = 0 \/ pos > Len(bytes))
  OBVIOUS
<1>3. TextsAt(bytes, pos) = R[n].texts
  BY <1>2 DEF TextsAt, Items, AtItem
<1> HIDE DEF R
<1> QED
  BY <1>1, <1>3


\* The items of a track in bytes.
Coded(t) == [i \in DOMAIN t.items |-> EncodeItem(t.items[i], t.pad)]

\* A track is its header and its items, laid out in that way.
LEMMA TrackBytes ==
    ASSUME NEW t \in TrackTexts
    PROVE  /\ t.items \in Seq(Texts) /\ t.pad \in Nat
           /\ Coded(t) \in Seq(Seq(Nat)) /\ Len(Coded(t)) = Len(t.items)
           /\ \A i \in 1..Len(t.items) : t.items[i] \in Texts /\ ItemAt(Coded(t)[i], t.items[i], t.pad)
           /\ EncodeTrack(t) = <<t.claimed, Nul, Nul, Nul>> \o FlattenSeq(Coded(t))
           /\ EncodeTrack(t) \in Seq(Nat)
           /\ t.claimed \in Nat /\ <<t.claimed, Nul, Nul, Nul>> \in Seq(Nat)
<1> DEFINE items == t.items
           n == Len(items)
           c == Coded(t)
           head == <<t.claimed, Nul, Nul, Nul>>
<1>1. items \in Seq(Texts) /\ t.pad \in Nat /\ t.claimed \in Byte
  BY DEF TrackTexts
<1>2. t.claimed \in Nat /\ head \in Seq(Nat)
  <2>1. \A b \in Byte : b \in Nat
    BY DEF Byte
  <2>2. t.claimed \in Nat /\ Nul \in Nat
    BY <1>1, <2>1 DEF Nul
  <2> QED
    BY <2>2
<1>3. n \in Nat /\ DOMAIN items = 1..n /\ \A i \in 1..n : items[i] \in Texts
  BY <1>1, LenProperties, ElementOfSeq
<1>4. ASSUME NEW i \in 1..n PROVE c[i] \in Seq(Nat) /\ ItemAt(c[i], items[i], t.pad)
  <2>1. c[i] = EncodeItem(items[i], t.pad)
    BY <1>3 DEF Coded
  <2> QED
    BY <1>1, <1>3, <2>1, ItemBytes
<1>5. c \in Seq(Seq(Nat)) /\ Len(c) = n
  <2>1. c = [i \in 1..n |-> c[i]]
    BY <1>3 DEF Coded
  <2> HIDE DEF c, n
  <2> QED
    BY <1>3, <1>4, <2>1, FunctionSeq
<1>6. EncodeTrack(t) = head \o FlattenSeq(c)
  BY DEF EncodeTrack, Coded
<1>7. EncodeTrack(t) \in Seq(Nat)
  <2> HIDE DEF c, head
  <2>1. FlattenSeq(c) \in Seq(Nat)
    BY <1>5, FlattenType
  <2> QED
    BY <1>2, <1>6, <2>1, ConcatProperties
<1> HIDE DEF c
<1> QED
  BY <1>1, <1>2, <1>3, <1>4, <1>5, <1>6, <1>7 DEF c

\* The sequences in front of the one behind the k-th.
LEMMA PartLength ==
    ASSUME NEW S, NEW seqs \in Seq(Seq(S)), NEW k \in 1..Len(seqs)
    PROVE  /\ Len(FlattenSeq(SubSeq(seqs, 1, k - 1))) \in Nat
           /\ Len(FlattenSeq(SubSeq(seqs, 1, k))) = Len(FlattenSeq(SubSeq(seqs, 1, k - 1))) + Len(seqs[k])
<1> DEFINE a == SubSeq(seqs, 1, k - 1)
           b == SubSeq(seqs, 1, k)
           e == seqs[k]
           n == Len(seqs)
           m == k - 1
<1>0. n \in Nat /\ m \in Nat /\ k = m + 1 /\ m <= n /\ m + 1 <= n /\ m + 1 \in 1..n
  BY LenProperties
<1>1. a \in Seq(Seq(S)) /\ e \in Seq(S)
  BY FlattenPart, ElementOfSeq
<1>2. b = Append(a, e)
  <2>1. a = [i \in 1..m |-> seqs[i]]
    BY <1>0, SubSeqProperties
  <2>2. b = [i \in 1..(m + 1) |-> seqs[i]]
    BY <1>0, SubSeqProperties
  <2>3. b \in [1..(m + 1) -> Seq(S)] /\ b[m + 1] = e /\ [i \in 1..m |-> b[i]] = a
    <3>1. \A i \in 1..(m + 1) : i \in 1..n /\ seqs[i] \in Seq(S)
      BY <1>0, ElementOfSeq
    <3>2. \A i \in 1..m : i \in 1..(m + 1)
      BY <1>0
    <3>3. m + 1 \in 1..(m + 1)
      BY <1>0
    <3> HIDE DEF a, b, m, n
    <3>4. b \in [1..(m + 1) -> Seq(S)]
      BY <2>2, <3>1
    <3>5. b[m + 1] = e
      BY <1>0, <2>2, <3>3
    <3>6. [i \in 1..m |-> b[i]] = a
      BY <2>1, <2>2, <3>2
    <3> QED
      BY <3>4, <3>5, <3>6
  <2> HIDE DEF a, b, m, e, n
  <2> QED
    BY <1>0, <2>3, AppendLast
<1> HIDE DEF a, b, e
<1>3. FlattenSeq(b) = FlattenSeq(a) \o e /\ FlattenSeq(a) \in Seq(S)
  BY <1>1, <1>2, FlattenAppend, FlattenType
<1>4. Len(FlattenSeq(b)) = Len(FlattenSeq(a)) + Len(e) /\ Len(FlattenSeq(a)) \in Nat
  BY <1>1, <1>3, ConcatElements
<1> QED
  BY <1>4 DEF a, b, e


\* The texts of a track whose header counts its items are found where it lies.
LEMMA TrackParsed ==
    ASSUME NEW t \in TrackTexts, t.claimed = Len(t.items),
           NEW bytes, NEW a, Lies(bytes, a, EncodeTrack(t))
    PROVE  TextsAt(bytes, a + 1) = [k \in TextTypes |-> Mastered(t.items, k)]
<1> DEFINE items == t.items
           n == Len(items)
           c == Coded(t)
           head == <<t.claimed, Nul, Nul, Nul>>
           track == EncodeTrack(t)
           L(i) == Len(FlattenSeq(SubSeq(c, 1, i - 1)))
           p(i) == a + (4 + L(i))
           len == Len(bytes)
<1>1. /\ items \in Seq(Texts) /\ t.pad \in Nat
      /\ c \in Seq(Seq(Nat)) /\ Len(c) = n
      /\ \A i \in 1..n : items[i] \in Texts /\ ItemAt(c[i], items[i], t.pad)
      /\ track = head \o FlattenSeq(c) /\ track \in Seq(Nat)
      /\ n \in Nat /\ head \in Seq(Nat)
  BY TrackBytes
<1>2. Len(head) = 4 /\ head[1] = n
  OBVIOUS
<1> HIDE DEF c, head, track
<1>3. /\ a \in Nat /\ len \in Nat /\ Len(track) \in Nat /\ a + Len(track) <= len
      /\ \A j \in 1..Len(track) : bytes[a + j] = track[j]
      /\ Lies(bytes, a, track)
  BY DEF Lies, track
<1>4. a + 1 \in 1..len /\ bytes[a + 1] = n
  <2>1. FlattenSeq(c) \in Seq(Nat)
    BY <1>1, FlattenType
  <2> DEFINE f == FlattenSeq(c)
  <2> HIDE DEF f
  <2>2. /\ Len(head \o f) = Len(head) + Len(f) /\ Len(f) \in Nat
        /\ \A k \in 1..Len(head) : (head \o f)[k] = head[k]
    BY <1>1, <2>1, ConcatElements DEF f
  <2>3. Len(track) = 4 + Len(f) /\ track[1] = n
    BY <1>1, <1>2, <2>2 DEF f
  <2>4. 1 \in 1..Len(track)
    BY <2>2, <2>3
  <2> QED
    BY <1>3, <2>3, <2>4
<1>5. ASSUME NEW i \in 1..n PROVE L(i) \in Nat /\ p(i) + Len(c[i]) = p(i + 1)
  <2> DEFINE x == Len(FlattenSeq(SubSeq(c, 1, i - 1)))
             y == Len(FlattenSeq(SubSeq(c, 1, i)))
             e == Len(c[i])
  <2>1. x \in Nat /\ y = x + e
    BY <1>1, PartLength
  <2>2. (i + 1) - 1 = i
    OBVIOUS
  <2>3. L(i) = x /\ L(i + 1) = y
    BY <2>2
  <2>4. e \in Nat
    BY <1>1, ElementOfSeq, LenProperties
  <2> HIDE DEF x, y, e, L
  <2>5. (a + (4 + x)) + e = a + (4 + y)
    BY <1>3, <2>1, <2>4
  <2> QED
    BY <2>1, <2>3, <2>5 DEF e
<1>6. ASSUME NEW i \in 1..n PROVE Lies(bytes, p(i), c[i])
  <2>1. Lies(track, Len(head) + L(i), c[i])
    BY <1>1, LiesBehind
  <2> DEFINE q == Len(head) + L(i)
  <2>2. Lies(track, q, c[i])
    BY <2>1
  <2> HIDE DEF q
  <2>3. Lies(bytes, a + q, c[i])
    BY <1>3, <2>2, LiesInside
  <2> HIDE DEF L
  <2>4. a + q = p(i)
    BY <1>2 DEF q
  <2> QED
    BY <2>3, <2>4
<1>7. 1 \in 1..n => p(1) + 1 = (a + 1) + 4
  <2> SUFFICES ASSUME 1 \in 1..n PROVE p(1) + 1 = (a + 1) + 4
    OBVIOUS
  <2>1. SubSeq(c, 1, 1 - 1) = <<>>
    BY <1>1
  <2>2. L(1) = 0
    <3>1. L(1) = Len(FlattenSeq(SubSeq(c, 1, 1 - 1)))
      OBVIOUS
    <3>2. Len(<<>>) = 0
      OBVIOUS
    <3> HIDE DEF L
    <3> QED
      BY <2>1, <3>1, <3>2, FlattenEmpty, Zenon
  <2> HIDE DEF L
  <2> QED
    BY <1>3, <2>2
<1>8. ASSUME NEW i \in 1..n PROVE p(i) \in Nat /\ p(i) < len /\ bytes[p(i) + 1] # Nul
  <2> DEFINE q == p(i)
             w == c[i]
  <2>1. /\ q \in Nat /\ Len(w) \in Nat /\ q + Len(w) <= len
        /\ \A j \in 1..Len(w) : bytes[q + j] = w[j]
    BY <1>6 DEF Lies
  <2>2. items[i] \in Texts /\ ItemAt(w, items[i], t.pad)
    BY <1>1
  <2>3. Len(w) = 3 + Len(items[i].text) + t.pad /\ w[1] = items[i].type
    BY <2>2 DEF ItemAt
  <2>4. items[i].type # Nul /\ Len(items[i].text) \in Nat
    <3> DEFINE item == items[i]
    <3> HIDE DEF item
    <3>1. item \in Texts
      BY <2>2 DEF item
    <3>2. item.type \in Char /\ item.text \in Seq(Char)
      BY <3>1 DEF Texts
    <3>3. \A b \in Char : b # Nul
      BY DEF Char
    <3> QED
      BY <3>2, <3>3, LenProperties DEF item
  <2> HIDE DEF q, w, items
  <2>5. 1 \in 1..Len(w)
    BY <1>1, <2>1, <2>3, <2>4, SMTT(30)
  <2>6. q \in Nat /\ q < len /\ bytes[q + 1] # Nul
    BY <1>3, <2>1, <2>3, <2>4, <2>5
  <2> QED
    BY <2>6 DEF q
<1> DEFINE start == (a + 1) + 4
<1>9. PICK r : Items(r, bytes, start, n) /\ TextsAt(bytes, a + 1) = r[n].texts
  <2> DEFINE b == a + 1
  <2> HIDE DEF b
  <2>1. \E r : Items(r, bytes, b + 4, bytes[b]) /\ TextsAt(bytes, b) = r[bytes[b]].texts
    BY <1>1, <1>3, <1>4, TextsAtIs DEF b
  <2> QED
    BY <1>4, <2>1 DEF b
<1> DEFINE Reaches(i) == \E ptr : r[i] = AtItem(ptr, AllSaid(items, i)) /\ (i < n => ptr = p(i + 1) + 1)
           S == {i \in Nat : i \in 0..n => Reaches(i)}
<1>10. 0 \in S
  <2>1. r[0] = AtItem(start, NoTexts)
    <3>1. 0 \in 0..n
      BY <1>1
    <3> DEFINE z == 0
    <3> HIDE DEF z, start
    <3>2. r[z] = IF z = 0 THEN AtItem(start, NoTexts) ELSE ParseItem(bytes, r[z - 1])
      BY <1>1, <1>9, <3>1, ItemsAt DEF z
    <3> QED
      BY <3>2 DEF z
  <2>2. AllSaid(items, 0) = NoTexts
    BY NothingSaid
  <2>3. 0 < n => start = p(0 + 1) + 1
    <3>1. 0 < n => 1 \in 1..n
      BY <1>1
    <3>2. 0 + 1 = 1
      OBVIOUS
    <3> HIDE DEF p
    <3> QED
      BY <1>7, <3>1, <3>2
  <2> HIDE DEF p, start
  <2> QED
    BY <2>1, <2>2, <2>3
<1>11. ASSUME NEW i \in Nat, i \in S PROVE i + 1 \in S
  <2> SUFFICES ASSUME i + 1 \in 0..n PROVE Reaches(i + 1)
    <3> HIDE DEF Reaches
    <3> QED
      OBVIOUS
  <2> DEFINE k == i + 1
             item == items[k]
  <2>1. i \in 0..n /\ i < n /\ k \in 1..n /\ k \in 0..n /\ k - 1 = i /\ k # 0
    BY <1>1
  <2>2. r[i] = AtItem(p(k) + 1, AllSaid(items, i))
    <3>1. Reaches(i)
      <4> HIDE DEF Reaches
      <4> QED
        BY <1>11, <2>1
    <3> HIDE DEF p
    <3> QED
      BY <2>1, <3>1
  <2>3. r[k] = ParseItem(bytes, r[i])
    <3> HIDE DEF k, start
    <3>1. r[k] = IF k = 0 THEN AtItem(start, NoTexts) ELSE ParseItem(bytes, r[k - 1])
      BY <1>1, <1>9, <2>1, ItemsAt
    <3> QED
      BY <2>1, <3>1
  <2>4. PICK next : /\ ParseItem(bytes, AtItem(p(k) + 1, AllSaid(items, i)))
                         = AtItem(next, SetText(AllSaid(items, i), item.type, item.text))
                    /\ (p(k) + Len(c[k]) < len /\ bytes[p(k) + Len(c[k]) + 1] # Nul)
                         => next = p(k) + Len(c[k]) + 1
    <3> DEFINE q == p(k)
               w == c[k]
               said == AllSaid(items, i)
               pad == t.pad
    <3>1. Lies(bytes, q, w) /\ item \in Texts /\ ItemAt(w, item, pad) /\ pad \in Nat
      BY <1>1, <1>6, <2>1
    <3> HIDE DEF q, w, said, item, pad
    <3>2. PICK next : Taken(bytes, q, Len(w), item, said, next)
      BY <3>1, ItemParsed
    <3>3. /\ ParseItem(bytes, AtItem(q + 1, said)) = AtItem(next, SetText(said, item.type, item.text))
          /\ (q + Len(w) < len /\ bytes[q + Len(w) + 1] # Nul) => next = q + Len(w) + 1
      BY <3>2 DEF Taken
    <3> QED
      BY <3>3 DEF q, w, said
  <2>5. r[k] = AtItem(next, AllSaid(items, k))
    <3>1. SetText(AllSaid(items, i), items[i + 1].type, items[i + 1].text) = AllSaid(items, i + 1)
      BY OneMoreSaid
    <3> HIDE DEF p
    <3> QED
      BY <2>2, <2>3, <2>4, <3>1
  <2>6. k < n => next = p(k + 1) + 1
    <3> SUFFICES ASSUME k < n PROVE next = p(k + 1) + 1
      OBVIOUS
    <3>1. k + 1 \in 1..n
      BY <1>1, <2>1
    <3>2. p(k) + Len(c[k]) = p(k + 1)
      BY <1>5, <2>1
    <3>3. p(k + 1) < len /\ bytes[p(k + 1) + 1] # Nul
      BY <1>8, <3>1
    <3> HIDE DEF p, k
    <3> QED
      BY <2>4, <3>2, <3>3
  <2> HIDE DEF p, k
  <2>7. Reaches(k)
    BY <2>5, <2>6
  <2> QED
    BY <2>7 DEF k
<1> HIDE DEF Reaches
<1>12. n \in S
  <2> HIDE DEF S
  <2> QED
    BY <1>1, <1>10, <1>11, NatSetInduction
<1>13. Reaches(n)
  BY <1>1, <1>12
<1>14. PICK ptr : r[n] = AtItem(ptr, AllSaid(items, n))
  <2> HIDE DEF p
  <2> QED
    BY <1>13 DEF Reaches
<1>15. r[n].texts = AllSaid(items, n)
  BY <1>14 DEF AtItem
<1>16. AllSaid(items, n) = [k \in TextTypes |-> Mastered(items, k)]
  <2> HIDE DEF items
  <2> QED
    BY <1>1, EverythingSaid
<1> QED
  BY <1>9, <1>15, <1>16


\* The order in which the tracks' texts are stored names each track.
Orders(order, tracks) ==
    DOMAIN order = DOMAIN tracks /\ {order[k] : k \in DOMAIN order} = DOMAIN tracks

\* Each track finds its texts behind its position, in whatever order the tracks
\* are stored.
LEMMA SectionRead ==
    ASSUME NEW tracks \in Seq(TrackTexts), NEW order \in Seq(Nat), Orders(order, tracks),
           NEW t \in DOMAIN tracks, tracks[t].claimed = Len(tracks[t].items)
    PROVE  ParseTrackText(EncodeSection(tracks, order), Len(tracks))[t]
             = [k \in TextTypes |-> Mastered(tracks[t].items, k)]
<1> DEFINE n == Len(tracks)
           coded == [k \in DOMAIN order |-> IF tracks[order[k]].items = <<>> THEN <<>>
                                            ELSE EncodeTrack(tracks[order[k]])]
           k == CHOOSE i \in DOMAIN order : order[i] = t
           track == tracks[t]
           section == EncodeSection(tracks, order)
           g == Len(FlattenSeq(SubSeq(coded, 1, k - 1)))
           head == <<Nul>>
           w == head \o FlattenSeq(coded)
           all == [x \in TextTypes |-> Mastered(track.items, x)]
<1>1. /\ n \in Nat /\ DOMAIN tracks = 1..n /\ DOMAIN order = 1..n /\ t \in 1..n
      /\ \A i \in 1..n : tracks[i] \in TrackTexts /\ order[i] \in 1..n
  <2>1. n \in Nat /\ DOMAIN tracks = 1..n
    BY LenProperties
  <2>2. \A i \in 1..n : tracks[i] \in TrackTexts
    BY <2>1, ElementOfSeq
  <2>3. DOMAIN order = DOMAIN tracks /\ \A i \in DOMAIN order : order[i] \in DOMAIN tracks
    BY DEF Orders
  <2> QED
    BY <2>1, <2>2, <2>3
<1>2. k \in 1..n /\ order[k] = t
  <2>1. \E i \in DOMAIN order : order[i] = t
    BY DEF Orders
  <2> QED
    BY <1>1, <2>1
<1>3. /\ section.bytes = w
      /\ DOMAIN section.positions = DOMAIN tracks
      /\ section.positions[t] = IF track.items = <<>> THEN 0 ELSE 2 + g
  <2>1. section.bytes = w
    BY DEF EncodeSection
  <2>2. section.positions = [x \in DOMAIN tracks |->
                              LET i == CHOOSE j \in DOMAIN order : order[j] = x
                              IN  IF tracks[x].items = <<>> THEN 0 ELSE PlaceOf(coded, i)]
    BY DEF EncodeSection
  <2>3. section.positions[t] = IF track.items = <<>> THEN 0 ELSE PlaceOf(coded, k)
    <3> HIDE DEF coded, section
    <3> QED
      BY <2>2
  <2> QED
    BY <2>1, <2>2, <2>3 DEF PlaceOf
<1>4. ParseTrackText(section, n)[t]
        = IF track.items = <<>> THEN TextsAt(w, 0) ELSE TextsAt(w, 2 + g)
  <2> HIDE DEF section, w, g, n
  <2> QED
    BY <1>1, <1>3 DEF ParseTrackText
<1>5. track \in TrackTexts /\ track.claimed = Len(track.items)
  BY <1>1
<1>6. CASE track.items = <<>>
  <2>1. TextsAt(w, 0) = NoTexts
    BY DEF TextsAt
  <2> DEFINE items == track.items
  <2>2. items \in Seq(Texts) /\ Len(items) = 0
    BY <1>5, <1>6, TrackBytes
  <2> HIDE DEF items, w, section
  <2>3. AllSaid(items, Len(items)) = [x \in TextTypes |-> Mastered(items, x)]
    BY <2>2, EverythingSaid
  <2>4. AllSaid(items, 0) = NoTexts
    BY NothingSaid
  <2>5. ParseTrackText(section, n)[t] = all
    BY <1>4, <1>6, <2>1, <2>2, <2>3, <2>4 DEF items
  <2> QED
    BY <2>5 DEF section
<1>7. CASE track.items # <<>>
  <2> DEFINE a == 1 + g
  <2>1. coded = [i \in 1..n |-> coded[i]] /\ \A i \in 1..n : coded[i] \in Seq(Nat)
    <3>1. ASSUME NEW i \in 1..n PROVE coded[i] \in Seq(Nat)
      <4>1. EncodeTrack(tracks[order[i]]) \in Seq(Nat)
        BY <1>1, TrackBytes
      <4>2. <<>> \in Seq(Nat)
        OBVIOUS
      <4> QED
        BY <1>1, <4>1, <4>2
    <3> QED
      BY <1>1, <3>1
  <2>2. coded[k] = EncodeTrack(track)
    BY <1>1, <1>2, <1>7
  <2> HIDE DEF coded, track, k, section, all
  <2>3. coded \in Seq(Seq(Nat)) /\ Len(coded) = n
    BY <1>1, <2>1, FunctionSeq
  <2>4. head \in Seq(Nat) /\ Len(head) = 1
    BY DEF Nul
  <2> HIDE DEF head
  <2>5. g \in Nat /\ Lies(w, a, coded[k])
    <3>1. k \in 1..Len(coded)
      BY <1>2, <2>3
    <3>2. Lies(w, Len(head) + g, coded[k])
      BY <2>3, <3>1, <2>4, LiesBehind
    <3>3. g \in Nat
      BY <2>3, <3>1, PartLength
    <3> QED
      BY <2>4, <3>2, <3>3
  <2> HIDE DEF w, g, n
  <2>6. a + 1 = 2 + g
    BY <2>5
  <2> HIDE DEF a
  <2>7. TextsAt(w, a + 1) = [x \in TextTypes |-> Mastered(track.items, x)]
    BY <1>5, <2>2, <2>5, TrackParsed
  <2>8. ParseTrackText(section, n)[t] = all
    BY <1>4, <1>7, <2>6, <2>7 DEF all
  <2> QED
    BY <2>8 DEF section, n, all, track
<1> QED
  BY <1>6, <1>7

\* The texts of the tracks and of the master text come back from the disc as
\* they were mastered, wherever they are stored and however they are padded
\* (area_toc.rs 336-454, master_toc.rs 251-276).
THEOREM DiscTextsSurvive == Spec => []TextsSurvive
<1>1. DecodersInv => TextsSurvive
  <2> SUFFICES ASSUME DecodersInv, output.done, "disc" \in DOMAIN input PROVE TextsSurvive
    BY DEF TextsSurvive
  <2> DEFINE d == input.disc
  <2>1. /\ d \in Discs /\ output.texts = TextsOf(d) /\ output.master = MasterOf(d)
    BY DiscRead DEF OfDisc
  <2>2. /\ d.tracks \in Seq(TrackTexts) /\ d.order \in Seq(Nat) /\ d.master \in MasterTexts
        /\ Orders(d.order, d.tracks)
    BY <2>1, DiscsAssumption DEF Orders
  <2> HIDE DEF d
  <2>3. ASSUME NEW t \in DOMAIN d.tracks, d.tracks[t].claimed = Len(d.tracks[t].items)
        PROVE  output.texts[t] = [k \in TextTypes |-> Mastered(d.tracks[t].items, k)]
    <3> DEFINE tracks == d.tracks
               order == d.order
    <3>1. output.texts = ParseTrackText(EncodeSection(tracks, order), Len(tracks))
      BY <2>1 DEF TextsOf
    <3>2. /\ tracks \in Seq(TrackTexts) /\ order \in Seq(Nat) /\ Orders(order, tracks)
          /\ t \in DOMAIN tracks /\ tracks[t].claimed = Len(tracks[t].items)
      BY <2>2, <2>3
    <3> HIDE DEF tracks, order
    <3>3. output.texts[t] = [k \in TextTypes |-> Mastered(tracks[t].items, k)]
      BY <3>1, <3>2, SectionRead
    <3> QED
      BY <3>3 DEF tracks
  <2>4. ASSUME NEW f \in DOMAIN d.master PROVE output.master[f] = Trim(d.master[f])
    BY <2>1, <2>2, MasterRead DEF MasterOf
  <2> QED
    BY <2>3, <2>4 DEF TextsSurvive, d
<1> QED
  BY <1>1, DecodersAlways, PTL

=============================================================================
