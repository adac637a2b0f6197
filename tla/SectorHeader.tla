----------------------------- MODULE SectorHeader -----------------------------
(***************************************************************************)
(* The header of an audio sector (src/scarletbook/audio.rs), byte by byte: *)
(* a frame header byte, two bytes for each packet, three or four for each  *)
(* frame info, then the packets' payload.  A sector is given by the bytes  *)
(* of its header; of the payload only the place matters.  A shift is a     *)
(* division, a mask a remainder.                                           *)
(***************************************************************************)
EXTENDS Naturals, Sequences, FiniteSets

CONSTANT SectorSize     \* 2048

\* The longest header, of seven packets and seven frame infos, fits.
ASSUME SectorSizeAssumption == SectorSize \in Nat /\ 1 + 7 * 2 + 7 * 4 <= SectorSize

\* The width bits of a byte from bit low on.
Bits(byte, low, width) == (byte \div 2^low) % 2^width

FrameHeader(byte) ==
    [dst |-> Bits(byte, 0, 1) = 1, infos |-> Bits(byte, 2, 3), packets |-> Bits(byte, 5, 3)]

\* Mutant: the length's high bits are not shifted into place.
PacketInfo_LowByte(b) ==
    [start |-> Bits(b[1], 7, 1) = 1, type |-> Bits(b[1], 3, 3), length |-> Bits(b[1], 0, 3) + b[2]]

PacketInfo(b) ==
    [start |-> Bits(b[1], 7, 1) = 1, type |-> Bits(b[1], 3, 3),
     length |-> 256 * Bits(b[1], 0, 3) + b[2]]

\* channel_bits is byte 3 masked with 0xE1: bits 0, 5, 6 and 7 stay in place.
ChannelBits(byte) == 32 * Bits(byte, 5, 3) + Bits(byte, 0, 1)

FrameInfo(b, dst) ==
    [time |-> SubSeq(b, 1, 3),
     count |-> IF dst THEN Bits(b[4], 2, 5) ELSE 0,
     channelBits |-> IF dst THEN ChannelBits(b[4]) ELSE 0]

DerivedChannelCount(info) ==
    CASE Bits(info.channelBits, 1, 1) = 1 /\ Bits(info.channelBits, 0, 1) = 0 -> 6
      [] Bits(info.channelBits, 1, 1) = 0 /\ Bits(info.channelBits, 0, 1) = 1 -> 5
      [] OTHER -> 2

InfoSize(dst) == IF dst THEN 4 ELSE 3

\* The two loops over the header: packets first, then frame infos.
Headers(bytes) ==
    LET h  == FrameHeader(bytes[1])
        at == 1 + 2 * h.packets
        n  == InfoSize(h.dst)
    IN  [packets |-> [i \in 1..h.packets |-> PacketInfo(SubSeq(bytes, 2 * i, 2 * i + 1))],
         infos   |-> [i \in 1..h.infos |-> FrameInfo(SubSeq(bytes, at + n * (i - 1) + 1, at + n * i), h.dst)],
         offset  |-> at + n * h.infos]

\* Where each packet's payload begins, if the sector holds it, and where the
\* last one ends.
PayloadsAt(h) ==
    LET at[i \in 1..(Len(h.packets) + 1)] ==
          IF i = 1 THEN h.offset ELSE at[i - 1] + h.packets[i - 1].length
    IN  at

\* The packets before the first that runs beyond the sector, with their places;
\* an audio frame start takes the next frame info, if there is one (which the
\* parser looks at in compressed areas only).
Split(bytes) ==
    LET h    == Headers(bytes)
        at   == PayloadsAt(h)
        held == {i \in DOMAIN h.packets : \A j \in 1..i : at[j] + h.packets[j].length <= SectorSize}
        starts(i) == {j \in 1..i : h.packets[j].start /\ h.packets[j].type = 2}
    IN  [ok |-> held = DOMAIN h.packets,
         pieces |-> [k \in held |->
                       [packet |-> h.packets[k], from |-> at[k],
                        info |-> IF k \in starts(k) /\ Cardinality(starts(k)) <= Len(h.infos)
                                 THEN <<h.infos[Cardinality(starts(k))]>> ELSE <<>>]]]

=============================================================================
