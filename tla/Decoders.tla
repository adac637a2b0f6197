------------------------------- MODULE Decoders -------------------------------
(***************************************************************************)
(* The pure decoders against what a disc was mastered with: the header of  *)
(* an audio sector (SectorHeader), the texts of tracks and master and the  *)
(* tag made of them (TrackTag).  A disc is given by what it says; Encode...*)
(* lays that out in bytes, and one step of the program takes the bytes     *)
(* apart again.                                                            *)
(***************************************************************************)
EXTENDS SectorHeader, TrackTag

CONSTANTS
    Sectors,    \* audio sectors: dst, reserved bits, infos and packets
    Discs       \* track texts, the order they are stored in, master text, TOC fields

Byte == 0..255
Char == Byte \ {Nul}

Infos   == [time : [1..3 -> Byte], count : 0..31, bit1 : BOOLEAN, bit2 : BOOLEAN, bit3 : BOOLEAN]
Packets == [start : BOOLEAN, type : 0..7, length : 0..2047]

\* The counts of infos and packets have three bits each.
ASSUME SectorsAssumption ==
    \A s \in Sectors :
      /\ s \in [dst : BOOLEAN, reserved : {0, 1}, infos : Seq(Infos), packets : Seq(Packets)]
      /\ Len(s.infos) <= 7 /\ Len(s.packets) <= 7

Texts      == [type : Char, text : Seq(Char)]
TrackTexts == [items : Seq(Texts), pad : Nat, claimed : Byte]

\* The fields of the master text, in its order.
MasterFields == <<"albumTitle", "albumArtist", "discTitle", "discArtist">>
MasterTexts  == [albumTitle : Seq(Char), albumArtist : Seq(Char),
                 discTitle : Seq(Char), discArtist : Seq(Char)]

\* A catalog number neither begins nor ends with a blank.
Catalogs ==
    {c \in [text : Seq(Char), fill : {Nul, Blank}] :
       c.text # None => c.text[1] # Blank /\ c.text[Len(c.text)] # Blank}

Genres == [category : Byte, genre : Nat]
Rests  == [setSize : Nat, sequence : Nat, discCatalog : Catalogs, albumCatalog : Catalogs,
           isrc : Seq(Seq(Byte) \ {<<>>}), date : Seq(Byte), track : Seq(Byte),
           trackGenre : Seq(Genres), discGenres : Seq(Genres), albumGenres : Seq(Genres),
           names : Seq(Seq(Byte))]

\* The texts of the tracks may be stored in any order.
ASSUME DiscsAssumption ==
    \A d \in Discs :
      /\ d \in [tracks : Seq(TrackTexts), order : Seq(Nat), master : MasterTexts, rest : Rests]
      /\ DOMAIN d.order = DOMAIN d.tracks
      /\ {d.order[k] : k \in DOMAIN d.order} = DOMAIN d.tracks

VARIABLES
    input,      \* the sector or the disc that is read
    output      \* Pending, then what the program makes of it

vars == <<input, output>>

Pending == [done |-> FALSE]

Init ==
    /\ input \in [sector : Sectors] \cup [disc : Discs]
    /\ output = Pending

-----------------------------------------------------------------------------
(* The bytes on the disc *)

Bit(b) == IF b THEN 1 ELSE 0

EncodePacket(p, reserved) ==
    <<128 * Bit(p.start) + 64 * reserved + 8 * p.type + p.length \div 256, p.length % 256>>

\* channel_bit_3, channel_bit_2, five bits of sector count, channel_bit_1.
EncodeInfo(i, dst) ==
    i.time \o IF dst THEN <<Bit(i.bit3) + 2 * Bit(i.bit2) + 4 * i.count + 128 * Bit(i.bit1)>> ELSE <<>>

EncodeSector(s) ==
    <<Bit(s.dst) + 2 * s.reserved + 4 * Len(s.infos) + 32 * Len(s.packets)>>
    \o FlattenSeq([i \in DOMAIN s.packets |-> EncodePacket(s.packets[i], s.reserved)])
    \o FlattenSeq([i \in DOMAIN s.infos |-> EncodeInfo(s.infos[i], s.dst)])

Zeros(n) == [i \in 1..n |-> Nul]

EncodeItem(item, pad) == <<item.type, Blank>> \o item.text \o <<Nul>> \o Zeros(pad)

\* A track's texts; its header may claim an item more or less.
EncodeTrack(t) ==
    <<t.claimed, Nul, Nul, Nul>>
    \o FlattenSeq([i \in DOMAIN t.items |-> EncodeItem(t.items[i], t.pad)])

\* The position of the k-th of the pieces that lie one behind the other behind
\* a byte that is none of theirs.
PlaceOf(coded, k) == 2 + Len(FlattenSeq(SubSeq(coded, 1, k - 1)))

\* The tracks' texts, in any order, and a table of their positions; a track
\* without texts has none.
EncodeSection(tracks, order) ==
    LET coded == [k \in DOMAIN order |-> IF tracks[order[k]].items = <<>> THEN <<>>
                                         ELSE EncodeTrack(tracks[order[k]])]
    IN  [bytes |-> <<Nul>> \o FlattenSeq(coded),
         positions |-> [t \in DOMAIN tracks |->
                          LET k == CHOOSE i \in DOMAIN order : order[i] = t
                          IN  IF tracks[t].items = <<>> THEN 0 ELSE PlaceOf(coded, k)]]

\* Strings one behind the other, each with its zero; an empty one has no place.
EncodeMaster(texts) ==
    LET coded == [k \in DOMAIN MasterFields |-> Append(texts[MasterFields[k]], Nul)]
    IN  [bytes |-> <<Nul>> \o FlattenSeq(coded),
         positions |-> [f \in DOMAIN texts |->
                          LET k == CHOOSE i \in DOMAIN MasterFields : MasterFields[i] = f
                          IN  IF texts[f] = None THEN 0 ELSE PlaceOf(coded, k)]]

\* A catalog number fills its field with blanks or zeros.
EncodeCatalog(c) == c.text \o <<c.fill, c.fill>>

EncodeToc(rest) ==
    [rest EXCEPT !.discCatalog = EncodeCatalog(@), !.albumCatalog = EncodeCatalog(@)]

-----------------------------------------------------------------------------
(* The program's step *)

ReadSector ==
    /\ output = Pending /\ "sector" \in DOMAIN input
    /\ output' = [done |-> TRUE, split |-> Split(EncodeSector(input.sector))]
    /\ UNCHANGED input

ReadDisc ==
    /\ output = Pending /\ "disc" \in DOMAIN input
    /\ LET d == input.disc
           texts  == ParseTrackText(EncodeSection(d.tracks, d.order), Len(d.tracks))
           master == MasterText(EncodeMaster(d.master))
       IN  output' = [done |-> TRUE, texts |-> texts, master |-> master,
                      tags |-> [t \in DOMAIN texts |-> RenderId3(texts[t], master, EncodeToc(d.rest))]]
    /\ UNCHANGED input

Stop == output.done /\ UNCHANGED vars

Next == ReadSector \/ ReadDisc \/ Stop
Spec == Init /\ [][Next]_vars

-----------------------------------------------------------------------------
(* What the decoders promise *)

\* The payload of a sector is cut into the packets the header lists, each read
\* from where it lies, never beyond the sector, with the frame info of its own
\* frame; the sector is refused only if its packets do not fit, and then those
\* before are taken (audio.rs 252-330, 384-388).
SectorIsSplit ==
    output.done /\ "sector" \in DOMAIN input =>
      LET s      == input.sector
          pieces == output.split.pieces
          n      == Cardinality(DOMAIN pieces)
          at(k)  == IF k = 1 THEN Len(EncodeSector(s)) ELSE pieces[k - 1].from + s.packets[k - 1].length
          starts == {k \in DOMAIN s.packets : s.packets[k].start /\ s.packets[k].type = 2}
          rank(k) == Cardinality({i \in starts : i <= k})
      IN  /\ n <= Len(s.packets) /\ DOMAIN pieces = 1..n
          /\ output.split.ok <=> n = Len(s.packets)
          /\ n < Len(s.packets) => at(n + 1) + s.packets[n + 1].length > SectorSize
          /\ \A k \in 1..n :
               /\ pieces[k].packet = s.packets[k]
               /\ pieces[k].from = at(k) /\ at(k) + s.packets[k].length <= SectorSize
               /\ IF k \in starts /\ rank(k) <= Len(s.infos)
                  THEN LET info == pieces[k].info[1]
                       IN  /\ pieces[k].info # <<>> /\ info.time = s.infos[rank(k)].time
                           /\ info.count = IF s.dst THEN s.infos[rank(k)].count ELSE 0
                  ELSE pieces[k].info = <<>>

\* "byte-3 layout (LSB first): channel_bit_3 (bit 0), channel_bit_2 (bit 1)" and
\* "Derive channel count from `channel_bit_2/3`" (audio.rs 75-76, 93).
ChannelCountAsMastered ==
    output.done /\ "sector" \in DOMAIN input =>
      \A k \in DOMAIN output.split.pieces : \A j \in DOMAIN input.sector.infos :
        LET i == input.sector.infos[j]
            info == output.split.pieces[k].info
        IN  (input.sector.dst /\ info # <<>> /\ info[1].time = i.time) =>
              DerivedChannelCount(info[1]) = CASE i.bit2 /\ ~i.bit3 -> 6
                                               [] ~i.bit2 /\ i.bit3 -> 5
                                               [] OTHER -> 2

\* The last text of a type that is not empty.
Mastered(items, type) ==
    LET given == {i \in DOMAIN items : items[i].type = type /\ items[i].text # None}
    IN  IF given = {} THEN None ELSE items[Max(given)].text

\* Every track gets its own texts, wherever they are stored and however they
\* are padded, in any order of the items and with unknown ones between them; a
\* track whose header miscounts its items spoils its own texts only
\* (area_toc.rs 336-454, master_toc.rs 251-276).
TextsSurvive ==
    output.done /\ "disc" \in DOMAIN input =>
      LET d == input.disc
      IN  /\ \A t \in DOMAIN d.tracks :
               d.tracks[t].claimed = Len(d.tracks[t].items) =>
                 output.texts[t] = [k \in TextTypes |-> Mastered(d.tracks[t].items, k)]
          /\ \A f \in DOMAIN d.master : output.master[f] = Trim(d.master[f])

Values(tag, id, names) == {tag[i].value : i \in {j \in DOMAIN tag : tag[j].id = id /\ tag[j].name \in names}}

\* A reader of the tag finds each thing once and nothing missing: no two frames
\* go by the same name, and the titles, artists and catalog numbers the disc
\* has are in it, save a disc's that repeats the album's (id3.rs 101-170).
TagIsUnambiguous ==
    output.done /\ "disc" \in DOMAIN input =>
      \A t \in DOMAIN output.tags :
        LET tag   == output.tags[t]
            m     == output.master
            c     == input.disc.rest
            discCat  == c.discCatalog.text
            albumCat == c.albumCatalog.text
        IN  /\ \A i, j \in DOMAIN tag : i # j => <<tag[i].id, tag[i].name>> # <<tag[j].id, tag[j].name>>
            /\ m.albumTitle # None => Values(tag, "TALB", {""}) = {m.albumTitle}
            /\ m.discTitle # None => m.discTitle \in Values(tag, "TALB", {""})
                                                     \cup Values(tag, "TXXX", {"DISCSUBTITLE"})
            /\ (m.discTitle # None /\ m.albumTitle # None /\ c.setSize > 1) =>
                 Values(tag, "TXXX", {"DISCSUBTITLE"}) = {m.discTitle}
            /\ Values(tag, "TXXX", {"Catalog Number", "Album Catalog Number"})
                 = {discCat, albumCat} \ {None}
            /\ discCat # None => Values(tag, "TXXX", {"Catalog Number"}) = {discCat}
            /\ m.albumArtist # None => Values(tag, "TPE1", {""}) # {}

=============================================================================
