------------------------------- MODULE TrackTag -------------------------------
(***************************************************************************)
(* From the texts on a disc to the ID3 tag of a track's file: the track    *)
(* text section of an area TOC (AreaToc::parse_track_text), the strings of *)
(* the master text (MasterText::from_bytes), and render_id3, which says    *)
(* which frame of the tag is made of which of them.                        *)
(*                                                                         *)
(* Bytes are numbers, of which 0 ends a string and 32 is a blank.  A tag   *)
(* is a sequence of frames; their headers and encodings are left out.  The *)
(* sections' signatures and table bounds are those of TocReader.           *)
(***************************************************************************)
EXTENDS Naturals, Sequences, FiniteSets, FiniteSetsExt, SequencesExt

Nul  == 0
None == <<>>        \* no string: strings that are present are not empty

\* TrackTextType: plain texts and, from 0x81 on, their phonetic spellings.
TextTypes  == 1..8 \cup 129..136
Title      == 1
Performer  == 2
Composer   == 4
Phonetic   == 128
NoTexts    == [k \in TextTypes |-> None]

-----------------------------------------------------------------------------
(* AreaToc::parse_track_text *)

\* TrackText::set_text.
SetText(texts, type, text) ==
    IF text = None \/ type \notin TextTypes THEN texts ELSE [texts EXCEPT ![type] = text]

\* The first place from p on where a zero stands, or with zero = FALSE anything
\* else; behind the end if there is none.
NextWhere(bytes, p, zero) ==
    LET places == {q \in p..Len(bytes) : (bytes[q] = Nul) = zero}
    IN  IF places = {} THEN Len(bytes) + 1 ELSE Min(places)

\* Mutant: a single zero is skipped behind a string.
ParseItem_NoPadding(bytes, item) ==
    LET end == NextWhere(bytes, item.ptr + 2, TRUE)
    IN  IF item.ended \/ end > Len(bytes) THEN [item EXCEPT !.ended = TRUE]
        ELSE [item EXCEPT !.texts = SetText(@, bytes[item.ptr], SubSeq(bytes, item.ptr + 2, end - 1)),
                          !.ptr = end + 1]

\* Type, blank, string, its zero and all zeros behind it.  Where the data ends
\* inside an item the track's texts end.
ParseItem(bytes, item) ==
    LET end == NextWhere(bytes, item.ptr + 2, TRUE)
    IN  IF item.ended \/ end > Len(bytes) THEN [item EXCEPT !.ended = TRUE]
        ELSE [item EXCEPT !.texts = SetText(@, bytes[item.ptr], SubSeq(bytes, item.ptr + 2, end - 1)),
                          !.ptr = NextWhere(bytes, end + 1, FALSE)]

\* The texts at a track's position: N_Items, three reserved bytes, the items.
TextsAt(bytes, pos) ==
    LET item[i \in 0..bytes[pos]] ==
          IF i = 0 THEN [ptr |-> pos + 4, texts |-> NoTexts, ended |-> FALSE]
          ELSE ParseItem(bytes, item[i - 1])
    IN  IF pos = 0 \/ pos > Len(bytes) THEN NoTexts ELSE item[bytes[pos]].texts

\* One position for each track; a table that is cut short leaves tracks without.
ParseTrackText(section, trackCount) ==
    [t \in 1..trackCount |->
       IF t \in DOMAIN section.positions THEN TextsAt(section.bytes, section.positions[t]) ELSE NoTexts]

-----------------------------------------------------------------------------
(* MasterText::from_bytes, and the catalog numbers of the master TOC *)

Blank == 32

\* str::trim; a blank stands for all white space.
Trim(s) ==
    LET kept == {i \in DOMAIN s : s[i] # Blank}
    IN  IF kept = {} THEN None ELSE SubSeq(s, Min(kept), Max(kept))

\* ascii_trim, and the string behind a position of the master text.
TrimToNul(s) == Trim(SubSeq(s, 1, NextWhere(s, 1, TRUE) - 1))

ExtractString(bytes, pos) ==
    IF pos = 0 \/ pos > Len(bytes) THEN None ELSE TrimToNul(SubSeq(bytes, pos, Len(bytes)))

MasterText(sector) ==
    [f \in DOMAIN sector.positions |-> ExtractString(sector.bytes, sector.positions[f])]

-----------------------------------------------------------------------------
(* render_id3 *)

Text(id, value)       == [id |-> id, name |-> "", value |-> value]
Txxx(name, value)     == [id |-> "TXXX", name |-> name, value |-> value]
If(condition, frame)  == IF condition THEN <<frame>> ELSE <<>>
Or(one, other)        == IF one # None THEN one ELSE other
Spelled(texts, type)  == Or(texts[type], texts[type + Phonetic])

\* TALB and DISCSUBTITLE.
AlbumFrames(album, disc, setSize) ==
    If(album # None, Text("TALB", album))
    \o If(album # None /\ disc # None /\ (disc # album \/ setSize > 1), Txxx("DISCSUBTITLE", disc))
    \o If(album = None /\ disc # None, Text("TALB", disc))

\* Mutant: an album number of its own goes by the disc's name for it.
CatalogFrames_OneName(disc, album) ==
    If(disc # None, Txxx("Catalog Number", disc))
    \o If(album # None /\ album # disc, Txxx("Catalog Number", album))

CatalogFrames(disc, album) ==
    If(disc # None, Txxx("Catalog Number", disc))
    \o If(album # None /\ disc = None, Txxx("Catalog Number", album))
    \o If(album # None /\ disc # None /\ album # disc, Txxx("Album Catalog Number", album))

\* The track's genre, else the first general one of the disc, else of the album.
GenreFrames(track, discGenres, albumGenres, names) ==
    LET general(seq) == SelectSeq(seq, LAMBDA g : g.category = 1)
        found == general(track) \o general(discGenres) \o general(albumGenres)
    IN  If(found # <<>> /\ found[1].genre \in DOMAIN names, Text("TCON", names[found[1].genre]))

\* What render_id3 writes for a track without a title.
DefaultTitle == <<78>>

\* ascii_concat: each part up to its first zero.
AsciiConcat(parts) ==
    FlattenSeq([i \in DOMAIN parts |-> SubSeq(parts[i], 1, NextWhere(parts[i], 1, TRUE) - 1)])

\* texts are the track's, m is the master text and c the rest of the TOCs.
RenderId3(texts, m, c) ==
    LET performer == Spelled(texts, Performer)
        artist    == Or(performer, Or(m.discArtist, m.albumArtist))
        discCat   == TrimToNul(c.discCatalog)
        albumCat  == TrimToNul(c.albumCatalog)
    IN  <<Text("TIT2", Or(Spelled(texts, Title), DefaultTitle))>>
        \o AlbumFrames(m.albumTitle, m.discTitle, c.setSize)
        \o If(artist # None, Text("TPE1", artist))
        \o If(m.albumArtist # None, Text("TPE2", m.albumArtist))
        \o If(performer # None, Txxx("PERFORMER", performer))
        \o If(Spelled(texts, Composer) # None, Text("TCOM", Spelled(texts, Composer)))
        \o CatalogFrames(discCat, albumCat)
        \o If(\E i \in DOMAIN c.isrc : c.isrc[i][1] # Nul, Text("TSRC", AsciiConcat(c.isrc)))
        \o <<Text("TPOS", <<c.sequence, Max({c.setSize, 1})>>)>>
        \o GenreFrames(c.trackGenre, c.discGenres, c.albumGenres, c.names)
        \o <<Text("TYER", c.date), Text("TDAT", c.date), Text("TRCK", c.track)>>

=============================================================================
