------------------------------ MODULE MCDecoders ------------------------------
(* Sectors of the real size with up to seven packets, at and beyond the end  *)
(* of the sector, and every channel hint.  Two tracks whose texts are stored *)
(* in either order, with every padding, empty, repeated and unknown items    *)
(* and a header that miscounts; then every combination of titles, artists,   *)
(* catalog numbers and genres a tag is made of.                              *)
EXTENDS Decoders

Info(time, count, b1, b2, b3) == [time |-> time, count |-> count, bit1 |-> b1, bit2 |-> b2, bit3 |-> b3]
Packet(start, type, length)   == [start |-> start, type |-> type, length |-> length]

InfoSeqs ==
    {<<>>} \cup { <<Info(<<255, 59, 74>>, n, b1, b2, b3)>> : n \in {0, 31}, b1, b2, b3 \in BOOLEAN }
      \cup { <<Info(<<0, 0, 1>>, 1, FALSE, TRUE, FALSE), Info(<<0, 0, 2>>, n, TRUE, FALSE, TRUE)>> : n \in {1, 16} }
PacketSeqs ==
    {<<>>} \cup { <<Packet(s, t, n)>> : s \in BOOLEAN, t \in {2, 3, 7, 0}, n \in {0, 255, 256, 2037, 2041, 2042, 2044, 2045, 2047} }
      \cup { <<Packet(FALSE, 2, 700), Packet(s, t, 11), Packet(TRUE, 2, n)>> : s \in BOOLEAN, t \in {2, 3}, n \in {1, 1318, 1330} }
      \cup { [i \in 1..7 |-> Packet(i > 5, 2, n)] : n \in {0, 290, 291, 292} }
MCSectors == [dst : BOOLEAN, reserved : {0, 1}, infos : InfoSeqs, packets : PacketSeqs]

Item(type, text) == [type |-> type, text |-> text]
Items == { Item(Title, <<65, 66>>), Item(Performer, <<67>>), Item(Title + Phonetic, <<68>>),
           Item(Title, None), Item(99, <<69>>) }
ItemSeqs == {<<>>} \cup { <<a>> : a \in Items } \cup { <<a, b>> : a, b \in Items }

Track(items, pad, claimed) == [items |-> items, pad |-> pad, claimed |-> claimed]
FirstTracks  == { Track(s, pad, Len(s)) : s \in ItemSeqs, pad \in 0..3 }
                  \cup { Track(s, pad, n) : s \in ItemSeqs \ {<<>>}, pad \in {0, 2}, n \in {0, 3} }
SecondTracks == { Track(<<>>, 0, 0), Track(<<Item(Title, <<70>>), Item(Composer, <<71>>)>>, 1, 2),
                  Track(<<Item(Performer, <<72>>)>>, 0, 3) }

General(n) == [category |-> 1, genre |-> n]
Other      == [category |-> 2, genre |-> 2]

Catalog(text, fill) == [text |-> text, fill |-> fill]

Rest(setSize, discCat, albumCat, genres) ==
    [setSize |-> setSize, sequence |-> 1, discCatalog |-> discCat, albumCatalog |-> albumCat,
     isrc |-> << <<80>>, <<81>>, <<0>>, <<82>> >>, date |-> <<1>>, track |-> <<1>>,
     trackGenre |-> genres[1], discGenres |-> genres[2], albumGenres |-> genres[3],
     names |-> << <<90>>, <<91>>, <<92>> >>]
Master(albumTitle, discTitle, albumArtist, discArtist) ==
    [albumTitle |-> albumTitle, discTitle |-> discTitle, albumArtist |-> albumArtist, discArtist |-> discArtist]

PlainRest   == Rest(1, Catalog(<<75>>, 32), Catalog(<<75>>, 0), << <<General(1)>>, <<>>, <<>> >>)
PlainMaster == Master(<<73, 32>>, <<74>>, None, <<76>>)

TextDiscs ==
    [tracks : { <<a, b>> : a \in FirstTracks, b \in SecondTracks }, order : { <<1, 2>>, <<2, 1>> },
     master : {PlainMaster}, rest : {PlainRest}]
TagDiscs ==
    [tracks : { << Track(s, 0, Len(s)) >> : s \in { <<>>, <<Item(Title + Phonetic, <<68>>)>>, <<Item(Performer, <<67>>)>> } },
     order : { <<1>> },
     master : { Master(a, d, x, y) : a \in {None, <<73>>, <<32, 73>>, <<32>>}, d \in {None, <<73>>, <<74, 32>>},
                                     x \in {None, <<76>>}, y \in {None, <<77>>} },
     rest : { Rest(n, d, a, g) : n \in 0..2, d \in { Catalog(None, 0), Catalog(<<75>>, 0) },
                                 a \in { Catalog(None, 32), Catalog(<<75>>, 32), Catalog(<<76>>, 32) },
                                 g \in { << <<General(1)>>, <<General(2)>>, <<>> >>, << <<Other>>, <<Other, General(2)>>, <<>> >>,
                                         << <<>>, <<>>, <<General(9)>> >> } }]
MCDiscs == TextDiscs \cup TagDiscs
NoDiscs == {}
=============================================================================
