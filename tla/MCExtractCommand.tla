-------------------------- MODULE MCExtractCommand --------------------------
(* Discs whose TOC copies are intact, damaged in one place or too long by   *)
(* their own account, with two or three tracks, a pause between two of them *)
(* and times that go back in one of the areas.                              *)
EXTENDS ExtractCommand

Copy(sectors) == [signed |-> TRUE, size |-> 6, text |-> 5, sectors |-> sectors]

Good    == Copy(<<"trl1", "trl2", "igl", "cont", "text">>)
NoText  == [Copy(<<"trl1", "trl2", "igl", "cont", "other">>) EXCEPT !.text = 0]
NoTrl1  == Copy(<<"other", "trl2", "igl", "cont", "text">>)
NoTrl2  == Copy(<<"trl1", "other", "igl", "cont", "text">>)
BadText == Copy(<<"trl1", "trl2", "igl", "cont", "other">>)
Unsigned == [Good EXCEPT !.signed = FALSE]
TooLong == [size |-> 8, signed |-> TRUE, text |-> 0,
            sectors |-> <<"other", "trl2", "igl", "cont", "trl1", "other", "other">>]
TrlLast == [NoText EXCEPT !.sectors = <<"other", "trl2", "igl", "cont", "trl1">>]

Entry(s, n) == [start |-> s, length |-> n]

\* A pause of one frame before track 2; track 2 starts inside a sector.
Dsd == [first |-> 10, end |-> 43, perThree |-> 14, dst |-> FALSE, places |-> <<>>,
        times |-> <<0, 3, 4>>, durs |-> <<2, 1, 3>>,
        ranges |-> <<Entry(10, 10), Entry(24, 5), Entry(28, 15)>>]
\* Its second entry in SACDTRL1 is empty; compressed to a sector a frame.
Dst == [first |-> 50, end |-> 57, perThree |-> 14, dst |-> TRUE,
        places |-> <<{50}, {51}, {52}, {53}, {54, 55}, {55, 56}>>,
        times |-> <<0, 3>>, durs |-> <<3, 3>>,
        ranges |-> <<Entry(50, 3), Entry(0, 0)>>]
\* Compressed to four sectors a frame, where the estimate expects 4 2/3.
Mild == [Dst EXCEPT !.end = 74, !.ranges = <<Entry(50, 12), Entry(62, 12)>>,
                    !.places = [i \in 1..6 |-> (46 + 4 * i)..(49 + 4 * i)]]
\* The second track's time lies before the first one's.
Backwards == [Dst EXCEPT !.dst = FALSE, !.places = <<>>, !.times = <<3, 1>>, !.durs = <<1, 1>>, !.end = 51,
                         !.ranges = <<Entry(0, 0), Entry(0, 0)>>]
\* The second entry of SACDTRL1 ends beyond 2^32 = 128, the third beyond the disc.
BeyondU32 == [Dsd EXCEPT !.ranges = <<Entry(10, 10), Entry(120, 12), Entry(70, 20)>>]
\* The estimated places go beyond 2^32.
HighStart == [Dsd EXCEPT !.first = 120, !.end = 125]
UnknownFormat == [Dst EXCEPT !.perThree = 0]

Area(layout, listed, one, two) ==
    [first |-> layout.first, end |-> layout.end, perThree |-> layout.perThree, dst |-> layout.dst,
     places |-> layout.places, times |-> layout.times, durs |-> layout.durs, ranges |-> layout.ranges,
     tocSize |-> 6, listed |-> listed, copies |-> <<one, two>>]

Both == <<TRUE, TRUE>>

StereoAreas ==
    {Area(Dsd, Both, one, two) : one, two \in {Good, NoTrl1, BadText, TrlLast, TooLong}}
      \cup {Area(l, <<FALSE, TRUE>>, Good, NoTrl1) : l \in {Dsd, Backwards, HighStart}}
      \cup {Area(BeyondU32, Both, Good, Good)}
MchAreas ==
    {Area(Dst, Both, Unsigned, NoText), Area(Dst, <<FALSE, FALSE>>, Good, Good),
     Area(Dst, Both, NoTrl2, NoTrl2), Area(UnknownFormat, <<TRUE, FALSE>>, Good, Good)}

MCDiscs == {<<s, m>> : s \in StereoAreas, m \in MchAreas}
DstDiscs == {<<Area(Mild, Both, NoTrl1, NoTrl1), Area(Dst, <<FALSE, FALSE>>, Good, Good)>>}

\* Nothing given; "3,1-2,2"; "2"; a number that is too high; a bad range; zero.
MCSelections ==
    {<<>>, << <<3>>, <<1, 2>>, <<2>> >>, << <<2>> >>, << <<4>>, <<1>> >>, << <<2, 1>> >>, << <<0>> >>}

=============================================================================
