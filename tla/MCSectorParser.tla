--------------------------- MODULE MCSectorParser ---------------------------
(* Compressed, compressed and damaged, and uncompressed tracks: up to six   *)
(* frames of up to three sectors, up to three starts in one sector.  The    *)
(* filters leave out frames on both sides of the track, or none.  A damaged *)
(* frame info declares anything from no sector to more than a frame has.    *)
EXTENDS SectorParser, TLC

Leads(t) == {t @@ [lead |-> n] : n \in 0..(MaxParts - 1)}

DstTracks     == Leads([dst |-> TRUE, damaged |-> FALSE, last |-> 6, from |-> 2, to |-> 5])
WholeAreas    == Leads([dst |-> TRUE, damaged |-> FALSE, last |-> 4, from |-> 0, to |-> 9])
DamagedTracks == Leads([dst |-> TRUE, damaged |-> TRUE, last |-> 4, from |-> 2, to |-> 5])
DsdTracks     == Leads([dst |-> FALSE, damaged |-> FALSE, last |-> 5, from |-> 2, to |-> 4])

AllTracks == DstTracks \cup WholeAreas \cup DamagedTracks \cup DsdTracks
=============================================================================
