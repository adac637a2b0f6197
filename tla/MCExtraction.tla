---------------------------- MODULE MCExtraction ----------------------------
(* Tracks of five sectors and up to five frames of up to two sectors, with   *)
(* neighbours on both sides, through channels of two frames and one batch.   *)
EXTENDS Extraction

MCTracks ==
    { [dst |-> d, damaged |-> FALSE, last |-> 5, from |-> 2, to |-> 5, lead |-> n] :
        d \in BOOLEAN, n \in 0..(MaxParts - 1) }
=============================================================================
