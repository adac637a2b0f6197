-------------------------- MODULE MCTrackSequence --------------------------
(* Three tracks of up to five bytes in each of three channels, blocks of    *)
(* two: tracks shorter than a block, block-aligned ones and carries that    *)
(* pass through a whole track all occur.                                    *)
EXTENDS TrackSequence
=============================================================================
