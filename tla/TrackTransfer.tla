---------------------------- MODULE TrackTransfer ----------------------------
(***************************************************************************)
(* What extract_track promises its caller (src/scarletbook/extractor.rs,   *)
(* the doc comment of TrackExtractor::extract_track): the frames a parser  *)
(* yields are copied to a file in order, the call returns, and it returns  *)
(* Ok only when the parser is exhausted and every frame is in the file.    *)
(* An error may leave any prefix of the track behind.  How many frames     *)
(* are in transit, and in which stage, is left open.                       *)
(***************************************************************************)
EXTENDS Naturals, Sequences

VARIABLES
    yielded,    \* frames the parser has yielded
    exhausted,  \* the parser will yield no more
    file,       \* the frames in the file
    outcome     \* "running", then what the caller gets: "ok" or "error"

vars == <<yielded, exhausted, file, outcome>>

Init == yielded = 0 /\ exhausted = FALSE /\ file = <<>> /\ outcome = "running"

\* A sector may yield several frames at once.
Yield ==
    /\ outcome = "running" /\ ~exhausted
    /\ yielded' \in Nat /\ yielded' > yielded
    /\ UNCHANGED <<exhausted, file, outcome>>

Exhaust ==
    /\ outcome = "running" /\ ~exhausted
    /\ exhausted' = TRUE
    /\ UNCHANGED <<yielded, file, outcome>>

\* The file gets the next frame of the track, never another.
Write ==
    /\ outcome = "running" /\ Len(file) < yielded
    /\ file' = Append(file, Len(file) + 1)
    /\ UNCHANGED <<yielded, exhausted, outcome>>

Succeed ==
    /\ outcome = "running" /\ exhausted /\ Len(file) = yielded
    /\ outcome' = "ok"
    /\ UNCHANGED <<yielded, exhausted, file>>

Fail ==
    /\ outcome = "running" /\ exhausted
    /\ outcome' = "error"
    /\ UNCHANGED <<yielded, exhausted, file>>

Next == Yield \/ Exhaust \/ Write \/ Succeed \/ Fail

\* Its safety part, and the whole promise: the call also returns.
SafeSpec == Init /\ [][Next]_vars
Spec     == SafeSpec /\ <>(outcome # "running")

=============================================================================
