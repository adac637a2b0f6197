---------------------------- MODULE TrackSequence ----------------------------
(***************************************************************************)
(* TrackExtractor::extract_tracks (src/scarletbook/extractor.rs) over the  *)
(* DsfWriter: one file per selected track, and in nopad mode the partial   *)
(* block a track ends with is carried into the next consecutive track      *)
(* instead of being padded.                                                *)
(*                                                                         *)
(* The pipeline delivers a track's bytes in pieces of any length (decoded  *)
(* frames, DSD chunks); a track holds as many bytes for each channel.      *)
(***************************************************************************)
EXTENDS DsfWriter, FiniteSets

CONSTANTS
    TrackCount,     \* area_toc.track_count
    MaxLen,         \* bound: bytes of a track per channel
    MaxPiece        \* bound: bytes of one write_samples

ASSUME SequenceAssumption ==
    /\ TrackCount \in Nat \ {0} /\ MaxLen \in Nat /\ MaxPiece \in Nat \ {0}

VARIABLES
    nopad,          \* the command line flag
    selection,      \* tracks_to_extract: sorted, without duplicates
    next,           \* position in it of the track at hand
    writer,         \* the track's DsfWriter
    pendingCarry,   \* pending_carry: <<>>, or <<[track, tails]>>
    len,            \* bytes each track has delivered so far
    files,          \* finished files, in order
    pc              \* "open", "write", "done", "failed"

vars == <<nopad, selection, next, writer, pendingCarry, len, files, pc>>

Tracks == 1..TrackCount
Bytes  == {Pad} \cup [track : Tracks, ch : Chan, n : 1..MaxLen, order : {"msb", "lsb"}]
Tails  == [Chan -> Seq(Bytes)]

TypeOK ==
    /\ nopad \in BOOLEAN
    /\ selection \in Seq(Tracks) /\ next \in 1..(Len(selection) + 1)
    /\ writer.buffers \in Tails /\ writer.data \in Seq(Bytes)
    /\ writer.pos \in Nat /\ writer.decoded \in Nat /\ writer.nopad \in BOOLEAN
    /\ Len(pendingCarry) <= 1
    /\ \A i \in DOMAIN pendingCarry :
         pendingCarry[i].track \in Tracks /\ pendingCarry[i].tails \in Tails
    /\ len \in [Tracks -> 0..(MaxLen * Channels)]
    /\ \A i \in DOMAIN files :
         files[i].track = selection[i] /\ files[i].data \in Seq(Bytes) /\ files[i].samples \in Nat
    /\ pc \in {"open", "write", "done", "failed"}

\* Any tracks may be selected; parse_track_selection sorts them.
Selections ==
    {seq \in UNION {[1..n -> Tracks] : n \in 1..TrackCount} :
       \A i \in 2..Len(seq) : seq[i - 1] < seq[i]}

Init ==
    /\ nopad \in BOOLEAN
    /\ selection \in Selections
    /\ next = 1
    /\ writer = Create(FALSE) /\ pendingCarry = <<>>
    /\ len = [t \in Tracks |-> 0] /\ files = <<>>
    /\ pc = "open"

track == selection[next]

\* Applies on every track except the last in the area.
ApplyNopad == nopad /\ track < TrackCount

\* Mutant: a carry is used whichever track it comes from.
CarryApplies_Any == pendingCarry # <<>>

\* The carry applies to the directly following track and is dropped otherwise.
CarryApplies == pendingCarry # <<>> /\ pendingCarry[1].track + 1 = track

OpenFile ==
    /\ pc = "open" /\ next <= Len(selection)
    /\ LET w == Create(ApplyNopad)
       IN  writer' = IF CarryApplies THEN PreLoadCarry(w, pendingCarry[1].tails) ELSE w
    /\ pendingCarry' = <<>>
    /\ pc' = "write"
    /\ UNCHANGED <<nopad, selection, next, len, files>>

\* The piece that follows what the track has delivered, byte-interleaved.
Piece(k) ==
    [i \in 1..k |-> LET j == len[track] + i - 1
                    IN  [track |-> track, ch |-> (j % Channels) + 1, n |-> (j \div Channels) + 1,
                         order |-> "msb"]]

WritePiece ==
    /\ pc = "write"
    /\ \E k \in 1..MaxPiece :
         /\ len[track] + k <= MaxLen * Channels
         /\ writer' = WriteSamples(writer, Piece(k))
         /\ len' = [len EXCEPT ![track] = @ + k]
    /\ UNCHANGED <<nopad, selection, next, pendingCarry, files, pc>>

Finalize ==
    /\ pc = "write" /\ len[track] % Channels = 0
    /\ files' = Append(files, [track |-> track, data |-> Finished(writer).data,
                               samples |-> SampleCount(writer)])
    /\ pendingCarry' = IF KeepsCarry(writer)
                       THEN <<[track |-> track, tails |-> writer.buffers]>> ELSE <<>>
    /\ writer' = Create(FALSE)
    /\ next' = next + 1
    /\ pc' = "open"
    /\ UNCHANGED <<nopad, selection, len>>

\* create, a write or finalize fails: `?` leaves the loop, later tracks are not
\* extracted and the file at hand keeps its placeholder header.
TrackFails ==
    /\ pc \in {"open", "write"} /\ next <= Len(selection)
    /\ pc' = "failed"
    /\ UNCHANGED <<nopad, selection, next, writer, pendingCarry, len, files>>

AllDone ==
    /\ pc = "open" /\ next > Len(selection)
    /\ pc' = "done"
    /\ UNCHANGED <<nopad, selection, next, writer, pendingCarry, len, files>>

Stopped == pc \in {"done", "failed"} /\ UNCHANGED vars

Next == OpenFile \/ WritePiece \/ Finalize \/ TrackFails \/ AllDone \/ Stopped
Spec == Init /\ [][Next]_vars

-----------------------------------------------------------------------------
(* What the files promise *)

\* The bytes of channel c in block-interleaved data: every Channels-th block.
ChannelOf(data, c) ==
    LET rows == Len(data) \div (Channels * Block)
    IN  [i \in 1..(rows * Block) |->
           data[((i - 1) \div Block) * Channels * Block + (c - 1) * Block + ((i - 1) % Block) + 1]]

\* A channel's bytes but for as many at the end as there are padding bytes.
Audio(bytes) == SubSeq(bytes, 1, Cardinality({i \in DOMAIN bytes : bytes[i] # Pad}))

\* What has been delivered for channel c of track t, in file bit order.
Delivered(t, c) ==
    [i \in 1..((len[t] + Channels - c) \div Channels) |->
       [track |-> t, ch |-> c, n |-> i, order |-> "lsb"]]

Consecutive == \A i \in 2..Len(selection) : selection[i] = selection[i - 1] + 1

\* Everything channel c of the album holds: files, carry, file at hand.
Held(c) ==
    FlattenSeq([i \in DOMAIN files |-> Audio(ChannelOf(files[i].data, c))])
    \o (IF pendingCarry = <<>> THEN <<>> ELSE pendingCarry[1].tails[c])
    \o ChannelOf(writer.data, c) \o writer.buffers[c]

\* A selection without holes is gapless: each channel's bytes are, over all
\* files, the carry and the buffers, exactly those delivered, in order and bit-
\* reversed once, across every track boundary (dsf.rs 153-211, 235-266,
\* extractor.rs 567-620).
Gapless ==
    Consecutive => \A c \in Chan :
      Held(c) = FlattenSeq([i \in DOMAIN selection |-> Delivered(selection[i], c)])

\* A selection with holes loses at a hole no more than the partial block the
\* track before it ends with, never brings bytes of one track behind those of
\* a later one, and no file joins audio across a hole.
HolesLoseTailsOnly ==
    LET holes == Cardinality({i \in 2..Len(selection) :
                                i <= next /\ selection[i] # selection[i - 1] + 1})
    IN  \A c \in Chan :
          /\ \A i \in 2..Len(Held(c)) :
               LET a == Held(c)[i - 1]
                   b == Held(c)[i]
               IN  a.track < b.track \/ (a.track = b.track /\ b.n = a.n + 1)
          /\ Len(FlattenSeq([i \in DOMAIN selection |-> Delivered(selection[i], c)]))
               - Len(Held(c)) <= holes * (Block - 1)
          /\ \A data \in {files[i].data : i \in DOMAIN files} :
               LET bytes == Audio(ChannelOf(data, c))
               IN  \A i \in 2..Len(bytes) : \A t \in bytes[i - 1].track..bytes[i].track :
                     \E k \in DOMAIN selection : selection[k] = t

\* Only the last block of a padded file holds padding, behind the audio and as
\* much in every channel; with nopad no file but the area's last is padded.
PaddingOnlyAtEnd ==
    \A i \in DOMAIN files :
      LET data == files[i].data
          pads(c) == {j \in DOMAIN ChannelOf(data, c) : ChannelOf(data, c)[j] = Pad}
      IN  /\ Len(data) % (Channels * Block) = 0
          /\ \A c \in Chan : /\ pads(c) = pads(1) /\ Cardinality(pads(c)) < Block
                             /\ \A j \in pads(c) : j = Len(ChannelOf(data, c)) \/ j + 1 \in pads(c)
          /\ nopad /\ files[i].track < TrackCount => pads(1) = {}

\* "Patch fmt chunk's sample_count ... so that it reflects the actual decoded
\* sample count, not the padded one." (dsf.rs 278-279): eight samples for every
\* audio byte of a channel in the file.
SampleCountIsAudio ==
    \A i \in DOMAIN files :
      files[i].samples = 8 * Len(Audio(ChannelOf(files[i].data, 1)))

\* Without nopad it is, whatever the padding (dsf.rs 278-296).
PaddedSampleCountIsAudio == ~nopad => SampleCountIsAudio

=============================================================================
