---------------------------- MODULE SectorParser ----------------------------
(***************************************************************************)
(* AudioSectorParser (src/scarletbook/audio.rs) reading the sectors of one *)
(* track.  A sector holds packets; an audio packet starts a frame or       *)
(* continues the current one, and a frame info record says in how many     *)
(* sectors a frame that starts here lies.  The parser reassembles the      *)
(* frames and drops those outside the track's timecode range.              *)
(*                                                                         *)
(* The payload of a packet is the pair <<frame, part>>, a frame's timecode *)
(* its number.  What the disc holds comes from the mastering variables     *)
(* frame and left: a frame lies in consecutive sectors, one packet in      *)
(* each, and a sector it does not end in holds no later frame.             *)
(***************************************************************************)
EXTENDS Integers, Sequences, SequencesExt

CONSTANTS
    MaxParts,   \* bound: sectors a frame lies in
    MaxStarts,  \* bound: frames that start in one sector
    ChunkSize,  \* CHUNK_SIZE, in packets
    Counts,     \* what the sector count of a damaged frame info may hold
    Tracks      \* what a parser may be made for: dst is frame_format, [from, to)
                \* the timecode filter; last bounds the disc's frames, the first
                \* lead packets belong to a frame that started before the range,
                \* and damaged says that frame infos may be wrong

ASSUME ParserAssumption ==
    /\ MaxParts \in Nat \ {0} /\ MaxStarts \in Nat /\ ChunkSize \in Nat \ {0}
    /\ Counts \subseteq Nat
    /\ \A t \in Tracks : /\ t.dst \in BOOLEAN /\ t.damaged \in BOOLEAN
                         /\ t.last \in Nat /\ t.from \in Nat /\ t.to \in Nat
                         /\ t.lead \in 0..(MaxParts - 1)

VARIABLES
    track,   \* the track of Tracks that is read
    frame,   \* disc: the last frame that starts before this sector
    left,    \* disc: its parts in this sector and later ones
    size,    \* disc: parts of each frame that has started in the range
    sound,   \* disc: frames that lie in the range from their start, truly declared
    parser,  \* the AudioSectorParser
    yielded, \* all frames (or DSD chunks) returned so far
    pc       \* the caller: "sectors", "flushed", "failed"

disc == <<track, frame, left, size, sound>>
parserVars == <<disc, parser, yielded, pc>>

NoTime == -1    \* current_frame_timecode is None
Fields == {"buffer", "count", "started", "timecode", "decoded", "filtered", "infoIdx", "out"}
Parts  == (0..track.last) \X (1..MaxParts)

ParserTypeOK ==
    /\ track \in Tracks
    /\ frame \in 0..track.last /\ left \in 0..MaxParts
    /\ DOMAIN size \subseteq 1..track.last /\ sound \subseteq 1..track.last
    /\ DOMAIN parser = Fields
    /\ parser.buffer \in Seq(Parts) /\ parser.out = <<>>
    /\ parser.count \in Nat /\ parser.started \in BOOLEAN
    /\ parser.timecode \in {NoTime} \cup 1..track.last
    /\ parser.decoded \in Nat /\ parser.filtered \in Nat
    /\ yielded \in Seq(Seq(Parts))
    /\ pc \in {"sectors", "flushed", "failed"}

\* The range may begin inside a frame that started before it.
ParserInit ==
    /\ track \in Tracks
    /\ frame = 0 /\ left = track.lead
    /\ size = <<>> /\ sound = {}
    /\ parser = [buffer |-> <<>>, count |-> 0, started |-> FALSE, timecode |-> NoTime,
                 decoded |-> 0, filtered |-> 0, infoIdx |-> 0, out |-> <<>>]
    /\ yielded = <<>>
    /\ pc = "sectors"

-----------------------------------------------------------------------------
(* One packet *)

InFilter(time) == track.from <= time /\ time < track.to

\* The filter accepts a frame whose timecode is not known.
ShouldYield(p) == p.timecode = NoTime \/ InFilter(p.timecode)

Complete(p) == p.started /\ p.count = 0 /\ p.buffer # <<>>

\* Yield the buffered frame, or count it as filtered.
Emit(p) ==
    IF ShouldYield(p)
    THEN [p EXCEPT !.out = Append(@, p.buffer), !.decoded = @ + 1]
    ELSE [p EXCEPT !.filtered = @ + 1]

\* Mutant: the predecessor's bytes are not cleared.
StartFrame_Appends(p, packet, infos) ==
    IF p.infoIdx < Len(infos)
    THEN LET info == infos[p.infoIdx + 1]
         IN  [(IF Complete(p) THEN Emit(p) ELSE p) EXCEPT
                 !.buffer = Append(@, packet.data), !.count = info.count, !.started = TRUE,
                 !.timecode = info.time, !.infoIdx = @ + 1]
    ELSE p

\* Mutant: a start is taken for a continuation while sectors are outstanding.
StartFrame_WaitsForCount(p, packet, infos) ==
    IF p.infoIdx < Len(infos) /\ ~(p.started /\ p.count > 0)
    THEN LET info == infos[p.infoIdx + 1]
         IN  [(IF Complete(p) THEN Emit(p) ELSE p) EXCEPT
                 !.buffer = <<packet.data>>, !.count = info.count, !.started = TRUE,
                 !.timecode = info.time, !.infoIdx = @ + 1]
    ELSE p

\* A frame start: a complete predecessor is emitted, an incomplete one is
\* overwritten.  A start without frame info is ignored.
StartFrame(p, packet, infos) ==
    IF p.infoIdx < Len(infos)
    THEN LET info == infos[p.infoIdx + 1]
         IN  [(IF Complete(p) THEN Emit(p) ELSE p) EXCEPT
                 !.buffer = <<packet.data>>, !.count = info.count, !.started = TRUE,
                 !.timecode = info.time, !.infoIdx = @ + 1]
    ELSE p

ContinueFrame(p, packet) ==
    IF p.started THEN [p EXCEPT !.buffer = Append(@, packet.data)] ELSE p

\* Mutant: unsigned arithmetic that wraps below zero.
CountDown_Unguarded(p) == IF p.started THEN [p EXCEPT !.count = @ - 1] ELSE p

\* After any audio packet, the frame in hand has one sector less to come.
CountDown(p) == IF p.started /\ p.count > 0 THEN [p EXCEPT !.count = @ - 1] ELSE p

\* Mutant: the packet that starts a frame is not counted down.
ParsePacket_StartNotCounted(p, packet, infos) ==
    CASE ~packet.audio -> p
      [] packet.audio /\ ~track.dst -> [p EXCEPT !.buffer = Append(@, packet.data)]
      [] packet.audio /\ track.dst /\ packet.start -> StartFrame(p, packet, infos)
      [] packet.audio /\ track.dst /\ ~packet.start -> CountDown(ContinueFrame(p, packet))

ParsePacket(p, packet, infos) ==
    CASE ~packet.audio -> p
      [] packet.audio /\ ~track.dst -> [p EXCEPT !.buffer = Append(@, packet.data)]
      [] packet.audio /\ track.dst /\ packet.start -> CountDown(StartFrame(p, packet, infos))
      [] packet.audio /\ track.dst /\ ~packet.start -> CountDown(ContinueFrame(p, packet))

\* Mutant: the complete frame is emitted at the next start only.
EndSector_Lazy(p) ==
    IF track.dst \/ Len(p.buffer) < ChunkSize THEN p
    ELSE [p EXCEPT !.out = Append(@, p.buffer), !.buffer = <<>>]

\* Mutant: the chunk is cut at CHUNK_SIZE and the rest of the buffer cleared.
EndSector_CutsChunk(p) ==
    IF track.dst
    THEN IF Complete(p)
         THEN [Emit(p) EXCEPT !.buffer = <<>>, !.started = FALSE, !.count = 0]
         ELSE p
    ELSE IF Len(p.buffer) >= ChunkSize
         THEN [p EXCEPT !.out = Append(@, SubSeq(p.buffer, 1, ChunkSize)), !.buffer = <<>>]
         ELSE p

\* Behind the last packet: a full DSD chunk is yielded, a complete DST frame is
\* emitted and no frame is in hand.
EndSector(p) ==
    IF track.dst
    THEN IF Complete(p)
         THEN [Emit(p) EXCEPT !.buffer = <<>>, !.started = FALSE, !.count = 0]
         ELSE p
    ELSE IF Len(p.buffer) >= ChunkSize
         THEN [p EXCEPT !.out = Append(@, p.buffer), !.buffer = <<>>]
         ELSE p

\* The loop over the packets, one after the other.
ParsePackets(packets, infos) ==
    LET after[i \in 0..Len(packets)] ==
          IF i = 0 THEN [parser EXCEPT !.infoIdx = 0] ELSE ParsePacket(after[i - 1], packets[i], infos)
    IN  after[Len(packets)]

-----------------------------------------------------------------------------
(* The sectors a disc may hold next *)

\* Parts of the current frame in the sectors so far.
PartsRead == (IF frame = 0 THEN MaxParts ELSE size[frame]) - left

Cont == IF left = 0 THEN <<>>
        ELSE <<[audio |-> TRUE, start |-> FALSE, data |-> <<frame, PartsRead + 1>>]>>
Start(f) == [audio |-> TRUE, start |-> TRUE, data |-> <<f, 1>>]
Padding  == [audio |-> FALSE, start |-> FALSE, data |-> <<0, 1>>]

\* What a frame info may say of a frame of n parts.
Declared(n) == IF ~track.dst THEN {0} ELSE IF track.damaged THEN Counts ELSE {n}

AnyCount == UNION {Declared(n) : n \in 1..MaxParts}

\* starts frames begin in the sector, the last of them parts sectors long, and
\* the i-th is declared to lie in declared[i] sectors; pad says behind which
\* packet a supplementary or padding packet stands, if any does.
Sectors ==
    UNION { [starts : {k}, parts : 1..MaxParts, declared : [1..k -> AnyCount], pad : 0..(MaxStarts + 2)] :
              k \in 0..MaxStarts }

\* Parts of the i-th frame that starts in sector s.
PartsOf(s, i) == IF i = s.starts THEN s.parts ELSE 1

WellFormed(s) ==
    /\ frame + s.starts <= track.last
    /\ left > 1 => s.starts = 0
    /\ s.starts = 0 => s.parts = 1
    /\ \A i \in 1..s.starts : s.declared[i] \in Declared(PartsOf(s, i))
    /\ s.pad <= Len(Cont) + s.starts + 1

Packets(s) ==
    LET audio == Cont \o [i \in 1..s.starts |-> Start(frame + i)]
    IN  IF s.pad = 0 THEN audio ELSE InsertAt(audio, s.pad, Padding)

Infos(s) == [i \in 1..s.starts |-> [time |-> frame + i, count |-> s.declared[i]]]

Advance(s) ==
    /\ UNCHANGED track
    /\ frame' = frame + s.starts
    /\ left' = IF s.starts > 0 THEN s.parts - 1 ELSE IF left > 0 THEN left - 1 ELSE 0
    /\ size' = [f \in DOMAIN size \cup (frame + 1)..(frame + s.starts) |->
                  IF f \in DOMAIN size THEN size[f] ELSE PartsOf(s, f - frame)]
    /\ sound' = sound \cup {f \in (frame + 1)..(frame + s.starts) :
                              s.declared[f - frame] = PartsOf(s, f - frame) \/ ~track.dst}

-----------------------------------------------------------------------------
(* parse_sector and flush *)

ParseSector ==
    /\ pc = "sectors"
    /\ \E s \in Sectors :
         /\ WellFormed(s)
         /\ LET p == EndSector(ParsePackets(Packets(s), Infos(s)))
            IN  /\ yielded' = yielded \o p.out
                /\ parser' = [p EXCEPT !.out = <<>>]
         /\ Advance(s)
    /\ UNCHANGED pc

\* A packet's length runs beyond the sector: the packets before it have been
\* taken, the frames they completed are lost with the Err.
ParseSectorFails ==
    /\ pc = "sectors"
    /\ \E s \in Sectors :
         /\ WellFormed(s)
         /\ \E i \in 0..Len(Packets(s)) :
              parser' = [ParsePackets(SubSeq(Packets(s), 1, i), Infos(s)) EXCEPT !.out = <<>>]
    /\ pc' = "failed"
    /\ UNCHANGED <<disc, yielded>>

\* Mutant: what is buffered is yielded whatever its timecode.
Flush_NoFilter ==
    /\ pc = "sectors"
    /\ parser' = [parser EXCEPT !.buffer = <<>>]
    /\ yielded' = IF parser.buffer = <<>> THEN yielded ELSE Append(yielded, parser.buffer)
    /\ pc' = "flushed"
    /\ UNCHANGED disc

\* The range ends here: what is buffered is yielded if the filter accepts it.
Flush ==
    /\ pc = "sectors"
    /\ LET p == parser
       IN  \/ p.buffer = <<>> /\ UNCHANGED <<parser, yielded>>
           \/ /\ p.buffer # <<>> /\ track.dst /\ ~ShouldYield(p)
              /\ parser' = [p EXCEPT !.buffer = <<>>]
              /\ UNCHANGED yielded
           \/ /\ p.buffer # <<>> /\ (track.dst => ShouldYield(p))
              /\ parser' = [p EXCEPT !.buffer = <<>>, !.decoded = IF track.dst THEN @ + 1 ELSE @]
              /\ yielded' = Append(yielded, p.buffer)
    /\ pc' = "flushed"
    /\ UNCHANGED disc

Done == pc # "sectors" /\ UNCHANGED parserVars

ParserNext == ParseSector \/ ParseSectorFails \/ Flush \/ Done
ParserSpec == ParserInit /\ [][ParserNext]_parserVars

-----------------------------------------------------------------------------
(* What the parser promises *)

Frame(f) == [i \in 1..size[f] |-> <<f, i>>]

\* The frames that started in the range and whose last part has been read.
LastEnded == IF left > 0 THEN frame - 1 ELSE frame
Ended     == 1..LastEnded

\* The frames among 1..n that the filter accepts lie between these two.
FirstWanted   == IF track.from > 1 THEN track.from ELSE 1
LastWanted(n) == IF n < track.to THEN n ELSE track.to - 1

\* At every sector boundary the frames yielded are exactly the complete frames
\* of the timecode range, each whole, in disc order, whichever sectors they
\* share and wherever the range begins (audio.rs 383-517).
YieldsExactlyTheTrack ==
    pc = "sectors" /\ track.dst /\ ~track.damaged =>
      yielded = [i \in 1..(LastWanted(LastEnded) - FirstWanted + 1) |-> Frame(FirstWanted + i - 1)]

\* The countdown of declared sectors agrees with the disc at every sector
\* boundary, so the next frame start finds its predecessor complete: the
\* off-by-one that dropped every other frame (audio.rs 463-471, tests 599-684).
\* A frame that ends in the sector is in hand no longer: it has come out of
\* parse_sector (490-516), where the comment of a test (723-726) has it "still
\* buffered after the sector boundary" until flush.
CountAgreesWithDisc ==
    pc = "sectors" /\ track.dst /\ ~track.damaged =>
      IF left > 0 /\ frame > 0
      THEN /\ parser.started /\ parser.count = left
           /\ parser.buffer = SubSeq(Frame(frame), 1, size[frame] - left)
      ELSE ~parser.started /\ parser.count = 0 /\ parser.buffer = <<>>

\* flush yields a frame short of parts only when the range ends inside a frame
\* of the track (audio.rs 521-541).
PartialOnlyAtRangeEnd ==
    track.dst /\ ~track.damaged => \A i \in DOMAIN yielded :
      LET f == yielded[i][1][1]
      IN  yielded[i] # Frame(f) => /\ pc = "flushed" /\ i = Len(yielded)
                                   /\ f = frame /\ left > 0 /\ InFilter(f)

\* Whatever sector counts the infos declare, a frame is never built from packets
\* of two frames.
NeverMixesFrames ==
    track.dst => \A buffer \in {parser.buffer} \cup {yielded[i] : i \in DOMAIN yielded} :
      \A i, j \in DOMAIN buffer : buffer[i][1] = buffer[j][1]

\* A wrongly declared frame costs no other frame: those declared right are
\* yielded whole (audio.rs 405-443).
DamageIsLocal ==
    pc = "sectors" /\ track.dst =>
      \A f \in sound : f \in Ended /\ InFilter(f) =>
        \E i \in DOMAIN yielded : yielded[i] = Frame(f)

\* Where the range begins.
FirstPacket == IF track.lead > 0 THEN <<0, MaxParts - track.lead + 1>> ELSE <<1, 1>>

\* Packets of consecutive parts of consecutive frames, from the range's first.
Continuous(stream) ==
    /\ stream # <<>> => Head(stream) = FirstPacket
    /\ \A i \in 2..Len(stream) :
         LET a == stream[i - 1]
             b == stream[i]
         IN  \/ a[1] = b[1] /\ b[2] = a[2] + 1
             \/ b = <<a[1] + 1, 1>> /\ a[2] = IF a[1] = 0 THEN MaxParts ELSE size[a[1]]

\* It ends with the last packet read, if one has been read.
ReachesDisc(stream) ==
    frame > 0 \/ left < track.lead => stream # <<>> /\ Last(stream) = <<frame, PartsRead>>

\* An uncompressed area loses and repeats no packet, chunk after chunk, from the
\* first packet of the range to the last (audio.rs 472-490, 546-549).
AudioIsContinuous ==
    pc # "failed" /\ ~track.dst =>
      LET stream == FlattenSeq(yielded) \o parser.buffer
      IN  /\ Continuous(stream) /\ ReachesDisc(stream)
          /\ pc = "flushed" => parser.buffer = <<>>

\* "When set, only frames with timecodes in [start, end) range are emitted."
\* (audio.rs 139-140)
OnlyFilteredFramesEmitted ==
    \A i \in DOMAIN yielded : \A j \in DOMAIN yielded[i] :
      yielded[i][j][1] > 0 => InFilter(yielded[i][j][1])

=============================================================================
