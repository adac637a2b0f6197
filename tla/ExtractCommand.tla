---------------------------- MODULE ExtractCommand ----------------------------
(***************************************************************************)
(* The extract and extract-net commands (src/main.rs): open the disc, read *)
(* the track selection, then extract the selected tracks of the stereo and *)
(* of the multichannel area.  For each track extract_track derives from    *)
(* the area's TOC the sectors to read and the frames to keep; what it then *)
(* does with them is the module ExtractPipeline, here one step that ends   *)
(* well or not.                                                            *)
(*                                                                         *)
(* An area on the disc has, beside its TOC copies, its tracks: times[t],   *)
(* durs[t] in frames, ranges[t] the SACDTRL1 entry, first and end sector.  *)
(***************************************************************************)
EXTENDS TocReader, Integers, SequencesExt

CONSTANTS
    Selections,     \* what may stand behind --tracks: <<>> when it is not given
    DiscSectors,    \* sectors of the disc, LSNs 0 .. DiscSectors-1
    U32,            \* 2^32: sector numbers are u32
    MinuteFrames,   \* FRAMES_PER_MINUTE
    MinuteLimit     \* 2^8: minutes of the timecode filter are u8

ASSUME CommandAssumption ==
    /\ DiscSectors \in Nat /\ U32 \in Nat \ {0} /\ DiscSectors < U32
    /\ MinuteFrames \in Nat \ {0} /\ MinuteLimit \in Nat \ {0}
    /\ \A s \in Selections : s \in Seq(Seq(Nat))
    /\ \A d \in Discs : \A a \in 1..2 :
         /\ d[a].times \in Seq(Nat) /\ d[a].durs \in Seq(Nat)
         /\ Len(d[a].times) = Len(d[a].durs) /\ Len(d[a].times) = Len(d[a].ranges)
         /\ \A t \in 1..Len(d[a].ranges) :
              d[a].ranges[t].start \in 0..(U32 - 1) /\ d[a].ranges[t].length \in 0..(U32 - 1)
         /\ d[a].first \in 0..(U32 - 1) /\ d[a].end \in 0..(U32 - 1)
         /\ d[a].perThree \in {0, 14, 16} /\ d[a].dst \in BOOLEAN

VARIABLES
    wanted,     \* extract_stereo, extract_mch: the areas asked for
    parts,      \* the --tracks argument, split at the commas
    selected,   \* selected_tracks
    area,       \* the area at hand, 3 behind the last
    next,       \* position of the track at hand
    extracted,  \* of each area the tracks whose files are complete
    phase       \* "opening", "extracting", "ok", "err", "panicked"

commandVars == <<wanted, parts, selected, area, next, extracted, phase>>
vars == <<disc, source, pc, at, parsed, toc, whole, wanted, parts, selected, area, next, extracted, phase>>

Count(a) == Len(disc[a].times)

\* A file that is complete: its track and the sectors it was read from.
Files == [track : Nat \ {0}, from : 0..(U32 - 1), to : 0..(U32 - 1)]

TypeOK ==
    /\ ReaderTypeOK
    /\ wanted \subseteq Areas /\ wanted # {} /\ parts \in Selections
    /\ selected \in Seq(Nat \ {0}) /\ area \in 1..3 /\ next \in Nat \ {0}
    /\ phase \in {"opening", "extracting", "ok", "err", "panicked"}
    /\ extracted \in [Areas -> Seq(Files)]
    /\ \A a \in Areas : \A i \in DOMAIN extracted[a] :
         a \in wanted /\ extracted[a][i].track \in 1..Count(a)

\* Neither flag asks for both areas.
Init ==
    /\ ReaderInit
    /\ wanted \in {{1}, {2}, {1, 2}} /\ parts \in Selections
    /\ selected = <<>> /\ area = 1 /\ next = 1
    /\ extracted = [a \in Areas |-> <<>>]
    /\ phase = "opening"

\* Every error of the opening, and its panic, ends the command.
Open ==
    /\ phase = "opening" /\ ReaderNext
    /\ phase' = CASE pc' = "failed" -> "err" [] pc' = "panicked" -> "panicked" [] OTHER -> phase
    /\ UNCHANGED <<wanted, parts, selected, area, next, extracted>>

-----------------------------------------------------------------------------
(* parse_track_selection: a part is <<track>> or <<from, to>> *)

\* Mutant: zero is let through, as in a list counted from zero.
PartOk_Zero(p) == Len(p) \in 1..2 /\ p[1] <= p[Len(p)]

PartOk(p) == Len(p) \in 1..2 /\ p[1] > 0 /\ p[1] <= p[Len(p)]

\* Mutant: the tracks stay in the order they were named.
Sorted_AsNamed(ps) ==
    FoldLeft(LAMBDA seq, p : seq \o SetToSortSeq((p[1]..p[Len(p)]) \ ToSet(seq), <), <<>>, ps)

\* The tracks the parts name.
Listed(ps) == UNION {p[1]..p[Len(p)] : p \in ToSet(ps)}

Ascending(seq) == \A i, j \in DOMAIN seq : i < j => seq[i] < seq[j]

\* Each number once, and sorted.
Sorted(ps) ==
    CHOOSE seq \in [1..Cardinality(Listed(ps)) -> Listed(ps)] :
      ToSet(seq) = Listed(ps) /\ Ascending(seq)

\* A good selection may still end the command: the output directory is created
\* next, and that may fail.
SelectTracks ==
    /\ phase = "opening" /\ pc = "open"
    /\ IF \A i \in DOMAIN parts : PartOk(parts[i])
       THEN selected' = Sorted(parts) /\ phase' \in {"extracting", "err"}
       ELSE phase' = "err" /\ UNCHANGED selected
    /\ UNCHANGED <<readerVars, wanted, parts, area, next, extracted>>

-----------------------------------------------------------------------------
(* extract_track: the sectors to read and the frames to keep *)

\* The estimate: three frames take 14 or 16 sectors.
Place(a, frame) == disc[a].first + (frame * disc[a].perThree) \div 3

\* Place as the program computes it, in u32.
SectorOf(a, frame) == Place(a, frame) % U32

Explicit(a, t) ==
    "trl1" \in toc[a][1].tables /\ disc[a].ranges[t].start # 0 /\ disc[a].ranges[t].length # 0

\* Mutant: the estimate ends where the track's own duration ends.
EndOf_ByDuration(a, t) ==
    IF t < Count(a) THEN SectorOf(a, disc[a].times[t] + disc[a].durs[t]) ELSE disc[a].end

EndOf(a, t) == IF t < Count(a) THEN SectorOf(a, disc[a].times[t + 1]) ELSE disc[a].end

\* Mutant: the start is rounded up to a whole sector.
StartOf_RoundsUp(a, t) ==
    IF t = 1 THEN disc[a].first
    ELSE (disc[a].first + (disc[a].times[t] * disc[a].perThree + 2) \div 3) % U32

StartOf(a, t) == IF t = 1 THEN disc[a].first ELSE SectorOf(a, disc[a].times[t])

\* Mutant: the entry's length is taken for the sector it ends at.
Sectors_LengthIsEnd(a, t) ==
    LET r == disc[a].ranges[t]
    IN  IF Explicit(a, t) THEN [from |-> r.start, to |-> r.length]
        ELSE [from |-> StartOf(a, t), to |-> EndOf(a, t)]

\* start_lsn and end_lsn.
Sectors(a, t) ==
    LET r == disc[a].ranges[t]
    IN  IF Explicit(a, t) THEN [from |-> r.start, to |-> (r.start + r.length) % U32]
        ELSE [from |-> StartOf(a, t), to |-> EndOf(a, t)]

\* A frame number as set_timecode_filter gets it: its minutes cast to u8.
Timecode(frame) == frame % (MinuteLimit * MinuteFrames)

Window(a, t) ==
    [first |-> Timecode(disc[a].times[t]), last |-> Timecode(disc[a].times[t] + disc[a].durs[t]) - 1]

Requested(a) == IF selected = <<>> THEN [i \in 1..Count(a) |-> i] ELSE selected

\* The track at hand.
track == Requested(area)[next]

AtTrack ==
    /\ phase = "extracting" /\ area \in wanted /\ toc[area] # <<>>
    /\ next <= Len(Requested(area))

\* No such track, no times in the TOC, or an unknown frame format.
Rejects == track > Count(area) \/ "trl2" \notin toc[area][1].tables \/ disc[area].perThree = 0

\* A sum beyond 2^32, or end_lsn - start_lsn below zero.
Overflows ==
    LET r == disc[area].ranges[track]
    IN  \/ Sectors(area, track).to < Sectors(area, track).from
        \/ Explicit(area, track) /\ r.start + r.length >= U32
        \/ ~Explicit(area, track) /\ \E t \in {track, track + 1} \cap 2..Count(area) :
                                      Place(area, disc[area].times[t]) >= U32

TrackRejected ==
    /\ AtTrack /\ Rejects
    /\ phase' = "err"
    /\ UNCHANGED <<readerVars, wanted, parts, selected, area, next, extracted>>

\* Every sector of the range was delivered.  An empty range reads nothing and
\* succeeds: `while current_lsn < end_lsn` is not entered, and the file is empty.
ExtractTrack ==
    /\ AtTrack /\ ~Rejects
    /\ LET range == Sectors(area, track)
       IN  /\ range.from < range.to => range.to <= DiscSectors
           /\ extracted' = [extracted EXCEPT ![area] =
                             Append(@, [track |-> track, from |-> range.from, to |-> range.to])]
    /\ next' = next + 1
    /\ UNCHANGED <<readerVars, wanted, parts, selected, area, phase>>

\* The pipeline or the file fails.
TrackFails ==
    /\ AtTrack /\ ~Rejects
    /\ phase' = "err"
    /\ UNCHANGED <<readerVars, wanted, parts, selected, area, next, extracted>>

\* A build with overflow checks panics where another wraps.
TrackPanics ==
    /\ AtTrack /\ ~Rejects /\ Overflows
    /\ phase' = "panicked"
    /\ UNCHANGED <<readerVars, wanted, parts, selected, area, next, extracted>>

\* Mutant: the multichannel area is handled inside the stereo branch.
AreaDone_Nested ==
    /\ phase = "extracting" /\ area <= 2
    /\ \/ area \notin wanted \/ toc[area] = <<>> \/ next > Len(Requested(area))
    /\ area' = IF toc[area] = <<>> THEN 3 ELSE area + 1
    /\ next' = 1
    /\ UNCHANGED <<readerVars, wanted, parts, selected, extracted, phase>>

\* An area that was not asked for or has no TOC is passed over.
AreaDone ==
    /\ phase = "extracting" /\ area <= 2
    /\ \/ area \notin wanted \/ toc[area] = <<>> \/ next > Len(Requested(area))
    /\ area' = area + 1 /\ next' = 1
    /\ UNCHANGED <<readerVars, wanted, parts, selected, extracted, phase>>

Complete ==
    /\ phase = "extracting" /\ area = 3
    /\ phase' = "ok"
    /\ UNCHANGED <<readerVars, wanted, parts, selected, area, next, extracted>>

Ended == phase \in {"ok", "err", "panicked"} /\ UNCHANGED vars

Next ==
    \/ Open \/ SelectTracks \/ AreaDone \/ Complete \/ Ended
    \/ TrackRejected \/ ExtractTrack \/ TrackFails \/ TrackPanics

Spec == Init /\ [][Next]_vars

-----------------------------------------------------------------------------
(* What the command promises *)

\* The tracks of an area that the command line asks for.
Named(a) == IF parts = <<>> THEN 1..Count(a) ELSE Listed(parts)

Done(a) == {e.track : e \in ToSet(extracted[a])}

\* The command succeeds only when every track named on the command line, or
\* every track of the disc when none is named, was extracted of every area asked
\* for, once and in ascending order; an area is left out only if neither copy of
\* its TOC could be parsed (main.rs 316-354, 430-468).
OkMeansAllTracks ==
    phase = "ok" => \A a \in wanted :
      \/ parsed[a] = [k \in Copies |-> <<>>]
      \/ /\ Done(a) = Named(a)
         /\ Ascending([i \in DOMAIN extracted[a] |-> extracted[a][i].track])

\* However the tracks are named, and wherever the command stops, those in the
\* files are the lowest named ones of the area at hand, and nothing of the
\* multichannel area is there before the stereo area is complete: a number
\* that is too high costs no track below it (main.rs 522, extractor.rs 571).
LowerTracksFirst ==
    \A a \in Areas : \A e \in ToSet(extracted[a]) :
      /\ \A t \in Named(a) : t < e.track => t \in Done(a)
      /\ (a = 2 /\ 1 \in wanted /\ toc[1] # <<>>) => Done(1) = Named(1)

Estimated(a) == toc[a] # <<>> /\ "trl1" \notin toc[a][1].tables

\* Without SACDTRL1 the ranges tile the area: a whole-area extraction reads
\* every sector from track_start to track_end exactly once, pauses between
\* tracks and fractions of a frame included (extractor.rs 117-136).
RangesTile ==
    \A a \in wanted : Estimated(a) /\ parts = <<>> =>
      LET es == extracted[a]
      IN  /\ es # <<>> => es[1].from = disc[a].first
          /\ \A i \in 2..Len(es) : es[i].from = es[i - 1].to
          /\ Len(es) = Count(a) /\ es # <<>> => es[Len(es)].to = disc[a].end

\* The sectors a frame lies in: by the fixed ratio in an uncompressed area, as
\* recorded in a compressed one.
SectorsOf(a, frame) ==
    IF disc[a].dst THEN disc[a].places[frame + 1]
    ELSE Place(a, frame)..(disc[a].first + (((frame + 1) * disc[a].perThree - 1) \div 3))

\* The TOC describes tracks one behind the other, on the disc and in the area.
Consistent(a) ==
    /\ \A t \in 2..Count(a) : disc[a].times[t - 1] + disc[a].durs[t - 1] <= disc[a].times[t]
    /\ \A t \in 1..Count(a) : /\ disc[a].durs[t] > 0
                              /\ Place(a, disc[a].times[t] + disc[a].durs[t]) <= disc[a].end
    /\ disc[a].end <= DiscSectors

\* An estimated range of an uncompressed area holds every frame of the track's
\* timecode window, but for the sector the last frame shares with what follows
\* (extractor.rs 117-136, 199-217).
EstimateCutsOneSharedSector ==
    \A a \in Areas : Estimated(a) /\ Consistent(a) /\ ~disc[a].dst =>
      \A e \in ToSet(extracted[a]) :
        \A f \in Window(a, e.track).first..Window(a, e.track).last :
          SectorsOf(a, f) \subseteq e.from..e.to

\* "DST uses similar frame structure as DSD" (types.rs 51), by which the range
\* of a track is estimated when the disc has no explicit one: every frame of
\* the track's window begins inside its range.
EstimateHoldsDstTrack ==
    \A a \in Areas : Estimated(a) /\ disc[a].dst =>
      \A e \in ToSet(extracted[a]) :
        \A f \in Window(a, e.track).first..Window(a, e.track).last :
          Min(SectorsOf(a, f)) \in e.from..(e.to - 1)

\* A file is reported as extracted although nothing was read only if the TOC
\* contradicts itself: an entry of SACDTRL1 that ends beyond 2^32, or estimated
\* places that go back or leave the area.  Compressed areas are set apart: there
\* the estimate alone does it (extractor.rs 112-139, 272).
EmptyOnlyByContradiction ==
    \A a \in Areas : \A e \in ToSet(extracted[a]) :
      LET r == disc[a].ranges[e.track]
      IN  e.from >= e.to =>
            IF Explicit(a, e.track) THEN r.start + r.length >= U32
            ELSE disc[a].dst \/ ~Consistent(a)

=============================================================================
