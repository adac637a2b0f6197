# A TLA+ model of sacd-rs

sacd-rs reads Super Audio CDs, from an ISO image or over TCP from a console
that runs a "ripper" server, and writes one DSF file per track. This directory
holds TLA+ modules of the parts of it that are hard to test, TLC configurations
that check them on small instances, and proofs, checked by TLAPS, of what
matters most about the extraction pipeline, the sector parser, the two together,
the sequence of files, the network session, the extract command and the
decoders: every invariant the passing runs check is also a theorem, one of them
under a hypothesis on the disc's size (`MinutesFit`). Paths below are relative
to the repository; line numbers are those of the modelled commit.

    tlc -workers 2 -config MCExtractPipeline.cfg MCExtractPipeline
    tlapm ExtractPipelineProofs.tla
    tlapm InductionLemmas.tla
    tlapm SectorParserProofs.tla
    tlapm ExtractionProofs.tla
    tlapm TrackSequenceProofs.tla
    tlapm NetSessionProofs.tla
    tlapm ExtractCommandProofs.tla
    tlapm DecodersProofs.tla

## Inventory

| component | source | state | operations |
|---|---|---|---|
| extraction pipeline | `src/scarletbook/extractor.rs` 63-523 | three threads, two bounded channels, the batch at hand | read, parse, send; receive, decode, send; receive, write; joins, finalize |
| audio sector parser | `src/scarletbook/audio.rs` | frame buffer, sectors outstanding, started flag, timecode, counters | `parse_sector`, `flush` |
| DSF writer | `src/scarletbook/dsf.rs` | per-channel buffers, position, two byte counters, nopad flag | `create`, `pre_load_carry`, `write_samples`, `finalize` |
| track sequence | `src/scarletbook/extractor.rs` 532-625 | position in the selection, pending carry | one `extract_track` per selected track |
| network reader | `src/sacd_reader/net_reader.rs` | the TCP stream | open, `read_data`, `get_total_sectors`, `dump_iso`, close on drop |
| ISO reader | `src/sacd_reader/iso_reader.rs` | file, cached size | seek and `read_exact` |
| Scarletbook reader | `src/scarletbook/reader.rs` | master TOC, two area TOCs | reads each TOC and its copy, chooses |
| area TOC, master TOC, types | `src/scarletbook/area_toc.rs`, `master_toc.rs`, `types.rs` | none | decode fixed layouts, search for tables, read track and master texts |
| ID3 footer | `src/scarletbook/id3.rs` | none | chooses and renders text frames |
| command line | `src/main.rs` | none | sequences the above, parses a track selection |

How they interact. The command line opens a reader (network or ISO), the
Scarletbook reader takes the TOCs through it, and the track extractor owns it
while tracks are extracted. `extract_tracks` calls `extract_track` once per
selected track, handing the partial block a track ended with to the next one
(nopad mode). `extract_track` starts a producer thread (reader and sector
parser) and a writer thread (DSF writer); the calling thread decodes batches on
a rayon pool. Threads interact only through two `sync_channel`s, by the
dropping of channel ends, and by joins. `dump_iso` uses the network reader
alone.

What is hard in it:

- *Concurrency and failure in the pipeline.* A stage notices that its peer is
  gone only by a failed send or receive; the producer then returns `Ok`
  although it stopped early. Whether the caller is told the truth depends on
  what the other stages return and on the order of the joins and `?`s. Every
  channel end must be dropped before the join that depends on it.
- *The frame countdown.* Frames lie across sectors, several may start in one,
  a range may begin inside a frame, and the sector count of a frame info is
  counted down by one packet at a time; a frame is emitted in two places.
- *Carries.* In nopad mode a file begins with bytes of earlier tracks; two
  byte counters and the position of the channel round-robin must account for
  them.
- *Redundant, partial metadata.* Each TOC has a copy; either may be missing,
  damaged or cut short by the network, the search for tables trusts the size in
  the header, and a missing table changes how track ranges are derived.
- *Framing.* A reply ends with a zero byte, payloads are full of zeros, TCP
  cuts where it likes, and no reply says which request it answers. The server
  may send fewer or more sectors than asked for, or fall silent.
- *Numbers from the disc.* Sector ranges are sums and products of TOC values in
  u32, packet lengths have eleven bits in two bytes, and the items of a track's
  texts end where the bytes say so.

What makes each component correct:

| component | correct when |
|---|---|
| pipeline | the file is an in-order prefix of what was yielded; `Ok` means complete; an error is one that happened; memory is bounded; the call returns |
| parser | exactly the frames of the timecode range are yielded, whole and in order; a damaged frame harms no other |
| writer and sequence | each channel's bytes are delivered in order and once across files; padding only where allowed; the sample count is the file's |
| network reader | a read returns its own reply; the image begins with the disc, whole on `Ok`; the disc is closed; only a silent server keeps a caller waiting |
| TOC reader | one intact copy that is delivered in full is enough; the search for tables stays inside the data |
| extract command, track ranges | success means every requested track; estimated ranges tile the area and hold the tracks' frames; an empty file comes of a contradictory TOC only |
| sector header, texts, tag | what was mastered is what is read; no thing of the disc is named twice or left out |

`PROJECT.json` lists the hazards line by line with the properties that cover them.

## Modules

| module | models | state and actions |
|---|---|---|
| `TrackTransfer` | what `extract_track` promises: an ordered copy that ends complete or with an error | frames yielded, the file, the outcome |
| `ExtractPipeline` | the three-stage pipeline | one variable per local that matters, one program counter per thread; one action per channel operation, read, parse, write, join, and one per way each of them fails |
| `ExtractPipelineProofs` | its inductive invariant; theorems on order, completeness, failures, the error reported and the memory in flight; the pipeline implements `TrackTransfer` | |
| `SectorParser` | `AudioSectorParser` reading any disc the bounds allow | `parser` is the struct; `ParseSector`, `ParseSectorFails`, `Flush`; the variables `frame`, `left`, `size`, `sound` say what the disc holds; `lead` of a track says how many packets of an earlier frame the range begins with |
| `InductionLemmas` | induction over natural numbers, stated about sets; facts about appending and flattening | |
| `SectorParserProofs` | theorems about `SectorParser` | |
| `Extraction` | `extract_track` as a whole: `ExtractPipeline` whose producer drives `SectorParser` | `ParseInTrack`, `ParseFailsInTrack` and `FlushInTrack` are steps of both, every other step one of the pipeline alone (`Alone`) |
| `ExtractionProofs` | theorems: the file is the track, and the pipeline with the parser's frames in it implements `TrackTransfer` | |
| `SectorHeader` | the bytes of an audio sector: frame header, packet infos, frame infos, the places of the packets | one operator per `from_bytes`; no state |
| `TrackTag` | texts of tracks and of the master text, and which ID3 frame is made of which | one operator per function; no state |
| `Decoders` | a sector or a disc laid out in bytes, then read by `SectorHeader` and `TrackTag` | `ReadSector`, `ReadDisc`; `SectorsAssumption` and `DiscsAssumption` say which sectors and discs are meant |
| `DecodersProofs` | theorems about `Decoders`: what was mastered is read, for every sector and disc | |
| `DsfWriter` | `DsfWriter` as a record and operators on it | one operator per method |
| `TrackSequence` | `extract_tracks`, composed with `DsfWriter` | `OpenFile`, `WritePiece`, `Finalize`, `TrackFails`, `AllDone` |
| `TrackSequenceProofs` | theorems about the files `TrackSequence` leaves and the writer behind them | |
| `NetSession` | `NetReader` and a server | `Open`, `Read`, `DumpIso`, `DumpRead`, `DumpEnds`, `Drop` send requests; `Receive` is one turn of `send_req`'s loop with all that follows from a complete reply; `Eof`, `Server`, `Break`, `FallsSilent` |
| `NetSessionProofs` | theorems about `NetSession` | |
| `TocReader` | `reader::new` over either reader, and what `AreaToc::from_bytes` finds in the sectors it is given | `ReadMasterToc`, `ReadMasterText`, `ReadTocCopy` (with the choice, after the second copy), `TocPanics`; a TOC is the set of tables found in it |
| `ExtractCommand` | the commands `extract` and `extract-net`, composed with `TocReader`; sector range and timecode window of a track | `Open`, `SelectTracks`, `ExtractTrack`, `TrackRejected`, `TrackFails`, `TrackPanics`, `AreaDone`, `Complete`; the making of the output directory belongs to `SelectTracks`, which it may end in an error; what `ExtractPipeline` and `TrackSequence` do in detail is one step |
| `ExtractCommandProofs` | theorems about the opening of a disc, the command's result and the estimated ranges | |
| `MC...` | the instance TLC checks, described by its comment and its .cfg | |

Frames, sample bytes and sectors are numbers or small records that say where
they come from: the properties are about order, loss and completeness. In the
pipeline the k-th yielded frame is the number k, compressed or decoded. A Rust
closure that returns drops its channel ends, so an end is alive exactly while
its thread is inside its closure (`DecoderAlive`, `ProducerAlive`,
`WriterAlive`).

Definitions named `Operator_Variant` and introduced by the word "Mutant" are
plausible mistakes in the operator they stand before. No behaviour uses them:
put in the operator's place, each makes the property it is paired with in
`PROJECT.json` fail, which shows that the property depends on that code.

## Runs

| run | instance | what it shows |
|---|---|---|
| `pipeline` | 5 sectors of up to 2 frames, reads of 2 sectors, both channels 2, batch 3, compressed and uncompressed | all properties of the pipeline, termination and the refinement, under every interleaving and failure |
| `parser` | six frames of up to 3 sectors with up to 3 starts in one, filter [2, 5); a whole area; damaged frame infos with any sector count from 0 to 3, at every frame start; ranges that begin with 0 to 2 packets of an earlier frame; uncompressed chunks of 2 packets | exactly the track is yielded, counts agree, partial frames only at the range's end, damage stays local, the audio is continuous |
| `extraction` | 5 sectors, frames of up to 2 sectors, reads of 3, first channel 2, batch 2, second channel 1, both formats | the file is a beginning of the track as the disc has it, all of it on `Ok` |
| `sequence` | 3 channels, blocks of 2, 3 tracks of up to 5 bytes a channel, any selection, nopad on and off | gapless over consecutive tracks, a hole costs one tail, padding at the end only, sample counts of default mode |
| `command` | a disc of 80 sectors and 2^32 = 128; areas of 3 and 2 tracks, TOCs of 6 sectors with each kind of damage, answers of any length up to one sector too many, times that go back, ranges and places beyond 2^32, six selections | one good copy suffices, success is complete, estimated ranges tile the area, empty files come of contradictions only |
| `net_session` | 3 sectors of 2 bytes, blocks of 2 sectors, chunks of 1 to 4 bytes, one read and one dump | framing, image, close, and what can keep a caller waiting |
| `decoders` | sectors of 2048 bytes with up to seven packets, at and beyond the sector's end; two tracks' texts in either order with every padding; every combination of titles, artists, catalog numbers and genres | what was mastered is read and tagged |
| `parser_dsd_filter`, `sequence_samples`, `net_short_read`, `estimate_dst`, `channel_count` | the modules above, one property each | disagreements between code and comments, below |

Why the bounds are enough. The pipeline's up to ten frames pass channels of two
and batches of three, so every stage meets an empty and a full channel, and the
batches are full, partial and empty at the end of the track. Five sectors in
reads of two give full and clipped chunks. Three sectors per frame give a
first, a middle and a last part, three starts in a sector give a frame that
begins and ends among others; the filter leaves frames out on both sides, and
the composition needs frames that go on in the next sector and a range that
begins and ends inside one, which two sectors per frame give. A damaged frame info
that declares from none to three sectors for a frame of one to three leaves the
parser done early, waiting, or right by chance. Tracks of zero to
five bytes and blocks of two give tracks below, at and beyond a block, and
carries that pass through a whole track. Chunks of up to four bytes cut replies
of five to eleven bytes behind every field and every zero; a block of two on a
disc of three gives a short last block and an overlong one. The stereo area's
tracks have a pause between two of them and one that starts inside a sector, so
that rounding and the choice between next start and own duration show; its TOC
copies take every pair of intact, damaged and overlong; other areas have times
that go back, an unknown frame format, an empty SACDTRL1 entry, one that ends
beyond 2^32 and places that do. The packet lengths stand around the two-byte
split and around the sector's end.

What the model assumes of its surroundings: frames lie in consecutive sectors
with one packet in each, and a sector in which a frame goes on holds no later
start (`WellFormed`); a track delivers the same number of bytes for each channel;
the server answers a request for sectors with whole sectors from the position
asked for, with a payload cut short, or with a failure, never with more than
`MaxBlock` sectors, and its messages are within the 1 MB that `max_size` allows;
the disc is smaller than 2^32 - 512 sectors (`SessionAssumption`). The parse of
a TOC depends on the tables' places only, not on the fields' values.

Deadlock is checked in every run; the disjuncts `Terminated`, `Done`, `Stopped`,
`Closed`, `Ended` and `Stop` stand for a program that has returned.

## Fairness

`ExtractPipeline`: weak fairness of each thread. A thread that is not blocked
on a channel or a join is scheduled by the operating system, and its reads,
decodes and writes return or fail. Which of its outcomes a thread meets is not
constrained. `NetSession`: weak fairness of the client's thread and of the
server; the server's ends when it has fallen silent (`FallsSilent`, which may
happen at any moment and in the middle of a reply). Since `send_req` sets no
timeout, `CallsReturn` can only say that nothing but such silence over a
standing connection keeps a caller waiting, and it says that of the drop too.
`TrackTransfer` asks only that an outcome is reached. The other modules state
safety only.

## Proofs

`ExtractPipelineProofs` proves, for every track length, capacity and batch size
that `PipelineAssumption` admits:

| theorem | says |
|---|---|
| `TypeCorrect` | `Spec => []TypeOK` |
| `FileOrdered` | `Spec => []WrittenInOrder` |
| `InFlightConserved` | `Spec => []NothingLostInFlight` |
| `OkIsComplete` | `Spec => []OkMeansComplete` |
| `EarlyStopExplained` | `Spec => []FailureExplained` |
| `TrueBlame` | `Spec => []BlameIsTrue` |
| `BoundedMemory` | `Spec => []MemoryBounded` |
| `ImplementsTransfer` | `Spec => Transfer!SafeSpec` |

The argument. `NothingLostInFlight` says where the frames are while no stage
has failed, but it says nothing once one has, and `WrittenInOrder` must survive
failures. The inductive invariant `IInv` therefore has three parts besides
`TypeOK`. `ControlInv` relates program counters, results and channel contents:
what a thread's result says about how far it got, and that a dropped receiver
leaves an empty queue. `DecoderHolds` says of the slots of a parallel decode
that each is a hole or holds the frame of its index: this is what makes the
order of completion irrelevant. `DataInv` chains the places a frame can be in
(file, writer's batch, second channel, decoder, first channel, producer) into
consecutive runs, each link guarded by the condition under which the stage
behind it still delivers, so that the front of the chain stays in order when
the back has been lost. The lemmas `OneFrame`, `RunAppend`, `RunTail`,
`RunLast`, `RunFresh` and `RunEmpty` are about runs of consecutive numbers in
sequences; `DataInvProducer`, `DataInvDecoder`, `DataInvSendDecoded` and
`DataInvWriter` show that each thread's steps preserve the chain. The first
five theorems follow from `Invariance` (`Spec => []IInv`).

The other three add what `IInv` does not say. `Settled`: once there is a result
every thread has stopped, so an error cannot turn out untrue afterwards.
`WithinLimits`: each place is within its own limit, and a batch that is full is
no longer being collected. `OnlyYielded`: no stage holds a frame not yet
yielded, also where `DataInv` has given up its order after a failure; with it a
write is a step of the transfer, which may not write what has not been yielded.

`NetSessionProofs` proves, for every disc, sector, block and chunk size and
number of calls that `SessionAssumption` admits:

| theorem | says |
|---|---|
| `TypeCorrect` | `Spec => []TypeOK` |
| `OwnReply` | `Spec => []ReadsItsOwnReply` |
| `InStep` | `Spec => []StreamInStep` |
| `DumpIsPrefix` | `Spec => []IsoIsPrefix` |
| `DumpOkIsWhole` | `Spec => []IsoOkMeansWhole` |
| `ClosedDisc` | `Spec => []DiscIsClosed` |

`StreamInStep` speaks of the moments between requests; what makes it hold is
`Stream`, which says of a request under way that the buffer and the stream hold
pieces of one answer to it. The lemma all rests on is `OnlyWholeIsComplete`: no
proper prefix of a reply is complete, although its fields may end there and the
next byte may be a zero, and a whole reply decodes to what was sent. `Dumping`
relates the file to `current` and says how far an overlong last block can
reach, and why the size of a failed answer, 2^32 - 1, never ends a dump; its
arithmetic is in `SliceConcat`, `DivProduct` and `NarrowU32`. `Seen` says which
requests the server has answered at each point of the client.

`SectorParserProofs` proves, for every disc that `WellFormed` describes, every
filter, frame size and range that the assumptions of `SectorParser` admit:

| theorem | says |
|---|---|
| `ParserTypeCorrect` | `ParserSpec => []ParserTypeOK` |
| `CountAgrees` | `ParserSpec => []CountAgreesWithDisc` |
| `YieldsTheTrack` | `ParserSpec => []YieldsExactlyTheTrack` |
| `PartialAtRangeEnd` | `ParserSpec => []PartialOnlyAtRangeEnd` |
| `FramesStayApart` | `ParserSpec => []NeverMixesFrames` |
| `DamageStaysLocal` | `ParserSpec => []DamageIsLocal` |
| `AudioContinuous` | `ParserSpec => []AudioIsContinuous` |

The argument. One sector is one step, but inside it `parse_sector` goes through
its packets, and the properties hold between sectors only because something
holds between packets. `Good` is that something: what the buffer, the sectors
outstanding and the yielded frames are when a given number of packets of the
sector has been taken. One packet preserves it (`ContinueGood`, `EndGood` and
`StartGood`: a frame goes on, ends, or starts, `PacketReads` for all three), and
an induction on the number of packets carries it to the end of the sector
(`ParseReads`). `Flow` says the same of the audio of uncompressed areas, where
the bytes count and not the frames. Between sectors
`ParserInv` relates the parser to where the disc stands: the parser waits for
exactly the sectors the frame at hand still has, unless the range began inside
a frame or a sector was damaged. The frames yielded are then an interval:
`FirstWanted` to `LastEnded`, the closed form of `YieldsExactlyTheTrack`.
`YieldsTheTrack`, `CountAgrees` and `PartialAtRangeEnd` are about tracks whose
frame infos are sound; `FramesStayApart` and `DamageStaysLocal` about damaged
ones too, whatever set of sector counts `Counts` is and at every frame start.
`AudioContinuous` pins the stream at both ends: it begins with the range's first
packet, which may belong to an earlier frame, and ends with the last one read.

`ExtractionProofs` stands on the two proofs it composes:

| theorem | says |
|---|---|
| `TrackIsExtracted` | `TrackSpec => []FileIsTheTrack` |
| `ExtractionTransfers` | `TrackSpec => Transfer!SafeSpec` |

The invariant `TrackInv` joins five parts: the pipeline's `IInv` and
`OnlyYielded`, the parser's `ParserInv`, `TrackYields` (what the parser has
handed out is the track so far, also after the producer has stopped because a
peer is gone) and `TrackLink` (the frames the pipeline counts are those the
parser has handed out, and a producer that returned `Ok` with its receiver
alive has flushed the parser at the end of the range). A step of the composition
is a step of each part or leaves it unchanged, so the invariants of the parts
are used and not proved again, and the pipeline's refinement carries over
(`ExtractionTransfers`). For a compressed area `TrackIsExtracted` speaks of
tracks whose frame infos are sound; what damage costs is `DamageStaysLocal`.

`TrackSequenceProofs` proves, for every number of tracks and channels, block
size, track length and cutting into pieces that the assumptions of
`TrackSequence` and `DsfWriter` admit:

| theorem | says |
|---|---|
| `SequenceTypes` | `Spec => []TypeOK` |
| `SequenceIsGapless` | `Spec => []Gapless` |
| `HolesLoseTails` | `Spec => []HolesLoseTailsOnly` |
| `PaddingEndsFiles` | `Spec => []PaddingOnlyAtEnd` |
| `PaddedCountIsAudio` | `Spec => []PaddedSampleCountIsAudio` |

The properties compare block-interleaved files with bytes dealt out in turn to
the channels, so the proof first settles what each step of the writer does to
one channel. `ChannelOfRow`: a row of blocks behind the data gives every channel
its block (`FlattenBlocks`, and `DivUnique` for the places). `ByteStep`: the
next byte of a track goes to the end of its channel and to no other, also when
it fills the last block of a row and the row is flushed; `Share` and `ShareStep`
count the bytes of a channel in a round-robin that has stopped anywhere.
`WriteSamplesDef` unfolds `write_samples` into one application of `WriteByte`
for each byte, and `PieceStep` is the induction over them. `FinalizeCloses`:
after `finalize` a channel's audio in the file and the carry together are what
it was given, and what the file has beyond that is the same padding in every
channel.

`SequenceInv` is then about the loop. Between two files (`Between`) everything
saved, followed by the carry, and while a file is written (`During`) everything
saved, followed by the tails the file began with, is a sequence `SoFar`: tracks
ascend in it and none lacks a byte in its middle, it holds nothing of a track
still to come, over a selection without holes it is all that was delivered, and
in any selection it is short of that by less than a block for each hole passed.
`Gapless` alone would not be inductive: it says nothing once a hole has been
passed, and does not say that the tails a file begins with are shorter than a
block, as long in every channel and cut off by no hole from the tracks they come
from. That is `Tailed`; it is what keeps the channels of a file in step, although the writer
keeps one position for all. `SoFarGrows`, `SoFarDrops` and `SoFarKeeps` are the
three things that can happen to the sequence: a piece is delivered, a carry is
dropped, a file is finished.

`ExtractCommandProofs` proves, for every set of discs that `DiscsAssumption`
admits, every TOC length and every delivery of sectors:

| theorem | says |
|---|---|
| `CommandTypeCorrect` | `Spec => []TypeOK` |
| `NoPanicOnWholeReads` | `Spec => []WholeReadsNeverPanic` |
| `IntactSuffices` | `Spec => []IntactCopySuffices` |
| `SuccessIsComplete` | `Spec => []OkMeansAllTracks` |
| `LowTracksAreSafe` | `Spec => []LowerTracksFirst` |
| `EstimatesTile` | `Spec => []RangesTile` |
| `EmptyFilesExplained` | `Spec => []EmptyOnlyByContradiction` |
| `EstimatesHoldWindows` | `MinutesFit => (Spec => []EstimateCutsOneSharedSector)` |

`IntactCopySuffices` speaks only of the moment when the disc is open;
`OpeningInv` says what holds on the way there: that an intact copy read in full,
however much came behind it, was parsed with all its tables (`WholeIsParsed`), and that an area's TOC is the
choice between its two results except between the reads of the two
(`TocIsChosen`). `IntactIsParsed` is the fact about `from_bytes`: an intact copy
read in full passes every check and every table is found; it needs the least
element of a set of sectors (`MinOfNats`), since the code stops at the first.
`CommandInv` says what has been extracted of each area: all that was listed of
an area left behind, and the beginning of the ascending selection of the one at
hand. The ranges are arithmetic on the TOC's times; the proofs take them apart
into the rounding of one boundary (`floor` of 14 sectors for 3 frames) and the
order of the times. `EmptyFilesExplained` sets the estimated ranges of compressed
areas apart, as its property does: there the ratio alone can make a range empty.

`MinutesFit` is the one theorem's hypothesis that no assumption of the module
states: the disc has fewer than 5,376,000 sectors, so that all its frames have
timecodes below 256 minutes, the largest a byte of the time field holds. A
Super Audio CD layer has about 2.3 million. Beyond it the timecode of a frame
would wrap and the window of a track would be another.

`DecodersProofs` proves, for every set of sectors and of discs that
`SectorsAssumption` and `DiscsAssumption` admit (any packets and infos that the
header's bits can count, any number of tracks with any texts, stored in any
order with any padding, any master texts, catalog numbers and genres):

| theorem | says |
|---|---|
| `SectorsAreSplit` | `Spec => []SectorIsSplit` |
| `DiscTextsSurvive` | `Spec => []TextsSurvive` |
| `TagsAreUnambiguous` | `Spec => []TagIsUnambiguous` |

A decoder takes one step, so `DecodersInv` only says what the step has put out;
the proofs are about bytes. A sector's headers have equal lengths per kind, so
they lie in blocks (`FlattenBlocks`, `SectorLayout`), and each is read back bit
field by bit field (`HeaderByte`, `PacketBytes`, `InfoBytes`); the loop over the
packets adds up places (`PayloadPlaces`), and that the ones which fit are the
first ones is `FirstOnes`. Texts have any length: `Lies(whole, at, piece)` says
where a piece lies in bytes, `LiesBehind` finds the k-th of the pieces behind a
head (`FlattenPart`), and a string is read up to its zero wherever its bytes lie
(`StringEnds`, `StringInside`). `ItemParsed` is one turn of the loop over a
track's items: it takes the item and stands at the next one, behind any number
of zeros. `TrackParsed` is the induction over the items; the texts after each
are the last given of each type so far (`OneMoreSaid`). A tag is a concatenation
of parts whose frames are of ever later kinds (`Rank`, `Part`, `JoinParts`), so no
two go by one name, and what a reader finds by a name is what the parts
say (`Answers`), which `AlbumPart` and `CatalogPart` work out for every
combination of present and absent texts.

Induction. The installed provers cannot use an induction rule whose parameter is
an operator, so `InductionLemmas` states induction about a set: a subset of
`Nat` that holds 0 and is closed under successor is `Nat` (`NatSetInduction`).
With it `FlattenAppend`, `FlattenPart` and `FlattenBlocks` are proved of the
library's recursive `FlattenSeq`, and so are the loops over a sector's packets,
a piece's bytes and a track's text items. Where a loop is a recursive function,
a lemma shows first that the function exists (`FlattensExists`, `PayloadsExist`,
`ItemsExist`).

Model-checked only. Termination of the pipeline and `CallsReturn`: liveness
under fairness is out of TLAPS's reach, and with it the liveness half of
`RefinesTransfer`. Every other property of a passing run is proved.

## Where code and comments disagree

- `dsf.rs` 286-291, `sequence_samples`. A nopad track that received a carry and
  ends without one (block-aligned, or the last of the area) takes its sample
  count from `decoded_bytes_total`, which omits the carried-in bytes its file
  begins with; the comment above wants the actual sample count. A player stops
  before the end of the file.
- `audio.rs` 472-489, `parser_dsd_filter`. The timecode filter is not applied
  to uncompressed areas; the field's comment says only frames in the range are
  emitted.
- `extractor.rs` 121 with `types.rs` 51, `estimate_dst`. Without SACDTRL1 the
  range of a track is estimated with the fixed ratio of uncompressed areas,
  14 sectors for 3 frames, in compressed areas too, because "DST uses similar
  frame structure as DSD". A compressed frame takes as many sectors as it needs;
  the estimate begins behind the track's first frames, and they are lost
  although the extraction returns `Ok`. The last track's range, which ends with
  the area, can be empty by the same estimate.
- `audio.rs` 82 with 75-76 and 93, `channel_count`. The mask `0xE1` clears the
  bit that `derived_channel_count` reads as `channel_bit_2`, so it never returns
  6 and a six-channel frame is derived as two.
- `net_reader.rs` 197-224, `net_short_read`. `read_data` returns `Ok` with fewer
  sectors than requested; the trait's doc promises `sector_count * 2048` bytes.
  The pipeline checks for it, `dump_iso` handles it, the TOC readers do not.
- `audio.rs` 490-516 with the comment of a test, 723-726: of three one-packet
  frames in a sector, "Frame 2 is still buffered after the sector boundary ...
  and gets emitted by `flush`". The code emits it at the end of the sector. The
  test gathers the frames of both calls and passes either way. It has no run of
  its own: `CountAgreesWithDisc`, proved and checked by `parser`, says that
  nothing is in hand after such a sector, and its mutant `EndSector_Lazy` is the
  comment's behaviour, which breaks it.

Seen while modelling and not given a run:

- The search for a table slices the data up to the size the area TOC's header
  declares (`area_toc.rs` 478-479), so a copy that is cut short or declares too
  much ends the program although the other copy may be intact
  (`WholeReadsNeverPanic` says when it cannot happen).
- A TOC 1 with all tables loses to a TOC 2 that can be parsed but lacks some.
- A range that is empty by its TOC values is extracted as an empty file and `Ok`
  in a build without overflow checks, and ends the program in one with them
  (`extractor.rs` 112-139; `EmptyOnlyByContradiction`, `TrackPanics`).
- A server that sends more sectors than asked for is not noticed; the image then
  ends behind the disc's end (`IsoIsPrefix`).
- `decoded_frames` stays 0 for uncompressed areas although its comment counts
  frames "written directly (DSD)" (`audio.rs` 130).
- The decoded side of the pipeline holds up to `DECODED_QUEUE_DEPTH + 2`
  batches, not the `DECODED_QUEUE_DEPTH` of the comment (`extractor.rs` 237, see
  `MemoryBounded`).
- The character set of a text table is read and not used (`area_toc.rs` 363,
  437): texts are taken as UTF-8.
- A general genre of number 0 ("not used") in front of others keeps the fallback
  from looking further (`id3.rs` 196-224).

## Not modelled

- The DST decoder (external: a frame decodes or fails), rayon and the channels
  beyond what the pipeline uses of them.
- The fixed layouts: master TOC, area TOC header and tables field by field, the
  headers of ID3 frames and of the DSF file. They are read or written without a
  decision, and a model would repeat the offsets it is meant to check.
- `print-info` and the printing of disc information, file names, progress bars,
  address parsing: output without effect on the extraction.
- Character sets: the program reads their numbers and does not use them.
- Opening an ISO file and its cached size, which no command uses. Reading it is
  all or nothing (`IsoDelivers`, and `ProdRead`, `ProdReadFails` in the
  pipeline).
- The library root and the module files: re-exports, a trait, a test that needs
  a live server.

## Plan

1. `ExtractPipeline`, `TrackTransfer` and their proofs (done).
2. `SectorParser`, `DsfWriter`, `TrackSequence`, `NetSession` (done).
3. `TocReader`, `ExtractCommand` and proofs about the opening (done).
4. u32 widths in the ranges, and the empty ranges they give (done).
5. `SectorHeader` and `TrackTag`: bit fields, texts and the tag (done).
6. `Extraction`: the pipeline and the parser together (done). Left: `TocReader`
   over `NetSession`, so that a short answer is the server's doing and not a
   choice of `NetDelivers` (any number of sectors, too many included).
7. Proofs: all safety properties of the pipeline, of `NetSession`, of the sector
   parser, of `Extraction`, of `TrackSequence`, of the extract command and of
   the decoders (done).
