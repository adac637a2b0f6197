--------------------------- MODULE ExtractionProofs ---------------------------
(***************************************************************************)
(* The file extract_track writes holds the track the disc holds, for every *)
(* track, channel capacity, batch and chunk size and every order of steps  *)
(* and failures.  The pipeline's invariant says that the file is a prefix  *)
(* of what has been yielded, the parser's what has been yielded at a       *)
(* sector boundary; what is left to prove is that flush and a failed       *)
(* sector, behind which the parser is not called again, keep it.           *)
(***************************************************************************)
EXTENDS Extraction, ExtractPipelineProofs, SectorParserProofs

\* What is yielded of frame f: all of it, unless the range ends inside it.
Piece(f) == IF Open(f) THEN SubSeq(Frame(f), 1, size[f] - left) ELSE Frame(f)

\* The last frame that has been handed out: flush adds the one that is open.
HandedOut == IF pc = "flushed" THEN frame ELSE LastEnded

\* What has been yielded is the track up to here, wherever the parser stopped.
TrackYields ==
    /\ track.dst /\ ~track.damaged =>
         yielded = [i \in 1..(LastWanted(HandedOut) - FirstWanted + 1) |-> Piece(FirstWanted + i - 1)]
    /\ ~track.dst =>
         /\ Continuous(FlattenSeq(yielded))
         /\ pc = "flushed" => ReachesDisc(FlattenSeq(yielded))

\* The producer's frames are the parser's, it returns Ok behind a flush only,
\* and no more is written than has been yielded.
TrackLink ==
    /\ produced = Len(yielded)
    /\ prodPc = "tail" \/ prodRes = "ok" => pc = "flushed"
    /\ Len(written) <= produced

TrackInv == IInv /\ OnlyYielded /\ ParserInv /\ TrackYields /\ TrackLink

-----------------------------------------------------------------------------
(* What has been yielded *)

\* The beginning of a stream without a gap has none.
LEMMA PrefixContinuous ==
    ASSUME NEW S, NEW a \in Seq(S), NEW b \in Seq(S), Continuous(a \o b)
    PROVE  Continuous(a)
<1>1. /\ Len(a) \in Nat /\ Len(b) \in Nat /\ Len(a \o b) = Len(a) + Len(b)
      /\ \A i \in 1..Len(a) : (a \o b)[i] = a[i]
  BY ConcatProperties, LenProperties
<1>2. \A i \in 2..Len(a) : i \in 2..Len(a \o b) /\ i \in 1..Len(a) /\ i - 1 \in 1..Len(a)
  BY <1>1
<1>3. a # <<>> => a \o b # <<>> /\ Head(a) = a[1] /\ Head(a \o b) = (a \o b)[1] /\ 1 \in 1..Len(a)
  <2>1. a # <<>> => Len(a) # 0
    BY EmptySeq
  <2> QED
    BY <1>1, <2>1
<1> QED
  BY <1>1, <1>2, <1>3 DEF Continuous

\* The bounds of the wanted frames.
LEMMA WantedBounds ==
    ASSUME ParserInv, NEW n \in Int
    PROVE  /\ frame \in Nat /\ left \in Nat /\ LastEnded \in Int /\ LastEnded <= frame
           /\ (left > 0 => LastEnded < frame)
           /\ FirstWanted \in Nat \ {0} /\ LastWanted(n) \in Int /\ LastWanted(n) <= n
           /\ track.from \in Nat /\ track.to \in Nat /\ track.dst \in BOOLEAN
<1>1. /\ frame \in Nat /\ left \in Nat /\ track.from \in Nat /\ track.to \in Nat
      /\ track.dst \in BOOLEAN
  BY ParserAssumption DEF ParserInv, DiscOK, Disc
<1> QED
  BY <1>1 DEF LastEnded, FirstWanted, LastWanted

\* At a sector boundary: the frames that have ended, whole, or a stream without
\* a gap.
LEMMA BoundaryYields == ParserInv /\ pc = "sectors" => TrackYields
<1> SUFFICES ASSUME ParserInv, pc = "sectors" PROVE TrackYields
  OBVIOUS
<1>1. ASSUME track.dst, ~track.damaged
      PROVE  yielded = [i \in 1..(LastWanted(HandedOut) - FirstWanted + 1) |-> Piece(FirstWanted + i - 1)]
  <2> DEFINE k == LastWanted(LastEnded) - FirstWanted + 1
             e(i) == Frame(FirstWanted + i - 1)
             d(i) == Piece(FirstWanted + i - 1)
  <2>1. yielded = [i \in 1..k |-> e(i)]
    BY <1>1, YieldsAlways DEF YieldsExactlyTheTrack
  <2>2. HandedOut = LastEnded
    BY DEF HandedOut
  <2>3. ASSUME NEW i \in 1..k PROVE d(i) = e(i)
    <3>1. LastEnded \in Int
      BY WantedBounds
    <3>2. FirstWanted + i - 1 <= LastEnded
      BY <3>1, WantedBounds
    <3>3. ~Open(FirstWanted + i - 1)
      BY <3>2, WantedBounds DEF Open
    <3> QED
      BY <3>3 DEF Piece
  <2> HIDE DEF e, d, k
  <2>4. yielded = [i \in 1..k |-> d(i)]
    BY <2>1, <2>3
  <2> QED
    BY <2>2, <2>4 DEF k, d
<1>2. ASSUME ~track.dst PROVE Continuous(FlattenSeq(yielded))
  <2> DEFINE a == FlattenSeq(yielded)
  <2>1. a \in Seq(Parts) /\ parser.buffer \in Seq(Parts)
    BY FlattenType DEF ParserInv, ParserStates
  <2>2. Continuous(a \o parser.buffer)
    BY <1>2, AudioAlways DEF AudioIsContinuous
  <2> HIDE DEF a
  <2>3. Continuous(a)
    BY <2>1, <2>2, PrefixContinuous
  <2> QED
    BY <2>3 DEF a
<1> QED
  BY <1>1, <1>2 DEF TrackYields

\* The yielded frames stay the track while the parser and the disc do.
LEMMA YieldsKept ==
    ASSUME TrackYields, yielded' = yielded, track' = track, frame' = frame, left' = left, size' = size,
           pc' = "flushed" <=> pc = "flushed"
    PROVE  TrackYields'
<1> DEFINE wanted == 1..(LastWanted(HandedOut) - FirstWanted + 1)
<1>1. [i \in wanted |-> Piece(FirstWanted + i - 1)]' = [i \in wanted |-> Piece(FirstWanted + i - 1)]
  BY DEF FirstWanted, LastWanted, HandedOut, LastEnded, Piece, Open, Frame
<1>2. (track.dst /\ ~track.damaged)' => yielded' = [i \in wanted |-> Piece(FirstWanted + i - 1)]'
  BY <1>1 DEF TrackYields
<1>3. ~track.dst => Continuous(FlattenSeq(yielded))'
  BY DEF TrackYields, Continuous, FirstPacket
<1>4. ~track.dst /\ pc' = "flushed" => ReachesDisc(FlattenSeq(yielded))'
  BY DEF TrackYields, ReachesDisc, PartsRead
<1> QED
  BY <1>2, <1>3, <1>4 DEF TrackYields

\* flush hands out the frame in which the range ends, if it is wanted, and the
\* audio that is left.
LEMMA FlushYields == ParserInv /\ Flush => TrackYields'
<1> SUFFICES ASSUME ParserInv, Flush PROVE TrackYields'
  OBVIOUS
<1>1. /\ pc = "sectors" /\ pc' = "flushed"
      /\ track' = track /\ frame' = frame /\ left' = left /\ size' = size
      /\ yielded \in Seq(Seq(Parts)) /\ parser.buffer \in Seq(Parts)
  BY DEF Flush, disc, ParserInv, ParserStates
<1>2. TrackYields /\ HandedOut = LastEnded /\ HandedOut' = frame
  BY <1>1, BoundaryYields DEF HandedOut
<1>3. ASSUME track.dst, ~track.damaged
      PROVE  yielded' = [i \in 1..(LastWanted(frame) - FirstWanted + 1) |-> Piece(FirstWanted + i - 1)]
  <2> DEFINE d(i) == Piece(FirstWanted + i - 1)
             k(n) == LastWanted(n) - FirstWanted + 1
  <2>1. yielded = [i \in 1..k(LastEnded) |-> d(i)]
    BY <1>2, <1>3 DEF TrackYields
  <2>2. /\ frame \in Nat /\ left \in Nat /\ track.from \in Nat /\ track.to \in Nat
        /\ FirstWanted \in Nat \ {0} /\ (left = 0 => LastEnded = frame)
        /\ (left > 0 => LastEnded = frame - 1)
    BY WantedBounds DEF LastEnded
  <2>3. CASE left > 0 /\ frame > 0
    <3>1. /\ parser.timecode = frame /\ parser.buffer = SubSeq(Frame(frame), 1, size[frame] - left)
          /\ parser.buffer # <<>> /\ parser.buffer = d(frame - FirstWanted + 1)
      <4>1. parser.started /\ parser.buffer = SubSeq(Frame(frame), 1, size[frame] - left)
        BY <1>1, <1>3, <2>3, CountAgreesAlways DEF CountAgreesWithDisc
      <4>2. /\ parser.timecode = frame /\ parser.buffer = FirstParts(frame, PartsRead)
            /\ PartsRead \in 1..MaxParts
        BY <1>1, <1>3, <4>1, Boundary DEF InHand
      <4>3. PartsRead \in 0..MaxParts /\ frame \in 0..track.last /\ track \in Tracks /\ PartsRead >= 1
        BY <4>2, ParserAssumption DEF ParserInv, DiscOK, Disc
      <4>4. parser.buffer # <<>>
        BY <4>2, <4>3, FirstPartsType
      <4>5. FirstWanted + (frame - FirstWanted + 1) - 1 = frame
        BY <2>2
      <4>6. d(frame - FirstWanted + 1) = Piece(frame)
        BY <4>5
      <4>7. Piece(frame) = SubSeq(Frame(frame), 1, size[frame] - left)
        BY <2>3 DEF Piece, Open
      <4> QED
        BY <4>1, <4>2, <4>4, <4>6, <4>7
    <3>2. CASE InFilter(frame)
      <4>1. yielded' = Append(yielded, parser.buffer)
        BY <1>3, <3>1, <3>2 DEF Flush, ShouldYield
      <4>2. /\ k(LastEnded) = frame - FirstWanted /\ k(frame) = frame - FirstWanted + 1
            /\ frame - FirstWanted \in Nat
        BY <2>2, <2>3, <3>2 DEF InFilter, FirstWanted, LastWanted
      <4> DEFINE m == frame - FirstWanted
      <4>3. yielded = [i \in 1..m |-> d(i)] /\ parser.buffer = d(m + 1) /\ k(frame) = m + 1 /\ m \in Nat
        BY <2>1, <3>1, <4>2
      <4> HIDE DEF m, k, d
      <4>4. \A i \in 1..m : d(i) = yielded[i]
        BY <4>3
      <4>5. Len(yielded) = m /\ DOMAIN yielded = 1..m
        BY <1>1, <4>3, LenProperties
      <4> DEFINE t == [i \in 1..(m + 1) |-> d(i)]
      <4>6. \A i \in 1..(m + 1) : t[i] \in Seq(Parts)
        <5> TAKE i \in 1..(m + 1)
        <5>1. CASE i = m + 1
          BY <1>1, <4>3, <5>1
        <5>2. CASE i # m + 1
          <6>1. i \in 1..m
            BY <4>3, <5>2
          <6> QED
            BY <1>1, <4>4, <4>5, <6>1, ElementOfSeq
        <5> QED
          BY <5>1, <5>2
      <4>7. t \in [1..(m + 1) -> Seq(Parts)] /\ t[m + 1] = parser.buffer
        BY <4>3, <4>6
      <4>8. yielded = [i \in 1..m |-> t[i]]
        BY <4>3
      <4> HIDE DEF t
      <4>9. Append([i \in 1..m |-> t[i]], t[m + 1]) = t
        BY <4>3, <4>7, AppendLast
      <4>10. yielded' = t
        BY <4>1, <4>7, <4>8, <4>9
      <4> QED
        BY <4>3, <4>10 DEF t, d, k
    <3>3. CASE ~InFilter(frame)
      <4>1. yielded' = yielded
        BY <1>3, <2>2, <2>3, <3>1, <3>3 DEF Flush, ShouldYield, NoTime
      <4>2. 1..k(LastEnded) = 1..k(frame)
        <5>1. CASE frame >= track.to
          <6>1. LastWanted(frame) = track.to - 1 /\ LastWanted(frame - 1) = track.to - 1
            BY <2>2, <5>1 DEF LastWanted
          <6> QED
            BY <2>2, <2>3, <6>1
        <5>2. CASE frame < track.from
          <6>1. k(frame) < 1 /\ k(frame - 1) < 1 /\ k(frame) \in Int /\ k(frame - 1) \in Int
            BY <2>2, <2>3, <5>2 DEF LastWanted, FirstWanted
          <6>2. 1..k(frame) = {} /\ 1..k(frame - 1) = {}
            <7> HIDE DEF k
            <7> QED
              BY <6>1
          <6> QED
            BY <2>2, <2>3, <6>2
        <5> QED
          BY <2>2, <3>3, <5>1, <5>2 DEF InFilter
      <4> HIDE DEF d, k
      <4> QED
        BY <2>1, <4>1, <4>2 DEF d, k
    <3> QED
      BY <3>2, <3>3
  <2>4. CASE ~(left > 0 /\ frame > 0)
    <3>1. parser.buffer = <<>>
      BY <1>1, <1>3, <2>4, CountAgreesAlways DEF CountAgreesWithDisc
    <3>2. yielded' = yielded
      BY <3>1 DEF Flush
    <3>3. 1..k(LastEnded) = 1..k(frame)
      <4>1. CASE left = 0
        BY <2>2, <4>1
      <4>2. CASE left > 0
        <5>1. frame = 0 /\ LastEnded = -1
          BY <2>2, <2>4, <4>2
        <5>2. k(0) < 1 /\ k(-1) < 1 /\ k(0) \in Int /\ k(-1) \in Int
          BY <2>2 DEF LastWanted, FirstWanted
        <5>3. 1..k(0) = {} /\ 1..k(-1) = {}
          <6> HIDE DEF k
          <6> QED
            BY <5>2
        <5> QED
          BY <5>1, <5>3
      <4> QED
        BY <2>2, <4>1, <4>2
    <3> HIDE DEF d, k
    <3> QED
      BY <2>1, <3>2, <3>3 DEF d, k
  <2> QED
    BY <2>3, <2>4
<1>4. ASSUME ~track.dst
      PROVE  /\ Continuous(FlattenSeq(yielded))'
             /\ ReachesDisc(FlattenSeq(yielded))'
  <2>1. ParserInv'
    BY ParserStep DEF ParserNext
  <2>2. AudioIsContinuous' /\ yielded' \in Seq(Seq(Parts))
    <3>1. ParserInv' => AudioIsContinuous'
      BY AudioAlways, PTL
    <3> QED
      BY <1>1, <2>1, <3>1 DEF ParserInv, Parts
  <2>3. parser'.buffer = <<>> /\ FlattenSeq(yielded') \in Seq(Parts)
    BY <1>1, <1>4, <2>2, FlattenType DEF AudioIsContinuous
  <2>4. FlattenSeq(yielded') \o parser'.buffer = FlattenSeq(yielded')
    BY <2>3, ConcatEmptySeq
  <2>5. Continuous(FlattenSeq(yielded) \o parser.buffer)'
    BY <1>1, <1>4, <2>2 DEF AudioIsContinuous
  <2>6. Continuous(FlattenSeq(yielded))'
    BY <2>4, <2>5 DEF Continuous
  <2>7. ReachesDisc(FlattenSeq(yielded))'
    <3>1. ReachesDisc(FlattenSeq(yielded) \o parser.buffer)'
      BY <1>1, <1>4, <2>2 DEF AudioIsContinuous
    <3> QED
      BY <2>4, <3>1 DEF ReachesDisc
  <2> QED
    BY <2>6, <2>7
<1>5. track.dst \in BOOLEAN
  BY WantedBounds
<1> DEFINE wanted == 1..(LastWanted(HandedOut) - FirstWanted + 1)
<1>6. [i \in wanted |-> Piece(FirstWanted + i - 1)]'
        = [i \in 1..(LastWanted(frame) - FirstWanted + 1) |-> Piece(FirstWanted + i - 1)]
  BY <1>1 DEF FirstWanted, LastWanted, HandedOut, Piece, Open, Frame
<1>7. (track.dst /\ ~track.damaged)' => yielded' = [i \in wanted |-> Piece(FirstWanted + i - 1)]'
  BY <1>1, <1>3, <1>6
<1> QED
  BY <1>1, <1>4, <1>5, <1>7 DEF TrackYields

-----------------------------------------------------------------------------
(* The steps *)

\* A step of the track is one of the pipeline and one of the parser, or of one
\* of them alone.
LEMMA StepOfBoth == [TrackNext]_trackVars => [Next]_vars /\ [ParserNext]_parserVars
BY DEF TrackNext, trackVars, ParseInTrack, ParseFailsInTrack, FlushInTrack, Alone, ProducerAlone,
       Next, Producer, ParserNext

\* A write takes a frame that has been yielded.
LEMMA WritesYielded ==
    ASSUME IInv, OnlyYielded, Len(written) <= produced, [Next]_vars
    PROVE  Len(written') <= produced'
<1>1. /\ written \in Seq(Nat) /\ wbatch \in Seq(Nat) /\ Len(written) \in Nat /\ produced \in Nat
  BY LenProperties DEF IInv, TypeOK
<1>2. produced' \in Nat /\ produced <= produced'
  <2>1. CASE ProdParse
    BY <1>1, <2>1, PipelineAssumption DEF ProdParse
  <2>2. CASE ProdFlush
    BY <1>1, <2>2 DEF ProdFlush
  <2>3. CASE ~ProdParse /\ ~ProdFlush
    <3>1. produced' = produced
      BY <2>3 DEF vars, prodVars, Next, Producer, ProdRead, ProdReadFails, ProdAbort, ProdParseFails,
                  ProdSend, ProdSendFails, ProdChunkDone, ProdLoopEnd, ProdTail,
                  Decoder, BuildPool, DecRecv, DecEof, DecodeFrame, DecodeFails, Collect, SendDecoded,
                  SendDecodedFails, JoinProducer, JoinWriter, Finalize, LeaveScope,
                  Writer, WrRecv, WrWrite, WrBatchDone, WrWriteFails, WrEof, Terminated
    <3> QED
      BY <1>1, <3>1
  <2> QED
    BY <2>1, <2>2, <2>3
<1>3. CASE WrWrite
  <2>1. WriterAlive /\ wbatch # <<>> /\ Run(wbatch, Len(written))
    BY <1>3 DEF WrWrite, WriterAlive, IInv, DataInv
  <2>2. Head(wbatch) = Len(written) + 1 /\ Head(wbatch) <= produced
    BY <1>1, <2>1, RunTail, UptoHead DEF OnlyYielded
  <2>3. Len(written') = Len(written) + 1
    BY <1>1, <1>3, <2>2, AppendProperties DEF WrWrite
  <2> QED
    BY <1>1, <1>2, <2>2, <2>3
<1>4. CASE ~WrWrite
  <2>1. written' = written
    BY <1>4 DEF vars, wrVars, Next, Producer, ProdRead, ProdReadFails, ProdAbort, ProdParse, ProdParseFails,
                ProdSend, ProdSendFails, ProdChunkDone, ProdLoopEnd, ProdFlush, ProdTail,
                Decoder, BuildPool, DecRecv, DecEof, DecodeFrame, DecodeFails, Collect, SendDecoded,
                SendDecodedFails, JoinProducer, JoinWriter, Finalize, LeaveScope,
                Writer, WrRecv, WrBatchDone, WrWriteFails, WrEof, Terminated
  <2> QED
    BY <1>1, <1>2, <2>1
<1> QED
  BY <1>3, <1>4

LEMMA TrackInvInit == TrackInit => TrackInv
<1> SUFFICES ASSUME TrackInit PROVE TrackInv
  OBVIOUS
<1>1. IInv /\ ParserInv /\ OnlyYielded
  BY IInvInit, InitOK, UptoEmpty DEF TrackInit, Init, OnlyYielded
<1>2. pc = "sectors" /\ yielded = <<>> /\ produced = 0 /\ written = <<>> /\ prodPc = "read" /\ prodRes = "none"
  BY DEF TrackInit, Init, ParserInit
<1>3. TrackLink
  BY <1>2 DEF TrackLink
<1> QED
  BY <1>1, <1>2, <1>3, BoundaryYields DEF TrackInv

LEMMA TrackInvNext == TrackInv /\ [TrackNext]_trackVars => TrackInv'
<1> SUFFICES ASSUME TrackInv, [TrackNext]_trackVars PROVE TrackInv'
  OBVIOUS
<1>1. IInv' /\ OnlyYielded' /\ ParserInv' /\ Len(written') <= produced'
  BY StepOfBoth, IInvNext, YieldedNext, ParserStep, WritesYielded DEF TrackInv, TrackLink
<1>2. CASE ParseInTrack
  <2>1. pc' = "sectors" /\ produced' = Len(yielded') /\ prodPc' = "parse" /\ prodRes' = prodRes
        /\ prodPc = "parse" /\ pc = "sectors"
    BY <1>2 DEF ParseInTrack, ParseSector, ProdParse
  <2>2. TrackYields'
    <3>1. (ParserInv /\ pc = "sectors" => TrackYields)'
      BY BoundaryYields, PTL
    <3> QED
      BY <1>1, <2>1, <3>1
  <2> QED
    BY <1>1, <2>1, <2>2 DEF TrackInv, TrackLink
<1>3. CASE ParseFailsInTrack
  <2>1. /\ pc = "sectors" /\ pc' = "failed" /\ yielded' = yielded
        /\ track' = track /\ frame' = frame /\ left' = left /\ size' = size
        /\ produced' = produced /\ prodPc' = "done" /\ prodRes' = "err"
    BY <1>3 DEF ParseFailsInTrack, ParseSectorFails, disc, ProdParseFails, ProdAbort
  <2>2. TrackYields'
    BY <2>1, YieldsKept DEF TrackInv
  <2> QED
    BY <1>1, <2>1, <2>2 DEF TrackInv, TrackLink
<1>4. CASE FlushInTrack
  <2>1. pc' = "flushed" /\ produced' = Len(yielded')
    BY <1>4 DEF FlushInTrack, Flush
  <2>2. TrackYields'
    BY <1>4, FlushYields DEF FlushInTrack, TrackInv
  <2> QED
    BY <1>1, <2>1, <2>2 DEF TrackInv, TrackLink
<1>5. CASE Alone /\ UNCHANGED parserVars
  <2>1. /\ yielded' = yielded /\ pc' = pc /\ track' = track /\ frame' = frame /\ left' = left
        /\ size' = size
    BY <1>5 DEF parserVars, disc
  <2>2. TrackYields'
    BY <2>1, YieldsKept DEF TrackInv
  <2>3. /\ produced' = produced
        /\ prodPc' = "tail" => prodPc = "tail"
        /\ prodRes' = "ok" => prodRes = "ok" \/ prodPc = "tail"
    BY <1>5 DEF Alone, ProducerAlone, vars, prodVars, ProdRead, ProdReadFails, ProdAbort,
                ProdSend, ProdSendFails, ProdChunkDone, ProdLoopEnd, ProdTail,
                Decoder, BuildPool, DecRecv, DecEof, DecodeFrame, DecodeFails, Collect, SendDecoded,
                SendDecodedFails, JoinProducer, JoinWriter, Finalize, LeaveScope,
                Writer, WrRecv, WrWrite, WrBatchDone, WrWriteFails, WrEof, Terminated
  <2> QED
    BY <1>1, <2>1, <2>2, <2>3 DEF TrackInv, TrackLink
<1>6. CASE UNCHANGED trackVars
  <2>1. /\ yielded' = yielded /\ pc' = pc /\ track' = track /\ frame' = frame /\ left' = left
        /\ size' = size /\ produced' = produced /\ prodPc' = prodPc /\ prodRes' = prodRes
    BY <1>6 DEF trackVars, parserVars, disc, vars, prodVars
  <2>2. TrackYields'
    BY <2>1, YieldsKept DEF TrackInv
  <2> QED
    BY <1>1, <2>1, <2>2 DEF TrackInv, TrackLink
<1> QED
  BY <1>2, <1>3, <1>4, <1>5, <1>6 DEF TrackNext

-----------------------------------------------------------------------------
(* What the file holds *)

\* The file is the beginning of what has been yielded, all of it on Ok.
LEMMA FileIsYielded ==
    ASSUME TrackInv
    PROVE  /\ Len(written) \in Nat /\ Len(yielded) \in Nat /\ Len(written) <= Len(yielded)
           /\ File = [i \in 1..Len(written) |-> yielded[i]] /\ Len(File) = Len(written)
           /\ result = "ok" => Len(written) = Len(yielded) /\ pc = "flushed"
<1>1. /\ written \in Seq(Nat) /\ yielded \in Seq(Seq(Parts)) /\ Run(written, 0)
      /\ produced = Len(yielded) /\ Len(written) <= produced
      /\ prodRes = "ok" => pc = "flushed"
  BY DEF TrackInv, TrackLink, IInv, TypeOK, DataInv, ParserInv
<1>2. /\ Len(written) \in Nat /\ DOMAIN written = 1..Len(written) /\ Len(yielded) \in Nat
  BY <1>1, LenProperties
<1>3. \A i \in DOMAIN written : written[i] = i
  BY <1>1, <1>2 DEF Run
<1>4. File = [i \in 1..Len(written) |-> yielded[i]]
  BY <1>2, <1>3 DEF File
<1>5. Len(File) = Len(written)
  BY <1>2, <1>4
<1>6. result = "ok" => prodRes = "ok" /\ decRes = "ok" /\ wrRes = "ok"
  BY DEF TrackInv, IInv, ControlInv
<1>7. result = "ok" => Len(written) = produced
  BY <1>6 DEF TrackInv, IInv, DataInv
<1> QED
  BY <1>1, <1>2, <1>4, <1>5, <1>6, <1>7

\* Whatever the threads do and whichever of them fails, the file is a beginning
\* of the track as the disc has it, and all of it when extract_track returns Ok
\* (extractor.rs 272-317, audio.rs 231-551).
THEOREM TrackIsExtracted == TrackSpec => []FileIsTheTrack
<1>1. TrackInv => FileIsTheTrack
  <2> SUFFICES ASSUME TrackInv PROVE FileIsTheTrack
    OBVIOUS
  <2> DEFINE w == Len(written)
  <2>1. /\ w \in Nat /\ Len(yielded) \in Nat /\ w <= Len(yielded)
        /\ File = [i \in 1..w |-> yielded[i]] /\ Len(File) = w
        /\ result = "ok" => w = Len(yielded) /\ pc = "flushed"
    BY FileIsYielded
  <2>2. ParserInv /\ TrackYields /\ yielded \in Seq(Seq(Parts))
    BY DEF TrackInv, ParserInv
  <2>3. DOMAIN File = 1..w /\ \A i \in 1..w : File[i] = yielded[i]
    BY <2>1
  <2> HIDE DEF w
  <2>4. ASSUME track.dst, ~track.damaged
        PROVE  /\ Len(File) <= Len(Begun)
               /\ \A i \in DOMAIN File : File[i] = Piece(Begun[i])
               /\ result = "ok" => Len(File) = Len(Begun)
    <3> DEFINE k(n) == LastWanted(n) - FirstWanted + 1
               d(i) == Piece(FirstWanted + i - 1)
    <3>1. yielded = [i \in 1..k(HandedOut) |-> d(i)]
      BY <2>2, <2>4 DEF TrackYields
    <3>2. /\ frame \in Nat /\ HandedOut \in Int /\ HandedOut <= frame
          /\ (pc = "flushed" => HandedOut = frame)
          /\ track.to \in Nat /\ FirstWanted \in Nat \ {0}
      BY <2>2, WantedBounds DEF HandedOut
    <3>3. k(frame) \in Int /\ k(HandedOut) \in Int /\ k(HandedOut) <= k(frame)
      BY <3>2 DEF LastWanted
    <3>4. Begun = [i \in 1..k(frame) |-> FirstWanted + i - 1]
      BY DEF Begun
    <3> HIDE DEF k, d
    <3>5. Len(yielded) = (IF k(HandedOut) < 0 THEN 0 ELSE k(HandedOut)) /\ DOMAIN yielded = 1..k(HandedOut)
      <4>1. DOMAIN yielded = 1..k(HandedOut) /\ DOMAIN yielded = 1..Len(yielded)
        BY <2>2, <3>1, LenProperties
      <4> QED
        BY <2>1, <3>3, <4>1
    <3>6. Len(Begun) = IF k(frame) < 0 THEN 0 ELSE k(frame)
      <4> DEFINE n == IF k(frame) < 0 THEN 0 ELSE k(frame)
      <4>1. n \in Nat /\ 1..k(frame) = 1..n
        BY <3>3
      <4>2. Begun = [i \in 1..n |-> FirstWanted + i - 1]
        BY <3>4, <4>1
      <4> QED
        BY <4>1, <4>2
    <3>7. ASSUME NEW i \in DOMAIN File PROVE File[i] = Piece(Begun[i])
      <4>1. i \in 1..w /\ i \in 1..k(HandedOut) /\ i \in 1..k(frame)
        BY <2>1, <2>3, <3>3, <3>5, <3>7
      <4>2. File[i] = d(i)
        BY <2>3, <3>1, <4>1
      <4>3. Begun[i] = FirstWanted + i - 1
        BY <3>4, <4>1
      <4> QED
        BY <4>2, <4>3 DEF d
    <3>8. Len(File) <= Len(Begun) /\ (result = "ok" => Len(File) = Len(Begun))
      BY <2>1, <3>2, <3>3, <3>5, <3>6
    <3> QED
      BY <3>7, <3>8
  <2>5. ASSUME ~track.dst
        PROVE  /\ Continuous(FlattenSeq(File))
               /\ result = "ok" => ReachesDisc(FlattenSeq(File))
    <3>1. PICK t \in Seq(Parts) : FlattenSeq(yielded) = FlattenSeq(File) \o t
      <4>1. w \in 0..Len(yielded)
        BY <2>1
      <4>2. \E t \in Seq(Parts) :
               FlattenSeq(yielded) = FlattenSeq([i \in 1..w |-> yielded[i]]) \o t
        BY <2>2, <4>1, FlattenPrefix
      <4> QED
        BY <2>1, <4>2
    <3>2. FlattenSeq(File) \in Seq(Parts)
      <4>1. \A i \in 1..w : yielded[i] \in Seq(Parts)
        BY <2>1, <2>2, ElementOfSeq
      <4>2. File \in Seq(Seq(Parts))
        BY <2>1, <4>1
      <4> QED
        BY <4>2, FlattenType
    <3>3. Continuous(FlattenSeq(yielded))
      BY <2>2, <2>5 DEF TrackYields
    <3>4. Continuous(FlattenSeq(File))
      <4> DEFINE a == FlattenSeq(File)
      <4>1. a \in Seq(Parts) /\ Continuous(a \o t)
        BY <3>1, <3>2, <3>3
      <4> HIDE DEF a
      <4>2. Continuous(a)
        BY <4>1, PrefixContinuous
      <4> QED
        BY <4>2 DEF a
    <3>5. result = "ok" => File = yielded
      <4>1. yielded = [i \in 1..Len(yielded) |-> yielded[i]]
        BY <2>2, LenProperties
      <4> QED
        BY <2>1, <4>1
    <3> QED
      BY <2>1, <2>2, <2>5, <3>4, <3>5 DEF TrackYields
  <2> QED
    BY <2>4, <2>5 DEF FileIsTheTrack, Piece
<1> QED
  BY <1>1, TrackInvInit, TrackInvNext, PTL DEF TrackSpec

\* With the parser's own frames the pipeline is still the ordered copy its caller
\* is promised, complete or with an error (extractor.rs 233-516).
THEOREM ExtractionTransfers == TrackSpec => Transfer!SafeSpec
<1>1. TrackInit => Init
  BY DEF TrackInit
<1>2. Init => Transfer!Init /\ Settled /\ BlameIsTrue /\ OnlyYielded
  BY UptoEmpty DEF Init, Transfer!Init, Settled, BlameIsTrue, OnlyYielded
<1> QED
  BY <1>1, <1>2, StepOfBoth, IInvInit, IInvNext, BlameNext, YieldedNext, StepTransfers, PTL DEF TrackSpec, Transfer!SafeSpec

=============================================================================
