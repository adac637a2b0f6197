--------------------------- MODULE ExtractPipeline ---------------------------
(***************************************************************************)
(* The three-stage pipeline of TrackExtractor::extract_track               *)
(* (src/scarletbook/extractor.rs).  A producer thread reads sectors and    *)
(* sends the raw frames the parser yields; the calling thread batches them *)
(* and decodes a batch in parallel; a writer thread appends the decoded    *)
(* frames to the DSF file.  Two bounded channels connect them.             *)
(*                                                                         *)
(* The k-th frame the parser yields is the number k, raw or decoded: the   *)
(* properties are about order, loss and completeness, never about samples. *)
(* A Rust closure that returns drops its channel ends; here an end is      *)
(* alive exactly while its thread's program counter is inside the closure. *)
(***************************************************************************)
EXTENDS Naturals, Sequences

CONSTANTS
    EndLsn,             \* sectors of the track, LSNs 0 .. EndLsn-1
    MaxYield,           \* most frames one sector can yield
    BatchSectors,       \* BATCH_SECTORS: sectors per read
    ChannelCapacity,    \* CHANNEL_CAPACITY: raw frames the first channel holds
    BatchSize,          \* BATCH_SIZE: raw frames per parallel decode
    DecodedQueueDepth   \* DECODED_QUEUE_DEPTH: decoded batches the second holds

ASSUME PipelineAssumption ==
    /\ EndLsn \in Nat /\ MaxYield \in Nat
    /\ BatchSectors \in Nat \ {0} /\ ChannelCapacity \in Nat \ {0}
    /\ BatchSize \in Nat \ {0} /\ DecodedQueueDepth \in Nat \ {0}

VARIABLES
    prodPc,     \* producer: "read", "parse", "flush", "tail", "done"
    prodRes,    \* its return value, once done
    lsn,        \* current_lsn
    want,       \* sectors in the chunk just read
    idx,        \* next sector of the chunk to parse
    pending,    \* frames parse_sector or flush returned, not yet sent
    produced,   \* frames the parser has yielded so far
    rawQ,       \* first channel
    isDst,      \* is_dst_encoded: frames are decoded, else passed through
    decPc,      \* calling thread: "pool" .. "send", the joins, "done"
    decRes,     \* decoder_res
    draining,   \* rx_raw.recv() has returned Err: this batch is the last
    batch,      \* raw frames collected for one decode
    decoded,    \* slots of the parallel decode, then the batch being sent
    decodedQ,   \* second channel, of batches
    wrPc,       \* writer: "recv", "write", "done"
    wrRes,      \* its return value, once done
    wbatch,     \* rest of the batch the writer is writing
    written,    \* frames write_samples has accepted, in order
    result      \* what thread::scope returns: "ok", or whose error

prodVars == <<prodPc, prodRes, lsn, want, idx, pending, produced>>
decVars  == <<isDst, decPc, decRes, draining, batch, decoded>>
wrVars   == <<wrPc, wrRes, wbatch, written>>
vars     == <<prodVars, decVars, wrVars, rawQ, decodedQ, result>>

Hole    == 0                            \* a slot whose frame is not decoded yet
Stages  == {"none", "ok", "err", "panic"}
DecRess == Stages \cup {"pool", "dropped"}
Results == {"running", "ok", "panic", "pool", "decoder", "producer", "writer", "finalize"}

TypeOK ==
    /\ prodPc \in {"read", "parse", "flush", "tail", "done"}
    /\ prodRes \in Stages
    /\ lsn \in 0..EndLsn
    /\ want \in 0..BatchSectors
    /\ idx \in 0..BatchSectors
    /\ pending \in Seq(Nat)
    /\ produced \in Nat
    /\ rawQ \in Seq(Nat)
    /\ isDst \in BOOLEAN
    /\ decPc \in {"pool", "recv", "decode", "send", "joinProducer", "joinWriter",
                  "finalize", "leave", "done"}
    /\ decRes \in DecRess
    /\ draining \in BOOLEAN
    /\ batch \in Seq(Nat)
    /\ decoded \in Seq(Nat)
    /\ decodedQ \in Seq(Seq(Nat))
    /\ wrPc \in {"recv", "write", "done"}
    /\ wrRes \in Stages
    /\ wbatch \in Seq(Nat)
    /\ written \in Seq(Nat)
    /\ result \in Results

Init ==
    /\ prodPc = "read" /\ prodRes = "none"
    /\ lsn = 0 /\ want = 0 /\ idx = 0 /\ pending = <<>> /\ produced = 0
    /\ rawQ = <<>>
    /\ isDst \in BOOLEAN
    /\ decPc = "pool" /\ decRes = "none" /\ draining = FALSE
    /\ batch = <<>> /\ decoded = <<>>
    /\ decodedQ = <<>>
    /\ wrPc = "recv" /\ wrRes = "none" /\ wbatch = <<>> /\ written = <<>>
    /\ result = "running"

\* rx_raw and tx_decoded belong to the decoder closure, tx_raw to the
\* producer's and rx_decoded to the writer's.
DecoderAlive  == decPc \in {"pool", "recv", "decode", "send"}
ProducerAlive == prodPc # "done"
WriterAlive   == wrPc # "done"

-----------------------------------------------------------------------------
(* The producer thread *)

\* Mutant: the last chunk of the track is not clipped to end_lsn.
ProdRead_Unclipped ==
    /\ prodPc = "read" /\ lsn < EndLsn
    /\ want' = BatchSectors
    /\ idx' = 0
    /\ prodPc' = "parse"
    /\ UNCHANGED <<prodRes, lsn, pending, produced, decVars, wrVars, rawQ, decodedQ, result>>

\* The `while current_lsn < end_lsn` test and a read_data that delivers.
ProdRead ==
    /\ prodPc = "read" /\ lsn < EndLsn
    /\ want' = IF EndLsn - lsn < BatchSectors THEN EndLsn - lsn ELSE BatchSectors
    /\ idx' = 0
    /\ prodPc' = "parse"
    /\ UNCHANGED <<prodRes, lsn, pending, produced, decVars, wrVars, rawQ, decodedQ, result>>

\* The closure returns Err: tx_raw is dropped, the frames in hand are lost.
ProdAbort(res) ==
    /\ prodPc' = "done" /\ prodRes' = res /\ pending' = <<>>
    /\ UNCHANGED <<lsn, want, idx, produced, decVars, wrVars, rawQ, decodedQ, result>>

\* Mutant: a failed read ends the track as if its last sector had been read.
ProdReadFails_EndsTrack ==
    /\ prodPc = "read" /\ lsn < EndLsn
    /\ prodPc' = "flush"
    /\ UNCHANGED <<prodRes, lsn, want, idx, pending, produced, decVars, wrVars, rawQ, decodedQ, result>>

\* read_data fails, or delivers fewer bytes than want sectors.
ProdReadFails == prodPc = "read" /\ lsn < EndLsn /\ ProdAbort("err")

\* parse_sector on the next sector of the chunk yields some frames.
ProdParse ==
    /\ prodPc = "parse" /\ pending = <<>> /\ idx < want
    /\ \E k \in 0..MaxYield :
         /\ pending' = [i \in 1..k |-> produced + i]
         /\ produced' = produced + k
    /\ idx' = idx + 1
    /\ UNCHANGED <<prodPc, prodRes, lsn, want, decVars, wrVars, rawQ, decodedQ, result>>

\* parse_sector returns Err, or panics.
ProdParseFails ==
    /\ prodPc = "parse" /\ pending = <<>> /\ idx < want
    /\ \E res \in {"err", "panic"} : ProdAbort(res)

\* Mutant: mpsc::channel in place of sync_channel.
ProdSend_Unbounded ==
    /\ prodPc = "parse" /\ pending # <<>> /\ DecoderAlive
    /\ rawQ' = Append(rawQ, Head(pending))
    /\ pending' = Tail(pending)
    /\ UNCHANGED <<prodPc, prodRes, lsn, want, idx, produced, decVars, wrVars, decodedQ, result>>

\* tx_raw.send(raw): blocks while the channel is full.
ProdSend ==
    /\ prodPc = "parse" /\ pending # <<>>
    /\ DecoderAlive /\ Len(rawQ) < ChannelCapacity
    /\ rawQ' = Append(rawQ, Head(pending))
    /\ pending' = Tail(pending)
    /\ UNCHANGED <<prodPc, prodRes, lsn, want, idx, produced, decVars, wrVars, decodedQ, result>>

\* The receiver is gone: break 'outer, which still flushes and returns Ok.
ProdSendFails ==
    /\ prodPc = "parse" /\ pending # <<>> /\ ~DecoderAlive
    /\ pending' = <<>>
    /\ prodPc' = "flush"
    /\ UNCHANGED <<prodRes, lsn, want, idx, produced, decVars, wrVars, rawQ, decodedQ, result>>

ProdChunkDone ==
    /\ prodPc = "parse" /\ pending = <<>> /\ idx = want
    /\ lsn' = lsn + want
    /\ prodPc' = "read"
    /\ UNCHANGED <<prodRes, want, idx, pending, produced, decVars, wrVars, rawQ, decodedQ, result>>

ProdLoopEnd ==
    /\ prodPc = "read" /\ lsn >= EndLsn
    /\ prodPc' = "flush"
    /\ UNCHANGED <<prodRes, lsn, want, idx, pending, produced, decVars, wrVars, rawQ, decodedQ, result>>

\* audio_parser.flush() returns a last frame, or None and the closure returns Ok.
ProdFlush ==
    /\ prodPc = "flush"
    /\ \/ /\ pending' = <<produced + 1>> /\ produced' = produced + 1
          /\ prodPc' = "tail" /\ UNCHANGED prodRes
       \/ /\ prodPc' = "done" /\ prodRes' = "ok"
          /\ UNCHANGED <<pending, produced>>
    /\ UNCHANGED <<lsn, want, idx, decVars, wrVars, rawQ, decodedQ, result>>

\* `let _ = tx_raw.send(raw)`: a dropped receiver is ignored.
ProdTail ==
    /\ prodPc = "tail"
    /\ \/ DecoderAlive /\ Len(rawQ) < ChannelCapacity /\ rawQ' = Append(rawQ, Head(pending))
       \/ ~DecoderAlive /\ UNCHANGED rawQ
    /\ pending' = <<>>
    /\ prodPc' = "done" /\ prodRes' = "ok"
    /\ UNCHANGED <<lsn, want, idx, produced, decVars, wrVars, decodedQ, result>>

Producer ==
    \/ ProdRead \/ ProdReadFails \/ ProdParse \/ ProdParseFails
    \/ ProdSend \/ ProdSendFails \/ ProdChunkDone \/ ProdLoopEnd
    \/ ProdFlush \/ ProdTail

-----------------------------------------------------------------------------
(* The calling thread: decoder closure, joins, finalize *)

\* The decoder closure returns: rx_raw and tx_decoded are dropped, and with
\* rx_raw whatever it still held.
DecoderReturns(res, pc) ==
    /\ decRes' = res /\ decPc' = pc
    /\ batch' = <<>> /\ decoded' = <<>>
    /\ rawQ' = <<>>

\* rayon's ThreadPoolBuilder::build succeeds, or `?` leaves the scope.
BuildPool ==
    /\ decPc = "pool"
    /\ \/ decPc' = "recv" /\ UNCHANGED <<decRes, batch, decoded, rawQ>>
       \/ DecoderReturns("pool", "leave")
    /\ UNCHANGED <<isDst, draining, prodVars, wrVars, decodedQ, result>>

\* process(batch): decode in parallel, or hand the raw chunks on.
Process(frames) ==
    IF isDst
    THEN /\ batch' = frames
         /\ decoded' = [i \in 1..Len(frames) |-> Hole]
         /\ decPc' = "decode"
    ELSE /\ batch' = <<>>
         /\ decoded' = frames
         /\ decPc' = "send"

DecRecv ==
    /\ decPc = "recv" /\ rawQ # <<>>
    /\ rawQ' = Tail(rawQ)
    /\ LET frames == Append(batch, Head(rawQ))
       IN  IF Len(frames) >= BatchSize
           THEN Process(frames)
           ELSE batch' = frames /\ UNCHANGED <<decPc, decoded>>
    /\ UNCHANGED <<isDst, decRes, draining, prodVars, wrVars, decodedQ, result>>

\* Mutant: only full batches are processed.
DecEof_NoPartialBatch ==
    /\ decPc = "recv" /\ rawQ = <<>> /\ ~ProducerAlive
    /\ draining' = TRUE
    /\ DecoderReturns("ok", "joinProducer")
    /\ UNCHANGED <<isDst, prodVars, wrVars, decodedQ, result>>

\* recv returns Err once the channel is empty and tx_raw dropped: the partial
\* batch is processed, an empty one is skipped.
DecEof ==
    /\ decPc = "recv" /\ rawQ = <<>> /\ ~ProducerAlive
    /\ draining' = TRUE
    /\ IF batch = <<>>
       THEN DecoderReturns("ok", "joinProducer")
       ELSE Process(batch) /\ UNCHANGED <<decRes, rawQ>>
    /\ UNCHANGED <<isDst, prodVars, wrVars, decodedQ, result>>

\* Mutant: results are pushed in completion order instead of collected by index.
DecodeFrame_CompletionOrder ==
    /\ decPc = "decode"
    /\ \E i, j \in DOMAIN decoded :
         /\ \A k \in DOMAIN decoded : decoded[k] # batch[i]
         /\ decoded[j] = Hole /\ \A k \in 1..(j - 1) : decoded[k] # Hole
         /\ decoded' = [decoded EXCEPT ![j] = batch[i]]
    /\ UNCHANGED <<isDst, decPc, decRes, draining, batch, prodVars, wrVars, rawQ, decodedQ, result>>

\* Some pool worker finishes slot i: par_iter completes in any order.
DecodeFrame ==
    /\ decPc = "decode"
    /\ \E i \in DOMAIN decoded :
         decoded[i] = Hole /\ decoded' = [decoded EXCEPT ![i] = batch[i]]
    /\ UNCHANGED <<isDst, decPc, decRes, draining, batch, prodVars, wrVars, rawQ, decodedQ, result>>

\* A frame does not decode (`res?`), or its worker panics and install unwinds.
DecodeFails ==
    /\ decPc = "decode"
    /\ \E i \in DOMAIN decoded : decoded[i] = Hole
    /\ \/ DecoderReturns("err", "joinProducer")
       \/ DecoderReturns("panic", "leave")
    /\ UNCHANGED <<isDst, draining, prodVars, wrVars, decodedQ, result>>

\* collect() returns every slot in index order; batch.clear().
Collect ==
    /\ decPc = "decode"
    /\ \A i \in DOMAIN decoded : decoded[i] # Hole
    /\ batch' = <<>>
    /\ decPc' = "send"
    /\ UNCHANGED <<isDst, decRes, draining, decoded, prodVars, wrVars, rawQ, decodedQ, result>>

\* tx_decoded.send(decoded): blocks while the channel is full.
SendDecoded ==
    /\ decPc = "send" /\ WriterAlive /\ Len(decodedQ) < DecodedQueueDepth
    /\ decodedQ' = Append(decodedQ, decoded)
    /\ IF draining
       THEN DecoderReturns("ok", "joinProducer")
       ELSE decPc' = "recv" /\ decoded' = <<>> /\ UNCHANGED <<decRes, batch, rawQ>>
    /\ UNCHANGED <<isDst, draining, prodVars, wrVars, result>>

\* Mutant: a failed send is tried again instead of given up.
SendDecodedFails_Retries == decPc = "send" /\ ~WriterAlive /\ UNCHANGED vars

\* bail!("writer thread dropped its receiver")
SendDecodedFails ==
    /\ decPc = "send" /\ ~WriterAlive
    /\ DecoderReturns("dropped", "joinProducer")
    /\ UNCHANGED <<isDst, draining, prodVars, wrVars, decodedQ, result>>

\* producer.join(): a panic leaves the scope with an error, before the
\* writer is joined.
JoinProducer ==
    /\ decPc = "joinProducer" /\ ~ProducerAlive
    /\ decPc' = IF prodRes = "panic" THEN "leave" ELSE "joinWriter"
    /\ UNCHANGED <<isDst, decRes, draining, batch, decoded, prodVars, wrVars, rawQ, decodedQ, result>>

\* Mutant: the decoder's own result is not looked at.
JoinWriter_NoDecoderRes ==
    /\ decPc = "joinWriter" /\ ~WriterAlive
    /\ result' = IF wrRes \in {"err", "panic"} THEN "writer"
                 ELSE IF prodRes # "ok" THEN "producer" ELSE "running"
    /\ decPc' = IF result' = "running" THEN "finalize" ELSE "done"
    /\ UNCHANGED <<isDst, decRes, draining, batch, decoded, prodVars, wrVars, rawQ, decodedQ>>

\* writer.join(), then decoder_res?, producer_res?, writer_join? in that order.
JoinWriter ==
    /\ decPc = "joinWriter" /\ ~WriterAlive
    /\ LET fault == CASE wrRes = "panic"  -> "writer"
                      [] wrRes # "panic" /\ decRes # "ok" -> "decoder"
                      [] wrRes # "panic" /\ decRes = "ok" /\ prodRes # "ok" -> "producer"
                      [] wrRes = "err" /\ decRes = "ok" /\ prodRes = "ok" -> "writer"
                      [] OTHER -> "running"
       IN  /\ result' = fault
           /\ decPc' = IF fault = "running" THEN "finalize" ELSE "done"
    /\ UNCHANGED <<isDst, decRes, draining, batch, decoded, prodVars, wrVars, rawQ, decodedQ>>

\* dsf_writer.finalize()?
Finalize ==
    /\ decPc = "finalize"
    /\ result' \in {"ok", "finalize"}
    /\ decPc' = "done"
    /\ UNCHANGED <<isDst, decRes, draining, batch, decoded, prodVars, wrVars, rawQ, decodedQ>>

\* Mutant: threads that are not scoped, so an early return leaves them running.
LeaveScope_Detached ==
    /\ decPc = "leave"
    /\ result' = IF decRes = "panic" THEN "panic" ELSE IF decRes = "pool" THEN "pool" ELSE "producer"
    /\ decPc' = "done"
    /\ UNCHANGED <<isDst, decRes, draining, batch, decoded, prodVars, wrVars, rawQ, decodedQ>>

\* thread::scope joins what the closure did not; a panic it finds there, or
\* one that is unwinding the closure, is raised again in the caller.
LeaveScope ==
    /\ decPc = "leave" /\ ~ProducerAlive /\ ~WriterAlive
    /\ result' = CASE decRes = "panic" \/ wrRes = "panic" -> "panic"
                   [] decRes = "pool" /\ wrRes # "panic" ->
                        IF prodRes = "panic" THEN "panic" ELSE "pool"
                   [] OTHER -> "producer"
    /\ decPc' = "done"
    /\ UNCHANGED <<isDst, decRes, draining, batch, decoded, prodVars, wrVars, rawQ, decodedQ>>

Decoder ==
    \/ BuildPool \/ DecRecv \/ DecEof \/ DecodeFrame \/ DecodeFails \/ Collect
    \/ SendDecoded \/ SendDecodedFails
    \/ JoinProducer \/ JoinWriter \/ Finalize \/ LeaveScope

-----------------------------------------------------------------------------
(* The writer thread *)

WrRecv ==
    /\ wrPc = "recv" /\ decodedQ # <<>>
    /\ wbatch' = Head(decodedQ)
    /\ decodedQ' = Tail(decodedQ)
    /\ wrPc' = "write"
    /\ UNCHANGED <<wrRes, written, prodVars, decVars, rawQ, result>>

\* write_samples on the next frame of the batch.
WrWrite ==
    /\ wrPc = "write" /\ wbatch # <<>>
    /\ written' = Append(written, Head(wbatch))
    /\ wbatch' = Tail(wbatch)
    /\ UNCHANGED <<wrPc, wrRes, prodVars, decVars, rawQ, decodedQ, result>>

WrBatchDone ==
    /\ wrPc = "write" /\ wbatch = <<>>
    /\ wrPc' = "recv"
    /\ UNCHANGED <<wrRes, wbatch, written, prodVars, decVars, rawQ, decodedQ, result>>

\* Mutant: a frame that cannot be written is skipped.
WrWriteFails_SkipsFrame ==
    /\ wrPc = "write" /\ wbatch # <<>>
    /\ wbatch' = Tail(wbatch)
    /\ UNCHANGED <<wrPc, wrRes, written, prodVars, decVars, rawQ, decodedQ, result>>

\* write_samples fails or panics: rx_decoded and what it holds are dropped.
WrWriteFails ==
    /\ wrPc = "write" /\ wbatch # <<>>
    /\ wrRes' \in {"err", "panic"}
    /\ wrPc' = "done" /\ wbatch' = <<>> /\ decodedQ' = <<>>
    /\ UNCHANGED <<written, prodVars, decVars, rawQ, result>>

WrEof ==
    /\ wrPc = "recv" /\ decodedQ = <<>> /\ ~DecoderAlive
    /\ wrPc' = "done" /\ wrRes' = "ok"
    /\ UNCHANGED <<wbatch, written, prodVars, decVars, rawQ, decodedQ, result>>

Writer == WrRecv \/ WrWrite \/ WrBatchDone \/ WrWriteFails \/ WrEof

-----------------------------------------------------------------------------
\* extract_track has returned; with this disjunct a deadlock TLC reports is real.
Terminated == decPc = "done" /\ UNCHANGED vars

Next == Producer \/ Decoder \/ Writer \/ Terminated

\* Each thread runs whenever it is not blocked on a channel or a join: the
\* operating system schedules it, and a read or a write returns or fails.
Spec == Init /\ [][Next]_vars /\ WF_vars(Producer) /\ WF_vars(Decoder) /\ WF_vars(Writer)

-----------------------------------------------------------------------------
(* What the pipeline promises *)

\* s holds the consecutive frames n+1, n+2, ...
Run(s, n) == \A i \in DOMAIN s : s[i] = n + i

\* The last frame that is written or with the writer, that is at least in the
\* second channel, that the decoder holds, that is at least in the first.
WriterEnd  == Len(written) + Len(wbatch)
QueueEnd   == IF decodedQ = <<>> THEN WriterEnd
              ELSE decodedQ[Len(decodedQ)][Len(decodedQ[Len(decodedQ)])]
DecoderEnd == QueueEnd + (IF decPc = "decode" THEN Len(batch) ELSE Len(decoded) + Len(batch))
RawEnd     == DecoderEnd + Len(rawQ)

\* The frames in the file are the first frames of the track in the order the
\* parser yielded them, whatever order the pool decoded them in, after every
\* step and every failure (extractor.rs 319-355, 397-421).
WrittenInOrder == Run(written, 0)

\* While no stage has failed, a frame that was yielded is in exactly one place,
\* and the places hold consecutive runs of frames: the batch boundaries, the
\* last partial batch and the parser's flushed frame lose and repeat nothing.
NothingLostInFlight ==
    (DecoderAlive \/ decRes = "ok") /\ wrRes \in {"none", "ok"} /\ prodRes \in {"none", "ok"} =>
        /\ Run(wbatch, Len(written))
        /\ Run(rawQ, DecoderEnd)
        /\ Run(pending, RawEnd)
        /\ produced = RawEnd + Len(pending)

\* extract_track returns Ok only if every sector was parsed and every frame the
\* parser yielded is in the file, though the producer itself returns Ok when it
\* was cut short by a dropped receiver (lines 292-304, 476-478).
OkMeansComplete ==
    result = "ok" => /\ lsn = EndLsn
                     /\ Len(written) = produced

\* A stage that only saw its peer go away is never the sole one to have stopped
\* early: behind a dropped receiver or a file that stayed short there is a
\* stage whose own failure the joins will report.
FailureExplained ==
    /\ decRes = "dropped" => wrRes \in {"err", "panic"}
    /\ prodRes = "ok" /\ lsn < EndLsn => decRes \notin {"none", "ok"}
    /\ wrRes = "ok" /\ prodRes = "ok" /\ Len(written) < produced => decRes \notin {"none", "ok"}

\* The error extract_track returns is one that happened.
BlameIsTrue ==
    /\ result = "producer" => prodRes \in {"err", "panic"}
    /\ result = "decoder"  => decRes \in {"err", "dropped"}
    /\ result = "writer"   => wrRes \in {"err", "panic"}
    /\ result \notin {"running", "panic"} => prodPc = "done" /\ wrPc = "done"

RawInFlight     == Len(pending) + Len(rawQ) + Len(batch)
DecodedInFlight == Len(decodedQ) + (IF decoded # <<>> THEN 1 ELSE 0)
                                 + (IF wrPc = "write" THEN 1 ELSE 0)

\* The memory in flight is bounded whatever the relative speed of the stages:
\* the channels, one batch on each side of the decode, one batch in the writer,
\* and the frames of one sector (lines 237-247).
MemoryBounded ==
    /\ RawInFlight <= ChannelCapacity + BatchSize + (IF MaxYield = 0 THEN 1 ELSE MaxYield)
    /\ DecodedInFlight <= DecodedQueueDepth + 2
    /\ Len(decoded) <= BatchSize

\* extract_track returns: whichever stages fail or panic, and however full the
\* channels are when they do, no thread waits for ever on another.
Returns == <>(decPc = "done")

\* The pipeline implements the transfer of a track: an ordered copy that ends
\* complete or with an error.
Transfer == INSTANCE TrackTransfer
              WITH yielded <- produced, exhausted <- prodPc = "done",
                   file <- written,
                   outcome <- IF result \in {"running", "ok"} THEN result ELSE "error"
RefinesTransfer == Transfer!Spec

=============================================================================
