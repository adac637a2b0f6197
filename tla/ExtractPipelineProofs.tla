------------------------ MODULE ExtractPipelineProofs ------------------------
(***************************************************************************)
(* Proofs about ExtractPipeline, for every track length, channel capacity, *)
(* batch size and queue depth.  The safety properties rest on one          *)
(* inductive invariant: ControlInv says where each thread can be when      *)
(* another is somewhere, DataInv that the frames in the file, with the     *)
(* writer, in the second channel, with the decoder, in the first channel   *)
(* and with the producer are consecutive runs, as far as the threads that  *)
(* hold them are alive.                                                    *)
(*                                                                         *)
(* What extract_track promises its caller beyond the file follows: the     *)
(* error it reports, the memory it holds and, in one piece, that every     *)
(* step of the three threads is a step of TrackTransfer or leaves it       *)
(* alone, each with an invariant of its own on top of that one.  That the  *)
(* call returns rests on fairness and is left to the model checker.        *)
(***************************************************************************)
EXTENDS ExtractPipeline, SequenceTheorems, TLAPS

ControlInv ==
    /\ prodPc = "parse" => lsn + want <= EndLsn /\ idx <= want
    /\ prodPc \in {"read", "flush", "done"} => pending = <<>>
    /\ prodPc = "tail" => Len(pending) = 1
    /\ prodPc = "done" <=> prodRes # "none"
    /\ decPc \in {"pool", "recv"} => decoded = <<>> /\ ~draining
    /\ decPc = "decode" => /\ Len(decoded) = Len(batch)
                           /\ batch # <<>>
                           /\ \A i \in DOMAIN decoded : decoded[i] \in {Hole, batch[i]}
    /\ decPc = "send" => batch = <<>> /\ decoded # <<>>
    /\ ~DecoderAlive => batch = <<>> /\ decoded = <<>> /\ rawQ = <<>>
    /\ DecoderAlive <=> decRes = "none"
    /\ decPc \in {"joinProducer", "joinWriter"} => decRes \in {"ok", "err", "dropped"}
    /\ draining /\ DecoderAlive => ~ProducerAlive /\ rawQ = <<>>
    /\ decRes = "ok" => ~ProducerAlive
    /\ decPc = "joinWriter" => prodRes \in {"ok", "err"}
    /\ decPc = "leave" => decRes \in {"pool", "panic"} \/ prodRes = "panic"
    /\ decPc = "finalize" => prodRes = "ok" /\ decRes = "ok" /\ wrRes = "ok"
    /\ wrPc = "recv" => wbatch = <<>>
    /\ wrPc = "done" => wbatch = <<>> /\ decodedQ = <<>>
    /\ wrPc = "done" <=> wrRes # "none"
    /\ wrRes = "ok" => ~DecoderAlive
    /\ result = "running" <=> decPc # "done"
    /\ result = "ok" => prodRes = "ok" /\ decRes = "ok" /\ wrRes = "ok"
    /\ decRes = "dropped" => wrRes \in {"err", "panic"}
    /\ prodPc \in {"flush", "tail"} /\ lsn < EndLsn => decRes \notin {"none", "ok"}
    /\ prodRes = "ok" /\ lsn < EndLsn => decRes \notin {"none", "ok"}

\* The batches of the second channel continue one another.
Chain ==
    \A b \in DOMAIN decodedQ :
        /\ decodedQ[b] # <<>>
        /\ Run(decodedQ[b], IF b = 1 THEN WriterEnd ELSE decodedQ[b - 1][Len(decodedQ[b - 1])])

DecoderHolds ==
    /\ decPc \in {"pool", "recv", "decode"} => Run(batch, QueueEnd)
    /\ decPc = "send" => Run(decoded, QueueEnd)
    /\ Run(rawQ, DecoderEnd)

DataInv ==
    /\ Run(written, 0)
    /\ WriterAlive => Run(wbatch, Len(written)) /\ Chain
    /\ WriterAlive /\ DecoderAlive => DecoderHolds
    /\ WriterAlive /\ DecoderAlive /\ prodRes \in {"none", "ok"} =>
          Run(pending, RawEnd) /\ produced = RawEnd + Len(pending)
    /\ WriterAlive /\ decRes = "ok" /\ prodRes = "ok" => produced = QueueEnd
    /\ wrRes = "ok" /\ decRes = "ok" /\ prodRes = "ok" => produced = Len(written)

IInv == TypeOK /\ ControlInv /\ DataInv

-----------------------------------------------------------------------------
(* Consecutive runs of frames *)

\* A run of one frame.
LEMMA OneFrame ==
  ASSUME NEW s \in Seq(Nat), Len(s) = 1
  PROVE  s # <<>> /\ Head(s) \in Nat
OBVIOUS

\* The frame after a run extends it: a send or a push behind frames in order.
LEMMA RunAppend ==
  ASSUME NEW s \in Seq(Nat), NEW n \in Nat, Run(s, n)
  PROVE  Run(Append(s, n + Len(s) + 1), n)
BY AppendProperties DEF Run

\* Taking the head of a run leaves the run that starts one later: a receive.
LEMMA RunTail ==
  ASSUME NEW s \in Seq(Nat), NEW n \in Nat, Run(s, n), s # <<>>
  PROVE  /\ Head(s) = n + 1
         /\ Run(Tail(s), n + 1)
         /\ Len(Tail(s)) = Len(s) - 1
         /\ Tail(s) \in Seq(Nat)
BY HeadTailProperties DEF Run

\* The last frame of a nonempty run, which says where the next place must begin.
LEMMA RunLast ==
  ASSUME NEW s \in Seq(Nat), NEW n \in Nat, Run(s, n), s # <<>>
  PROVE  Len(s) > 0 /\ s[Len(s)] = n + Len(s)
BY EmptySeq, LenProperties DEF Run

\* The frames a sector yields are the run after those yielded before.
LEMMA RunFresh ==
  ASSUME NEW n \in Nat, NEW k \in Nat
  PROVE  /\ Run([i \in 1..k |-> n + i], n)
         /\ Len([i \in 1..k |-> n + i]) = k
BY DEF Run

\* No frames are a run from anywhere: a place that has been drained.
LEMMA RunEmpty == \A n : Run(<<>>, n)
BY DEF Run

-----------------------------------------------------------------------------
(* Type correctness *)

\* The pipeline starts with every variable in its type.
LEMMA TypeOKInit == Init => TypeOK
<1> SUFFICES ASSUME Init PROVE TypeOK
  OBVIOUS
<1> USE PipelineAssumption DEF Init
<1>1. <<>> \in Seq(Nat) /\ <<>> \in Seq(Seq(Nat))
  OBVIOUS
<1>2. /\ lsn \in 0..EndLsn /\ want \in 0..BatchSectors /\ idx \in 0..BatchSectors
      /\ prodRes \in Stages /\ wrRes \in Stages /\ decRes \in DecRess /\ result \in Results
  BY DEF Stages, DecRess, Results
<1>3. /\ pending \in Seq(Nat) /\ rawQ \in Seq(Nat) /\ batch \in Seq(Nat) /\ decoded \in Seq(Nat)
      /\ decodedQ \in Seq(Seq(Nat)) /\ wbatch \in Seq(Nat) /\ written \in Seq(Nat)
  BY <1>1
<1> QED
  BY <1>2, <1>3 DEF TypeOK

\* Every step keeps the types, given what ControlInv says of empty places.
LEMMA TypeOKNext == TypeOK /\ ControlInv /\ [Next]_vars => TypeOK'
<1> SUFFICES ASSUME TypeOK, ControlInv, [Next]_vars PROVE TypeOK'
  OBVIOUS
<1>0. <<>> \in Seq(Nat)
  OBVIOUS
<1> USE PipelineAssumption
        DEF TypeOK, Stages, DecRess, Results, vars, prodVars, decVars, wrVars
<1>1. CASE ProdRead
  BY <1>1 DEF ProdRead
<1>2. CASE ProdReadFails
  BY <1>2, <1>0 DEF ProdReadFails, ProdAbort
<1>3. CASE ProdParseFails
  BY <1>3, <1>0 DEF ProdParseFails, ProdAbort
<1>4. CASE ProdParse
  BY <1>4 DEF ProdParse
<1>5. CASE ProdSend
  BY <1>5 DEF ProdSend
<1>6. CASE ProdSendFails
  BY <1>6, <1>0 DEF ProdSendFails
<1>7. CASE ProdChunkDone
  <2>1. lsn + want \in 0..EndLsn
    BY <1>7 DEF ProdChunkDone, ControlInv
  <2> QED
    BY <1>7, <2>1 DEF ProdChunkDone
<1>8. CASE ProdLoopEnd
  BY <1>8 DEF ProdLoopEnd
<1>9. CASE ProdFlush
  <2>1. <<produced + 1>> \in Seq(Nat)
    OBVIOUS
  <2>2. /\ pending' \in Seq(Nat) /\ produced' \in Nat
        /\ prodPc' \in {"tail", "done"} /\ prodRes' \in Stages
    <3>1. CASE pending' = <<produced + 1>> /\ produced' = produced + 1 /\ prodPc' = "tail" /\ UNCHANGED prodRes
      BY <2>1, <3>1
    <3>2. CASE prodPc' = "done" /\ prodRes' = "ok" /\ UNCHANGED <<pending, produced>>
      BY <3>2
    <3> QED
      BY <1>9, <3>1, <3>2 DEF ProdFlush
  <2> QED
    BY <1>9, <2>2 DEF ProdFlush
<1>10. CASE ProdTail
  <2>1. Len(pending) = 1
    BY <1>10 DEF ProdTail, ControlInv
  <2>2. pending # <<>> /\ Head(pending) \in Nat
    BY <2>1, OneFrame
  <2>3. Append(rawQ, Head(pending)) \in Seq(Nat)
    BY <2>2
  <2>4. pending' \in Seq(Nat) /\ rawQ' \in Seq(Nat)
    BY <1>10, <2>3, <1>0 DEF ProdTail
  <2> QED
    BY <1>10, <2>4 DEF ProdTail
<1>11. CASE BuildPool
  <2>1. /\ batch' \in Seq(Nat) /\ decoded' \in Seq(Nat) /\ rawQ' \in Seq(Nat)
        /\ decPc' \in {"recv", "leave"} /\ decRes' \in DecRess
    BY <1>11, <1>0 DEF BuildPool, DecoderReturns
  <2> QED
    BY <1>11, <2>1 DEF BuildPool
<1>12. CASE DecRecv
  <2> DEFINE frames == Append(batch, Head(rawQ))
  <2>1. frames \in Seq(Nat) /\ Tail(rawQ) \in Seq(Nat)
    BY <1>12 DEF DecRecv
  <2>2. [i \in 1..Len(frames) |-> Hole] \in Seq(Nat)
    BY <2>1 DEF Hole
  <2>3. /\ batch' \in Seq(Nat) /\ decoded' \in Seq(Nat) /\ rawQ' \in Seq(Nat)
        /\ decPc' \in {"recv", "decode", "send"}
    BY <1>12, <2>1, <2>2, <1>0 DEF DecRecv, Process
  <2> QED
    BY <1>12, <2>3 DEF DecRecv
<1>13. CASE DecEof
  <2>1. [i \in 1..Len(batch) |-> Hole] \in Seq(Nat)
    BY DEF Hole
  <2>2. /\ batch' \in Seq(Nat) /\ decoded' \in Seq(Nat) /\ rawQ' \in Seq(Nat)
        /\ decPc' \in {"joinProducer", "decode", "send"} /\ decRes' \in DecRess
    BY <1>13, <2>1, <1>0 DEF DecEof, Process, DecoderReturns
  <2> QED
    BY <1>13, <2>2 DEF DecEof
<1>14. CASE DecodeFrame
  <2>1. PICK i \in DOMAIN decoded : decoded' = [decoded EXCEPT ![i] = batch[i]]
    BY <1>14 DEF DecodeFrame
  <2>2. Len(decoded) = Len(batch)
    BY <1>14 DEF DecodeFrame, ControlInv
  <2>3. i \in 1..Len(decoded) /\ batch[i] \in Nat
    BY <2>2
  <2>4. decoded' \in Seq(Nat)
    BY <2>1, <2>3, ExceptSeq
  <2> QED
    BY <1>14, <2>4 DEF DecodeFrame
<1>15. CASE DecodeFails
  <2>1. /\ decPc' \in {"joinProducer", "leave"} /\ decRes' \in {"err", "panic"}
        /\ batch' = <<>> /\ decoded' = <<>> /\ rawQ' = <<>>
    BY <1>15 DEF DecodeFails, DecoderReturns
  <2> QED
    BY <1>15, <1>0, <2>1 DEF DecodeFails
<1>16. CASE Collect
  BY <1>16, <1>0 DEF Collect
<1>17. CASE SendDecoded
  <2>1. Append(decodedQ, decoded) \in Seq(Seq(Nat))
    OBVIOUS
  <2>2. /\ batch' \in Seq(Nat) /\ decoded' \in Seq(Nat) /\ rawQ' \in Seq(Nat)
        /\ decPc' \in {"recv", "joinProducer"} /\ decRes' \in DecRess
    BY <1>17, <1>0 DEF SendDecoded, DecoderReturns
  <2> QED
    BY <1>17, <2>1, <2>2 DEF SendDecoded
<1>18. CASE SendDecodedFails
  BY <1>18, <1>0 DEF SendDecodedFails, DecoderReturns
<1>19. CASE JoinProducer
  BY <1>19 DEF JoinProducer
<1>20. CASE JoinWriter
  BY <1>20 DEF JoinWriter
<1>21. CASE Finalize \/ LeaveScope
  <2>1. CASE Finalize
    BY <2>1 DEF Finalize
  <2>2. CASE LeaveScope
    BY <2>2 DEF LeaveScope
  <2> QED
    BY <1>21, <2>1, <2>2
<1>22. CASE WrRecv
  BY <1>22 DEF WrRecv
<1>23. CASE WrWrite
  BY <1>23 DEF WrWrite
<1>24. CASE WrBatchDone
  BY <1>24 DEF WrBatchDone
<1>25. CASE WrWriteFails
  BY <1>25, <1>0 DEF WrWriteFails
<1>26. CASE WrEof
  BY <1>26 DEF WrEof
<1>27. CASE UNCHANGED vars
  BY <1>27
<1> QED
  BY <1>1, <1>2, <1>3, <1>4, <1>5, <1>6, <1>7, <1>8, <1>9, <1>10, <1>11, <1>12, <1>13, <1>14,
     <1>15, <1>16, <1>17, <1>18, <1>19, <1>20, <1>21, <1>22, <1>23, <1>24, <1>25, <1>26, <1>27
  DEF Next, Producer, Decoder, Writer, Terminated

-----------------------------------------------------------------------------
(* Where the threads can be *)

\* The three threads start in agreement with their results.
LEMMA ControlInvInit == Init => ControlInv
BY DEF Init, ControlInv, DecoderAlive

\* Every step keeps program counters, results and channel contents in agreement.
LEMMA ControlInvNext == TypeOK /\ ControlInv /\ [Next]_vars => ControlInv'
<1> SUFFICES ASSUME TypeOK, ControlInv, [Next]_vars PROVE ControlInv'
  OBVIOUS
<1> USE PipelineAssumption DEF vars, prodVars, decVars, wrVars, DecoderAlive, ProducerAlive, WriterAlive
<1>1. CASE ProdRead
  BY <1>1 DEF ProdRead, TypeOK, ControlInv
<1>2. CASE ProdReadFails
  BY <1>2 DEF ProdReadFails, ProdAbort, TypeOK, ControlInv
<1>3. CASE ProdParse
  BY <1>3 DEF ProdParse, TypeOK, ControlInv
<1>4. CASE ProdParseFails
  BY <1>4 DEF ProdParseFails, ProdAbort, TypeOK, ControlInv
<1>5. CASE ProdSend
  BY <1>5 DEF ProdSend, TypeOK, ControlInv
<1>6. CASE ProdSendFails
  BY <1>6 DEF ProdSendFails, TypeOK, ControlInv
<1>7. CASE ProdChunkDone
  BY <1>7 DEF ProdChunkDone, TypeOK, ControlInv
<1>8. CASE ProdLoopEnd
  BY <1>8 DEF ProdLoopEnd, TypeOK, ControlInv
<1>9. CASE ProdFlush
  BY <1>9 DEF ProdFlush, TypeOK, ControlInv
<1>10. CASE ProdTail
  BY <1>10 DEF ProdTail, TypeOK, ControlInv
<1>11. CASE BuildPool
  BY <1>11 DEF BuildPool, DecoderReturns, TypeOK, ControlInv
<1>12. CASE DecRecv
  <2> DEFINE frames == Append(batch, Head(rawQ))
             holes  == [i \in 1..Len(frames) |-> Hole]
  <2>1. rawQ \in Seq(Nat) /\ batch \in Seq(Nat)
    BY DEF TypeOK
  <2>2. frames # <<>> /\ Len(holes) = Len(frames) /\ DOMAIN holes = 1..Len(frames)
    <3>1. Head(rawQ) \in Nat
      BY <1>12, <2>1 DEF DecRecv
    <3>2. frames \in Seq(Nat) /\ Len(frames) = Len(batch) + 1 /\ Len(batch) \in Nat
      BY <2>1, <3>1
    <3>3. Len(holes) = Len(frames)
      BY <3>2
    <3> QED
      BY <3>2, <3>3
  <2>3. CASE isDst /\ Len(frames) >= BatchSize
    <3>1. batch' = frames /\ decoded' = holes /\ decPc' = "decode"
      BY <1>12, <2>3 DEF DecRecv, Process
    <3>2. Len(decoded') = Len(batch') /\ batch' # <<>> /\ \A i \in DOMAIN decoded' : decoded'[i] = Hole
      BY <3>1, <2>2
    <3> QED
      BY <1>12, <3>1, <3>2 DEF DecRecv, ControlInv
  <2>4. CASE ~isDst /\ Len(frames) >= BatchSize
    <3>1. batch' = <<>> /\ decoded' = frames /\ decPc' = "send"
      BY <1>12, <2>4 DEF DecRecv, Process
    <3> QED
      BY <1>12, <3>1, <2>2 DEF DecRecv, ControlInv
  <2>5. CASE ~(Len(frames) >= BatchSize)
    BY <1>12, <2>5 DEF DecRecv, ControlInv
  <2> QED
    BY <2>3, <2>4, <2>5
<1>13. CASE DecEof
  BY <1>13 DEF DecEof, Process, DecoderReturns, TypeOK, ControlInv
<1>14. CASE DecodeFrame
  <2>1. PICK i \in DOMAIN decoded : decoded' = [decoded EXCEPT ![i] = batch[i]]
    BY <1>14 DEF DecodeFrame
  <2>2. decoded \in Seq(Nat) /\ batch \in Seq(Nat)
    BY DEF TypeOK
  <2>3. /\ decPc = "decode" /\ Len(decoded) = Len(batch)
        /\ \A j \in DOMAIN decoded : decoded[j] \in {Hole, batch[j]}
    BY <1>14 DEF DecodeFrame, ControlInv
  <2>4. Len(decoded') = Len(decoded) /\ DOMAIN decoded' = DOMAIN decoded
    BY <2>1, <2>2, <2>3, ExceptSeq
  <2>5. \A j \in DOMAIN decoded' : decoded'[j] \in {Hole, batch[j]}
    BY <2>1, <2>3, <2>4
  <2> QED
    BY <1>14, <2>3, <2>4, <2>5 DEF DecodeFrame, ControlInv
<1>15. CASE DecodeFails
  BY <1>15 DEF DecodeFails, DecoderReturns, TypeOK, ControlInv
<1>16. CASE Collect
  BY <1>16 DEF Collect, TypeOK, ControlInv
<1>17. CASE SendDecoded
  BY <1>17 DEF SendDecoded, DecoderReturns, TypeOK, ControlInv
<1>18. CASE SendDecodedFails
  BY <1>18 DEF SendDecodedFails, DecoderReturns, TypeOK, ControlInv, Stages
<1>19. CASE JoinProducer
  BY <1>19 DEF JoinProducer, TypeOK, ControlInv, Stages
<1>20. CASE JoinWriter
  BY <1>20 DEF JoinWriter, TypeOK, ControlInv, Stages
<1>21. CASE Finalize
  BY <1>21 DEF Finalize, TypeOK, ControlInv
<1>22. CASE LeaveScope
  BY <1>22 DEF LeaveScope, TypeOK, ControlInv
<1>23. CASE WrRecv
  BY <1>23 DEF WrRecv, TypeOK, ControlInv
<1>24. CASE WrWrite
  BY <1>24 DEF WrWrite, TypeOK, ControlInv
<1>25. CASE WrBatchDone
  BY <1>25 DEF WrBatchDone, TypeOK, ControlInv
<1>26. CASE WrWriteFails
  BY <1>26 DEF WrWriteFails, TypeOK, ControlInv
<1>27. CASE WrEof
  BY <1>27 DEF WrEof, TypeOK, ControlInv
<1>28. CASE UNCHANGED vars
  BY <1>28 DEF ControlInv
<1> QED
  BY <1>1, <1>2, <1>3, <1>4, <1>5, <1>6, <1>7, <1>8, <1>9, <1>10, <1>11, <1>12, <1>13, <1>14,
     <1>15, <1>16, <1>17, <1>18, <1>19, <1>20, <1>21, <1>22, <1>23, <1>24, <1>25, <1>26, <1>27, <1>28
  DEF Next, Producer, Decoder, Writer, Terminated

-----------------------------------------------------------------------------
(* The frames in flight *)

\* The last frame in the second channel is a number when its batches are typed and not empty.
LEMMA QueueEndNat ==
  ASSUME TypeOK, WriterAlive => Chain
  PROVE  WriterEnd \in Nat /\ (WriterAlive \/ decodedQ = <<>> => QueueEnd \in Nat)
<1>1. WriterEnd \in Nat
  BY DEF WriterEnd, TypeOK
<1>2. ASSUME WriterAlive, decodedQ # <<>> PROVE QueueEnd \in Nat
  <2> DEFINE m == Len(decodedQ)
  <2>1. m \in DOMAIN decodedQ /\ decodedQ[m] \in Seq(Nat)
    BY <1>2 DEF TypeOK
  <2>2. decodedQ[m] # <<>>
    BY <1>2, <2>1 DEF Chain
  <2>3. decodedQ[m][Len(decodedQ[m])] \in Nat
    BY <2>1, <2>2
  <2> QED BY <1>2, <2>3 DEF QueueEnd
<1> QED BY <1>1, <1>2 DEF QueueEnd

\* A step of the producer keeps the chain of runs: it reads, yields, sends or stops.
LEMMA DataInvProducer ==
  TypeOK /\ ControlInv /\ DataInv /\ Producer => DataInv'
<1> SUFFICES ASSUME TypeOK, ControlInv, DataInv, Producer PROVE DataInv'
  OBVIOUS
<1>q. WriterAlive => QueueEnd \in Nat
  BY QueueEndNat DEF DataInv
<1>u. UNCHANGED <<decVars, wrVars, decodedQ, result>>
  BY DEF Producer, ProdRead, ProdReadFails, ProdParse, ProdParseFails, ProdAbort, ProdSend,
         ProdSendFails, ProdChunkDone, ProdLoopEnd, ProdFlush, ProdTail
<1>k. /\ QueueEnd' = QueueEnd /\ DecoderEnd' = DecoderEnd /\ WriterEnd' = WriterEnd
      /\ Chain' <=> Chain
      /\ WriterAlive' <=> WriterAlive
      /\ DecoderAlive' <=> DecoderAlive
      /\ Run(written, 0)' /\ (WriterAlive' => Run(wbatch, Len(written))')
  BY <1>u DEF DataInv, decVars, wrVars, QueueEnd, DecoderEnd, WriterEnd, Chain, WriterAlive, DecoderAlive, Run
<1>l. Len(batch) \in Nat /\ Len(decoded) \in Nat /\ Len(rawQ) \in Nat /\ Len(pending) \in Nat
  BY DEF TypeOK
<1>n. WriterAlive => DecoderEnd \in Nat /\ RawEnd \in Nat
  <2> SUFFICES ASSUME WriterAlive PROVE DecoderEnd \in Nat /\ RawEnd \in Nat
    OBVIOUS
  <2>1. DecoderEnd \in Nat
    BY <1>q, <1>l DEF DecoderEnd
  <2> QED
    BY <2>1, <1>l DEF RawEnd
<1>r. /\ Run(batch, QueueEnd)' = Run(batch', QueueEnd')
      /\ Run(decoded, QueueEnd)' = Run(decoded', QueueEnd')
      /\ Run(rawQ, DecoderEnd)' = Run(rawQ', DecoderEnd')
      /\ Run(pending, RawEnd)' = Run(pending', RawEnd')
  BY DEF Run
<1>o. decRes = "ok" => FALSE
  BY DEF Producer, ProdRead, ProdReadFails, ProdParse, ProdParseFails, ProdAbort, ProdSend,
         ProdSendFails, ProdChunkDone, ProdLoopEnd, ProdFlush, ProdTail, ControlInv, ProducerAlive
<1>p. prodRes = "none"
  BY DEF Producer, ProdRead, ProdReadFails, ProdParse, ProdParseFails, ProdAbort, ProdSend,
         ProdSendFails, ProdChunkDone, ProdLoopEnd, ProdFlush, ProdTail, ControlInv
<1>g. ASSUME WriterAlive /\ DecoderAlive => Run(rawQ', DecoderEnd),
             WriterAlive /\ DecoderAlive /\ prodRes' \in {"none", "ok"} =>
                Run(pending', RawEnd') /\ produced' = RawEnd' + Len(pending')
      PROVE  DataInv'
  <2>1. WriterAlive' /\ DecoderAlive' => DecoderHolds'
    BY <1>g, <1>k, <1>u, <1>r DEF DataInv, DecoderHolds, decVars
  <2>2. WriterAlive' /\ DecoderAlive' /\ prodRes' \in {"none", "ok"} =>
          Run(pending, RawEnd)' /\ (produced = RawEnd + Len(pending))'
    BY <1>g, <1>k, <1>r
  <2>3. WriterAlive' => Run(wbatch, Len(written))' /\ Chain'
    BY <1>k DEF DataInv
  <2>4. decRes' # "ok"
    BY <1>o, <1>u DEF decVars
  <2> QED
    BY <1>k, <2>1, <2>2, <2>3, <2>4 DEF DataInv
<1>i. WriterAlive /\ DecoderAlive =>
         Run(rawQ, DecoderEnd) /\ Run(pending, RawEnd) /\ produced = RawEnd + Len(pending)
  BY <1>p DEF DataInv, DecoderHolds
<1>e. UNCHANGED rawQ => RawEnd' = RawEnd
  BY <1>k DEF RawEnd
<1>1. CASE ProdRead \/ ProdChunkDone \/ ProdLoopEnd
  BY <1>1, <1>i, <1>g, <1>e DEF ProdRead, ProdChunkDone, ProdLoopEnd
<1>2. CASE ProdReadFails \/ ProdParseFails
  BY <1>2, <1>i, <1>g, <1>e DEF ProdReadFails, ProdParseFails, ProdAbort
<1>3. CASE ProdParse
  <2>1. PICK k \in 0..MaxYield : pending' = [j \in 1..k |-> produced + j] /\ produced' = produced + k
    BY <1>3 DEF ProdParse
  <2>2. k \in Nat /\ produced \in Nat
    BY PipelineAssumption DEF TypeOK
  <2>3. WriterAlive /\ DecoderAlive => produced = RawEnd
    BY <1>3, <1>i, <1>n DEF ProdParse
  <2>4. Run(pending', produced) /\ Len(pending') = k
    BY <2>1, <2>2, RunFresh
  <2> QED
    BY <1>3, <2>1, <2>3, <2>4, <1>g, <1>e, <1>i DEF ProdParse
<1>4. CASE ProdSend
  <2>1. pending \in Seq(Nat) /\ rawQ \in Seq(Nat) /\ pending # <<>>
    BY <1>4 DEF TypeOK, ProdSend
  <2>2. ASSUME WriterAlive, DecoderAlive
        PROVE  /\ Run(rawQ', DecoderEnd)
               /\ Run(pending', RawEnd')
               /\ produced' = RawEnd' + Len(pending')
    <3>1. /\ Head(pending) = DecoderEnd + Len(rawQ) + 1
          /\ Run(Tail(pending), RawEnd + 1)
          /\ Len(Tail(pending)) = Len(pending) - 1
      BY <1>i, <1>n, <2>1, <2>2, RunTail DEF RawEnd
    <3>2. Run(rawQ', DecoderEnd)
      BY <1>4, <1>i, <1>n, <2>1, <2>2, <3>1, RunAppend DEF ProdSend
    <3>3. RawEnd' = RawEnd + 1
      BY <1>4, <1>k, <1>n, <2>1, <2>2 DEF ProdSend, RawEnd
    <3> QED
      BY <1>4, <1>i, <1>n, <2>1, <2>2, <3>1, <3>2, <3>3 DEF ProdSend
  <2> QED
    BY <2>2, <1>g
<1>5. CASE ProdSendFails
  BY <1>5, <1>g DEF ProdSendFails
<1>6. CASE ProdFlush
  <2>0. pending = <<>> /\ produced \in Nat
    BY <1>6 DEF ProdFlush, ControlInv, TypeOK
  <2>1. CASE pending' = <<produced + 1>> /\ produced' = produced + 1
    <3>1. Run(pending', produced) /\ Len(pending') = 1
      BY <2>0, <2>1 DEF Run
    <3>2. WriterAlive /\ DecoderAlive => produced = RawEnd
      BY <2>0, <1>i, <1>n
    <3> QED
      BY <1>6, <2>0, <2>1, <3>1, <3>2, <1>g, <1>e, <1>i DEF ProdFlush
  <2>2. CASE UNCHANGED <<pending, produced>>
    BY <1>6, <2>2, <1>g, <1>e, <1>i DEF ProdFlush
  <2> QED
    BY <1>6, <2>1, <2>2 DEF ProdFlush
<1>7. CASE ProdTail
  <2>1. pending \in Seq(Nat) /\ rawQ \in Seq(Nat) /\ Len(pending) = 1
    BY <1>7 DEF TypeOK, ProdTail, ControlInv
  <2>2. ASSUME WriterAlive, DecoderAlive
        PROVE  /\ Run(rawQ', DecoderEnd)
               /\ Run(pending', RawEnd')
               /\ produced' = RawEnd' + Len(pending')
    <3>0. pending # <<>>
      BY <2>1
    <3>1. Head(pending) = DecoderEnd + Len(rawQ) + 1
      BY <1>i, <1>n, <2>1, <2>2, <3>0, RunTail DEF RawEnd
    <3>2. rawQ' = Append(rawQ, Head(pending)) /\ pending' = <<>> /\ produced' = produced
      BY <1>7, <2>2 DEF ProdTail
    <3>4. Run(rawQ', DecoderEnd)
      BY <3>2, <1>i, <1>n, <2>1, <2>2, <3>1, RunAppend
    <3>3. RawEnd' = RawEnd + 1
      BY <3>2, <1>k, <1>n, <2>1, <2>2 DEF RawEnd
    <3> QED
      BY <1>i, <1>n, <2>1, <2>2, <3>4, <3>2, <3>3, RunEmpty
  <2> QED
    BY <2>2, <1>g
<1> QED
  BY <1>1, <1>2, <1>3, <1>4, <1>5, <1>6, <1>7 DEF Producer

\* A step of the calling thread other than a send keeps the chain of runs.
LEMMA DataInvDecoder ==
  TypeOK /\ ControlInv /\ DataInv /\ Decoder /\ ~SendDecoded => DataInv'
<1> SUFFICES ASSUME TypeOK, ControlInv, DataInv, Decoder, ~SendDecoded PROVE DataInv'
  OBVIOUS
<1>q. WriterAlive => QueueEnd \in Nat
  BY QueueEndNat DEF DataInv
<1>u. UNCHANGED <<prodVars, wrVars, decodedQ>>
  BY DEF Decoder, BuildPool, DecRecv, DecEof, DecodeFrame, DecodeFails, Collect,
         SendDecodedFails, JoinProducer, JoinWriter, Finalize, LeaveScope
<1>k. /\ QueueEnd' = QueueEnd /\ WriterEnd' = WriterEnd
      /\ Chain' <=> Chain
      /\ WriterAlive' <=> WriterAlive
      /\ Run(written, 0)' /\ (WriterAlive' => Run(wbatch, Len(written))')
  BY <1>u DEF DataInv, wrVars, QueueEnd, WriterEnd, Chain, WriterAlive, Run
<1>l. Len(batch) \in Nat /\ Len(decoded) \in Nat /\ Len(rawQ) \in Nat /\ Len(pending) \in Nat
  BY DEF TypeOK
<1>n. WriterAlive => DecoderEnd \in Nat /\ RawEnd \in Nat
  <2> SUFFICES ASSUME WriterAlive PROVE DecoderEnd \in Nat /\ RawEnd \in Nat
    OBVIOUS
  <2>1. DecoderEnd \in Nat
    BY <1>q, <1>l DEF DecoderEnd
  <2> QED
    BY <2>1, <1>l DEF RawEnd
<1>r. /\ Run(batch, QueueEnd)' = Run(batch', QueueEnd')
      /\ Run(decoded, QueueEnd)' = Run(decoded', QueueEnd')
      /\ Run(rawQ, DecoderEnd)' = Run(rawQ', DecoderEnd')
      /\ Run(pending, RawEnd)' = Run(pending', RawEnd')
  BY DEF Run
<1>w. wrRes = "ok" => ~DecoderAlive
  BY DEF ControlInv
<1>a. wrRes = "ok" => ~WriterAlive
  BY DEF ControlInv, WriterAlive
<1>g. ASSUME WriterAlive /\ DecoderAlive' => DecoderHolds' /\ DecoderAlive /\ RawEnd' = RawEnd,
             WriterAlive /\ decRes' = "ok" /\ prodRes = "ok" => produced = QueueEnd,
             wrRes = "ok" => decRes' = decRes
      PROVE  DataInv'
  <2>1. WriterAlive' /\ DecoderAlive' /\ (prodRes \in {"none", "ok"})' =>
          Run(pending, RawEnd)' /\ (produced = RawEnd + Len(pending))'
    BY <1>g, <1>k, <1>u, <1>r DEF DataInv, prodVars
  <2>2. WriterAlive' => Run(wbatch, Len(written))' /\ Chain'
    BY <1>k DEF DataInv
  <2>3. (wrRes = "ok" /\ decRes = "ok" /\ prodRes = "ok" => produced = Len(written))'
    BY <1>g, <1>u DEF DataInv, prodVars, wrVars
  <2>4. (WriterAlive /\ decRes = "ok" /\ prodRes = "ok" => produced = QueueEnd)'
    BY <1>g, <1>u, <1>k DEF prodVars
  <2> QED
    BY <1>k, <1>g, <2>1, <2>2, <2>3, <2>4 DEF DataInv
<1>d. ASSUME ~DecoderAlive', decRes' # "ok", DecoderAlive PROVE DataInv'
  BY <1>d, <1>g, <1>w
<1>1. CASE BuildPool
  <2>1. CASE decPc' = "recv" /\ UNCHANGED <<decRes, batch, decoded, rawQ>>
    <3>1. decPc = "pool"
      BY <1>1 DEF BuildPool
    <3>2. DecoderEnd' = DecoderEnd
      BY <1>k, <2>1, <3>1 DEF DecoderEnd
    <3>3. RawEnd' = RawEnd
      BY <2>1, <3>2 DEF RawEnd
    <3>4. WriterAlive => DecoderHolds'
      BY <1>k, <1>r, <2>1, <3>1, <3>2 DEF DataInv, DecoderHolds, DecoderAlive
    <3> QED
      BY <1>g, <1>1, <2>1, <3>1, <3>3, <3>4 DEF DecoderAlive, ControlInv
  <2>2. CASE DecoderReturns("pool", "leave")
    BY <1>1, <1>d, <2>2 DEF BuildPool, DecoderReturns, DecoderAlive
  <2> QED
    BY <1>1, <2>1, <2>2 DEF BuildPool
<1>2. CASE DecodeFails
  BY <1>2, <1>d DEF DecodeFails, DecoderReturns, DecoderAlive
<1>3. CASE SendDecodedFails
  BY <1>3, <1>d DEF SendDecodedFails, DecoderReturns, DecoderAlive
<1>4. CASE JoinProducer \/ JoinWriter \/ Finalize \/ LeaveScope
  <2>1. ~DecoderAlive' /\ decRes' = decRes
    BY <1>4 DEF JoinProducer, JoinWriter, Finalize, LeaveScope, DecoderAlive
  <2> QED
    BY <1>g, <2>1 DEF DataInv
<1>5. CASE DecodeFrame
  <2>1. decPc = "decode" /\ UNCHANGED <<decPc, decRes, batch, rawQ>>
    BY <1>5 DEF DecodeFrame
  <2>2. DecoderEnd' = DecoderEnd
    BY <1>k, <2>1 DEF DecoderEnd
  <2>3. RawEnd' = RawEnd
    BY <2>1, <2>2 DEF RawEnd
  <2>4. WriterAlive => DecoderHolds'
    BY <1>k, <1>r, <2>1, <2>2 DEF DataInv, DecoderHolds, DecoderAlive
  <2> QED
    BY <1>g, <2>1, <2>3, <2>4 DEF DecoderAlive, ControlInv
<1>6. CASE Collect
  <2>1. decPc = "decode" /\ decPc' = "send" /\ batch' = <<>> /\ UNCHANGED <<decRes, decoded, rawQ>>
    BY <1>6 DEF Collect
  <2>2. Len(decoded) = Len(batch) /\ DOMAIN decoded = DOMAIN batch
        /\ \A i \in DOMAIN decoded : decoded[i] = batch[i]
    <3>1. Len(decoded) = Len(batch) /\ \A i \in DOMAIN decoded : decoded[i] \in {Hole, batch[i]}
      BY <2>1 DEF ControlInv
    <3>2. \A i \in DOMAIN decoded : decoded[i] # Hole
      BY <1>6 DEF Collect
    <3>3. DOMAIN decoded = DOMAIN batch
      BY <3>1 DEF TypeOK
    <3> QED BY <3>1, <3>2, <3>3
  <2>3. DecoderEnd' = DecoderEnd
    BY <1>k, <1>l, <2>1, <2>2 DEF DecoderEnd
  <2>4. RawEnd' = RawEnd
    BY <2>1, <2>3 DEF RawEnd
  <2>5. WriterAlive => Run(decoded, QueueEnd)
    BY <2>1, <2>2 DEF DataInv, DecoderHolds, DecoderAlive, Run
  <2>6. WriterAlive => DecoderHolds'
    BY <1>k, <1>r, <2>1, <2>3, <2>5 DEF DataInv, DecoderHolds, DecoderAlive
  <2> QED
    BY <1>g, <2>1, <2>4, <2>6 DEF DecoderAlive, ControlInv
\* Process leaves the frames in the decoder's hands, whichever way they go.
<1>p. ASSUME NEW frames \in Seq(Nat), Process(frames), WriterAlive => Run(frames, QueueEnd)
      PROVE  /\ WriterAlive => DecoderEnd' = QueueEnd + Len(frames)
             /\ WriterAlive /\ decPc' \in {"recv", "decode"} => Run(batch', QueueEnd)
             /\ WriterAlive /\ decPc' = "send" => Run(decoded', QueueEnd)
             /\ decPc' \in {"decode", "send"}
  <2>1. CASE isDst
    <3>1. batch' = frames /\ decPc' = "decode"
      BY <1>p, <2>1 DEF Process
    <3>2. DecoderEnd' = QueueEnd + Len(frames)
      BY <1>k, <3>1 DEF DecoderEnd
    <3> QED BY <1>p, <3>1, <3>2
  <2>2. CASE ~isDst
    <3>1. batch' = <<>> /\ decoded' = frames /\ decPc' = "send"
      BY <1>p, <2>2 DEF Process
    <3>2. DecoderEnd' = QueueEnd + (Len(frames) + 0)
      BY <1>k, <3>1 DEF DecoderEnd
    <3>3. WriterAlive => DecoderEnd' = QueueEnd + Len(frames)
      BY <1>q, <3>2
    <3> QED BY <1>p, <3>1, <3>3
  <2> QED BY <2>1, <2>2
<1>7. CASE DecRecv
  <2> DEFINE frames == Append(batch, Head(rawQ))
  <2>1. /\ decPc = "recv" /\ rawQ # <<>> /\ rawQ' = Tail(rawQ) /\ decRes' = decRes
        /\ rawQ \in Seq(Nat) /\ batch \in Seq(Nat) /\ decoded = <<>>
    BY <1>7 DEF DecRecv, TypeOK, ControlInv
  <2>2. frames \in Seq(Nat) /\ Len(frames) = Len(batch) + 1
    BY <2>1
  <2>3. WriterAlive => DecoderEnd = QueueEnd + Len(batch)
    BY <1>q, <1>l, <2>1 DEF DecoderEnd
  <2>4. WriterAlive => Run(rawQ, DecoderEnd) /\ Run(batch, QueueEnd)
    BY <2>1 DEF DataInv, DecoderHolds, DecoderAlive
  <2>5. WriterAlive => /\ Head(rawQ) = QueueEnd + Len(batch) + 1
                       /\ Run(rawQ', DecoderEnd + 1)
                       /\ Len(rawQ') = Len(rawQ) - 1
    BY <1>n, <2>1, <2>3, <2>4, RunTail
  <2>6. WriterAlive => Run(frames, QueueEnd)
    BY <1>q, <2>1, <2>4, <2>5, RunAppend
  <2>7. CASE Len(frames) >= BatchSize
    <3>1. Process(frames)
      BY <1>7, <2>7 DEF DecRecv
    <3>2. WriterAlive => DecoderEnd' = DecoderEnd + 1
      <4>1. WriterAlive => DecoderEnd' = QueueEnd + Len(frames)
        BY <1>p, <2>2, <2>6, <3>1
      <4> QED BY <1>q, <1>l, <2>2, <2>3, <4>1
    <3>3. WriterAlive => RawEnd' = RawEnd
      BY <1>n, <1>l, <2>5, <3>2 DEF RawEnd
    <3>4. WriterAlive => DecoderHolds'
      BY <1>p, <1>k, <1>r, <2>2, <2>5, <2>6, <3>1, <3>2 DEF DecoderHolds
    <3> QED
      BY <1>g, <2>1, <3>3, <3>4 DEF DecoderAlive, ControlInv
  <2>8. CASE ~(Len(frames) >= BatchSize)
    <3>1. batch' = frames /\ UNCHANGED <<decPc, decoded>>
      BY <1>7, <2>8 DEF DecRecv
    <3>2. WriterAlive => DecoderEnd' = DecoderEnd + 1
      BY <1>k, <1>q, <1>l, <2>1, <2>2, <2>3, <3>1 DEF DecoderEnd
    <3>3. WriterAlive => RawEnd' = RawEnd
      BY <1>n, <1>l, <2>5, <3>2 DEF RawEnd
    <3>4. WriterAlive => DecoderHolds'
      BY <1>k, <1>r, <2>1, <2>5, <2>6, <3>1, <3>2 DEF DecoderHolds
    <3> QED
      BY <1>g, <2>1, <3>3, <3>4 DEF DecoderAlive, ControlInv
  <2> QED BY <2>7, <2>8
<1>8. CASE DecEof
  <2>1. /\ decPc = "recv" /\ rawQ = <<>> /\ ~ProducerAlive
        /\ batch \in Seq(Nat) /\ decoded = <<>> /\ pending = <<>>
    BY <1>8 DEF DecEof, TypeOK, ControlInv, ProducerAlive
  <2>2. WriterAlive => DecoderEnd = QueueEnd + Len(batch) /\ RawEnd = DecoderEnd
    BY <1>q, <1>n, <1>l, <2>1 DEF DecoderEnd, RawEnd
  <2>3. CASE batch = <<>>
    <3>1. decRes' = "ok" /\ ~DecoderAlive'
      BY <1>8, <2>3 DEF DecEof, DecoderReturns, DecoderAlive
    <3>2. WriterAlive /\ prodRes = "ok" => produced = QueueEnd
      BY <1>q, <2>1, <2>2, <2>3 DEF DataInv, DecoderAlive
    <3> QED
      BY <1>g, <1>w, <2>1, <3>1, <3>2 DEF DecoderAlive
  <2>4. CASE batch # <<>>
    <3>1. Process(batch) /\ UNCHANGED <<decRes, rawQ>>
      BY <1>8, <2>4 DEF DecEof
    <3>2. WriterAlive => Run(batch, QueueEnd) /\ Run(rawQ, DecoderEnd)
      BY <2>1 DEF DataInv, DecoderHolds, DecoderAlive
    <3>3. WriterAlive => DecoderEnd' = DecoderEnd
      BY <1>p, <2>1, <2>2, <3>1, <3>2
    <3>4. WriterAlive => RawEnd' = RawEnd
      BY <3>1, <3>3 DEF RawEnd
    <3>5. WriterAlive => DecoderHolds'
      BY <1>p, <1>k, <1>r, <2>1, <3>1, <3>2, <3>3 DEF DecoderHolds
    <3> QED
      BY <1>g, <2>1, <3>1, <3>4, <3>5 DEF DecoderAlive, ControlInv
  <2> QED BY <2>3, <2>4
<1> QED
  BY <1>1, <1>2, <1>3, <1>4, <1>5, <1>6, <1>7, <1>8 DEF Decoder

\* Handing a decoded batch to the second channel keeps the chain of runs.
LEMMA DataInvSendDecoded ==
  TypeOK /\ ControlInv /\ DataInv /\ SendDecoded => DataInv'
<1> SUFFICES ASSUME TypeOK, ControlInv, DataInv, SendDecoded PROVE DataInv'
  OBVIOUS
<1>1. /\ decPc = "send" /\ WriterAlive /\ decodedQ' = Append(decodedQ, decoded)
      /\ UNCHANGED <<draining, prodVars, wrVars>>
      /\ batch' = <<>> /\ decoded' = <<>>
      /\ batch = <<>> /\ decoded # <<>>
      /\ decoded \in Seq(Nat) /\ decodedQ \in Seq(Seq(Nat)) /\ rawQ \in Seq(Nat)
  BY DEF SendDecoded, DecoderReturns, ControlInv, TypeOK
<1>q. QueueEnd \in Nat /\ WriterEnd \in Nat
  BY <1>1, QueueEndNat DEF DataInv
<1>2. /\ Chain /\ Run(decoded, QueueEnd) /\ Run(rawQ, DecoderEnd)
      /\ Run(written, 0) /\ Run(wbatch, Len(written))
      /\ prodRes \in {"none", "ok"} => Run(pending, RawEnd) /\ produced = RawEnd + Len(pending)
  BY <1>1 DEF DataInv, DecoderHolds, DecoderAlive
<1>3. DecoderEnd = QueueEnd + Len(decoded)
  <2>1. DecoderEnd = QueueEnd + (Len(decoded) + Len(batch))
    BY <1>1 DEF DecoderEnd
  <2>2. Len(decoded) \in Nat /\ Len(batch) = 0
    BY <1>1
  <2> QED BY <1>q, <2>1, <2>2
<1>4. WriterEnd' = WriterEnd /\ WriterAlive'
  BY <1>1 DEF WriterEnd, wrVars, WriterAlive
<1> DEFINE m == Len(decodedQ)
<1>5. /\ Len(decodedQ') = m + 1 /\ DOMAIN decodedQ' = 1..(m + 1) /\ DOMAIN decodedQ = 1..m /\ m \in Nat
      /\ \A b \in 1..m : decodedQ'[b] = decodedQ[b]
      /\ decodedQ'[m + 1] = decoded
  BY <1>1, AppendProperties
<1>6. QueueEnd' = DecoderEnd
  <2>1. decodedQ' # <<>>
    BY <1>1, AppendProperties
  <2>2. QueueEnd' = decoded[Len(decoded)]
    BY <1>5, <2>1 DEF QueueEnd
  <2> QED
    BY <1>1, <1>2, <1>3, <1>q, <2>2, RunLast
<1>7. Chain'
  <2> SUFFICES ASSUME NEW b \in 1..(m + 1)
               PROVE  /\ decodedQ'[b] # <<>>
                      /\ Run(decodedQ'[b], IF b = 1 THEN WriterEnd ELSE decodedQ'[b - 1][Len(decodedQ'[b - 1])])
    BY <1>4, <1>5 DEF Chain, Run
  <2>1. CASE b \in 1..m
    <3>1. b # 1 => b - 1 \in 1..m
      BY <1>5, <2>1
    <3>2. decodedQ[b] # <<>> /\ Run(decodedQ[b], IF b = 1 THEN WriterEnd ELSE decodedQ[b - 1][Len(decodedQ[b - 1])])
      BY <1>2, <1>5, <2>1 DEF Chain
    <3> QED BY <1>5, <2>1, <3>1, <3>2
  <2>2. CASE b = m + 1
    <3>1. (IF b = 1 THEN WriterEnd ELSE decodedQ'[b - 1][Len(decodedQ'[b - 1])]) = QueueEnd
      <4>1. CASE m = 0
        <5>1. decodedQ = <<>>
          BY <1>1, <4>1
        <5> QED BY <2>2, <4>1, <5>1 DEF QueueEnd
      <4>2. CASE m # 0
        <5>1. decodedQ # <<>> /\ b # 1 /\ b - 1 = m /\ m \in 1..m
          BY <1>1, <1>5, <2>2, <4>2
        <5> QED BY <1>5, <5>1 DEF QueueEnd
      <4> QED BY <4>1, <4>2
    <3> QED BY <1>1, <1>2, <1>5, <2>2, <3>1
  <2> QED BY <1>5, <2>1, <2>2
<1>r. /\ Run(batch, QueueEnd)' = Run(batch', QueueEnd')
      /\ Run(decoded, QueueEnd)' = Run(decoded', QueueEnd')
      /\ Run(rawQ, DecoderEnd)' = Run(rawQ', DecoderEnd')
      /\ Run(pending, RawEnd)' = Run(pending', RawEnd')
  BY DEF Run
<1>8. Run(written, 0)' /\ Run(wbatch, Len(written))'
  BY <1>1, <1>2 DEF wrVars, Run
<1>w. wrRes' # "ok"
  BY <1>1 DEF ControlInv, WriterAlive, wrVars
<1>9. CASE draining
  <2>1. decRes' = "ok" /\ ~DecoderAlive'
    BY <1>9 DEF SendDecoded, DecoderReturns, DecoderAlive
  <2>2. rawQ = <<>> /\ pending = <<>>
    BY <1>1, <1>9 DEF ControlInv, DecoderAlive, ProducerAlive
  <2>3. RawEnd = DecoderEnd + 0 /\ Len(pending) = 0
    BY <2>2 DEF RawEnd
  <2>4. prodRes = "ok" => produced = QueueEnd'
    BY <1>2, <1>3, <1>6, <1>q, <1>1, <2>3
  <2> QED
    BY <1>1, <1>4, <1>7, <1>8, <1>w, <2>1, <2>4 DEF DataInv, prodVars
<1>10. CASE ~draining
  <2>1. decPc' = "recv" /\ UNCHANGED <<decRes, rawQ>>
    BY <1>10 DEF SendDecoded
  <2>2. DecoderEnd' = DecoderEnd
    <3>1. DecoderEnd' = QueueEnd' + (0 + 0)
      BY <1>1, <2>1 DEF DecoderEnd
    <3> QED BY <1>1, <1>3, <1>6, <1>q, <3>1
  <2>3. RawEnd' = RawEnd
    BY <2>1, <2>2 DEF RawEnd
  <2>4. DecoderHolds'
    BY <1>1, <1>2, <1>r, <2>1, <2>2, RunEmpty DEF DecoderHolds
  <2>5. decRes' = "none"
    BY <1>1, <2>1 DEF ControlInv, DecoderAlive
  <2>6. (prodRes \in {"none", "ok"} => Run(pending, RawEnd) /\ produced = RawEnd + Len(pending))'
    BY <1>1, <1>2, <1>r, <2>3 DEF prodVars
  <2> QED
    BY <1>4, <1>7, <1>8, <1>w, <2>4, <2>5, <2>6 DEF DataInv
<1> QED BY <1>9, <1>10

\* A step of the writer keeps the chain of runs: it receives, appends to the file or fails.
LEMMA DataInvWriter ==
  TypeOK /\ ControlInv /\ DataInv /\ Writer => DataInv'
<1> SUFFICES ASSUME TypeOK, ControlInv, DataInv, Writer PROVE DataInv'
  OBVIOUS
<1>u. UNCHANGED <<prodVars, decVars, rawQ>>
  BY DEF Writer, WrRecv, WrWrite, WrBatchDone, WrWriteFails, WrEof
<1>a. WriterAlive /\ wrRes # "ok"
  BY DEF Writer, WrRecv, WrWrite, WrBatchDone, WrWriteFails, WrEof, WriterAlive, ControlInv
<1>q. QueueEnd \in Nat /\ WriterEnd \in Nat
  BY <1>a, QueueEndNat DEF DataInv
<1>t. wbatch \in Seq(Nat) /\ written \in Seq(Nat) /\ decodedQ \in Seq(Seq(Nat))
  BY DEF TypeOK
<1>r. /\ Run(batch, QueueEnd)' = Run(batch', QueueEnd')
      /\ Run(decoded, QueueEnd)' = Run(decoded', QueueEnd')
      /\ Run(rawQ, DecoderEnd)' = Run(rawQ', DecoderEnd')
      /\ Run(pending, RawEnd)' = Run(pending', RawEnd')
      /\ Run(written, 0)' = Run(written', 0)
      /\ Run(wbatch, Len(written))' = Run(wbatch', Len(written'))
  BY DEF Run
\* The writer moves frames on; what is behind them stays where it is.
<1>g. ASSUME Run(written', 0), Run(wbatch', Len(written')), Chain', QueueEnd' = QueueEnd, wrRes' # "ok"
      PROVE  DataInv'
  <2>1. DecoderEnd' = DecoderEnd
    BY <1>g, <1>u DEF DecoderEnd, decVars
  <2>2. RawEnd' = RawEnd
    BY <1>u, <2>1 DEF RawEnd
  <2>3. DecoderAlive => DecoderHolds'
    BY <1>a, <1>g, <1>r, <1>u, <2>1 DEF DataInv, DecoderHolds, decVars
  <2>4. DecoderAlive' = DecoderAlive
    BY <1>u DEF DecoderAlive, decVars
  <2>5. (DecoderAlive /\ prodRes \in {"none", "ok"} =>
           Run(pending, RawEnd) /\ produced = RawEnd + Len(pending))'
    BY <1>a, <1>r, <1>u, <2>2, <2>4 DEF DataInv, prodVars
  <2>6. (decRes = "ok" /\ prodRes = "ok" => produced = QueueEnd)'
    BY <1>a, <1>g, <1>u DEF DataInv, prodVars, decVars
  <2> QED
    BY <1>g, <1>r, <2>3, <2>4, <2>5, <2>6 DEF DataInv
<1>1. CASE WrRecv
  <2>1. /\ wbatch = <<>> /\ decodedQ # <<>> /\ wbatch' = Head(decodedQ) /\ decodedQ' = Tail(decodedQ)
        /\ UNCHANGED <<written, wrRes>>
    BY <1>1 DEF WrRecv, ControlInv
  <2> DEFINE m == Len(decodedQ)
             h == Head(decodedQ)
  <2>2. /\ h = decodedQ[1] /\ h \in Seq(Nat) /\ decodedQ' \in Seq(Seq(Nat))
        /\ m \in Nat \ {0} /\ Len(decodedQ') = m - 1
        /\ DOMAIN decodedQ = 1..m /\ DOMAIN decodedQ' = 1..(m - 1)
        /\ \A b \in 1..(m - 1) : decodedQ'[b] = decodedQ[b + 1]
    BY <1>t, <2>1, HeadTailProperties
  <2>3. WriterEnd = Len(written) /\ Len(written) \in Nat
    BY <1>t, <2>1 DEF WriterEnd
  <2>4. h # <<>> /\ Run(h, Len(written))
    <3>1. Chain /\ 1 \in DOMAIN decodedQ
      BY <1>a, <2>2 DEF DataInv
    <3>2. decodedQ[1] # <<>> /\ Run(decodedQ[1], WriterEnd)
      BY <3>1 DEF Chain
    <3> QED BY <2>2, <2>3, <3>2
  <2>5. WriterEnd' = Len(written) + Len(h) /\ h[Len(h)] = WriterEnd'
    <3>1. WriterEnd' = Len(written) + Len(h)
      BY <2>1 DEF WriterEnd
    <3> QED BY <2>2, <2>3, <2>4, <3>1, RunLast
  <2>6. Chain'
    <3> SUFFICES ASSUME NEW b \in 1..(m - 1)
                 PROVE  /\ decodedQ'[b] # <<>>
                        /\ Run(decodedQ'[b], IF b = 1 THEN WriterEnd' ELSE decodedQ'[b - 1][Len(decodedQ'[b - 1])])
      BY <2>2 DEF Chain, Run
    <3>1. b + 1 \in 1..m /\ b + 1 # 1 /\ (b + 1) - 1 = b
      BY <2>2
    <3>2. decodedQ[b + 1] # <<>> /\ Run(decodedQ[b + 1], decodedQ[b][Len(decodedQ[b])])
      BY <1>a, <2>2, <3>1 DEF DataInv, Chain
    <3>3. CASE b = 1
      BY <2>2, <2>5, <3>2, <3>3
    <3>4. CASE b # 1
      <4>1. b - 1 \in 1..(m - 1) /\ (b - 1) + 1 = b
        BY <2>2, <3>4
      <4> QED BY <2>2, <3>2, <3>4, <4>1
    <3> QED BY <3>3, <3>4
  <2>7. QueueEnd' = QueueEnd
    <3>1. QueueEnd = decodedQ[m][Len(decodedQ[m])]
      BY <2>1 DEF QueueEnd
    <3>2. CASE m = 1
      <4>1. decodedQ' = <<>>
        BY <2>2, <3>2
      <4> QED BY <2>2, <2>5, <3>1, <3>2, <4>1 DEF QueueEnd
    <3>3. CASE m # 1
      <4>1. decodedQ' # <<>> /\ m - 1 \in 1..(m - 1) /\ (m - 1) + 1 = m
        BY <2>2, <3>3
      <4>2. decodedQ'[m - 1] = decodedQ[m]
        BY <2>2, <4>1
      <4> QED BY <2>2, <3>1, <4>1, <4>2 DEF QueueEnd
    <3> QED BY <3>2, <3>3
  <2> QED
    BY <1>a, <1>g, <2>1, <2>4, <2>6, <2>7 DEF DataInv
<1>2. CASE WrWrite
  <2>1. /\ wbatch # <<>> /\ written' = Append(written, Head(wbatch)) /\ wbatch' = Tail(wbatch)
        /\ UNCHANGED <<decodedQ, wrRes>>
    BY <1>2 DEF WrWrite
  <2>2. Run(written, 0) /\ Run(wbatch, Len(written)) /\ Chain /\ Len(written) \in Nat /\ Len(wbatch) \in Nat
    BY <1>a, <1>t DEF DataInv
  <2>3. /\ Head(wbatch) = Len(written) + 1
        /\ Run(wbatch', Len(written) + 1)
        /\ Len(wbatch') = Len(wbatch) - 1
    BY <1>t, <2>1, <2>2, RunTail
  <2>4. Len(written') = Len(written) + 1 /\ Run(written', 0)
    BY <1>t, <2>1, <2>2, <2>3, RunAppend, AppendProperties
  <2>5. WriterEnd' = WriterEnd
    BY <2>2, <2>3, <2>4 DEF WriterEnd
  <2>6. QueueEnd' = QueueEnd /\ Chain'
    BY <2>1, <2>2, <2>5 DEF QueueEnd, Chain, Run
  <2> QED
    BY <1>a, <1>g, <2>1, <2>3, <2>4, <2>6
<1>3. CASE WrBatchDone
  <2>1. UNCHANGED <<wrRes, wbatch, written, decodedQ>>
    BY <1>3 DEF WrBatchDone
  <2>2. QueueEnd' = QueueEnd /\ (Chain' <=> Chain)
    BY <2>1 DEF QueueEnd, Chain, WriterEnd, Run
  <2> QED
    BY <1>a, <1>g, <2>1, <2>2 DEF DataInv
<1>4. CASE WrWriteFails
  <2>1. ~WriterAlive' /\ wrRes' # "ok" /\ written' = written
    BY <1>4 DEF WrWriteFails, WriterAlive
  <2> QED
    BY <1>r, <2>1 DEF DataInv
<1>5. CASE WrEof
  <2>1. ~WriterAlive' /\ written' = written /\ wbatch = <<>> /\ decodedQ = <<>>
    BY <1>5 DEF WrEof, WriterAlive, ControlInv
  <2>2. QueueEnd = Len(written)
    BY <1>t, <2>1 DEF QueueEnd, WriterEnd
  <2>3. (decRes = "ok" /\ prodRes = "ok" => produced = Len(written))'
    BY <1>a, <1>u, <2>1, <2>2 DEF DataInv, prodVars, decVars
  <2> QED
    BY <1>r, <2>1, <2>3 DEF DataInv
<1> QED
  BY <1>1, <1>2, <1>3, <1>4, <1>5 DEF Writer

-----------------------------------------------------------------------------
(* The inductive invariant, and what follows from it *)

\* The inductive invariant holds initially.
LEMMA IInvInit == Init => IInv
<1>1. Init => DataInv
  BY DEF Init, DataInv, Chain, DecoderHolds, Run, WriterEnd, QueueEnd, DecoderEnd, RawEnd,
         WriterAlive, DecoderAlive
<1> QED
  BY <1>1, TypeOKInit, ControlInvInit DEF IInv

\* The inductive invariant survives every step.
LEMMA IInvNext == IInv /\ [Next]_vars => IInv'
<1>1. DataInv /\ UNCHANGED vars => DataInv'
  BY DEF vars, prodVars, decVars, wrVars, DataInv, Chain, DecoderHolds, Run, WriterEnd, QueueEnd,
         DecoderEnd, RawEnd, WriterAlive, DecoderAlive
<1>2. TypeOK /\ ControlInv /\ DataInv /\ [Next]_vars => DataInv'
  BY <1>1, DataInvProducer, DataInvDecoder, DataInvSendDecoded, DataInvWriter DEF Next, Terminated
<1> QED
  BY <1>2, TypeOKNext, ControlInvNext DEF IInv

\* The inductive invariant holds in every reachable state of the pipeline, whichever
\* threads fail and however they interleave (extractor.rs 263-516).
THEOREM Invariance == Spec => []IInv
BY IInvInit, IInvNext, PTL DEF Spec

\* Every state of the pipeline is well typed: no LSN past the track, no thread
\* outside its closure, frames in every queue (extractor.rs 233-516).
THEOREM TypeCorrect == Spec => []TypeOK
<1>1. IInv => TypeOK
  BY DEF IInv
<1> QED
  BY <1>1, Invariance, PTL

\* The file holds the first frames of the track in order, for every channel
\* capacity, batch size and queue depth and after every failure.
THEOREM FileOrdered == Spec => []WrittenInOrder
<1>1. IInv => WrittenInOrder
  BY DEF IInv, DataInv, WrittenInOrder
<1> QED
  BY <1>1, Invariance, PTL

\* Between the parser and the file no frame is lost or repeated while no stage
\* has failed.
THEOREM InFlightConserved == Spec => []NothingLostInFlight
<1>1. IInv => NothingLostInFlight
  <2> SUFFICES ASSUME IInv, DecoderAlive \/ decRes = "ok",
                      wrRes \in {"none", "ok"}, prodRes \in {"none", "ok"}
               PROVE  /\ Run(wbatch, Len(written))
                      /\ Run(rawQ, DecoderEnd)
                      /\ Run(pending, RawEnd)
                      /\ produced = RawEnd + Len(pending)
    BY DEF NothingLostInFlight
  <2> USE DEF IInv
  <2>1. CASE DecoderAlive
    <3>1. WriterAlive
      BY <2>1 DEF ControlInv, WriterAlive
    <3> QED
      BY <2>1, <3>1 DEF DataInv, DecoderHolds
  <2>2. CASE ~DecoderAlive
    <3>1. /\ batch = <<>> /\ decoded = <<>> /\ rawQ = <<>> /\ pending = <<>>
          /\ decPc # "decode" /\ decRes = "ok" /\ prodRes = "ok"
      BY <2>2 DEF ControlInv, ProducerAlive, DecoderAlive
    <3>2. DecoderEnd = QueueEnd + (0 + 0) /\ RawEnd = DecoderEnd + 0 /\ Len(pending) = 0
      BY <3>1 DEF DecoderEnd, RawEnd
    <3>3. QueueEnd \in Nat /\ produced = QueueEnd /\ Run(wbatch, Len(written))
      <4>1. CASE WriterAlive
        BY <4>1, <3>1, QueueEndNat DEF DataInv
      <4>2. CASE ~WriterAlive
        <5>1. wrRes = "ok" /\ wbatch = <<>> /\ decodedQ = <<>>
          BY <4>2 DEF ControlInv, WriterAlive
        <5>2. QueueEnd = Len(written) /\ Len(written) \in Nat
          BY <5>1 DEF QueueEnd, WriterEnd, TypeOK
        <5> QED
          BY <3>1, <5>1, <5>2, RunEmpty DEF DataInv
      <4> QED
        BY <4>1, <4>2
    <3> QED
      BY <3>1, <3>2, <3>3, RunEmpty
  <2> QED
    BY <2>1, <2>2
<1> QED
  BY <1>1, Invariance, PTL

\* extract_track returns Ok only for a complete file.
THEOREM OkIsComplete == Spec => []OkMeansComplete
<1>1. IInv => OkMeansComplete
  <2> SUFFICES ASSUME IInv, result = "ok" PROVE lsn = EndLsn /\ Len(written) = produced
    BY DEF OkMeansComplete
  <2>1. prodRes = "ok" /\ decRes = "ok" /\ wrRes = "ok"
    BY DEF IInv, ControlInv
  <2>2. ~(lsn < EndLsn) /\ lsn \in 0..EndLsn /\ EndLsn \in Nat
    BY <2>1, PipelineAssumption DEF IInv, ControlInv, TypeOK
  <2>3. Len(written) = produced
    BY <2>1 DEF IInv, DataInv
  <2> QED
    BY <2>2, <2>3
<1> QED
  BY <1>1, Invariance, PTL

\* A stage that stopped early because its peer went away is never the only
\* sign of trouble.
THEOREM EarlyStopExplained == Spec => []FailureExplained
<1>1. IInv => FailureExplained
  <2>1. IInv /\ wrRes = "ok" /\ prodRes = "ok" /\ decRes = "ok" => ~(Len(written) < produced)
    BY DEF IInv, DataInv, TypeOK
  <2>2. IInv /\ wrRes = "ok" => decRes # "none"
    BY DEF IInv, ControlInv
  <2> QED
    BY <2>1, <2>2 DEF IInv, ControlInv, FailureExplained
<1> QED
  BY <1>1, Invariance, PTL

-----------------------------------------------------------------------------
(* The error that is returned *)

\* Once there is a result every thread has stopped, and so has the system.
Settled == result # "running" => prodPc = "done" /\ wrPc = "done"

\* Nothing moves after the result.
LEMMA SettledIsFinal ==
    ASSUME ControlInv, Settled, Next, result # "running"
    PROVE  UNCHANGED vars
<1>1. decPc = "done" /\ prodPc = "done" /\ wrPc = "done"
  BY DEF ControlInv, Settled
<1>2. ~Producer
  BY <1>1 DEF Producer, ProdRead, ProdReadFails, ProdParse, ProdParseFails, ProdSend,
              ProdSendFails, ProdChunkDone, ProdLoopEnd, ProdFlush, ProdTail
<1>3. ~Decoder
  BY <1>1 DEF Decoder, BuildPool, DecRecv, DecEof, DecodeFrame, DecodeFails, Collect,
              SendDecoded, SendDecodedFails, JoinProducer, JoinWriter, Finalize, LeaveScope
<1>4. ~Writer
  BY <1>1 DEF Writer, WrRecv, WrWrite, WrBatchDone, WrWriteFails, WrEof
<1> QED
  BY <1>2, <1>3, <1>4 DEF Next, Terminated

\* Only the last steps of the calling thread give a result.
LEMMA RunningSteps ==
    ASSUME Next, ~(JoinWriter \/ Finalize \/ LeaveScope)
    PROVE  result' = result
<1>1. CASE Producer
  BY <1>1 DEF Producer, ProdRead, ProdReadFails, ProdAbort, ProdParse, ProdParseFails, ProdSend,
              ProdSendFails, ProdChunkDone, ProdLoopEnd, ProdFlush, ProdTail
<1>2. CASE Writer
  BY <1>2 DEF Writer, WrRecv, WrWrite, WrBatchDone, WrWriteFails, WrEof
<1>3. CASE Decoder
  <2>1. CASE BuildPool \/ DecRecv \/ DecEof \/ DecodeFrame \/ DecodeFails \/ Collect
    BY <2>1 DEF BuildPool, DecRecv, DecEof, DecodeFrame, DecodeFails, Collect
  <2>2. CASE SendDecoded \/ SendDecodedFails \/ JoinProducer
    BY <2>2 DEF SendDecoded, SendDecodedFails, JoinProducer
  <2> QED
    BY <1>3, <2>1, <2>2 DEF Decoder
<1>4. CASE Terminated
  BY <1>4 DEF Terminated, vars
<1> QED
  BY <1>1, <1>2, <1>3, <1>4 DEF Next

\* A step that gives the result blames what failed.
LEMMA BlameNext ==
    IInv /\ Settled /\ BlameIsTrue /\ [Next]_vars => Settled' /\ BlameIsTrue'
<1> SUFFICES ASSUME TypeOK, ControlInv, Settled, BlameIsTrue, [Next]_vars
             PROVE  Settled' /\ BlameIsTrue'
  BY DEF IInv
<1>1. CASE UNCHANGED vars
  BY <1>1 DEF vars, prodVars, decVars, wrVars, Settled, BlameIsTrue
<1>2. CASE Next /\ result # "running"
  BY <1>1, <1>2, SettledIsFinal
<1>3. CASE Next /\ result = "running" /\ ~(JoinWriter \/ Finalize \/ LeaveScope)
  <2>1. result' = "running"
    BY <1>3, RunningSteps
  <2> QED
    BY <2>1 DEF Settled, BlameIsTrue
<1>4. CASE JoinWriter
  <2>1. /\ prodPc' = "done" /\ wrPc' = "done"
        /\ prodRes' \in {"ok", "err"} /\ decRes' \in {"ok", "err", "dropped"}
    BY <1>4 DEF JoinWriter, ControlInv, WriterAlive, prodVars, decVars, wrVars
  <2>2. /\ result' \in {"running", "writer", "decoder", "producer"}
        /\ result' = "writer" => wrRes' \in {"err", "panic"}
        /\ result' = "decoder" => decRes' # "ok"
        /\ result' = "producer" => prodRes' # "ok"
    BY <1>4 DEF JoinWriter, prodVars, decVars, wrVars
  <2> QED
    BY <2>1, <2>2 DEF Settled, BlameIsTrue
<1>5. CASE Finalize
  <2>1. prodPc' = "done" /\ wrPc' = "done" /\ result' \in {"ok", "finalize"}
    BY <1>5 DEF Finalize, ControlInv, prodVars, wrVars
  <2> QED
    BY <2>1 DEF Settled, BlameIsTrue
<1>6. CASE LeaveScope
  <2>1. prodPc' = "done" /\ wrPc' = "done"
    BY <1>6 DEF LeaveScope, ProducerAlive, WriterAlive, prodVars, wrVars
  <2>2. result' \in {"panic", "pool", "producer"}
    BY <1>6 DEF LeaveScope
  <2>3. result' = "producer" => prodRes' = "panic"
    BY <1>6 DEF LeaveScope, ControlInv, prodVars
  <2> QED
    BY <2>1, <2>2, <2>3 DEF Settled, BlameIsTrue
<1> QED
  BY <1>1, <1>2, <1>3, <1>4, <1>5, <1>6

\* The error extract_track returns is one that happened, and no thread is left
\* running behind it (extractor.rs 473-485).
THEOREM TrueBlame == Spec => []BlameIsTrue
<1>1. Init => Settled /\ BlameIsTrue
  BY DEF Init, Settled, BlameIsTrue
<1> QED
  BY <1>1, Invariance, BlameNext, PTL DEF Spec

-----------------------------------------------------------------------------
(* The memory in flight *)

SectorFrames == IF MaxYield = 0 THEN 1 ELSE MaxYield

\* A batch is full only once the decoder has stopped collecting it.
WithinLimits ==
    /\ Len(pending) <= SectorFrames
    /\ Len(rawQ) <= ChannelCapacity
    /\ Len(batch) <= BatchSize
    /\ decPc \in {"pool", "recv"} => Len(batch) < BatchSize
    /\ Len(decoded) <= BatchSize
    /\ Len(decodedQ) <= DecodedQueueDepth

\* The producer fills the first channel, up to its capacity.
LEMMA LimitsProducer == TypeOK /\ WithinLimits /\ Producer => WithinLimits'
<1> SUFFICES ASSUME TypeOK, WithinLimits, Producer PROVE WithinLimits'
  OBVIOUS
<1> USE PipelineAssumption
<1>0. UNCHANGED <<decPc, batch, decoded, decodedQ>>
  BY DEF Producer, ProdRead, ProdReadFails, ProdAbort, ProdParse, ProdParseFails, ProdSend,
         ProdSendFails, ProdChunkDone, ProdLoopEnd, ProdFlush, ProdTail, decVars
<1>1. SectorFrames \in Nat /\ 1 <= SectorFrames /\ MaxYield <= SectorFrames
  BY DEF SectorFrames
<1>2. Len(<<>>) = 0
  OBVIOUS
<1>3. CASE ProdRead \/ ProdChunkDone \/ ProdLoopEnd
  BY <1>0, <1>3 DEF ProdRead, ProdChunkDone, ProdLoopEnd, WithinLimits
<1>4. CASE ProdReadFails \/ ProdParseFails \/ ProdSendFails
  BY <1>0, <1>1, <1>2, <1>4
     DEF ProdReadFails, ProdParseFails, ProdSendFails, ProdAbort, WithinLimits
<1>5. CASE ProdParse
  <2>1. PICK k \in 0..MaxYield : pending' = [i \in 1..k |-> produced + i]
    BY <1>5 DEF ProdParse
  <2>2. Len(pending') = k
    BY <2>1
  <2>3. rawQ' = rawQ
    BY <1>5 DEF ProdParse
  <2> QED
    BY <1>0, <1>1, <2>2, <2>3 DEF WithinLimits
<1>6. CASE ProdSend
  <2>1. Len(pending') = Len(pending) - 1 /\ Len(rawQ') = Len(rawQ) + 1 /\ Len(rawQ) < ChannelCapacity
    BY <1>6 DEF ProdSend, TypeOK
  <2>2. Len(pending) \in Nat /\ Len(rawQ) \in Nat
    BY DEF TypeOK
  <2> QED
    BY <1>0, <1>1, <2>1, <2>2 DEF WithinLimits
<1>7. CASE ProdFlush
  <2>1. Len(pending') = 1 \/ pending' = pending
    BY <1>7 DEF ProdFlush
  <2>2. rawQ' = rawQ
    BY <1>7 DEF ProdFlush
  <2> QED
    BY <1>0, <1>1, <2>1, <2>2 DEF WithinLimits
<1>8. CASE ProdTail
  <2>1. pending' = <<>> /\ (rawQ' = rawQ \/ (Len(rawQ') = Len(rawQ) + 1 /\ Len(rawQ) < ChannelCapacity))
    BY <1>8 DEF ProdTail, TypeOK
  <2>2. Len(rawQ) \in Nat
    BY DEF TypeOK
  <2> QED
    BY <1>0, <1>1, <1>2, <2>1, <2>2 DEF WithinLimits
<1> QED
  BY <1>3, <1>4, <1>5, <1>6, <1>7, <1>8 DEF Producer

\* The decoder closes a batch when it is full.
LEMMA LimitsDecoder == TypeOK /\ ControlInv /\ WithinLimits /\ Decoder => WithinLimits'
<1> SUFFICES ASSUME TypeOK, ControlInv, WithinLimits, Decoder PROVE WithinLimits'
  OBVIOUS
<1> USE PipelineAssumption
<1>0. pending' = pending
  BY DEF Decoder, BuildPool, DecRecv, DecEof, DecodeFrame, DecodeFails, Collect, SendDecoded,
         SendDecodedFails, JoinProducer, JoinWriter, Finalize, LeaveScope, prodVars
<1>1. Len(<<>>) = 0 /\ 0 < BatchSize /\ 0 <= ChannelCapacity
  OBVIOUS
<1>2. /\ Len(batch) \in Nat /\ Len(rawQ) \in Nat /\ Len(decodedQ) \in Nat /\ Len(decoded) \in Nat
  BY DEF TypeOK
<1>3. ASSUME NEW frames \in Seq(Nat), Len(frames) <= BatchSize, Process(frames)
      PROVE  /\ Len(batch') <= BatchSize /\ Len(decoded') <= BatchSize
             /\ decPc' \in {"decode", "send"}
  <2>1. Len([i \in 1..Len(frames) |-> Hole]) = Len(frames)
    BY <1>3
  <2> QED
    BY <1>1, <1>3, <2>1 DEF Process
<1>4. ASSUME NEW res, NEW pc, DecoderReturns(res, pc), pc \notin {"pool", "recv"},
             decodedQ' = decodedQ
      PROVE  WithinLimits'
  BY <1>0, <1>1, <1>4 DEF DecoderReturns, WithinLimits
<1>5. CASE BuildPool
  <2>1. CASE decPc' = "recv" /\ UNCHANGED <<decRes, batch, decoded, rawQ>>
    BY <1>0, <1>5, <2>1 DEF BuildPool, WithinLimits
  <2>2. CASE DecoderReturns("pool", "leave")
    BY <1>4, <1>5, <2>2 DEF BuildPool
  <2> QED
    BY <1>5, <2>1, <2>2 DEF BuildPool
<1>6. CASE DecRecv
  <2> DEFINE frames == Append(batch, Head(rawQ))
  <2>1. /\ frames \in Seq(Nat) /\ Len(frames) = Len(batch) + 1 /\ Len(frames) <= BatchSize
    <3>1. rawQ # <<>> /\ Head(rawQ) \in Nat /\ batch \in Seq(Nat)
      BY <1>6 DEF DecRecv, TypeOK
    <3>2. Len(batch) + 1 <= BatchSize
      BY <1>2, <1>6, <3>1 DEF DecRecv, WithinLimits
    <3> QED
      BY <3>1, <3>2
  <2>2. rawQ' = Tail(rawQ) /\ Len(rawQ') <= ChannelCapacity /\ decodedQ' = decodedQ
    BY <1>2, <1>6 DEF DecRecv, TypeOK, WithinLimits
  <2>3. CASE Len(frames) >= BatchSize
    <3>1. Process(frames)
      BY <1>6, <2>3 DEF DecRecv
    <3> HIDE DEF frames
    <3> QED
      BY <1>0, <1>3, <2>1, <2>2, <3>1 DEF WithinLimits
  <2>4. CASE ~(Len(frames) >= BatchSize)
    <3>1. batch' = frames /\ UNCHANGED <<decPc, decoded>>
      BY <1>6, <2>4 DEF DecRecv
    <3> HIDE DEF frames
    <3> QED
      BY <1>0, <1>2, <2>1, <2>2, <2>4, <3>1 DEF WithinLimits
  <2> QED
    BY <2>3, <2>4
<1>7. CASE DecEof
  <2>0. decodedQ' = decodedQ
    BY <1>7 DEF DecEof
  <2>1. CASE batch = <<>>
    BY <1>4, <1>7, <2>0, <2>1 DEF DecEof
  <2>2. CASE batch # <<>>
    <3>1. Process(batch) /\ rawQ' = rawQ
      BY <1>7, <2>2 DEF DecEof
    <3>2. batch \in Seq(Nat)
      BY DEF TypeOK
    <3> QED
      BY <1>0, <1>3, <2>0, <3>1, <3>2 DEF WithinLimits
  <2> QED
    BY <2>1, <2>2
<1>8. CASE DecodeFrame
  <2>1. Len(decoded') = Len(decoded)
    BY <1>8 DEF DecodeFrame, TypeOK
  <2>2. UNCHANGED <<decPc, batch, rawQ, decodedQ>>
    BY <1>8 DEF DecodeFrame
  <2> QED
    BY <1>0, <2>1, <2>2 DEF WithinLimits
<1>9. CASE DecodeFails \/ SendDecodedFails
  <2>1. decodedQ' = decodedQ
    BY <1>9 DEF DecodeFails, SendDecodedFails
  <2> QED
    BY <1>4, <1>9, <2>1 DEF DecodeFails, SendDecodedFails
<1>10. CASE Collect
  BY <1>0, <1>1, <1>10 DEF Collect, WithinLimits
<1>11. CASE SendDecoded
  <2>1. Len(decodedQ') = Len(decodedQ) + 1 /\ Len(decodedQ) < DecodedQueueDepth /\ batch = <<>>
    BY <1>11 DEF SendDecoded, TypeOK, ControlInv
  <2>2. /\ decoded' = <<>> /\ batch' = <<>>
        /\ rawQ' = rawQ \/ rawQ' = <<>>
    BY <1>11, <2>1 DEF SendDecoded, DecoderReturns
  <2> QED
    BY <1>0, <1>1, <1>2, <2>1, <2>2 DEF WithinLimits
<1>12. CASE JoinProducer \/ JoinWriter \/ Finalize \/ LeaveScope
  <2>1. UNCHANGED <<batch, decoded, rawQ, decodedQ>> /\ decPc' \notin {"pool", "recv"}
    <3>1. CASE JoinProducer
      BY <3>1 DEF JoinProducer
    <3>2. CASE JoinWriter
      BY <3>2 DEF JoinWriter
    <3>3. CASE Finalize \/ LeaveScope
      BY <3>3 DEF Finalize, LeaveScope
    <3> QED
      BY <1>12, <3>1, <3>2, <3>3
  <2> QED
    BY <1>0, <2>1 DEF WithinLimits
<1> QED
  BY <1>5, <1>6, <1>7, <1>8, <1>9, <1>10, <1>11, <1>12 DEF Decoder

\* The writer only empties the second channel.
LEMMA LimitsWriter == TypeOK /\ WithinLimits /\ Writer => WithinLimits'
<1> SUFFICES ASSUME TypeOK, WithinLimits, Writer PROVE WithinLimits'
  OBVIOUS
<1>1. UNCHANGED <<pending, rawQ, batch, decoded, decPc>>
  BY DEF Writer, WrRecv, WrWrite, WrBatchDone, WrWriteFails, WrEof, prodVars, decVars
<1>2. decodedQ' = decodedQ \/ decodedQ' = <<>> \/ (decodedQ # <<>> /\ decodedQ' = Tail(decodedQ))
  BY DEF Writer, WrRecv, WrWrite, WrBatchDone, WrWriteFails, WrEof
<1>3. Len(decodedQ') <= DecodedQueueDepth
  BY <1>2, PipelineAssumption DEF TypeOK, WithinLimits
<1> QED
  BY <1>1, <1>3 DEF WithinLimits

\* Every step stays within the limits.
LEMMA LimitsNext == IInv /\ WithinLimits /\ [Next]_vars => WithinLimits'
<1>1. WithinLimits /\ UNCHANGED vars => WithinLimits'
  BY DEF vars, prodVars, decVars, WithinLimits
<1> QED
  BY <1>1, LimitsProducer, LimitsDecoder, LimitsWriter DEF IInv, Next, Terminated

\* The memory in flight is bounded by the channels, one batch on each side of the
\* decode, one in the writer and one sector, for every depth and batch size.
THEOREM BoundedMemory == Spec => []MemoryBounded
<1>1. Init => WithinLimits
  BY PipelineAssumption DEF Init, WithinLimits, SectorFrames
<1>2. IInv /\ WithinLimits => MemoryBounded
  <2> SUFFICES ASSUME TypeOK, WithinLimits PROVE MemoryBounded
    BY DEF IInv
  <2>1. /\ Len(pending) \in Nat /\ Len(rawQ) \in Nat /\ Len(batch) \in Nat
        /\ Len(decodedQ) \in Nat
        /\ SectorFrames \in Nat
    BY PipelineAssumption DEF TypeOK, SectorFrames
  <2>2. RawInFlight <= ChannelCapacity + BatchSize + SectorFrames
    BY <2>1, PipelineAssumption DEF RawInFlight, WithinLimits
  <2>3. DecodedInFlight <= DecodedQueueDepth + 2
    <3> DEFINE held    == IF decoded # <<>> THEN 1 ELSE 0
               writing == IF wrPc = "write" THEN 1 ELSE 0
    <3>1. held \in 0..1 /\ writing \in 0..1
      BY SMT
    <3>2. DecodedInFlight = Len(decodedQ) + held + writing
      BY DEF DecodedInFlight
    <3>3. Len(decodedQ) <= DecodedQueueDepth
      BY DEF WithinLimits
    <3> HIDE DEF held, writing
    <3> QED
      BY <2>1, <3>1, <3>2, <3>3, PipelineAssumption
  <2> QED
    BY <2>2, <2>3 DEF MemoryBounded, WithinLimits, SectorFrames
<1> QED
  BY <1>1, <1>2, Invariance, LimitsNext, PTL DEF Spec

-----------------------------------------------------------------------------
(* The refinement *)

\* The frames of s have been yielded when n frames have.
Upto(s, n) == \A i \in DOMAIN s : s[i] <= n

\* No stage holds a frame the parser has not yielded, whatever has failed.
OnlyYielded ==
    /\ Upto(pending, produced) /\ Upto(rawQ, produced)
    /\ Upto(batch, produced) /\ Upto(decoded, produced)
    /\ \A b \in DOMAIN decodedQ : Upto(decodedQ[b], produced)
    /\ Upto(wbatch, produced)

-----------------------------------------------------------------------------
(* Sequences of frames *)

\* Nothing is held in an empty stage.
LEMMA UptoEmpty == \A n : Upto(<<>>, n)
BY DEF Upto

\* A frame that is moved to another stage was yielded, and so were the rest.
LEMMA UptoHead ==
    ASSUME NEW s \in Seq(Nat), NEW n \in Nat, Upto(s, n), s # <<>>
    PROVE  Head(s) \in Nat /\ Head(s) <= n /\ Upto(Tail(s), n)
<1>1. Head(s) = s[1] /\ 1 \in DOMAIN s
  OBVIOUS
<1>2. \A i \in DOMAIN Tail(s) : i + 1 \in DOMAIN s /\ Tail(s)[i] = s[i + 1]
  OBVIOUS
<1> QED
  BY <1>1, <1>2 DEF Upto

\* A stage may take a frame that was yielded.
LEMMA UptoAppend ==
    ASSUME NEW s \in Seq(Nat), NEW n \in Nat, NEW f \in Nat, Upto(s, n), f <= n
    PROVE  Upto(Append(s, f), n)
<1>1. \A i \in DOMAIN Append(s, f) : Append(s, f)[i] = f \/ (i \in DOMAIN s /\ Append(s, f)[i] = s[i])
  OBVIOUS
<1> QED
  BY <1>1 DEF Upto

\* What was yielded stays yielded.
LEMMA UptoMore ==
    ASSUME NEW s \in Seq(Nat), NEW n \in Nat, NEW m \in Nat, Upto(s, n), n <= m
    PROVE  Upto(s, m)
<1>1. \A i \in DOMAIN s : s[i] \in Nat
  OBVIOUS
<1> QED
  BY <1>1 DEF Upto

-----------------------------------------------------------------------------
(* OnlyYielded is inductive *)

\* The frames in hand are the ones the parser has just counted.
LEMMA YieldedProducer == TypeOK /\ ControlInv /\ OnlyYielded /\ Producer => OnlyYielded'
<1> SUFFICES ASSUME TypeOK, ControlInv, OnlyYielded, Producer PROVE OnlyYielded'
  OBVIOUS
<1>0. UNCHANGED <<batch, decoded, decodedQ, wbatch>>
  BY DEF Producer, ProdRead, ProdReadFails, ProdAbort, ProdParse, ProdParseFails, ProdSend,
         ProdSendFails, ProdChunkDone, ProdLoopEnd, ProdFlush, ProdTail, decVars, wrVars
<1>1. ASSUME UNCHANGED produced, Upto(pending', produced), Upto(rawQ', produced)
      PROVE  OnlyYielded'
  BY <1>0, <1>1 DEF OnlyYielded
<1>2. ASSUME NEW k \in Nat, produced' = produced + k, rawQ' = rawQ,
             pending' = [i \in 1..k |-> produced + i]
      PROVE  OnlyYielded'
  <2>1. produced \in Nat /\ produced' \in Nat /\ produced <= produced'
    BY <1>2 DEF TypeOK
  <2>2. Upto(pending', produced')
    BY <1>2, <2>1 DEF Upto
  <2>3. /\ Upto(rawQ, produced') /\ Upto(batch, produced') /\ Upto(decoded, produced')
        /\ Upto(wbatch, produced')
    BY <2>1, UptoMore DEF TypeOK, OnlyYielded
  <2>4. \A b \in DOMAIN decodedQ : Upto(decodedQ[b], produced')
    BY <2>1, UptoMore DEF TypeOK, OnlyYielded
  <2> QED
    BY <1>0, <1>2, <2>2, <2>3, <2>4 DEF OnlyYielded
<1>3. CASE ProdRead \/ ProdChunkDone \/ ProdLoopEnd
  BY <1>1, <1>3 DEF ProdRead, ProdChunkDone, ProdLoopEnd, OnlyYielded
<1>4. CASE ProdReadFails \/ ProdParseFails \/ ProdSendFails
  BY <1>1, <1>4, UptoEmpty
     DEF ProdReadFails, ProdParseFails, ProdSendFails, ProdAbort, OnlyYielded
<1>5. CASE ProdParse
  BY <1>2, <1>5, PipelineAssumption DEF ProdParse
<1>6. CASE ProdSend
  <2>1. Head(pending) \in Nat /\ Head(pending) <= produced /\ Upto(Tail(pending), produced)
    BY <1>6, UptoHead DEF ProdSend, TypeOK, OnlyYielded
  <2>2. Upto(Append(rawQ, Head(pending)), produced)
    BY <2>1, UptoAppend DEF TypeOK, OnlyYielded
  <2> QED
    BY <1>1, <1>6, <2>1, <2>2 DEF ProdSend
<1>7. CASE ProdFlush
  <2>1. CASE pending' = <<produced + 1>> /\ produced' = produced + 1
    <3>1. <<produced + 1>> = [i \in 1..1 |-> produced + i]
      BY DEF TypeOK
    <3> QED
      BY <1>2, <1>7, <2>1, <3>1 DEF ProdFlush
  <2>2. CASE UNCHANGED <<pending, produced>>
    BY <1>1, <1>7, <2>2 DEF ProdFlush, OnlyYielded
  <2> QED
    BY <1>7, <2>1, <2>2 DEF ProdFlush
<1>8. CASE ProdTail
  <2>1. CASE rawQ' = rawQ
    BY <1>1, <1>8, <2>1, UptoEmpty DEF ProdTail, OnlyYielded
  <2>2. CASE rawQ' = Append(rawQ, Head(pending)) /\ pending # <<>>
    <3>1. Head(pending) \in Nat /\ Head(pending) <= produced
      BY <2>2, UptoHead DEF TypeOK, OnlyYielded
    <3>2. Upto(Append(rawQ, Head(pending)), produced)
      BY <3>1, UptoAppend DEF TypeOK, OnlyYielded
    <3> QED
      BY <1>1, <1>8, <2>2, <3>2, UptoEmpty DEF ProdTail
  <2>3. pending # <<>>
    BY <1>8 DEF ProdTail, ControlInv
  <2> QED
    BY <1>8, <2>1, <2>2, <2>3 DEF ProdTail
<1> QED
  BY <1>3, <1>4, <1>5, <1>6, <1>7, <1>8 DEF Producer

\* The decoder holds what it received, its decode fills slots with the batch.
LEMMA YieldedDecoder == TypeOK /\ ControlInv /\ OnlyYielded /\ Decoder => OnlyYielded'
<1> SUFFICES ASSUME TypeOK, ControlInv, OnlyYielded, Decoder PROVE OnlyYielded'
  OBVIOUS
<1>0. UNCHANGED <<pending, produced, wbatch>>
  BY DEF Decoder, BuildPool, DecRecv, DecEof, DecodeFrame, DecodeFails, Collect, SendDecoded,
         SendDecodedFails, JoinProducer, JoinWriter, Finalize, LeaveScope, prodVars, wrVars
<1>1. ASSUME decodedQ' = decodedQ, Upto(rawQ', produced), Upto(batch', produced),
             Upto(decoded', produced)
      PROVE  OnlyYielded'
  BY <1>0, <1>1 DEF OnlyYielded
<1>2. ASSUME NEW res, NEW pc, DecoderReturns(res, pc), decodedQ' = decodedQ
      PROVE  OnlyYielded'
  BY <1>1, <1>2, UptoEmpty DEF DecoderReturns
<1>3. ASSUME NEW frames \in Seq(Nat), Upto(frames, produced), Process(frames)
      PROVE  Upto(batch', produced) /\ Upto(decoded', produced)
  <2>1. Upto([i \in 1..Len(frames) |-> Hole], produced)
    BY <1>3 DEF Upto, Hole, TypeOK
  <2> QED
    BY <1>3, <2>1, UptoEmpty DEF Process
<1>4. CASE BuildPool
  <2>1. CASE UNCHANGED <<batch, decoded, rawQ>>
    BY <1>1, <1>4, <2>1 DEF BuildPool, OnlyYielded
  <2>2. CASE DecoderReturns("pool", "leave")
    BY <1>2, <1>4, <2>2 DEF BuildPool
  <2> QED
    BY <1>4, <2>1, <2>2 DEF BuildPool
<1>5. CASE DecRecv
  <2> DEFINE frames == Append(batch, Head(rawQ))
  <2>1. Head(rawQ) \in Nat /\ Head(rawQ) <= produced /\ Upto(Tail(rawQ), produced)
    BY <1>5, UptoHead DEF DecRecv, TypeOK, OnlyYielded
  <2>2. frames \in Seq(Nat) /\ Upto(frames, produced)
    BY <2>1, UptoAppend DEF TypeOK, OnlyYielded
  <2>3. rawQ' = Tail(rawQ) /\ decodedQ' = decodedQ
    BY <1>5 DEF DecRecv
  <2>4. Process(frames) \/ (batch' = frames /\ UNCHANGED decoded)
    BY <1>5 DEF DecRecv
  <2> HIDE DEF frames
  <2>5. CASE Process(frames)
    BY <1>1, <1>3, <2>1, <2>2, <2>3, <2>5
  <2>6. CASE batch' = frames /\ UNCHANGED decoded
    BY <1>1, <2>1, <2>2, <2>3, <2>6 DEF OnlyYielded
  <2> QED
    BY <2>4, <2>5, <2>6
<1>6. CASE DecEof
  <2>1. CASE DecoderReturns("ok", "joinProducer")
    BY <1>2, <1>6, <2>1 DEF DecEof
  <2>2. CASE Process(batch) /\ UNCHANGED rawQ
    <3>1. batch \in Seq(Nat) /\ Upto(batch, produced) /\ Upto(rawQ, produced)
      BY DEF TypeOK, OnlyYielded
    <3> QED
      BY <1>1, <1>3, <1>6, <2>2, <3>1 DEF DecEof
  <2> QED
    BY <1>6, <2>1, <2>2 DEF DecEof
<1>7. CASE DecodeFrame
  <2>1. PICK i \in DOMAIN decoded : decoded' = [decoded EXCEPT ![i] = batch[i]]
    BY <1>7 DEF DecodeFrame
  <2>2. i \in DOMAIN batch
    <3>1. decPc = "decode"
      BY <1>7 DEF DecodeFrame
    <3>2. Len(decoded) = Len(batch)
      BY <3>1 DEF ControlInv
    <3>3. decoded \in Seq(Nat) /\ batch \in Seq(Nat)
      BY DEF TypeOK
    <3> QED
      BY <3>2, <3>3
  <2>3. \A j \in DOMAIN decoded' : j \in DOMAIN decoded /\ decoded'[j] \in {decoded[j], batch[i]}
    BY <2>1
  <2>4. Upto(decoded', produced)
    BY <2>2, <2>3 DEF Upto, OnlyYielded
  <2> QED
    BY <1>1, <1>7, <2>4 DEF DecodeFrame, OnlyYielded
<1>8. CASE DecodeFails \/ SendDecodedFails
  BY <1>2, <1>8 DEF DecodeFails, SendDecodedFails
<1>9. CASE Collect
  BY <1>1, <1>9, UptoEmpty DEF Collect, OnlyYielded
<1>10. CASE SendDecoded
  <2>1. /\ UNCHANGED <<rawQ, batch>> \/ (rawQ' = <<>> /\ batch' = <<>>)
        /\ decoded' = <<>>
        /\ decodedQ' = Append(decodedQ, decoded)
    BY <1>10 DEF SendDecoded, DecoderReturns
  <2>2. Upto(rawQ', produced) /\ Upto(batch', produced) /\ Upto(decoded', produced)
    BY <2>1, UptoEmpty DEF OnlyYielded
  <2>3. \A b \in DOMAIN decodedQ' :
           decodedQ'[b] = decoded \/ (b \in DOMAIN decodedQ /\ decodedQ'[b] = decodedQ[b])
    <3>1. decodedQ \in Seq(Seq(Nat)) /\ decoded \in Seq(Nat)
      BY DEF TypeOK
    <3>2. \A b \in DOMAIN Append(decodedQ, decoded) :
             Append(decodedQ, decoded)[b] = decoded
             \/ (b \in DOMAIN decodedQ /\ Append(decodedQ, decoded)[b] = decodedQ[b])
      BY <3>1
    <3> QED
      BY <2>1, <3>2
  <2>4. \A b \in DOMAIN decodedQ' : Upto(decodedQ'[b], produced)
    BY <2>3 DEF OnlyYielded
  <2> QED
    BY <1>0, <2>2, <2>4 DEF OnlyYielded
<1>11. CASE JoinProducer \/ JoinWriter \/ Finalize \/ LeaveScope
  <2>1. UNCHANGED <<batch, decoded, rawQ, decodedQ>>
    BY <1>11 DEF JoinProducer, JoinWriter, Finalize, LeaveScope
  <2> QED
    BY <1>1, <2>1 DEF OnlyYielded
<1> QED
  BY <1>4, <1>5, <1>6, <1>7, <1>8, <1>9, <1>10, <1>11 DEF Decoder

\* The writer takes a batch from the second channel and shortens it.
LEMMA YieldedWriter == TypeOK /\ OnlyYielded /\ Writer => OnlyYielded'
<1> SUFFICES ASSUME TypeOK, OnlyYielded, Writer PROVE OnlyYielded'
  OBVIOUS
<1>0. UNCHANGED <<pending, produced, rawQ, batch, decoded>>
  BY DEF Writer, WrRecv, WrWrite, WrBatchDone, WrWriteFails, WrEof, prodVars, decVars
<1>1. CASE WrRecv
  <2>1. 1 \in DOMAIN decodedQ /\ wbatch' = decodedQ[1]
    BY <1>1 DEF WrRecv, TypeOK
  <2>2. \A b \in DOMAIN decodedQ' : b + 1 \in DOMAIN decodedQ /\ decodedQ'[b] = decodedQ[b + 1]
    BY <1>1 DEF WrRecv, TypeOK
  <2> QED
    BY <1>0, <2>1, <2>2 DEF OnlyYielded
<1>2. CASE WrWrite
  <2>1. Upto(Tail(wbatch), produced)
    BY <1>2, UptoHead DEF WrWrite, TypeOK, OnlyYielded
  <2> QED
    BY <1>0, <1>2, <2>1 DEF WrWrite, OnlyYielded
<1>3. CASE WrWriteFails
  BY <1>0, <1>3, UptoEmpty DEF WrWriteFails, OnlyYielded
<1>4. CASE WrBatchDone \/ WrEof
  BY <1>0, <1>4 DEF WrBatchDone, WrEof, OnlyYielded
<1> QED
  BY <1>1, <1>2, <1>3, <1>4 DEF Writer

\* Every step keeps to the frames that were yielded.
LEMMA YieldedNext == IInv /\ OnlyYielded /\ [Next]_vars => OnlyYielded'
<1>1. OnlyYielded /\ UNCHANGED vars => OnlyYielded'
  BY DEF vars, prodVars, decVars, wrVars, OnlyYielded
<1> QED
  BY <1>1, YieldedProducer, YieldedDecoder, YieldedWriter DEF IInv, Next, Terminated

-----------------------------------------------------------------------------
(* The refinement *)

\* The producer yields frames, and stops yielding when its closure returns.
LEMMA ProducerTransfers ==
    ASSUME TypeOK, ControlInv, Settled, Producer
    PROVE  [Transfer!Next]_(Transfer!vars)
<1>0. UNCHANGED <<written, result>>
  BY DEF Producer, ProdRead, ProdReadFails, ProdAbort, ProdParse, ProdParseFails, ProdSend,
         ProdSendFails, ProdChunkDone, ProdLoopEnd, ProdFlush, ProdTail, wrVars
<1>1. prodPc # "done" /\ result = "running"
  BY DEF Settled, Producer, ProdRead, ProdReadFails, ProdParse, ProdParseFails, ProdSend,
         ProdSendFails, ProdChunkDone, ProdLoopEnd, ProdFlush, ProdTail
<1>2. ASSUME produced' \in Nat, produced' > produced, prodPc' # "done"
      PROVE  Transfer!Yield
  BY <1>0, <1>1, <1>2 DEF Transfer!Yield
<1>3. ASSUME produced' = produced
      PROVE  Transfer!Exhaust \/ UNCHANGED Transfer!vars
  BY <1>0, <1>1, <1>3 DEF Transfer!Exhaust, Transfer!vars
<1>4. CASE ProdParse
  <2>1. PICK k \in 0..MaxYield : produced' = produced + k
    BY <1>4 DEF ProdParse
  <2>2. produced' = produced \/ (produced' \in Nat /\ produced' > produced)
    BY <2>1, PipelineAssumption DEF TypeOK
  <2>3. prodPc' # "done"
    BY <1>4 DEF ProdParse
  <2> QED
    BY <1>2, <1>3, <2>2, <2>3 DEF Transfer!Next
<1>5. CASE ProdFlush
  <2>1. CASE produced' = produced + 1 /\ prodPc' = "tail"
    <3>1. produced' \in Nat /\ produced' > produced
      BY <2>1 DEF TypeOK
    <3> QED
      BY <1>2, <2>1, <3>1 DEF Transfer!Next
  <2>2. CASE produced' = produced
    BY <1>3, <2>2 DEF Transfer!Next
  <2> QED
    BY <1>5, <2>1, <2>2 DEF ProdFlush
<1>6. CASE ~(ProdParse \/ ProdFlush)
  <2>1. produced' = produced
    BY <1>6 DEF Producer, ProdRead, ProdReadFails, ProdAbort, ProdParseFails, ProdSend,
                ProdSendFails, ProdChunkDone, ProdLoopEnd, ProdTail
  <2> QED
    BY <1>3, <2>1 DEF Transfer!Next
<1> QED
  BY <1>4, <1>5, <1>6

\* The calling thread changes only the outcome: success when the file is complete.
LEMMA DecoderTransfers ==
    ASSUME IInv, Decoder
    PROVE  [Transfer!Next]_(Transfer!vars)
<1> USE DEF IInv
<1>0. UNCHANGED <<produced, prodPc, prodRes, written>>
  BY DEF Decoder, BuildPool, DecRecv, DecEof, DecodeFrame, DecodeFails, Collect, SendDecoded,
         SendDecodedFails, JoinProducer, JoinWriter, Finalize, LeaveScope, prodVars, wrVars
<1>1. ASSUME result' = result
      PROVE  UNCHANGED Transfer!vars
  BY <1>0, <1>1 DEF Transfer!vars
<1>2. ASSUME result = "running", prodPc = "done", result' \notin {"running", "ok"}
      PROVE  Transfer!Fail
  BY <1>0, <1>2 DEF Transfer!Fail
<1>3. CASE JoinWriter
  <2>1. result = "running" /\ prodPc = "done"
    BY <1>3 DEF JoinWriter, ControlInv
  <2>2. result' \in {"running", "writer", "decoder", "producer"}
    BY <1>3 DEF JoinWriter
  <2> QED
    BY <1>1, <1>2, <2>1, <2>2 DEF Transfer!Next
<1>4. CASE Finalize
  <2>1. result = "running" /\ prodPc = "done" /\ Len(written) = produced
    BY <1>4 DEF Finalize, ControlInv, DataInv
  <2>2. CASE result' = "ok"
    BY <1>0, <2>1, <2>2 DEF Transfer!Next, Transfer!Succeed
  <2>3. CASE result' = "finalize"
    BY <1>2, <2>1, <2>3 DEF Transfer!Next
  <2> QED
    BY <1>4, <2>2, <2>3 DEF Finalize
<1>5. CASE LeaveScope
  <2>1. result = "running" /\ prodPc = "done"
    BY <1>5 DEF LeaveScope, ProducerAlive, ControlInv
  <2>2. result' \in {"panic", "pool", "producer"}
    BY <1>5 DEF LeaveScope
  <2> QED
    BY <1>2, <2>1, <2>2 DEF Transfer!Next
<1>6. CASE ~(JoinWriter \/ Finalize \/ LeaveScope)
  BY <1>1, <1>6, RunningSteps DEF Next
<1> QED
  BY <1>3, <1>4, <1>5, <1>6

\* The frame the writer appends is the next one of the track, and was yielded.
LEMMA WriterTransfers ==
    ASSUME IInv, Settled, OnlyYielded, Writer
    PROVE  [Transfer!Next]_(Transfer!vars)
<1> USE DEF IInv
<1>0. UNCHANGED <<produced, prodPc, result>>
  BY DEF Writer, WrRecv, WrWrite, WrBatchDone, WrWriteFails, WrEof, prodVars
<1>1. CASE WrWrite
  <2>1. result = "running" /\ Run(wbatch, Len(written)) /\ wbatch # <<>>
    BY <1>1 DEF WrWrite, Settled, DataInv, WriterAlive
  <2>2. Head(wbatch) = Len(written) + 1
    BY <2>1 DEF Run, TypeOK
  <2>3. Head(wbatch) <= produced
    BY <2>1, UptoHead DEF OnlyYielded, TypeOK
  <2>4. Len(written) < produced
    BY <2>2, <2>3 DEF TypeOK
  <2>5. written' = Append(written, Len(written) + 1)
    BY <1>1, <2>2 DEF WrWrite
  <2> QED
    BY <1>0, <2>1, <2>4, <2>5 DEF Transfer!Next, Transfer!Write
<1>2. CASE ~WrWrite
  <2>1. written' = written
    BY <1>2 DEF Writer, WrRecv, WrBatchDone, WrWriteFails, WrEof
  <2> QED
    BY <1>0, <2>1 DEF Transfer!vars
<1> QED
  BY <1>1, <1>2

\* Every step of the pipeline is a step of the transfer, or changes nothing the
\* caller can see.
LEMMA StepTransfers ==
    IInv /\ Settled /\ OnlyYielded /\ [Next]_vars => [Transfer!Next]_(Transfer!vars)
<1>1. UNCHANGED vars => UNCHANGED Transfer!vars
  BY DEF vars, prodVars, wrVars, Transfer!vars
<1> QED
  BY <1>1, ProducerTransfers, DecoderTransfers, WriterTransfers DEF IInv, Next, Terminated

\* The pipeline implements the safety of the transfer for every value of the
\* constants: an ordered copy that ends complete or with an error (extractor.rs
\* 233-516).
THEOREM ImplementsTransfer == Spec => Transfer!SafeSpec
<1>1. Init => Transfer!Init /\ Settled /\ BlameIsTrue /\ OnlyYielded
  BY UptoEmpty DEF Init, Transfer!Init, Settled, BlameIsTrue, OnlyYielded
<1> QED
  BY <1>1, Invariance, BlameNext, YieldedNext, StepTransfers, PTL DEF Spec, Transfer!SafeSpec

=============================================================================
