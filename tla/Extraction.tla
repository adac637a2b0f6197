------------------------------ MODULE Extraction ------------------------------
(***************************************************************************)
(* extract_track as a whole: the producer thread of ExtractPipeline drives *)
(* the AudioSectorParser of SectorParser, so the frames that pass the      *)
(* channels are those the parser makes of the disc's sectors.  A step of   *)
(* the producer that calls parse_sector or flush is a step of both; every  *)
(* other step is one of the pipeline alone.                                *)
(***************************************************************************)
EXTENDS ExtractPipeline, SectorParser

trackVars == <<vars, parserVars>>

\* The parser and the decoder are made for the same frame_format.
TrackInit == Init /\ ParserInit /\ isDst = track.dst

\* The frames in the producer's hands are those the parser has just yielded.
ParseInTrack == ParseSector /\ ProdParse /\ produced' = Len(yielded')

\* parse_sector returns Err, and no sector makes it panic.
ParseFailsInTrack == ParseSectorFails /\ ProdParseFails /\ prodRes' = "err"

FlushInTrack == Flush /\ ProdFlush /\ produced' = Len(yielded')

\* The steps of the producer that do not call the parser.
ProducerAlone ==
    \/ ProdRead \/ ProdReadFails \/ ProdSend \/ ProdSendFails
    \/ ProdChunkDone \/ ProdLoopEnd \/ ProdTail

Alone == ProducerAlone \/ Decoder \/ Writer \/ Terminated

TrackNext ==
    \/ ParseInTrack \/ ParseFailsInTrack \/ FlushInTrack
    \/ Alone /\ UNCHANGED parserVars

TrackSpec == TrackInit /\ [][TrackNext]_trackVars

-----------------------------------------------------------------------------
(* What the extraction of a track promises *)

\* What the file holds: frames, or chunks of uncompressed audio.
File == [i \in DOMAIN written |-> yielded[written[i]]]

\* The frames of the track that have begun, and the last of them that has not
\* ended in the range.
Begun   == [i \in 1..(LastWanted(frame) - FirstWanted + 1) |-> FirstWanted + i - 1]
Open(f) == f = frame /\ left > 0

\* After every step and every failure of any thread the file is a beginning of
\* the track as the disc has it: of a soundly mastered compressed track its
\* frames, whole, in order and none of the neighbours', with the last cut only
\* where the range ends, or the unbroken audio of an uncompressed area from the
\* range's first packet on.  When extract_track returns Ok it is all of the
\* track (extractor.rs 272-317, audio.rs 231-551).
FileIsTheTrack ==
    IF track.dst
    THEN ~track.damaged =>
         /\ Len(File) <= Len(Begun)
         /\ \A i \in DOMAIN File :
              LET f == Begun[i]
              IN  IF Open(f) THEN File[i] = SubSeq(Frame(f), 1, size[f] - left)
                  ELSE File[i] = Frame(f)
         /\ result = "ok" => Len(File) = Len(Begun)
    ELSE LET audio == FlattenSeq(File)
         IN  /\ Continuous(audio)
             /\ result = "ok" => ReachesDisc(audio)

=============================================================================
