----------------------------- MODULE NetSession -----------------------------
(***************************************************************************)
(* NetReader (src/sacd_reader/net_reader.rs) talking to a ripper server:   *)
(* one TCP stream, one request at a time, replies that end with a zero     *)
(* byte and carry nothing that says which request they answer.             *)
(*                                                                         *)
(* A reply is a message of up to three fields; a byte of it is the message *)
(* with a position.  What matters of a byte is whether it is zero and      *)
(* whether a field ends there.  A sector is SectorSize payload bytes.      *)
(***************************************************************************)
EXTENDS Integers, Sequences, SequencesExt

CONSTANTS
    DiscSectors,    \* sectors on the disc
    SectorSize,     \* 2048
    MaxBlock,       \* MAX_BLOCK_SIZE of dump_iso, in sectors
    ChunkSize,      \* temp_buf: most bytes one read() returns
    MaxSize,        \* max_size: where send_req gives a reply up
    U32,            \* 2^32
    MaxCalls        \* bound: reads the caller makes besides a dump

\* The server limits a message to 1 MB of data, which max_size leaves room for.
ASSUME SessionAssumption ==
    /\ DiscSectors \in Nat \ {0} /\ SectorSize \in Nat \ {0}
    /\ MaxBlock \in Nat \ {0} /\ ChunkSize \in Nat \ {0} /\ MaxCalls \in Nat
    /\ MaxSize \in Nat /\ MaxSize >= 7 + MaxBlock * SectorSize
    /\ U32 \in Nat /\ U32 > DiscSectors + MaxBlock

VARIABLES
    pc,         \* "connect", "idle", "dump", "wait", "drop", "closed"
    op,         \* what the request at hand is for
    req,        \* the request at hand
    buffer,     \* send_req's buffer
    toServer,   \* requests on their way
    toClient,   \* bytes on their way back
    up,         \* the connection stands
    silent,     \* the server has stopped to answer, over a standing connection
    calls,      \* reads the caller has made
    last,       \* what the last read_data returned
    dump,       \* dump_iso: "no", "running", "ok", "err"
    total,      \* its total_sectors
    current,    \* its current_sector
    iso,        \* bytes in the output file
    served      \* requests the server has answered

client == <<op, req, calls, last, dump, total, current, iso>>
vars   == <<pc, client, buffer, toServer, toClient, up, silent, served>>

Requests == [type : {"open", "close", "read", "size"}, pos : 0..U32, count : 0..MaxBlock, id : Nat]
Replies  == {"unspecified", "opened", "closed", "read", "size"}
DiscBytes == [i \in 1..(DiscSectors * SectorSize) |-> i]
Beyond    == 0      \* a byte of a sector the disc does not have

\* n sectors from sector pos on.
Slice(pos, n) == [i \in 1..(n * SectorSize) |->
                    LET b == pos * SectorSize + i
                    IN  IF b \in DOMAIN DiscBytes THEN DiscBytes[b] ELSE Beyond]

Request(type, pos, count) == [type |-> type, pos |-> pos, count |-> count, id |-> req.id + 1]
NoReply == [type |-> "unspecified", result |-> 0, has |-> FALSE, data |-> <<>>, id |-> 0]
NoRead  == [ok |-> FALSE, data |-> <<>>, pos |-> 0, count |-> 0, id |-> 0, of |-> 0]

TypeOK ==
    /\ pc \in {"connect", "idle", "dump", "wait", "drop", "closed"}
    /\ op \in {"none", "open", "read", "dumpSize", "dumpRead", "close"}
    /\ req \in Requests
    /\ toServer \in Seq(Requests) /\ served \in Seq(Requests)
    /\ \A bytes \in {buffer, toClient} : \A i \in DOMAIN bytes :
         bytes[i].msg.type \in Replies /\ bytes[i].at \in 1..(MaxSize + ChunkSize)
    /\ up \in BOOLEAN /\ silent \in BOOLEAN /\ calls \in 0..MaxCalls
    /\ last \in [ok : BOOLEAN, data : Seq(0..(DiscSectors * SectorSize)), pos : 0..U32,
                 count : 0..MaxBlock, id : Nat, of : Nat]
    /\ dump \in {"no", "running", "ok", "err"}
    /\ total \in 0..(U32 - 1) /\ current \in 0..(U32 - 1)
    /\ iso \in Seq(0..(DiscSectors * SectorSize))

Init ==
    /\ pc = "connect" /\ op = "none"
    /\ req = [type |-> "open", pos |-> 0, count |-> 0, id |-> 0]
    /\ buffer = <<>> /\ toServer = <<>> /\ toClient = <<>> /\ up = TRUE /\ silent = FALSE
    /\ calls = 0 /\ last = NoRead
    /\ dump = "no" /\ total = 0 /\ current = 0 /\ iso = <<>>
    /\ served = <<>>

-----------------------------------------------------------------------------
(* The wire format of a reply *)

\* Tag and value of type and of result, tag, length and payload of data.
Size(m)      == IF m.has THEN 6 + Len(m.data) ELSE 4
FieldEnds(m) == {0, 2, 4, Size(m)}

\* A tag is never zero; a disc's bytes may all be.
IsZero(b) ==
    LET m == b.msg
    IN  \/ b.at = 4 /\ m.result = 0
        \/ b.at = 6 /\ m.data = <<>>
        \/ b.at > 6
        \/ b.at = Size(m) + 1

Encode(m) == [i \in 1..(Size(m) + 1) |-> [msg |-> m, at |-> i]]

\* ServerResponse::decode accepts what consists of whole fields: proto3 has no
\* required ones, so the empty message too.
Decodes(bytes) ==
    bytes # <<>> => /\ \A i \in DOMAIN bytes : bytes[i] = [msg |-> bytes[1].msg, at |-> i]
                    /\ Len(bytes) \in FieldEnds(bytes[1].msg)

Decoded(bytes) ==
    IF bytes = <<>> THEN NoReply
    ELSE LET m == bytes[1].msg
             n == Len(bytes)
         IN  [NoReply EXCEPT !.type = m.type, !.id = m.id,
                             !.result = IF n >= 4 THEN m.result ELSE 0,
                             !.has = m.has /\ n = Size(m),
                             !.data = IF n = Size(m) THEN m.data ELSE <<>>]

\* Mutant: a reply that decodes is taken without waiting for its terminator.
Complete_NoTerminator(bytes) == Decodes(bytes) \/ (IsZero(Last(bytes)) /\ Decodes(Front(bytes)))

\* Mutant: only the zero at the end is looked for.
Complete_AnyZero(bytes) == IsZero(Last(bytes))

\* The buffer ends with a zero and what stands before it decodes.
Complete(bytes) == IsZero(Last(bytes)) /\ Decodes(Front(bytes))

\* Mutant: the result is not narrowed.
AsU32_Unbounded(n) == n

AsU32(n) == n % U32

-----------------------------------------------------------------------------
(* The requests of the client *)

\* send_req up to its read loop.  On a broken connection the write fails, or it
\* is taken by the socket and lost.
Send(what, r) ==
    /\ op' = what /\ req' = r
    /\ buffer' = <<>>
    /\ pc' = "wait"
    /\ toServer' = IF up THEN Append(toServer, r) ELSE toServer

\* open_network_reader: no handle without a connection, a handle from then on.
ConnectFails ==
    /\ pc = "connect"
    /\ pc' = "closed" /\ up' = FALSE
    /\ UNCHANGED <<client, buffer, toServer, toClient, silent, served>>

Open ==
    /\ pc = "connect"
    /\ Send("open", Request("open", 0, 0))
    /\ UNCHANGED <<toClient, up, silent, calls, last, dump, total, current, iso, served>>

\* A caller reads sectors, as the TOC reader does, also after a failed read.
Read ==
    /\ pc = "idle" /\ calls < MaxCalls
    /\ \E pos \in 0..(DiscSectors - 1), n \in 1..MaxBlock : Send("read", Request("read", pos, n))
    /\ calls' = calls + 1 /\ last' = NoRead
    /\ UNCHANGED <<toClient, up, silent, dump, total, current, iso, served>>

DumpIso ==
    /\ pc = "idle" /\ dump = "no"
    /\ Send("dumpSize", Request("size", 0, 0))
    /\ dump' = "running"
    /\ UNCHANGED <<toClient, up, silent, calls, last, total, current, iso, served>>

\* The head of dump_iso's loop.
DumpRead ==
    /\ pc = "dump" /\ current < total
    /\ Send("dumpRead", Request("read", current,
                                IF total - current < MaxBlock THEN total - current ELSE MaxBlock))
    /\ UNCHANGED <<toClient, up, silent, calls, last, dump, total, current, iso, served>>

\* The final flush reports what the file system thinks of the file.
DumpEnds ==
    /\ pc = "dump" /\ current >= total
    /\ dump' \in {"ok", "err"}
    /\ pc' = "idle"
    /\ UNCHANGED <<op, req, calls, last, total, current, iso, buffer, toServer, toClient, up, silent, served>>

\* The reader goes out of scope.
Drop ==
    /\ pc \in {"idle", "drop"}
    /\ Send("close", Request("close", 0, 0))
    /\ UNCHANGED <<toClient, up, silent, calls, last, dump, total, current, iso, served>>

-----------------------------------------------------------------------------
(* What becomes of a request *)

\* Mutant: the handle is made only once the disc is open, so a failed open
\* drops a bare stream.
CallFails_NoHandle ==
    /\ pc' = IF op \in {"open", "close"} THEN "closed" ELSE "idle"
    /\ dump' = IF op \in {"dumpSize", "dumpRead"} THEN "err" ELSE dump
    /\ UNCHANGED <<op, req, calls, last, total, current, iso>>

\* The call at hand returns Err: a failed open drops its handle, a failed dump
\* leaves a short file, a failed close is ignored.
CallFails ==
    /\ pc' = CASE op = "open" -> "drop" [] op = "close" -> "closed" [] OTHER -> "idle"
    /\ dump' = IF op \in {"dumpSize", "dumpRead"} THEN "err" ELSE dump
    /\ UNCHANGED <<op, req, calls, last, total, current, iso>>

Opened(m) == m.result = 0 /\ m.type = "opened"

\* read_data's checks: the type, that there is data, and that its length is
\* that of the sectors the server claims, however many were asked for.
Readable(m) == /\ m.type = "read" /\ m.has
               /\ Len(m.data) = AsU32(m.result) * SectorSize

ReadReturns(m) ==
    /\ last' = [ok |-> TRUE, data |-> m.data, pos |-> req.pos, count |-> req.count,
                id |-> req.id, of |-> m.id]
    /\ pc' = "idle"
    /\ UNCHANGED <<op, req, calls, dump, total, current, iso>>

\* File::create follows the size; it may fail.
SizeReturns(m) ==
    /\ total' = AsU32(m.result)
    /\ \/ pc' = "dump" /\ UNCHANGED dump
       \/ pc' = "idle" /\ dump' = "err"
    /\ UNCHANGED <<op, req, calls, last, current, iso>>

SectorsIn(m) == Len(m.data) \div SectorSize

\* Mutant: the loop advances by the sectors it asked for.
BlockReturns_AssumesAll(m) ==
    \/ /\ SectorsIn(m) > 0
       /\ iso' = iso \o m.data
       /\ current' = AsU32(current + req.count)
       /\ pc' = "dump"
       /\ UNCHANGED <<op, req, calls, last, dump, total>>
    \/ CallFails

\* Mutant: a block of no sectors ends the dump.
BlockReturns_EmptyEnds(m) ==
    \/ /\ SectorsIn(m) > 0
       /\ iso' = iso \o m.data
       /\ current' = AsU32(current + SectorsIn(m))
       /\ pc' = "dump"
       /\ UNCHANGED <<op, req, calls, last, dump, total>>
    \/ /\ SectorsIn(m) = 0
       /\ dump' = "ok" /\ pc' = "idle"
       /\ UNCHANGED <<op, req, calls, last, total, current, iso>>

\* One block of the dump; the write to the file may fail.
BlockReturns(m) ==
    \/ /\ SectorsIn(m) > 0
       /\ iso' = iso \o m.data
       /\ current' = AsU32(current + SectorsIn(m))
       /\ pc' = "dump"
       /\ UNCHANGED <<op, req, calls, last, dump, total>>
    \/ CallFails

Answer(m) ==
    CASE op = "open"     -> IF Opened(m) THEN pc' = "idle" /\ UNCHANGED client ELSE CallFails
      [] op = "read"     -> IF Readable(m) THEN ReadReturns(m) ELSE CallFails
      [] op = "dumpSize" -> IF m.type = "size" THEN SizeReturns(m) ELSE CallFails
      [] op = "dumpRead" -> IF Readable(m) THEN BlockReturns(m) ELSE CallFails
      [] op = "close"    -> pc' = "closed" /\ UNCHANGED client

\* One read() of send_req's loop: TCP delivers the bytes in chunks of any size.
Receive ==
    /\ pc = "wait" /\ toClient # <<>>
    /\ \E n \in 1..ChunkSize :
         /\ n <= Len(toClient)
         /\ toClient' = SubSeq(toClient, n + 1, Len(toClient))
         /\ LET bytes == buffer \o SubSeq(toClient, 1, n)
            IN  IF Complete(bytes)
                THEN Answer(Decoded(Front(bytes))) /\ buffer' = <<>>
                ELSE IF Len(bytes) > MaxSize
                THEN CallFails /\ buffer' = <<>>
                ELSE buffer' = bytes /\ UNCHANGED <<pc, client>>
    /\ UNCHANGED <<toServer, up, silent, served>>

\* Mutant: a read() of no bytes is read again.
Eof_ReadsAgain == pc = "wait" /\ ~up /\ toClient = <<>> /\ UNCHANGED vars

\* The write or the read fails, or read() returns no bytes.
Eof ==
    /\ pc = "wait" /\ ~up
    /\ toClient = <<>>
    /\ CallFails
    /\ buffer' = <<>>
    /\ UNCHANGED <<toServer, toClient, up, silent, served>>

Closed == pc = "closed" /\ UNCHANGED vars

Client ==
    \/ ConnectFails \/ Open \/ Read \/ DumpIso \/ DumpRead \/ DumpEnds \/ Drop
    \/ Receive \/ Eof \/ Closed

-----------------------------------------------------------------------------
(* The server and the network *)

\* How many of the sectors asked for the disc has.
Available(r) == IF r.pos + r.count <= DiscSectors THEN r.count
                ELSE IF r.pos < DiscSectors THEN DiscSectors - r.pos ELSE 0

\* An answer with all or some of the sectors or with more than were asked for,
\* from beyond the disc too, a failure without data, a payload that was cut
\* short, or an answer of a wrong type.
Answers(r) ==
    LET reply(type, result, has, data) ==
            [type |-> type, result |-> result, has |-> has, data |-> data, id |-> r.id]
        oks == CASE r.type = "open"  -> {reply("opened", 0, FALSE, <<>>)}
                 [] r.type = "close" -> {reply("closed", 0, FALSE, <<>>)}
                 [] r.type = "size"  -> {reply("size", DiscSectors, FALSE, <<>>)}
                 [] r.type = "read"  -> {reply("read", n, TRUE, Slice(r.pos, n)) :
                                              n \in (0..Available(r)) \cup (r.count + 1)..MaxBlock}
        bad == CASE r.type = "open"  -> {reply("opened", -1, FALSE, <<>>)}
                 [] r.type = "close" -> {reply("closed", -1, FALSE, <<>>)}
                 [] r.type = "size"  -> {reply("size", -1, FALSE, <<>>)}
                 [] r.type = "read"  -> {reply("read", -1, FALSE, <<>>)} \cup
                      (IF Available(r) > 0
                       THEN {reply("read", Available(r), TRUE, Tail(Slice(r.pos, Available(r))))}
                       ELSE {})
    IN  oks \cup bad \cup {reply("unspecified", 0, FALSE, <<>>)}

Server ==
    /\ up /\ ~silent /\ toServer # <<>>
    /\ \E m \in Answers(Head(toServer)) : toClient' = toClient \o Encode(m)
    /\ served' = Append(served, Head(toServer))
    /\ toServer' = Tail(toServer)
    /\ UNCHANGED <<pc, client, buffer, up, silent>>

\* The connection breaks: what was on its way is lost, or the end of it is.
Break ==
    /\ up /\ pc # "closed"
    /\ up' = FALSE
    /\ toServer' = <<>>
    /\ \E n \in 0..Len(toClient) : toClient' = SubSeq(toClient, 1, n)
    /\ UNCHANGED <<pc, client, buffer, silent, served>>

\* The server stops in the middle of a reply or between two, and nothing closes
\* the connection.
FallsSilent ==
    /\ up /\ ~silent
    /\ silent' = TRUE
    /\ \E n \in 0..Len(toClient) : toClient' = SubSeq(toClient, 1, n)
    /\ UNCHANGED <<pc, client, buffer, toServer, up, served>>

Next == Client \/ Server \/ Break \/ FallsSilent

\* The client's thread runs, and drops its reader in the end; the server
\* answers what it received, unless it has fallen silent.
Spec == Init /\ [][Next]_vars /\ WF_vars(Client) /\ WF_vars(Server)

-----------------------------------------------------------------------------
(* What a session promises *)

\* Although nothing in a reply says so, a read that succeeds returns the reply
\* to its own request, and it is whole sectors from the position asked for,
\* if not always as many (send_req 96-140, read_data 189-227).
ReadsItsOwnReply ==
    last.ok => /\ last.of = last.id
               /\ \E n \in 0..MaxBlock : last.data = Slice(last.pos, n)

\* Between two requests the stream is empty in both directions: no reply is
\* taken for complete before its terminator, at a zero inside it, so none
\* leaves bytes behind for the next request.
StreamInStep ==
    pc \in {"idle", "dump", "drop", "closed"} => toServer = <<>> /\ (up => toClient = <<>>)

\* The output file is at every step the first current_sector sectors of the
\* disc, with short and overlong reads, failures and a broken connection; what
\* is behind the disc's end came in one overlong block (dump_iso 276-316).
IsoIsPrefix == iso = Slice(0, current) /\ current < DiscSectors + MaxBlock

\* dump_iso returns Ok only with the whole disc in the file, also if the size
\* it was told was the -1 of a failure, read as a u32.
IsoOkMeansWhole == dump = "ok" => IsPrefix(DiscBytes, iso)

\* The server sees one open, first, and one close, last; a session that ends
\* over a standing connection has closed the disc, even when the open failed.
DiscIsClosed ==
    /\ \A i \in DOMAIN served : /\ served[i].type = "open" <=> i = 1
                                /\ served[i].type = "close" => i = Len(served)
    /\ pc = "closed" /\ up => Last(served).type = "close"

\* Whatever the chunks, the replies and the point where the connection breaks,
\* send_req's loop ends and the reader can be dropped.  The one thing that can
\* block it for ever is a server that falls silent over a standing connection:
\* no read timeout is set (net_reader.rs 100-107).
CallsReturn == []<>(pc # "wait" \/ (up /\ silent))

\* "A vector containing the raw sector data (sector_count * 2048 bytes)"
\* (src/sacd_reader/mod.rs 17-18).
ReadReturnsAll == last.ok => Len(last.data) = last.count * SectorSize

=============================================================================
