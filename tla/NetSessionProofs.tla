--------------------------- MODULE NetSessionProofs ---------------------------
(***************************************************************************)
(* Proofs about NetSession, for every disc, block size, chunk size and     *)
(* number of calls.  The invariant says what is on the wire: nothing while *)
(* no request is outstanding, else the request itself or a prefix of one   *)
(* answer to it, part of it in the buffer.  That no proper prefix of an    *)
(* answer is complete keeps the two sides in step, and with them in step   *)
(* the file of a dump grows by the sectors behind its end.                 *)
(***************************************************************************)
EXTENDS NetSession, SequenceTheorems, TLAPS

DiscByte == 0..(DiscSectors * SectorSize)
Messages == [type : Replies, result : Int, has : BOOLEAN, data : Seq(DiscByte), id : Nat]
Bytes    == [msg : Messages, at : Nat]

\* s is a piece of the encoded message m, behind its first n bytes.
Piece(s, m, n) == \A i \in DOMAIN s : s[i] = [msg |-> m, at |-> n + i]

-----------------------------------------------------------------------------
(* Arithmetic *)

\* More sectors are not fewer bytes.
LEMMA ProductMonotone ==
    ASSUME NEW a \in Nat, NEW b \in Nat, a <= b
    PROVE  a * SectorSize \in Nat /\ b * SectorSize \in Nat /\ a * SectorSize <= b * SectorSize
BY SessionAssumption

\* A whole number of sectors is told from its bytes.
LEMMA DivProduct ==
    ASSUME NEW n \in Nat
    PROVE  (n * SectorSize) \div SectorSize = n
<1> DEFINE q == (n * SectorSize) \div SectorSize
           r == (n * SectorSize) % SectorSize
<1>0. SectorSize \in Nat /\ SectorSize > 0 /\ n * SectorSize \in Nat
  BY SessionAssumption
<1>1. q \in Int /\ r \in 0..(SectorSize - 1) /\ n * SectorSize = SectorSize * q + r
  BY <1>0
<1> HIDE DEF q, r
<1>2. ~(q + 1 <= n)
  BY <1>0, <1>1
<1>3. ~(n + 1 <= q)
  BY <1>0, <1>1
<1> QED
  BY <1>1, <1>2, <1>3 DEF q

\* A number below 2^32 survives the cast, and -1 becomes the largest one.
LEMMA NarrowU32 ==
    /\ \A n \in Nat : n < U32 => AsU32(n) = n
    /\ AsU32(-1) = U32 - 1
    /\ \A n \in Int : AsU32(n) \in 0..(U32 - 1)
BY SessionAssumption DEF AsU32

\* n sectors are n times SectorSize bytes.
LEMMA SliceType ==
    ASSUME NEW pos \in Nat, NEW n \in Nat
    PROVE  /\ Slice(pos, n) \in Seq(DiscByte)
           /\ Len(Slice(pos, n)) = n * SectorSize
           /\ n * SectorSize \in Nat
<1>1. n * SectorSize \in Nat /\ pos * SectorSize \in Nat /\ DiscSectors * SectorSize \in Nat
  BY SessionAssumption
<1>2. \A i \in 1..(n * SectorSize) :
         (IF pos * SectorSize + i \in DOMAIN DiscBytes THEN DiscBytes[pos * SectorSize + i] ELSE Beyond)
         \in DiscByte
  BY <1>1 DEF DiscBytes, DiscByte, Beyond
<1> QED
  BY <1>1, <1>2 DEF Slice

\* The sectors behind a slice continue it.
LEMMA SliceConcat ==
    ASSUME NEW c \in Nat, NEW n \in Nat
    PROVE  Slice(0, c) \o Slice(c, n) = Slice(0, c + n)
<1> DEFINE byte(b) == IF b \in DOMAIN DiscBytes THEN DiscBytes[b] ELSE Beyond
<1>1. /\ c * SectorSize \in Nat /\ n * SectorSize \in Nat
      /\ (c + n) * SectorSize = c * SectorSize + n * SectorSize
      /\ 0 * SectorSize = 0
  BY SessionAssumption
<1>2. /\ Slice(0, c) = [i \in 1..(c * SectorSize) |-> byte(i)]
      /\ Slice(c, n) = [i \in 1..(n * SectorSize) |-> byte(c * SectorSize + i)]
      /\ Slice(0, c + n) = [i \in 1..(c * SectorSize + n * SectorSize) |-> byte(i)]
  BY <1>1 DEF Slice
<1> HIDE DEF byte
<1>3. Slice(0, c) \in Seq(DiscByte) /\ Slice(c, n) \in Seq(DiscByte) /\ Slice(0, c + n) \in Seq(DiscByte)
  <2>1. c + n \in Nat /\ 0 \in Nat
    OBVIOUS
  <2> QED
    BY <2>1, SliceType
<1>4. /\ Len(Slice(0, c)) = c * SectorSize /\ Len(Slice(c, n)) = n * SectorSize
      /\ Len(Slice(0, c + n)) = c * SectorSize + n * SectorSize
  BY <1>1, SliceType
<1> DEFINE s == Slice(0, c) \o Slice(c, n)
<1>5. s \in Seq(DiscByte) /\ Len(s) = c * SectorSize + n * SectorSize
  BY <1>1, <1>3, <1>4
<1>6. \A i \in 1..Len(s) : s[i] = Slice(0, c + n)[i]
  <2> TAKE i \in 1..Len(s)
  <2>1. CASE i <= c * SectorSize
    <3>1. s[i] = Slice(0, c)[i]
      BY <1>1, <1>3, <1>4, <1>5, <2>1
    <3> QED
      BY <1>1, <1>2, <1>5, <2>1, <3>1
  <2>2. CASE i > c * SectorSize
    <3>1. s[i] = Slice(c, n)[i - c * SectorSize]
      <4>1. \A j \in 1..(Len(Slice(0, c)) + Len(Slice(c, n))) :
               j > Len(Slice(0, c)) => s[j] = Slice(c, n)[j - Len(Slice(0, c))]
        BY <1>3, ConcatProperties
      <4> QED
        BY <1>4, <1>5, <2>2, <4>1
    <3>2. i - c * SectorSize \in 1..(n * SectorSize)
      BY <1>1, <1>5, <2>2
    <3>3. c * SectorSize + (i - c * SectorSize) = i
      BY <1>1, <1>5
    <3> QED
      BY <1>1, <1>2, <1>5, <3>1, <3>2, <3>3
  <2> QED
    BY <1>1, <1>5, <2>1, <2>2
<1> HIDE DEF s
<1>7. s = Slice(0, c + n)
  BY <1>1, <1>3, <1>4, <1>5, <1>6, SeqEqual
<1> QED
  BY <1>7 DEF s

-----------------------------------------------------------------------------
(* The answers to a request *)

\* What the disc has of the sectors asked for.
LEMMA AvailableBounds ==
    ASSUME NEW r \in Requests
    PROVE  /\ Available(r) \in 0..r.count /\ Available(r) < U32
           /\ Available(r) > 0 => r.pos + Available(r) <= DiscSectors
<1>1. r.pos \in Nat /\ r.count \in Nat
  BY SessionAssumption DEF Requests
<1> QED
  BY <1>1, SessionAssumption DEF Available

\* An answer is a message that names its request and fits the buffer.
LEMMA AnswerType ==
    ASSUME NEW r \in Requests, NEW m \in Answers(r)
    PROVE  m \in Messages /\ m.id = r.id /\ Len(m.data) <= MaxBlock * SectorSize
<1>1. r.pos \in Nat /\ r.count \in 0..MaxBlock /\ r.id \in Nat
      /\ r.type \in {"open", "close", "read", "size"}
  BY SessionAssumption DEF Requests
<1>2. MaxBlock * SectorSize \in Nat /\ Len(<<>>) = 0 /\ <<>> \in Seq(DiscByte)
  BY SessionAssumption
<1>4. ASSUME NEW n \in 0..MaxBlock
      PROVE  Slice(r.pos, n) \in Seq(DiscByte) /\ Len(Slice(r.pos, n)) <= MaxBlock * SectorSize
  <2>1. n \in Nat /\ MaxBlock \in Nat /\ n <= MaxBlock
    BY SessionAssumption
  <2>2. n * SectorSize <= MaxBlock * SectorSize
    BY <2>1, ProductMonotone
  <2>3. Slice(r.pos, n) \in Seq(DiscByte) /\ Len(Slice(r.pos, n)) = n * SectorSize
    BY <1>1, <2>1, SliceType
  <2> QED
    BY <2>2, <2>3
<1>5. ASSUME NEW n \in (0..Available(r)) \cup (r.count + 1)..MaxBlock,
             m = [type |-> "read", result |-> n, has |-> TRUE, data |-> Slice(r.pos, n), id |-> r.id]
      PROVE  m \in Messages /\ m.id = r.id /\ Len(m.data) <= MaxBlock * SectorSize
  <2>1. n \in 0..MaxBlock
    BY <1>1, AvailableBounds, SessionAssumption
  <2>2. Slice(r.pos, n) \in Seq(DiscByte) /\ Len(Slice(r.pos, n)) <= MaxBlock * SectorSize
    BY <1>4, <2>1
  <2> QED
    BY <1>1, <1>5, <2>1, <2>2 DEF Messages, Replies
<1>6. ASSUME Available(r) > 0,
             m = [type |-> "read", result |-> Available(r), has |-> TRUE,
                  data |-> Tail(Slice(r.pos, Available(r))), id |-> r.id]
      PROVE  m \in Messages /\ m.id = r.id /\ Len(m.data) <= MaxBlock * SectorSize
  <2> DEFINE a == Available(r)
             s == Slice(r.pos, a)
  <2>1. a \in 0..MaxBlock /\ a > 0
    BY <1>1, <1>6, AvailableBounds, SessionAssumption
  <2>2. s \in Seq(DiscByte) /\ Len(s) <= MaxBlock * SectorSize /\ Len(s) = a * SectorSize
    <3>1. a \in Nat
      BY <2>1
    <3> QED
      BY <1>1, <1>4, <2>1, <3>1, SliceType
  <2>3. a * SectorSize > 0
    BY <2>1, SessionAssumption
  <2> HIDE DEF a, s
  <2>4. Tail(s) \in Seq(DiscByte) /\ Len(Tail(s)) <= MaxBlock * SectorSize
    BY <1>2, <2>2, <2>3
  <2>5. a \in Int
    BY <2>1
  <2> QED
    BY <1>1, <1>6, <2>4, <2>5 DEF Messages, Replies, a, s
<1>7. \/ \E type \in Replies, result \in {0, -1, DiscSectors} :
           m = [type |-> type, result |-> result, has |-> FALSE, data |-> <<>>, id |-> r.id]
      \/ \E n \in (0..Available(r)) \cup (r.count + 1)..MaxBlock :
           m = [type |-> "read", result |-> n, has |-> TRUE, data |-> Slice(r.pos, n), id |-> r.id]
      \/ /\ Available(r) > 0
         /\ m = [type |-> "read", result |-> Available(r), has |-> TRUE,
                 data |-> Tail(Slice(r.pos, Available(r))), id |-> r.id]
  BY <1>1 DEF Answers, Replies
<1>8. ASSUME NEW type \in Replies, NEW result \in {0, -1, DiscSectors},
             m = [type |-> type, result |-> result, has |-> FALSE, data |-> <<>>, id |-> r.id]
      PROVE  m \in Messages /\ m.id = r.id /\ Len(m.data) <= MaxBlock * SectorSize
  <2>1. result \in Int
    BY SessionAssumption
  <2> QED
    BY <1>1, <1>2, <1>8, <2>1 DEF Messages
<1> QED
  BY <1>5, <1>6, <1>7, <1>8

\* A payload read_data accepts is whole sectors from the position asked for: as
\* many as the disc has, or more than were asked for.
LEMMA ReadableAnswer ==
    ASSUME NEW r \in Requests, NEW m \in Answers(r), r.type = "read", Readable(m)
    PROVE  \E n \in 0..MaxBlock : m.data = Slice(r.pos, n) /\ (n <= Available(r) \/ n > r.count)
<1>1. r.pos \in Nat /\ r.count \in 0..MaxBlock
  BY SessionAssumption DEF Requests
<1>2. \/ m.has = FALSE
      \/ \E n \in (0..Available(r)) \cup (r.count + 1)..MaxBlock : m.data = Slice(r.pos, n)
      \/ /\ Available(r) > 0 /\ m.result = Available(r)
         /\ m.data = Tail(Slice(r.pos, Available(r)))
  BY DEF Answers
<1>3. m.has # FALSE
  BY DEF Readable
<1>4. ASSUME Available(r) > 0, m.result = Available(r), m.data = Tail(Slice(r.pos, Available(r)))
      PROVE  FALSE
  <2> DEFINE a == Available(r)
             s == Slice(r.pos, a)
  <2>1. a \in Nat /\ a > 0 /\ AsU32(a) = a
    BY <1>1, <1>4, AvailableBounds, NarrowU32
  <2>2. s \in Seq(DiscByte) /\ Len(s) = a * SectorSize
    BY <1>1, <2>1, SliceType
  <2>3. a * SectorSize \in Nat /\ a * SectorSize > 0
    BY <2>1, SessionAssumption
  <2>4. Len(m.data) = a * SectorSize
    BY <1>4, <2>1 DEF Readable
  <2> HIDE DEF a, s
  <2>5. Len(Tail(s)) = a * SectorSize - 1
    BY <2>2, <2>3
  <2>6. m.data = Tail(s)
    BY <1>4 DEF a, s
  <2> QED
    BY <2>3, <2>4, <2>5, <2>6
<1>5. ASSUME NEW n \in (0..Available(r)) \cup (r.count + 1)..MaxBlock, m.data = Slice(r.pos, n)
      PROVE  \E k \in 0..MaxBlock : m.data = Slice(r.pos, k) /\ (k <= Available(r) \/ k > r.count)
  <2>1. n \in 0..MaxBlock /\ (n <= Available(r) \/ n > r.count)
    BY <1>1, AvailableBounds, SessionAssumption
  <2> QED
    BY <1>5, <2>1
<1> QED
  BY <1>2, <1>3, <1>4, <1>5

\* The size the server tells is the disc's, or a failure's -1.
LEMMA SizeAnswer ==
    ASSUME NEW r \in Requests, NEW m \in Answers(r), r.type = "size", m.type = "size"
    PROVE  AsU32(m.result) \in {DiscSectors, U32 - 1}
<1>1. m.result \in {DiscSectors, -1}
  BY DEF Answers
<1> QED
  BY <1>1, NarrowU32, SessionAssumption

-----------------------------------------------------------------------------
(* A reply in the buffer *)

\* No proper prefix of a reply is complete, and a complete one decodes to the
\* message that was sent.
LEMMA OnlyWholeIsComplete ==
    ASSUME NEW m \in Messages, NEW s \in Seq(Bytes), s # <<>>,
           Len(s) <= Size(m) + 1, Piece(s, m, 0), Complete(s)
    PROVE  Len(s) = Size(m) + 1 /\ Decoded(Front(s)) = m
<1>1. /\ m.has \in BOOLEAN /\ Len(m.data) \in Nat /\ Size(m) \in Nat
      /\ Size(m) = IF m.has THEN 6 + Len(m.data) ELSE 4
      /\ m.data = <<>> <=> Len(m.data) = 0
  BY DEF Messages, Size
<1>2. Len(s) \in Nat /\ Len(s) > 0
  OBVIOUS
<1>3. s[Len(s)] = [msg |-> m, at |-> Len(s)]
  BY <1>2 DEF Piece
<1>4. Len(Front(s)) = Len(s) - 1 /\ \A i \in 1..(Len(s) - 1) : Front(s)[i] = s[i]
  <2> DEFINE n == Len(s) - 1
  <2>1. n \in Nat /\ n <= Len(s)
    BY <1>2
  <2> HIDE DEF n
  <2>2. Len(SubSeq(s, 1, n)) = n /\ \A i \in 1..n : SubSeq(s, 1, n)[i] = s[i]
    BY <2>1
  <2> QED
    BY <2>2 DEF Front, n
<1>5. Front(s) # <<>> => Len(s) > 1 /\ Front(s)[1] = [msg |-> m, at |-> 1]
  BY <1>2, <1>4 DEF Piece
<1>6. IsZero([msg |-> m, at |-> Len(s)])
  BY <1>3 DEF Complete, Last
<1>7. Len(s) = 4 \/ Len(s) = 6 \/ Len(s) > 6 \/ Len(s) = Size(m) + 1
  BY <1>6 DEF IsZero
<1>8. Front(s) # <<>>
  BY <1>1, <1>4, <1>7
<1>9. Len(s) - 1 \in {0, 2, 4, Size(m)}
  BY <1>4, <1>5, <1>8 DEF Complete, Decodes, FieldEnds
<1>10. Len(s) = Size(m) + 1
  <2> DEFINE k == Len(s)
             z == Size(m)
  <2>1. k \in Nat /\ z \in Nat /\ (z = 4 \/ z >= 6)
    BY <1>1, <1>2
  <2>2. k = 4 \/ k = 6 \/ k > 6 \/ k = z + 1
    BY <1>7
  <2>3. k - 1 \in {0, 2, 4, z}
    BY <1>9
  <2> HIDE DEF k, z
  <2>4. k = z + 1
    BY <2>1, <2>2, <2>3
  <2> QED
    BY <2>4 DEF k, z
<1>11. Front(s)[1].msg = m /\ Len(Front(s)) = Size(m) /\ Size(m) >= 4
  BY <1>1, <1>4, <1>5, <1>8, <1>10
<1>12. Decoded(Front(s)) = [NoReply EXCEPT !.type = m.type, !.id = m.id, !.result = m.result,
                                           !.has = m.has, !.data = m.data]
  BY <1>1, <1>8, <1>11 DEF Decoded
<1>13. m = [NoReply EXCEPT !.type = m.type, !.id = m.id, !.result = m.result,
                           !.has = m.has, !.data = m.data]
  BY DEF Messages, NoReply
<1> QED
  BY <1>10, <1>12, <1>13

-----------------------------------------------------------------------------
(* The inductive invariant *)

Typed ==
    /\ pc \in {"connect", "idle", "dump", "wait", "drop", "closed"}
    /\ op \in {"none", "open", "read", "dumpSize", "dumpRead", "close"}
    /\ req \in Requests
    /\ toServer \in Seq(Requests) /\ served \in Seq(Requests)
    /\ up \in BOOLEAN /\ silent \in BOOLEAN /\ calls \in 0..MaxCalls
    /\ last \in [ok : BOOLEAN, data : Seq(DiscByte), pos : 0..U32,
                 count : 0..MaxBlock, id : Nat, of : Nat]
    /\ dump \in {"no", "running", "ok", "err"}
    /\ total \in 0..(U32 - 1) /\ current \in 0..(U32 - 1)
    /\ iso \in Seq(DiscByte)

\* What has arrived of m, and behind it what is still on its way.
OnWire(m, b, t) == Piece(b, m, 0) /\ Piece(t, m, Len(b)) /\ Len(b) + Len(t) <= Size(m) + 1

\* Nothing is on the wire but the request at hand or a prefix of an answer to it.
Stream ==
    /\ buffer \in Seq(Bytes) /\ toClient \in Seq(Bytes)
    /\ pc # "wait" => toServer = <<>> /\ buffer = <<>> /\ toClient = <<>>
    /\ toServer # <<>> => up /\ toServer = <<req>> /\ buffer = <<>> /\ toClient = <<>>
    /\ pc = "wait" /\ toServer = <<>> => \E m \in Answers(req) : OnWire(m, buffer, toClient)

\* The request at hand is the one its caller made.
Asked ==
    /\ op \in {"open", "read", "close"} => req.type = op
    /\ op = "dumpSize" => req.type = "size"
    /\ op = "dumpRead" => req.type = "read"
    /\ pc = "wait" => op # "none"

Block == IF total - current < MaxBlock THEN total - current ELSE MaxBlock

\* The file is the sectors before current; only the last block may go beyond the
\* disc, and then the dump is over.
Dumping ==
    /\ pc = "wait" /\ op \in {"dumpSize", "dumpRead"} => dump = "running"
    /\ pc = "dump" => dump = "running"
    /\ dump = "no" \/ (pc = "wait" /\ op = "dumpSize") => current = 0
    /\ pc = "dump" \/ (pc = "wait" /\ op = "dumpRead") => total \in {DiscSectors, U32 - 1}
    /\ pc = "wait" /\ op = "dumpRead" => current < total /\ req.pos = current /\ req.count = Block
    /\ iso = Slice(0, current)
    /\ current <= DiscSectors \/ (total = DiscSectors /\ current < DiscSectors + MaxBlock)
    /\ dump = "ok" => current >= DiscSectors

\* What the server has seen, from the one open to the one close.
Seen ==
    /\ \A i \in DOMAIN served : /\ served[i].type = "open" <=> i = 1
                                /\ served[i].type = "close" => /\ i = Len(served)
                                                               /\ op = "close" /\ toServer = <<>>
                                                               /\ pc \in {"wait", "closed"}
    /\ pc = "connect" => served = <<>>
    /\ toServer # <<>> => (op = "open" <=> served = <<>>)
    /\ up /\ toServer = <<>> /\ pc # "connect" => served # <<>>
    /\ pc = "closed" /\ up => op = "close"
    /\ up /\ op = "close" /\ pc \in {"wait", "closed"} /\ toServer = <<>> =>
          Last(served).type = "close"

IInv == Typed /\ Stream /\ Asked /\ Dumping /\ Seen /\ ReadsItsOwnReply

\* The invariant holds before the connection is made.
LEMMA IInvInit == Init => IInv
<1> SUFFICES ASSUME Init PROVE IInv
  OBVIOUS
<1> USE SessionAssumption
<1>1. Typed
  <2>1. /\ 0 \in 0..(U32 - 1) /\ 0 \in 0..U32 /\ 0 \in 0..MaxBlock /\ 0 \in 0..MaxCalls
        /\ <<>> \in Seq(DiscByte) /\ <<>> \in Seq(Requests)
    OBVIOUS
  <2>2. req \in Requests
    BY <2>1 DEF Init, Requests
  <2>3. last \in [ok : BOOLEAN, data : Seq(DiscByte), pos : 0..U32,
                 count : 0..MaxBlock, id : Nat, of : Nat]
    BY <2>1 DEF Init, NoRead
  <2> QED
    BY <2>1, <2>2, <2>3 DEF Init, Typed
<1>2. Stream /\ Asked /\ Seen /\ ReadsItsOwnReply
  BY DEF Init, Stream, Asked, Seen, ReadsItsOwnReply, NoRead
<1>3. Slice(0, 0) = <<>>
  <2>1. Slice(0, 0) \in Seq(DiscByte) /\ Len(Slice(0, 0)) = 0 * SectorSize /\ 0 * SectorSize = 0
    BY SliceType
  <2> QED
    BY <2>1
<1>4. Dumping
  BY <1>3 DEF Init, Dumping
<1> QED
  BY <1>1, <1>2, <1>4 DEF IInv

-----------------------------------------------------------------------------
(* Receiving *)

\* A read() leaves a longer prefix of the answer in the buffer, or the answer is
\* whole and nothing of it stays behind; it is never longer than max_size.
LEMMA ReceiveEffect ==
    ASSUME Typed, Stream, Asked, Receive
    PROVE  /\ pc = "wait" /\ toServer = <<>> /\ UNCHANGED <<toServer, up, silent, served>>
           /\ \/ /\ UNCHANGED <<pc, client>>
                 /\ buffer' \in Seq(Bytes) /\ toClient' \in Seq(Bytes)
                 /\ \E m \in Answers(req) : OnWire(m, buffer', toClient')
              \/ /\ buffer' = <<>> /\ toClient' = <<>>
                 /\ \E m \in Answers(req) : Answer(m)
<1>1. /\ pc = "wait" /\ toServer = <<>> /\ UNCHANGED <<toServer, up, silent, served>>
      /\ toClient # <<>> /\ buffer \in Seq(Bytes) /\ toClient \in Seq(Bytes)
  BY DEF Receive, Stream
<1>2. PICK m \in Answers(req) : OnWire(m, buffer, toClient)
  BY <1>1 DEF Stream
<1>3. PICK n \in 1..ChunkSize :
         /\ n <= Len(toClient)
         /\ toClient' = SubSeq(toClient, n + 1, Len(toClient))
         /\ LET bytes == buffer \o SubSeq(toClient, 1, n)
            IN  IF Complete(bytes)
                THEN Answer(Decoded(Front(bytes))) /\ buffer' = <<>>
                ELSE IF Len(bytes) > MaxSize
                THEN CallFails /\ buffer' = <<>>
                ELSE buffer' = bytes /\ UNCHANGED <<pc, client>>
  BY DEF Receive
<1> DEFINE head == SubSeq(toClient, 1, n)
           bytes == buffer \o head
<1>4. /\ m \in Messages /\ Len(m.data) <= MaxBlock * SectorSize /\ Len(m.data) \in Nat
  BY AnswerType DEF Typed, Messages
<1>5. n \in Nat /\ n >= 1 /\ Len(buffer) \in Nat /\ Len(toClient) \in Nat /\ n <= Len(toClient)
  BY <1>1, <1>3, SessionAssumption
<1>6. head \in Seq(Bytes) /\ Len(head) = n /\ \A i \in 1..n : head[i] = toClient[i]
  BY <1>1, <1>5
<1>7. /\ toClient' \in Seq(Bytes) /\ Len(toClient') = Len(toClient) - n
      /\ \A i \in 1..(Len(toClient) - n) : toClient'[i] = toClient[n + i]
  BY <1>1, <1>3, <1>5
<1> HIDE DEF head
<1>8. bytes \in Seq(Bytes) /\ Len(bytes) = Len(buffer) + n
      /\ \A i \in 1..(Len(buffer) + n) :
            bytes[i] = IF i <= Len(buffer) THEN buffer[i] ELSE head[i - Len(buffer)]
  BY <1>1, <1>6, ConcatProperties
<1> HIDE DEF bytes
<1>9. Piece(bytes, m, 0)
  <2> SUFFICES ASSUME NEW i \in 1..(Len(buffer) + n) PROVE bytes[i] = [msg |-> m, at |-> i]
    BY <1>5, <1>8 DEF Piece
  <2>1. CASE i <= Len(buffer)
    BY <1>1, <1>2, <1>5, <1>8, <2>1 DEF OnWire, Piece
  <2>2. CASE i > Len(buffer)
    <3>1. i - Len(buffer) \in 1..n /\ Len(buffer) + (i - Len(buffer)) = i
      BY <1>5, <2>2
    <3>2. bytes[i] = toClient[i - Len(buffer)]
      BY <1>5, <1>6, <1>8, <2>2, <3>1
    <3>3. i - Len(buffer) \in DOMAIN toClient
      BY <1>1, <1>5, <3>1
    <3> QED
      BY <1>2, <3>1, <3>2, <3>3 DEF OnWire, Piece
  <2> QED
    BY <1>5, <2>1, <2>2
<1>10. Piece(toClient', m, Len(bytes))
  <2> SUFFICES ASSUME NEW i \in 1..(Len(toClient) - n)
               PROVE  toClient'[i] = [msg |-> m, at |-> Len(bytes) + i]
    BY <1>5, <1>7 DEF Piece
  <2>1. n + i \in DOMAIN toClient /\ toClient'[i] = toClient[n + i]
    BY <1>1, <1>5, <1>7
  <2>2. Len(buffer) + (n + i) = Len(bytes) + i
    BY <1>5, <1>8
  <2> QED
    BY <1>2, <2>1, <2>2 DEF OnWire, Piece
<1>11. Size(m) \in Nat /\ Size(m) + 1 <= MaxSize
  <2>1. Size(m) = 4 \/ Size(m) = 6 + Len(m.data)
    BY DEF Size
  <2>2. MaxBlock * SectorSize \in Nat
    BY SessionAssumption
  <2> QED
    BY <1>4, <2>1, <2>2, SessionAssumption
<1>12. Len(bytes) + Len(toClient') <= Size(m) + 1 /\ Len(bytes) <= MaxSize
       /\ Len(bytes) <= Size(m) + 1 /\ bytes # <<>>
  BY <1>2, <1>5, <1>7, <1>8, <1>11, SessionAssumption DEF OnWire
<1>13. CASE Complete(bytes)
  <2>1. Len(bytes) = Size(m) + 1 /\ Decoded(Front(bytes)) = m
    BY <1>4, <1>8, <1>9, <1>12, <1>13, OnlyWholeIsComplete
  <2>2. Answer(m) /\ buffer' = <<>>
    BY <1>3, <1>13, <2>1 DEF bytes, head
  <2>3. toClient' = <<>>
    BY <1>5, <1>7, <1>11, <1>12, <2>1
  <2> QED
    BY <1>1, <2>2, <2>3
<1>14. CASE ~Complete(bytes)
  <2>1. buffer' = bytes /\ UNCHANGED <<pc, client>>
    <3>1. ~(Len(bytes) > MaxSize)
      BY <1>5, <1>8, <1>12, SessionAssumption
    <3> QED
      BY <1>3, <1>14, <3>1 DEF bytes, head
  <2>2. OnWire(m, buffer', toClient')
    BY <1>9, <1>10, <1>12, <2>1 DEF OnWire
  <2> QED
    BY <1>1, <1>7, <1>8, <2>1, <2>2
<1> QED
  BY <1>13, <1>14

\* What an answer does, by the request it answers.
LEMMA AnswerEffect ==
    ASSUME Typed, Asked, pc = "wait", NEW m, Answer(m)
    PROVE  \/ op = "open" /\ pc' = "idle" /\ UNCHANGED client
           \/ op = "read" /\ Readable(m) /\ ReadReturns(m)
           \/ op = "dumpSize" /\ m.type = "size" /\ SizeReturns(m)
           \/ op = "dumpRead" /\ Readable(m) /\ BlockReturns(m)
           \/ op = "close" /\ pc' = "closed" /\ UNCHANGED client
           \/ CallFails
<1>1. op \in {"open", "read", "dumpSize", "dumpRead", "close"}
  BY DEF Typed, Asked
<1>2. CASE op = "open"
  BY <1>2 DEF Answer
<1>3. CASE op = "read"
  BY <1>3 DEF Answer
<1>4. CASE op = "dumpSize"
  BY <1>4 DEF Answer
<1>5. CASE op = "dumpRead"
  BY <1>5 DEF Answer
<1>6. CASE op = "close"
  BY <1>6 DEF Answer
<1> QED
  BY <1>1, <1>2, <1>3, <1>4, <1>5, <1>6

-----------------------------------------------------------------------------
(* The steps of the client *)

\* A request goes out on an empty wire, or is lost with the connection.
LEMMA SendKeeps ==
    ASSUME Typed, Stream, Seen, pc # "wait", NEW what, NEW r \in Requests, Send(what, r),
           UNCHANGED <<toClient, up, silent, served>>,
           up => (what = "open" <=> served = <<>>),
           \A i \in DOMAIN served : served[i].type # "close"
    PROVE  Stream' /\ Seen'
<1>1. pc' = "wait" /\ op' = what /\ req' = r /\ buffer' = <<>> /\ toClient' = <<>>
  BY DEF Send, Stream
<1>2. toServer' = IF up THEN <<r>> ELSE <<>>
  BY DEF Send, Stream
<1>3. Stream'
  <2>1. PICK m : m \in Answers(r)
    BY DEF Answers
  <2>2. m \in Messages
    BY <2>1, AnswerType
  <2>3. Size(m) \in Nat
    BY <2>2 DEF Size, Messages
  <2>4. OnWire(m, <<>>, <<>>)
    BY <2>3 DEF OnWire, Piece
  <2>5. <<>> \in Seq(Bytes)
    OBVIOUS
  <2> QED
    BY <1>1, <1>2, <2>1, <2>4, <2>5 DEF Stream
<1>4. Seen'
  BY <1>1, <1>2 DEF Seen
<1> QED
  BY <1>3, <1>4

\* Connecting and asking keep the invariant.
LEMMA RequestsKeep ==
    ASSUME IInv, Open \/ Read \/ DumpIso \/ DumpRead \/ Drop
    PROVE  IInv'
<1> USE SessionAssumption
<1>1. Typed /\ Stream /\ Asked /\ Dumping /\ Seen /\ ReadsItsOwnReply
  BY DEF IInv
<1>2. req.id + 1 \in Nat
  BY <1>1 DEF Typed, Requests
<1>3. ASSUME NEW type \in {"open", "close", "read", "size"}, NEW pos \in 0..U32, NEW n \in 0..MaxBlock
      PROVE  /\ Request(type, pos, n) \in Requests
             /\ Request(type, pos, n).type = type /\ Request(type, pos, n).pos = pos
             /\ Request(type, pos, n).count = n
  BY <1>2 DEF Request, Requests
<1>4. CASE Open
  <2> DEFINE r == Request("open", 0, 0)
  <2>1. r \in Requests /\ r.type = "open"
    BY <1>3
  <2>2. Send("open", r) /\ pc = "connect"
        /\ UNCHANGED <<toClient, up, silent, calls, last, dump, total, current, iso, served>>
    BY <1>4 DEF Open
  <2> HIDE DEF r
  <2>3. Stream' /\ Seen'
    BY <1>1, <2>1, <2>2, SendKeeps DEF Seen
  <2>4. op' = "open" /\ req' = r /\ pc' = "wait"
    BY <2>2 DEF Send
  <2>5. toServer' \in Seq(Requests)
    BY <1>1, <2>1, <2>2 DEF Send, Typed
  <2> QED
    BY <1>1, <2>1, <2>2, <2>3, <2>4, <2>5 DEF IInv, Typed, Asked, Dumping, ReadsItsOwnReply
<1>5. CASE Drop
  <2> DEFINE r == Request("close", 0, 0)
  <2>1. r \in Requests /\ r.type = "close"
    BY <1>3
  <2>2. Send("close", r) /\ pc \in {"idle", "drop"}
        /\ UNCHANGED <<toClient, up, silent, calls, last, dump, total, current, iso, served>>
    BY <1>5 DEF Drop
  <2> HIDE DEF r
  <2>3. Stream' /\ Seen'
    BY <1>1, <2>1, <2>2, SendKeeps DEF Seen, Stream
  <2>4. op' = "close" /\ req' = r /\ pc' = "wait"
    BY <2>2 DEF Send
  <2>5. toServer' \in Seq(Requests)
    BY <1>1, <2>1, <2>2 DEF Send, Typed
  <2> QED
    BY <1>1, <2>1, <2>2, <2>3, <2>4, <2>5 DEF IInv, Typed, Asked, Dumping, ReadsItsOwnReply
<1>6. CASE Read
  <2>1. PICK pos \in 0..(DiscSectors - 1), n \in 1..MaxBlock : Send("read", Request("read", pos, n))
    BY <1>6 DEF Read
  <2> DEFINE r == Request("read", pos, n)
  <2>2. pos \in 0..U32 /\ n \in 0..MaxBlock
    OBVIOUS
  <2>3. r \in Requests /\ r.type = "read"
    BY <1>3, <2>2
  <2>4. /\ Send("read", r) /\ pc = "idle" /\ calls' \in 0..MaxCalls /\ last' = NoRead
        /\ UNCHANGED <<toClient, up, silent, dump, total, current, iso, served>>
    BY <1>1, <1>6, <2>1 DEF Read, Typed
  <2> HIDE DEF r
  <2>5. Stream' /\ Seen'
    BY <1>1, <2>3, <2>4, SendKeeps DEF Seen, Stream
  <2>6. op' = "read" /\ req' = r /\ pc' = "wait"
    BY <2>4 DEF Send
  <2>7. toServer' \in Seq(Requests)
    BY <1>1, <2>3, <2>4 DEF Send, Typed
  <2>8. ReadsItsOwnReply' /\ last' \in [ok : BOOLEAN, data : Seq(DiscByte), pos : 0..U32,
                                        count : 0..MaxBlock, id : Nat, of : Nat]
    <3>1. 0 \in 0..U32 /\ 0 \in 0..MaxBlock /\ <<>> \in Seq(DiscByte)
      OBVIOUS
    <3> QED
      BY <2>4, <3>1 DEF NoRead, ReadsItsOwnReply
  <2>9. Dumping'
    BY <1>1, <2>4, <2>6 DEF Dumping
  <2> QED
    BY <1>1, <2>3, <2>4, <2>5, <2>6, <2>7, <2>8, <2>9 DEF IInv, Typed, Asked
<1>7. CASE DumpIso
  <2> DEFINE r == Request("size", 0, 0)
  <2>1. r \in Requests /\ r.type = "size"
    BY <1>3
  <2>2. Send("dumpSize", r) /\ pc = "idle" /\ dump = "no" /\ dump' = "running"
        /\ UNCHANGED <<toClient, up, silent, calls, last, total, current, iso, served>>
    BY <1>7 DEF DumpIso
  <2> HIDE DEF r
  <2>3. Stream' /\ Seen'
    BY <1>1, <2>1, <2>2, SendKeeps DEF Seen, Stream
  <2>4. op' = "dumpSize" /\ req' = r /\ pc' = "wait"
    BY <2>2 DEF Send
  <2>5. toServer' \in Seq(Requests)
    BY <1>1, <2>1, <2>2 DEF Send, Typed
  <2> QED
    BY <1>1, <2>1, <2>2, <2>3, <2>4, <2>5 DEF IInv, Typed, Asked, Dumping, ReadsItsOwnReply
<1>8. CASE DumpRead
  <2> DEFINE r == Request("read", current, Block)
  <2>1. current \in 0..U32 /\ total \in Nat /\ current \in Nat /\ current < total
    BY <1>1, <1>8 DEF Typed, DumpRead
  <2>2. Block \in 0..MaxBlock
    BY <2>1 DEF Block
  <2>3. r \in Requests /\ r.type = "read" /\ r.pos = current /\ r.count = Block
    BY <1>3, <2>1, <2>2
  <2>4. Send("dumpRead", r) /\ pc = "dump"
        /\ UNCHANGED <<toClient, up, silent, calls, last, dump, total, current, iso, served>>
    BY <1>8 DEF DumpRead, Block
  <2> HIDE DEF r
  <2>5. Stream' /\ Seen'
    BY <1>1, <2>3, <2>4, SendKeeps DEF Seen, Stream
  <2>6. op' = "dumpRead" /\ req' = r /\ pc' = "wait" /\ Block' = Block
    BY <2>4 DEF Send, Block
  <2>7. toServer' \in Seq(Requests)
    BY <1>1, <2>3, <2>4 DEF Send, Typed
  <2>8. Dumping'
    BY <1>1, <2>1, <2>3, <2>4, <2>6 DEF Dumping
  <2> QED
    BY <1>1, <2>3, <2>4, <2>5, <2>6, <2>7, <2>8 DEF IInv, Typed, Asked, ReadsItsOwnReply
<1> QED
  BY <1>4, <1>5, <1>6, <1>7, <1>8

\* A call that returns leaves nothing on the wire.
LEMMA ReturnKeeps ==
    ASSUME IInv, toServer = <<>>, UNCHANGED <<toServer, up, silent, served, op, req>>,
           buffer' = <<>>, toClient' = <<>>, pc = "wait",
           pc' \in {"idle", "dump", "drop", "closed"},
           pc' = "closed" <=> op = "close"
    PROVE  Stream' /\ Asked' /\ Seen'
<1>1. Typed /\ Stream /\ Asked /\ Seen
  BY DEF IInv
<1>2. Stream' /\ Asked'
  <2>1. <<>> \in Seq(Bytes)
    OBVIOUS
  <2> QED
    BY <1>1, <2>1 DEF Stream, Asked
<1> QED
  BY <1>1, <1>2 DEF Seen

\* A call that fails, for whatever reason.
LEMMA FailureKeeps ==
    ASSUME IInv, pc = "wait", toServer = <<>>, UNCHANGED <<toServer, up, silent, served>>,
           buffer' = <<>>, toClient' = <<>>, CallFails
    PROVE  IInv'
<1>1. Typed /\ Stream /\ Asked /\ Dumping /\ Seen /\ ReadsItsOwnReply
  BY DEF IInv
<1>2. UNCHANGED <<op, req, calls, last, total, current, iso>>
  BY DEF CallFails
<1>3. /\ op = "open" => pc' = "drop"
      /\ op = "close" => pc' = "closed"
      /\ op \notin {"open", "close"} => pc' = "idle"
      /\ dump' = IF op \in {"dumpSize", "dumpRead"} THEN "err" ELSE dump
  BY DEF CallFails
<1>4. Stream' /\ Asked' /\ Seen'
  BY <1>2, <1>3, ReturnKeeps
<1>5. Typed'
  BY <1>1, <1>2, <1>3 DEF Typed
<1>6. Dumping' /\ ReadsItsOwnReply'
  BY <1>1, <1>2, <1>3 DEF Dumping, ReadsItsOwnReply
<1> QED
  BY <1>4, <1>5, <1>6 DEF IInv

\* The answer to a read returns the sectors that were asked for.
LEMMA ReadKeeps ==
    ASSUME IInv, pc = "wait", toServer = <<>>, UNCHANGED <<toServer, up, silent, served>>,
           buffer' = <<>>, toClient' = <<>>, op = "read",
           NEW m \in Answers(req), Readable(m), ReadReturns(m)
    PROVE  IInv'
<1>1. Typed /\ Stream /\ Asked /\ Dumping /\ Seen /\ ReadsItsOwnReply
  BY DEF IInv
<1>2. pc' = "idle" /\ UNCHANGED <<op, req, calls, dump, total, current, iso>>
      /\ last' = [ok |-> TRUE, data |-> m.data, pos |-> req.pos, count |-> req.count,
                  id |-> req.id, of |-> m.id]
  BY DEF ReadReturns
<1>3. req \in Requests /\ req.type = "read"
  BY <1>1 DEF Typed, Asked
<1>4. m \in Messages /\ m.id = req.id
  BY <1>3, AnswerType
<1>5. \E n \in 0..MaxBlock : m.data = Slice(req.pos, n)
  BY <1>3, ReadableAnswer
<1>6. Stream' /\ Asked' /\ Seen'
  BY <1>2, ReturnKeeps
<1>7. last' \in [ok : BOOLEAN, data : Seq(DiscByte), pos : 0..U32, count : 0..MaxBlock,
                id : Nat, of : Nat]
  BY <1>2, <1>3, <1>4 DEF Requests, Messages
<1>8. Typed'
  BY <1>1, <1>2, <1>7 DEF Typed
<1>9. ReadsItsOwnReply'
  BY <1>2, <1>4, <1>5 DEF ReadsItsOwnReply
<1>10. Dumping'
  BY <1>1, <1>2 DEF Dumping
<1> QED
  BY <1>6, <1>8, <1>9, <1>10 DEF IInv

\* The size is the disc's, or 2^32 - 1 for a failure nobody looked at.
LEMMA SizeKeeps ==
    ASSUME IInv, pc = "wait", toServer = <<>>, UNCHANGED <<toServer, up, silent, served>>,
           buffer' = <<>>, toClient' = <<>>, op = "dumpSize",
           NEW m \in Answers(req), m.type = "size", SizeReturns(m)
    PROVE  IInv'
<1>1. Typed /\ Stream /\ Asked /\ Dumping /\ Seen /\ ReadsItsOwnReply
  BY DEF IInv
<1>2. /\ total' = AsU32(m.result) /\ UNCHANGED <<op, req, calls, last, current, iso>>
      /\ (pc' = "dump" /\ dump' = dump) \/ (pc' = "idle" /\ dump' = "err")
  BY DEF SizeReturns
<1>3. total' \in {DiscSectors, U32 - 1} /\ total' \in 0..(U32 - 1)
  BY <1>1, <1>2, SizeAnswer, SessionAssumption DEF Typed, Asked
<1>4. Stream' /\ Asked' /\ Seen'
  BY <1>2, ReturnKeeps
<1>5. Typed'
  BY <1>1, <1>2, <1>3 DEF Typed
<1>6. Dumping' /\ ReadsItsOwnReply'
  BY <1>1, <1>2, <1>3, SessionAssumption DEF Dumping, ReadsItsOwnReply
<1> QED
  BY <1>4, <1>5, <1>6 DEF IInv

\* A block continues the file where it ends.
LEMMA BlockKeeps ==
    ASSUME IInv, pc = "wait", toServer = <<>>, UNCHANGED <<toServer, up, silent, served>>,
           buffer' = <<>>, toClient' = <<>>, op = "dumpRead",
           NEW m \in Answers(req), Readable(m), BlockReturns(m)
    PROVE  IInv'
<1>1. Typed /\ Stream /\ Asked /\ Dumping /\ Seen /\ ReadsItsOwnReply
  BY DEF IInv
<1>2. CASE CallFails
  BY <1>2, FailureKeeps
<1>3. CASE ~CallFails
  <2>1. /\ SectorsIn(m) > 0 /\ iso' = iso \o m.data /\ current' = AsU32(current + SectorsIn(m))
        /\ pc' = "dump" /\ UNCHANGED <<op, req, calls, last, dump, total>>
    BY <1>3 DEF BlockReturns
  <2>2. /\ req \in Requests /\ req.type = "read" /\ req.pos = current /\ req.count = Block
        /\ current < total /\ total \in {DiscSectors, U32 - 1}
        /\ current \in Nat /\ total \in Nat
    BY <1>1 DEF Typed, Asked, Dumping
  <2>3. PICK n \in 0..MaxBlock : m.data = Slice(current, n) /\ (n <= Available(req) \/ n > req.count)
    BY <2>2, ReadableAnswer
  <2>4. n \in Nat /\ SectorsIn(m) = n
    <3>1. n \in Nat
      BY SessionAssumption
    <3> QED
      BY <2>2, <2>3, <3>1, SliceType, DivProduct DEF SectorsIn
  <2>5. n > 0 /\ n <= MaxBlock
    BY <2>1, <2>3, <2>4, SessionAssumption
  <2>6. current <= DiscSectors
    BY <1>1, <2>2, SessionAssumption DEF Dumping
  <2>7. \/ current + n <= DiscSectors
        \/ total = DiscSectors /\ current + n < DiscSectors + MaxBlock
    <3>1. CASE n <= Available(req)
      <4>1. Available(req) \in 0..Block /\ (Available(req) > 0 => current + Available(req) <= DiscSectors)
        BY <2>2, AvailableBounds
      <4>2. Block \in Nat
        BY <2>2, SessionAssumption DEF Block
      <4> QED
        BY <2>2, <2>4, <2>5, <3>1, <4>1, <4>2, SessionAssumption
    <3>2. CASE n > req.count
      <4>1. Block < MaxBlock
        BY <2>2, <2>4, <2>5, <3>2, SessionAssumption DEF Block
      <4>2. total - current < MaxBlock
        BY <2>2, <4>1, SessionAssumption DEF Block
      <4>3. total = DiscSectors
        BY <2>2, <2>6, <4>2, SessionAssumption
      <4> QED
        BY <2>2, <2>4, <2>5, <4>3, SessionAssumption
    <3> QED
      BY <2>3, <3>1, <3>2
  <2>8. current' = current + n /\ current' \in 0..(U32 - 1)
    <3>1. current + n \in Nat /\ current + n < U32
      BY <2>2, <2>4, <2>7, SessionAssumption
    <3> QED
      BY <2>1, <2>4, <3>1, NarrowU32, SessionAssumption
  <2>9. iso' = Slice(0, current') /\ iso' \in Seq(DiscByte)
    <3>1. iso' = Slice(0, current) \o Slice(current, n)
      BY <1>1, <2>1, <2>3 DEF Dumping
    <3>2. iso' = Slice(0, current + n)
      BY <2>2, <2>4, <3>1, SliceConcat
    <3>3. current + n \in Nat /\ 0 \in Nat
      BY <2>2, <2>4
    <3> QED
      BY <2>8, <3>2, <3>3, SliceType
  <2>10. Stream' /\ Asked' /\ Seen'
    BY <2>1, ReturnKeeps
  <2>11. Typed'
    BY <1>1, <2>1, <2>8, <2>9 DEF Typed
  <2>12. ReadsItsOwnReply'
    BY <1>1, <2>1 DEF ReadsItsOwnReply
  <2>13. dump' = "running"
    BY <1>1, <2>1 DEF Dumping
  <2>14. Dumping'
    BY <2>1, <2>2, <2>7, <2>8, <2>9, <2>13 DEF Dumping
  <2> QED
    BY <2>10, <2>11, <2>12, <2>14 DEF IInv
<1> QED
  BY <1>2, <1>3

\* Receiving keeps the invariant, whatever the chunk.
LEMMA ReceiveKeeps ==
    ASSUME IInv, Receive
    PROVE  IInv'
<1>1. Typed /\ Stream /\ Asked /\ Dumping /\ Seen /\ ReadsItsOwnReply
  BY DEF IInv
<1>2. pc = "wait" /\ toServer = <<>> /\ UNCHANGED <<toServer, up, silent, served>>
  BY <1>1, ReceiveEffect
<1>3. CASE /\ UNCHANGED <<pc, client>>
           /\ buffer' \in Seq(Bytes) /\ toClient' \in Seq(Bytes)
           /\ \E m \in Answers(req) : OnWire(m, buffer', toClient')
  <2>1. Stream'
    BY <1>2, <1>3 DEF Stream, client
  <2> QED
    BY <1>1, <1>2, <1>3, <2>1
       DEF IInv, Typed, Asked, Dumping, Block, Seen, ReadsItsOwnReply, client
<1>4. ASSUME buffer' = <<>>, toClient' = <<>>, NEW m \in Answers(req), Answer(m)
      PROVE  IInv'
  <2>1. CASE op = "open" /\ pc' = "idle" /\ UNCHANGED client
    <3>1. Stream' /\ Asked' /\ Seen'
      BY <1>2, <1>4, <2>1, ReturnKeeps DEF client
    <3> QED
      BY <1>1, <1>2, <2>1, <3>1 DEF IInv, Typed, Dumping, ReadsItsOwnReply, client
  <2>2. CASE op = "close" /\ pc' = "closed" /\ UNCHANGED client
    <3>1. Stream' /\ Asked' /\ Seen'
      BY <1>2, <1>4, <2>2, ReturnKeeps DEF client
    <3> QED
      BY <1>1, <1>2, <2>2, <3>1 DEF IInv, Typed, Dumping, ReadsItsOwnReply, client
  <2>3. CASE op = "read" /\ Readable(m) /\ ReadReturns(m)
    BY <1>2, <1>4, <2>3, ReadKeeps
  <2>4. CASE op = "dumpSize" /\ m.type = "size" /\ SizeReturns(m)
    BY <1>2, <1>4, <2>4, SizeKeeps
  <2>5. CASE op = "dumpRead" /\ Readable(m) /\ BlockReturns(m)
    BY <1>2, <1>4, <2>5, BlockKeeps
  <2>6. CASE CallFails
    BY <1>2, <1>4, <2>6, FailureKeeps
  <2> QED
    BY <1>1, <1>2, <1>4, <2>1, <2>2, <2>3, <2>4, <2>5, <2>6, AnswerEffect
<1> QED
  BY <1>1, <1>3, <1>4, ReceiveEffect

\* A broken connection makes the call at hand fail.
LEMMA EofKeeps ==
    ASSUME IInv, Eof
    PROVE  IInv'
<1>1. pc = "wait" /\ toServer = <<>>
  BY DEF IInv, Stream, Eof
<1>2. UNCHANGED <<toServer, up, silent, served>> /\ buffer' = <<>> /\ toClient' = <<>> /\ CallFails
  BY DEF Eof
<1> QED
  BY <1>1, <1>2, FailureKeeps

\* The other steps of the client leave the wire alone.
LEMMA OthersKeep ==
    ASSUME IInv, ConnectFails \/ DumpEnds \/ Closed
    PROVE  IInv'
<1>1. Typed /\ Stream /\ Asked /\ Dumping /\ Seen /\ ReadsItsOwnReply
  BY DEF IInv
<1>2. CASE ConnectFails
  <2>1. pc = "connect" /\ pc' = "closed" /\ up' = FALSE
        /\ UNCHANGED <<op, req, calls, last, dump, total, current, iso, buffer, toServer, toClient,
                       silent, served>>
    BY <1>2 DEF ConnectFails, client
  <2>2. Typed' /\ Stream' /\ Asked'
    BY <1>1, <2>1 DEF Typed, Stream, Asked
  <2>3. served = <<>> /\ toServer = <<>>
    BY <1>1, <2>1 DEF Stream, Seen
  <2>4. Seen'
    BY <2>1, <2>3 DEF Seen
  <2>5. Dumping' /\ ReadsItsOwnReply'
    BY <1>1, <2>1 DEF Dumping, ReadsItsOwnReply
  <2> QED
    BY <2>2, <2>4, <2>5 DEF IInv
<1>3. CASE DumpEnds
  <2>1. /\ pc = "dump" /\ current >= total /\ pc' = "idle" /\ dump' \in {"ok", "err"}
        /\ UNCHANGED <<op, req, calls, last, total, current, iso, buffer, toServer, toClient, up,
                       silent, served>>
    BY <1>3 DEF DumpEnds
  <2>2. current >= DiscSectors
    BY <1>1, <2>1, SessionAssumption DEF Dumping, Typed
  <2> QED
    BY <1>1, <2>1, <2>2 DEF IInv, Typed, Stream, Asked, Dumping, Seen, ReadsItsOwnReply
<1>4. CASE Closed
  <2>1. UNCHANGED vars
    BY <1>4 DEF Closed
  <2> QED
    BY <1>1, <2>1 DEF IInv, Typed, Stream, Asked, Dumping, Block, Seen, ReadsItsOwnReply,
                      vars, client
<1> QED
  BY <1>2, <1>3, <1>4

-----------------------------------------------------------------------------
(* The steps of the server and the network *)

\* The encoding of an answer is the answer on the wire, from its first byte.
LEMMA EncodeOnWire ==
    ASSUME NEW m \in Messages
    PROVE  Encode(m) \in Seq(Bytes) /\ OnWire(m, <<>>, Encode(m))
<1>1. Size(m) \in Nat
  BY DEF Size, Messages
<1>2. Encode(m) \in Seq(Bytes) /\ Len(Encode(m)) = Size(m) + 1
  <2>1. \A i \in 1..(Size(m) + 1) : [msg |-> m, at |-> i] \in Bytes
    BY <1>1 DEF Bytes
  <2> QED
    BY <1>1, <2>1 DEF Encode
<1>3. \A i \in DOMAIN Encode(m) : Encode(m)[i] = [msg |-> m, at |-> 0 + i]
  BY <1>1 DEF Encode
<1> QED
  BY <1>1, <1>2, <1>3 DEF OnWire, Piece

\* The server answers the one request there is.
LEMMA ServerKeeps ==
    ASSUME IInv, Server
    PROVE  IInv'
<1>1. Typed /\ Stream /\ Asked /\ Dumping /\ Seen /\ ReadsItsOwnReply
  BY DEF IInv
<1>2. /\ toServer = <<req>> /\ pc = "wait" /\ buffer = <<>> /\ toClient = <<>> /\ req \in Requests
  BY <1>1 DEF Server, Stream, Typed
<1>3. PICK m \in Answers(req) : toClient' = toClient \o Encode(m)
  BY <1>2 DEF Server
<1>4. /\ toServer' = <<>> /\ served' = Append(served, req)
      /\ UNCHANGED <<pc, op, req, calls, last, dump, total, current, iso, buffer, up, silent>>
  BY <1>2 DEF Server, client
<1>5. toClient' = Encode(m) /\ toClient' \in Seq(Bytes) /\ OnWire(m, buffer', toClient')
  <2>1. Encode(m) \in Seq(Bytes) /\ OnWire(m, <<>>, Encode(m))
    BY <1>2, AnswerType, EncodeOnWire
  <2>2. <<>> \o Encode(m) = Encode(m)
    BY <2>1
  <2> QED
    BY <1>2, <1>3, <1>4, <2>1, <2>2
<1>6. Stream'
  BY <1>1, <1>2, <1>4, <1>5 DEF Stream
<1>7. /\ served' \in Seq(Requests) /\ Len(served') = Len(served) + 1 /\ Len(served) \in Nat
      /\ served'[Len(served')] = req
      /\ \A i \in 1..Len(served) : served'[i] = served[i]
  BY <1>1, <1>2, <1>4 DEF Typed
<1>8. served' # <<>> /\ Last(served') = req
  BY <1>7 DEF Last
<1>9. \A i \in DOMAIN served' : (i \in DOMAIN served /\ served'[i] = served[i])
                              \/ (i = Len(served') /\ served'[i] = req)
  <2>1. DOMAIN served = 1..Len(served) /\ DOMAIN served' = 1..Len(served')
    BY <1>1, <1>7 DEF Typed
  <2> QED
    BY <1>7, <2>1
<1>10. (req.type = "open" <=> op = "open") /\ (req.type = "close" <=> op = "close")
  BY <1>1, <1>2 DEF Asked, Typed
<1>11. (op = "open" <=> Len(served') = 1) /\ \A i \in DOMAIN served : served[i].type # "close"
  <2>1. op = "open" <=> served = <<>>
    BY <1>1, <1>2 DEF Seen
  <2>2. served = <<>> <=> Len(served) = 0
    BY <1>1 DEF Typed
  <2> QED
    BY <1>1, <1>2, <1>7, <2>1, <2>2 DEF Seen
<1>12. Seen'
  <2>1. ASSUME NEW i \in DOMAIN served'
        PROVE  /\ served'[i].type = "open" <=> i = 1
               /\ served'[i].type = "close" => i = Len(served') /\ op = "close"
    BY <1>1, <1>9, <1>10, <1>11, <2>1 DEF Seen
  <2> QED
    BY <1>2, <1>4, <1>8, <1>10, <2>1 DEF Seen
<1>13. Typed' /\ Asked' /\ Dumping' /\ ReadsItsOwnReply'
  <2>1. toServer' \in Seq(Requests)
    BY <1>4
  <2> QED
    BY <1>1, <1>4, <1>7, <2>1 DEF Typed, Asked, Dumping, Block, ReadsItsOwnReply
<1> QED
  BY <1>6, <1>12, <1>13 DEF IInv

\* What is left of an answer is the beginning of it.
LEMMA CutKeepsWire ==
    ASSUME Stream, NEW n \in 0..Len(toClient)
    PROVE  LET cut == SubSeq(toClient, 1, n)
           IN  /\ cut \in Seq(Bytes)
               /\ toClient = <<>> => cut = <<>>
               /\ \A m \in Messages : OnWire(m, buffer, toClient) => OnWire(m, buffer, cut)
<1> DEFINE cut == SubSeq(toClient, 1, n)
<1>1. toClient \in Seq(Bytes) /\ Len(toClient) \in Nat /\ n \in Nat /\ n <= Len(toClient)
  BY DEF Stream
<1>2. cut \in Seq(Bytes) /\ Len(cut) = n /\ \A i \in 1..n : cut[i] = toClient[i]
  BY <1>1
<1> HIDE DEF cut
<1>3. toClient = <<>> => cut = <<>>
  BY <1>1, <1>2
<1>4. ASSUME NEW m \in Messages, OnWire(m, buffer, toClient) PROVE OnWire(m, buffer, cut)
  <2>1. Piece(cut, m, Len(buffer))
    BY <1>1, <1>2, <1>4 DEF OnWire, Piece
  <2>2. Len(buffer) \in Nat /\ Size(m) \in Nat
    BY DEF Stream, Size, Messages
  <2> QED
    BY <1>1, <1>2, <1>4, <2>1, <2>2 DEF OnWire
<1> QED
  BY <1>2, <1>3, <1>4 DEF cut

\* A connection that breaks, and a server that stops in the middle of a reply.
LEMMA CutKeeps ==
    ASSUME IInv, Break \/ FallsSilent
    PROVE  IInv'
<1>1. Typed /\ Stream /\ Asked /\ Dumping /\ Seen /\ ReadsItsOwnReply
  BY DEF IInv
<1>2. PICK n \in 0..Len(toClient) : toClient' = SubSeq(toClient, 1, n)
  BY DEF Break, FallsSilent
<1>3. /\ toClient' \in Seq(Bytes)
      /\ toClient = <<>> => toClient' = <<>>
      /\ \A m \in Messages : OnWire(m, buffer, toClient) => OnWire(m, buffer, toClient')
  BY <1>1, <1>2, CutKeepsWire
<1>4. UNCHANGED <<pc, op, req, calls, last, dump, total, current, iso, buffer, served>>
  BY DEF Break, FallsSilent, client
<1>5. \A m \in Answers(req) : m \in Messages
  BY <1>1, AnswerType DEF Typed
<1>6. Typed' /\ Asked' /\ Dumping' /\ ReadsItsOwnReply'
  <2>1. up' \in BOOLEAN /\ silent' \in BOOLEAN /\ toServer' \in Seq(Requests)
    <3>1. CASE Break
      <4>1. up' = FALSE /\ silent' = silent /\ toServer' = <<>>
        BY <3>1 DEF Break
      <4> QED
        BY <1>1, <4>1, EmptySeq, Zenon DEF Typed
    <3>2. CASE FallsSilent
      BY <1>1, <3>2 DEF FallsSilent, Typed
    <3> QED
      BY <3>1, <3>2
  <2> QED
    BY <1>1, <1>4, <2>1 DEF Typed, Asked, Dumping, Block, ReadsItsOwnReply
<1>7. CASE Break
  <2>1. up /\ ~up' /\ toServer' = <<>> /\ pc # "closed"
    BY <1>7 DEF Break
  <2>2. Stream'
    <3>1. CASE toServer = <<>>
      BY <1>1, <1>3, <1>4, <1>5, <2>1, <3>1 DEF Stream
    <3>2. CASE toServer # <<>>
      <4>1. toClient' = <<>> /\ buffer = <<>>
        BY <1>1, <1>3, <3>2 DEF Stream
      <4>2. PICK m : m \in Answers(req)
        BY DEF Answers
      <4>3. OnWire(m, <<>>, <<>>)
        <5>1. Size(m) \in Nat
          BY <1>5, <4>2 DEF Size, Messages
        <5> QED
          BY <5>1 DEF OnWire, Piece
      <4> QED
        BY <1>1, <1>3, <1>4, <2>1, <4>1, <4>2, <4>3 DEF Stream
    <3> QED
      BY <3>1, <3>2
  <2>3. Seen'
    BY <1>1, <1>4, <2>1 DEF Seen
  <2> QED
    BY <1>6, <2>2, <2>3 DEF IInv
<1>8. CASE FallsSilent
  <2>1. UNCHANGED <<up, toServer>>
    BY <1>8 DEF FallsSilent
  <2>2. Stream'
    BY <1>1, <1>3, <1>4, <1>5, <2>1 DEF Stream
  <2>3. Seen'
    BY <1>1, <1>4, <2>1 DEF Seen
  <2> QED
    BY <1>6, <2>2, <2>3 DEF IInv
<1> QED
  BY <1>7, <1>8

\* The inductive invariant survives every step.
LEMMA IInvNext == IInv /\ [Next]_vars => IInv'
<1> SUFFICES ASSUME IInv, [Next]_vars PROVE IInv'
  OBVIOUS
<1>1. CASE UNCHANGED vars
  BY <1>1 DEF IInv, Typed, Stream, Asked, Dumping, Block, Seen, ReadsItsOwnReply, vars, client
<1>2. CASE Client
  BY <1>2, RequestsKeep, ReceiveKeeps, EofKeeps, OthersKeep DEF Client
<1> QED
  BY <1>1, <1>2, ServerKeeps, CutKeeps DEF Next

-----------------------------------------------------------------------------
(* What a session promises *)

\* The inductive invariant holds in every reachable state, however the replies are
\* cut into chunks and wherever the connection breaks (net_reader.rs 82-316).
THEOREM Invariance == Spec => []IInv
BY IInvInit, IInvNext, PTL DEF Spec

\* Every state is well typed; no byte in the buffer is behind max_size.
THEOREM TypeCorrect == Spec => []TypeOK
<1>1. IInv => TypeOK
  <2> SUFFICES ASSUME Typed, Stream PROVE TypeOK
    BY DEF IInv
  <2>1. ASSUME NEW m \in Answers(req), OnWire(m, buffer, toClient)
        PROVE  /\ \A i \in DOMAIN buffer : buffer[i].at \in 1..(MaxSize + ChunkSize)
               /\ \A i \in DOMAIN toClient : toClient[i].at \in 1..(MaxSize + ChunkSize)
    <3>1. m \in Messages /\ Len(m.data) <= MaxBlock * SectorSize /\ Len(m.data) \in Nat
      BY <2>1, AnswerType DEF Typed, Messages
    <3>2. Size(m) \in Nat /\ Size(m) + 1 <= MaxSize
      <4>1. Size(m) = 4 \/ Size(m) = 6 + Len(m.data)
        BY DEF Size
      <4>2. MaxBlock * SectorSize \in Nat
        BY SessionAssumption
      <4> QED
        BY <3>1, <4>1, <4>2, SessionAssumption
    <3>3. Len(buffer) \in Nat /\ Len(toClient) \in Nat
          /\ DOMAIN buffer = 1..Len(buffer) /\ DOMAIN toClient = 1..Len(toClient)
      BY DEF Stream
    <3>4. /\ \A i \in DOMAIN buffer : buffer[i].at = i
          /\ \A i \in DOMAIN toClient : toClient[i].at = Len(buffer) + i
          /\ Len(buffer) + Len(toClient) <= MaxSize
      BY <2>1, <3>2, <3>3, SessionAssumption DEF OnWire, Piece
    <3> QED
      BY <3>3, <3>4, SessionAssumption
  <2>2. /\ \A i \in DOMAIN buffer : buffer[i].at \in 1..(MaxSize + ChunkSize)
        /\ \A i \in DOMAIN toClient : toClient[i].at \in 1..(MaxSize + ChunkSize)
    BY <2>1 DEF Stream
  <2>3. /\ \A i \in DOMAIN buffer : buffer[i].msg.type \in Replies
        /\ \A i \in DOMAIN toClient : toClient[i].msg.type \in Replies
    <3>1. ASSUME NEW s \in Seq(Bytes), NEW i \in DOMAIN s PROVE s[i].msg.type \in Replies
      <4>1. s[i] \in Bytes
        OBVIOUS
      <4> QED
        BY <4>1 DEF Bytes, Messages
    <3> QED
      BY <3>1 DEF Stream
  <2> QED
    BY <2>2, <2>3 DEF TypeOK, Typed, DiscByte
<1> QED
  BY <1>1, Invariance, PTL

\* A read that succeeds has the reply to its own request, whole sectors from the
\* position asked for.
THEOREM OwnReply == Spec => []ReadsItsOwnReply
<1>1. IInv => ReadsItsOwnReply
  BY DEF IInv
<1> QED
  BY <1>1, Invariance, PTL

\* Between two requests nothing is on the wire in either direction.
THEOREM InStep == Spec => []StreamInStep
<1>1. IInv => StreamInStep
  BY DEF IInv, Stream, StreamInStep
<1> QED
  BY <1>1, Invariance, PTL

\* The output file is the first sectors of the disc at every step.
THEOREM DumpIsPrefix == Spec => []IsoIsPrefix
<1>1. IInv => IsoIsPrefix
  BY SessionAssumption DEF IInv, Dumping, Typed, IsoIsPrefix
<1> QED
  BY <1>1, Invariance, PTL

\* A dump that returns Ok has the whole disc in the file.
THEOREM DumpOkIsWhole == Spec => []IsoOkMeansWhole
<1>1. IInv => IsoOkMeansWhole
  <2> SUFFICES ASSUME Typed, Dumping, dump = "ok" PROVE IsPrefix(DiscBytes, iso)
    BY DEF IInv, IsoOkMeansWhole
  <2>1. iso = Slice(0, current) /\ current \in Nat /\ DiscSectors \in Nat /\ DiscSectors <= current
    BY SessionAssumption DEF Dumping, Typed
  <2> DEFINE D == DiscSectors * SectorSize
             C == current * SectorSize
  <2>2. D \in Nat /\ C \in Nat /\ D <= C /\ 0 * SectorSize = 0
    BY <2>1, ProductMonotone, SessionAssumption
  <2>3. iso \in Seq(DiscByte) /\ Len(iso) = C
    BY <2>1, SliceType
  <2>4. DiscBytes = [i \in 1..D |-> i]
    BY DEF DiscBytes
  <2>5. iso = [i \in 1..C |-> IF i \in 1..D THEN i ELSE Beyond]
    BY <2>1, <2>2, <2>4 DEF Slice
  <2> HIDE DEF D, C
  <2>6. DiscBytes \in Seq(Nat) /\ Len(DiscBytes) = D
    BY <2>2, <2>4
  <2>7. SubSeq(DiscBytes, 1, D) = [i \in 1..D |-> i]
    BY <2>2, <2>4, <2>6
  <2>8. SubSeq(iso, 1, D) = [i \in 1..D |-> i]
    BY <2>2, <2>3, <2>5
  <2> QED
    BY <2>2, <2>3, <2>6, <2>7, <2>8 DEF IsPrefix
<1> QED
  BY <1>1, Invariance, PTL

\* The server sees the open first and the close last.
THEOREM ClosedDisc == Spec => []DiscIsClosed
<1>1. IInv => DiscIsClosed
  <2>1. IInv /\ pc = "closed" => toServer = <<>>
    BY DEF IInv, Stream
  <2> QED
    BY <2>1 DEF IInv, Seen, DiscIsClosed
<1> QED
  BY <1>1, Invariance, PTL

=============================================================================
