------------------------------ MODULE DsfWriter ------------------------------
(***************************************************************************)
(* DsfWriter (src/scarletbook/dsf.rs): the byte-interleaved samples of a   *)
(* track are dealt out to one buffer per channel, bit-reversed, and leave  *)
(* for the file one block per channel at a time.  The writer is a record,  *)
(* its methods are operators on it; TrackSequence drives them.             *)
(*                                                                         *)
(* A sample byte says which track, channel and position it comes from and  *)
(* in which bit order it stands; the zero padding byte is Pad.             *)
(***************************************************************************)
EXTENDS Naturals, Sequences, SequencesExt

CONSTANTS
    Channels,   \* channel_count
    Block       \* DSF_BLOCK_SIZE_PER_CHANNEL, in bytes

ASSUME WriterAssumption == Channels \in Nat \ {0} /\ Block \in Nat \ {0}

Chan == 1..Channels
Pad  == [track |-> 0, ch |-> 0, n |-> 0, order |-> "zero"]

\* reverse_bits is an involution: applied twice it undoes itself.
ReverseBits(b) ==
    [b EXCEPT !.order = IF @ = "msb" THEN "lsb" ELSE IF @ = "lsb" THEN "msb" ELSE @]

\* DsfWriter::create, then set_nopad.  data is the audio part of the file;
\* bytes_written is its length.
Create(nopad) ==
    [buffers |-> [c \in Chan |-> <<>>], pos |-> 0, decoded |-> 0, data |-> <<>>, nopad |-> nopad]

\* Mutant: the carried bytes are bit-reversed again.
PreLoadCarry_Reverses(w, tails) ==
    [w EXCEPT !.buffers = [c \in Chan |-> [i \in DOMAIN tails[c] |-> ReverseBits(tails[c][i])]],
              !.pos = Len(tails[1]) * Channels]

\* The carried tails are in file bit order already.
PreLoadCarry(w, tails) ==
    [w EXCEPT !.buffers = [c \in Chan |-> @[c] \o tails[c]], !.pos = Len(tails[1]) * Channels]

\* The first block of every channel that has a full one, in channel order.
FlushBlocks(w) ==
    LET full(c) == Len(w.buffers[c]) >= Block
        blocks  == [c \in Chan |-> IF full(c) THEN SubSeq(w.buffers[c], 1, Block) ELSE <<>>]
        rest    == [c \in Chan |-> IF full(c) THEN SubSeq(w.buffers[c], Block + 1, Len(w.buffers[c]))
                                   ELSE w.buffers[c]]
    IN  [w EXCEPT !.buffers = rest, !.data = @ \o FlattenSeq(blocks)]

WriteByte(w, b) ==
    LET c == (w.pos % Channels) + 1
        v == [w EXCEPT !.buffers[c] = Append(@, ReverseBits(b)), !.pos = @ + 1]
    IN  IF \A k \in Chan : Len(v.buffers[k]) >= Block THEN FlushBlocks(v) ELSE v

WriteSamples(w, bytes) ==
    FoldLeft(WriteByte, [w EXCEPT !.decoded = @ + Len(bytes)], bytes)

\* finalize: keep the partial blocks as a carry, or pad and write them.
HasPartial(w) == \E c \in Chan : w.buffers[c] # <<>>
KeepsCarry(w) == w.nopad /\ HasPartial(w)

\* Mutant: padding with the DSD silence pattern.
Padded_Silence(buffer) ==
    IF Len(buffer) < Block
    THEN buffer \o [i \in 1..(Block - Len(buffer)) |-> [Pad EXCEPT !.order = "msb"]]
    ELSE buffer

Padded(buffer) ==
    IF Len(buffer) < Block THEN buffer \o [i \in 1..(Block - Len(buffer)) |-> Pad] ELSE buffer

\* Mutant: nopad is not asked when the last block is padded.
Finished_AlwaysPads(w) ==
    IF HasPartial(w)
    THEN FlushBlocks([w EXCEPT !.buffers = [c \in Chan |-> Padded(@[c])]])
    ELSE w

Finished(w) ==
    IF HasPartial(w) /\ ~w.nopad
    THEN FlushBlocks([w EXCEPT !.buffers = [c \in Chan |-> Padded(@[c])]])
    ELSE w

\* Mutant: the count is taken from the padded data.
SampleCount_Padded(w) == (Len(Finished(w).data) \div Channels) * 8

\* The sample count patched into the fmt chunk.
SampleCount(w) ==
    ((IF KeepsCarry(w) THEN Len(w.data) ELSE w.decoded) \div Channels) * 8

=============================================================================
