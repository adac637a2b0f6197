------------------------------ MODULE TocReader ------------------------------
(***************************************************************************)
(* Opening a disc: scarletbook::reader::new reads the master TOC, the      *)
(* master text and two copies of each area's TOC, and AreaToc::from_bytes  *)
(* looks for the track tables in whatever sectors the read delivered.      *)
(*                                                                         *)
(* A TOC copy is known by what its sectors begin with.  Sector 0 is the    *)
(* header; it says how long the TOC is, and the master TOC says so too.    *)
(***************************************************************************)
EXTENDS Naturals, Sequences, FiniteSets, FiniteSetsExt

CONSTANTS
    Discs,      \* the discs that may be in the drive
    MaxExtra    \* bound: sectors an answer of the server has too many

ASSUME DiscsAssumption ==
    /\ MaxExtra \in Nat
    /\ \A d \in Discs : \A a \in 1..2 :
      /\ d[a].tocSize \in Nat \ {0}
      /\ \A k \in 1..2 : LET c == d[a].copies[k]
                         IN  c.size \in Nat \ {0} /\ c.text \in 0..Len(c.sectors)
                             /\ \/ Len(c.sectors) + 1 >= c.size
                                \/ Len(c.sectors) + 1 >= d[a].tocSize + MaxExtra

VARIABLES
    disc,       \* the disc in the drive
    source,     \* what the SacdReader reads it from: "iso" image, "net" server
    pc,         \* "master", "text", "toc", "open", "failed", "panicked"
    at,         \* area and copy to be read next
    parsed,     \* what was made of each copy: <<>>, or <<toc>>
    toc,        \* stereo_toc and mch_toc: <<>>, or <<toc>>
    whole       \* history: the copies that were delivered in full

readerVars == <<disc, source, pc, at, parsed, toc, whole>>

Areas  == 1..2      \* 1: stereo, 2: multichannel
Copies == 1..2
Tables == {"trl1", "trl2", "igl"}

\* The track tables an AreaToc holds; the rest of it follows from the disc.
Tocs     == [size : Nat, tables : SUBSET Tables]

ReaderTypeOK ==
    /\ disc \in Discs /\ source \in {"iso", "net"} /\ at \in Areas \X Copies
    /\ pc \in {"master", "text", "toc", "open", "failed", "panicked"}
    /\ \A a \in Areas : /\ toc[a] = <<>> \/ (Len(toc[a]) = 1 /\ toc[a][1] \in Tocs)
                        /\ whole[a] \in [Copies -> BOOLEAN]
                        /\ \A k \in Copies : parsed[a][k] = <<>> \/ parsed[a][k][1] \in Tocs

ReaderInit ==
    /\ disc \in Discs /\ source \in {"iso", "net"}
    /\ pc = "master" /\ at = <<1, 1>>
    /\ parsed = [a \in Areas |-> [k \in Copies |-> <<>>]]
    /\ toc = [a \in Areas |-> <<>>]
    /\ whole = [a \in Areas |-> [k \in Copies |-> FALSE]]

-----------------------------------------------------------------------------
(* AreaToc::from_bytes on the first n sectors of copy c *)

\* The sectors searched for a table: `while offset + 8 <= end_offset`.
Searched(c, n) == 1..(Min({n, c.size}) - 1)

Found(c, table, n) == \E s \in Searched(c, n) : c.sectors[s] = table

\* Mutant: `<=` counts the sector that begins at the declared end.
SearchPanics_AtEnd(c, table, n) == c.size >= n /\ ~Found(c, table, n)

\* The search goes by the header's size and slices the data beyond its end.
SearchPanics(c, table, n) == c.size > n /\ ~Found(c, table, n)

TextUnreadable(c, n) == c.text > 0 /\ (c.text >= n \/ c.sectors[c.text] # "text")

HeaderUnreadable(c, n) == n = 0 \/ ~c.signed

\* ISRC codes and genres take two sectors; reading the second may hit the end.
IglCut(c, n) ==
    Found(c, "igl", n)
    /\ Min({s \in Searched(c, n) : c.sectors[s] = "igl"}) + 1 >= n

Rejected(c, n) == HeaderUnreadable(c, n) \/ TextUnreadable(c, n)

\* The tables are searched in this order, the first error ends the parse.
ParsePanics(c, n) ==
    /\ ~Rejected(c, n)
    /\ \/ SearchPanics(c, "trl2", n)
       \/ SearchPanics(c, "igl", n)
       \/ SearchPanics(c, "trl1", n) /\ ~IglCut(c, n)

FromBytes(c, n) ==
    IF Rejected(c, n) \/ IglCut(c, n) THEN <<>>
    ELSE <<[size |-> c.size, tables |-> {t \in Tables : Found(c, t, n)}]>>

-----------------------------------------------------------------------------
(* scarletbook::reader::new *)

\* The read fails, or the bytes are not a master TOC.
ReadMasterToc ==
    /\ pc = "master"
    /\ pc' \in {"text", "failed"}
    /\ UNCHANGED <<disc, source, at, parsed, toc, whole>>

\* read_master_text returns an Option: whatever happens, opening goes on.
ReadMasterText ==
    /\ pc = "text"
    /\ pc' = "toc"
    /\ UNCHANGED <<disc, source, at, parsed, toc, whole>>

\* IsoReader::read_blocks seeks and reads exactly n sectors, or fails.
IsoDelivers(n) == {0, n}

\* NetReader::read_data returns as many sectors as the server sent, be they
\* fewer or more than asked for, and from_bytes gets all of them.
NetDelivers(n) == 0..(n + MaxExtra)

\* The sectors a read_data of a copy may deliver, 0 also for a read that fails.
Delivered(a, k) ==
    IF ~disc[a].listed[k] THEN {0}
    ELSE IF source = "iso" THEN IsoDelivers(disc[a].tocSize) ELSE NetDelivers(disc[a].tocSize)

\* Mutant: the first copy wins whenever the two differ, unreadable or not.
Choose_First(copy) == IF copy[1] = copy[2] THEN copy[2] ELSE copy[1]

\* The backup is used when it can be parsed, whether or not it differs.
Choose(copy) == IF copy[2] # <<>> THEN copy[2] ELSE copy[1]

ReadTocCopy ==
    /\ pc = "toc"
    /\ LET a == at[1]
           k == at[2]
           c == disc[a].copies[k]
       IN  \E n \in Delivered(a, k) :
             /\ ~ParsePanics(c, n)
             /\ parsed' = [parsed EXCEPT ![a][k] = FromBytes(c, n)]
             /\ whole' = [whole EXCEPT ![a][k] = (n >= disc[a].tocSize)]
             /\ IF k = 1
                THEN at' = <<a, 2>> /\ UNCHANGED <<pc, toc>>
                ELSE /\ toc' = [toc EXCEPT ![a] = Choose(parsed'[a])]
                     /\ at' = IF a = 1 THEN <<2, 1>> ELSE at
                     /\ pc' = IF a = 1 THEN "toc" ELSE "open"
    /\ UNCHANGED <<disc, source>>

TocPanics ==
    /\ pc = "toc"
    /\ \E n \in Delivered(at[1], at[2]) :
         /\ ParsePanics(disc[at[1]].copies[at[2]], n)
         /\ whole' = [whole EXCEPT ![at[1]][at[2]] = (n >= disc[at[1]].tocSize)]
    /\ pc' = "panicked"
    /\ UNCHANGED <<disc, source, at, parsed, toc>>

ReaderNext == ReadMasterToc \/ ReadMasterText \/ ReadTocCopy \/ TocPanics

-----------------------------------------------------------------------------
(* What opening promises *)

\* Signed, no longer than the master TOC says, with its text and every table in
\* place.
Intact(a, c) ==
    /\ c.signed /\ c.size <= disc[a].tocSize
    /\ c.text > 0 => c.text < disc[a].tocSize /\ c.sectors[c.text] = "text"
    /\ \A t \in Tables : \E s \in 1..(c.size - 1) :
         c.sectors[s] = t /\ (t = "igl" => s + 1 < c.size)

\* An intact copy that was delivered in full is enough, whichever of the two it
\* is, when the other yields nothing: unreadable, damaged in its header or its
\* text, cut short by the network or not listed at all.  And an area is missing
\* only if neither copy could be parsed (reader.rs 398-506).
IntactCopySuffices ==
    pc = "open" => \A a \in Areas :
      /\ toc[a] = <<>> => parsed[a] = [k \in Copies |-> <<>>]
      /\ \A k \in Copies :
           (Intact(a, disc[a].copies[k]) /\ whole[a][k] /\ parsed[a][3 - k] = <<>>)
             => toc[a] # <<>> /\ toc[a][1].tables = Tables

\* A search that finds nothing runs to the end the header gives: it stays
\* inside the data of a full or overlong read unless the header claims more
\* sectors than the master TOC (area_toc.rs 475-509, 534-561, 573-592).  An image delivers
\* nothing short, so with one the header is to blame.
WholeReadsNeverPanic ==
    pc = "panicked" => \/ ~whole[at[1]][at[2]] /\ source = "net"
                       \/ disc[at[1]].copies[at[2]].size > disc[at[1]].tocSize

=============================================================================
