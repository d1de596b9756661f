---------------------------- MODULE SparseReader ----------------------------
(***************************************************************************)
(* Expansion of PAX sparse files, src/sparse.rs: PaxSparse::detect and     *)
(* expand, and the SparseReader that fills the holes back in, read with    *)
(* buffers of any size from a source that may return less than it is asked *)
(* for.                                                                    *)
(*                                                                         *)
(* A byte of the entry's data is its position in the data, counted from 1; *)
(* Zero is a byte of a hole.  Numbers are unsigned words below Word, so    *)
(* that a chunk may end beyond the largest of them.  The format "none" is  *)
(* that of an entry without GNU.sparse records.                            *)
(***************************************************************************)
EXTENDS Integers, Sequences, FiniteSets, SequencesExt

CONSTANTS
  Offsets, Lengths,   \* numbers a map may hold
  MaxChunks,          \* bound on the chunks of a map
  RealSizes,          \* sizes of files, holes included
  DataSizes,          \* bytes of data an entry may have
  Leads,              \* bytes a map in the data takes (format 1.0)
  Block,              \* a map in the data is padded to a multiple of this
  Word,               \* numbers are below this
  BufSizes            \* sizes of the buffers of read calls

Numbers == Offsets \cup Lengths \cup RealSizes \cup DataSizes \cup Leads

ASSUME SparseAssumption ==
  /\ Word \in Nat /\ Numbers \subseteq 0..(Word - 1)
  /\ MaxChunks \in Nat /\ Block \in Nat \ {0}
  /\ BufSizes \subseteq Nat \ {0}

Zero == 0
Chunk == [offset : Offsets, len : Lengths]
Entry == [format : {"0.0", "0.1", "1.0", "bad", "none"}, map : SeqOf(Chunk, MaxChunks),
          real : RealSizes, lead : Leads, data : DataSizes]

VARIABLES
  entry,    \* the tar entry
  stage,    \* "new", "plain", "detected", "reading", "end", "rejected" or "short"
  rest,     \* chunks that are not read yet; the first may be read in part
  pos,      \* position in the file
  taken,    \* bytes of data read
  out       \* what the reader has returned so far

vars == <<entry, stage, rest, pos, taken, out>>

Least(a, b) == IF a < b THEN a ELSE b

Init ==
  /\ entry \in {e \in Entry : e.format = "1.0" \/ e.lead = 0}
  /\ stage = "new"
  /\ rest = <<>> /\ pos = 0 /\ taken = 0 /\ out = <<>>

----------------------------------------------------------------------------

(* A map without chunks leaves no offset record by which to know format    *)
(* 0.0, and a list in one record that has no number in it.                 *)
Unmarked(e) == e.format = "0.0" /\ e.map = <<>>
EmptyList(e) == e.format = "0.1" /\ e.map = <<>>

Recognised(e) == e.format # "none" /\ ~Unmarked(e)

(* Records that are unpaired, no number, of no known version or without a  *)
(* size are an error of the entry.                                         *)
Detect ==
  /\ stage = "new"
  /\ stage' = IF ~Recognised(entry) THEN "plain"
              ELSE IF entry.format = "bad" \/ EmptyList(entry) THEN "rejected" ELSE "detected"
  /\ UNCHANGED <<entry, rest, pos, taken, out>>

(* Mutant: the end of a chunk wraps around. *)
EndWrapped(c) == (c.offset + c.len) % Word

(* The end of a chunk, checked_add: Word stands for an overflow. *)
ChunkEnd(c) == Least(c.offset + c.len, Word)

(* The chunks are in order and end within the file. *)
Fits(e) ==
  \A i \in DOMAIN e.map :
    /\ ChunkEnd(e.map[i]) <= e.real
    /\ i > 1 => ChunkEnd(e.map[i - 1]) <= e.map[i].offset

(* Mutant: the map's padding is left to the chunks. *)
LeadUnpadded(e) == e.lead

(* Where the chunks begin in the data. *)
Lead(e) == ((e.lead + Block - 1) \div Block) * Block

(* The map is read off the front of the data, with whatever of its padding *)
(* there is.                                                               *)
Expand ==
  /\ stage = "detected"
  /\ IF entry.lead <= entry.data /\ Fits(entry)
     THEN stage' = "reading" /\ rest' = entry.map /\ taken' = Least(Lead(entry), entry.data)
     ELSE stage' = "rejected" /\ UNCHANGED <<rest, taken>>
  /\ UNCHANGED <<entry, pos, out>>

----------------------------------------------------------------------------
(* One read call.  Chunks with nothing left are passed over.               *)

Ahead ==
  LET live == {i \in DOMAIN rest : pos < rest[i].offset \/ rest[i].len > 0}
  IN  IF live = {} THEN <<>>
      ELSE SubSeq(rest, CHOOSE i \in live : \A j \in live : i <= j, Len(rest))

Zeros(n) == [i \in 1..n |-> Zero]

(* hole: zeros up to a position, as far as the buffer goes. *)
Fill(until, size) ==
  LET n == Least(until - pos, size) IN
  /\ out' = out \o Zeros(n)
  /\ pos' = pos + n

ReadHole(size) ==
  /\ stage = "reading" /\ Ahead # <<>> /\ pos < Head(Ahead).offset
  /\ Fill(Head(Ahead).offset, size)
  /\ rest' = Ahead
  /\ UNCHANGED <<entry, stage, taken>>

(* The source returns n bytes, at most what is wanted. *)
ReadChunk(size) ==
  /\ stage = "reading" /\ Ahead # <<>> /\ pos >= Head(Ahead).offset
  /\ taken < entry.data
  /\ \E n \in 1..Least(Least(Head(Ahead).len, size), entry.data - taken) :
       /\ out' = out \o [i \in 1..n |-> taken + i]
       /\ pos' = pos + n
       /\ taken' = taken + n
       /\ rest' = <<[offset |-> Head(Ahead).offset + n, len |-> Head(Ahead).len - n]>>
                    \o Tail(Ahead)
  /\ UNCHANGED <<entry, stage>>

(* The data ends before its map does. *)
ReadShort ==
  /\ stage = "reading" /\ Ahead # <<>> /\ pos >= Head(Ahead).offset
  /\ taken = entry.data
  /\ stage' = "short"
  /\ UNCHANGED <<entry, rest, pos, taken, out>>

(* Behind the last chunk there is a hole up to the real size; a call that  *)
(* returns nothing is the end of the file.                                 *)
ReadTail(size) ==
  /\ stage = "reading" /\ Ahead = <<>>
  /\ Fill(entry.real, size)
  /\ stage' = IF pos = entry.real THEN "end" ELSE "reading"
  /\ rest' = <<>>
  /\ UNCHANGED <<entry, taken>>

Read == ReadShort \/ \E size \in BufSizes : ReadHole(size) \/ ReadChunk(size) \/ ReadTail(size)

Next == Detect \/ Expand \/ Read

Spec == Init /\ [][Next]_vars

----------------------------------------------------------------------------
(* What a sparse entry stands for.                                         *)

(* Every chunk lies within the file, and any two are disjoint and in order.*)
WellFormed(e) ==
  /\ e.format # "bad"
  /\ \A i \in DOMAIN e.map : e.map[i].offset + e.map[i].len <= e.real
  /\ \A i, j \in DOMAIN e.map :
       i < j => e.map[i].offset + e.map[i].len <= e.map[j].offset

(* Position i of the file lies in a chunk.                                 *)
InChunk(e, i) ==
  \E c \in DOMAIN e.map : e.map[c].offset <= i /\ i < e.map[c].offset + e.map[c].len

(* The bytes an entry stores: those of its chunks, in the order they have  *)
(* in the file.                                                            *)
StoredBefore(e, i) == Cardinality({k \in 0..(i - 1) : InChunk(e, k)})
Stored(e) == StoredBefore(e, e.real)

(* Where they begin in the data: at the first multiple of Block behind the *)
(* map.                                                                    *)
First(e) == CHOOSE n \in e.lead..(e.lead + Block - 1) : n % Block = 0

(* The byte at position i of the file. *)
Byte(e, i) == IF InChunk(e, i) THEN First(e) + StoredBefore(e, i) + 1 ELSE Zero

----------------------------------------------------------------------------
(* Properties. *)

(* Every variable has its type; chunks are passed over, never made up. *)
TypeOK ==
  /\ entry \in Entry
  /\ stage \in {"new", "plain", "detected", "reading", "end", "rejected", "short"}
  /\ Len(rest) <= Len(entry.map)
  /\ pos \in 0..(Word - 1) /\ taken \in 0..entry.data
  /\ out \in Seq(0..entry.data) /\ Len(out) = pos

(* What has been read, through buffers of whatever sizes and a source that *)
(* returns whatever it likes, is the beginning of the file the entry       *)
(* stands for, and at the end it is the whole file, of the size that the   *)
(* rewritten header announces: a byte displaced by a hole or by the        *)
(* padding of the map, or one byte less, would corrupt the merged image    *)
(* without any error.  A 0.0 entry without a chunk is not recognised and   *)
(* set apart.                                                              *)
Faithful ==
  ~Unmarked(entry) =>
    /\ \A i \in DOMAIN out : out[i] = Byte(entry, i - 1)
    /\ stage = "end" => Len(out) = entry.real

(* Errors are deserved.  A map is read from only if it describes a file,   *)
(* also at the largest numbers, where the end of a chunk overflows; it is  *)
(* refused only if it describes none, is cut off or is a list without a    *)
(* number; and the data is called short only when bytes the map stores are *)
(* missing, whatever empty chunks are in between.                          *)
AcceptsWellFormed ==
  /\ stage \in {"reading", "end", "short"} => WellFormed(entry)
  /\ stage = "rejected" =>
       ~WellFormed(entry) \/ entry.data < entry.lead \/ EmptyList(entry)
  /\ stage = "short" => entry.data < First(entry) + Stored(entry)

----------------------------------------------------------------------------
(* A statement of the source that some entry contradicts. *)

(* Entries in a PAX sparse format are recognised by their GNU.sparse       *)
(* records and treated as the file they describe.                          *)
AllRecognised == stage = "plain" => entry.format = "none"
=============================================================================
