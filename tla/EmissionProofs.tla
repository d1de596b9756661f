--------------------------- MODULE EmissionProofs ---------------------------
(***************************************************************************)
(* For every map of a sparse file, every size of buffers and whatever the  *)
(* source returns: what the reader delivers is the file the map stands     *)
(* for, a map is accepted exactly when it describes a file, and behind the *)
(* header of every member written stand as many bytes as it announces.     *)
(***************************************************************************)
EXTENDS Emission, WellFoundedInduction, FiniteSetTheorems, SequenceTheorems, TLAPS

Number == 0..(Word - 1)
Span == [offset : Number, len : Number]
End(c) == c.offset + c.len
Within(c, i) == c.offset <= i /\ i < c.offset + c.len

(* Chunks that are still to be read when p bytes of the file e have been:  *)
(* they lie behind p and within the file, in order, and are all that is    *)
(* stored of the rest of the file.                                         *)
Remaining(chunks, p, e) ==
  /\ chunks \in Seq(Span)
  /\ p \in Nat /\ p <= e.real
  /\ \A i \in DOMAIN chunks : p <= chunks[i].offset /\ End(chunks[i]) <= e.real
  /\ \A i, j \in DOMAIN chunks : i < j => End(chunks[i]) <= chunks[j].offset
  /\ \A k \in Nat : p <= k =>
       (InChunk(e, k) <=> \E i \in DOMAIN chunks : Within(chunks[i], k))

(* What has been read is the front of the file, unless a 0.0 entry without *)
(* a chunk was not recognised.                                             *)
IsFront(o, p, e) ==
  /\ o \in Seq(Nat) /\ p \in Nat /\ Len(o) = p
  /\ Unmarked(e) \/ \A i \in 1..p : o[i] = Byte(e, i - 1)

(* The bytes an entry is delivered with: its own when it is not recognised.*)
Length(e) == IF Unmarked(e) THEN e.data ELSE e.real

(* The data read so far: the map, and what is stored before p. *)
Consumed(t, p, e) == t \in Nat /\ t <= e.data /\ t = Least(First(e), e.data) + StoredBefore(e, p)

ReaderInv ==
  /\ entry \in Entry
  /\ stage \in {"new", "plain", "detected"} => pos = 0
  /\ stage = "plain" => ~Recognised(entry)
  /\ stage \in {"detected", "reading", "short"} => Recognised(entry) /\ entry.format # "bad"
  /\ stage \in {"reading", "end", "short"} => WellFormed(entry)
  /\ stage = "reading" => Remaining(rest, pos, entry) /\ Consumed(taken, pos, entry)
  /\ IsFront(out, pos, entry)
  /\ stage = "end" => pos = Length(entry)
  /\ stage = "short" => entry.data < First(entry) + Stored(entry)
  /\ stage = "rejected" =>
       ~WellFormed(entry) \/ entry.data < entry.lead \/ EmptyList(entry)

----------------------------------------------------------------------------
(* Maps and the files they stand for. *)

LEMMA EntryParts ==
  ASSUME NEW e \in Entry
  PROVE  /\ Word \in Nat /\ Block \in Nat \ {0}
         /\ e.real \in Number /\ e.lead \in Number /\ e.data \in Number
         /\ e.map \in Seq(Span)
         /\ Len(e.map) \in Nat /\ DOMAIN e.map = 1..Len(e.map)
         /\ \A i \in DOMAIN e.map : e.map[i].offset \in Number /\ e.map[i].len \in Number
<1>1. /\ Word \in Nat /\ Block \in Nat \ {0} /\ MaxChunks \in Nat
      /\ Offsets \subseteq Number /\ Lengths \subseteq Number /\ RealSizes \subseteq Number
      /\ DataSizes \subseteq Number /\ Leads \subseteq Number
  BY SparseAssumption DEF Numbers, Number
<1>2. /\ e.real \in RealSizes /\ e.lead \in Leads /\ e.data \in DataSizes
      /\ e.map \in SeqOf(Chunk, MaxChunks)
  BY DEF Entry
<1>3. PICK m \in 0..MaxChunks : e.map \in [1..m -> Chunk]
  BY <1>2 DEF SeqOf
<1>4. Chunk \subseteq Span
  BY <1>1 DEF Chunk, Span
<1>5. m \in Nat /\ e.map \in [1..m -> Span]
  BY <1>1, <1>3, <1>4
<1>6. e.map \in Seq(Span)
  BY <1>5, SeqDef
<1>7. /\ Len(e.map) \in Nat /\ DOMAIN e.map = 1..Len(e.map)
      /\ \A i \in DOMAIN e.map : e.map[i] \in Span
  BY <1>5, <1>6, LenProperties
<1> QED BY <1>1, <1>2, <1>6, <1>7 DEF Span

(* Any two chunks are in order if each is with the one before it.          *)
LEMMA ChunksInOrder ==
  ASSUME NEW e \in Entry, Fits(e), NEW i \in DOMAIN e.map, NEW j \in DOMAIN e.map, i < j
  PROVE  End(e.map[i]) <= e.map[j].offset
<1> DEFINE m == Len(e.map)
           B == {n \in 1..m : i < n /\ ~(End(e.map[i]) <= e.map[n].offset)}
<1>1. /\ DOMAIN e.map = 1..m /\ m \in Nat
      /\ \A n \in 1..m : e.map[n].offset \in Nat /\ e.map[n].len \in Nat
                         /\ e.map[n].offset < Word /\ e.real < Word /\ Word \in Nat /\ e.real \in Nat
  BY EntryParts DEF Number
<1>2. \A n \in 1..m : End(e.map[n]) <= e.real /\ (n > 1 => End(e.map[n - 1]) <= e.map[n].offset)
  <2> SUFFICES ASSUME NEW n \in 1..m
               PROVE  End(e.map[n]) <= e.real /\ (n > 1 => End(e.map[n - 1]) <= e.map[n].offset)
    OBVIOUS
  <2>1. ChunkEnd(e.map[n]) <= e.real /\ (n > 1 => ChunkEnd(e.map[n - 1]) <= e.map[n].offset)
    BY <1>1 DEF Fits
  <2>2. n > 1 => n - 1 \in 1..m
    BY <1>1
  <2> QED BY <1>1, <2>1, <2>2 DEF ChunkEnd, Least, End
<1>3. SUFFICES ASSUME B # {} PROVE FALSE
  BY <1>1
<1>4. B \subseteq Nat
  OBVIOUS
<1>5. PICK n \in B : \A k \in B : <<k, n>> \notin OpToRel(<, Nat)
  <2> HIDE DEF B
  <2> QED BY <1>3, <1>4, WFMin, NatLessThanWellFounded, Zenon
<1>6. n - 1 \notin B
  <2>1. n - 1 \in B => n - 1 \in Nat /\ n - 1 < n
    BY <1>4
  <2> HIDE DEF B
  <2> QED BY <1>4, <1>5, <2>1 DEF OpToRel
<1>7. n \in 1..m /\ i < n /\ ~(End(e.map[i]) <= e.map[n].offset)
  BY <1>5
<1>8. n - 1 \in 1..m /\ i \in 1..m /\ n > 1
  BY <1>1, <1>7
<1>9. CASE i = n - 1
  BY <1>2, <1>7, <1>8, <1>9
<1>10. CASE i # n - 1
  <2>1. End(e.map[i]) <= e.map[n - 1].offset
    BY <1>1, <1>6, <1>7, <1>8, <1>10
  <2>2. End(e.map[n - 1]) <= e.map[n].offset
    BY <1>2, <1>7, <1>8
  <2>3. /\ e.map[n - 1].offset \in Nat /\ e.map[n - 1].len \in Nat /\ e.map[n].offset \in Nat
        /\ e.map[i].offset \in Nat /\ e.map[i].len \in Nat
    BY <1>1, <1>7, <1>8
  <2>4. \A p, q, r, v, w \in Nat : p + q <= r /\ r + v <= w => p + q <= w
    OBVIOUS
  <2>5. End(e.map[i]) <= e.map[n].offset
    <3> HIDE DEF m, B
    <3> QED BY <2>1, <2>2, <2>3, <2>4 DEF End
  <2> QED BY <1>7, <2>5
<1> QED BY <1>9, <1>10

LEMMA FitsMeansWellFormed ==
  ASSUME NEW e \in Entry, e.format # "bad"
  PROVE  Fits(e) <=> WellFormed(e)
<1>1. /\ DOMAIN e.map = 1..Len(e.map) /\ Len(e.map) \in Nat
      /\ \A n \in DOMAIN e.map : e.map[n].offset \in Nat /\ e.map[n].len \in Nat
                                 /\ e.map[n].offset < Word
      /\ e.real < Word /\ Word \in Nat /\ e.real \in Nat
  BY EntryParts DEF Number
<1>2. ASSUME Fits(e) PROVE WellFormed(e)
  <2>1. \A i \in DOMAIN e.map : e.map[i].offset + e.map[i].len <= e.real
    BY <1>1, <1>2 DEF Fits, ChunkEnd, Least
  <2>2. \A i, j \in DOMAIN e.map : i < j => e.map[i].offset + e.map[i].len <= e.map[j].offset
    BY <1>2, ChunksInOrder DEF End
  <2> QED BY <2>1, <2>2 DEF WellFormed
<1>3. ASSUME WellFormed(e) PROVE Fits(e)
  <2>1. ASSUME NEW i \in DOMAIN e.map
        PROVE  ChunkEnd(e.map[i]) <= e.real /\ (i > 1 => ChunkEnd(e.map[i - 1]) <= e.map[i].offset)
    <3>1. ChunkEnd(e.map[i]) <= e.real
      BY <1>1, <1>3 DEF WellFormed, ChunkEnd, Least
    <3>2. ASSUME i > 1 PROVE ChunkEnd(e.map[i - 1]) <= e.map[i].offset
      <4>1. i - 1 \in DOMAIN e.map /\ i - 1 < i
        BY <1>1, <3>2
      <4>2. e.map[i - 1].offset + e.map[i - 1].len <= e.map[i].offset
        BY <1>3, <4>1 DEF WellFormed
      <4> QED BY <1>1, <4>1, <4>2 DEF ChunkEnd, Least
    <3> QED BY <3>1, <3>2
  <2> QED BY <2>1 DEF Fits
<1> QED BY <1>2, <1>3

(* The first multiple of Block behind the map is where its padding ends.   *)
LEMMA FirstIsLead ==
  ASSUME NEW e \in Entry
  PROVE  First(e) = Lead(e) /\ First(e) \in Nat
<1> DEFINE l == e.lead
           x == l + Block - 1
           S == {n \in l..(l + Block - 1) : n % Block = 0}
<1>1. l \in Nat /\ Block \in Nat /\ Block > 0 /\ x \in Nat
  BY EntryParts DEF Number
<1>2. Lead(e) = (x \div Block) * Block
  BY DEF Lead
<1> HIDE DEF l
<1>3. (x \div Block) * Block <= x /\ x < (x \div Block) * Block + Block /\ x \div Block \in Nat
  BY <1>1, Z3
<1> DEFINE L == (x \div Block) * Block
<1>4. L \in Nat /\ l <= L /\ L <= x
  <2>1. L \in Int /\ L >= 0
    BY <1>1, <1>3, Z3
  <2> HIDE DEF L
  <2> QED BY <1>1, <1>3, <2>1 DEF L
<1>5. L % Block = 0
  BY <1>1, <1>3, Z3
<1>6. ASSUME NEW n \in l..(l + Block - 1), n % Block = 0 PROVE n = L
  <2>1. n \in Nat
    BY <1>1
  <2>2. n = (n \div Block) * Block /\ n \div Block \in Nat
    BY <1>1, <1>6, <2>1, Z3
  <2> DEFINE p == n \div Block
             q == x \div Block
  <2>3. p \in Nat /\ q \in Nat /\ p * Block < q * Block + Block /\ q * Block < p * Block + Block
    BY <1>1, <1>3, <1>4, <2>1, <2>2
  <2> HIDE DEF p, q
  <2>4. ASSUME NEW a \in Nat, NEW b \in Nat, a * Block < b * Block + Block PROVE a < b + 1
    BY <1>1, <2>4, Z3
  <2>5. p = q
    BY <2>3, <2>4
  <2> QED BY <2>2, <2>5 DEF p, q
<1> HIDE DEF L, x
<1>7. L \in l..(l + Block - 1)
  BY <1>1, <1>4 DEF x
<1>8. (CHOOSE n \in l..(l + Block - 1) : n % Block = 0) = L
  BY <1>5, <1>6, <1>7
<1> QED BY <1>2, <1>4, <1>8 DEF First, L, l

----------------------------------------------------------------------------
(* What is stored of a file, counted from its front. *)

LEMMA StoredSteps ==
  ASSUME NEW e, NEW i \in Nat, NEW n \in Nat
  PROVE  /\ StoredBefore(e, i) \in Nat /\ StoredBefore(e, 0) = 0
         /\ StoredBefore(e, i) <= StoredBefore(e, i + n)
         /\ (\A k \in i..(i + n - 1) : ~InChunk(e, k)) =>
              StoredBefore(e, i + n) = StoredBefore(e, i)
         /\ (\A k \in i..(i + n - 1) : InChunk(e, k)) =>
              StoredBefore(e, i + n) = StoredBefore(e, i) + n
<1> DEFINE T(j) == {k \in 0..(j - 1) : InChunk(e, k)}
           I == i..(i + n - 1)
           D == {k \in I : InChunk(e, k)}
<1>1. ASSUME NEW j \in Nat PROVE IsFiniteSet(T(j)) /\ Cardinality(T(j)) \in Nat
  <2>1. IsFiniteSet(0..(j - 1))
    BY FS_Interval
  <2>2. IsFiniteSet(T(j))
    BY <2>1, FS_Subset
  <2> QED BY <2>2, FS_CardinalityType
<1>2. IsFiniteSet(I) /\ Cardinality(I) = n
  BY FS_Interval
<1>3. IsFiniteSet(D) /\ Cardinality(D) \in Nat
  <2>1. IsFiniteSet(D)
    BY <1>2, FS_Subset
  <2> QED BY <2>1, FS_CardinalityType
<1>4. T(i + n) = T(i) \cup D /\ T(i) \cap D = {}
  OBVIOUS
<1>5. IsFiniteSet(T(i)) /\ Cardinality(T(i)) \in Nat
  BY <1>1
<1>6. StoredBefore(e, i) = Cardinality(T(i)) /\ StoredBefore(e, i + n) = Cardinality(T(i + n))
  BY DEF StoredBefore
<1>7. StoredBefore(e, 0) = 0
  <2>1. {k \in 0..(0 - 1) : InChunk(e, k)} = {}
    OBVIOUS
  <2> QED BY <2>1, FS_EmptySet DEF StoredBefore
<1>8. /\ (\A k \in I : ~InChunk(e, k)) => D = {}
      /\ (\A k \in I : InChunk(e, k)) => D = I
  OBVIOUS
<1> HIDE DEF T, D, I
<1>9. Cardinality(T(i + n)) = Cardinality(T(i)) + Cardinality(D)
  BY <1>3, <1>4, <1>5, FS_Union, FS_EmptySet
<1> QED BY <1>2, <1>3, <1>5, <1>6, <1>7, <1>8, <1>9, FS_EmptySet DEF I

(* What the bytes at and behind p are worth. *)
LEMMA BytesFrom ==
  ASSUME NEW e \in Entry, NEW p \in Nat, NEW n \in Nat
  PROVE  /\ \A k \in p..(p + n - 1) : ~InChunk(e, k) => Byte(e, k) = Zero
         /\ (\A k \in p..(p + n - 1) : InChunk(e, k)) =>
              \A k \in p..(p + n - 1) : Byte(e, k) = First(e) + StoredBefore(e, p) + (k - p) + 1
<1>1. \A k \in p..(p + n - 1) : ~InChunk(e, k) => Byte(e, k) = Zero
  BY DEF Byte
<1>2. ASSUME \A k \in p..(p + n - 1) : InChunk(e, k), NEW k \in p..(p + n - 1)
      PROVE  Byte(e, k) = First(e) + StoredBefore(e, p) + (k - p) + 1
  <2> DEFINE m == k - p
  <2>1. m \in Nat /\ k = p + m /\ \A j \in p..(p + m - 1) : InChunk(e, j)
    BY <1>2
  <2> HIDE DEF m
  <2>2. StoredBefore(e, p + m) = StoredBefore(e, p) + m /\ StoredBefore(e, p) \in Nat
    BY <2>1, StoredSteps
  <2>3. Byte(e, k) = First(e) + StoredBefore(e, k) + 1 /\ First(e) \in Nat
    BY <1>2, FirstIsLead DEF Byte
  <2> QED BY <2>1, <2>2, <2>3 DEF m
<1> QED BY <1>1, <1>2

(* Chunks with nothing left that are passed over are no part of the rest.  *)
LEMMA AheadRemains ==
  ASSUME entry \in Entry, Remaining(rest, pos, entry)
  PROVE  /\ Remaining(Ahead, pos, entry)
         /\ Ahead # <<>> => pos < Head(Ahead).offset \/ Head(Ahead).len > 0
<1> DEFINE m == Len(rest)
           Live(i) == pos < rest[i].offset \/ rest[i].len > 0
           live == {i \in 1..m : Live(i)}
<1>1. /\ rest \in Seq(Span) /\ m \in Nat /\ DOMAIN rest = 1..m /\ pos \in Nat
      /\ \A i \in 1..m : rest[i] \in Span
  BY LenProperties, ElementOfSeq DEF Remaining
<1>2. \A i \in 1..m : rest[i].offset \in Nat /\ rest[i].len \in Nat
  <2>1. \A s \in Span : s.offset \in Nat /\ s.len \in Nat
    BY EntryParts DEF Span, Number
  <2> QED BY <1>1, <2>1
<1>3. \A i \in 1..m : ~Live(i) => \A k \in Nat : pos <= k => ~Within(rest[i], k)
  BY <1>1, <1>2 DEF Within
<1>4. CASE live = {}
  <2>1. Ahead = <<>>
    BY <1>1, <1>4 DEF Ahead
  <2>2. \A k \in Nat : pos <= k => ~InChunk(entry, k)
    BY <1>1, <1>3, <1>4 DEF Remaining
  <2> QED BY <2>1, <2>2 DEF Remaining
<1>5. CASE live # {}
  <2> DEFINE a == CHOOSE i \in live : \A j \in live : i <= j
  <2>1. live \subseteq Nat
    OBVIOUS
  <2>2. PICK least \in live : \A j \in live : <<j, least>> \notin OpToRel(<, Nat)
    <3> HIDE DEF live
    <3> QED BY <1>5, <2>1, WFMin, NatLessThanWellFounded, Zenon
  <2>3. \A j \in live : least <= j
    <3>1. \A j \in live : ~(j < least)
      BY <2>1, <2>2 DEF OpToRel
    <3>2. \A j \in live : least <= j \/ j < least
      BY <2>1
    <3> QED BY <3>1, <3>2
  <2>4. a \in live /\ \A j \in live : a <= j
    <3> HIDE DEF live
    <3> QED BY <2>2, <2>3
  <2>5. Ahead = SubSeq(rest, a, m)
    BY <1>1, <1>5 DEF Ahead
  <2> HIDE DEF a
  <2>6. a \in 1..m /\ Live(a) /\ \A i \in 1..m : i < a => ~Live(i)
    BY <2>4
  <2> DEFINE c == m - a + 1
  <2>7. c \in Nat /\ c > 0 /\ \A i \in 1..c : a + i - 1 \in 1..m
    BY <1>1, <2>6
  <2>8. /\ Ahead \in Seq(Span) /\ Len(Ahead) = c
        /\ \A i \in 1..c : Ahead[i] = rest[a + i - 1]
    BY <1>1, <2>5, <2>6, SubSeqProperties
  <2>9. DOMAIN Ahead = 1..c /\ Head(Ahead) = rest[a] /\ Ahead # <<>>
    BY <1>1, <2>6, <2>7, <2>8, LenProperties
  <2> HIDE DEF c, live, m
  <2>10. \A i \in 1..c : pos <= Ahead[i].offset /\ End(Ahead[i]) <= entry.real
    BY <1>1, <2>7, <2>8 DEF Remaining
  <2>11. \A i, j \in 1..c : i < j => End(Ahead[i]) <= Ahead[j].offset
    <3> SUFFICES ASSUME NEW i \in 1..c, NEW j \in 1..c, i < j
                 PROVE  End(Ahead[i]) <= Ahead[j].offset
      OBVIOUS
    <3>1. a + i - 1 \in 1..m /\ a + j - 1 \in 1..m /\ a + i - 1 < a + j - 1
      BY <1>1, <2>6, <2>7
    <3> QED BY <1>1, <2>8, <3>1 DEF Remaining
  <2>12. ASSUME NEW k \in Nat, pos <= k
         PROVE  InChunk(entry, k) <=> \E i \in 1..c : Within(Ahead[i], k)
    <3>1. InChunk(entry, k) <=> \E i \in 1..m : Within(rest[i], k)
      BY <1>1, <2>12 DEF Remaining
    <3>2. ASSUME NEW i \in 1..m, Within(rest[i], k) PROVE \E j \in 1..c : Within(Ahead[j], k)
      <4>1. ~(i < a)
        BY <1>3, <2>6, <2>12, <3>2
      <4>2. i - a + 1 \in 1..c /\ a + (i - a + 1) - 1 = i
        BY <1>1, <2>6, <4>1 DEF c
      <4> QED BY <2>8, <3>2, <4>2
    <3>3. ASSUME NEW j \in 1..c, Within(Ahead[j], k) PROVE \E i \in 1..m : Within(rest[i], k)
      BY <2>7, <2>8, <3>3
    <3> QED BY <3>1, <3>2, <3>3
  <2>13. Remaining(Ahead, pos, entry)
    BY <2>8, <2>9, <2>10, <2>11, <2>12 DEF Remaining
  <2> QED BY <2>6, <2>9, <2>13
<1> QED BY <1>4, <1>5

----------------------------------------------------------------------------
(* The reader. *)

(* n bytes more: zeros for a hole, or the next ones of the data for a part *)
(* of a chunk.                                                             *)
LEMMA FrontGrows ==
  ASSUME NEW e \in Entry, NEW o, NEW p, IsFront(o, p, e), NEW n \in Nat, NEW b \in Seq(Nat),
         Len(b) = n, \A i \in 1..n : b[i] = Byte(e, p + i - 1)
  PROVE  IsFront(o \o b, p + n, e)
<1>1. /\ o \in Seq(Nat) /\ p \in Nat /\ Len(o) = p
      /\ Unmarked(e) \/ \A i \in 1..p : o[i] = Byte(e, i - 1)
  BY DEF IsFront
<1>2. /\ o \o b \in Seq(Nat) /\ Len(o \o b) = p + n
      /\ \A i \in 1..(p + n) : (o \o b)[i] = IF i <= p THEN o[i] ELSE b[i - p]
  BY <1>1, ConcatProperties
<1>3. ASSUME ~Unmarked(e), NEW i \in 1..(p + n) PROVE (o \o b)[i] = Byte(e, i - 1)
  <2>1. CASE i <= p
    BY <1>1, <1>2, <1>3, <2>1
  <2>2. CASE ~(i <= p)
    <3>1. i - p \in 1..n /\ p + (i - p) - 1 = i - 1
      BY <1>1, <2>2
    <3> QED BY <1>2, <2>2, <3>1
  <2> QED BY <2>1, <2>2
<1> QED BY <1>1, <1>2, <1>3 DEF IsFront

LEMMA ZerosFront ==
  ASSUME NEW e \in Entry, NEW o, NEW p, IsFront(o, p, e), NEW n \in Nat,
         \A k \in p..(p + n - 1) : ~InChunk(e, k)
  PROVE  IsFront(o \o Zeros(n), p + n, e)
<1>1. Zeros(n) \in [1..n -> Nat] /\ \A i \in 1..n : Zeros(n)[i] = Zero
  BY DEF Zeros, Zero
<1>2. Zeros(n) \in Seq(Nat) /\ Len(Zeros(n)) = n
  BY <1>1, SeqDef, LenProperties
<1>3. p \in Nat
  BY DEF IsFront
<1>4. \A i \in 1..n : p + i - 1 \in p..(p + n - 1)
  BY <1>3
<1>5. \A i \in 1..n : Zeros(n)[i] = Byte(e, p + i - 1)
  BY <1>1, <1>3, <1>4, BytesFrom
<1> QED BY <1>2, <1>5, FrontGrows

LEMMA HoleKeeps ==
  ASSUME ReaderInv, NEW size \in Nat \ {0}, ReadHole(size)
  PROVE  ReaderInv'
<1> DEFINE h == Head(Ahead).offset
           n == Least(h - pos, size)
<1>1. /\ stage = "reading" /\ Ahead # <<>> /\ pos < h /\ rest' = Ahead /\ pos' = pos + n
      /\ out' = out \o Zeros(n) /\ entry' = entry /\ stage' = stage /\ taken' = taken
  BY DEF ReadHole, Fill
<1>2. /\ entry \in Entry /\ Remaining(rest, pos, entry) /\ Consumed(taken, pos, entry)
      /\ IsFront(out, pos, entry) /\ WellFormed(entry) /\ entry.format # "bad"
      /\ Recognised(entry)
  BY <1>1 DEF ReaderInv
<1>3. Remaining(Ahead, pos, entry)
  BY <1>2, AheadRemains
<1> DEFINE r == Ahead
<1> HIDE DEF r
<1>4. /\ r \in Seq(Span) /\ r # <<>> /\ DOMAIN r = 1..Len(r) /\ Len(r) \in Nat /\ 1 \in DOMAIN r
      /\ r[1].offset = h /\ pos \in Nat
  BY <1>1, <1>3, LenProperties DEF Remaining, r
<1>5. \A i \in DOMAIN r : r[i].offset \in Nat /\ r[i].len \in Nat
  <2>1. \A s \in Span : s.offset \in Nat /\ s.len \in Nat
    BY <1>2, EntryParts DEF Span, Number
  <2> QED BY <1>4, <2>1, ElementOfSeq
<1>6. h \in Nat /\ \A i \in DOMAIN r : h <= r[i].offset
  <2>1. h \in Nat /\ r[1].len \in Nat
    BY <1>4, <1>5
  <2>2. \A i \in DOMAIN r : 1 < i => End(r[1]) <= r[i].offset
    BY <1>3, <1>4 DEF Remaining, r
  <2>3. ASSUME NEW i \in DOMAIN r PROVE h <= r[i].offset
    <3>1. CASE i = 1
      BY <1>4, <2>1, <3>1
    <3>2. CASE i # 1
      <4>1. End(r[1]) <= r[i].offset
        BY <1>4, <2>2, <3>2
      <4> QED BY <1>4, <1>5, <2>1, <4>1 DEF End
    <3> QED BY <3>1, <3>2
  <2> QED BY <2>1, <2>3
<1> HIDE DEF h
<1>7. n \in Nat /\ pos + n <= h
  BY <1>1, <1>4, <1>6 DEF Least
<1>8. h <= entry.real /\ entry.real \in Nat
  <2>1. End(r[1]) <= entry.real /\ entry.real \in Nat
    BY <1>2, <1>3, <1>4, EntryParts DEF Remaining, r, Number
  <2> QED BY <1>4, <1>5, <1>6, <2>1 DEF End
<1> HIDE DEF n
<1>9. \A k \in pos..(pos + n - 1) : ~InChunk(entry, k)
  <2> SUFFICES ASSUME NEW k \in pos..(pos + n - 1), InChunk(entry, k) PROVE FALSE
    OBVIOUS
  <2>1. k \in Nat /\ pos <= k /\ k < h
    BY <1>4, <1>6, <1>7
  <2>2. PICK i \in DOMAIN r : Within(r[i], k)
    BY <1>3, <2>1 DEF Remaining, r
  <2> QED BY <1>5, <1>6, <2>1, <2>2 DEF Within
<1>10. IsFront(out', pos', entry)
  BY <1>1, <1>2, <1>7, <1>9, ZerosFront
<1>11. Remaining(r, pos + n, entry)
  <2>1. \A k \in Nat : pos + n <= k => pos <= k
    BY <1>4, <1>7
  <2>2. \A i \in DOMAIN r : pos + n <= r[i].offset
    BY <1>4, <1>5, <1>6, <1>7
  <2> QED BY <1>3, <1>4, <1>6, <1>7, <1>8, <2>1, <2>2 DEF Remaining, r
<1>12. Consumed(taken, pos + n, entry)
  BY <1>2, <1>4, <1>7, <1>9, StoredSteps DEF Consumed
<1> QED BY <1>1, <1>2, <1>10, <1>11, <1>12 DEF ReaderInv, r

LEMMA TailKeeps ==
  ASSUME ReaderInv, NEW size \in Nat \ {0}, ReadTail(size)
  PROVE  ReaderInv'
<1> DEFINE n == Least(entry.real - pos, size)
<1>1. /\ stage = "reading" /\ Ahead = <<>> /\ rest' = <<>> /\ pos' = pos + n
      /\ out' = out \o Zeros(n) /\ entry' = entry /\ taken' = taken
      /\ stage' = IF pos = entry.real THEN "end" ELSE "reading"
  BY DEF ReadTail, Fill
<1>2. /\ entry \in Entry /\ Remaining(rest, pos, entry) /\ Consumed(taken, pos, entry)
      /\ IsFront(out, pos, entry) /\ WellFormed(entry) /\ entry.format # "bad"
      /\ Recognised(entry)
  BY <1>1 DEF ReaderInv
<1>3. pos \in Nat /\ pos <= entry.real /\ entry.real \in Nat
  BY <1>2, EntryParts DEF Remaining, Number
<1>4. n \in Nat /\ pos + n <= entry.real /\ (pos = entry.real => n = 0)
  BY <1>3 DEF Least
<1> HIDE DEF n
<1>5. \A k \in Nat : pos <= k => ~InChunk(entry, k)
  BY <1>1, <1>2, AheadRemains DEF Remaining
<1>6. \A k \in pos..(pos + n - 1) : ~InChunk(entry, k)
  BY <1>3, <1>5
<1>7. IsFront(out', pos', entry)
  BY <1>1, <1>2, <1>4, <1>6, ZerosFront
<1>8. Remaining(<<>>, pos + n, entry)
  <2>1. \A k \in Nat : pos + n <= k => ~InChunk(entry, k)
    BY <1>3, <1>4, <1>5
  <2> QED BY <1>3, <1>4, <2>1 DEF Remaining
<1>9. Consumed(taken, pos + n, entry)
  BY <1>2, <1>3, <1>4, <1>6, StoredSteps DEF Consumed
<1>10. stage' = "end" => pos' = Length(entry)
  BY <1>1, <1>2, <1>3, <1>4 DEF Length, Recognised
<1> QED BY <1>1, <1>2, <1>7, <1>8, <1>9, <1>10 DEF ReaderInv

LEMMA ChunkKeeps ==
  ASSUME ReaderInv, NEW size \in Nat \ {0}, ReadChunk(size)
  PROVE  ReaderInv'
<1> DEFINE r == Ahead
           h == Head(Ahead)
           Bytes2(n) == [i \in 1..n |-> taken + i]
           Less(n) == [offset |-> h.offset + n, len |-> h.len - n]
<1>1. /\ stage = "reading" /\ r # <<>> /\ pos >= h.offset /\ taken < entry.data
      /\ entry' = entry /\ stage' = stage
  BY DEF ReadChunk
<1>2. PICK n \in 1..Least(Least(h.len, size), entry.data - taken) :
        /\ out' = out \o Bytes2(n)
        /\ pos' = pos + n
        /\ taken' = taken + n
        /\ rest' = <<Less(n)>> \o Tail(r)
  BY DEF ReadChunk
<1>3. /\ entry \in Entry /\ Remaining(rest, pos, entry) /\ Consumed(taken, pos, entry)
      /\ IsFront(out, pos, entry) /\ WellFormed(entry) /\ entry.format # "bad"
      /\ Recognised(entry)
  BY <1>1 DEF ReaderInv
<1>4. Remaining(r, pos, entry)
  BY <1>3, AheadRemains
<1> HIDE DEF r
<1>5. /\ r \in Seq(Span) /\ DOMAIN r = 1..Len(r) /\ Len(r) \in Nat /\ 1 \in DOMAIN r
      /\ h = r[1] /\ pos \in Nat
  BY <1>1, <1>4, LenProperties DEF Remaining, r
<1>6. /\ \A i \in DOMAIN r : r[i].offset \in Nat /\ r[i].len \in Nat
      /\ entry.real \in Nat /\ entry.data \in Nat /\ Word \in Nat /\ entry.real < Word
  <2>1. \A s \in Span : s.offset \in Nat /\ s.len \in Nat
    BY <1>3, EntryParts DEF Span, Number
  <2> QED BY <1>3, <1>5, <2>1, ElementOfSeq, EntryParts DEF Number
<1>7. h.offset = pos /\ h.len \in Nat /\ pos + h.len <= entry.real
  <2>1. pos <= r[1].offset /\ End(r[1]) <= entry.real
    BY <1>4, <1>5 DEF Remaining
  <2>2. r[1].offset \in Nat /\ r[1].len \in Nat
    BY <1>5, <1>6
  <2>3. pos >= r[1].offset
    BY <1>1, <1>5
  <2> QED BY <1>5, <2>1, <2>2, <2>3 DEF End
<1>8. taken \in Nat
  BY <1>3 DEF Consumed
<1>9. n \in Nat /\ 1 <= n /\ n <= h.len /\ taken + n <= entry.data
  <2>1. entry.data \in Nat /\ h.len \in Nat
    BY <1>6, <1>7
  <2>2. n \in 1..Least(Least(h.len, size), entry.data - taken)
    BY <1>2
  <2> HIDE DEF h
  <2> QED BY <1>8, <2>1, <2>2 DEF Least
<1> HIDE DEF h
<1>10. \A k \in pos..(pos + n - 1) : InChunk(entry, k)
  <2> SUFFICES ASSUME NEW k \in pos..(pos + n - 1) PROVE InChunk(entry, k)
    OBVIOUS
  <2>1. k \in Nat /\ pos <= k /\ k < pos + h.len
    BY <1>5, <1>7, <1>9
  <2>2. Within(r[1], k)
    BY <1>5, <1>7, <2>1 DEF Within
  <2> QED BY <1>4, <1>5, <2>1, <2>2 DEF Remaining
<1>11. /\ First(entry) \in Nat /\ StoredBefore(entry, pos) \in Nat
       /\ taken = First(entry) + StoredBefore(entry, pos)
       /\ StoredBefore(entry, pos + n) = StoredBefore(entry, pos) + n
  <2>1. First(entry) \in Nat
    BY <1>3, FirstIsLead
  <2>2. /\ StoredBefore(entry, pos) \in Nat
        /\ StoredBefore(entry, pos + n) = StoredBefore(entry, pos) + n
    BY <1>5, <1>9, <1>10, StoredSteps
  <2>3. taken = Least(First(entry), entry.data) + StoredBefore(entry, pos)
    BY <1>3 DEF Consumed
  <2> QED BY <1>1, <1>6, <2>1, <2>2, <2>3 DEF Least
<1>12. IsFront(out', pos', entry)
  <2> DEFINE b == Bytes2(n)
  <2>1. b \in [1..n -> Nat] /\ \A i \in 1..n : b[i] = taken + i
    BY <1>8
  <2> HIDE DEF b
  <2>2. b \in Seq(Nat) /\ Len(b) = n
    BY <1>9, <2>1, SeqDef, LenProperties
  <2>3. ASSUME NEW i \in 1..n PROVE b[i] = Byte(entry, pos + i - 1)
    <3>1. pos + i - 1 \in pos..(pos + n - 1) /\ (pos + i - 1) - pos + 1 = i
      BY <1>5, <1>9
    <3>2. Byte(entry, pos + i - 1)
            = First(entry) + StoredBefore(entry, pos) + ((pos + i - 1) - pos) + 1
      BY <1>3, <1>5, <1>9, <1>10, <3>1, BytesFrom
    <3> QED BY <1>5, <1>11, <2>1, <3>1, <3>2
  <2>4. out' = out \o b
    BY <1>2 DEF b
  <2> QED BY <1>2, <1>3, <1>9, <2>2, <2>3, <2>4, FrontGrows
<1>13. Consumed(taken + n, pos + n, entry)
  <2>1. Least(First(entry), entry.data) = First(entry)
    BY <1>6, <1>8, <1>9, <1>11 DEF Least
  <2> QED BY <1>8, <1>9, <1>11, <2>1 DEF Consumed
<1>14. Remaining(rest', pos + n, entry)
  <2> DEFINE x == Less(n)
             s == <<x>> \o Tail(r)
             c == Len(r)
  <2>1. x \in Span /\ x.offset = pos + n /\ x.len = h.len - n
    <3>1. h.offset + n \in Number /\ h.len - n \in Number
      BY <1>5, <1>6, <1>7, <1>9 DEF Number
    <3> QED BY <1>7, <3>1 DEF Span
  <2> HIDE DEF x
  <2>2. /\ Tail(r) \in Seq(Span) /\ Len(Tail(r)) = c - 1 /\ c \in Nat /\ c > 0
        /\ \A i \in 1..(c - 1) : Tail(r)[i] = r[i + 1]
    BY <1>1, <1>5, HeadTailProperties
  <2>3. <<x>> \in Seq(Span) /\ Len(<<x>>) = 1 /\ <<x>>[1] = x
    BY <2>1
  <2>4. /\ s \in Seq(Span) /\ Len(s) = c
        /\ \A i \in 1..c : s[i] = IF i <= 1 THEN <<x>>[i] ELSE Tail(r)[i - 1]
    <3>1. /\ s \in Seq(Span) /\ Len(s) = 1 + (c - 1)
          /\ \A i \in 1..(1 + (c - 1)) : s[i] = IF i <= 1 THEN <<x>>[i] ELSE Tail(r)[i - 1]
      BY <2>2, <2>3, ConcatProperties
    <3> QED BY <2>2, <3>1
  <2> HIDE DEF s, c
  <2>5. DOMAIN s = 1..c /\ DOMAIN r = 1..c /\ s[1] = x /\ \A i \in 2..c : s[i] = r[i] /\ i \in 1..c
    <3>1. DOMAIN s = 1..c /\ DOMAIN r = 1..c
      BY <1>5, <2>4, LenProperties DEF c
    <3>2. s[1] = x
      BY <2>2, <2>3, <2>4
    <3>3. ASSUME NEW i \in 2..c PROVE s[i] = r[i] /\ i \in 1..c
      <4>1. i \in 1..c /\ ~(i <= 1) /\ i - 1 \in 1..(c - 1) /\ (i - 1) + 1 = i
        BY <2>2
      <4> QED BY <2>2, <2>4, <4>1
    <3> QED BY <3>1, <3>2, <3>3
  <2>6. End(x) = End(r[1]) /\ x.offset \in Nat /\ x.len \in Nat
    BY <1>5, <1>7, <1>9, <2>1 DEF End
  <2>7. \A i \in 1..c : i = 1 \/ i \in 2..c
    BY <2>2
  <2>8. \A i \in 2..c : End(r[1]) <= r[i].offset /\ pos + n <= r[i].offset
    <3> SUFFICES ASSUME NEW i \in 2..c
                 PROVE  End(r[1]) <= r[i].offset /\ pos + n <= r[i].offset
      OBVIOUS
    <3>1. i \in DOMAIN r /\ 1 < i
      BY <2>5
    <3>2. End(r[1]) <= r[i].offset
      BY <1>4, <1>5, <3>1 DEF Remaining
    <3>3. r[i].offset \in Nat
      BY <1>6, <3>1
    <3> QED BY <1>5, <1>7, <1>9, <3>2, <3>3 DEF End
  <2>9. \A i \in 1..c : pos + n <= s[i].offset /\ End(s[i]) <= entry.real
    <3>1. pos + n <= s[1].offset /\ End(s[1]) <= entry.real
      BY <1>4, <1>5, <1>9, <2>1, <2>5, <2>6 DEF Remaining
    <3>2. \A i \in 2..c : pos + n <= s[i].offset /\ End(s[i]) <= entry.real
      BY <1>4, <2>5, <2>8 DEF Remaining
    <3> QED BY <2>7, <3>1, <3>2
  <2>10. \A i, j \in 1..c : i < j => End(s[i]) <= s[j].offset
    <3> SUFFICES ASSUME NEW i \in 1..c, NEW j \in 1..c, i < j PROVE End(s[i]) <= s[j].offset
      OBVIOUS
    <3>1. j \in 2..c
      BY <2>2
    <3>2. CASE i = 1
      BY <2>5, <2>6, <2>8, <3>1, <3>2
    <3>3. CASE i \in 2..c
      BY <1>4, <2>5, <3>1, <3>3 DEF Remaining
    <3> QED BY <2>7, <3>2, <3>3
  <2>11. ASSUME NEW k \in Nat, pos + n <= k
         PROVE  InChunk(entry, k) <=> \E i \in 1..c : Within(s[i], k)
    <3>1. pos <= k
      BY <1>5, <1>9, <2>11
    <3>2. InChunk(entry, k) <=> \E i \in 1..c : Within(r[i], k)
      BY <1>4, <2>5, <3>1 DEF Remaining
    <3>3. Within(r[1], k) <=> Within(x, k)
      BY <1>5, <1>7, <1>9, <2>1, <2>11 DEF Within
    <3> QED BY <2>5, <2>7, <3>2, <3>3
  <2>12. pos + n \in Nat /\ pos + n <= entry.real
    BY <1>5, <1>6, <1>7, <1>9
  <2>13. Remaining(s, pos + n, entry)
    BY <2>4, <2>5, <2>9, <2>10, <2>11, <2>12 DEF Remaining
  <2> QED BY <1>2, <2>13 DEF s, x, r, h
<1> QED BY <1>1, <1>2, <1>3, <1>12, <1>13, <1>14 DEF ReaderInv

(* A chunk that has bytes left and none in the data. *)
LEMMA ShortKeeps ==
  ASSUME ReaderInv, ReadShort
  PROVE  ReaderInv'
<1>1. /\ stage = "reading" /\ Ahead # <<>> /\ pos >= Head(Ahead).offset /\ taken = entry.data
      /\ stage' = "short" /\ UNCHANGED <<entry, rest, pos, taken, out>>
  BY DEF ReadShort
<1>2. /\ entry \in Entry /\ Remaining(rest, pos, entry) /\ Consumed(taken, pos, entry)
      /\ IsFront(out, pos, entry) /\ WellFormed(entry) /\ entry.format # "bad"
      /\ Recognised(entry)
  BY <1>1 DEF ReaderInv
<1> DEFINE r == Ahead
<1>3. Remaining(r, pos, entry) /\ (pos < Head(r).offset \/ Head(r).len > 0)
  BY <1>1, <1>2, AheadRemains
<1> HIDE DEF r
<1>4. /\ r \in Seq(Span) /\ 1 \in DOMAIN r /\ Head(r) = r[1] /\ pos \in Nat
  BY <1>1, <1>3, LenProperties DEF Remaining, r
<1>5. r[1].offset \in Nat /\ r[1].len \in Nat /\ entry.real \in Nat /\ entry.data \in Nat
  <2>1. \A s \in Span : s.offset \in Nat /\ s.len \in Nat
    BY <1>2, EntryParts DEF Span, Number
  <2>2. r[1] \in Span
    BY <1>4, LenProperties, ElementOfSeq
  <2> QED BY <1>2, <2>1, <2>2, EntryParts DEF Number
<1>6. Within(r[1], pos) /\ pos < entry.real
  BY <1>1, <1>3, <1>4, <1>5 DEF Within, Remaining, End, r
<1>7. InChunk(entry, pos)
  BY <1>3, <1>4, <1>6 DEF Remaining
<1>8. /\ StoredBefore(entry, pos + 1) = StoredBefore(entry, pos) + 1
      /\ StoredBefore(entry, pos) \in Nat
  BY <1>4, <1>7, StoredSteps
<1>9. StoredBefore(entry, pos + 1) <= StoredBefore(entry, entry.real)
  <2> DEFINE n == entry.real - (pos + 1)
  <2>1. n \in Nat /\ pos + 1 \in Nat /\ entry.real = (pos + 1) + n
    BY <1>4, <1>5, <1>6
  <2> HIDE DEF n
  <2> QED BY <2>1, StoredSteps
<1>10. First(entry) \in Nat /\ StoredBefore(entry, entry.real) \in Nat
  BY <1>2, <1>5, FirstIsLead, StoredSteps
<1>11. entry.data < First(entry) + Stored(entry)
  BY <1>1, <1>2, <1>5, <1>8, <1>9, <1>10 DEF Stored, Consumed, Least
<1> QED BY <1>1, <1>2, <1>11 DEF ReaderInv

LEMMA OpenKeeps ==
  ASSUME ReaderInv, Detect \/ Expand
  PROVE  ReaderInv'
<1>1. CASE Detect
  BY <1>1 DEF ReaderInv, Detect, WellFormed
<1>2. CASE Expand
  <2>1. /\ entry \in Entry /\ entry.format # "bad" /\ pos = 0 /\ IsFront(out, pos, entry)
        /\ Recognised(entry)
        /\ UNCHANGED <<entry, pos, out>>
    BY <1>2 DEF ReaderInv, Expand
  <2>2. Fits(entry) <=> WellFormed(entry)
    BY <2>1, FitsMeansWellFormed
  <2>3. CASE entry.lead <= entry.data /\ Fits(entry)
    <3>1. stage' = "reading" /\ rest' = entry.map /\ taken' = Least(Lead(entry), entry.data)
      BY <1>2, <2>3 DEF Expand
    <3>2. /\ DOMAIN entry.map = 1..Len(entry.map) /\ entry.map \in Seq(Span)
          /\ \A i \in DOMAIN entry.map : entry.map[i].offset \in Nat /\ entry.map[i].len \in Nat
          /\ entry.real \in Nat /\ entry.data \in Nat
      BY <2>1, EntryParts DEF Number
    <3>3. Remaining(entry.map, 0, entry)
      BY <2>2, <2>3, <3>2 DEF Remaining, WellFormed, InChunk, Within, End
    <3>4. Consumed(taken', 0, entry)
      <4>1. StoredBefore(entry, 0) = 0
        BY StoredSteps
      <4>2. Lead(entry) = First(entry) /\ First(entry) \in Nat
        BY <2>1, FirstIsLead
      <4> QED BY <3>1, <3>2, <4>1, <4>2 DEF Consumed, Least
    <3> QED BY <2>1, <2>2, <2>3, <3>1, <3>3, <3>4 DEF ReaderInv
  <2>4. CASE ~(entry.lead <= entry.data /\ Fits(entry))
    <3>1. stage' = "rejected"
      BY <1>2, <2>4 DEF Expand
    <3>2. entry.lead <= entry.data \/ entry.data < entry.lead
      BY <2>1, EntryParts DEF Number
    <3> QED BY <2>1, <2>2, <2>4, <3>1, <3>2 DEF ReaderInv
  <2> QED BY <2>3, <2>4
<1> QED BY <1>1, <1>2

LEMMA ReaderKeeps ==
  ASSUME ReaderInv, Next \/ UNCHANGED vars
  PROVE  ReaderInv'
<1>1. BufSizes \subseteq Nat \ {0}
  BY SparseAssumption
<1>2. CASE UNCHANGED vars
  BY <1>2 DEF ReaderInv, vars
<1>3. CASE Detect \/ Expand
  BY <1>3, OpenKeeps
<1>4. CASE ReadShort
  BY <1>4, ShortKeeps
<1>5. ASSUME NEW size \in BufSizes, ReadHole(size) \/ ReadChunk(size) \/ ReadTail(size)
      PROVE  ReaderInv'
  BY <1>1, <1>5, HoleKeeps, ChunkKeeps, TailKeeps
<1> QED BY <1>2, <1>3, <1>4, <1>5 DEF Next, Read

LEMMA ReaderStarts == Init => ReaderInv
<1> SUFFICES ASSUME Init PROVE ReaderInv
  OBVIOUS
<1>1. entry \in Entry /\ stage = "new" /\ pos = 0 /\ out = <<>>
  BY DEF Init
<1>2. IsFront(out, pos, entry)
  BY <1>1 DEF IsFront
<1> QED BY <1>1, <1>2 DEF ReaderInv

----------------------------------------------------------------------------
(* Headers and their records. *)

Fields == {"kind", "type", "prefix", "name", "linkname", "longname", "longlink", "size",
           "owner", "pax"}

(* The fields of a header that stands for n bytes. *)
Sized(c, n) ==
  /\ Fields \subseteq DOMAIN c
  /\ "size" \in DOMAIN c.pax => c.pax["size"] = n
  /\ c.type = "link" => n = 0

(* A file is recognised as sparse, or it is read as it is and its header   *)
(* has its size already.                                                   *)
Captured(m, e) ==
  Recognised(e) \/ (WellFormed(e) /\ FromEntry(m, e.real).size = Length(e))

(* A file that is no regular one has no bytes. *)
Empty(f, e) == f.type = "file" \/ Length(e) = 0

(* A member that was written has the bytes it says it has. *)
Announced(w, n) == SeenSize(w) = IF w.type = "link" THEN 0 ELSE n

DataInv ==
  /\ ReaderInv
  /\ Captured(member, entry)
  /\ Empty(meant, entry)

HeaderInv ==
  /\ Captured(member, entry)
  /\ stage = "detected" => Recognised(entry)
  /\ Sized(FromEntry(member, entry.real), Length(entry))
  /\ \/ canonical = Uncaptured /\ stage = "new" /\ fate = "none"
     \/ /\ "header" \in DOMAIN canonical
        /\ Sized(canonical.header, Length(entry))
        /\ stage \in {"detected", "rejected"} \/ canonical.header.size = Length(entry)
  /\ \A i \in DOMAIN written : Announced(written[i], Length(entry))

LEMMA KeptRecords ==
  ASSUME NEW pax, NEW keys
  PROVE  /\ DOMAIN Without(pax, keys) = DOMAIN pax \ keys
         /\ \A key \in DOMAIN pax \ keys : Without(pax, keys)[key] = pax[key]
BY DEF Without, Restrict

(* Where a member has its path does not matter for its size. *)
LEMMA AppendKeepsSize ==
  ASSUME NEW c, NEW path, Fields \subseteq DOMAIN c
  PROVE  LET w == AppendData(c, path) IN
         /\ DOMAIN w = DOMAIN c /\ w.type = c.type /\ w.size = c.size /\ w.pax = c.pax
BY DEF AppendData, Fields

(* The bytes a member's data has, and its records of them. *)
LEMMA ArchivedParts ==
  ASSUME NEW f
  PROVE  LET m == Archived(f)
             stored == IF f.type = "file" THEN entry.data ELSE 0
             gnu == f.form \in {"gnu", "old sparse"}
         IN  /\ Fields \subseteq DOMAIN m
             /\ m.size = stored
             /\ m.type = IF f.form = "old sparse" THEN "sparse" ELSE f.type
             /\ "size" \in DOMAIN m.pax => m.pax["size"] = stored /\ stored > SizeField /\ ~gnu
<1> DEFINE path == f.root \o f.path
           target == IF f.type = "file" THEN <<>> ELSE f.root \o f.target
           stored == IF f.type = "file" THEN entry.data ELSE 0
           gnu == f.form \in {"gnu", "old sparse"}
           named == f.form \in {"0.1", "1.0"}
           blank == [kind |-> IF gnu THEN "gnu" ELSE "ustar",
                     type |-> IF f.form = "old sparse" THEN "sparse" ELSE f.type,
                     prefix |-> <<>>, name |-> <<>>, linkname |-> Cut(target),
                     longname |-> <<>>,
                     longlink |-> IF gnu /\ ~InField(target) THEN target ELSE <<>>,
                     size |-> stored, owner |-> TRUE, pax |-> << >>]
           record == [uname |-> "root", xattr |-> "capability",
                      path |-> IF named THEN Placeholder ELSE path, linkpath |-> target,
                      size |-> stored, sparse_map |-> entry.map, sparse_size |-> entry.real,
                      sparse_name |-> path]
           Needed(key) ==
             CASE key = "path"        -> named \/ ~InField(path)
               [] key = "linkpath"    -> ~InField(target)
               [] key = "size"        -> stored > SizeField
               [] key = "sparse_map"  -> Recognised(entry)
               [] key = "sparse_size" -> f.form \in PaxSparse
               [] key = "sparse_name" -> named
               [] OTHER               -> TRUE
           records == Restrict(record, {key \in DOMAIN record : Needed(key)})
           m == Archived(f)
<1>1. m = IF gnu \/ f.form = "ustar" THEN AppendData(blank, path)
          ELSE [blank EXCEPT !.pax = records, !.name = IF named THEN Placeholder ELSE Cut(path)]
  BY DEF Archived
<1>2. /\ Fields \subseteq DOMAIN blank /\ blank.size = stored
      /\ blank.type = IF f.form = "old sparse" THEN "sparse" ELSE f.type
      /\ DOMAIN blank.pax = {}
  BY DEF Fields
<1>3. "size" \in DOMAIN records => records["size"] = stored /\ stored > SizeField
  <2> HIDE DEF stored, path, target, named
  <2> QED BY DEF Restrict
<1> HIDE DEF m, blank, records, stored, path, named, target
<1>4. /\ Fields \subseteq DOMAIN m /\ m.size = stored
      /\ m.type = IF f.form = "old sparse" THEN "sparse" ELSE f.type
      /\ "size" \in DOMAIN m.pax => m.pax["size"] = stored /\ stored > SizeField /\ ~gnu
  <2>1. CASE gnu \/ f.form = "ustar"
    <3>1. /\ DOMAIN m = DOMAIN blank /\ m.type = blank.type /\ m.size = blank.size
          /\ m.pax = blank.pax
      BY <1>1, <1>2, <2>1, AppendKeepsSize
    <3> QED BY <1>2, <2>1, <3>1 DEF PaxSparse
  <2>2. CASE ~(gnu \/ f.form = "ustar")
    <3>1. /\ DOMAIN m = DOMAIN blank /\ m.size = blank.size /\ m.type = blank.type
          /\ m.pax = records
      BY <1>1, <1>2, <2>2 DEF Fields
    <3> QED BY <1>2, <1>3, <2>2, <3>1
  <2> QED BY <2>1, <2>2
<1> QED BY <1>4 DEF m, stored

(* c is the header of the member m, or of the n bytes it reads back as.    *)
Keeps(m, c, n) ==
  /\ Fields \subseteq DOMAIN c
  /\ m.type = "sparse" => c.type = "file" /\ c.size = n
  /\ m.type # "sparse" => c.type = m.type /\ c.size = m.size
  /\ "size" \in DOMAIN c.pax => "size" \in DOMAIN m.pax /\ c.pax["size"] = m.pax["size"]

LEMMA FromEntryKeeps ==
  ASSUME NEW m, NEW n, Fields \subseteq DOMAIN m
  PROVE  Keeps(m, FromEntry(m, n), n)
<1> DEFINE pax == IF "linkpath" \notin DOMAIN m.pax /\ SeenLink(m) # m.linkname
                  THEN [key \in DOMAIN m.pax \cup {"linkpath"} |->
                          IF key = "linkpath" THEN SeenLink(m) ELSE m.pax[key]]
                  ELSE m.pax
           d == [m EXCEPT !.pax = pax, !.longname = <<>>, !.longlink = <<>>]
           c == FromEntry(m, n)
<1>1. c = IF d.type = "sparse" THEN MakeRegular(d, n) ELSE d
  BY DEF FromEntry
<1>2. /\ DOMAIN m.pax \subseteq DOMAIN pax
      /\ "size" \in DOMAIN pax => "size" \in DOMAIN m.pax /\ pax["size"] = m.pax["size"]
  OBVIOUS
<1>3. /\ Fields \subseteq DOMAIN d /\ d.type = m.type /\ d.size = m.size /\ d.pax = pax
  BY DEF Fields
<1> HIDE DEF c, d, pax
<1>4. CASE m.type = "sparse"
  <2>1. /\ DOMAIN c = DOMAIN d /\ c.type = "file" /\ c.size = n
        /\ c.pax = Without(pax, SparseKeys)
    BY <1>1, <1>3, <1>4 DEF MakeRegular, Fields
  <2>2. "size" \in DOMAIN c.pax => "size" \in DOMAIN pax /\ c.pax["size"] = pax["size"]
    <3>1. /\ DOMAIN Without(pax, SparseKeys) = DOMAIN pax \ SparseKeys
          /\ \A key \in DOMAIN pax \ SparseKeys : Without(pax, SparseKeys)[key] = pax[key]
      BY KeptRecords
    <3> QED BY <2>1, <3>1
  <2> QED BY <1>2, <1>3, <1>4, <2>1, <2>2 DEF c, Keeps
<1>5. CASE m.type # "sparse"
  <2>1. c = d
    BY <1>1, <1>3, <1>5
  <2> QED BY <1>2, <1>3, <1>5, <2>1 DEF c, Keeps
<1> QED BY <1>4, <1>5

(* Once captured, what the archivers make of a file has its size.          *)
LEMMA CapturedSize ==
  ASSUME NEW f \in Meaning, entry \in Entry, EntryOf(f), Archivable(f)
  PROVE  /\ Captured(Archived(f), entry)
         /\ Empty(f, entry)
         /\ SparseData <= SizeField => Sized(FromEntry(Archived(f), entry.real), Length(entry))
<1> DEFINE m == Archived(f)
           stored == IF f.type = "file" THEN entry.data ELSE 0
           c == FromEntry(m, entry.real)
<1>1. /\ Fields \subseteq DOMAIN m /\ m.size = stored
      /\ m.type = IF f.form = "old sparse" THEN "sparse" ELSE f.type
      /\ "size" \in DOMAIN m.pax => m.pax["size"] = stored /\ stored > SizeField
                                 /\ f.form # "old sparse"
  BY ArchivedParts
<1> HIDE DEF m
<1>2. /\ Fields \subseteq DOMAIN c
      /\ m.type = "sparse" => c.type = "file" /\ c.size = entry.real
      /\ m.type # "sparse" => c.type = m.type /\ c.size = m.size
      /\ "size" \in DOMAIN c.pax => "size" \in DOMAIN m.pax /\ c.pax["size"] = m.pax["size"]
  <2>1. Keeps(m, c, entry.real)
    BY <1>1, FromEntryKeeps
  <2> HIDE DEF c
  <2> QED BY <2>1 DEF Keeps
<1> HIDE DEF c
<1>3. /\ entry.real \in Nat /\ entry.data \in Nat /\ SizeField \in Nat /\ SparseData \in Nat
      /\ f.type \in {"file", "symlink", "link"}
  <2>1. entry.real \in Nat /\ entry.data \in Nat
    BY EntryParts DEF Number
  <2>2. f.type \in {"file", "symlink", "link"}
    BY DEF Meaning
  <2> QED BY <2>1, <2>2, EmissionAssumption
<1>4. CASE f.form \in PaxSparse
  <2>1. /\ entry.data <= SparseData /\ f.type = "file" /\ f.form # "old sparse"
    BY <1>4 DEF EntryOf, Archivable, PaxSparse
  <2>2. c.type = "file" /\ c.size = entry.data
    BY <1>1, <1>2, <1>4, <2>1
  <2>3. ASSUME SparseData <= SizeField PROVE "size" \notin DOMAIN c.pax
    <3>1. \A x, y, z \in Nat : x <= y /\ y <= z => ~(x > z)
      OBVIOUS
    <3>2. ~(entry.data > SizeField)
      BY <1>3, <2>1, <2>3, <3>1
    <3> QED BY <1>1, <1>2, <2>1, <3>2
  <2>4. entry.format \in {"bad", f.form} /\ entry.format # "none"
    BY <1>4 DEF EntryOf, PaxSparse
  <2>5. ~Recognised(entry) => Unmarked(entry) /\ WellFormed(entry)
    BY <2>4 DEF Recognised, Unmarked, WellFormed
  <2>6. Captured(m, entry)
    BY <2>2, <2>5 DEF Captured, Length, c
  <2>7. ASSUME SparseData <= SizeField PROVE Sized(c, Length(entry))
    BY <1>2, <2>2, <2>3, <2>7 DEF Sized
  <2> QED BY <2>1, <2>6, <2>7 DEF Empty, c, m
<1>5. CASE f.form = "old sparse"
  <2>1. WellFormed(entry) /\ f.type = "file"
    BY <1>5 DEF EntryOf, Archivable, PaxSparse
  <2>2. m.type = "sparse" /\ "size" \notin DOMAIN c.pax
    BY <1>1, <1>2, <1>5
  <2>3. Length(entry) = entry.real
    BY <1>5 DEF EntryOf, PaxSparse, Length, Unmarked
  <2> QED BY <1>1, <1>2, <2>1, <2>2, <2>3 DEF Captured, Empty, Sized, c, m
<1>6. CASE f.form \notin PaxSparse /\ f.form # "old sparse"
  <2>1. /\ entry.format = "none" /\ entry.real = entry.data
        /\ f.type # "file" => entry.real = 0
        /\ entry.map = IF entry.real = 0 THEN <<>>
                       ELSE <<[offset |-> 0, len |-> entry.real]>>
    BY <1>6 DEF EntryOf
  <2>2. WellFormed(entry)
    BY <1>3, <2>1 DEF WellFormed
  <2>3. stored = entry.real
    BY <2>1
  <2> HIDE DEF stored
  <2>4. c.size = entry.real /\ c.type = f.type
    BY <1>1, <1>2, <1>3, <1>6, <2>3
  <2>5. "size" \in DOMAIN c.pax => c.pax["size"] = entry.real
    BY <1>1, <1>2, <2>3
  <2>6. Length(entry) = entry.real
    BY <2>1 DEF Length, Unmarked
  <2> QED BY <1>2, <2>1, <2>2, <2>4, <2>5, <2>6 DEF Captured, Empty, Sized, c, m
<1> QED BY <1>4, <1>5, <1>6

----------------------------------------------------------------------------
(* The data. *)

LEMMA DataStarts == EmissionInit => DataInv
<1> SUFFICES ASSUME EmissionInit PROVE DataInv
  OBVIOUS
<1>1. /\ Init /\ meant \in Meaning /\ EntryOf(meant) /\ Archivable(meant)
      /\ member = Archived(meant) /\ fate = "none"
  BY DEF EmissionInit
<1>2. ReaderInv /\ entry \in Entry
  BY <1>1, ReaderStarts DEF Init
<1>3. Captured(Archived(meant), entry) /\ Empty(meant, entry)
  BY <1>1, <1>2, CapturedSize
<1> QED BY <1>1, <1>2, <1>3 DEF DataInv

(* Data that comes from the tar crate. *)
LEMMA PlainKeeps ==
  ASSUME DataInv, Transfer, stage = "plain"
  PROVE  ReaderInv'
<1> DEFINE n == Length(entry)
<1>1. out' = PlainData /\ pos' = Len(PlainData) /\ stage' = "end" /\ entry' = entry
  BY DEF Transfer
<1>2. entry \in Entry /\ WellFormed(entry) /\ Empty(meant, entry)
  BY DEF DataInv, ReaderInv, Captured
<1>3. n \in Nat /\ entry.real \in Nat /\ entry.data \in Nat
  BY <1>2, EntryParts DEF Number, Length
<1>4. \A k \in Nat : Byte(entry, k) \in Nat
  BY <1>2, FirstIsLead, StoredSteps DEF Byte, Zero
<1>5. /\ PlainData \in [1..n -> Nat]
      /\ ~Unmarked(entry) => \A i \in 1..n : PlainData[i] = Byte(entry, i - 1)
  <2>1. CASE Unmarked(entry)
    <3>1. PlainData = [i \in 1..entry.data |-> i] /\ n = entry.data
      BY <2>1 DEF PlainData, Length
    <3>2. \A i \in 1..entry.data : i \in Nat
      BY <1>3
    <3> QED BY <2>1, <3>1, <3>2
  <2>2. CASE ~Unmarked(entry)
    <3>1. n = (IF meant.type = "file" THEN entry.real ELSE 0)
      BY <1>2, <2>2 DEF Length, Empty
    <3>2. PlainData = [i \in 1..n |-> Byte(entry, i - 1)]
      BY <2>2, <3>1 DEF PlainData
    <3>3. \A i \in 1..n : i - 1 \in Nat
      BY <1>3
    <3>4. \A i \in 1..n : Byte(entry, i - 1) \in Nat
      BY <1>4, <3>3
    <3> HIDE DEF n
    <3> QED BY <3>2, <3>4
  <2> QED BY <2>1, <2>2
<1> HIDE DEF n
<1>6. PlainData \in Seq(Nat) /\ Len(PlainData) = n
  BY <1>3, <1>5, SeqDef, LenProperties
<1>7. IsFront(out', pos', entry)
  BY <1>1, <1>3, <1>5, <1>6 DEF IsFront
<1> QED BY <1>1, <1>2, <1>6, <1>7 DEF ReaderInv, n

LEMMA DataKeeps == DataInv /\ [EmissionNext]_emissionVars => DataInv'
<1> SUFFICES ASSUME DataInv, [EmissionNext]_emissionVars PROVE DataInv'
  OBVIOUS
<1>1. CASE UNCHANGED emissionVars
  <2>1. UNCHANGED vars /\ UNCHANGED <<entry, meant, member, fate, stage>>
    BY <1>1 DEF emissionVars, vars
  <2> QED BY <2>1, ReaderKeeps DEF DataInv
<1>2. CASE Capture
  <2>1. UNCHANGED <<entry, meant, member, fate>> /\ Detect
    BY <1>2 DEF Capture, Detect
  <2> QED BY <2>1, ReaderKeeps DEF DataInv, Next
<1>3. CASE ExpandSparse
  <2>1. UNCHANGED <<entry, meant, member, fate>> /\ Expand
    BY <1>3 DEF ExpandSparse, Expand
  <2> QED BY <2>1, ReaderKeeps DEF DataInv, Next
<1>4. CASE Emit \/ Buffer \/ Promote \/ EmitLink
  <2>1. UNCHANGED vars /\ UNCHANGED <<entry, stage, meant, member>>
    BY <1>4 DEF Emit, Buffer, Promote, EmitLink, vars
  <2> QED BY <2>1, ReaderKeeps DEF DataInv
<1>5. CASE Transfer
  <2>1. UNCHANGED headerVars /\ entry' = entry
    BY <1>5 DEF Transfer, Read, ReadShort, ReadHole, ReadChunk, ReadTail
  <2>2. ReaderInv'
    <3>1. CASE stage = "plain"
      BY <1>5, <3>1, PlainKeeps
    <3>2. CASE stage # "plain"
      BY <1>5, <3>2, ReaderKeeps DEF DataInv, Transfer, Next
    <3> QED BY <3>1, <3>2
  <2> QED BY <2>1, <2>2 DEF DataInv, headerVars
<1> QED BY <1>1, <1>2, <1>3, <1>4, <1>5 DEF EmissionNext

(* Whatever the sizes of the buffers and however little the source         *)
(* returns at a time, what is read of a file is its front, and at the end  *)
(* the whole of it: no byte is displaced by a hole, by the map's padding   *)
(* or by an empty chunk (SparseReader::read, src/sparse.rs).  A 0.0 entry  *)
(* without a chunk, which detect does not recognise, is set apart.         *)
THEOREM FilesAreWhole == EmissionSpec => []Faithful
<1>1. ASSUME DataInv PROVE Faithful
  <2>1. IsFront(out, pos, entry) /\ (stage = "end" /\ ~Unmarked(entry) => pos = entry.real)
    BY <1>1 DEF DataInv, ReaderInv, Length
  <2>2. DOMAIN out = 1..pos /\ Len(out) = pos
    BY <2>1, LenProperties DEF IsFront
  <2> QED BY <2>1, <2>2 DEF IsFront, Faithful
<1> QED BY <1>1, DataStarts, DataKeeps, PTL DEF EmissionSpec

(* A map is refused only if it describes no file, is cut off or is a list  *)
(* without a number, read from only if it describes one, and data is       *)
(* called short only when bytes the map stores are missing (detect, expand *)
(* and SparseReader::read, src/sparse.rs).                                 *)
THEOREM MapsAreJudged == EmissionSpec => []AcceptsWellFormed
<1>1. ASSUME DataInv PROVE AcceptsWellFormed
  BY <1>1 DEF DataInv, ReaderInv, AcceptsWellFormed
<1> QED BY <1>1, DataStarts, DataKeeps, PTL DEF EmissionSpec

----------------------------------------------------------------------------
(* The headers written. *)

LEMMA RewrittenSize ==
  ASSUME NEW c, NEW n, Sized(c, n)
  PROVE  Sized(RewriteHeader(c, n), n) /\ RewriteHeader(c, n).size = n
<1> DEFINE r == MakeRegular(c, n)
           w == RewriteHeader(c, n)
           pax == IF "sparse_name" \in DOMAIN c.pax THEN Without(r.pax, {"path"}) ELSE r.pax
<1>1. /\ DOMAIN r = DOMAIN c /\ r.type = "file" /\ r.size = n /\ r.pax = Without(c.pax, SparseKeys)
  BY DEF Sized, Fields, MakeRegular
<1>2. w = [r EXCEPT !.pax = pax]
  BY DEF RewriteHeader
<1> HIDE DEF r, w
<1>3. DOMAIN w = DOMAIN c /\ w.type = "file" /\ w.size = n /\ w.pax = pax
  BY <1>1, <1>2 DEF Sized, Fields
<1>4. "size" \in DOMAIN r.pax => "size" \in DOMAIN c.pax /\ r.pax["size"] = c.pax["size"]
  <2>1. /\ DOMAIN Without(c.pax, SparseKeys) = DOMAIN c.pax \ SparseKeys
        /\ \A key \in DOMAIN c.pax \ SparseKeys : Without(c.pax, SparseKeys)[key] = c.pax[key]
    BY KeptRecords
  <2> QED BY <1>1, <2>1
<1>5. "size" \in DOMAIN pax => "size" \in DOMAIN r.pax /\ pax["size"] = r.pax["size"]
  <2>1. /\ DOMAIN Without(r.pax, {"path"}) = DOMAIN r.pax \ {"path"}
        /\ \A key \in DOMAIN r.pax \ {"path"} : Without(r.pax, {"path"})[key] = r.pax[key]
    BY KeptRecords
  <2> QED BY <2>1
<1> HIDE DEF pax
<1>6. Sized(w, n) /\ w.size = n
  BY <1>3, <1>4, <1>5 DEF Sized
<1> QED BY <1>6 DEF w

(* A member written with its data. *)
LEMMA TarSize ==
  ASSUME NEW c, NEW n, NEW path, Sized(c, n), c.size = n
  PROVE  Announced(WriteToTar(c, path), n)
<1> DEFINE h == [HeaderForEmit(c) EXCEPT !.pax = Without(@, {"uname"})]
           w == AppendData(h, path)
<1>1. /\ DOMAIN h = DOMAIN c /\ h.type = c.type /\ h.size = n /\ h.pax = Without(c.pax, {"uname"})
  BY DEF Sized, Fields, HeaderForEmit
<1> HIDE DEF h
<1>2. w.type = c.type /\ w.size = n /\ w.pax = Without(c.pax, {"uname"})
  BY <1>1, AppendKeepsSize DEF Sized
<1>3. "size" \in DOMAIN w.pax => w.pax["size"] = n
  <2>1. /\ DOMAIN Without(c.pax, {"uname"}) = DOMAIN c.pax \ {"uname"}
        /\ \A key \in DOMAIN c.pax \ {"uname"} : Without(c.pax, {"uname"})[key] = c.pax[key]
    BY KeptRecords
  <2> QED BY <1>2, <2>1 DEF Sized
<1>4. w = WriteToTar(c, path)
  BY DEF WriteToTar, h
<1> HIDE DEF w
<1>5. SeenSize(w) = n
  <2>1. Records(w) = w.pax \/ DOMAIN Records(w) = {}
    BY DEF Records
  <2> QED BY <1>2, <1>3, <2>1 DEF SeenSize
<1>6. c.type = "link" => n = 0
  BY DEF Sized
<1> QED BY <1>2, <1>4, <1>5, <1>6 DEF Announced

LEMMA LinkSize ==
  ASSUME NEW c, NEW n, NEW path, NEW target, Sized(c, n)
  PROVE  Announced(WriteHardlinkToTar(c, path, target), n)
<1> DEFINE record == [path |-> path, linkpath |-> target]
           pax == Restrict(record, {key \in DOMAIN record : ~InField(record[key])})
           h == HeaderForEmit(c)
           w == WriteHardlinkToTar(c, path, target)
<1>1. "size" \notin DOMAIN pax
  BY DEF Restrict
<1>2. DOMAIN h = DOMAIN c
  BY DEF HeaderForEmit
<1>3. w = [h EXCEPT !.type = "link", !.size = 0, !.name = Cut(path), !.linkname = Cut(target),
                    !.pax = pax]
  BY DEF WriteHardlinkToTar
<1> HIDE DEF h, w, pax
<1>4. w.type = "link" /\ w.size = 0 /\ w.pax = pax
  BY <1>2, <1>3 DEF Sized, Fields
<1>5. "size" \notin DOMAIN Records(w)
  BY <1>1, <1>4 DEF Records
<1> QED BY <1>4, <1>5 DEF Announced, SeenSize, w

LEMMA CloneSize ==
  ASSUME NEW c, NEW n, Sized(c, n), c.size = n
  PROVE  Sized(CloneAsRegular(c), n) /\ CloneAsRegular(c).size = n
<1> DEFINE keys == {"path", "linkpath"} \cup SparseKeys
           w == CloneAsRegular(c)
<1>1. DOMAIN w = DOMAIN c /\ w.type = "file" /\ w.size = n /\ w.pax = Without(c.pax, keys)
  BY DEF Sized, Fields, CloneAsRegular
<1> HIDE DEF w
<1>2. "size" \in DOMAIN w.pax => w.pax["size"] = n
  <2>1. /\ DOMAIN Without(c.pax, keys) = DOMAIN c.pax \ keys
        /\ \A key \in DOMAIN c.pax \ keys : Without(c.pax, keys)[key] = c.pax[key]
    BY KeptRecords
  <2> QED BY <1>1, <2>1 DEF Sized
<1>3. Sized(w, n) /\ w.size = n
  BY <1>1, <1>2 DEF Sized
<1> QED BY <1>3 DEF w

LEMMA HeadersStart == SparseData <= SizeField /\ EmissionInit => HeaderInv
<1> SUFFICES ASSUME SparseData <= SizeField, EmissionInit PROVE HeaderInv
  OBVIOUS
<1>1. /\ entry \in Entry /\ stage = "new" /\ meant \in Meaning /\ EntryOf(meant)
      /\ Archivable(meant) /\ member = Archived(meant) /\ canonical = Uncaptured
      /\ fate = "none" /\ written = <<>>
  BY DEF EmissionInit, Init
<1>2. /\ Captured(Archived(meant), entry)
      /\ Sized(FromEntry(Archived(meant), entry.real), Length(entry))
  BY <1>1, CapturedSize
<1> QED BY <1>1, <1>2 DEF HeaderInv

LEMMA HeadersKept == HeaderInv /\ [EmissionNext]_emissionVars => HeaderInv'
<1> SUFFICES ASSUME HeaderInv, [EmissionNext]_emissionVars PROVE HeaderInv'
  OBVIOUS
<1> DEFINE h == canonical.header
           n == Length(entry)
<1>1. CASE UNCHANGED emissionVars
  <2>1. UNCHANGED <<entry, stage, meant, member, canonical, fate, written>>
    BY <1>1 DEF emissionVars, vars
  <2> QED BY <2>1 DEF HeaderInv
<1>2. CASE Capture
  <2> DEFINE c == FromEntry(member, entry.real)
  <2>1. /\ UNCHANGED <<entry, meant, member, written>>
        /\ canonical' = [header |-> c, path |-> NormalizePath(RawPath(c))]
        /\ Detect
    BY <1>2 DEF Capture, Detect
  <2>2. Sized(c, n) /\ (Recognised(entry) \/ c.size = n)
    BY DEF HeaderInv, Captured
  <2>3. /\ Recognised(entry) => stage' \in {"detected", "rejected"}
        /\ stage' = "detected" => Recognised(entry)
    BY <2>1 DEF Detect
  <2> HIDE DEF c
  <2>4. "header" \in DOMAIN canonical' /\ canonical'.header = c
    BY <2>1
  <2> QED BY <2>1, <2>2, <2>3, <2>4 DEF HeaderInv
<1>3. CASE ExpandSparse
  <2>1. /\ UNCHANGED <<entry, meant, member, written>> /\ stage = "detected"
        /\ canonical' = [canonical EXCEPT !.header = RewriteHeader(@, entry.real)]
        /\ stage' # "detected"
    BY <1>3 DEF ExpandSparse, Expand
  <2>2. "header" \in DOMAIN canonical /\ Sized(h, n) /\ n = entry.real
    BY <2>1 DEF HeaderInv, Recognised, Length
  <2>3. "header" \in DOMAIN canonical' /\ canonical'.header = RewriteHeader(h, n)
    BY <2>1, <2>2
  <2> QED BY <2>1, <2>2, <2>3, RewrittenSize DEF HeaderInv
<1>4. ASSUME Ready PROVE Sized(h, n) /\ h.size = n
  BY <1>4 DEF Ready, HeaderInv
<1>5. CASE Emit
  <2>1. /\ UNCHANGED <<entry, stage, meant, member, canonical>> /\ Ready
        /\ written' = <<WriteToTar(h, canonical.path)>>
    BY <1>5 DEF Emit, vars
  <2>2. Announced(WriteToTar(h, canonical.path), n)
    BY <1>4, <2>1, TarSize
  <2> QED BY <2>1, <2>2 DEF HeaderInv, Ready
<1>6. CASE Buffer
  <2>1. UNCHANGED <<entry, stage, meant, member, canonical, written>> /\ Ready
    BY <1>6 DEF Buffer, vars
  <2> QED BY <2>1 DEF HeaderInv, Ready
<1>7. CASE Promote
  <2>1. PICK first, second \in GroupNames :
          written' = <<WriteToTar(CloneAsRegular(h), first), WriteHardlinkToTar(h, second, first)>>
    BY <1>7 DEF Promote
  <2>2. UNCHANGED <<entry, stage, meant, member, canonical>> /\ stage = "end"
    BY <1>7 DEF Promote, vars
  <2>3. Sized(h, n) /\ h.size = n
    BY <2>2 DEF HeaderInv
  <2>4. /\ Announced(WriteToTar(CloneAsRegular(h), first), n)
        /\ Announced(WriteHardlinkToTar(h, second, first), n)
    BY <2>3, CloneSize, TarSize, LinkSize
  <2> QED BY <2>1, <2>2, <2>4 DEF HeaderInv
<1>8. CASE EmitLink
  <2> DEFINE target == NormalizePath(LinkName(h))
  <2>1. /\ UNCHANGED <<entry, stage, meant, member, canonical>> /\ Ready
        /\ written' = <<WriteHardlinkToTar(h, canonical.path, target)>>
    BY <1>8 DEF EmitLink, vars
  <2>2. Announced(WriteHardlinkToTar(h, canonical.path, target), n)
    BY <1>4, <2>1, LinkSize
  <2> QED BY <2>1, <2>2 DEF HeaderInv, Ready
<1>9. CASE Transfer
  <2>1. UNCHANGED <<meant, member, canonical, written>> /\ entry' = entry
    BY <1>9 DEF Transfer, headerVars, Read, ReadShort, ReadHole, ReadChunk, ReadTail
  <2>2. stage \notin {"detected", "rejected"} /\ stage' \notin {"new", "detected"}
    BY <1>9 DEF Transfer, Read, ReadShort, ReadHole, ReadChunk, ReadTail
  <2>3. fate # "none"
    BY <1>9 DEF Transfer
  <2> QED BY <2>1, <2>2, <2>3 DEF HeaderInv
<1> QED BY <1>1, <1>2, <1>3, <1>5, <1>6, <1>7, <1>8, <1>9 DEF EmissionNext

(* Behind the header of every member stand as many bytes as it announces,  *)
(* by its size field or by a size record, whether it was written as it     *)
(* came, expanded from any sparse form, promoted from a buffer or turned   *)
(* into a link: provided no sparse file stores more data than a header's   *)
(* size field holds (RewriteHeader leaves a size record in place).         *)
THEOREM MembersAreInStep ==
  ASSUME SparseData <= SizeField
  PROVE  EmissionSpec => []InStep
<1>1. ASSUME DataInv, HeaderInv PROVE InStep
  <2>1. stage = "end" => Len(out) = Length(entry)
    BY <1>1 DEF DataInv, ReaderInv, IsFront
  <2>2. \A i \in DOMAIN written : Announced(written[i], Length(entry))
    BY <1>1 DEF HeaderInv
  <2> QED BY <2>1, <2>2 DEF Announced, InStep
<1> QED BY <1>1, DataStarts, DataKeeps, HeadersStart, HeadersKept, PTL DEF EmissionSpec

----------------------------------------------------------------------------
(* Paths. *)

Path == Seq(DOMAIN Width)

LEMMA PastLead ==
  ASSUME NEW lead, NEW path \in Path, NEW k \in Nat, k < Len(path),
         \A i \in 1..k : path[i] = lead, path[k + 1] # lead
  PROVE  Past(lead, path) = SubSeq(path, k + 1, Len(path))
<1> DEFINE live == {i \in DOMAIN path : path[i] # lead}
<1>1. DOMAIN path = 1..Len(path) /\ Len(path) \in Nat
  BY LenProperties DEF Path
<1>2. k + 1 \in live /\ \A i \in live : k + 1 <= i
  BY <1>1
<1>3. \A i \in live : (\A j \in live : i <= j) => i = k + 1
  BY <1>1, <1>2
<1> HIDE DEF live
<1>4. Min(live) = k + 1
  BY <1>2, <1>3 DEF Min
<1>5. live # {}
  BY <1>2
<1> QED BY <1>4, <1>5 DEF Past, live

LEMMA Joined ==
  ASSUME NEW s \in Path, NEW k \in 1..(Len(s) - 1)
  PROVE  SubSeq(s, 1, k) \o SubSeq(s, k + 1, Len(s)) = s
<1> DEFINE a == SubSeq(s, 1, k)
           b == SubSeq(s, k + 1, Len(s))
<1>1. Len(s) \in Nat /\ k \in Nat /\ 1 <= k /\ k < Len(s)
  BY LenProperties DEF Path
<1>2. a \in Path /\ Len(a) = k /\ \A i \in 1..k : a[i] = s[i]
  BY <1>1, SubSeqProperties DEF Path
<1>3. b \in Path /\ Len(b) = Len(s) - k /\ \A i \in 1..(Len(s) - k) : b[i] = s[k + i]
  <2>1. /\ b \in Seq(DOMAIN Width) /\ Len(b) = Len(s) - (k + 1) + 1
        /\ \A i \in 1..(Len(s) - (k + 1) + 1) : b[i] = s[(k + 1) + i - 1]
    BY <1>1, SubSeqProperties DEF Path
  <2>2. Len(s) - (k + 1) + 1 = Len(s) - k
    BY <1>1
  <2>3. \A i \in 1..(Len(s) - k) : (k + 1) + i - 1 = k + i
    BY <1>1
  <2> QED BY <2>1, <2>2, <2>3 DEF Path
<1> HIDE DEF a, b
<1>4. /\ a \o b \in Path /\ Len(a \o b) = Len(s)
      /\ \A i \in 1..Len(s) : (a \o b)[i] = IF i <= k THEN a[i] ELSE b[i - k]
  <2>1. /\ a \o b \in Seq(DOMAIN Width) /\ Len(a \o b) = Len(a) + Len(b)
        /\ \A i \in 1..(Len(a) + Len(b)) :
             (a \o b)[i] = IF i <= Len(a) THEN a[i] ELSE b[i - Len(a)]
    BY <1>2, <1>3, ConcatProperties DEF Path
  <2>2. Len(a) + Len(b) = Len(s)
    BY <1>1, <1>2, <1>3
  <2> QED BY <1>2, <2>1, <2>2 DEF Path
<1>5. \A i \in 1..Len(s) : (a \o b)[i] = s[i]
  <2> SUFFICES ASSUME NEW i \in 1..Len(s) PROVE (a \o b)[i] = s[i]
    OBVIOUS
  <2>1. CASE i <= k
    BY <1>1, <1>2, <1>4, <2>1
  <2>2. CASE ~(i <= k)
    <3>1. i - k \in 1..(Len(s) - k) /\ k + (i - k) = i
      BY <1>1, <2>2
    <3> QED BY <1>3, <1>4, <2>2, <3>1
  <2> QED BY <2>1, <2>2
<1>6. a \o b = s
  BY <1>4, <1>5, SeqEqual DEF Path
<1> QED BY <1>6 DEF a, b

(* What archivers put in front of a path is what normalize_path takes off. *)
LEMMA Normalized ==
  ASSUME NEW r, NEW p, Spelled({r}, {p})
  PROVE  /\ r \o p \in Path /\ r \o p # <<>> /\ p \in Path /\ p # <<>>
         /\ NormalizePath(r \o p) = p /\ NormalizePath(p) = p
<1> DEFINE q == r \o p
           n == Len(r)
           m == Len(p)
<1>1. /\ r \in Path /\ p \in Path /\ p # <<>> /\ p[1] # "./" /\ p[1] # "/"
      /\ DOMAIN r = 1..n
  <2>1. r \in Seq({"./", "/"})
    BY DEF Spelled
  <2>2. r \in Path /\ DOMAIN r = 1..n
    <3>1. r \in [1..Len(r) -> {"./", "/"}] /\ Len(r) \in Nat
      BY <2>1, LenProperties
    <3>2. \A i \in 1..Len(r) : r[i] \in DOMAIN Width
      BY <3>1 DEF Spelled
    <3>3. r \in [1..Len(r) -> DOMAIN Width]
      BY <3>1, <3>2
    <3> QED BY <3>1, <3>3, SeqDef DEF Path
  <2> QED BY <2>2 DEF Spelled, Path
<1>2. PICK k \in 0..n : \A i \in 1..n : r[i] = IF i <= k THEN "./" ELSE "/"
  BY <1>1 DEF Spelled
<1>3. n \in Nat /\ m \in Nat /\ m > 0
  BY <1>1, LenProperties, EmptySeq DEF Path
<1>4. /\ q \in Path /\ Len(q) = n + m
      /\ \A i \in 1..n : q[i] = r[i]
      /\ \A i \in 1..m : q[n + i] = p[i]
  <2>1. /\ q \in Path /\ Len(q) = n + m
        /\ \A i \in 1..(n + m) : q[i] = IF i <= n THEN r[i] ELSE p[i - n]
    BY <1>1, ConcatProperties DEF Path
  <2>2. \A i \in 1..n : i \in 1..(n + m) /\ i <= n
    BY <1>3
  <2>3. \A i \in 1..m : n + i \in 1..(n + m) /\ ~(n + i <= n) /\ (n + i) - n = i
    BY <1>3
  <2> QED BY <2>1, <2>2, <2>3
<1> HIDE DEF q, n, m
<1> DEFINE s == SubSeq(q, k + 1, Len(q))
<1>5. Past("./", q) = s
  <2>1. \A i \in 1..k : q[i] = "./"
    BY <1>2, <1>3, <1>4
  <2>2. q[k + 1] # "./"
    <3>1. CASE k = n
      BY <1>1, <1>3, <1>4, <3>1
    <3>2. CASE k # n
      <4>1. k + 1 \in 1..n /\ ~(k + 1 <= k)
        BY <1>3, <3>2
      <4> QED BY <1>2, <1>4, <4>1
    <3> QED BY <3>1, <3>2
  <2>3. k \in Nat /\ k < Len(q)
    BY <1>3, <1>4
  <2> QED BY <1>4, <2>1, <2>2, <2>3, PastLead
<1>6. /\ s \in Path /\ Len(s) = (n - k) + m
      /\ \A i \in 1..((n - k) + m) : s[i] = q[k + i]
  <2>1. /\ s \in Seq(DOMAIN Width) /\ Len(s) = Len(q) - (k + 1) + 1
        /\ \A i \in 1..(Len(q) - (k + 1) + 1) : s[i] = q[(k + 1) + i - 1]
    BY <1>3, <1>4, SubSeqProperties DEF Path
  <2>2. Len(q) - (k + 1) + 1 = (n - k) + m
    BY <1>3, <1>4
  <2>3. \A i \in 1..((n - k) + m) : (k + 1) + i - 1 = k + i
    BY <1>3
  <2> QED BY <2>1, <2>2, <2>3 DEF Path
<1> HIDE DEF s
<1> DEFINE j == n - k
           u == SubSeq(s, j + 1, Len(s))
<1>7. j \in Nat /\ j < Len(s) /\ k + j = n
  BY <1>3, <1>6
<1>8. \A i \in 1..m : s[j + i] = p[i]
  <2> SUFFICES ASSUME NEW i \in 1..m PROVE s[j + i] = p[i]
    OBVIOUS
  <2>1. j + i \in 1..(j + m) /\ k + (j + i) = n + i
    BY <1>3, <1>7
  <2> QED BY <1>4, <1>6, <2>1
<1>9. Past("/", s) = u
  <2>1. ASSUME NEW i \in 1..j PROVE s[i] = "/"
    <3>1. i \in 1..(j + m) /\ k + i \in 1..n /\ ~(k + i <= k)
      BY <1>3, <1>7
    <3> QED BY <1>2, <1>4, <1>6, <3>1
  <2>2. s[j + 1] # "/"
    BY <1>1, <1>3, <1>8
  <2> HIDE DEF j
  <2> QED BY <1>6, <1>7, <2>1, <2>2, PastLead
<1>10. u = p
  <2> HIDE DEF j
  <2>1. /\ u \in Seq(DOMAIN Width) /\ Len(u) = Len(s) - (j + 1) + 1
        /\ \A i \in 1..(Len(s) - (j + 1) + 1) : u[i] = s[(j + 1) + i - 1]
    BY <1>6, <1>7, SubSeqProperties DEF Path
  <2>2. Len(s) - (j + 1) + 1 = m
    BY <1>3, <1>6, <1>7 DEF j
  <2>3. \A i \in 1..m : (j + 1) + i - 1 = j + i
    BY <1>3, <1>7
  <2>4. \A i \in 1..m : u[i] = p[i]
    BY <1>8, <2>1, <2>2, <2>3
  <2>5. Len(p) = m
    BY DEF m
  <2> HIDE DEF u
  <2> QED BY <1>1, <2>1, <2>2, <2>4, <2>5, SeqEqual DEF Path
<1>11. NormalizePath(q) = p
  BY <1>5, <1>9, <1>10 DEF NormalizePath
<1>12. NormalizePath(p) = p
  <2>1. SubSeq(p, 1, Len(p)) = p
    BY <1>1, SubSeqFull DEF Path
  <2>2. \A lead : p[1] # lead => Past(lead, p) = p
    <3> SUFFICES ASSUME NEW lead, p[1] # lead PROVE Past(lead, p) = p
      OBVIOUS
    <3>1. 0 < Len(p) /\ p[0 + 1] # lead /\ \A i \in 1..0 : p[i] = lead
      BY <1>3 DEF m
    <3>2. Past(lead, p) = SubSeq(p, 0 + 1, Len(p))
      BY <1>1, <3>1, PastLead
    <3> QED BY <2>1, <3>2
  <2> QED BY <1>1, <2>2 DEF NormalizePath
<1>13. q # <<>>
  BY <1>3, <1>4
<1> QED BY <1>1, <1>4, <1>11, <1>12, <1>13 DEF q

(* A path given to the builder is in the fields of the header or in a GNU  *)
(* record, whole.                                                          *)
LEMMA AppendSpells ==
  ASSUME NEW c, NEW path \in Path, path # <<>>, Fields \subseteq DOMAIN c,
         c.prefix = <<>>, c.longname = <<>>
  PROVE  LET w == AppendData(c, path) IN
         /\ w.kind = c.kind /\ w.linkname = c.linkname /\ w.longlink = c.longlink
         /\ w.owner = c.owner
         /\ w.longname \in {<<>>, path}
         /\ w.longname = <<>> => w.prefix \o w.name = path
<1> DEFINE w == AppendData(c, path)
<1>1. <<>> \o path = path
  BY ConcatEmptySeq DEF Path
<1>2. CASE InField(path)
  <2>1. w = [c EXCEPT !.name = path]
    BY <1>2 DEF AppendData
  <2> HIDE DEF w
  <2>2. /\ w.kind = c.kind /\ w.linkname = c.linkname /\ w.longlink = c.longlink
        /\ w.owner = c.owner /\ w.longname = <<>> /\ w.prefix = <<>> /\ w.name = path
    BY <2>1 DEF Fields
  <2> QED BY <1>1, <2>2 DEF w
<1>3. CASE ~InField(path) /\ c.kind = "ustar" /\ Splits(path) # {}
  <2> DEFINE k == CHOOSE k \in Splits(path) : TRUE
  <2>1. k \in 1..(Len(path) - 1)
    BY <1>3 DEF Splits
  <2>2. w = [c EXCEPT !.prefix = SubSeq(path, 1, k), !.name = SubSeq(path, k + 1, Len(path))]
    BY <1>3 DEF AppendData
  <2> HIDE DEF w, k
  <2>3. /\ w.kind = c.kind /\ w.linkname = c.linkname /\ w.longlink = c.longlink
        /\ w.owner = c.owner /\ w.longname = <<>>
        /\ w.prefix = SubSeq(path, 1, k) /\ w.name = SubSeq(path, k + 1, Len(path))
    BY <2>2 DEF Fields
  <2>4. w.prefix \o w.name = path
    BY <2>1, <2>3, Joined
  <2> QED BY <2>3, <2>4 DEF w
<1>4. CASE ~InField(path) /\ ~(c.kind = "ustar" /\ Splits(path) # {})
  <2>1. w = [c EXCEPT !.longname = path, !.name = Cut(path)]
    BY <1>4 DEF AppendData
  <2> HIDE DEF w
  <2>2. /\ w.kind = c.kind /\ w.linkname = c.linkname /\ w.longlink = c.longlink
        /\ w.owner = c.owner /\ w.longname = path
    BY <2>1 DEF Fields
  <2> QED BY <2>2 DEF w
<1> QED BY <1>2, <1>3, <1>4

(* What a reader of the layer finds of the file f in its member m. *)
Stands(m, f) ==
  LET path == f.root \o f.path
      target == f.root \o f.target
  IN  /\ Fields \subseteq DOMAIN m
      /\ m.type = f.type \/ (m.type = "sparse" /\ f.type = "file")
      /\ IF "sparse_name" \in DOMAIN m.pax THEN m.pax["sparse_name"] = path
         ELSE SeenPath(m) = path /\ ("path" \in DOMAIN m.pax => m.pax["path"] = path)
      /\ DOMAIN m.pax \cap SparseKeys # {} => m.type = "file" /\ f.form \in PaxSparse
      /\ "sparse_name" \in DOMAIN m.pax => f.form # "0.0"
      /\ f.type # "file" =>
           IF "linkpath" \in DOMAIN m.pax THEN m.pax["linkpath"] = target
           ELSE SeenLink(m) = target

LEMMA ArchivedStands ==
  ASSUME NEW f \in Meaning, EntryOf(f), Archivable(f), Spelled(Roots, Names)
  PROVE  Stands(Archived(f), f)
<1> DEFINE path == f.root \o f.path
           target == IF f.type = "file" THEN <<>> ELSE f.root \o f.target
           stored == IF f.type = "file" THEN entry.data ELSE 0
           gnu == f.form \in {"gnu", "old sparse"}
           named == f.form \in {"0.1", "1.0"}
           blank == [kind |-> IF gnu THEN "gnu" ELSE "ustar",
                     type |-> IF f.form = "old sparse" THEN "sparse" ELSE f.type,
                     prefix |-> <<>>, name |-> <<>>, linkname |-> Cut(target),
                     longname |-> <<>>,
                     longlink |-> IF gnu /\ ~InField(target) THEN target ELSE <<>>,
                     size |-> stored, owner |-> TRUE, pax |-> << >>]
           record == [uname |-> "root", xattr |-> "capability",
                      path |-> IF named THEN Placeholder ELSE path, linkpath |-> target,
                      size |-> stored, sparse_map |-> entry.map, sparse_size |-> entry.real,
                      sparse_name |-> path]
           Needed(key) ==
             CASE key = "path"        -> named \/ ~InField(path)
               [] key = "linkpath"    -> ~InField(target)
               [] key = "size"        -> stored > SizeField
               [] key = "sparse_map"  -> Recognised(entry)
               [] key = "sparse_size" -> f.form \in PaxSparse
               [] key = "sparse_name" -> named
               [] OTHER               -> TRUE
           records == Restrict(record, {key \in DOMAIN record : Needed(key)})
           m == Archived(f)
<1>1. m = IF gnu \/ f.form = "ustar" THEN AppendData(blank, path)
          ELSE [blank EXCEPT !.pax = records, !.name = IF named THEN Placeholder ELSE Cut(path)]
  BY DEF Archived
<1>2. /\ Fields \subseteq DOMAIN blank
      /\ blank.type = IF f.form = "old sparse" THEN "sparse" ELSE f.type
      /\ blank.prefix = <<>> /\ blank.longname = <<>> /\ blank.linkname = Cut(target)
      /\ blank.longlink = IF gnu /\ ~InField(target) THEN target ELSE <<>>
      /\ DOMAIN blank.pax = {}
  BY DEF Fields
<1>3. /\ "path" \in DOMAIN records <=> named \/ ~InField(path)
      /\ ~named /\ "path" \in DOMAIN records => records["path"] = path
      /\ "linkpath" \in DOMAIN records <=> ~InField(target)
      /\ "linkpath" \in DOMAIN records => records["linkpath"] = target
      /\ "sparse_map" \in DOMAIN records <=> Recognised(entry)
      /\ "sparse_size" \in DOMAIN records <=> f.form \in PaxSparse
      /\ "sparse_name" \in DOMAIN records <=> named
      /\ "sparse_name" \in DOMAIN records => records["sparse_name"] = path
  <2> HIDE DEF stored, path, target, named
  <2> QED BY DEF Restrict
<1>4. /\ path \in Path /\ path # <<>> /\ <<>> \o path = path
      /\ f.type # "file" => target = f.root \o f.target /\ target # <<>>
      /\ f.type \in {"file", "symlink", "link"}
  <2>1. /\ f.root \in Roots /\ f.path \in Names /\ f.target \in Names
        /\ f.type \in {"file", "symlink", "link"}
    BY DEF Meaning
  <2>2. Spelled({f.root}, {f.path}) /\ Spelled({f.root}, {f.target})
    BY <2>1 DEF Spelled
  <2>3. path \in Path /\ path # <<>> /\ f.root \o f.target # <<>>
    BY <2>2, Normalized
  <2>4. <<>> \o path = path
    BY <2>3, ConcatEmptySeq DEF Path
  <2> QED BY <2>1, <2>3, <2>4
<1>5. /\ f.form = "ustar" /\ f.type # "file" => InField(target)
      /\ f.form \notin {"ustar", "gnu", "pax"} => f.type = "file"
  BY DEF Archivable
<1> HIDE DEF m, blank, records, stored, path, target
<1>6. CASE gnu \/ f.form = "ustar"
  <2>1. /\ DOMAIN m = DOMAIN blank /\ m.type = blank.type /\ m.pax = blank.pax
        /\ m.linkname = blank.linkname /\ m.longlink = blank.longlink
        /\ m.longname \in {<<>>, path}
        /\ m.longname = <<>> => m.prefix \o m.name = path
    <3>1. m = AppendData(blank, path)
      BY <1>1, <1>6
    <3>2. DOMAIN m = DOMAIN blank /\ m.type = blank.type /\ m.pax = blank.pax
      BY <1>2, <3>1, AppendKeepsSize
    <3>3. /\ m.linkname = blank.linkname /\ m.longlink = blank.longlink
          /\ m.longname \in {<<>>, path}
          /\ m.longname = <<>> => m.prefix \o m.name = path
      BY <1>2, <1>4, <3>1, AppendSpells
    <3> QED BY <3>2, <3>3
  <2>2. DOMAIN Records(m) = {} /\ DOMAIN m.pax = {}
    <3>1. DOMAIN m.pax = {}
      BY <1>2, <2>1
    <3>2. Records(m) = m.pax \/ DOMAIN Records(m) = {}
      BY DEF Records
    <3> QED BY <3>1, <3>2
  <2>3. SeenPath(m) = path
    BY <1>4, <2>1, <2>2 DEF SeenPath
  <2>4. f.type # "file" => SeenLink(m) = target
    <3>1. CASE InField(target)
      BY <1>2, <2>1, <2>2, <3>1 DEF SeenLink, Cut
    <3>2. CASE ~InField(target)
      BY <1>2, <1>4, <1>5, <1>6, <2>1, <2>2, <3>2 DEF SeenLink
    <3> QED BY <3>1, <3>2
  <2>5. m.type = f.type \/ (m.type = "sparse" /\ f.type = "file")
    BY <1>2, <1>5, <2>1
  <2> QED BY <1>2, <1>4, <2>1, <2>2, <2>3, <2>4, <2>5 DEF Stands, m, path
<1>7. CASE ~(gnu \/ f.form = "ustar")
  <2>1. /\ DOMAIN m = DOMAIN blank /\ m.type = f.type /\ m.pax = records
        /\ m.longname = <<>> /\ m.longlink = <<>> /\ m.prefix = <<>> /\ m.linkname = Cut(target)
        /\ ~named => m.name = Cut(path)
    BY <1>1, <1>2, <1>7 DEF Fields
  <2>2. Records(m) = records
    BY <2>1 DEF Records
  <2>3. ~named => SeenPath(m) = path
    <3>1. CASE InField(path)
      BY <1>3, <1>4, <2>1, <2>2, <3>1 DEF SeenPath, Cut
    <3>2. CASE ~InField(path)
      BY <1>3, <2>1, <2>2, <3>2 DEF SeenPath
    <3> QED BY <3>1, <3>2
  <2>4. SeenLink(m) = target
    <3>1. CASE InField(target)
      BY <1>3, <2>1, <2>2, <3>1 DEF SeenLink, Cut
    <3>2. CASE ~InField(target)
      BY <1>3, <2>1, <2>2, <3>2 DEF SeenLink
    <3> QED BY <3>1, <3>2
  <2>5. DOMAIN records \cap SparseKeys # {} => f.type = "file" /\ f.form \in PaxSparse
    <3>1. Recognised(entry) => f.form \in PaxSparse
      BY DEF EntryOf, Recognised
    <3> QED BY <1>3, <1>5, <3>1 DEF SparseKeys, PaxSparse, named
  <2>6. "sparse_name" \in DOMAIN records => f.form # "0.0"
    BY <1>3 DEF named
  <2> QED BY <1>2, <1>3, <1>4, <2>1, <2>3, <2>4, <2>5, <2>6 DEF Stands, m, path
<1> QED BY <1>6, <1>7

(* What a header captured of the member m keeps of the file f.             *)
Spells(c, m, f) ==
  /\ Fields \subseteq DOMAIN c
  /\ c.type = f.type /\ c.longname = <<>> /\ c.longlink = <<>>
  /\ f.type # "file" => LinkName(c) = f.root \o f.target
  /\ "path" \in DOMAIN c.pax /\ "sparse_name" \notin DOMAIN c.pax =>
       NormalizePath(c.pax["path"]) = f.path
  /\ DOMAIN c.pax \cap SparseKeys # {} => f.type = "file" /\ f.form \in PaxSparse
  /\ "sparse_name" \in DOMAIN c.pax => f.form # "0.0"
  /\ "xattr" \in DOMAIN m.pax => "xattr" \in DOMAIN c.pax

(* A header without sparse records, but for those of a 0.0 entry that is   *)
(* not recognised.                                                         *)
Plain(c, unmarked) ==
  "sparse_name" \notin DOMAIN c.pax /\ (unmarked \/ DOMAIN c.pax \cap SparseKeys = {})

(* process_layer's key of the member m, before it is normalised. *)
Key(c, m) == IF "sparse_name" \in DOMAIN c.pax THEN c.pax["sparse_name"] ELSE SeenPath(m)

LEMMA FromEntrySpells ==
  ASSUME NEW f \in Meaning, NEW m, NEW n, Stands(m, f), NormalizePath(f.root \o f.path) = f.path
  PROVE  LET c == FromEntry(m, n) IN Spells(c, m, f) /\ NormalizePath(Key(c, m)) = f.path
<1> DEFINE pax == IF "linkpath" \notin DOMAIN m.pax /\ SeenLink(m) # m.linkname
                  THEN [key \in DOMAIN m.pax \cup {"linkpath"} |->
                          IF key = "linkpath" THEN SeenLink(m) ELSE m.pax[key]]
                  ELSE m.pax
           d == [m EXCEPT !.pax = pax, !.longname = <<>>, !.longlink = <<>>]
           c == FromEntry(m, n)
           path == f.root \o f.path
           target == f.root \o f.target
<1>1. /\ Fields \subseteq DOMAIN m
      /\ m.type = f.type \/ (m.type = "sparse" /\ f.type = "file")
      /\ IF "sparse_name" \in DOMAIN m.pax THEN m.pax["sparse_name"] = path
         ELSE SeenPath(m) = path /\ ("path" \in DOMAIN m.pax => m.pax["path"] = path)
      /\ DOMAIN m.pax \cap SparseKeys # {} => m.type = "file" /\ f.form \in PaxSparse
      /\ "sparse_name" \in DOMAIN m.pax => f.form # "0.0"
      /\ f.type # "file" =>
           IF "linkpath" \in DOMAIN m.pax THEN m.pax["linkpath"] = target
           ELSE SeenLink(m) = target
  BY DEF Stands
<1>2. c = IF d.type = "sparse" THEN MakeRegular(d, n) ELSE d
  BY DEF FromEntry
<1>3. /\ DOMAIN pax \in {DOMAIN m.pax, DOMAIN m.pax \cup {"linkpath"}}
      /\ \A key \in DOMAIN m.pax : pax[key] = m.pax[key]
      /\ f.type # "file" =>
           (IF "linkpath" \in DOMAIN pax THEN pax["linkpath"] ELSE m.linkname) = target
  <2> HIDE DEF target, path
  <2>1. CASE "linkpath" \notin DOMAIN m.pax /\ SeenLink(m) # m.linkname
    BY <1>1, <2>1
  <2>2. CASE ~("linkpath" \notin DOMAIN m.pax /\ SeenLink(m) # m.linkname)
    BY <1>1, <2>2
  <2> QED BY <2>1, <2>2
<1>4. /\ Fields \subseteq DOMAIN d /\ d.type = m.type /\ d.linkname = m.linkname /\ d.pax = pax
      /\ d.longname = <<>> /\ d.longlink = <<>>
  BY <1>1 DEF Fields
<1> HIDE DEF c, d, pax, path, target
<1>5. NormalizePath(path) = f.path
  BY DEF path
<1>6. f.type \in {"file", "symlink", "link"}
  BY DEF Meaning
<1>7. CASE m.type = "sparse"
  <2>1. /\ DOMAIN c = DOMAIN d /\ c.type = "file" /\ c.longname = <<>> /\ c.longlink = <<>>
        /\ c.pax = Without(pax, SparseKeys)
    BY <1>2, <1>4, <1>7 DEF MakeRegular, Fields
  <2>2. /\ DOMAIN c.pax = DOMAIN pax \ SparseKeys
        /\ \A key \in DOMAIN c.pax : c.pax[key] = pax[key]
    <3>1. /\ DOMAIN Without(pax, SparseKeys) = DOMAIN pax \ SparseKeys
          /\ \A key \in DOMAIN pax \ SparseKeys : Without(pax, SparseKeys)[key] = pax[key]
      BY KeptRecords
    <3> QED BY <2>1, <3>1
  <2>3. DOMAIN m.pax \cap SparseKeys = {} /\ f.type = "file"
    BY <1>1, <1>6, <1>7
  <2>4. DOMAIN c.pax = DOMAIN pax /\ "sparse_name" \notin DOMAIN m.pax
    BY <1>3, <2>2, <2>3 DEF SparseKeys
  <2>5. NormalizePath(Key(c, m)) = f.path
    BY <1>1, <1>5, <2>2, <2>4 DEF Key, SparseKeys
  <2>6. "path" \in DOMAIN c.pax => NormalizePath(c.pax["path"]) = f.path
    BY <1>1, <1>3, <1>5, <2>2, <2>4
  <2>7. Plain(c, FALSE)
    BY <2>2 DEF Plain, SparseKeys
  <2>8. "xattr" \in DOMAIN m.pax => "xattr" \in DOMAIN c.pax
    BY <1>3, <2>4
  <2> QED BY <1>4, <2>1, <2>3, <2>5, <2>6, <2>7, <2>8 DEF Spells, Plain, c
<1>8. CASE m.type # "sparse"
  <2>1. c = d
    BY <1>2, <1>4, <1>8
  <2>2. f.type # "file" => LinkName(c) = target
    BY <1>3, <1>4, <2>1 DEF LinkName
  <2>3. NormalizePath(Key(c, m)) = f.path
    BY <1>1, <1>3, <1>4, <1>5, <2>1 DEF Key
  <2>4. "path" \in DOMAIN c.pax /\ "sparse_name" \notin DOMAIN c.pax =>
          NormalizePath(c.pax["path"]) = f.path
    BY <1>1, <1>3, <1>4, <1>5, <2>1
  <2>5. /\ DOMAIN c.pax \cap SparseKeys # {} => f.type = "file" /\ f.form \in PaxSparse
        /\ "sparse_name" \in DOMAIN c.pax => f.form # "0.0"
    BY <1>1, <1>3, <1>4, <1>8, <2>1 DEF SparseKeys
  <2>6. "xattr" \in DOMAIN m.pax => "xattr" \in DOMAIN c.pax
    BY <1>3, <1>4, <2>1
  <2> QED BY <1>1, <1>4, <1>8, <2>1, <2>2, <2>3, <2>4, <2>5, <2>6 DEF Spells, c, target
<1> QED BY <1>7, <1>8

LEMMA RewrittenSpells ==
  ASSUME NEW c, NEW m, NEW f, NEW n, Spells(c, m, f), f.type = "file"
  PROVE  Spells(RewriteHeader(c, n), m, f) /\ Plain(RewriteHeader(c, n), FALSE)
<1> DEFINE r == MakeRegular(c, n)
           w == RewriteHeader(c, n)
           pax == IF "sparse_name" \in DOMAIN c.pax THEN Without(r.pax, {"path"}) ELSE r.pax
<1>1. /\ DOMAIN r = DOMAIN c /\ r.type = "file" /\ r.pax = Without(c.pax, SparseKeys)
      /\ r.longname = <<>> /\ r.longlink = <<>>
  BY DEF Spells, Fields, MakeRegular
<1>2. w = [r EXCEPT !.pax = pax]
  BY DEF RewriteHeader
<1> HIDE DEF r, w
<1>3. /\ DOMAIN w = DOMAIN c /\ w.type = "file" /\ w.pax = pax
      /\ w.longname = <<>> /\ w.longlink = <<>>
  BY <1>1, <1>2 DEF Spells, Fields
<1>4. /\ DOMAIN r.pax = DOMAIN c.pax \ SparseKeys
      /\ \A key \in DOMAIN r.pax : r.pax[key] = c.pax[key]
  <2>1. /\ DOMAIN Without(c.pax, SparseKeys) = DOMAIN c.pax \ SparseKeys
        /\ \A key \in DOMAIN c.pax \ SparseKeys : Without(c.pax, SparseKeys)[key] = c.pax[key]
    BY KeptRecords
  <2> QED BY <1>1, <2>1
<1>5. /\ DOMAIN pax = IF "sparse_name" \in DOMAIN c.pax THEN DOMAIN r.pax \ {"path"}
                      ELSE DOMAIN r.pax
      /\ \A key \in DOMAIN pax : pax[key] = r.pax[key]
  <2>1. /\ DOMAIN Without(r.pax, {"path"}) = DOMAIN r.pax \ {"path"}
        /\ \A key \in DOMAIN r.pax \ {"path"} : Without(r.pax, {"path"})[key] = r.pax[key]
    BY KeptRecords
  <2> QED BY <2>1
<1> HIDE DEF pax
<1>6. Plain(w, FALSE)
  BY <1>3, <1>4, <1>5 DEF Plain, SparseKeys
<1>7. "path" \in DOMAIN w.pax => NormalizePath(w.pax["path"]) = f.path
  BY <1>3, <1>4, <1>5 DEF Spells
<1>8. "xattr" \in DOMAIN m.pax => "xattr" \in DOMAIN w.pax
  BY <1>3, <1>4, <1>5 DEF Spells, SparseKeys
<1> QED BY <1>3, <1>6, <1>7, <1>8 DEF Spells, Plain, w

(* A member written with its data, of a header without sparse records: its *)
(* path is found where the builder put it or in a record it came with.     *)
LEMMA TarReads ==
  ASSUME RecordsSurvive, NEW c, Fields \subseteq DOMAIN c, c.longname = <<>>, c.longlink = <<>>,
         NEW unmarked \in BOOLEAN, Plain(c, unmarked), NEW path \in Path, path # <<>>
  PROVE  LET w == WriteToTar(c, path) IN
         /\ w.type = c.type /\ ~w.owner
         /\ DOMAIN Records(w) = DOMAIN c.pax \ {"uname"}
         /\ unmarked \/ DOMAIN Records(w) \cap SparseKeys = {}
         /\ SeenPath(w) = path \/ ("path" \in DOMAIN c.pax /\ SeenPath(w) = c.pax["path"])
         /\ SeenLink(w) = LinkName(c)
<1> DEFINE h == [HeaderForEmit(c) EXCEPT !.pax = Without(@, {"uname"})]
           w == WriteToTar(c, path)
<1>1. /\ Fields \subseteq DOMAIN h /\ h.type = c.type /\ h.pax = Without(c.pax, {"uname"})
      /\ h.prefix = <<>> /\ h.longname = <<>> /\ h.longlink = <<>> /\ h.linkname = c.linkname
      /\ h.owner = FALSE
  BY DEF Fields, HeaderForEmit
<1>2. w = AppendData(h, path)
  BY DEF WriteToTar
<1> HIDE DEF h, w
<1>3. /\ w.type = c.type /\ w.pax = Without(c.pax, {"uname"})
      /\ w.linkname = c.linkname /\ w.longlink = <<>> /\ w.owner = FALSE
      /\ w.longname \in {<<>>, path}
      /\ w.longname = <<>> => w.prefix \o w.name = path
  <2>1. w.type = h.type /\ w.pax = h.pax
    BY <1>1, <1>2, AppendKeepsSize
  <2>2. /\ w.linkname = h.linkname /\ w.longlink = h.longlink /\ w.owner = h.owner
        /\ w.longname \in {<<>>, path}
        /\ w.longname = <<>> => w.prefix \o w.name = path
    BY <1>1, <1>2, AppendSpells
  <2> QED BY <1>1, <2>1, <2>2
<1>4. Records(w) = w.pax
  BY DEF Records
<1>5. /\ DOMAIN w.pax = DOMAIN c.pax \ {"uname"}
      /\ \A key \in DOMAIN w.pax : w.pax[key] = c.pax[key]
  <2>1. /\ DOMAIN Without(c.pax, {"uname"}) = DOMAIN c.pax \ {"uname"}
        /\ \A key \in DOMAIN c.pax \ {"uname"} : Without(c.pax, {"uname"})[key] = c.pax[key]
    BY KeptRecords
  <2> QED BY <1>3, <2>1
<1>6. SeenPath(w) = path \/ ("path" \in DOMAIN c.pax /\ SeenPath(w) = c.pax["path"])
  <2>1. CASE "path" \notin DOMAIN w.pax
    BY <1>3, <1>4, <2>1 DEF SeenPath
  <2>2. CASE "path" \in DOMAIN w.pax /\ w.longname = <<>>
    BY <1>4, <1>5, <2>2 DEF SeenPath
  <2>3. CASE "path" \in DOMAIN w.pax /\ w.longname # <<>>
    <3>1. w.longname = path
      BY <1>3, <2>3
    <3>2. w.pax["path"] = c.pax["path"] /\ "path" \in DOMAIN c.pax
      BY <1>5, <2>3
    <3> QED BY <1>4, <2>3, <3>1, <3>2 DEF SeenPath
  <2> QED BY <2>1, <2>2, <2>3
<1>7. SeenLink(w) = LinkName(c)
  BY <1>3, <1>4, <1>5 DEF SeenLink, LinkName
<1>8. unmarked \/ DOMAIN w.pax \cap SparseKeys = {}
  BY <1>5 DEF Plain
<1> QED BY <1>3, <1>4, <1>5, <1>6, <1>7, <1>8 DEF w

LEMMA LinkReads ==
  ASSUME NEW c, Fields \subseteq DOMAIN c, c.longname = <<>>, c.longlink = <<>>,
         NEW path \in Path, NEW target
  PROVE  LET w == WriteHardlinkToTar(c, path, target) IN
         /\ w.type = "link" /\ ~w.owner
         /\ DOMAIN Records(w) \cap ({"uname"} \cup SparseKeys) = {}
         /\ SeenPath(w) = path
         /\ SeenLink(w) = target
<1> DEFINE record == [path |-> path, linkpath |-> target]
           pax == Restrict(record, {key \in DOMAIN record : ~InField(record[key])})
           h == HeaderForEmit(c)
           w == WriteHardlinkToTar(c, path, target)
<1>1. /\ DOMAIN pax \subseteq {"path", "linkpath"}
      /\ "path" \in DOMAIN pax <=> ~InField(path)
      /\ "path" \in DOMAIN pax => pax["path"] = path
      /\ "linkpath" \in DOMAIN pax <=> ~InField(target)
      /\ "linkpath" \in DOMAIN pax => pax["linkpath"] = target
  BY DEF Restrict
<1>2. /\ DOMAIN h = DOMAIN c /\ h.prefix = <<>> /\ h.owner = FALSE
      /\ h.longname = <<>> /\ h.longlink = <<>>
  BY DEF HeaderForEmit, Fields
<1>3. w = [h EXCEPT !.type = "link", !.size = 0, !.name = Cut(path), !.linkname = Cut(target),
                    !.pax = pax]
  BY DEF WriteHardlinkToTar
<1> HIDE DEF h, w, pax
<1>4. /\ w.type = "link" /\ w.owner = FALSE /\ w.pax = pax /\ w.longname = <<>>
      /\ w.longlink = <<>> /\ w.prefix = <<>> /\ w.name = Cut(path) /\ w.linkname = Cut(target)
  BY <1>2, <1>3 DEF Fields
<1>5. Records(w) = pax
  BY <1>4 DEF Records
<1>6. <<>> \o path = path
  BY ConcatEmptySeq DEF Path
<1>7. SeenPath(w) = path
  <2>1. CASE InField(path)
    BY <1>1, <1>4, <1>5, <1>6, <2>1 DEF SeenPath, Cut
  <2>2. CASE ~InField(path)
    BY <1>1, <1>4, <1>5, <2>2 DEF SeenPath
  <2> QED BY <2>1, <2>2
<1>8. SeenLink(w) = target
  <2>1. CASE InField(target)
    BY <1>1, <1>4, <1>5, <2>1 DEF SeenLink, Cut
  <2>2. CASE ~InField(target)
    BY <1>1, <1>4, <1>5, <2>2 DEF SeenLink
  <2> QED BY <2>1, <2>2
<1>9. DOMAIN Records(w) \cap ({"uname"} \cup SparseKeys) = {}
  BY <1>1, <1>5 DEF SparseKeys
<1> QED BY <1>4, <1>7, <1>8, <1>9 DEF w

LEMMA CloneSpells ==
  ASSUME NEW c, Fields \subseteq DOMAIN c, c.longname = <<>>, c.longlink = <<>>
  PROVE  LET w == CloneAsRegular(c) IN
         /\ Fields \subseteq DOMAIN w /\ w.type = "file" /\ w.longname = <<>> /\ w.longlink = <<>>
         /\ Plain(w, FALSE) /\ "path" \notin DOMAIN w.pax
         /\ "xattr" \in DOMAIN c.pax => "xattr" \in DOMAIN w.pax
<1> DEFINE keys == {"path", "linkpath"} \cup SparseKeys
           w == CloneAsRegular(c)
<1>1. /\ DOMAIN w = DOMAIN c /\ w.type = "file" /\ w.longname = <<>> /\ w.longlink = <<>>
      /\ w.pax = Without(c.pax, keys)
  BY DEF Fields, CloneAsRegular
<1> HIDE DEF w
<1>2. DOMAIN w.pax = DOMAIN c.pax \ keys
  <2>1. DOMAIN Without(c.pax, keys) = DOMAIN c.pax \ keys
    BY KeptRecords
  <2> QED BY <1>1, <2>1
<1>3. "xattr" \notin keys
  BY DEF SparseKeys
<1> QED BY <1>1, <1>2, <1>3 DEF w, Plain, SparseKeys

(* What a reader of the output finds of the file f in the members ws.      *)
Found(ws, f, m, own, unmarked) ==
  \A i \in DOMAIN ws :
    LET w == ws[i]
    IN  /\ ~w.owner /\ "uname" \notin DOMAIN Records(w)
        /\ unmarked \/ DOMAIN Records(w) \cap SparseKeys = {}
        /\ w.type = IF own THEN f.type ELSE IF i = 1 THEN "file" ELSE "link"
        /\ IF own THEN NormalizePath(SeenPath(w)) = f.path ELSE SeenPath(w) \in GroupNames
        /\ w.type = "symlink" => SeenLink(w) = f.root \o f.target
        /\ w.type = "link" => SeenLink(w) = IF own THEN f.target ELSE SeenPath(ws[1])
        /\ "xattr" \in DOMAIN m.pax /\ w.type # "link" => "xattr" \in DOMAIN Records(w)

(* The form of a file and the format its entry is in. *)
Marks(f, e) ==
  /\ e.format # "none" => f.type = "file"
  /\ e.format = "none" => f.form \notin PaxSparse
  /\ Unmarked(e) => f.form = "0.0"

PathInv ==
  /\ meant \in Meaning /\ Marks(meant, entry)
  /\ LET c == FromEntry(member, entry.real)
     IN  Spells(c, member, meant) /\ NormalizePath(Key(c, member)) = meant.path
  /\ \/ canonical = Uncaptured /\ stage = "new" /\ fate = "none"
     \/ /\ canonical # Uncaptured
        /\ "header" \in DOMAIN canonical
        /\ canonical.path = meant.path
        /\ Spells(canonical.header, member, meant)
        /\ stage \in {"detected", "rejected"} \/ Plain(canonical.header, Unmarked(entry))
  /\ stage = "detected" => meant.type = "file"
  /\ fate \in {"none", "buffered"} => written = <<>>
  /\ fate = "buffered" => meant.type = "file"
  /\ Found(written, meant, member, fate = "emitted" \/ meant.type = "link", Unmarked(entry))

LEMMA FoundNone ==
  ASSUME NEW f, NEW m, NEW own, NEW unmarked
  PROVE  Found(<<>>, f, m, own, unmarked)
BY DEF Found

LEMMA PathsStart == Spelled(Roots, Names \cup GroupNames) /\ EmissionInit => PathInv
<1> SUFFICES ASSUME Spelled(Roots, Names \cup GroupNames), EmissionInit PROVE PathInv
  OBVIOUS
<1>1. /\ stage = "new" /\ meant \in Meaning /\ Archivable(meant) /\ member = Archived(meant)
      /\ EntryOf(meant)
      /\ canonical = Uncaptured /\ fate = "none" /\ written = <<>>
  BY DEF EmissionInit, Init
<1>2. Spelled(Roots, Names)
  BY DEF Spelled
<1>3. Stands(member, meant)
  BY <1>1, <1>2, ArchivedStands
<1>4. NormalizePath(meant.root \o meant.path) = meant.path
  <2>1. meant.root \in Roots /\ meant.path \in Names
    BY <1>1 DEF Meaning
  <2>2. Spelled({meant.root}, {meant.path})
    BY <1>2, <2>1 DEF Spelled
  <2> QED BY <2>2, Normalized
<1>5. LET c == FromEntry(member, entry.real)
      IN  Spells(c, member, meant) /\ NormalizePath(Key(c, member)) = meant.path
  BY <1>1, <1>3, <1>4, FromEntrySpells
<1>6. Marks(meant, entry)
  BY <1>1 DEF EntryOf, Archivable, Marks, Unmarked, PaxSparse, Meaning
<1> QED BY <1>1, <1>5, <1>6, FoundNone DEF PathInv

(* A file written under its own path. *)
LEMMA EmitFound ==
  ASSUME RecordsSurvive, NEW f \in Meaning, NEW m, NEW c, Spells(c, m, f),
         NEW unmarked \in BOOLEAN, Plain(c, unmarked),
         Spelled({f.root}, {f.path}), f.type # "link"
  PROVE  Found(<<WriteToTar(c, f.path)>>, f, m, TRUE, unmarked)
<1> DEFINE w == WriteToTar(c, f.path)
<1>1. f.path \in Path /\ f.path # <<>> /\ NormalizePath(f.path) = f.path
  BY Normalized
<1>2. /\ Fields \subseteq DOMAIN c /\ c.longname = <<>> /\ c.longlink = <<>> /\ c.type = f.type
      /\ f.type # "file" => LinkName(c) = f.root \o f.target
      /\ "path" \in DOMAIN c.pax => NormalizePath(c.pax["path"]) = f.path
      /\ "xattr" \in DOMAIN m.pax => "xattr" \in DOMAIN c.pax
  BY DEF Spells, Plain, SparseKeys
<1>3. /\ w.type = c.type /\ ~w.owner
      /\ DOMAIN Records(w) = DOMAIN c.pax \ {"uname"}
      /\ unmarked \/ DOMAIN Records(w) \cap SparseKeys = {}
      /\ SeenPath(w) = f.path \/ ("path" \in DOMAIN c.pax /\ SeenPath(w) = c.pax["path"])
      /\ SeenLink(w) = LinkName(c)
  BY <1>1, <1>2, TarReads
<1> HIDE DEF w
<1>4. NormalizePath(SeenPath(w)) = f.path
  BY <1>1, <1>2, <1>3
<1>5. "xattr" \in DOMAIN m.pax => "xattr" \in DOMAIN Records(w)
  BY <1>2, <1>3
<1> DEFINE ws == <<w>>
<1>6. DOMAIN ws = {1} /\ ws[1] = w
  OBVIOUS
<1> HIDE DEF ws
<1>7. Found(ws, f, m, TRUE, unmarked)
  BY <1>2, <1>3, <1>4, <1>5, <1>6 DEF Found
<1> QED BY <1>7 DEF ws, w

(* A hard link written under its own path. *)
LEMMA EmitLinkFound ==
  ASSUME NEW f \in Meaning, NEW m, NEW c, Spells(c, m, f), NEW unmarked,
         Spelled({f.root}, {f.path, f.target}), f.type = "link"
  PROVE  Found(<<WriteHardlinkToTar(c, f.path, NormalizePath(LinkName(c)))>>, f, m, TRUE,
               unmarked)
<1> DEFINE target == NormalizePath(LinkName(c))
           w == WriteHardlinkToTar(c, f.path, target)
<1>1. Spelled({f.root}, {f.path}) /\ Spelled({f.root}, {f.target})
  BY DEF Spelled
<1>2. /\ f.path \in Path /\ NormalizePath(f.path) = f.path
      /\ NormalizePath(f.root \o f.target) = f.target
  BY <1>1, Normalized
<1>3. /\ Fields \subseteq DOMAIN c /\ c.longname = <<>> /\ c.longlink = <<>>
      /\ LinkName(c) = f.root \o f.target
  BY DEF Spells
<1>4. target = f.target
  BY <1>2, <1>3
<1> HIDE DEF target
<1>5. /\ w.type = "link" /\ ~w.owner
      /\ DOMAIN Records(w) \cap ({"uname"} \cup SparseKeys) = {}
      /\ SeenPath(w) = f.path /\ SeenLink(w) = target
  BY <1>2, <1>3, LinkReads
<1> HIDE DEF w
<1> DEFINE ws == <<w>>
<1>6. DOMAIN ws = {1} /\ ws[1] = w
  OBVIOUS
<1> HIDE DEF ws
<1>7. Found(ws, f, m, TRUE, unmarked)
  BY <1>2, <1>4, <1>5, <1>6 DEF Found
<1> QED BY <1>7 DEF ws, w, target

(* A file written as the first of a group of links, and one of the others. *)
LEMMA PromoteFound ==
  ASSUME RecordsSurvive, NEW f, NEW m, NEW c, Spells(c, m, f), NEW unmarked,
         NEW first \in GroupNames, NEW second \in GroupNames,
         Spelled({<<>>}, {first, second})
  PROVE  Found(<<WriteToTar(CloneAsRegular(c), first),
                 WriteHardlinkToTar(c, second, first)>>, f, m, FALSE, unmarked)
<1> DEFINE d == CloneAsRegular(c)
           w == WriteToTar(d, first)
           l == WriteHardlinkToTar(c, second, first)
<1>1. first \in Path /\ first # <<>> /\ second \in Path
  <2>1. Spelled({<<>>}, {first}) /\ Spelled({<<>>}, {second})
    BY DEF Spelled
  <2> QED BY <2>1, Normalized
<1>2. /\ Fields \subseteq DOMAIN c /\ c.longname = <<>> /\ c.longlink = <<>>
      /\ "xattr" \in DOMAIN m.pax => "xattr" \in DOMAIN c.pax
  BY DEF Spells
<1>3. /\ Fields \subseteq DOMAIN d /\ d.type = "file" /\ d.longname = <<>> /\ d.longlink = <<>>
      /\ Plain(d, FALSE) /\ "path" \notin DOMAIN d.pax
      /\ "xattr" \in DOMAIN c.pax => "xattr" \in DOMAIN d.pax
  BY <1>2, CloneSpells
<1> HIDE DEF d
<1>4. /\ w.type = "file" /\ ~w.owner
      /\ DOMAIN Records(w) = DOMAIN d.pax \ {"uname"}
      /\ DOMAIN Records(w) \cap SparseKeys = {}
      /\ SeenPath(w) = first
  BY <1>1, <1>3, TarReads
<1>5. /\ l.type = "link" /\ ~l.owner
      /\ DOMAIN Records(l) \cap ({"uname"} \cup SparseKeys) = {}
      /\ SeenPath(l) = second /\ SeenLink(l) = first
  BY <1>1, <1>2, LinkReads
<1>6. "xattr" \in DOMAIN m.pax => "xattr" \in DOMAIN Records(w)
  BY <1>2, <1>3, <1>4
<1> HIDE DEF w, l
<1> DEFINE ws == <<w, l>>
<1>7. DOMAIN ws = {1, 2} /\ ws[1] = w /\ ws[2] = l
  OBVIOUS
<1> HIDE DEF ws
<1>8. Found(ws, f, m, FALSE, unmarked)
  BY <1>4, <1>5, <1>6, <1>7 DEF Found
<1> QED BY <1>8 DEF ws, w, l, d

LEMMA PathsKept ==
  RecordsSurvive /\ Spelled(Roots, Names \cup GroupNames) /\ PathInv
    /\ [EmissionNext]_emissionVars => PathInv'
<1> SUFFICES ASSUME RecordsSurvive, Spelled(Roots, Names \cup GroupNames), PathInv,
                    [EmissionNext]_emissionVars
             PROVE  PathInv'
  OBVIOUS
<1> DEFINE h == canonical.header
           u == Unmarked(entry)
           c == FromEntry(member, entry.real)
<1>1. /\ meant \in Meaning /\ Spells(c, member, meant)
      /\ NormalizePath(Key(c, member)) = meant.path
      /\ canonical # Uncaptured => /\ "header" \in DOMAIN canonical
                                   /\ canonical.path = meant.path
                                   /\ Spells(h, member, meant)
                                   /\ stage \in {"detected", "rejected"} \/ Plain(h, u)
      /\ fate # "none" => canonical # Uncaptured
  BY DEF PathInv
<1>2. /\ Spelled({meant.root}, {meant.path, meant.target})
      /\ Spelled({meant.root}, {meant.path})
  <2>1. meant.root \in Roots /\ meant.path \in Names /\ meant.target \in Names
    BY <1>1 DEF Meaning
  <2> QED BY <2>1 DEF Spelled
<1>3. /\ Ready => canonical # Uncaptured /\ fate = "none" /\ Plain(h, u)
      /\ u \in BOOLEAN
  BY <1>1 DEF Ready, PathInv, Unmarked
<1>4. CASE UNCHANGED emissionVars
  <2>1. UNCHANGED <<entry, stage, meant, member, canonical, fate, written>>
    BY <1>4 DEF emissionVars, vars
  <2> QED BY <2>1 DEF PathInv
<1>5. CASE Capture
  <2>1. /\ canonical = Uncaptured
        /\ UNCHANGED <<entry, meant, member, fate, written>>
        /\ canonical' = [header |-> c, path |-> NormalizePath(RawPath(c))]
        /\ Detect
    BY <1>5 DEF Capture, Detect
  <2>2. NormalizePath(RawPath(c)) = meant.path
    BY <1>1 DEF RawPath, Key
  <2>3. stage' = "detected" => meant.type = "file"
    BY <2>1 DEF PathInv, Marks, Detect, Recognised
  <2>4. Recognised(entry) \/ Plain(c, u)
    <3>1. ASSUME entry.format = "none" PROVE Plain(c, u)
      <4>1. meant.form \notin PaxSparse
        BY <3>1 DEF PathInv, Marks
      <4> QED BY <1>1, <4>1 DEF Spells, Plain, SparseKeys
    <3>2. ASSUME u PROVE Plain(c, u)
      <4>1. meant.form = "0.0"
        BY <3>2 DEF PathInv, Marks
      <4> QED BY <1>1, <3>2, <4>1 DEF Spells, Plain
    <3> QED BY <3>1, <3>2 DEF Recognised
  <2>5. stage' \in {"plain", "detected", "rejected"} /\ (stage' = "plain" => ~Recognised(entry))
    BY <2>1 DEF Detect
  <2> HIDE DEF c
  <2>7. /\ canonical' # Uncaptured /\ "header" \in DOMAIN canonical'
        /\ canonical'.header = c /\ canonical'.path = meant.path
    <3>1. /\ DOMAIN canonical' = {"header", "path"} /\ canonical'.header = c
          /\ canonical'.path = meant.path
      BY <2>1, <2>2
    <3>2. DOMAIN Uncaptured = {"path"}
      BY DEF Uncaptured
    <3> QED BY <3>1, <3>2
  <2> QED BY <1>1, <2>1, <2>3, <2>4, <2>5, <2>7 DEF PathInv, c
<1>6. CASE ExpandSparse
  <2>1. /\ UNCHANGED <<entry, meant, member, fate, written>> /\ stage = "detected"
        /\ canonical' = [canonical EXCEPT !.header = RewriteHeader(@, entry.real)]
        /\ stage' # "detected"
    BY <1>6 DEF ExpandSparse, Expand
  <2>2. canonical # Uncaptured /\ meant.type = "file"
    BY <2>1 DEF PathInv
  <2>3. /\ DOMAIN canonical' = DOMAIN canonical
        /\ canonical'.header = RewriteHeader(h, entry.real)
    BY <1>1, <2>1, <2>2
  <2>4. canonical'.path = meant.path
    BY <1>1, <2>1, <2>2
  <2>5. canonical' # Uncaptured
    BY <1>1, <2>2, <2>3 DEF Uncaptured
  <2>6. Spells(canonical'.header, member, meant) /\ Plain(canonical'.header, u)
    BY <1>1, <2>2, <2>3, RewrittenSpells DEF Plain
  <2> QED BY <1>1, <2>1, <2>2, <2>3, <2>4, <2>5, <2>6 DEF PathInv
<1>7. CASE Emit
  <2>1. /\ UNCHANGED <<entry, stage, meant, member, canonical>> /\ Ready
        /\ written' = <<WriteToTar(h, canonical.path)>> /\ fate' = "emitted"
        /\ meant.type # "link"
    BY <1>7 DEF Emit, vars
  <2>2. Found(written', meant, member, TRUE, u)
    BY <1>1, <1>2, <1>3, <2>1, EmitFound
  <2> QED BY <1>1, <1>3, <2>1, <2>2 DEF PathInv
<1>8. CASE Buffer
  <2>1. /\ UNCHANGED <<entry, stage, meant, member, canonical, written>> /\ Ready
        /\ fate' = "buffered" /\ h.type = "file"
    BY <1>8 DEF Buffer, vars
  <2>2. meant.type = "file" /\ written = <<>>
    BY <1>1, <1>3, <2>1 DEF Spells, PathInv
  <2> QED BY <1>1, <1>3, <2>1, <2>2, FoundNone DEF PathInv
<1>9. CASE Promote
  <2>1. PICK first, second \in GroupNames :
          written' = <<WriteToTar(CloneAsRegular(h), first), WriteHardlinkToTar(h, second, first)>>
    BY <1>9 DEF Promote
  <2>2. /\ UNCHANGED <<entry, stage, meant, member, canonical>> /\ stage = "end"
        /\ fate = "buffered" /\ fate' = "linked"
    BY <1>9 DEF Promote, vars
  <2>3. meant.type = "file"
    BY <2>2 DEF PathInv
  <2>4. Spelled({<<>>}, {first, second})
    BY DEF Spelled
  <2>5. Found(written', meant, member, FALSE, u)
    BY <1>1, <2>1, <2>2, <2>4, PromoteFound
  <2> QED BY <1>1, <2>2, <2>3, <2>5 DEF PathInv
<1>10. CASE EmitLink
  <2>1. /\ UNCHANGED <<entry, stage, meant, member, canonical>> /\ Ready
        /\ written' = <<WriteHardlinkToTar(h, canonical.path, NormalizePath(LinkName(h)))>>
        /\ fate' = "linked" /\ meant.type = "link"
    BY <1>10 DEF EmitLink, vars
  <2>2. Found(written', meant, member, TRUE, u)
    BY <1>1, <1>2, <1>3, <2>1, EmitLinkFound
  <2> QED BY <1>1, <1>3, <2>1, <2>2 DEF PathInv
<1>11. CASE Transfer
  <2>1. UNCHANGED <<meant, member, canonical, fate, written>> /\ entry' = entry
    BY <1>11 DEF Transfer, headerVars, Read, ReadShort, ReadHole, ReadChunk, ReadTail
  <2>2. stage \notin {"detected", "rejected"} /\ stage' # "detected"
    BY <1>11 DEF Transfer, Read, ReadShort, ReadHole, ReadChunk, ReadTail
  <2>3. fate # "none"
    BY <1>11 DEF Transfer
  <2> QED BY <1>1, <2>1, <2>2, <2>3 DEF PathInv
<1> QED BY <1>4, <1>5, <1>6, <1>7, <1>8, <1>9, <1>10, <1>11 DEF EmissionNext

(* A reader of the output finds every file under the path it was given, or *)
(* that of the link it is promoted to, whatever the form it was archived   *)
(* in, however its path and target were spelled and wherever they are kept *)
(* (CanonicalTarHeader, normalize_path, expand and write_hardlink_to_tar): *)
(* provided the archivers put "./"s before "/"s in front of a path, which  *)
(* itself begins with neither, and the reader keeps PAX records across a   *)
(* GNU record, as canonical.rs takes it to do.  A 0.0 entry without a      *)
(* chunk keeps its GNU.sparse records.                                     *)
THEOREM OutputReadsBack ==
  ASSUME Spelled(Roots, Names \cup GroupNames), RecordsSurvive
  PROVE  EmissionSpec => []ReadsBack
<1>1. ASSUME PathInv PROVE ReadsBack
  <2>1. Found(written, meant, member, fate = "emitted" \/ meant.type = "link", Unmarked(entry))
    BY <1>1 DEF PathInv
  <2>2. OneKey
    BY <1>1 DEF PathInv, OneKey
  <2> QED BY <2>1, <2>2 DEF Found, ReadsBack
<1> QED BY <1>1, PathsStart, PathsKept, PTL DEF EmissionSpec

=============================================================================
