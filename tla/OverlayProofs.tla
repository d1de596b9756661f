--------------------------- MODULE OverlayProofs ---------------------------
(***************************************************************************)
(* For every set of paths and every image a builder can pack: the whiteout *)
(* trie answers for the layers still to come exactly as the set of all     *)
(* recorded whiteouts would, although inserts overwrite and the query      *)
(* stops at the first state; a hard link is written after the entry it     *)
(* points to; a promotion carries the bytes of the file its link was made  *)
(* to and of no other; and a failure of the sink is reported as one.  For  *)
(* every reproducible image the output, extracted, is the file system that *)
(* the layers describe, one over the other.                                *)
(***************************************************************************)
EXTENDS Overlay, WellFoundedInduction, SequenceTheorems, FiniteSetTheorems, TLAPS

USE EntriesAssumption, BoundsAssumption, PathsAreSequences, PathsArePrefixClosed

(* What the builder packs. *)
Ids == Layers \X Nodes
Item == [kind : Kinds, path : Nodes, target : {e.target : e \in Entries}, id : Ids]
Node == [kind : AddKinds, id : Ids, layer : Layers]

BuilderTyped ==
  /\ image \in Seq(Seq(Item))
  /\ Len(image) <= MaxLayers
  /\ \A p \in DOMAIN fs : fs[p] \in Node

(* Where the merge stands in the image. *)
Position ==
  /\ left \in Nat
  /\ left <= Len(image)
  /\ pos \in Nat \ {0}

(* A state of the trie was recorded, and no node a whiteout was recorded   *)
(* at is without one.                                                      *)
TrieKept ==
  /\ whiteout \in [Nodes -> Int]
  /\ \A n \in Nodes : whiteout[n] # NoWhiteout => <<n, whiteout[n]>> \in recorded
  /\ \A r \in recorded : r[1] \in Nodes /\ whiteout[r[1]] # NoWhiteout

(* Layers are read newest first: what was recorded came from the layer     *)
(* being read or a newer one.                                              *)
RecordedNewer ==
  /\ phase = "build" => recorded = {}
  /\ \A r \in recorded : r[2] \in Int /\ cur <= r[2]

TrieInv == BuilderTyped /\ Position /\ TrieKept /\ RecordedNewer

(* What the entries of an image tell of each other. *)
Adds(img, i, k, p) == img[i][k].kind \in AddKinds /\ img[i][k].path = p
HoldsAdd(img, i, p) == \E k \in DOMAIN img[i] : Adds(img, i, k, p)
FileAt(img, i, k, p) == img[i][k].kind = "file" /\ img[i][k].path = p
HoldsFile(img, i, p) == \E k \in DOMAIN img[i] : FileAt(img, i, k, p)

(* Entry k of layer i gave path p what it has, and no layer from there to  *)
(* n gave it anything else.                                                *)
Gave(img, i, k, p, id, n) ==
  /\ img[i][k].kind \in NonDirKinds /\ img[i][k].path = p /\ img[i][k].id = id
  /\ \A j \in (i + 1)..n : ~HoldsAdd(img, j, p)

BuilderInv ==
  /\ DOMAIN fs \subseteq Paths
  /\ phase = "build" => left = 0 /\ deferred = <<>> /\ promotions = <<>>
                          /\ suppressed = EmptyFS /\ out = <<>> /\ emitted = {}
  \* No path is added twice by a layer, and only links have another's content.
  /\ \A i \in DOMAIN image : \A j, k \in DOMAIN image[i] : \A p \in Paths :
       Adds(image, i, j, p) /\ Adds(image, i, k, p) => j = k
  /\ \A i \in DOMAIN image : \A k \in DOMAIN image[i] :
       image[i][k].kind # "link" => image[i][k].id = <<i - 1, image[i][k].path>>
  \* What the file system has came from an entry nothing replaced.
  /\ \A p \in DOMAIN fs : fs[p].kind # "dir" =>
       /\ fs[p].layer + 1 \in DOMAIN image
       /\ \E k \in DOMAIN image[fs[p].layer + 1] :
            Gave(image, fs[p].layer + 1, k, p, fs[p].id, Len(image))
  \* So has every link its content, and the layer of a link keeps its target.
  /\ \A n \in DOMAIN image : \A k \in DOMAIN image[n] : image[n][k].kind = "link" =>
       /\ image[n][k].target \in Paths
       /\ \E i \in 1..n : \E m \in DOMAIN image[i] :
            Gave(image, i, m, image[n][k].target, image[n][k].id, n)
       /\ n = Len(image) =>
            \/ HoldsAdd(image, n, image[n][k].target)
            \/ image[n][k].target \in DOMAIN fs /\ fs[image[n][k].target].layer < n - 1

(* The entries that a merge at entry at of layer l has not come to. *)
Ahead(i, k, l, at) == i < l \/ (i = l /\ at <= k)

(* The buffer holds files of the layer being read, and all that a newer    *)
(* layer's whiteout hides.                                                 *)
BufferInv ==
  /\ suppressed # EmptyFS => left > 0
  /\ \A p \in DOMAIN suppressed : suppressed[p] = <<cur, p>> /\ HoldsFile(image, left, p)
  /\ ~missed /\ left > 0 => \A k \in DOMAIN image[left] : \A p \in Paths :
       FileAt(image, left, k, p) /\ ~Ahead(left, k, left, pos) /\ CoveredBy(p, cur) =>
         p \in DOMAIN suppressed

(* A promotion is one of a link to a path that is hidden from it, has the  *)
(* newest file there that is not newer than the link, or waits for it.     *)
Kept(p, img, l, at, rec) ==
  /\ p.layer + 1 \in DOMAIN img /\ l <= p.layer + 1
  /\ \E k \in DOMAIN img[p.layer + 1] :
       LET e == img[p.layer + 1][k] IN
       e.kind = "link" /\ e.path = p.link /\ e.target = p.target
  /\ \E r \in rec : Covers(r[1], p.target) /\ p.layer < r[2]
  /\ \/ /\ p.data = NoData
        /\ \A j \in 1..(p.layer + 1) : \A k \in DOMAIN img[j] :
             FileAt(img, j, k, p.target) => Ahead(j, k, l, at)
     \/ \E j \in 1..(p.layer + 1) :
          /\ p.data = <<j - 1, p.target>> /\ HoldsFile(img, j, p.target)
          /\ \A h \in (j + 1)..(p.layer + 1) : ~HoldsFile(img, h, p.target)

PromotionInv ==
  ~missed => \A i \in DOMAIN promotions : Kept(promotions[i], image, left, pos, recorded)

(* What is waiting and what is written has its type, and what counts as    *)
(* written is.                                                             *)
LinkTargets == {e.target : e \in Entries}
Deferred == [link : Nodes, target : LinkTargets, layer : Nat]
Promoted == [link : Nodes, target : LinkTargets, layer : Nat, data : Ids \cup {NoData}]
Member == [kind : Kinds, path : Nodes, target : Nodes \cup LinkTargets, id : Ids \cup {NoData}]

OutputInv ==
  /\ deferred \in Seq(Deferred)
  /\ promotions \in Seq(Promoted)
  /\ out \in Seq(Member)
  /\ \A p \in emitted : \E j \in DOMAIN out : out[j].path = p
  /\ LinksFollowTargets

(* A write that goes wrong leaves everything but the writer as it is.      *)
Rested == UNCHANGED <<builder, phase, left, pos, trackers, out, result, history>>

LEMMA WriterRests ==
  /\ UNCHANGED vars => Rested
  /\ GoesWrong => Rested
BY DEF GoesWrong, EntryGoesWrong, FinishGoesWrong, WriteGoesWrong, Rested, vars, writer,
       builder, trackers, history

IInv == TrieInv /\ BuilderInv /\ BufferInv /\ PromotionInv /\ OutputInv

----------------------------------------------------------------------------
(* Paths and the trie. *)

LEMMA AncestorIsNode ==
  ASSUME NEW p \in Nodes, NEW i \in 0..Len(p)
  PROVE  Ancestor(p, i) \in Nodes
<1>1. CASE i = 0
  BY <1>1 DEF Ancestor, Nodes
<1>2. CASE i # 0
  <2>1. p \in Paths
    BY <1>2 DEF Nodes, Root
  <2>2. i \in 1..Len(p)
    BY <1>2, <2>1
  <2> QED BY <1>2, <2>1, <2>2 DEF Ancestor, Nodes
<1> QED BY <1>1, <1>2

(* A whiteout recorded on the way to a path has a smallest depth. *)
LEMMA FirstState ==
  ASSUME NEW p \in Paths, NEW k \in 0..Len(p), whiteout[Ancestor(p, k)] # NoWhiteout
  PROVE  \E i \in 0..Len(p) :
           /\ whiteout[Ancestor(p, i)] # NoWhiteout
           /\ \A j \in 0..(i - 1) : whiteout[Ancestor(p, j)] = NoWhiteout
<1> DEFINE T == {i \in 0..Len(p) : whiteout[Ancestor(p, i)] # NoWhiteout}
<1>1. T \subseteq Nat /\ T # {}
  OBVIOUS
<1>2. PICK i \in T : \A j \in T : <<j, i>> \notin OpToRel(<, Nat)
  <2> HIDE DEF T
  <2> QED BY <1>1, WFMin, NatLessThanWellFounded, Zenon
<1>3. \A j \in T : ~(j < i)
  BY <1>1, <1>2 DEF OpToRel
<1>4. Len(p) \in Nat
  BY LenProperties
<1>5. \A j \in 0..(i - 1) : j \in 0..Len(p) /\ j < i
  BY <1>1, <1>4
<1>6. \A j \in 0..(i - 1) : whiteout[Ancestor(p, j)] = NoWhiteout
  BY <1>3, <1>5
<1> QED BY <1>6

(* A positive answer has a recorded reason. *)
LEMMA SuppressedHasReason ==
  ASSUME TrieKept, NEW p \in Paths, NEW c \in Int, IsSuppressed(whiteout, p, c)
  PROVE  CoveredBy(p, c)
<1>1. PICK i \in 0..Len(p) : whiteout[Ancestor(p, i)] # NoWhiteout
                             /\ c < whiteout[Ancestor(p, i)]
  BY DEF IsSuppressed
<1>2. Ancestor(p, i) \in Nodes
  BY AncestorIsNode DEF Nodes
<1>3. <<Ancestor(p, i), whiteout[Ancestor(p, i)]>> \in recorded
  BY <1>1, <1>2 DEF TrieKept
<1> QED BY <1>1, <1>3 DEF CoveredBy, Covers

(* For a layer still to come, any whiteout on the way is a reason. *)
LEMMA CoveredIsSuppressed ==
  ASSUME TrieKept, RecordedNewer, NEW p \in Paths, NEW c \in Int, c < cur, left \in Nat,
         NEW r \in recorded, Covers(r[1], p)
  PROVE  IsSuppressed(whiteout, p, c)
<1>1. PICK k \in 0..Len(p) : r[1] = Ancestor(p, k)
  BY DEF Covers
<1>2. whiteout[Ancestor(p, k)] # NoWhiteout
  BY <1>1 DEF TrieKept
<1>3. PICK i \in 0..Len(p) :
        /\ whiteout[Ancestor(p, i)] # NoWhiteout
        /\ \A j \in 0..(i - 1) : whiteout[Ancestor(p, j)] = NoWhiteout
  BY <1>2, FirstState
<1>4. Ancestor(p, i) \in Nodes
  BY AncestorIsNode DEF Nodes
<1>5. <<Ancestor(p, i), whiteout[Ancestor(p, i)]>> \in recorded
  BY <1>3, <1>4 DEF TrieKept
<1>6. cur <= whiteout[Ancestor(p, i)] /\ whiteout[Ancestor(p, i)] \in Int
  BY <1>5 DEF RecordedNewer
<1>7. c < whiteout[Ancestor(p, i)]
  BY <1>6 DEF cur
<1> QED BY <1>3, <1>7 DEF IsSuppressed

----------------------------------------------------------------------------
(* The builder. *)

(* What the builder does to the file system keeps its nodes typed. *)
LEMMA ApplyTyped ==
  ASSUME BuilderTyped, NEW e \in Entries, NEW n \in Layers,
         e.kind = "link" => e.target \in DOMAIN fs
  PROVE  /\ Ident(fs, n, e) \in Ids
         /\ \A p \in DOMAIN Apply(fs, n, e) : Apply(fs, n, e)[p] \in Node
<1>1. Ident(fs, n, e) \in Ids
  <2>1. CASE e.kind = "link"
    BY <2>1 DEF Ident, BuilderTyped, Node
  <2>2. CASE e.kind # "link"
    BY <2>2 DEF Ident, Ids
  <2> QED BY <2>1, <2>2
<1>2. ASSUME NEW path, NEW node \in Node, NEW p \in DOMAIN Put(fs, path, node)
      PROVE  Put(fs, path, node)[p] \in Node
  <2> DEFINE D == (DOMAIN fs \ (IF node.kind = "dir" THEN {path}
                                ELSE {q \in DOMAIN fs : Covers(path, q)})) \cup {path}
  <2>1. Put(fs, path, node) = [q \in D |-> IF q = path THEN node ELSE fs[q]]
    BY DEF Put
  <2>2. p \in D
    BY <1>2, <2>1
  <2>3. p = path \/ p \in DOMAIN fs
    BY <2>2
  <2> HIDE DEF D
  <2> QED BY <2>1, <2>2, <2>3 DEF BuilderTyped
<1>3. CASE e.kind = "dir" /\ e.path = Root
  BY <1>1, <1>3 DEF Apply, BuilderTyped
<1>4. CASE e.kind \in {"whiteout", "opaque"}
  <2> DEFINE g == Hidden(fs, n, e)
  <2>1. Apply(fs, n, e) = [p \in DOMAIN fs \ g |-> fs[p]]
    BY <1>4 DEF Apply, Without, Restrict
  <2> HIDE DEF g
  <2> QED BY <1>1, <2>1 DEF BuilderTyped
<1>5. CASE e.kind = "link"
  <2>1. [fs[e.target] EXCEPT !.layer = n] \in Node
    BY <1>5 DEF BuilderTyped, Node
  <2>2. Apply(fs, n, e) = Put(fs, e.path, [fs[e.target] EXCEPT !.layer = n])
    BY <1>5 DEF Apply
  <2> QED BY <1>1, <1>2, <2>1, <2>2
<1>6. CASE e.kind \in {"dir", "file", "other"} /\ ~(e.kind = "dir" /\ e.path = Root)
  <2>1. [kind |-> e.kind, id |-> Ident(fs, n, e), layer |-> n] \in Node
    BY <1>1, <1>6 DEF Node, AddKinds, NonDirKinds
  <2>2. Apply(fs, n, e)
        = Put(fs, e.path, [kind |-> e.kind, id |-> Ident(fs, n, e), layer |-> n])
    BY <1>6 DEF Apply
  <2> QED BY <1>1, <1>2, <2>1, <2>2
<1> QED BY <1>3, <1>4, <1>5, <1>6 DEF Kinds, AddKinds, NonDirKinds

LEMMA PackEntryTyped ==
  ASSUME BuilderTyped, PackEntry
  PROVE  BuilderTyped' /\ Len(image') = Len(image)
<1>1. PICK e \in Entries :
        /\ Legal(fs, Len(image) - 1, Last(image), e)
        /\ image' = [image EXCEPT ![Len(image)] =
             Append(@, [kind |-> e.kind, path |-> e.path, target |-> e.target,
                        id |-> Ident(fs, Len(image) - 1, e)])]
        /\ fs' = Apply(fs, Len(image) - 1, e)
  BY DEF PackEntry
<1> DEFINE n == Len(image) - 1
           new == [kind |-> e.kind, path |-> e.path, target |-> e.target,
                   id |-> Ident(fs, n, e)]
<1>2. n \in Layers /\ Len(image) \in 1..Len(image)
  BY DEF PackEntry, BuilderTyped, Layers
<1>3. e.kind = "link" => e.target \in DOMAIN fs
  BY <1>1 DEF Legal
<1>4. Ident(fs, n, e) \in Ids /\ \A p \in DOMAIN fs' : fs'[p] \in Node
  <2> HIDE DEF n
  <2>1. fs' = Apply(fs, n, e)
    BY <1>1 DEF n
  <2> QED BY <1>2, <1>3, <2>1, ApplyTyped
<1>5. new \in Item
  BY <1>4 DEF Item
<1>6. image' = [image EXCEPT ![Len(image)] = Append(image[Len(image)], new)]
  BY <1>1
<1>7. image[Len(image)] \in Seq(Item)
  BY <1>2 DEF BuilderTyped
<1>8. Append(image[Len(image)], new) \in Seq(Item)
  BY <1>5, <1>7, AppendProperties
<1> HIDE DEF n, new
<1>9. image' \in Seq(Seq(Item)) /\ Len(image') = Len(image)
  BY <1>2, <1>6, <1>8, ExceptSeq DEF BuilderTyped
<1> QED BY <1>4, <1>9 DEF BuilderTyped

----------------------------------------------------------------------------
(* The trie. *)

LEMMA EntryTyped ==
  ASSUME BuilderTyped, Position, Reading
  PROVE  entry \in Item /\ cur \in Nat
<1>1. left \in 1..Len(image)
  BY DEF Reading, Position
<1>2. image[left] \in Seq(Item)
  BY <1>1 DEF BuilderTyped
<1>3. pos \in 1..Len(image[left])
  BY <1>2 DEF Reading, Position, Layer
<1>4. image[left][pos] \in Item
  BY <1>2, <1>3, LenProperties
<1> QED BY <1>1, <1>4 DEF entry, Layer, cur

(* Recording the entry of the layer being read. *)
LEMMA RecordKeeps ==
  ASSUME TrieInv, Reading, Record(entry.path), UNCHANGED <<builder, phase, left>>, NextEntry
  PROVE  TrieInv'
<1>1. entry.path \in Nodes /\ cur \in Nat
  BY EntryTyped DEF TrieInv, Item
<1> DEFINE n == entry.path
<1>2. /\ whiteout' = [whiteout EXCEPT ![n] = cur]
      /\ recorded' = recorded \cup {<<n, cur>>}
  BY DEF Record, Insert
<1> HIDE DEF n
<1>3. n \in Nodes
  BY <1>1 DEF n
<1>4. cur' = cur /\ phase = "layers" /\ phase' = phase
  BY DEF cur, Reading
<1>5. TrieKept'
  <2>1. whiteout' \in [Nodes -> Int]
    BY <1>1, <1>2, <1>3 DEF TrieInv, TrieKept
  <2>2. ASSUME NEW m \in Nodes, whiteout'[m] # NoWhiteout
        PROVE  <<m, whiteout'[m]>> \in recorded'
    BY <1>2, <1>3, <2>2 DEF TrieInv, TrieKept
  <2>3. ASSUME NEW r \in recorded' PROVE r[1] \in Nodes /\ whiteout'[r[1]] # NoWhiteout
    BY <1>1, <1>2, <1>3, <2>3 DEF TrieInv, TrieKept, NoWhiteout
  <2> QED BY <2>1, <2>2, <2>3 DEF TrieKept
<1>6. RecordedNewer'
  BY <1>1, <1>2, <1>4 DEF TrieInv, RecordedNewer
<1>7. BuilderTyped' /\ Position'
  BY DEF TrieInv, BuilderTyped, Position, builder, NextEntry
<1> QED BY <1>5, <1>6, <1>7 DEF TrieInv

(* Steps that record nothing and do not move to another layer. *)
LEMMA OthersKeep ==
  ASSUME TrieInv, UNCHANGED <<builder, left, whiteout, recorded>>, pos' \in {pos, pos + 1},
         phase' = "build" => phase = "build"
  PROVE  TrieInv'
BY DEF TrieInv, BuilderTyped, Position, TrieKept, RecordedNewer, builder, cur

LEMMA InitKeeps == Init => TrieInv
<1> SUFFICES ASSUME Init PROVE TrieInv
  OBVIOUS
<1>1. BuilderTyped
  BY DEF Init, BuilderTyped, EmptyFS
<1>2. Position /\ RecordedNewer
  BY DEF Init, Position, RecordedNewer
<1>3. TrieKept
  BY DEF Init, TrieKept, EmptyTrie, NoWhiteout
<1> QED BY <1>1, <1>2, <1>3 DEF TrieInv

LEMMA NextKeeps == TrieInv /\ [Next]_vars => TrieInv'
<1> SUFFICES ASSUME TrieInv, [Next]_vars PROVE TrieInv'
  OBVIOUS
<1>1. ASSUME PackLayer PROVE TrieInv'
  <2>1. image' = Append(image, <<>>) /\ <<>> \in Seq(Item)
    BY <1>1 DEF PackLayer
  <2>2. BuilderTyped' /\ Len(image') = Len(image) + 1
    BY <1>1, <2>1, AppendProperties DEF TrieInv, BuilderTyped, PackLayer
  <2>3. Position' /\ TrieKept' /\ RecordedNewer'
    BY <1>1, <2>2
    DEF TrieInv, BuilderTyped, Position, TrieKept, RecordedNewer, PackLayer, trackers,
        history, cur
  <2> QED BY <2>2, <2>3 DEF TrieInv
<1>2. ASSUME PackEntry PROVE TrieInv'
  <2>1. BuilderTyped' /\ Len(image') = Len(image)
    BY <1>2, PackEntryTyped DEF TrieInv
  <2>2. Position' /\ TrieKept' /\ RecordedNewer'
    BY <1>2, <2>1
    DEF TrieInv, Position, TrieKept, RecordedNewer, PackEntry, trackers, history, cur
  <2> QED BY <2>1, <2>2 DEF TrieInv
<1>3. ASSUME StartMerge PROVE TrieInv'
  <2>1. recorded = {} /\ left' = Len(image)
    BY <1>3 DEF TrieInv, RecordedNewer, StartMerge
  <2>2. BuilderTyped' /\ TrieKept'
    BY <1>3 DEF TrieInv, BuilderTyped, TrieKept, StartMerge, builder, trackers, history
  <2>3. Position' /\ RecordedNewer'
    BY <1>3, <2>1
    DEF TrieInv, BuilderTyped, Position, RecordedNewer, StartMerge, builder, history
  <2> QED BY <2>2, <2>3 DEF TrieInv
<1>4. ASSUME RecordWhiteout \/ DeferLink \/ PromoteLink \/ WriteEntry,
             Record(entry.path) PROVE TrieInv'
  <2>1. Reading /\ NextEntry /\ UNCHANGED <<builder, phase, left>>
    BY <1>4 DEF RecordWhiteout, DeferLink, PromoteLink, WriteEntry, LiveLink, LiveEntry
  <2> QED BY <1>4, <2>1, RecordKeeps
<1>5. ASSUME RecordWhiteout \/ DeferLink \/ PromoteLink PROVE TrieInv'
  BY <1>4, <1>5 DEF RecordWhiteout, DeferLink, PromoteLink
<1>6. ASSUME WriteEntry PROVE TrieInv'
  <2>1. CASE entry.kind # "dir"
    BY <1>4, <1>6, <2>1 DEF WriteEntry
  <2>2. CASE entry.kind = "dir"
    BY <1>6, <2>2, OthersKeep DEF WriteEntry, NextEntry
  <2> QED BY <2>1, <2>2
<1>7. ASSUME EndLayer PROVE TrieInv'
  <2>1. left' = left - 1 /\ pos' = 1 /\ left > 0
    BY <1>7 DEF EndLayer
  <2>2. BuilderTyped' /\ TrieKept'
    BY <1>7 DEF TrieInv, BuilderTyped, TrieKept, EndLayer, builder, history
  <2>3. Position' /\ RecordedNewer'
    BY <1>7, <2>1 DEF TrieInv, BuilderTyped, Position, RecordedNewer, EndLayer, builder,
                      history, cur
  <2> QED BY <2>2, <2>3 DEF TrieInv
<1>8. ASSUME SkipRoot \/ BufferSuppressed \/ DropSuppressed \/ SkipEmitted PROVE TrieInv'
  <2>1. UNCHANGED <<builder, left, whiteout, recorded, phase>> /\ pos' = pos + 1
    BY <1>8 DEF SkipRoot, BufferSuppressed, DropSuppressed, SkipEmitted, NextEntry,
                trackers, history
  <2> QED BY <2>1, OthersKeep
<1>9. ASSUME ReadFails \/ WriteFails \/ Finish \/ FinishFails PROVE TrieInv'
  <2>1. PICK e : Stop(e)
    BY <1>9 DEF ReadFails, WriteFails, Finish, FinishFails
  <2> QED BY <2>1, OthersKeep DEF Stop, trackers, history
<1>10. ASSUME NEW t \in Paths, EmitGroup(t) \/ SkipGroup(t) PROVE TrieInv'
  <2>1. UNCHANGED <<builder, left, whiteout, recorded, phase, pos>>
    BY <1>10 DEF EmitGroup, SkipGroup, history
  <2> QED BY <2>1, OthersKeep
<1>11. ASSUME DrainSorted \/ GroupsDone PROVE TrieInv'
  <2>1. UNCHANGED <<builder, left, whiteout, recorded, pos>> /\ phase' # "build"
    BY <1>11 DEF DrainSorted, GroupsDone, history, trackers
  <2> QED BY <2>1, OthersKeep
<1>12. ASSUME EmitLink \/ DropLink PROVE TrieInv'
  <2>1. UNCHANGED <<builder, left, whiteout, recorded, phase, pos>>
    BY <1>12 DEF EmitLink, DropLink, history
  <2> QED BY <2>1, OthersKeep
<1>13. ASSUME Rested PROVE TrieInv'
  BY <1>13, OthersKeep DEF Rested, builder, trackers, history
<1> QED
  BY WriterRests, <1>1, <1>2, <1>3, <1>5, <1>6, <1>7, <1>8, <1>9, <1>10, <1>11, <1>12, <1>13
  DEF Next, Build, Merge, Failure

(* is_suppressed never answers yes without a recorded whiteout of a newer  *)
(* layer on the path or above it, whatever was overwritten.                *)
THEOREM SuppressionIsSound == Spec => []SuppressionSound
<1>1. TrieInv => SuppressionSound
  BY SuppressedHasReason DEF TrieInv, SuppressionSound, Layers
<1> QED BY <1>1, InitKeeps, NextKeeps, PTL DEF Spec

(* While layers are read, the trie forgets nothing that the layers still   *)
(* to come are asked about: the first state found on the way answers for   *)
(* all of them.                                                            *)
THEOREM OlderLayersAreHidden == Spec => []OlderLayersHidden
<1>1. ASSUME TrieInv, phase = "layers", NEW p \in Paths, NEW c \in Layers, c < cur
      PROVE  IsSuppressed(whiteout, p, c) <=> \E r \in recorded : Covers(r[1], p)
  <2>1. c \in Int
    BY DEF Layers
  <2>2. ASSUME IsSuppressed(whiteout, p, c) PROVE \E r \in recorded : Covers(r[1], p)
    BY <1>1, <2>1, <2>2, SuppressedHasReason DEF TrieInv, CoveredBy
  <2>3. ASSUME NEW r \in recorded, Covers(r[1], p) PROVE IsSuppressed(whiteout, p, c)
    BY <1>1, <2>1, <2>3, CoveredIsSuppressed DEF TrieInv, Position
  <2> QED BY <2>2, <2>3
<1>2. TrieInv => OlderLayersHidden
  BY <1>1 DEF OlderLayersHidden
<1> QED BY <1>2, InitKeeps, NextKeeps, PTL DEF Spec

----------------------------------------------------------------------------
(* What the entries of an image tell of each other. *)

(* What an entry does to the file system: its own path gets its content,   *)
(* every other path that stays is as it was.                               *)
LEMMA ApplyGives ==
  ASSUME BuilderTyped, DOMAIN fs \subseteq Paths, NEW e \in Entries, NEW n \in Layers,
         e.kind = "link" => e.target \in DOMAIN fs /\ fs[e.target].kind # "dir",
         NEW g, g = Apply(fs, n, e)
  PROVE  /\ \A p \in DOMAIN g :
              IF p = e.path /\ e.kind \in AddKinds
              THEN /\ p \in Paths /\ g[p].layer = n /\ g[p].id = Ident(fs, n, e)
                   /\ g[p].kind = "dir" <=> e.kind = "dir"
              ELSE p \in DOMAIN fs /\ g[p] = fs[p]
         /\ e.kind \in AddKinds /\ e.path # Root => e.path \in DOMAIN g
         /\ \A p \in DOMAIN fs : e.kind = "link" /\ ~Covers(e.path, p) => p \in DOMAIN g
<1>1. ASSUME NEW node, e.path \in Paths, node.layer = n, node.id = Ident(fs, n, e),
             node.kind = "dir" <=> e.kind = "dir", g = Put(fs, e.path, node)
      PROVE  /\ \A p \in DOMAIN g :
                  IF p = e.path
                  THEN /\ p \in Paths /\ g[p].layer = n /\ g[p].id = Ident(fs, n, e)
                       /\ g[p].kind = "dir" <=> e.kind = "dir"
                  ELSE p \in DOMAIN fs /\ g[p] = fs[p]
             /\ e.path \in DOMAIN g
             /\ \A p \in DOMAIN fs : e.kind = "link" /\ ~Covers(e.path, p) => p \in DOMAIN g
  <2> DEFINE K == IF node.kind = "dir" THEN {e.path} ELSE {q \in DOMAIN fs : Covers(e.path, q)}
  <2>1. g = [q \in (DOMAIN fs \ K) \cup {e.path} |-> IF q = e.path THEN node ELSE fs[q]]
    BY <1>1 DEF Put
  <2>2. \A p \in DOMAIN fs : e.kind = "link" /\ ~Covers(e.path, p) => p \notin K
    BY <1>1
  <2> HIDE DEF K
  <2> QED BY <1>1, <2>1, <2>2
<1>2. e.path \in Nodes /\ (e.kind \notin {"dir", "opaque"} => e.path \in Paths)
  OBVIOUS
<1>3. CASE e.kind = "dir" /\ e.path = Root
  <2>1. g = fs /\ Root \notin DOMAIN fs
    BY <1>3 DEF Apply
  <2> QED BY <1>3, <2>1
<1>4. CASE e.kind \in {"whiteout", "opaque"}
  <2> DEFINE h == Hidden(fs, n, e)
  <2>1. g = [p \in DOMAIN fs \ h |-> fs[p]]
    BY <1>4 DEF Apply, Without, Restrict
  <2>2. e.kind \notin AddKinds /\ e.kind # "link"
    BY <1>4 DEF AddKinds, NonDirKinds
  <2> HIDE DEF h
  <2> QED BY <2>1, <2>2
<1>5. CASE e.kind = "link"
  <2> DEFINE node == [fs[e.target] EXCEPT !.layer = n]
  <2>1. fs[e.target] \in Node
    BY <1>5 DEF BuilderTyped
  <2>2. node.layer = n /\ node.id = fs[e.target].id /\ node.kind = fs[e.target].kind
    BY <2>1 DEF Node
  <2>3. g = Put(fs, e.path, node) /\ Ident(fs, n, e) = fs[e.target].id
    BY <1>5 DEF Apply, Ident
  <2> HIDE DEF node
  <2> QED BY <1>1, <1>2, <1>5, <2>2, <2>3 DEF AddKinds, NonDirKinds
<1>6. CASE e.kind \in {"dir", "file", "other"} /\ ~(e.kind = "dir" /\ e.path = Root)
  <2> DEFINE node == [kind |-> e.kind, id |-> Ident(fs, n, e), layer |-> n]
  <2>1. g = Put(fs, e.path, node)
    BY <1>6 DEF Apply
  <2>2. e.path \in Paths
    BY <1>2, <1>6 DEF Nodes
  <2>3. node.layer = n /\ node.id = Ident(fs, n, e) /\ node.kind = e.kind
    OBVIOUS
  <2> HIDE DEF node
  <2> QED BY <1>1, <1>6, <2>1, <2>2, <2>3 DEF AddKinds, NonDirKinds
<1> QED BY <1>3, <1>4, <1>5, <1>6 DEF Kinds, AddKinds, NonDirKinds

(* One entry more, behind those of the last layer. *)
LEMMA PackedEntry ==
  ASSUME BuilderTyped, PackEntry
  PROVE  \E e \in Entries, new \in Item :
           LET n == Len(image)
               top == Len(image[n]) + 1 IN
           /\ n \in DOMAIN image /\ n - 1 \in Layers
           /\ Legal(fs, n - 1, image[n], e) /\ fs' = Apply(fs, n - 1, e)
           /\ new.kind = e.kind /\ new.path = e.path /\ new.target = e.target
           /\ new.id = Ident(fs, n - 1, e)
           /\ Len(image') = n /\ DOMAIN image' = DOMAIN image
           /\ \A i \in DOMAIN image \ {n} : image'[i] = image[i]
           /\ DOMAIN image'[n] = DOMAIN image[n] \cup {top} /\ top \notin DOMAIN image[n]
           /\ image'[n][top] = new
           /\ \A k \in DOMAIN image[n] : image'[n][k] = image[n][k] /\ k < top
<1> DEFINE n == Len(image)
<1>1. PICK e \in Entries :
        /\ Legal(fs, n - 1, Last(image), e)
        /\ image' = [image EXCEPT ![n] =
             Append(@, [kind |-> e.kind, path |-> e.path, target |-> e.target,
                        id |-> Ident(fs, n - 1, e)])]
        /\ fs' = Apply(fs, n - 1, e)
  BY DEF PackEntry
<1> DEFINE new == [kind |-> e.kind, path |-> e.path, target |-> e.target,
                   id |-> Ident(fs, n - 1, e)]
           top == Len(image[n]) + 1
<1>2. n \in DOMAIN image /\ n - 1 \in Layers /\ n \in 1..n
  BY DEF PackEntry, BuilderTyped, Layers
<1>3. e.kind = "link" => e.target \in DOMAIN fs
  BY <1>1 DEF Legal
<1>4. new.id \in Ids
  <2> DEFINE m == n - 1
  <2>1. m \in Layers
    BY <1>2
  <2> HIDE DEF m
  <2>2. Ident(fs, m, e) \in Ids
    BY <1>3, <2>1, ApplyTyped
  <2> QED BY <2>2 DEF m
<1>5. new \in Item
  BY <1>4 DEF Item
<1>6. image[n] \in Seq(Item)
  BY <1>2 DEF BuilderTyped
<1>7. Last(image) = image[n]
  BY DEF Last
<1> HIDE DEF new
<1>8. image' = [image EXCEPT ![n] = Append(image[n], new)]
  BY <1>1 DEF new
<1>9. /\ DOMAIN Append(image[n], new) = DOMAIN image[n] \cup {top} /\ top \notin DOMAIN image[n]
      /\ Append(image[n], new)[top] = new
      /\ \A k \in DOMAIN image[n] : Append(image[n], new)[k] = image[n][k] /\ k < top
  BY <1>5, <1>6, AppendProperties, LenProperties
<1>10. Append(image[n], new) \in Seq(Item)
  BY <1>5, <1>6, AppendProperties
<1>11. /\ Len(image') = n /\ DOMAIN image' = DOMAIN image
       /\ \A i \in DOMAIN image \ {n} : image'[i] = image[i]
       /\ image'[n] = Append(image[n], new)
  BY <1>2, <1>8, <1>10, ExceptSeq DEF BuilderTyped
<1>12. new.kind = e.kind /\ new.path = e.path /\ new.target = e.target
       /\ new.id = Ident(fs, n - 1, e)
  BY DEF new
<1> WITNESS e \in Entries, new \in Item
<1> QED BY <1>1, <1>2, <1>7, <1>9, <1>11, <1>12

LEMMA EntryKeepsBuilder ==
  ASSUME TrieInv, BuilderInv, PackEntry
  PROVE  BuilderInv'
<1> DEFINE n == Len(image)
           top == Len(image[n]) + 1
<1>1. PICK e \in Entries, new \in Item :
        /\ n \in DOMAIN image /\ n - 1 \in Layers
        /\ Legal(fs, n - 1, image[n], e) /\ fs' = Apply(fs, n - 1, e)
        /\ new.kind = e.kind /\ new.path = e.path /\ new.target = e.target
        /\ new.id = Ident(fs, n - 1, e)
        /\ Len(image') = n /\ DOMAIN image' = DOMAIN image
        /\ \A i \in DOMAIN image \ {n} : image'[i] = image[i]
        /\ DOMAIN image'[n] = DOMAIN image[n] \cup {top} /\ top \notin DOMAIN image[n]
        /\ image'[n][top] = new /\ \A k \in DOMAIN image[n] : image'[n][k] = image[n][k] /\ k < top
  BY PackedEntry DEF TrieInv
<1>2. n \in Nat /\ DOMAIN image = 1..n
  BY LenProperties DEF TrieInv, BuilderTyped
<1> HIDE DEF n, top
<1> USE DEF BuilderInv
<1> DEFINE adds == e.kind \in AddKinds
<1>3. /\ e.kind = "link" => e.target \in DOMAIN fs /\ fs[e.target].kind # "dir"
                             /\ e.target # e.path /\ ~Covers(e.path, e.target)
      /\ \A k \in DOMAIN image[n] : \A p \in Paths : Adds(image, n, k, p) /\ adds => e.path # p
      /\ \A k \in DOMAIN image[n] :
           LET t == image[n][k].target IN
           image[n][k].kind = "link" /\ t \in DOMAIN fs /\ fs[t].layer < n - 1
             => t \in DOMAIN fs' /\ fs'[t] = fs[t]
  <2>1. e.kind = "link" => e.target \in DOMAIN fs /\ fs[e.target].kind # "dir"
                             /\ e.target # e.path /\ ~Covers(e.path, e.target)
    BY <1>1 DEF Legal, Above
  <2>2. ASSUME NEW k \in DOMAIN image[n], NEW p \in Paths, Adds(image, n, k, p), adds
        PROVE  e.path # p
    <3>1. {image[n][k].kind, e.kind} \subseteq AddKinds
      BY <2>2 DEF Adds
    <3> QED BY <1>1, <2>2, <3>1 DEF Legal, Adds
  <2>3. ASSUME NEW k \in DOMAIN image[n], image[n][k].kind = "link",
               image[n][k].target \in DOMAIN fs, fs[image[n][k].target].layer < n - 1
        PROVE  image[n][k].target \in DOMAIN fs' /\ fs'[image[n][k].target] = fs[image[n][k].target]
    <3>1. image[n][k].target \in LinkedBelow(image[n], fs, n - 1)
      BY <2>3 DEF LinkedBelow
    <3> QED BY <1>1, <3>1 DEF Legal
  <2> QED BY <2>1, <2>2, <2>3
<1>4. /\ \A p \in DOMAIN fs' :
           IF p = e.path /\ adds
           THEN /\ p \in Paths /\ fs'[p].layer = n - 1 /\ fs'[p].id = new.id
                /\ fs'[p].kind = "dir" <=> e.kind = "dir"
           ELSE p \in DOMAIN fs /\ fs'[p] = fs[p]
      /\ adds /\ e.path # Root => e.path \in DOMAIN fs'
      /\ \A p \in DOMAIN fs : e.kind = "link" /\ ~Covers(e.path, p) => p \in DOMAIN fs'
  <2> DEFINE m == n - 1
  <2>1. m \in Layers /\ fs' = Apply(fs, m, e) /\ new.id = Ident(fs, m, e)
    BY <1>1
  <2> HIDE DEF m
  <2>2. BuilderTyped /\ DOMAIN fs \subseteq Paths
    BY DEF TrieInv
  <2>3. e.kind = "link" => e.target \in DOMAIN fs /\ fs[e.target].kind # "dir"
    BY <1>3
  <2>4. \A p \in DOMAIN fs' :
           IF p = e.path /\ adds
           THEN /\ p \in Paths /\ fs'[p].layer = m /\ fs'[p].id = new.id
                /\ fs'[p].kind = "dir" <=> e.kind = "dir"
           ELSE p \in DOMAIN fs /\ fs'[p] = fs[p]
    BY <2>1, <2>2, <2>3, ApplyGives
  <2>5. /\ adds /\ e.path # Root => e.path \in DOMAIN fs'
        /\ \A p \in DOMAIN fs : e.kind = "link" /\ ~Covers(e.path, p) => p \in DOMAIN fs'
    BY <2>1, <2>2, <2>3, ApplyGives
  <2> QED BY <2>4, <2>5 DEF m
<1>5. /\ \A i \in DOMAIN image : \A k \in DOMAIN image[i] :
           k \in DOMAIN image'[i] /\ image'[i][k] = image[i][k]
      /\ \A i \in DOMAIN image' : \A k \in DOMAIN image'[i] :
           (i = n /\ k = top) \/ (i \in DOMAIN image /\ k \in DOMAIN image[i])
  BY <1>1
<1>6. \A i \in DOMAIN image, p \in Paths :
        HoldsAdd(image', i, p) <=> HoldsAdd(image, i, p) \/ (i = n /\ adds /\ e.path = p)
  BY <1>1, <1>5 DEF HoldsAdd, Adds
<1>7. \A id : \A i \in DOMAIN image : \A k \in DOMAIN image[i] : \A p \in Paths, m \in 1..n :
        Gave(image, i, k, p, id, m) /\ ~(m = n /\ i < n /\ adds /\ e.path = p) =>
          Gave(image', i, k, p, id, m)
  <2> SUFFICES ASSUME NEW id, NEW i \in DOMAIN image, NEW k \in DOMAIN image[i], NEW p \in Paths,
                      NEW m \in 1..n, Gave(image, i, k, p, id, m),
                      ~(m = n /\ i < n /\ adds /\ e.path = p)
               PROVE  Gave(image', i, k, p, id, m)
    OBVIOUS
  <2>1. \A j \in (i + 1)..m : j \in DOMAIN image /\ (j = n => m = n /\ i < n)
    BY <1>2
  <2>2. \A j \in (i + 1)..m : ~HoldsAdd(image', j, p)
    BY <1>6, <2>1 DEF Gave
  <2> QED BY <1>5, <2>2 DEF Gave
<1>8. /\ DOMAIN fs' \subseteq Paths /\ phase = "build"
      /\ UNCHANGED <<phase, left, deferred, promotions, suppressed, out, emitted>>
  BY <1>4 DEF PackEntry, trackers
<1>9. \A i \in DOMAIN image' : \A j, k \in DOMAIN image'[i] : \A p \in Paths :
       Adds(image', i, j, p) /\ Adds(image', i, k, p) => j = k
  <2> SUFFICES ASSUME NEW i \in DOMAIN image', NEW j \in DOMAIN image'[i], NEW k \in DOMAIN image'[i],
                      NEW p \in Paths, Adds(image', i, j, p), Adds(image', i, k, p), j # k
               PROVE  FALSE
    OBVIOUS
  <2>1. \A h \in DOMAIN image[n] : adds /\ Adds(image, n, h, p) => e.path # p
    BY <1>3
  <2>2. \A h \in {j, k} : \/ i = n /\ h = top /\ adds /\ e.path = p
                          \/ i \in DOMAIN image /\ h \in DOMAIN image[i] /\ Adds(image, i, h, p)
    BY <1>1, <1>5 DEF Adds
  <2> QED BY <2>1, <2>2
<1>10. \A i \in DOMAIN image' : \A k \in DOMAIN image'[i] :
       image'[i][k].kind # "link" => image'[i][k].id = <<i - 1, image'[i][k].path>>
  BY <1>1, <1>5 DEF Ident
<1>11. ASSUME NEW p \in DOMAIN fs', fs'[p].kind # "dir"
       PROVE  /\ fs'[p].layer + 1 \in DOMAIN image'
              /\ \E k \in DOMAIN image'[fs'[p].layer + 1] :
                   Gave(image', fs'[p].layer + 1, k, p, fs'[p].id, Len(image'))
  <2>1. CASE p = e.path /\ adds
    <3>1. fs'[p].layer + 1 = n /\ fs'[p].id = new.id /\ e.kind \in NonDirKinds
      BY <1>2, <1>4, <1>11, <2>1 DEF AddKinds
    <3>2. Gave(image', n, top, p, new.id, Len(image'))
      BY <1>1, <1>2, <2>1, <3>1 DEF Gave
    <3> QED BY <1>1, <3>1, <3>2
  <2>2. CASE ~(p = e.path /\ adds)
    <3>1. p \in DOMAIN fs /\ fs'[p] = fs[p]
      BY <1>4, <2>2
    <3>2. fs[p].layer + 1 \in DOMAIN image
      BY <1>11, <3>1
    <3>3. PICK k \in DOMAIN image[fs[p].layer + 1] : Gave(image, fs[p].layer + 1, k, p, fs[p].id, n)
      BY <1>11, <3>1 DEF n
    <3>4. n \in 1..n /\ p \in Paths
      BY <1>1, <1>2, <3>1
    <3>5. Gave(image', fs[p].layer + 1, k, p, fs[p].id, n)
      BY <1>7, <2>2, <3>2, <3>3, <3>4
    <3>6. Gave(image', fs[p].layer + 1, k, p, fs[p].id, Len(image'))
      BY <1>1, <3>5 DEF Gave, n
    <3> QED BY <1>1, <1>5, <3>1, <3>2, <3>6
  <2> QED BY <2>1, <2>2
<1>12. ASSUME NEW m \in DOMAIN image', NEW k \in DOMAIN image'[m], image'[m][k].kind = "link"
       PROVE  /\ image'[m][k].target \in Paths
              /\ \E i \in 1..m : \E h \in DOMAIN image'[i] :
                   Gave(image', i, h, image'[m][k].target, image'[m][k].id, m)
              /\ m = n =>
                   \/ HoldsAdd(image', m, image'[m][k].target)
                   \/ /\ image'[m][k].target \in DOMAIN fs'
                      /\ fs'[image'[m][k].target].layer < m - 1
  <2> DEFINE t == image'[m][k].target
             id == image'[m][k].id
  <2>1. CASE m = n /\ k = top
    <3>1. e.kind = "link" /\ t = e.target /\ id = fs[t].id /\ t \in Paths /\ t # e.path
      BY <1>1, <1>3, <1>12, <2>1 DEF Ident
    <3>2. t \in DOMAIN fs /\ fs[t].kind # "dir" /\ ~Covers(e.path, t)
      BY <1>3, <3>1
    <3>3. fs[t].layer + 1 \in DOMAIN image /\ fs[t].layer \in Int
      BY <3>2 DEF TrieInv, BuilderTyped, Node, Layers
    <3>4. PICK h \in DOMAIN image[fs[t].layer + 1] : Gave(image, fs[t].layer + 1, h, t, id, n)
      BY <3>1, <3>2 DEF n
    <3>5. Gave(image', fs[t].layer + 1, h, t, id, n)
      BY <1>2, <1>7, <3>1, <3>3, <3>4, <1>1
    <3>6. t \in DOMAIN fs' /\ fs'[t] = fs[t]
      BY <1>4, <3>1, <3>2
    <3>7. HoldsAdd(image', n, t) \/ fs[t].layer < n - 1
      <4>1. CASE fs[t].layer + 1 = n
        <5>1. h \in DOMAIN image[n] /\ Adds(image, n, h, t)
          BY <3>4, <4>1 DEF Gave, Adds, AddKinds
        <5>2. HoldsAdd(image, n, t)
          BY <5>1 DEF HoldsAdd
        <5> QED BY <1>1, <1>6, <3>1, <5>2
      <4>2. CASE fs[t].layer + 1 # n
        BY <1>2, <3>3, <4>2
      <4> QED BY <4>1, <4>2
    <3>8. fs[t].layer + 1 \in 1..m /\ h \in DOMAIN image'[fs[t].layer + 1]
      BY <1>2, <1>5, <2>1, <3>3
    <3> QED BY <2>1, <3>1, <3>5, <3>6, <3>7, <3>8
  <2>2. CASE ~(m = n /\ k = top)
    <3>1. m \in DOMAIN image /\ k \in DOMAIN image[m] /\ image'[m][k] = image[m][k]
      BY <1>5, <1>12, <2>2
    <3>2. t \in Paths /\ t = image[m][k].target /\ id = image[m][k].id /\ image[m][k].kind = "link"
      BY <1>12, <3>1
    <3>3. m = n => HoldsAdd(image, m, t) \/ (t \in DOMAIN fs /\ fs[t].layer < m - 1)
      BY <3>1, <3>2 DEF n
    <3>4. m = n /\ ~HoldsAdd(image, m, t) =>
            t \in DOMAIN fs /\ fs[t].layer < m - 1 /\ t \in DOMAIN fs' /\ fs'[t] = fs[t]
      BY <1>3, <3>1, <3>2, <3>3
    <3>5. m = n /\ ~HoldsAdd(image, m, t) => ~(adds /\ e.path = t)
      <4>1. ASSUME m = n, ~HoldsAdd(image, m, t), adds, e.path = t PROVE FALSE
        <5>1. fs'[t].layer = n - 1 /\ fs'[t].layer < n - 1
          BY <1>4, <3>4, <4>1
        <5> QED BY <5>1, <1>2
      <4> QED BY <4>1
    <3>6. PICK i \in 1..m : \E h \in DOMAIN image[i] : Gave(image, i, h, t, id, m)
      BY <3>1, <3>2
    <3>7. PICK h \in DOMAIN image[i] : Gave(image, i, h, t, id, m)
      BY <3>6
    <3>8. i \in DOMAIN image /\ m \in 1..n
      BY <1>2, <3>1
    <3>9. ~(m = n /\ i < n /\ adds /\ e.path = t)
      <4>1. ASSUME m = n, i < n PROVE ~HoldsAdd(image, m, t)
        BY <1>2, <3>7, <3>8, <4>1 DEF Gave
      <4>2. ASSUME m = n, HoldsAdd(image, m, t) PROVE ~(adds /\ e.path = t)
        BY <1>3, <3>2, <4>2 DEF HoldsAdd
      <4> QED BY <3>5, <4>2
    <3>10. Gave(image', i, h, t, id, m)
      BY <1>7, <3>2, <3>7, <3>8, <3>9
    <3>11. HoldsAdd(image, m, t) => HoldsAdd(image', m, t)
      BY <1>6, <3>1, <3>2
    <3>12. h \in DOMAIN image'[i]
      BY <1>5, <3>8
    <3> HIDE DEF t, id
    <3> QED BY <3>2, <3>3, <3>4, <3>10, <3>11, <3>12 DEF t, id
  <2> QED BY <2>1, <2>2
<1> QED
  BY <1>1, <1>8, <1>9, <1>10, <1>11, <1>12

LEMMA LayerKeepsBuilder ==
  ASSUME TrieInv, BuilderInv, PackLayer
  PROVE  BuilderInv'
<1> DEFINE n == Len(image)
<1>1. n \in Nat /\ DOMAIN image = 1..n
  BY LenProperties DEF TrieInv, BuilderTyped
<1>2. /\ Len(image') = n + 1 /\ DOMAIN image' = 1..(n + 1)
      /\ image'[n + 1] = <<>> /\ \A i \in 1..n : image'[i] = image[i]
  <2>1. image \in Seq(Seq(Item)) /\ <<>> \in Seq(Item)
    BY DEF TrieInv, BuilderTyped
  <2>2. image' = Append(image, <<>>)
    BY DEF PackLayer
  <2> QED BY <2>1, <2>2, AppendProperties, LenProperties
<1>3. /\ UNCHANGED <<fs, phase, left, deferred, promotions, suppressed, out, emitted>>
      /\ DOMAIN image'[n + 1] = {}
  BY <1>2 DEF PackLayer, trackers
<1> HIDE DEF n
<1>4. \A p : ~HoldsAdd(image', n + 1, p)
  BY <1>3 DEF HoldsAdd
<1>5. \A j \in 1..n, p \in Paths : HoldsAdd(image', j, p) <=> HoldsAdd(image, j, p)
  BY <1>2 DEF HoldsAdd, Adds
<1>6. \A id : \A i \in 1..n : \A k \in DOMAIN image[i] : \A p \in Paths, m \in 1..n :
        Gave(image, i, k, p, id, m) => Gave(image', i, k, p, id, m)
  BY <1>1, <1>2, <1>5 DEF Gave
<1>7. \A id : \A i \in 1..n : \A k \in DOMAIN image[i] : \A p \in Paths :
        Gave(image, i, k, p, id, n) => Gave(image', i, k, p, id, n + 1)
  <2> SUFFICES ASSUME NEW id, NEW i \in 1..n, NEW k \in DOMAIN image[i], NEW p \in Paths,
                      Gave(image, i, k, p, id, n)
               PROVE  Gave(image', i, k, p, id, n + 1)
    OBVIOUS
  <2>1. \A j \in (i + 1)..(n + 1) : j = n + 1 \/ (j \in 1..n /\ j \in (i + 1)..n)
    BY <1>1
  <2>2. \A j \in (i + 1)..(n + 1) : ~HoldsAdd(image', j, p)
    BY <1>4, <1>5, <2>1 DEF Gave
  <2> QED BY <1>2, <2>2 DEF Gave
<1> USE DEF BuilderInv
<1>8. \A i \in DOMAIN image' : \A k \in DOMAIN image'[i] : i \in 1..n /\ image'[i] = image[i]
  BY <1>1, <1>2, <1>3
<1>9. \A i \in DOMAIN image' : \A j, k \in DOMAIN image'[i] : \A p \in Paths :
       Adds(image', i, j, p) /\ Adds(image', i, k, p) => j = k
  BY <1>1, <1>8 DEF Adds
<1>10. \A i \in DOMAIN image' : \A k \in DOMAIN image'[i] :
       image'[i][k].kind # "link" => image'[i][k].id = <<i - 1, image'[i][k].path>>
  BY <1>1, <1>8
<1>11. ASSUME NEW p \in DOMAIN fs, fs[p].kind # "dir"
       PROVE  /\ fs[p].layer + 1 \in DOMAIN image'
              /\ \E k \in DOMAIN image'[fs[p].layer + 1] :
                   Gave(image', fs[p].layer + 1, k, p, fs[p].id, n + 1)
  <2>1. fs[p].layer + 1 \in 1..n /\ p \in Paths
    BY <1>1, <1>11
  <2>2. PICK k \in DOMAIN image[fs[p].layer + 1] : Gave(image, fs[p].layer + 1, k, p, fs[p].id, n)
    BY <1>11 DEF n
  <2>3. Gave(image', fs[p].layer + 1, k, p, fs[p].id, n + 1)
    BY <1>7, <2>1, <2>2
  <2> QED BY <1>1, <1>2, <2>1, <2>3
<1>12. ASSUME NEW m \in DOMAIN image', NEW k \in DOMAIN image'[m], image'[m][k].kind = "link"
       PROVE  /\ image'[m][k].target \in Paths
              /\ \E i \in 1..m : \E h \in DOMAIN image'[i] :
                   Gave(image', i, h, image'[m][k].target, image'[m][k].id, m)
              /\ m # n + 1
  <2>1. m \in 1..n /\ image'[m] = image[m]
    BY <1>8, <1>12
  <2>2. /\ image[m][k].target \in Paths
        /\ \E i \in 1..m : \E h \in DOMAIN image[i] :
             Gave(image, i, h, image[m][k].target, image[m][k].id, m)
    BY <1>1, <1>12, <2>1
  <2>3. PICK i \in 1..m : \E h \in DOMAIN image[i] :
             Gave(image, i, h, image[m][k].target, image[m][k].id, m)
    BY <2>2
  <2>4. PICK h \in DOMAIN image[i] : Gave(image, i, h, image[m][k].target, image[m][k].id, m)
    BY <2>3
  <2>5. i \in 1..n /\ h \in DOMAIN image'[i]
    BY <1>1, <1>2, <2>1
  <2>6. Gave(image', i, h, image[m][k].target, image[m][k].id, m)
    BY <1>6, <2>1, <2>2, <2>4, <2>5
  <2> QED BY <1>1, <2>1, <2>2, <2>5, <2>6
<1> QED BY <1>2, <1>3, <1>9, <1>10, <1>11, <1>12

LEMMA BuilderKeeps ==
  ASSUME TrieInv, BuilderInv, [Next]_vars
  PROVE  BuilderInv'
<1>1. ASSUME UNCHANGED builder, phase' # "build" PROVE BuilderInv'
  BY <1>1 DEF BuilderInv, builder
<1>2. CASE Rested
  BY <1>2 DEF BuilderInv, Rested, builder, trackers
<1>3. CASE PackLayer
  BY <1>3, LayerKeepsBuilder
<1>4. CASE PackEntry
  BY <1>4, EntryKeepsBuilder
<1>5. CASE StartMerge \/ DrainSorted \/ GroupsDone
  BY <1>1, <1>5 DEF StartMerge, DrainSorted, GroupsDone
<1>6. CASE SkipRoot \/ RecordWhiteout \/ BufferSuppressed \/ DropSuppressed \/ SkipEmitted
           \/ DeferLink \/ PromoteLink \/ WriteEntry \/ EndLayer
  BY <1>1, <1>6 DEF SkipRoot, RecordWhiteout, BufferSuppressed, DropSuppressed, SkipEmitted,
                    DeferLink, PromoteLink, WriteEntry, EndLayer, Reading, LiveLink, LiveEntry
<1>7. CASE EmitLink \/ DropLink \/ \E t \in Paths : EmitGroup(t) \/ SkipGroup(t)
  BY <1>1, <1>7 DEF EmitLink, DropLink, EmitGroup, SkipGroup, Linking, Promotes, Promoting
<1>8. CASE ReadFails \/ WriteFails \/ Finish \/ FinishFails
  <2>1. PICK x : Stop(x)
    BY <1>8 DEF ReadFails, WriteFails, Finish, FinishFails
  <2> QED BY <1>1, <2>1 DEF Stop
<1> QED
  BY WriterRests, <1>2, <1>3, <1>4, <1>5, <1>6, <1>7, <1>8 DEF Next, Build, Merge, Failure

LEMMA BuilderInitially == Init => BuilderInv
  BY DEF Init, BuilderInv, EmptyFS

----------------------------------------------------------------------------
(* Listing positions. *)

(* A listing of positions is a sequence as long as the set.                *)
LEMMA SelectionOf ==
  ASSUME NEW T, NEW s \in Seq(T), NEW S \in SUBSET DOMAIN s,
         NEW f \in [1..Cardinality(S) -> S]
  PROVE  /\ IsFiniteSet(S) /\ Cardinality(S) \in Nat
         /\ Picked(s, f) \in Seq(T)
         /\ DOMAIN Picked(s, f) = 1..Cardinality(S)
         /\ \A k \in DOMAIN Picked(s, f) : f[k] \in S /\ Picked(s, f)[k] = s[f[k]]
<1>1. IsFiniteSet(S) /\ Cardinality(S) \in Nat
  <2>1. DOMAIN s = 1..Len(s) /\ Len(s) \in Nat
    BY LenProperties
  <2>2. IsFiniteSet(1..Len(s))
    BY <2>1, FS_Interval
  <2>3. IsFiniteSet(S)
    BY <2>1, <2>2, FS_Subset
  <2> QED BY <2>3, FS_CardinalityType
<1> DEFINE n == Cardinality(S)
<1> HIDE DEF n
<1>2. f \in [1..n -> S] /\ n \in Nat
  BY <1>1 DEF n
<1>3. /\ DOMAIN Picked(s, f) = 1..n
      /\ \A k \in 1..n : f[k] \in S /\ Picked(s, f)[k] = s[f[k]] /\ s[f[k]] \in T
  BY <1>2, ElementOfSeq, LenProperties DEF Picked
<1>4. Picked(s, f) \in [1..n -> T]
  BY <1>3 DEF Picked
<1>5. Picked(s, f) \in Seq(T)
  BY <1>2, <1>4, SeqDef
<1> QED BY <1>1, <1>3, <1>5 DEF n

(* A listing in order leaves nothing out. *)
LEMMA OrderedListsAll ==
  ASSUME NEW n \in Nat, NEW S \in SUBSET (1..n), NEW f \in InOrder(S), NEW x \in S
  PROVE  /\ f \in [1..Cardinality(S) -> S]
         /\ \E k \in 1..Cardinality(S) : f[k] = x
<1>1. IsFiniteSet(S) /\ Cardinality(S) \in Nat
  <2>1. IsFiniteSet(1..n)
    BY FS_Interval
  <2>2. IsFiniteSet(S)
    BY <2>1, FS_Subset
  <2> QED BY <2>2, FS_CardinalityType
<1> DEFINE m == Cardinality(S)
<1>2. f \in [1..m -> S] /\ \A j, k \in 1..m : j < k => f[j] < f[k]
  BY DEF InOrder, Listings
<1>3. ASSUME \A k \in 1..m : f[k] # x PROVE FALSE
  <2>1. IsFiniteSet(S \ {x}) /\ Cardinality(S \ {x}) = m - 1
    BY <1>1, FS_RemoveElement
  <2>2. IsFiniteSet(1..m) /\ Cardinality(1..m) = m
    BY <1>1, FS_Interval
  <2> HIDE DEF m
  <2>3. f \in [1..m -> S \ {x}]
    BY <1>2, <1>3
  <2>4. m \in Nat
    BY <1>1 DEF m
  <2>5. PICK j, k \in 1..m : j # k /\ f[j] = f[k]
    BY <2>1, <2>2, <2>3, <2>4, FS_PigeonHole
  <2>6. j < k \/ k < j
    BY <2>4, <2>5
  <2>7. f[j] \in 1..n
    BY <2>3
  <2> QED BY <1>2, <2>5, <2>6, <2>7
<1> QED BY <1>2, <1>3

(* Sorting and dropping a group choose among what is there. *)
LEMMA ChosenFrom ==
  ASSUME NEW T, NEW s \in Seq(T), NEW S \in SUBSET DOMAIN s,
         NEW f \in [1..Cardinality(S) -> S], NEW t, t = Picked(s, f)
  PROVE  /\ t \in Seq(T)
         /\ \A k \in DOMAIN t : \E i \in DOMAIN s : t[k] = s[i]
BY SelectionOf

LEMMA SortedFrom ==
  ASSUME NEW T, NEW s \in Seq(T), NEW t \in ByLayer(s)
  PROVE  /\ t \in Seq(T)
         /\ \A k \in DOMAIN t : \E i \in DOMAIN s : t[k] = s[i]
<1>1. PICK f \in [1..Cardinality(DOMAIN s) -> DOMAIN s] : t = Picked(s, f)
  BY DEF ByLayer, Listings
<1> QED BY <1>1, ChosenFrom

LEMMA UngroupedFrom ==
  ASSUME NEW T, promotions \in Seq(T), NEW target, NEW t \in Ungrouped(target)
  PROVE  /\ t \in Seq(T)
         /\ \A k \in DOMAIN t : \E i \in DOMAIN promotions : t[k] = promotions[i]
<1> DEFINE S == DOMAIN promotions \ Group(target)
<1>1. PICK f \in [1..Cardinality(S) -> S] : t = Picked(promotions, f)
  BY DEF Ungrouped, InOrder, Listings
<1>2. S \subseteq DOMAIN promotions
  OBVIOUS
<1> HIDE DEF S
<1> QED BY <1>1, <1>2, ChosenFrom

----------------------------------------------------------------------------
(* What is written. *)

(* One entry more: it is no link, or it points at an entry before it.      *)
LEMMA OneMore ==
  ASSUME OutputInv, NEW m \in Member, out' = Append(out, m), emitted' = emitted \cup {m.path},
         m.kind = "link" => m.target \in emitted
  PROVE  /\ out' \in Seq(Member)
         /\ \A p \in emitted' : \E j \in DOMAIN out' : out'[j].path = p
         /\ LinksFollowTargets'
<1> DEFINE n == Len(out)
<1>1. out \in Seq(Member) /\ n \in Nat /\ DOMAIN out = 1..n
  BY LenProperties DEF OutputInv
<1>2. /\ out' \in Seq(Member) /\ DOMAIN out' = 1..(n + 1) /\ out'[n + 1] = m
      /\ \A i \in 1..n : out'[i] = out[i]
  BY <1>1, AppendProperties, LenProperties
<1> HIDE DEF n
<1>3. \A p \in emitted : \E j \in 1..n : out'[j].path = p
  BY <1>1, <1>2 DEF OutputInv
<1>4. \A p \in emitted' : \E j \in DOMAIN out' : out'[j].path = p
  BY <1>1, <1>2, <1>3
<1>5. ASSUME NEW i \in 1..(n + 1), out'[i].kind = "link"
      PROVE  \E j \in 1..(i - 1) : out'[j].path = out'[i].target
  <2>1. CASE i = n + 1
    <3>1. out'[i] = m /\ i - 1 = n
      BY <1>1, <1>2, <2>1
    <3>2. m.target \in emitted
      BY <1>5, <3>1
    <3> QED BY <1>3, <3>1, <3>2
  <2>2. CASE i # n + 1
    <3>1. i \in 1..n /\ \A j \in 1..(i - 1) : j \in 1..n
      BY <1>1, <2>2
    <3>2. out'[i] = out[i] /\ i \in DOMAIN out
      BY <1>1, <1>2, <3>1
    <3>3. PICK j \in 1..(i - 1) : out[j].path = out[i].target
      BY <1>5, <3>2 DEF OutputInv, LinksFollowTargets
    <3> QED BY <1>2, <3>1, <3>2, <3>3
  <2> QED BY <2>1, <2>2
<1> QED BY <1>2, <1>4, <1>5 DEF LinksFollowTargets

(* The entry that is read has the types of what is made of it. *)
LEMMA EntryParts ==
  ASSUME TrieInv, Reading
  PROVE  /\ entry.path \in Nodes /\ entry.kind \in Kinds /\ entry.target \in LinkTargets
         /\ cur \in Layers /\ left \in DOMAIN image /\ pos \in DOMAIN image[left]
         /\ entry = image[left][pos]
<1>1. entry \in Item /\ cur \in Nat
  BY EntryTyped DEF TrieInv
<1>2. left \in 1..Len(image) /\ left <= MaxLayers
  BY DEF Reading, TrieInv, Position, BuilderTyped
<1>3. image[left] \in Seq(Item) /\ DOMAIN image = 1..Len(image)
  BY <1>2, LenProperties DEF TrieInv, BuilderTyped
<1>4. pos \in DOMAIN image[left]
  BY <1>3, LenProperties DEF Reading, TrieInv, Position, Layer
<1> QED BY <1>1, <1>2, <1>3, <1>4 DEF Item, LinkTargets, Layers, cur, entry, Layer

LEMMA WriteKeepsOutput ==
  ASSUME TrieInv, OutputInv, WriteEntry
  PROVE  OutputInv'
<1> DEFINE m == Written(entry.kind, entry.path, <<cur, entry.path>>)
<1>1. /\ out' = Append(out, m) /\ emitted' = emitted \cup {entry.path}
      /\ UNCHANGED <<deferred, promotions>> /\ Reading /\ entry.kind # "link"
  BY DEF WriteEntry, LiveEntry
<1>2. m \in Member /\ m.path = entry.path /\ m.kind # "link"
  BY <1>1, EntryParts DEF Written, Member, Nodes, Ids
<1> HIDE DEF m
<1> QED BY <1>1, <1>2, OneMore DEF OutputInv

LEMMA LinkKeepsOutput ==
  ASSUME OutputInv, EmitLink
  PROVE  OutputInv'
<1> DEFINE l == Head(deferred)
           m == Link(l.link, l.target)
<1>1. /\ out' = Append(out, m) /\ emitted' = emitted \cup {l.link} /\ l.target \in emitted
      /\ deferred' = Tail(deferred) /\ UNCHANGED promotions /\ deferred # <<>>
  BY DEF EmitLink, Linking
<1>2. l \in Deferred /\ deferred' \in Seq(Deferred)
  BY <1>1, HeadTailProperties DEF OutputInv
<1>3. m \in Member /\ m.path = l.link /\ m.target = l.target
  BY <1>2 DEF Deferred, Member, Link, Kinds, AddKinds, NonDirKinds
<1> HIDE DEF m, l
<1> QED BY <1>1, <1>2, <1>3, OneMore DEF OutputInv

(* A group that is promoted has a first usable member. *)
LEMMA PrimaryIsUsable ==
  ASSUME promotions \in Seq(Promoted), NEW target, Promotes(target)
  PROVE  Primary(target) \in Group(target) /\ Usable(Primary(target))
<1> DEFINE U == {i \in Group(target) : Usable(i)}
<1>1. U \subseteq Nat /\ U # {}
  BY LenProperties DEF Promotes, Group
<1>2. PICK i \in U : \A j \in U : <<j, i>> \notin OpToRel(<, Nat)
  <2> HIDE DEF U
  <2> QED BY <1>1, WFMin, NatLessThanWellFounded, Zenon
<1>3. \A j \in U : ~(j < i)
  BY <1>1, <1>2 DEF OpToRel
<1>4. i \in Group(target) /\ Usable(i) /\ \A j \in Group(target) : j < i => ~Usable(j)
  BY <1>3
<1> QED BY <1>4, Zenon DEF Primary

(* A promoted group is one file and a link to it for each of the others:   *)
(* f lists the c others.                                                   *)
WritesGroup(target, c, f) ==
  LET main == promotions[Primary(target)]
      n == Len(out) IN
  /\ out' \in Seq(Member) /\ DOMAIN out' = 1..(n + 1 + c)
  /\ \A i \in 1..n : out'[i] = out[i]
  /\ out'[n + 1] = Written("file", main.link, main.data)
  /\ \A k \in 1..c : out'[n + 1 + k] = Link(promotions[f[k]].link, main.link)
  /\ \A x \in Followers(target) : \E k \in 1..c : f[k] = x
  /\ \A j, k \in 1..c : f[j] = f[k] => j = k

LEMMA GroupWrites ==
  ASSUME OutputInv, NEW target, EmitGroup(target)
  PROVE  LET main == promotions[Primary(target)]
             n == Len(out) IN
         /\ n \in Nat /\ DOMAIN out = 1..n
         /\ main \in Promoted /\ main.data # NoData /\ main.link \notin emitted
         /\ Primary(target) \in Group(target)
         /\ \E c \in Nat : \E f \in [1..c -> Followers(target)] : WritesGroup(target, c, f)
<1> DEFINE main == promotions[Primary(target)]
           also == Followers(target)
           w == Written("file", main.link, main.data)
           n == Len(out)
<1>1. PICK f \in InOrder(also) :
        out' = Append(out, w) \o [k \in DOMAIN f |-> Link(promotions[f[k]].link, main.link)]
  BY DEF EmitGroup
<1>2. Promotes(target)
  BY DEF EmitGroup
<1>3. /\ promotions \in Seq(Promoted) /\ DOMAIN promotions = 1..Len(promotions)
      /\ Len(promotions) \in Nat
  BY LenProperties DEF OutputInv
<1>4. /\ main \in Promoted /\ main.data # NoData /\ main.link \notin emitted
      /\ Primary(target) \in Group(target)
  BY <1>2, <1>3, PrimaryIsUsable, ElementOfSeq DEF Group, Usable
<1>5. also \subseteq 1..Len(promotions)
  BY <1>3 DEF Followers, Group
<1> DEFINE c == Cardinality(also)
           g == [k \in 1..c |-> Link(promotions[f[k]].link, main.link)]
<1>6. f \in [1..c -> also] /\ \A j, k \in 1..c : j < k => f[j] < f[k]
  BY DEF InOrder, Listings
<1>7. \A x \in also : \E k \in 1..c : f[k] = x
  <2> DEFINE q == Len(promotions)
  <2> HIDE DEF also, q
  <2>1. q \in Nat /\ also \in SUBSET (1..q) /\ f \in InOrder(also)
    BY <1>1, <1>3, <1>5 DEF q
  <2> QED BY ONLY <2>1, OrderedListsAll
<1>8. c \in Nat
  BY <1>3, <1>5, <1>6, SelectionOf
<1>9. out' = Append(out, w) \o g
  BY <1>1, <1>6
<1>10. w \in Member
  BY <1>4 DEF Written, Promoted, Member, Kinds, AddKinds, NonDirKinds, Nodes
<1> HIDE DEF also, c, w
<1>11. \A j, k \in 1..c : f[j] = f[k] => j = k
  <2>1. ASSUME NEW j \in 1..c, NEW k \in 1..c, f[j] = f[k] PROVE j = k
    <3>1. f[j] \in also /\ f[k] \in also
      BY <1>6
    <3>a. f[j] \in Int
      <4>1. Len(promotions) \in Nat /\ f[j] \in 1..Len(promotions)
        BY <1>3, <1>5, <3>1
      <4> QED BY ONLY <4>1
    <3>2. ~(j < k) /\ ~(k < j)
      BY <1>6, <2>1, <3>a
    <3> QED BY <1>8, <3>2
  <2> QED BY <2>1
<1>12. \A k \in 1..c : promotions[f[k]] \in Promoted
  BY <1>3, <1>5, <1>6, ElementOfSeq
<1>13. g \in [1..c -> Member]
  BY <1>4, <1>12 DEF Link, Promoted, Member, Kinds, AddKinds, NonDirKinds
<1>14. \A k \in 1..c : g[k] = Link(promotions[f[k]].link, main.link)
  OBVIOUS
<1>15. g \in Seq(Member) /\ Len(g) = c
  BY <1>8, <1>13, SeqDef, LenProperties
<1> HIDE DEF g, main
<1>16. out \in Seq(Member) /\ n \in Nat /\ DOMAIN out = 1..n
  BY LenProperties DEF OutputInv
<1> DEFINE a == Append(out, w)
<1>17. /\ a \in Seq(Member) /\ Len(a) = n + 1 /\ a[n + 1] = w
       /\ \A i \in 1..n : a[i] = out[i]
  BY <1>10, <1>16, AppendProperties
<1> HIDE DEF n, a
<1>18. /\ out' \in Seq(Member) /\ Len(out') = n + 1 + c
       /\ \A i \in 1..(n + 1 + c) : out'[i] = IF i <= n + 1 THEN a[i] ELSE g[i - (n + 1)]
  <2>1. out' = a \o g
    BY <1>9 DEF a
  <2>2. /\ a \o g \in Seq(Member) /\ Len(a \o g) = Len(a) + Len(g)
        /\ \A i \in 1..(Len(a) + Len(g)) :
             (a \o g)[i] = IF i <= Len(a) THEN a[i] ELSE g[i - Len(a)]
    BY <1>15, <1>17, ConcatProperties
  <2> QED BY <1>15, <1>17, <2>1, <2>2
<1>19. DOMAIN out' = 1..(n + 1 + c)
  BY <1>18, LenProperties
<1>20. /\ \A i \in 1..n : out'[i] = out[i]
       /\ out'[n + 1] = w
       /\ \A k \in 1..c : out'[n + 1 + k] = g[k]
  BY <1>8, <1>16, <1>17, <1>18
<1>21. \A k \in 1..c : out'[n + 1 + k] = Link(promotions[f[k]].link, main.link)
  BY <1>14, <1>20
<1>22. f \in [1..c -> also] /\ \A x \in also : \E k \in 1..c : f[k] = x
  BY <1>6, <1>7
<1>23. out'[n + 1] = Written("file", main.link, main.data)
  BY <1>20 DEF w
<1>24. WritesGroup(target, c, f)
  BY <1>7, <1>11, <1>18, <1>19, <1>20, <1>21, <1>23 DEF WritesGroup, main, n, also
<1> QED BY <1>4, <1>8, <1>16, <1>22, <1>24 DEF main, also, n

LEMMA GroupKeepsOutput ==
  ASSUME OutputInv, NEW target, EmitGroup(target)
  PROVE  OutputInv'
<1> DEFINE main == promotions[Primary(target)]
<1>1. /\ emitted' = emitted \cup {main.link} \cup {promotions[i].link : i \in Followers(target)}
      /\ promotions' \in Ungrouped(target) /\ UNCHANGED deferred
  BY DEF EmitGroup
<1>2. PICK n \in Nat : n = Len(out) /\ DOMAIN out = 1..n
  BY GroupWrites
<1>3. PICK c \in Nat : \E f \in [1..c -> Followers(target)] : WritesGroup(target, c, f)
  BY GroupWrites
<1>4. PICK f \in [1..c -> Followers(target)] : WritesGroup(target, c, f)
  BY <1>3
<1>5. /\ out' \in Seq(Member) /\ DOMAIN out' = 1..(n + 1 + c)
      /\ \A i \in 1..n : i \in DOMAIN out' /\ out'[i] = out[i]
      /\ n + 1 \in DOMAIN out' /\ out'[n + 1] = Written("file", main.link, main.data)
      /\ \A k \in 1..c : /\ n + 1 + k \in DOMAIN out'
                         /\ out'[n + 1 + k] = Link(promotions[f[k]].link, main.link)
      /\ \A x \in Followers(target) : \E k \in 1..c : f[k] = x
  BY <1>2, <1>4 DEF WritesGroup
<1>6. /\ out'[n + 1].path = main.link /\ out'[n + 1].kind # "link"
      /\ \A k \in 1..c : /\ out'[n + 1 + k].path = promotions[f[k]].link
                         /\ out'[n + 1 + k].target = main.link
  <2>1. out'[n + 1].path = main.link /\ out'[n + 1].kind # "link"
    <3>1. out'[n + 1] = Written("file", main.link, main.data)
      BY <1>5
    <3> QED BY ONLY <3>1 DEF Written
  <2>2. ASSUME NEW k \in 1..c
        PROVE  /\ out'[n + 1 + k].path = promotions[f[k]].link
               /\ out'[n + 1 + k].target = main.link
    <3>1. out'[n + 1 + k] = Link(promotions[f[k]].link, main.link)
      BY <1>5
    <3> QED BY ONLY <3>1 DEF Link
  <2> QED BY <2>1, <2>2
<1> HIDE DEF main
<1>7. ASSUME NEW p \in emitted' PROVE \E j \in DOMAIN out' : out'[j].path = p
  <2>1. CASE p \in emitted
    BY <1>2, <1>5, <2>1 DEF OutputInv
  <2>2. CASE p = main.link
    BY <1>5, <1>6, <2>2
  <2>3. CASE p \in {promotions[i].link : i \in Followers(target)}
    <3>1. PICK x \in Followers(target) : p = promotions[x].link
      BY <2>3
    <3>2. PICK k \in 1..c : f[k] = x
      BY <1>5, <3>1
    <3> QED BY <1>5, <1>6, <3>1, <3>2
  <2> QED BY <1>1, <1>7, <2>1, <2>2, <2>3
<1>8. ASSUME NEW i \in DOMAIN out', out'[i].kind = "link"
      PROVE  \E j \in 1..(i - 1) : out'[j].path = out'[i].target
  <2>1. CASE i \in 1..n
    <3>1. \A j \in 1..(i - 1) : j \in 1..n
      BY <1>2, <2>1
    <3>2. i \in DOMAIN out /\ out'[i] = out[i]
      BY <1>2, <1>5, <2>1
    <3>3. PICK j \in 1..(i - 1) : out[j].path = out[i].target
      BY <1>8, <3>2 DEF OutputInv, LinksFollowTargets
    <3> QED BY <1>5, <3>1, <3>2, <3>3
  <2>2. CASE i = n + 1
    BY <1>6, <1>8, <2>2
  <2>3. CASE i \in (n + 2)..(n + 1 + c)
    <3>1. i - (n + 1) \in 1..c /\ i = n + 1 + (i - (n + 1)) /\ n + 1 \in 1..(i - 1)
      BY <1>2, <2>3
    <3>2. out'[i].target = main.link
      BY <1>6, <3>1
    <3> QED BY <1>6, <3>1, <3>2
  <2> QED BY <1>2, <1>5, <2>1, <2>2, <2>3
<1>9. promotions' \in Seq(Promoted)
  BY <1>1, UngroupedFrom DEF OutputInv
<1> QED BY <1>1, <1>5, <1>7, <1>8, <1>9 DEF OutputInv, LinksFollowTargets

(* Links that wait, and content that comes, write nothing. *)
LEMMA WaitingKeepsOutput ==
  ASSUME TrieInv, BuilderInv, BufferInv, OutputInv, DeferLink \/ PromoteLink \/ BufferSuppressed
  PROVE  OutputInv'
<1>1. /\ UNCHANGED <<out, emitted>> /\ Reading /\ (LinksFollowTargets => LinksFollowTargets')
      /\ cur \in Nat
  BY EntryParts DEF DeferLink, PromoteLink, BufferSuppressed, LiveLink, LinksFollowTargets, Layers
<1>2. CASE DeferLink
  <2> DEFINE d == [link |-> entry.path, target |-> entry.target, layer |-> cur]
  <2>1. deferred' = Append(deferred, d) /\ UNCHANGED promotions
    BY <1>2 DEF DeferLink
  <2>2. d \in Deferred
    BY <1>1, EntryParts DEF Deferred
  <2> HIDE DEF d
  <2> QED BY <1>1, <2>1, <2>2, AppendProperties DEF OutputInv
<1>3. CASE PromoteLink
  <2> DEFINE x == IF entry.target \in DOMAIN suppressed THEN suppressed[entry.target] ELSE NoData
             d == [link |-> entry.path, target |-> entry.target, layer |-> cur, data |-> x]
  <2>1. promotions' = Append(promotions, d) /\ UNCHANGED deferred
    BY <1>3 DEF PromoteLink
  <2>2. x \in Ids \cup {NoData}
    <3>1. entry.target \in Paths
      BY <1>1, <1>3, EntryParts DEF BuilderInv, PromoteLink, LiveLink
    <3>2. entry.target \in DOMAIN suppressed => suppressed[entry.target] = <<cur, entry.target>>
      BY DEF BufferInv
    <3>3. <<cur, entry.target>> \in Ids
      BY <1>1, <3>1, EntryParts DEF Ids, Nodes
    <3> QED BY <3>2, <3>3
  <2> HIDE DEF x
  <2>3. d \in Promoted
    BY <1>1, <2>2, EntryParts DEF Promoted
  <2> HIDE DEF d
  <2> QED BY <1>1, <2>1, <2>3, AppendProperties DEF OutputInv
<1>4. CASE BufferSuppressed
  <2> DEFINE id == <<cur, entry.path>>
             n == Len(promotions)
  <2>1. /\ UNCHANGED deferred
        /\ promotions' = [i \in DOMAIN promotions |->
             IF promotions[i].target = entry.path /\ promotions[i].data = NoData
             THEN [promotions[i] EXCEPT !.data = id]
             ELSE promotions[i]]
    BY <1>4 DEF BufferSuppressed
  <2>2. id \in Ids
    BY <1>1, EntryParts DEF Ids
  <2>3. n \in Nat /\ DOMAIN promotions = 1..n /\ \A i \in 1..n : promotions[i] \in Promoted
    BY LenProperties, ElementOfSeq DEF OutputInv
  <2> HIDE DEF id, n
  <2>4. \A i \in 1..n : [promotions[i] EXCEPT !.data = id] \in Promoted
    BY <2>2, <2>3 DEF Promoted
  <2>5. promotions' \in [1..n -> Promoted]
    BY <2>1, <2>3, <2>4
  <2>6. promotions' \in Seq(Promoted)
    BY <2>3, <2>5, SeqDef
  <2> QED BY <1>1, <2>1, <2>6 DEF OutputInv
<1> QED BY <1>2, <1>3, <1>4

LEMMA OutputKeeps ==
  ASSUME TrieInv, BuilderInv, BufferInv, OutputInv, [Next]_vars
  PROVE  OutputInv'
<1>1. ASSUME UNCHANGED <<out, emitted>>, deferred' \in Seq(Deferred), promotions' \in Seq(Promoted)
      PROVE  OutputInv'
  BY <1>1 DEF OutputInv, LinksFollowTargets
<1>2. ASSUME UNCHANGED <<out, emitted, deferred, promotions>> PROVE OutputInv'
  BY <1>1, <1>2 DEF OutputInv
<1>3. CASE Build \/ Rested
  BY <1>2, <1>3 DEF Build, PackLayer, PackEntry, StartMerge, Rested, trackers
<1>4. CASE SkipRoot \/ RecordWhiteout \/ DropSuppressed \/ SkipEmitted \/ EndLayer
  BY <1>2, <1>4 DEF SkipRoot, RecordWhiteout, DropSuppressed, SkipEmitted, EndLayer, trackers
<1>5. CASE DeferLink \/ PromoteLink \/ BufferSuppressed
  BY <1>5, WaitingKeepsOutput
<1>6. CASE WriteEntry
  BY <1>6, WriteKeepsOutput
<1>7. CASE DrainSorted
  <2>1. deferred' \in Seq(Deferred) /\ promotions' \in Seq(Promoted)
    BY <1>7, SortedFrom DEF DrainSorted, OutputInv
  <2> QED BY <1>1, <1>7, <2>1 DEF DrainSorted
<1>8. ASSUME NEW t, EmitGroup(t) PROVE OutputInv'
  BY <1>8, GroupKeepsOutput
<1>9. ASSUME NEW t, SkipGroup(t) PROVE OutputInv'
  <2>1. promotions' \in Seq(Promoted)
    BY <1>9, UngroupedFrom DEF SkipGroup, OutputInv
  <2> QED BY <1>1, <1>9, <2>1 DEF SkipGroup, OutputInv
<1>10. CASE GroupsDone \/ Finish
  BY <1>2, <1>10 DEF GroupsDone, Finish, Stop, trackers
<1>11. CASE EmitLink
  BY <1>11, LinkKeepsOutput
<1>12. CASE DropLink
  <2>1. deferred' \in Seq(Deferred)
    BY <1>12, HeadTailProperties DEF DropLink, Linking, OutputInv
  <2> QED BY <1>1, <1>12, <2>1 DEF DropLink, OutputInv
<1>13. CASE Failure
  <2>1. PICK x : Stop(x)
    BY <1>13 DEF Failure, ReadFails, WriteFails, FinishFails
  <2> QED BY <1>2, <2>1 DEF Stop, trackers
<1> QED
  BY WriterRests, <1>3, <1>4, <1>5, <1>6, <1>7, <1>8, <1>9, <1>10, <1>11, <1>12, <1>13 DEF Next, Merge

LEMMA OutputInitially == Init => OutputInv
  BY DEF Init, OutputInv, LinksFollowTargets

----------------------------------------------------------------------------
(* The buffer and the promotions. *)

(* A layer's own whiteouts hide nothing of it. *)
LEMMA SameCover ==
  ASSUME TrieInv, UNCHANGED left, recorded \subseteq recorded',
         \A r \in recorded' : r \in recorded \/ r[2] = cur, NEW p
  PROVE  (\E r \in recorded' : Covers(r[1], p) /\ cur' < r[2]) <=> CoveredBy(p, cur)
<1>1. cur' = cur /\ cur \in Int
  BY DEF cur, TrieInv, Position
<1> QED BY <1>1 DEF CoveredBy

LEMMA KeptStays ==
  ASSUME NEW img, NEW l \in Int, NEW l2 \in Int, l2 <= l, NEW at, NEW at2,
         NEW rec, NEW rec2, rec \subseteq rec2, NEW p, p.layer \in Nat,
         Kept(p, img, l, at, rec),
         \/ p.data # NoData
         \/ \A j \in DOMAIN img : \A k \in DOMAIN img[j] :
              FileAt(img, j, k, p.target) /\ Ahead(j, k, l, at) => Ahead(j, k, l2, at2),
         NEW n \in Nat, DOMAIN img = 1..n
  PROVE  Kept(p, img, l2, at2, rec2)
<1>1. p.layer + 1 \in DOMAIN img /\ l2 <= p.layer + 1
  BY DEF Kept
<1>2. \E r \in rec2 : Covers(r[1], p.target) /\ p.layer < r[2]
  BY DEF Kept
<1>3. \A j \in 1..(p.layer + 1) : j \in DOMAIN img
  BY <1>1
<1> QED BY <1>1, <1>2, <1>3 DEF Kept

(* An entry passes that leaves the buffer and the promotions as they are:  *)
(* it is no file that some promotion might be waiting for.                 *)
LEMMA PassingKeeps ==
  ASSUME TrieInv, OutputInv, BufferInv, PromotionInv, Reading, NextEntry,
         UNCHANGED <<builder, left, promotions, suppressed>>,
         recorded \subseteq recorded', \A r \in recorded' : r \in recorded \/ r[2] = cur,
         missed => missed',
         ~missed' /\ entry.kind = "file" => ~CoveredBy(entry.path, cur)
  PROVE  BufferInv' /\ PromotionInv'
<1>1. /\ left \in DOMAIN image /\ pos \in DOMAIN image[left] /\ entry = image[left][pos]
      /\ cur = left - 1 /\ cur' = cur /\ left \in Nat /\ pos \in Nat
      /\ image' = image /\ pos' = pos + 1
  BY EntryParts DEF cur, builder, NextEntry, TrieInv, Position
<1>2. \A i \in DOMAIN image : DOMAIN image[i] \subseteq Nat
  BY ElementOfSeq, LenProperties DEF TrieInv, BuilderTyped
<1>3. \A p : FileAt(image, left, pos, p) => entry.kind = "file" /\ entry.path = p
  BY <1>1 DEF FileAt
<1>4. BufferInv'
  <2>1. ASSUME ~missed', left > 0, NEW k \in DOMAIN image[left], NEW p \in Paths,
               FileAt(image, left, k, p), ~Ahead(left, k, left, pos + 1),
               \E r \in recorded' : Covers(r[1], p) /\ cur' < r[2]
        PROVE  p \in DOMAIN suppressed
    <3>1. CoveredBy(p, cur)
      BY <2>1, SameCover
    <3>2. k # pos
      BY <1>3, <2>1, <3>1
    <3>3. ~Ahead(left, k, left, pos)
      BY <1>1, <1>2, <2>1, <3>2 DEF Ahead
    <3> QED BY <2>1, <3>1, <3>3 DEF BufferInv
  <2> QED BY <1>1, <2>1 DEF BufferInv, CoveredBy
<1>5. PromotionInv'
  <2> SUFFICES ASSUME ~missed', NEW i \in DOMAIN promotions
               PROVE  Kept(promotions[i], image, left, pos + 1, recorded')
    BY <1>1 DEF PromotionInv
  <2> DEFINE p == promotions[i]
  <2>1. Kept(p, image, left, pos, recorded) /\ p \in Promoted
    BY LenProperties, ElementOfSeq DEF PromotionInv, OutputInv
  <2> HIDE DEF p
  <2>2. ASSUME NEW j \in DOMAIN image, NEW k \in DOMAIN image[j],
               FileAt(image, j, k, p.target), Ahead(j, k, left, pos)
        PROVE  Ahead(j, k, left, pos + 1)
    <3>1. CoveredBy(p.target, cur)
      <4>1. PICK r \in recorded : Covers(r[1], p.target) /\ p.layer < r[2]
        BY <2>1 DEF Kept
      <4>2. r[2] \in Int /\ p.layer \in Nat /\ left <= p.layer + 1
        BY <2>1 DEF TrieInv, RecordedNewer, Promoted, Kept
      <4>3. cur < r[2]
        BY <1>1, <4>1, <4>2
      <4> QED BY <4>1, <4>3 DEF CoveredBy
    <3>2. ~(j = left /\ k = pos)
      BY <1>3, <2>2, <3>1
    <3> QED BY <1>1, <1>2, <2>2, <3>2 DEF Ahead
  <2>3. DOMAIN image = 1..Len(image) /\ Len(image) \in Nat /\ p.layer \in Nat
    BY <2>1, LenProperties DEF TrieInv, BuilderTyped, Promoted
  <2>4. Kept(p, image, left, pos + 1, recorded')
    BY <1>1, <2>1, <2>2, <2>3, KeptStays
  <2> QED BY <2>4 DEF p
<1> QED BY <1>4, <1>5

(* note_suppressed_file: those that wait for this path get the content. *)
LEMMA BufferKeeps ==
  ASSUME TrieInv, BuilderInv, OutputInv, BufferInv, PromotionInv, BufferSuppressed
  PROVE  BufferInv' /\ PromotionInv'
<1> DEFINE path == entry.path
           id == <<cur, path>>
<1>1. /\ left \in DOMAIN image /\ pos \in DOMAIN image[left] /\ entry = image[left][pos]
      /\ cur = left - 1 /\ cur' = cur /\ left \in Nat /\ pos \in Nat
      /\ left' = left /\ image' = image /\ pos' = pos + 1
      /\ recorded' = recorded /\ missed' = missed /\ entry.kind = "file"
  BY EntryParts DEF BufferSuppressed, cur, builder, NextEntry, TrieInv, Position, history
<1>2. /\ promotions' = [i \in DOMAIN promotions |->
           IF promotions[i].target = path /\ promotions[i].data = NoData
           THEN [promotions[i] EXCEPT !.data = id]
           ELSE promotions[i]]
      /\ suppressed' = [p \in DOMAIN suppressed \cup {path} |->
           IF p = path THEN id ELSE suppressed[p]]
  BY DEF BufferSuppressed
<1> HIDE DEF path, id
<1>3. \A i \in DOMAIN image : DOMAIN image[i] \subseteq Nat
  BY ElementOfSeq, LenProperties DEF TrieInv, BuilderTyped
<1>4. FileAt(image, left, pos, path) /\ HoldsFile(image, left, path)
  BY <1>1 DEF FileAt, HoldsFile, path
<1>5. \A p : FileAt(image, left, pos, p) => p = path
  BY <1>1 DEF FileAt, path
<1>6. BufferInv'
  <2>1. \A p \in DOMAIN suppressed' : suppressed'[p] = <<cur, p>> /\ HoldsFile(image, left, p)
    BY <1>2, <1>4 DEF BufferInv, id
  <2>2. ASSUME ~missed, NEW k \in DOMAIN image[left], NEW p \in Paths,
               FileAt(image, left, k, p), ~Ahead(left, k, left, pos + 1), CoveredBy(p, cur)
        PROVE  p \in DOMAIN suppressed'
    <3>1. CASE k = pos
      BY <1>2, <1>5, <2>2, <3>1
    <3>2. CASE k # pos
      <4>1. ~Ahead(left, k, left, pos)
        BY <1>1, <1>3, <2>2, <3>2 DEF Ahead
      <4>2. left > 0
        BY <1>1 DEF BufferSuppressed, Reading
      <4> QED BY <1>2, <2>2, <4>1, <4>2 DEF BufferInv
    <3> QED BY <3>1, <3>2
  <2>3. left > 0
    BY <1>1 DEF BufferSuppressed, Reading
  <2> QED BY <1>1, <2>1, <2>2, <2>3 DEF BufferInv, CoveredBy
<1>7. PromotionInv'
  <2> SUFFICES ASSUME ~missed, NEW i \in DOMAIN promotions
               PROVE  Kept(promotions'[i], image, left, pos + 1, recorded)
    BY <1>1, <1>2 DEF PromotionInv
  <2> DEFINE p == promotions[i]
  <2>1. Kept(p, image, left, pos, recorded) /\ p \in Promoted
    BY LenProperties, ElementOfSeq DEF PromotionInv, OutputInv
  <2>2. promotions'[i] = IF p.target = path /\ p.data = NoData
                         THEN [p EXCEPT !.data = id] ELSE p
    BY <1>2
  <2> HIDE DEF p
  <2>3. DOMAIN image = 1..Len(image) /\ Len(image) \in Nat /\ p.layer \in Nat
    BY <2>1, LenProperties DEF TrieInv, BuilderTyped, Promoted
  <2>4. CASE p.target = path /\ p.data = NoData
    <3> DEFINE q == [p EXCEPT !.data = id]
    <3>1. q.link = p.link /\ q.target = p.target /\ q.layer = p.layer /\ q.data = <<left - 1, path>>
      BY <1>1, <2>1 DEF Promoted, id
    <3>2. \A j \in 1..(p.layer + 1) : \A k \in DOMAIN image[j] :
            FileAt(image, j, k, path) => Ahead(j, k, left, pos)
      BY <2>1, <2>4 DEF Kept, NoData
    <3>3. left \in 1..(p.layer + 1)
      BY <1>1, <2>1, <2>3 DEF Kept
    <3>4. \A h \in (left + 1)..(p.layer + 1) : ~HoldsFile(image, h, path)
      BY <1>1, <2>3, <3>2 DEF HoldsFile, Ahead
    <3> HIDE DEF q
    <3>5. Kept(q, image, left, pos + 1, recorded)
      BY <1>4, <2>1, <2>4, <3>1, <3>3, <3>4 DEF Kept
    <3> QED BY <2>2, <2>4, <3>5 DEF q
  <2>5. CASE p.data # NoData
    <3>1. Kept(p, image, left, pos + 1, recorded)
      BY <2>1, <2>5 DEF Kept
    <3> QED BY <2>2, <2>5, <3>1
  <2>6. CASE p.target # path
    <3>1. ASSUME NEW j \in DOMAIN image, NEW k \in DOMAIN image[j],
                 FileAt(image, j, k, p.target), Ahead(j, k, left, pos)
          PROVE  Ahead(j, k, left, pos + 1)
      BY <1>1, <1>3, <1>5, <2>6, <3>1 DEF Ahead
    <3>2. Kept(p, image, left, pos + 1, recorded)
      BY <1>1, <2>1, <2>3, <3>1, KeptStays
    <3> QED BY <2>2, <2>6, <3>2
  <2> QED BY <2>4, <2>5, <2>6
<1> QED BY <1>6, <1>7

(* record_promotion: the link's target is hidden, and content of its layer *)
(* that came before is in the buffer.                                      *)
LEMMA PromoteKeeps ==
  ASSUME TrieInv, BuilderInv, OutputInv, BufferInv, PromotionInv, PromoteLink
  PROVE  BufferInv' /\ PromotionInv'
<1> DEFINE d == [link |-> entry.path, target |-> entry.target, layer |-> cur,
                 data |-> IF entry.target \in DOMAIN suppressed
                          THEN suppressed[entry.target] ELSE NoData]
<1>1. /\ left \in DOMAIN image /\ pos \in DOMAIN image[left] /\ entry = image[left][pos]
      /\ cur = left - 1 /\ cur' = cur /\ left \in Nat /\ pos \in Nat /\ cur \in Nat
      /\ left' = left /\ image' = image /\ pos' = pos + 1 /\ entry.kind = "link"
      /\ entry.path \in Nodes
  BY EntryParts
  DEF PromoteLink, LiveLink, cur, builder, NextEntry, TrieInv, Position, Layers
<1>2. /\ recorded' = recorded \cup {<<entry.path, cur>>} /\ (missed => missed')
      /\ Reading /\ left > 0
  BY DEF PromoteLink, LiveLink, Record, Reading
<1>3. promotions' = Append(promotions, d) /\ suppressed' = suppressed
  BY DEF PromoteLink
<1>4. \A i \in DOMAIN image : DOMAIN image[i] \subseteq Nat
  BY ElementOfSeq, LenProperties DEF TrieInv, BuilderTyped
<1>5. \A p : ~FileAt(image, left, pos, p)
  BY <1>1 DEF FileAt
<1>6. entry.target \in Paths
  BY <1>1 DEF BuilderInv
<1>7. CoveredBy(entry.target, cur)
  <2>1. PICK i \in 0..Len(entry.target) :
          /\ Shadowed[Ancestor(entry.target, i)] # NoWhiteout
          /\ cur < Shadowed[Ancestor(entry.target, i)]
    BY DEF PromoteLink, IsSuppressed
  <2> DEFINE n == Ancestor(entry.target, i)
  <2>2. n \in Nodes
    BY <1>6, AncestorIsNode DEF Nodes
  <2>3. Covers(n, entry.target)
    BY DEF Covers
  <2>4. Shadowed[n] # NoWhiteout /\ cur < Shadowed[n]
    BY <2>1
  <2> HIDE DEF n
  <2>5. n # entry.path /\ Shadowed[n] = whiteout[n]
    BY <1>1, <2>2, <2>4 DEF Shadowed, Insert, TrieInv, TrieKept
  <2>6. <<n, whiteout[n]>> \in recorded
    BY <2>2, <2>4, <2>5 DEF TrieInv, TrieKept
  <2> QED BY <2>3, <2>4, <2>5, <2>6 DEF CoveredBy
<1>8. BufferInv'
  <2>1. ASSUME ~missed', NEW k \in DOMAIN image[left], NEW p \in Paths,
               FileAt(image, left, k, p), ~Ahead(left, k, left, pos + 1),
               \E r \in recorded' : Covers(r[1], p) /\ cur' < r[2]
        PROVE  p \in DOMAIN suppressed
    <3>1. CoveredBy(p, cur)
      BY <1>1, <1>2, <2>1, SameCover
    <3>2. k # pos
      BY <1>5, <2>1
    <3>3. ~Ahead(left, k, left, pos)
      BY <1>1, <1>4, <2>1, <3>2 DEF Ahead
    <3> QED BY <1>2, <2>1, <3>1, <3>3 DEF BufferInv
  <2> QED BY <1>1, <1>2, <1>3, <2>1 DEF BufferInv, CoveredBy
<1>9. ASSUME ~missed', NEW i \in DOMAIN promotions
      PROVE  Kept(promotions[i], image, left, pos + 1, recorded')
  <2> DEFINE p == promotions[i]
  <2>1. Kept(p, image, left, pos, recorded) /\ p \in Promoted
    BY <1>2, <1>9, LenProperties, ElementOfSeq DEF PromotionInv, OutputInv
  <2> HIDE DEF p
  <2>2. ASSUME NEW j \in DOMAIN image, NEW k \in DOMAIN image[j],
               FileAt(image, j, k, p.target), Ahead(j, k, left, pos)
        PROVE  Ahead(j, k, left, pos + 1)
    BY <1>1, <1>4, <1>5, <2>2 DEF Ahead
  <2>3. DOMAIN image = 1..Len(image) /\ Len(image) \in Nat /\ p.layer \in Nat
    BY <2>1, LenProperties DEF TrieInv, BuilderTyped, Promoted
  <2>4. Kept(p, image, left, pos + 1, recorded')
    BY <1>1, <1>2, <2>1, <2>2, <2>3, KeptStays
  <2> QED BY <2>4 DEF p
<1>10. ASSUME ~missed' PROVE Kept(d, image, left, pos + 1, recorded')
  <2>1. /\ d.link = entry.path /\ d.target = entry.target /\ d.layer = left - 1
        /\ d.data = IF d.target \in DOMAIN suppressed THEN suppressed[d.target] ELSE NoData
    BY <1>1
  <2> HIDE DEF d
  <2>2. \E r \in recorded' : Covers(r[1], d.target) /\ d.layer < r[2]
    BY <1>1, <1>2, <1>7, <2>1 DEF CoveredBy
  <2>3. CASE d.target \in DOMAIN suppressed
    <3>1. d.data = <<left - 1, d.target>> /\ HoldsFile(image, left, d.target)
      BY <1>1, <2>1, <2>3 DEF BufferInv
    <3>2. left \in 1..left /\ (left + 1)..left = {} /\ d.layer + 1 = left
      BY <1>1, <1>2, <2>1
    <3>3. \E k \in DOMAIN image[left] :
            LET e == image[left][k] IN
            e.kind = "link" /\ e.path = d.link /\ e.target = d.target
      BY <1>1, <2>1
    <3>4. d.layer + 1 \in DOMAIN image /\ left <= d.layer + 1
      BY <1>1, <3>2
    <3> QED BY ONLY <2>2, <3>1, <3>2, <3>3, <3>4 DEF Kept
  <2>4. CASE d.target \notin DOMAIN suppressed
    <3>1. ASSUME NEW j \in 1..left, NEW k \in DOMAIN image[j], FileAt(image, j, k, d.target)
          PROVE  Ahead(j, k, left, pos + 1)
      <4>1. CASE j < left
        BY <4>1 DEF Ahead
      <4>2. CASE j = left
        <5>1. Ahead(left, k, left, pos)
          BY <1>2, <1>6, <1>7, <1>10, <2>1, <2>4, <3>1, <4>2 DEF BufferInv
        <5>2. k # pos
          BY <1>5, <3>1, <4>2
        <5> QED BY <1>1, <1>4, <4>2, <5>1, <5>2 DEF Ahead
      <4> QED BY <1>1, <4>1, <4>2
    <3>2. d.layer + 1 = left
      BY <1>1, <2>1
    <3> QED BY <1>1, <2>1, <2>2, <2>4, <3>1, <3>2 DEF Kept
  <2> QED BY <2>3, <2>4
<1>11. PromotionInv'
  <2>1. /\ promotions \in Seq(Promoted) /\ DOMAIN promotions = 1..Len(promotions)
        /\ Len(promotions) \in Nat /\ promotions' \in Seq(Promoted)
    BY OutputKeeps DEF OutputInv, Next, Merge
  <2> HIDE DEF d
  <2>2. /\ DOMAIN promotions' = 1..(Len(promotions) + 1)
        /\ \A i \in 1..Len(promotions) : promotions'[i] = promotions[i]
        /\ promotions'[Len(promotions) + 1] = d
    BY <1>3, <2>1, LenProperties
  <2>3. ASSUME ~missed', NEW i \in DOMAIN promotions'
        PROVE  Kept(promotions'[i], image, left, pos + 1, recorded')
    <3>1. CASE i \in 1..Len(promotions)
      BY <1>9, <2>1, <2>2, <2>3, <3>1
    <3>2. CASE i = Len(promotions) + 1
      BY <1>10, <2>2, <2>3, <3>2
    <3> QED BY <2>1, <2>2, <3>1, <3>2
  <2> QED BY <1>1, <2>3 DEF PromotionInv
<1> QED BY <1>8, <1>11

(* The layer has ended: what its files were is forgotten. *)
LEMMA EndLayerKeeps ==
  ASSUME TrieInv, OutputInv, BufferInv, PromotionInv, EndLayer
  PROVE  BufferInv' /\ PromotionInv'
<1>1. /\ left \in Nat /\ left > 0 /\ left \in DOMAIN image /\ pos \in Nat /\ pos > Len(Layer)
      /\ left' = left - 1 /\ pos' = 1 /\ image' = image /\ recorded' = recorded
      /\ missed' = missed /\ promotions' = promotions /\ suppressed' = EmptyFS
  BY LenProperties DEF EndLayer, TrieInv, Position, BuilderTyped, builder, history
<1>2. /\ \A i \in DOMAIN image : DOMAIN image[i] \subseteq Nat \ {0}
      /\ \A k \in DOMAIN image[left] : k < pos
  <2>1. \A i \in DOMAIN image : DOMAIN image[i] = 1..Len(image[i]) /\ Len(image[i]) \in Nat
    <3>1. \A i \in DOMAIN image : image[i] \in Seq(Item)
      BY ElementOfSeq, LenProperties DEF TrieInv, BuilderTyped
    <3> QED BY <3>1, LenProperties
  <2> QED BY <1>1, <2>1 DEF Layer
<1>3. BufferInv'
  <2>1. \A k \in DOMAIN image[left - 1] : left - 1 > 0 => Ahead(left - 1, k, left - 1, 1)
    <3>1. left - 1 > 0 => left - 1 \in DOMAIN image
      BY <1>1, LenProperties DEF TrieInv, BuilderTyped
    <3> QED BY <1>2, <3>1 DEF Ahead
  <2> QED BY <1>1, <2>1 DEF BufferInv, EmptyFS
<1>4. PromotionInv'
  <2> SUFFICES ASSUME ~missed, NEW i \in DOMAIN promotions
               PROVE  Kept(promotions[i], image, left - 1, 1, recorded)
    BY <1>1 DEF PromotionInv
  <2> DEFINE p == promotions[i]
  <2>1. Kept(p, image, left, pos, recorded) /\ p \in Promoted
    BY LenProperties, ElementOfSeq DEF PromotionInv, OutputInv
  <2> HIDE DEF p
  <2>2. ASSUME NEW j \in DOMAIN image, NEW k \in DOMAIN image[j],
               FileAt(image, j, k, p.target), Ahead(j, k, left, pos)
        PROVE  Ahead(j, k, left - 1, 1)
    <3>1. j \in Nat
      BY LenProperties DEF TrieInv, BuilderTyped
    <3> QED BY <1>1, <1>2, <2>2, <3>1 DEF Ahead
  <2>3. DOMAIN image = 1..Len(image) /\ Len(image) \in Nat /\ p.layer \in Nat
    BY <2>1, LenProperties DEF TrieInv, BuilderTyped, Promoted
  <2>4. Kept(p, image, left - 1, 1, recorded)
    BY <1>1, <2>1, <2>2, <2>3, KeptStays
  <2> QED BY <2>4 DEF p
<1> QED BY <1>3, <1>4

LEMMA BuffersKeep ==
  ASSUME TrieInv, BuilderInv, OutputInv, BufferInv, PromotionInv, [Next]_vars
  PROVE  BufferInv' /\ PromotionInv'
<1>1. ASSUME UNCHANGED <<image, left, pos, suppressed, recorded, missed>>,
             \A k \in DOMAIN promotions' : \E i \in DOMAIN promotions : promotions'[k] = promotions[i]
      PROVE  BufferInv' /\ PromotionInv'
  <2>1. BufferInv'
    BY <1>1 DEF BufferInv, CoveredBy, cur
  <2>2. PromotionInv'
    BY <1>1 DEF PromotionInv
  <2> QED BY <2>1, <2>2
<1>2. CASE PackLayer \/ PackEntry
  <2>1. left' = 0 /\ promotions' = <<>> /\ suppressed' = EmptyFS
    BY <1>2 DEF PackLayer, PackEntry, BuilderInv, trackers
  <2> QED BY <2>1 DEF BufferInv, PromotionInv, EmptyFS
<1>3. CASE StartMerge
  <2>1. promotions' = <<>> /\ suppressed' = EmptyFS /\ recorded' = {}
    BY <1>3 DEF StartMerge, BuilderInv, TrieInv, RecordedNewer, trackers, history
  <2> QED BY <2>1 DEF BufferInv, PromotionInv, EmptyFS, CoveredBy
<1>4. \A x : Record(x) => /\ recorded \subseteq recorded'
                          /\ \A r \in recorded' : r \in recorded \/ r[2] = cur
  BY DEF Record
<1>5. CASE SkipRoot \/ RecordWhiteout \/ DropSuppressed
  <2>1. /\ Reading /\ NextEntry /\ entry.kind # "file" /\ missed' = missed
        /\ UNCHANGED <<builder, left, promotions, suppressed>>
        /\ recorded' = recorded \/ Record(entry.path)
    BY <1>5 DEF SkipRoot, RecordWhiteout, DropSuppressed, trackers, history
  <2> QED BY <1>4, <2>1, PassingKeeps
<1>6. CASE SkipEmitted \/ DeferLink \/ WriteEntry
  <2>1. /\ Reading /\ NextEntry /\ ~Suppressed(entry.path)
        /\ UNCHANGED <<builder, left, promotions, suppressed>>
        /\ recorded' = recorded \/ Record(entry.path)
    BY <1>6 DEF SkipEmitted, DeferLink, WriteEntry, LiveLink, LiveEntry, trackers
  <2>2. /\ missed => missed'
        /\ ~missed' => ~CoveredBy(entry.path, cur)
    BY <1>6, <2>1 DEF SkipEmitted, DeferLink, WriteEntry, Misses, Suppressed, CoveredBy
  <2> QED BY <1>4, <2>1, <2>2, PassingKeeps
<1>7. CASE BufferSuppressed
  BY <1>7, BufferKeeps
<1>8. CASE PromoteLink
  BY <1>8, PromoteKeeps
<1>9. CASE EndLayer
  BY <1>9, EndLayerKeeps
<1>10. CASE DrainSorted
  <2>1. \A k \in DOMAIN promotions' : \E i \in DOMAIN promotions : promotions'[k] = promotions[i]
    BY <1>10, SortedFrom DEF DrainSorted, OutputInv
  <2> QED BY <1>1, <1>10, <2>1 DEF DrainSorted, builder, history
<1>11. ASSUME NEW t, EmitGroup(t) \/ SkipGroup(t) PROVE BufferInv' /\ PromotionInv'
  <2>1. \A k \in DOMAIN promotions' : \E i \in DOMAIN promotions : promotions'[k] = promotions[i]
    BY <1>11, UngroupedFrom DEF EmitGroup, SkipGroup, OutputInv
  <2> QED BY <1>1, <1>11, <2>1 DEF EmitGroup, SkipGroup, builder, history
<1>12. CASE GroupsDone \/ EmitLink \/ DropLink \/ Rested
  BY <1>1, <1>12 DEF GroupsDone, EmitLink, DropLink, Rested, builder, trackers, history
<1>13. CASE Finish \/ Failure
  <2>1. PICK x : Stop(x)
    BY <1>13 DEF Finish, Failure, ReadFails, WriteFails, FinishFails
  <2> QED BY <1>1, <2>1 DEF Stop, builder, trackers, history
<1> QED
  BY WriterRests, <1>2, <1>3, <1>5, <1>6, <1>7, <1>8, <1>9, <1>10, <1>11, <1>12, <1>13 DEF Next, Build, Merge

----------------------------------------------------------------------------
(* The invariant and what it says of the output and the promotions. *)

LEMMA Invariance == Spec => []IInv
<1>1. Init => IInv
  <2> SUFFICES ASSUME Init PROVE IInv
    OBVIOUS
  <2>1. BufferInv /\ PromotionInv
    BY DEF Init, BufferInv, PromotionInv, EmptyFS
  <2> QED BY <2>1, InitKeeps, BuilderInitially, OutputInitially DEF IInv
<1>2. IInv /\ [Next]_vars => IInv'
  BY NextKeeps, BuilderKeeps, BuffersKeep, OutputKeeps DEF IInv
<1> QED BY <1>1, <1>2, PTL DEF Spec

(* A hard link is written after the entry it points to: a deferred link    *)
(* only when its target was written, a promoted one behind the file of its *)
(* group, whatever the layers held and in whatever order groups are taken. *)
THEOREM LinksAreResolvable == Spec => []LinksFollowTargets
<1>1. IInv => LinksFollowTargets
  BY DEF IInv, OutputInv
<1> QED BY <1>1, Invariance, PTL

(* A promotion never carries another file's bytes.  The content it has is  *)
(* that of the newest file at the target's path that is not newer than the *)
(* link; and the entry that gave the link's target its content is the      *)
(* newest one there, a file unless it is a link or a device itself.        *)
THEOREM PromotionsKeepTheirFile == Spec => []PromotionKeepsItsFile
<1>1. ASSUME IInv, ~missed, ~LinkToLink, ~HiddenSpecial, NEW x \in DOMAIN promotions,
             promotions[x].data # NoData
      PROVE  \E e \in LinksOf(promotions[x].layer + 1) :
               e.path = promotions[x].link /\ e.id = promotions[x].data
  <2> USE DEF IInv
  <2> DEFINE p == promotions[x]
             n == p.layer + 1
  <2>1. Kept(p, image, left, pos, recorded) /\ p \in Promoted /\ n \in Nat /\ p.layer = n - 1
    <3>1. Kept(p, image, left, pos, recorded)
      BY <1>1 DEF PromotionInv
    <3>2. promotions \in Seq(Promoted)
      BY <1>1 DEF OutputInv
    <3>3. p \in Promoted
      BY <3>2, LenProperties, ElementOfSeq
    <3> HIDE DEF p
    <3>4. p.layer \in Nat
      BY <3>3 DEF Promoted
    <3> QED BY <3>1, <3>3, <3>4
  <2>2. p.data # NoData
    BY <1>1
  <2> HIDE DEF p
  <2>3. n \in DOMAIN image /\ CoveredBy(p.target, n - 1)
    BY <2>1 DEF Kept, CoveredBy
  <2>4. PICK k \in DOMAIN image[n] :
          image[n][k].kind = "link" /\ image[n][k].path = p.link /\ image[n][k].target = p.target
    BY <2>1 DEF Kept
  <2>5. PICK j \in 1..n :
          /\ p.data = <<j - 1, p.target>> /\ HoldsFile(image, j, p.target)
          /\ \A h \in (j + 1)..n : ~HoldsFile(image, h, p.target)
    BY <2>1, <2>2 DEF Kept
  <2> DEFINE e == image[n][k]
  <2>6. e.kind = "link" /\ e.path = p.link /\ e.target = p.target /\ e \in LinksOf(n)
    BY <2>4 DEF LinksOf
  <2>7. p.target \in Paths /\ \E i \in 1..n : \E m \in DOMAIN image[i] :
          Gave(image, i, m, p.target, e.id, n)
    BY <1>1, <2>3, <2>6 DEF BuilderInv
  <2>8. PICK i \in 1..n : \E m \in DOMAIN image[i] : Gave(image, i, m, p.target, e.id, n)
    BY <2>7
  <2>9. PICK m \in DOMAIN image[i] : Gave(image, i, m, p.target, e.id, n)
    BY <2>8
  <2> HIDE DEF e, n
  <2>10. i \in DOMAIN image /\ j \in DOMAIN image /\ i \in Int /\ j \in Int /\ n \in Int
    BY <1>1, <2>1, <2>3, LenProperties DEF TrieInv, BuilderTyped, n
  <2> DEFINE s == image[i][m]
  <2>11. s.kind \in NonDirKinds /\ s.path = p.target /\ s.id = e.id
    BY <2>9 DEF Gave
  <2>12. ~(i < j)
    <3>1. HoldsAdd(image, j, p.target)
      BY <2>5 DEF HoldsFile, FileAt, HoldsAdd, Adds, AddKinds, NonDirKinds
    <3>2. i < j => j \in (i + 1)..n
      BY <2>10
    <3> QED BY <2>9, <3>1, <3>2 DEF Gave
  <2>13. s.kind # "link" => s.id = <<i - 1, p.target>>
    BY <1>1, <2>10, <2>11 DEF BuilderInv
  <2>14. CASE s.kind = "file"
    <3>1. HoldsFile(image, i, p.target)
      BY <2>11, <2>14 DEF HoldsFile, FileAt
    <3>2. i = j
      BY <2>5, <2>10, <2>12, <3>1
    <3> QED BY <2>5, <2>6, <2>11, <2>13, <2>14, <3>2 DEF p, n
  <2>15. s.kind # "link"
    <3>1. ASSUME s.kind = "link" PROVE FALSE
      <4>1. s \in ImageLinks /\ e \in ImageLinks
        BY <2>3, <2>6, <2>10, <3>1 DEF ImageLinks, LinksOf
      <4> HIDE DEF s
      <4> QED BY <1>1, <2>6, <2>11, <4>1 DEF LinkToLink
    <3> QED BY <3>1
  <2>16. s.kind # "other"
    <3>1. ASSUME s.kind = "other" PROVE FALSE
      <4>1. e.id = <<i - 1, p.target>> /\ e.id[1] + 1 = i /\ e.id[2] = p.target
        BY <2>10, <2>11, <2>13, <3>1
      <4>2. Has(i, "other", p.target)
        BY <2>11, <3>1 DEF Has
      <4>3. Has(e.id[1] + 1, "other", e.id[2]) /\ CoveredBy(e.target, n - 1)
        BY <2>3, <2>6, <4>1, <4>2
      <4> QED BY <1>1, <2>3, <2>6, <4>3 DEF HiddenSpecial
    <3> QED BY <3>1
  <2> QED BY <2>11, <2>14, <2>15, <2>16 DEF NonDirKinds
<1>2. IInv => PromotionKeepsItsFile
  BY <1>1 DEF PromotionKeepsItsFile
<1> QED BY <1>2, Invariance, PTL

----------------------------------------------------------------------------
(* Paths above paths. *)

LEMMA NodeParts ==
  ASSUME NEW p \in Nodes
  PROVE  /\ p \in Seq(Names) /\ Len(p) \in Nat /\ Ancestor(p, Len(p)) = p
         /\ p # Root => Len(p) > 0 /\ p \in Paths
<1>1. p \in Seq(Names) /\ Len(p) \in Nat
  BY LenProperties, EmptySeq DEF Nodes, Root
<1>2. CASE p = Root
  BY <1>1, <1>2, EmptySeq DEF Ancestor, Root
<1>3. CASE p # Root
  <2>1. Len(p) > 0 /\ p \in Paths
    BY <1>1, <1>3, EmptySeq DEF Nodes, Root
  <2>2. SubSeq(p, 1, Len(p)) = p
    BY <1>1
  <2> QED BY <1>1, <2>1, <2>2 DEF Ancestor
<1> QED BY <1>1, <1>2, <1>3

LEMMA SelfCovers == ASSUME NEW p \in Nodes PROVE Covers(p, p)
<1>1. Len(p) \in 0..Len(p) /\ p = Ancestor(p, Len(p))
  BY NodeParts
<1> QED BY <1>1 DEF Covers

LEMMA CoversUp ==
  ASSUME NEW p \in Nodes, NEW q, NEW r, Covers(q, p), Covers(r, q)
  PROVE  Covers(r, p)
<1>1. PICK i \in 0..Len(p) : q = Ancestor(p, i)
  BY DEF Covers
<1>2. PICK j \in 0..Len(q) : r = Ancestor(q, j)
  BY DEF Covers
<1>3. p \in Seq(Names) /\ Len(p) \in Nat
  BY NodeParts
<1>4. CASE i = 0
  <2>1. q = Root /\ Len(q) = 0
    BY <1>1, <1>4, EmptySeq DEF Ancestor, Root
  <2>2. r = Ancestor(p, 0)
    BY <1>2, <2>1 DEF Ancestor
  <2> QED BY <1>3, <2>2 DEF Covers
<1>5. CASE i # 0
  <2>1. q = SubSeq(p, 1, i) /\ i \in 1..Len(p)
    BY <1>1, <1>5 DEF Ancestor
  <2>2. Len(q) = i /\ q \in Seq(Names) /\ \A x \in 1..i : q[x] = p[x]
    BY <1>3, <2>1, SubSeqProperties
  <2>3. CASE j = 0
    <3>1. r = Ancestor(p, 0) /\ 0 \in 0..Len(p)
      BY <1>2, <1>3, <2>3 DEF Ancestor
    <3> QED BY <3>1 DEF Covers
  <2>4. CASE j # 0
    <3>1. r = SubSeq(q, 1, j) /\ j \in 1..i /\ j \in 0..Len(p)
      BY <1>2, <1>3, <2>1, <2>2, <2>4 DEF Ancestor
    <3>2. SubSeq(q, 1, j) = SubSeq(p, 1, j)
      <4>1. SubSeq(q, 1, j) = [x \in 1..j |-> q[x]]
        BY <2>2, <3>1
      <4>2. SubSeq(p, 1, j) = [x \in 1..j |-> p[x]]
        BY <1>3, <3>1
      <4>3. \A x \in 1..j : q[x] = p[x]
        BY <2>1, <2>2, <3>1
      <4> HIDE DEF Covers
      <4> QED BY <4>1, <4>2, <4>3
    <3> QED BY <2>4, <3>1, <3>2 DEF Ancestor, Covers
  <2> QED BY <2>3, <2>4
<1> QED BY <1>4, <1>5

----------------------------------------------------------------------------
(* What the layers leave of each other, and what the merge makes of it. *)

(* Layer j takes away what the layers below it hold at p, or above it. *)
Removes(img, j, p) ==
  \E k \in DOMAIN img[j] :
    LET e == img[j][k] IN
    /\ Covers(e.path, p)
    /\ \/ e.kind = "whiteout"
       \/ e.kind \in NonDirKinds \cup {"opaque"} /\ e.path # p

(* What layer i holds at p is there still when layer n was applied. *)
Newest(img, i, p, n) == \A j \in (i + 1)..n : ~HoldsAdd(img, j, p) /\ ~Removes(img, j, p)

(* The file system has what the newest entries gave it, and all of it. *)
HeldIsThere ==
  \A i \in DOMAIN image, p \in Paths :
    HoldsAdd(image, i, p) /\ Newest(image, i, p, Len(image)) =>
      p \in DOMAIN fs /\ fs[p].layer = i - 1

ThereIsHeld ==
  \A p \in DOMAIN fs :
    LET i == fs[p].layer + 1 IN
    /\ i \in DOMAIN image /\ Newest(image, i, p, Len(image))
    /\ \E k \in DOMAIN image[i] : Adds(image, i, k, p) /\ image[i][k].id = fs[p].id

(* An entry that is no link made a node of this kind and content. *)
Origin(img, kind, id) ==
  \E i \in DOMAIN img : \E k \in DOMAIN img[i] :
    /\ img[i][k].kind \in AddKinds \ {"link"}
    /\ img[i][k].kind = kind /\ img[i][k].id = id

KindsKept == \A p \in DOMAIN fs : Origin(image, fs[p].kind, fs[p].id)

NothingBelowFiles == \A p, q \in DOMAIN fs : Above(q, p) => fs[q].kind = "dir"

(* Entries are what a builder may choose. *)
ItemsChosen ==
  \A i \in DOMAIN image : \A k \in DOMAIN image[i] :
    /\ image[i][k].kind \notin {"dir", "opaque"} => image[i][k].path \in Paths
    /\ image[i][k].kind = "link" => image[i][k].target # image[i][k].path

(* A link's target was there when the layer of the link was complete. *)
TargetsKept ==
  \A n \in DOMAIN image : \A k \in DOMAIN image[n] : \A i \in 1..n :
    LET t == image[n][k].target IN
    /\ image[n][k].kind = "link" /\ HoldsAdd(image, i, t)
    /\ \A j \in (i + 1)..n : ~HoldsAdd(image, j, t)
    => Newest(image, i, t, n)

LiveInv ==
  /\ HeldIsThere /\ ThereIsHeld /\ KindsKept
  /\ NothingBelowFiles /\ ItemsChosen /\ TargetsKept

(* What the merge has read. *)
Done(i, k) == ~Ahead(i, k, left, pos)

(* Written at once: the content is that of the path itself. *)
Own(e) == e.kind # "link" /\ e.id[2] = e.path
OwnPaths == {out[x].path : x \in {y \in DOMAIN out : Own(out[y])}}

(* No newer layer hid or replaced what layer i holds at p. *)
Up(i, p) == ~CoveredBy(p, i - 1) /\ \A j \in (i + 1)..Len(image) : ~HoldsAdd(image, j, p)

(* Nothing that was read is lost: a whiteout is recorded, and any other    *)
(* entry was hidden, or has its path written or shadowed.                  *)
Accounted(i, k) ==
  LET e == image[i][k] IN
  /\ e.kind \in {"whiteout", "opaque"} => <<e.path, i - 1>> \in recorded
  /\ e.kind \in AddKinds /\ e.path # Root =>
       \/ CoveredBy(e.path, i - 1)
       \/ e.path \in OwnPaths
       \/ e.kind = "link" /\ <<e.path, i - 1>> \in recorded

(* e is entry k of layer i, written when it was read. *)
Stems(e, i, k) ==
  /\ image[i][k].kind \in {"dir", "file", "other"} /\ image[i][k].path \in Paths
  /\ e = Written(image[i][k].kind, image[i][k].path, <<i - 1, image[i][k].path>>)
  /\ Done(i, k) /\ Up(i, e.path)
  /\ e.kind # "dir" => <<e.path, i - 1>> \in recorded

SeenInv ==
  phase # "build" /\ ~missed =>
    /\ \A r \in recorded :
         /\ r[2] + 1 \in DOMAIN image
         /\ \E k \in DOMAIN image[r[2] + 1] :
              image[r[2] + 1][k].path = r[1] /\ image[r[2] + 1][k].kind # "dir"
    /\ \A i \in DOMAIN image : \A k \in DOMAIN image[i] : Done(i, k) => Accounted(i, k)
    /\ \A x \in DOMAIN out : Own(out[x]) =>
         \E i \in DOMAIN image : \E k \in DOMAIN image[i] : Stems(out[x], i, k)
    /\ OwnPaths \subseteq emitted
    /\ phase = "layers" => emitted \subseteq OwnPaths

StageInv ==
  /\ phase = "build" => pos = 1
  /\ phase \in {"promote", "link"} => left = 0
  /\ phase = "link" => promotions = <<>>
  /\ result = "ok" => phase = "done" /\ left = 0 /\ promotions = <<>> /\ deferred = <<>>

----------------------------------------------------------------------------
(* The file system that the layers leave. *)

(* What an entry puts there and what it takes away. *)
LEMMA ApplyTree ==
  ASSUME BuilderTyped, DOMAIN fs \subseteq Paths, NEW e \in Entries, NEW n \in Layers,
         e.kind = "link" => e.target \in DOMAIN fs /\ fs[e.target].kind # "dir",
         NEW g, g = Apply(fs, n, e)
  PROVE  /\ \A p : p \in DOMAIN g <=>
              \/ e.kind \in AddKinds /\ e.path # Root /\ p = e.path
              \/ /\ p \in DOMAIN fs
                 /\ ~(e.kind \in NonDirKinds /\ Covers(e.path, p))
                 /\ ~(e.kind \in {"whiteout", "opaque"} /\ p \in Hidden(fs, n, e))
         /\ e.kind \in AddKinds /\ e.path # Root =>
              g[e.path].kind = IF e.kind = "link" THEN fs[e.target].kind ELSE e.kind
<1> DEFINE adds == e.kind \in AddKinds /\ e.path # Root
           Gone(p) == \/ e.kind \in NonDirKinds /\ Covers(e.path, p)
                      \/ e.kind \in {"whiteout", "opaque"} /\ p \in Hidden(fs, n, e)
           kind == IF e.kind = "link" THEN fs[e.target].kind ELSE e.kind
<1>1. ASSUME NEW node, g = Put(fs, e.path, node), adds, node.kind = kind,
             kind = "dir" <=> e.kind = "dir"
      PROVE  /\ \A p : p \in DOMAIN g <=> p = e.path \/ (p \in DOMAIN fs /\ ~Gone(p))
             /\ g[e.path].kind = kind
  <2> DEFINE K == IF node.kind = "dir" THEN {e.path} ELSE {q \in DOMAIN fs : Covers(e.path, q)}
  <2>1. g = [q \in (DOMAIN fs \ K) \cup {e.path} |-> IF q = e.path THEN node ELSE fs[q]]
    BY <1>1 DEF Put
  <2>2. \A p \in DOMAIN fs : p # e.path => (p \in K <=> Gone(p))
    BY <1>1 DEF AddKinds, NonDirKinds
  <2> HIDE DEF K, Gone, kind
  <2> QED BY <1>1, <2>1, <2>2
<1>2. CASE e.kind = "dir" /\ e.path = Root
  <2>1. g = fs
    BY <1>2 DEF Apply
  <2> QED BY <1>2, <2>1 DEF AddKinds, NonDirKinds
<1>3. CASE e.kind \in {"whiteout", "opaque"}
  <2> DEFINE h == Hidden(fs, n, e)
  <2>1. g = [p \in DOMAIN fs \ h |-> fs[p]]
    BY <1>3 DEF Apply, Without, Restrict
  <2>2. e.kind \notin AddKinds
    BY <1>3 DEF AddKinds, NonDirKinds
  <2> HIDE DEF h
  <2> QED BY <1>3, <2>1, <2>2 DEF h, AddKinds
<1>4. CASE e.kind = "link"
  <2> DEFINE node == [fs[e.target] EXCEPT !.layer = n]
  <2>1. fs[e.target] \in Node
    BY <1>4 DEF BuilderTyped
  <2>2. node.kind = kind /\ kind # "dir"
    BY <1>4, <2>1 DEF Node
  <2>3. g = Put(fs, e.path, node)
    BY <1>4 DEF Apply
  <2>4. adds
    BY <1>4 DEF AddKinds, NonDirKinds
  <2> HIDE DEF node, kind, Gone, adds
  <2>5. /\ \A p : p \in DOMAIN g <=> p = e.path \/ (p \in DOMAIN fs /\ ~Gone(p))
        /\ g[e.path].kind = kind
    BY <1>1, <1>4, <2>2, <2>3, <2>4
  <2> QED BY <2>4, <2>5 DEF adds, Gone, kind
<1>5. CASE e.kind \in {"dir", "file", "other"} /\ ~(e.kind = "dir" /\ e.path = Root)
  <2> DEFINE node == [kind |-> e.kind, id |-> Ident(fs, n, e), layer |-> n]
  <2>1. g = Put(fs, e.path, node)
    BY <1>5 DEF Apply
  <2>2. node.kind = kind /\ kind = e.kind
    BY <1>5
  <2>3. adds
    BY <1>5 DEF AddKinds, NonDirKinds
  <2> HIDE DEF node, kind, Gone, adds
  <2>4. /\ \A p : p \in DOMAIN g <=> p = e.path \/ (p \in DOMAIN fs /\ ~Gone(p))
        /\ g[e.path].kind = kind
    BY <1>1, <1>5, <2>1, <2>2, <2>3
  <2> QED BY <2>3, <2>4 DEF adds, Gone, kind
<1> QED BY <1>2, <1>3, <1>4, <1>5 DEF Kinds, AddKinds, NonDirKinds

LEMMA EntryKeepsLive ==
  ASSUME TrieInv, BuilderInv, BuilderInv', LiveInv, PackEntry
  PROVE  LiveInv'
<1> DEFINE n == Len(image)
           top == Len(image[n]) + 1
<1>1. PICK e \in Entries, new \in Item :
        /\ n \in DOMAIN image /\ n - 1 \in Layers
        /\ Legal(fs, n - 1, image[n], e) /\ fs' = Apply(fs, n - 1, e)
        /\ new.kind = e.kind /\ new.path = e.path /\ new.target = e.target
        /\ new.id = Ident(fs, n - 1, e)
        /\ Len(image') = n /\ DOMAIN image' = DOMAIN image
        /\ \A i \in DOMAIN image \ {n} : image'[i] = image[i]
        /\ DOMAIN image'[n] = DOMAIN image[n] \cup {top} /\ top \notin DOMAIN image[n]
        /\ image'[n][top] = new /\ \A k \in DOMAIN image[n] : image'[n][k] = image[n][k] /\ k < top
  BY PackedEntry DEF TrieInv
<1>2. n \in Nat /\ DOMAIN image = 1..n
  BY LenProperties DEF TrieInv, BuilderTyped
<1> HIDE DEF n, top
<1>3. /\ \A i \in DOMAIN image : \A k \in DOMAIN image[i] :
           k \in DOMAIN image'[i] /\ image'[i][k] = image[i][k]
      /\ \A i \in DOMAIN image' : \A k \in DOMAIN image'[i] :
           (i = n /\ k = top) \/ (i \in DOMAIN image /\ k \in DOMAIN image[i])
  BY <1>1
<1> DEFINE adds == e.kind \in AddKinds
           Rem(p) == /\ Covers(e.path, p)
                     /\ \/ e.kind = "whiteout"
                        \/ e.kind \in NonDirKinds \cup {"opaque"} /\ e.path # p
<1>4. /\ \A i \in DOMAIN image, p \in Paths :
           HoldsAdd(image', i, p) <=> HoldsAdd(image, i, p) \/ (i = n /\ adds /\ e.path = p)
      /\ \A i \in DOMAIN image, p \in Paths :
           Removes(image', i, p) <=> Removes(image, i, p) \/ (i = n /\ Rem(p))
  BY <1>1, <1>3 DEF HoldsAdd, Adds, Removes
<1>5. /\ \A i \in 1..n, m \in 1..n, p \in Paths : m # n =>
           (Newest(image', i, p, m) <=> Newest(image, i, p, m))
      /\ \A i \in 1..n, p \in Paths : Newest(image', i, p, n) <=>
           Newest(image, i, p, n) /\ (i # n => ~(adds /\ e.path = p) /\ ~Rem(p))
  <2> HIDE DEF adds, Rem
  <2>1. \A i \in 1..n, m \in 1..n : \A j \in (i + 1)..m :
          j \in DOMAIN image /\ (j = n => m = n /\ i # n)
    BY <1>2
  <2>2. \A i \in 1..n : i # n => n \in (i + 1)..n
    BY <1>2
  <2>3. ASSUME NEW i \in 1..n, NEW m \in 1..n, NEW p \in Paths, m # n
        PROVE  Newest(image', i, p, m) <=> Newest(image, i, p, m)
    <3>1. \A j \in (i + 1)..m : j \in DOMAIN image /\ j # n
      BY <2>1, <2>3
    <3> QED BY <1>4, <3>1 DEF Newest
  <2>4. ASSUME NEW i \in 1..n, NEW p \in Paths
        PROVE  Newest(image', i, p, n) <=>
                 Newest(image, i, p, n) /\ (i # n => ~(adds /\ e.path = p) /\ ~Rem(p))
    <3>1. n \in 1..n /\ \A j \in (i + 1)..n : j \in DOMAIN image /\ (j = n => i # n)
      BY <1>1, <1>2, <2>1
    <3>2. Newest(image', i, p, n) =>
            Newest(image, i, p, n) /\ (i # n => ~(adds /\ e.path = p) /\ ~Rem(p))
      BY <1>1, <1>4, <2>2, <3>1 DEF Newest
    <3>3. Newest(image, i, p, n) /\ (i # n => ~(adds /\ e.path = p) /\ ~Rem(p)) =>
            Newest(image', i, p, n)
      BY <1>4, <3>1 DEF Newest
    <3> QED BY <3>2, <3>3
  <2> QED BY <2>3, <2>4
<1>6. /\ \A p \in DOMAIN fs' :
           IF p = e.path /\ adds
           THEN /\ p \in Paths /\ fs'[p].layer = n - 1 /\ fs'[p].id = new.id
                /\ fs'[p].kind = "dir" <=> e.kind = "dir"
           ELSE p \in DOMAIN fs /\ fs'[p] = fs[p]
      /\ \A p : p \in DOMAIN fs' <=>
           \/ adds /\ e.path # Root /\ p = e.path
           \/ /\ p \in DOMAIN fs
              /\ ~(e.kind \in NonDirKinds /\ Covers(e.path, p))
              /\ ~(e.kind \in {"whiteout", "opaque"} /\ p \in Hidden(fs, n - 1, e))
      /\ adds /\ e.path # Root =>
           fs'[e.path].kind = IF e.kind = "link" THEN fs[e.target].kind ELSE e.kind
  <2> DEFINE m == n - 1
  <2>1. m \in Layers /\ fs' = Apply(fs, m, e) /\ new.id = Ident(fs, m, e)
    BY <1>1
  <2>2. BuilderTyped /\ DOMAIN fs \subseteq Paths
    BY DEF TrieInv, BuilderInv
  <2>3. e.kind = "link" => e.target \in DOMAIN fs /\ fs[e.target].kind # "dir"
    BY <1>1 DEF Legal
  <2> HIDE DEF m
  <2>4. \A p \in DOMAIN fs' :
           IF p = e.path /\ adds
           THEN /\ p \in Paths /\ fs'[p].layer = m /\ fs'[p].id = new.id
                /\ fs'[p].kind = "dir" <=> e.kind = "dir"
           ELSE p \in DOMAIN fs /\ fs'[p] = fs[p]
    BY <2>1, <2>2, <2>3, ApplyGives
  <2>5. /\ \A p : p \in DOMAIN fs' <=>
             \/ adds /\ e.path # Root /\ p = e.path
             \/ /\ p \in DOMAIN fs
                /\ ~(e.kind \in NonDirKinds /\ Covers(e.path, p))
                /\ ~(e.kind \in {"whiteout", "opaque"} /\ p \in Hidden(fs, m, e))
        /\ adds /\ e.path # Root =>
             fs'[e.path].kind = IF e.kind = "link" THEN fs[e.target].kind ELSE e.kind
    BY <2>1, <2>2, <2>3, ApplyTree
  <2> QED BY <2>4, <2>5 DEF m
<1>7. /\ e.kind = "link" => e.target \in DOMAIN fs /\ e.target # e.path
      /\ adds => \A p \in Paths : Above(p, e.path) => p \in DOMAIN fs /\ fs[p].kind = "dir"
      /\ e.kind \in NonDirKinds => \A p \in DOMAIN fs : Above(e.path, p) => fs[p].layer < n - 1
      /\ \A p \in Paths : adds /\ HoldsAdd(image, n, p) => e.path # p
      /\ e.kind \notin {"dir", "opaque"} => e.path \in Paths
      /\ e.path \in Nodes
  <2>1. \A p \in Paths : adds /\ HoldsAdd(image, n, p) => e.path # p
    <3>1. ASSUME NEW k \in DOMAIN image[n], NEW p \in Paths, Adds(image, n, k, p), adds
          PROVE  e.path # p
      <4>1. {image[n][k].kind, e.kind} \subseteq AddKinds
        BY <3>1 DEF Adds
      <4> QED BY <1>1, <3>1, <4>1 DEF Legal, Adds
    <3> QED BY <3>1 DEF HoldsAdd
  <2> QED BY <1>1, <2>1 DEF Legal
<1>8. \A p \in DOMAIN fs : /\ p \in Paths /\ fs[p].layer \in Int
                           /\ fs[p].layer + 1 \in 1..n /\ Newest(image, fs[p].layer + 1, p, n)
  BY <1>2 DEF LiveInv, ThereIsHeld, TrieInv, BuilderTyped, Node, Layers, BuilderInv, n
(* What the entry takes away is what lower layers hold. *)
<1>9. \A p \in DOMAIN fs : ~(adds /\ p = e.path) =>
        (p \in DOMAIN fs' <=> (fs[p].layer + 1 = n \/ ~Rem(p)))
  <2> SUFFICES ASSUME NEW p \in DOMAIN fs, ~(adds /\ p = e.path)
               PROVE  p \in DOMAIN fs' <=> (fs[p].layer + 1 = n \/ ~Rem(p))
    OBVIOUS
  <2>1. fs[p].layer + 1 = n <=> ~(fs[p].layer < n - 1)
    BY <1>2, <1>8
  <2>2. CASE e.kind \in NonDirKinds
    <3>1. p # e.path /\ e.kind \notin {"whiteout", "opaque"}
      BY <2>2 DEF AddKinds, NonDirKinds
    <3>2. p \in DOMAIN fs' <=> ~Covers(e.path, p)
      BY <1>6, <2>2, <3>1
    <3>3. Rem(p) <=> Covers(e.path, p)
      BY <2>2, <3>1
    <3>4. Covers(e.path, p) => fs[p].layer < n - 1
      BY <1>7, <2>2, <3>1 DEF Above
    <3> QED BY <2>1, <3>2, <3>3, <3>4
  <2>3. CASE e.kind \in {"whiteout", "opaque"}
    <3>1. e.kind \notin AddKinds /\ e.kind \notin NonDirKinds
      BY <2>3 DEF AddKinds, NonDirKinds
    <3>2. p \in DOMAIN fs' <=> p \notin Hidden(fs, n - 1, e)
      BY <1>6, <2>3, <3>1
    <3>3. p \in Hidden(fs, n - 1, e) <=> fs[p].layer < n - 1 /\ Rem(p)
      BY <2>3, <3>1 DEF Hidden
    <3> QED BY <2>1, <3>2, <3>3
  <2>4. CASE e.kind = "dir"
    <3>1. ~Rem(p) /\ p \in DOMAIN fs'
      BY <1>6, <2>4 DEF NonDirKinds
    <3> QED BY <3>1
  <2> QED BY <2>2, <2>3, <2>4 DEF Kinds, AddKinds
<1> HIDE DEF Rem
<1>10. \A p \in DOMAIN fs' : p \in Paths
  BY <1>6, <1>8
<1>11. HeldIsThere'
  <2> SUFFICES ASSUME NEW i \in DOMAIN image', NEW p \in Paths,
                      HoldsAdd(image', i, p), Newest(image', i, p, n)
               PROVE  p \in DOMAIN fs' /\ fs'[p].layer = i - 1
    BY <1>1 DEF HeldIsThere
  <2>1. i \in DOMAIN image /\ i \in 1..n
    BY <1>1, <1>2
  <2>2. CASE adds /\ p = e.path
    <3>1. i = n
      BY <1>5, <2>1, <2>2
    <3>2. p # Root
      BY PathsAreSequences
    <3> QED BY <1>6, <2>2, <3>1, <3>2
  <2>3. CASE ~(adds /\ p = e.path)
    <3>1. HoldsAdd(image, i, p) /\ Newest(image, i, p, n)
      BY <1>4, <1>5, <2>1, <2>3
    <3>2. p \in DOMAIN fs /\ fs[p].layer = i - 1
      BY <2>1, <3>1 DEF LiveInv, HeldIsThere, n
    <3>3. fs[p].layer + 1 = n \/ ~Rem(p)
      BY <1>2, <1>5, <2>1, <3>2
    <3> QED BY <1>6, <1>9, <2>3, <3>2, <3>3
  <2> QED BY <2>2, <2>3
<1>12. ThereIsHeld'
  <2> SUFFICES ASSUME NEW p \in DOMAIN fs'
               PROVE  LET i == fs'[p].layer + 1 IN
                      /\ i \in DOMAIN image' /\ Newest(image', i, p, n)
                      /\ \E k \in DOMAIN image'[i] :
                           Adds(image', i, k, p) /\ image'[i][k].id = fs'[p].id
    BY <1>1 DEF ThereIsHeld
  <2>1. CASE adds /\ p = e.path
    <3>1. fs'[p].layer + 1 = n /\ fs'[p].id = new.id
      BY <1>2, <1>6, <2>1
    <3>2. n \in 1..n /\ (n + 1)..n = {}
      BY <1>1, <1>2
    <3>3. Newest(image', n, p, n)
      BY <3>2 DEF Newest
    <3>4. top \in DOMAIN image'[n] /\ Adds(image', n, top, p) /\ image'[n][top].id = new.id
      BY <1>1, <2>1 DEF Adds
    <3> QED BY <1>1, <3>1, <3>3, <3>4
  <2>2. CASE ~(adds /\ p = e.path)
    <3>1. p \in DOMAIN fs /\ fs'[p] = fs[p]
      BY <1>6, <2>2
    <3> DEFINE i == fs[p].layer + 1
    <3>2. i \in 1..n /\ Newest(image, i, p, n) /\ p \in Paths
      BY <1>8, <3>1
    <3>3. Newest(image', i, p, n)
      BY <1>5, <1>9, <2>2, <3>1, <3>2
    <3>4. PICK k \in DOMAIN image[i] : Adds(image, i, k, p) /\ image[i][k].id = fs[p].id
      BY <3>1 DEF LiveInv, ThereIsHeld
    <3>5. k \in DOMAIN image'[i] /\ Adds(image', i, k, p) /\ image'[i][k].id = fs[p].id
      BY <1>2, <1>3, <3>2, <3>4 DEF Adds
    <3> QED BY <1>1, <1>2, <3>1, <3>2, <3>3, <3>5
  <2> QED BY <2>1, <2>2
<1>13. KindsKept'
  <2>1. \A kind, id : Origin(image, kind, id) => Origin(image', kind, id)
    BY <1>1, <1>3 DEF Origin
  <2> SUFFICES ASSUME NEW p \in DOMAIN fs' PROVE Origin(image', fs'[p].kind, fs'[p].id)
    BY DEF KindsKept
  <2>2. CASE ~(adds /\ p = e.path)
    BY <1>6, <2>1, <2>2 DEF LiveInv, KindsKept
  <2>3. CASE adds /\ p = e.path
    <3>1. p # Root /\ fs'[p].id = new.id
      BY <1>6, <1>10, <2>3, PathsAreSequences
    <3>2. CASE e.kind = "link"
      <4>1. fs'[p].kind = fs[e.target].kind /\ new.id = fs[e.target].id
        BY <1>1, <1>6, <2>3, <3>1, <3>2 DEF Ident
      <4> QED BY <1>7, <2>1, <3>1, <3>2, <4>1 DEF LiveInv, KindsKept
    <3>3. CASE e.kind # "link"
      <4>1. fs'[p].kind = e.kind
        BY <1>6, <2>3, <3>1, <3>3
      <4>2. top \in DOMAIN image'[n] /\ n \in DOMAIN image' /\ image'[n][top] = new
        BY <1>1
      <4> QED BY <1>1, <2>3, <3>1, <3>3, <4>1, <4>2 DEF Origin
    <3> QED BY <3>2, <3>3
  <2> QED BY <2>2, <2>3
<1>14. NothingBelowFiles'
  <2> SUFFICES ASSUME NEW p \in DOMAIN fs', NEW q \in DOMAIN fs', Above(q, p)
               PROVE  fs'[q].kind = "dir"
    BY DEF NothingBelowFiles
  <2>1. CASE adds /\ p = e.path
    <3>1. q \in DOMAIN fs /\ fs[q].kind = "dir" /\ q # e.path
      BY <1>7, <1>10, <2>1 DEF Above
    <3> QED BY <1>6, <3>1
  <2>2. CASE ~(adds /\ p = e.path)
    <3>1. p \in DOMAIN fs /\ fs'[p] = fs[p]
      BY <1>6, <2>2
    <3>2. CASE adds /\ q = e.path
      <4>1. e.kind \notin NonDirKinds
        BY <1>6, <2>2, <3>2 DEF Above
      <4> QED BY <1>6, <3>2, <4>1 DEF AddKinds
    <3>3. CASE ~(adds /\ q = e.path)
      BY <1>6, <3>1, <3>3 DEF LiveInv, NothingBelowFiles
    <3> QED BY <3>2, <3>3
  <2> QED BY <2>1, <2>2
<1>15. ItemsChosen'
  <2>1. ASSUME NEW i \in DOMAIN image', NEW k \in DOMAIN image'[i]
        PROVE  /\ image'[i][k].kind \notin {"dir", "opaque"} => image'[i][k].path \in Paths
               /\ image'[i][k].kind = "link" => image'[i][k].target # image'[i][k].path
    <3>1. CASE i = n /\ k = top
      BY <1>1, <1>7, <3>1
    <3>2. CASE i \in DOMAIN image /\ k \in DOMAIN image[i]
      BY <1>3, <3>2 DEF LiveInv, ItemsChosen
    <3> QED BY <1>3, <3>1, <3>2
  <2> QED BY <2>1 DEF ItemsChosen
<1>16. TargetsKept'
  <2> SUFFICES ASSUME NEW m \in DOMAIN image', NEW k \in DOMAIN image'[m], NEW i \in 1..m,
                      image'[m][k].kind = "link", HoldsAdd(image', i, image'[m][k].target),
                      \A j \in (i + 1)..m : ~HoldsAdd(image', j, image'[m][k].target)
               PROVE  Newest(image', i, image'[m][k].target, m)
    BY DEF TargetsKept
  <2> DEFINE t == image'[m][k].target
  <2>1. m \in 1..n /\ i \in 1..n /\ t \in Paths
    BY <1>1, <1>2 DEF BuilderInv
  <2>2. CASE m # n
    <3>1. k \in DOMAIN image[m] /\ image'[m][k] = image[m][k]
      BY <1>1, <1>3, <2>1, <2>2
    <3>2. \A j \in i..m : j \in DOMAIN image /\ j # n
      BY <1>2, <2>1, <2>2
    <3>3. i \in i..m /\ (i + 1)..m \subseteq i..m
      BY <2>1
    <3>4. HoldsAdd(image, i, t) /\ \A j \in (i + 1)..m : ~HoldsAdd(image, j, t)
      BY <1>4, <2>1, <3>2, <3>3
    <3>5. Newest(image, i, t, m)
      BY <1>2, <2>1, <3>1, <3>4 DEF LiveInv, TargetsKept
    <3> HIDE DEF t
    <3> QED BY <1>5, <2>1, <2>2, <3>5 DEF t
  <2>3. CASE m = n
    <3>1. CASE i = n
      <4>1. (n + 1)..n = {}
        BY <1>2
      <4> QED BY <2>3, <3>1, <4>1 DEF Newest
    <3>2. CASE i # n
      <4>1. ~HoldsAdd(image', m, t)
        BY <1>2, <2>1, <2>3, <3>2
      <4>2. t \in DOMAIN fs'
        BY <1>1, <2>3, <4>1 DEF BuilderInv
      <4> DEFINE h == fs'[t].layer + 1
      <4>3. h \in 1..n /\ Newest(image', h, t, n) /\ HoldsAdd(image', h, t)
        BY <1>1, <1>2, <1>12, <4>2 DEF ThereIsHeld, HoldsAdd
      <4>4. ~(h < i) /\ ~(i < h)
        <5>1. ASSUME h < i PROVE FALSE
          <6>1. i \in (h + 1)..n
            BY <2>1, <4>3, <5>1
          <6> QED BY <4>3, <6>1 DEF Newest
        <5>2. ASSUME i < h PROVE FALSE
          <6>1. h \in (i + 1)..m
            BY <2>1, <2>3, <4>3, <5>2
          <6> QED BY <4>3, <6>1
        <5> QED BY <5>1, <5>2
      <4>5. h = i
        BY <2>1, <4>3, <4>4
      <4> QED BY <2>3, <4>3, <4>5
    <3> QED BY <3>1, <3>2
  <2> QED BY <2>2, <2>3
<1> QED BY <1>11, <1>12, <1>13, <1>14, <1>15, <1>16 DEF LiveInv

LEMMA LayerKeepsLive ==
  ASSUME TrieInv, BuilderInv, LiveInv, PackLayer
  PROVE  LiveInv'
<1> DEFINE n == Len(image)
<1>1. n \in Nat /\ DOMAIN image = 1..n
  BY LenProperties DEF TrieInv, BuilderTyped
<1>2. /\ Len(image') = n + 1 /\ DOMAIN image' = 1..(n + 1)
      /\ image'[n + 1] = <<>> /\ \A i \in 1..n : image'[i] = image[i]
  <2>1. image \in Seq(Seq(Item)) /\ <<>> \in Seq(Item)
    BY DEF TrieInv, BuilderTyped
  <2>2. image' = Append(image, <<>>)
    BY DEF PackLayer
  <2> QED BY <2>1, <2>2, AppendProperties, LenProperties
<1>3. fs' = fs /\ DOMAIN image'[n + 1] = {}
  BY <1>2 DEF PackLayer
<1> HIDE DEF n
<1>4. \A p : ~HoldsAdd(image', n + 1, p) /\ ~Removes(image', n + 1, p)
  BY <1>3 DEF HoldsAdd, Removes
<1>5. \A i \in 1..n : \A p :
        /\ HoldsAdd(image', i, p) <=> HoldsAdd(image, i, p)
        /\ Removes(image', i, p) <=> Removes(image, i, p)
  BY <1>2 DEF HoldsAdd, Adds, Removes
<1>6. \A i \in 1..n, m \in 1..n : \A p : Newest(image', i, p, m) <=> Newest(image, i, p, m)
  <2>1. \A i \in 1..n, m \in 1..n : \A j \in (i + 1)..m : j \in 1..n
    BY <1>1
  <2> QED BY <1>5, <2>1 DEF Newest
<1>7. \A i \in 1..n : \A p : Newest(image', i, p, n + 1) <=> Newest(image, i, p, n)
  <2>1. \A i \in 1..n : \A j \in (i + 1)..(n + 1) : j = n + 1 \/ (j \in 1..n /\ j \in (i + 1)..n)
    BY <1>1
  <2>2. \A i \in 1..n : \A j \in (i + 1)..n : j \in 1..n /\ j \in (i + 1)..(n + 1)
    BY <1>1
  <2> QED BY <1>4, <1>5, <2>1, <2>2 DEF Newest
<1>8. \A i \in DOMAIN image' : \A k \in DOMAIN image'[i] : i \in 1..n /\ image'[i] = image[i]
  BY <1>1, <1>2, <1>3
<1>9. \A i \in 1..n : i \in DOMAIN image' /\ i \in DOMAIN image
  BY <1>1, <1>2
<1>10. HeldIsThere'
  <2> SUFFICES ASSUME NEW i \in DOMAIN image', NEW p \in Paths,
                      HoldsAdd(image', i, p), Newest(image', i, p, n + 1)
               PROVE  p \in DOMAIN fs /\ fs[p].layer = i - 1
    BY <1>2, <1>3 DEF HeldIsThere
  <2>1. i \in 1..n
    BY <1>1, <1>2, <1>4
  <2> QED BY <1>5, <1>7, <1>9, <2>1 DEF LiveInv, HeldIsThere, n
<1>11. ThereIsHeld'
  <2> SUFFICES ASSUME NEW p \in DOMAIN fs
               PROVE  LET i == fs[p].layer + 1 IN
                      /\ i \in DOMAIN image' /\ Newest(image', i, p, n + 1)
                      /\ \E k \in DOMAIN image'[i] :
                           Adds(image', i, k, p) /\ image'[i][k].id = fs[p].id
    BY <1>2, <1>3 DEF ThereIsHeld
  <2> DEFINE i == fs[p].layer + 1
  <2>1. i \in 1..n /\ Newest(image, i, p, n)
        /\ \E k \in DOMAIN image[i] : Adds(image, i, k, p) /\ image[i][k].id = fs[p].id
    BY <1>1 DEF LiveInv, ThereIsHeld, n
  <2> HIDE DEF i
  <2>2. \E k \in DOMAIN image'[i] : Adds(image', i, k, p) /\ image'[i][k].id = fs[p].id
    BY <1>2, <2>1 DEF Adds
  <2> QED BY <1>7, <1>9, <2>1, <2>2 DEF i
<1>12. KindsKept'
  <2>1. \A kind, id : Origin(image, kind, id) => Origin(image', kind, id)
    BY <1>1, <1>2, <1>9 DEF Origin
  <2> QED BY <1>3, <2>1 DEF LiveInv, KindsKept
<1>13. NothingBelowFiles' /\ ItemsChosen'
  BY <1>3, <1>8, <1>9 DEF LiveInv, NothingBelowFiles, ItemsChosen
<1>14. TargetsKept'
  <2> SUFFICES ASSUME NEW m \in DOMAIN image', NEW k \in DOMAIN image'[m], NEW i \in 1..m,
                      image'[m][k].kind = "link", HoldsAdd(image', i, image'[m][k].target),
                      \A j \in (i + 1)..m : ~HoldsAdd(image', j, image'[m][k].target)
               PROVE  Newest(image', i, image'[m][k].target, m)
    BY DEF TargetsKept
  <2>1. m \in 1..n /\ image'[m] = image[m] /\ i \in 1..n
    BY <1>1, <1>8
  <2>2. \A j \in (i + 1)..m : j \in 1..n
    BY <1>1, <2>1
  <2>3. HoldsAdd(image, i, image[m][k].target)
        /\ \A j \in (i + 1)..m : ~HoldsAdd(image, j, image[m][k].target)
    BY <1>5, <2>1, <2>2
  <2>4. Newest(image, i, image[m][k].target, m)
    BY <1>9, <2>1, <2>3 DEF LiveInv, TargetsKept
  <2> QED BY <1>6, <2>1, <2>4
<1> QED BY <1>10, <1>11, <1>12, <1>13, <1>14 DEF LiveInv

(* Once the image is packed, no step changes it. *)
LEMMA MergeKeepsImage ==
  ASSUME [Next]_vars, ~PackLayer, ~PackEntry
  PROVE  UNCHANGED <<image, fs>>
<1>1. CASE Rested \/ StartMerge \/ DrainSorted \/ GroupsDone \/ EmitLink \/ DropLink
           \/ \E t \in Paths : EmitGroup(t) \/ SkipGroup(t)
  BY <1>1 DEF Rested, builder, StartMerge, DrainSorted, GroupsDone, EmitLink, DropLink,
              EmitGroup, SkipGroup
<1>2. CASE SkipRoot \/ RecordWhiteout \/ BufferSuppressed \/ DropSuppressed \/ SkipEmitted
           \/ DeferLink \/ PromoteLink \/ WriteEntry \/ EndLayer
  BY <1>2 DEF builder, SkipRoot, RecordWhiteout, BufferSuppressed, DropSuppressed, SkipEmitted,
              DeferLink, PromoteLink, WriteEntry, EndLayer
<1>3. CASE Finish \/ Failure
  <2>1. PICK x : Stop(x)
    BY <1>3 DEF Finish, Failure, ReadFails, WriteFails, FinishFails
  <2> QED BY <2>1 DEF Stop, builder
<1> QED BY WriterRests, <1>1, <1>2, <1>3 DEF Next, Build, Merge

LEMMA LiveKeeps ==
  ASSUME TrieInv, BuilderInv, BuilderInv', LiveInv, [Next]_vars
  PROVE  LiveInv'
<1>1. CASE PackEntry
  BY <1>1, EntryKeepsLive
<1>2. CASE PackLayer
  BY <1>2, LayerKeepsLive
<1>3. CASE ~PackLayer /\ ~PackEntry
  <2>1. UNCHANGED <<image, fs>>
    BY <1>3, MergeKeepsImage
  <2> QED BY <2>1 DEF LiveInv, HeldIsThere, ThereIsHeld, KindsKept, NothingBelowFiles,
                      ItemsChosen, TargetsKept
<1> QED BY <1>1, <1>2, <1>3

LEMMA LiveStarts == Init => LiveInv
  BY DEF Init, LiveInv, HeldIsThere, ThereIsHeld, KindsKept, NothingBelowFiles,
         ItemsChosen, TargetsKept, EmptyFS

----------------------------------------------------------------------------
(* What the merge makes of what it reads. *)

LEMMA ImageParts ==
  ASSUME TrieInv
  PROVE  /\ Len(image) \in Nat /\ DOMAIN image = 1..Len(image) /\ left \in Nat /\ pos \in Nat
         /\ left <= Len(image) /\ cur = left - 1 /\ cur' = left' - 1
         /\ \A i \in DOMAIN image : /\ i \in Nat /\ i > 0 /\ image[i] \in Seq(Item)
                                    /\ DOMAIN image[i] = 1..Len(image[i]) /\ Len(image[i]) \in Nat
         /\ \A i \in DOMAIN image : \A k \in DOMAIN image[i] : image[i][k] \in Item
BY LenProperties, ElementOfSeq DEF TrieInv, BuilderTyped, Position, cur

(* Recording an entry of this layer covers nothing of it. *)
LEMMA CoverStays ==
  ASSUME TrieInv, recorded \subseteq recorded',
         \A r \in recorded' : r \in recorded \/ r[2] = cur,
         NEW p, NEW i \in Int, left <= i
  PROVE  (\E r \in recorded' : Covers(r[1], p) /\ i - 1 < r[2]) <=> CoveredBy(p, i - 1)
<1>1. cur = left - 1 /\ left \in Nat
  BY ImageParts
<1> QED BY <1>1 DEF CoveredBy

LEMMA DoneNext ==
  ASSUME TrieInv, Reading, NextEntry, left' = left,
         NEW i \in DOMAIN image, NEW k \in DOMAIN image[i]
  PROVE  Done(i, k)' <=> Done(i, k) \/ (i = left /\ k = pos)
BY ImageParts DEF Done, Ahead, NextEntry

LEMMA DoneHere ==
  ASSUME TrieInv, NEW i \in DOMAIN image, NEW k \in DOMAIN image[i]
  PROVE  /\ Done(i, k) => left <= i
         /\ left < i => Done(i, k)
BY ImageParts DEF Done, Ahead

LEMMA OneBehind ==
  ASSUME NEW T, NEW s \in Seq(T), NEW e \in T, NEW t, t = Append(s, e)
  PROVE  /\ DOMAIN t = 1..(Len(s) + 1) /\ t[Len(s) + 1] = e
         /\ \A i \in 1..Len(s) : t[i] = s[i]
BY AppendProperties, LenProperties

LEMMA PassKeepsSeen ==
  ASSUME TrieInv, BuilderInv, LiveInv, OutputInv, SeenInv, Reading, NextEntry,
         UNCHANGED <<builder, phase, left>>, missed => missed',
         \/ recorded' = recorded
         \/ recorded' = recorded \cup {<<entry.path, cur>>} /\ entry.kind # "dir",
         \/ UNCHANGED <<out, emitted>>
         \/ /\ out' = Append(out, Written(entry.kind, entry.path, <<cur, entry.path>>))
            /\ emitted' = emitted \cup {entry.path}
            /\ entry.kind \in {"dir", "file", "other"} /\ entry.path # Root
            /\ entry.path \notin emitted /\ (~missed' => ~CoveredBy(entry.path, cur))
            /\ entry.kind # "dir" => <<entry.path, cur>> \in recorded',
         entry.kind \in {"whiteout", "opaque"} => <<entry.path, cur>> \in recorded',
         ~missed' /\ entry.kind \in AddKinds /\ entry.path # Root =>
           \/ CoveredBy(entry.path, cur)
           \/ entry.path \in OwnPaths \/ out' # out
           \/ entry.kind = "link" /\ <<entry.path, cur>> \in recorded'
  PROVE  SeenInv'
<1>1. /\ left \in DOMAIN image /\ pos \in DOMAIN image[left] /\ entry = image[left][pos]
      /\ cur = left - 1 /\ cur' = cur /\ left \in Nat /\ image' = image /\ phase = "layers"
      /\ phase' = phase /\ left' = left
  BY EntryParts, ImageParts DEF builder, Reading
<1> SUFFICES ASSUME ~missed'
             PROVE
    /\ \A r \in recorded' :
         /\ r[2] + 1 \in DOMAIN image
         /\ \E k \in DOMAIN image[r[2] + 1] :
              image[r[2] + 1][k].path = r[1] /\ image[r[2] + 1][k].kind # "dir"
    /\ \A i \in DOMAIN image : \A k \in DOMAIN image[i] : Done(i, k)' => Accounted(i, k)'
    /\ \A x \in DOMAIN out' : Own(out'[x]) =>
         \E i \in DOMAIN image : \E k \in DOMAIN image[i] : Stems(out[x], i, k)'
    /\ OwnPaths' \subseteq emitted'
    /\ emitted' \subseteq OwnPaths'
  BY <1>1 DEF SeenInv
<1>2. /\ \A r \in recorded :
         /\ r[2] + 1 \in DOMAIN image
         /\ \E k \in DOMAIN image[r[2] + 1] :
              image[r[2] + 1][k].path = r[1] /\ image[r[2] + 1][k].kind # "dir"
      /\ \A i \in DOMAIN image : \A k \in DOMAIN image[i] : Done(i, k) => Accounted(i, k)
      /\ \A x \in DOMAIN out : Own(out[x]) =>
         \E i \in DOMAIN image : \E k \in DOMAIN image[i] : Stems(out[x], i, k)
      /\ OwnPaths = emitted
  BY <1>1 DEF SeenInv
<1>3. /\ recorded \subseteq recorded' /\ \A r \in recorded' : r \in recorded \/ r[2] = cur
      /\ \A r \in recorded' : r \in recorded \/ (r = <<entry.path, cur>> /\ entry.kind # "dir")
  OBVIOUS
<1>4. \A p, i : i \in Int /\ left <= i =>
        ((\E r \in recorded' : Covers(r[1], p) /\ i - 1 < r[2]) <=> CoveredBy(p, i - 1))
  BY <1>3, CoverStays
<1>5. \A i \in DOMAIN image : i \in Int
  BY ImageParts
<1> DEFINE w == Written(entry.kind, entry.path, <<cur, entry.path>>)
           n == Len(out)
           wrote == out' # out
<1>6. /\ n \in Nat /\ DOMAIN out = 1..n
      /\ DOMAIN out' = 1..n \/ DOMAIN out' = 1..(n + 1)
      /\ \A x \in DOMAIN out : x \in DOMAIN out' /\ out'[x] = out[x]
      /\ \A x \in DOMAIN out' : x \in DOMAIN out \/ (x = n + 1 /\ out'[x] = w /\ wrote)
      /\ wrote => n + 1 \in DOMAIN out' /\ out'[n + 1] = w
  <2>1. out \in Seq(Member) /\ n \in Nat /\ DOMAIN out = 1..n
    BY LenProperties DEF OutputInv
  <2>2. CASE out' = out
    BY <2>1, <2>2
  <2>3. CASE out' # out
    <3>1. out' = Append(out, w) /\ entry.kind \in {"dir", "file", "other"} /\ entry.path # Root
      BY <2>3
    <3>2. w \in Member
      BY <1>1, <3>1, EntryParts
      DEF Written, Member, Nodes, Ids, Kinds, AddKinds, NonDirKinds
    <3> HIDE DEF w, n, wrote
    <3>3. /\ DOMAIN out' = 1..(n + 1) /\ out'[n + 1] = w
          /\ \A i \in 1..n : out'[i] = out[i]
      BY ONLY <2>1, <3>1, <3>2, OneBehind DEF n
    <3> QED BY <2>1, <2>3, <3>3 DEF wrote
  <2> QED BY <2>2, <2>3
<1>7. wrote =>
        /\ emitted' = emitted \cup {entry.path}
        /\ entry.kind \in {"dir", "file", "other"} /\ entry.path # Root /\ entry.path \in Paths
        /\ entry.path \notin emitted /\ ~CoveredBy(entry.path, cur)
        /\ entry.kind # "dir" => <<entry.path, cur>> \in recorded'
  BY EntryParts DEF Nodes
<1>8. ~wrote => UNCHANGED <<out, emitted>>
  <2>1. ASSUME ~wrote,
               out' = Append(out, w) PROVE FALSE
    <3>1. out \in Seq(Member) /\ n \in Nat /\ out' = out
      BY <2>1, LenProperties DEF OutputInv
    <3>2. Len(Append(out, w)) = n + 1
      BY <3>1
    <3> QED BY <2>1, <3>1, <3>2
  <2> QED BY <2>1
<1>9. w.kind = entry.kind /\ w.path = entry.path /\ w.id = <<cur, entry.path>> /\ w.id[2] = w.path
  BY DEF Written
<1> HIDE DEF w, n, wrote
<1>10. /\ OwnPaths \subseteq OwnPaths'
       /\ \A p \in OwnPaths' : p \in OwnPaths \/ (wrote /\ p = entry.path)
       /\ wrote => entry.path \in OwnPaths'
  <2>1. OwnPaths \subseteq OwnPaths'
    BY <1>6 DEF OwnPaths
  <2>2. \A p \in OwnPaths' : p \in OwnPaths \/ (wrote /\ p = entry.path)
    BY <1>6, <1>9 DEF OwnPaths
  <2>3. ASSUME wrote PROVE entry.path \in OwnPaths'
    <3>1. Own(w) /\ out'[n + 1] = w /\ n + 1 \in DOMAIN out'
      BY <1>6, <1>7, <1>9, <2>3 DEF Own
    <3> QED BY <1>9, <3>1 DEF OwnPaths
  <2> QED BY <2>1, <2>2, <2>3
<1>11. OwnPaths' = emitted'
  BY <1>2, <1>7, <1>8, <1>10
<1>12. ASSUME NEW r \in recorded'
       PROVE  /\ r[2] + 1 \in DOMAIN image
              /\ \E k \in DOMAIN image[r[2] + 1] :
                   image[r[2] + 1][k].path = r[1] /\ image[r[2] + 1][k].kind # "dir"
  <2>1. CASE r \in recorded
    BY <1>2, <2>1
  <2>2. CASE r = <<entry.path, cur>> /\ entry.kind # "dir"
    <3>1. r[2] + 1 = left /\ r[1] = entry.path
      BY <1>1, <2>2
    <3> QED BY <1>1, <2>2, <3>1
  <2> QED BY <1>3, <2>1, <2>2
<1>13. ASSUME NEW i \in DOMAIN image, NEW k \in DOMAIN image[i], Done(i, k)'
       PROVE  Accounted(i, k)'
  <2> DEFINE e == image[i][k]
  <2> SUFFICES /\ e.kind \in {"whiteout", "opaque"} => <<e.path, i - 1>> \in recorded'
               /\ e.kind \in AddKinds /\ e.path # Root =>
                    \/ \E r \in recorded' : Covers(r[1], e.path) /\ i - 1 < r[2]
                    \/ e.path \in OwnPaths'
                    \/ e.kind = "link" /\ <<e.path, i - 1>> \in recorded'
    BY <1>1 DEF Accounted, CoveredBy
  <2>1. Done(i, k) \/ (i = left /\ k = pos)
    BY <1>1, <1>13, DoneNext
  <2>2. CASE Done(i, k)
    <3>1. Accounted(i, k)
      BY <1>2, <2>2
    <3> QED BY <1>3, <1>10, <3>1 DEF Accounted, CoveredBy
  <2>3. CASE i = left /\ k = pos
    <3>1. e = entry /\ i - 1 = cur
      BY <1>1, <2>3
    <3>2. CoveredBy(e.path, cur) => \E r \in recorded' : Covers(r[1], e.path) /\ i - 1 < r[2]
      BY <1>3, <3>1 DEF CoveredBy
    <3>3. out' # out => entry.path \in OwnPaths'
      BY <1>10 DEF wrote
    <3> QED BY <1>10, <3>1, <3>2, <3>3
  <2> QED BY <2>1, <2>2, <2>3
<1>14. ASSUME NEW x \in DOMAIN out', Own(out'[x])
       PROVE  \E i \in DOMAIN image : \E k \in DOMAIN image[i] : Stems(out[x], i, k)'
  <2>1. CASE x \in DOMAIN out
    <3>1. out'[x] = out[x] /\ Own(out[x])
      BY <1>6, <1>14, <2>1
    <3>2. PICK i \in DOMAIN image : \E k \in DOMAIN image[i] : Stems(out[x], i, k)
      BY <1>2, <2>1, <3>1
    <3>3. PICK k \in DOMAIN image[i] : Stems(out[x], i, k)
      BY <3>2
    <3>4. Done(i, k)' /\ left <= i
      BY <1>1, <3>3, DoneNext, DoneHere DEF Stems
    <3>5. Up(i, out[x].path) /\ i \in Int
      BY <1>5, <3>3 DEF Stems
    <3>6. Up(i, out[x].path)'
      BY <1>1, <1>4, <3>1, <3>4, <3>5 DEF Up, CoveredBy
    <3>7. Stems(out[x], i, k)'
      BY <1>1, <1>3, <3>1, <3>3, <3>4, <3>6 DEF Stems
    <3> QED BY <3>7
  <2>2. CASE x = n + 1 /\ out'[x] = w /\ wrote
    <3>1. PICK i \in DOMAIN image : i = left
      BY <1>1
    <3>2. PICK k \in DOMAIN image[i] : k = pos
      BY <1>1, <3>1
    <3>3. PICK p \in Paths : p = entry.path
      BY <1>7, <2>2
    <3>4. i = left /\ k = pos /\ p = entry.path
      BY <3>1, <3>2, <3>3
    <3>5. /\ image[i][k].kind \in {"dir", "file", "other"} /\ image[i][k].path \in Paths
          /\ out'[x] = Written(image[i][k].kind, image[i][k].path, <<i - 1, image[i][k].path>>)
          /\ image[i][k].path = p /\ image[i][k].kind = entry.kind /\ out'[x].path = p
      BY <1>1, <1>7, <1>9, <2>2, <3>4 DEF w
    <3>6. Done(i, k)'
      BY <1>1, <3>4, DoneNext
    <3>7. ASSUME NEW j \in (i + 1)..Len(image), HoldsAdd(image, j, p) PROVE FALSE
      <4>1. j \in DOMAIN image /\ left < j /\ j \in Int
        BY <1>1, <3>4, <3>7, ImageParts
      <4>2. PICK m \in DOMAIN image[j] : Adds(image, j, m, p)
        BY <3>7 DEF HoldsAdd
      <4>3. Accounted(j, m)
        BY <1>2, <4>1, <4>2, DoneHere
      <4>4. CoveredBy(p, j - 1) \/ <<p, j - 1>> \in recorded
        BY <1>2, <1>7, <2>2, <3>4, <4>2, <4>3 DEF Accounted, Adds
      <4>5. cur < j - 1
        BY <1>1, <4>1
      <4>6. CASE CoveredBy(p, j - 1)
        <5>1. PICK r \in recorded : Covers(r[1], p) /\ j - 1 < r[2]
          BY <4>6 DEF CoveredBy
        <5>2. cur < r[2]
          BY <1>1, <4>1, <4>5, <5>1 DEF TrieInv, RecordedNewer
        <5> QED BY <1>7, <2>2, <3>4, <5>1, <5>2 DEF CoveredBy
      <4>7. CASE <<p, j - 1>> \in recorded
        <5>1. Covers(p, p)
          BY SelfCovers DEF Nodes
        <5>2. CoveredBy(p, cur)
          BY <4>5, <4>7, <5>1 DEF CoveredBy
        <5> QED BY <1>7, <2>2, <3>4, <5>2
      <4> QED BY <4>4, <4>6, <4>7
    <3>8. Up(i, p)'
      <4>1. ~ \E r \in recorded' : Covers(r[1], p) /\ i - 1 < r[2]
        BY <1>1, <1>4, <1>5, <1>7, <2>2, <3>4
      <4> QED BY <1>1, <3>7, <4>1 DEF Up, CoveredBy
    <3>9. out'[x].kind # "dir" => <<out'[x].path, i - 1>> \in recorded'
      BY <1>1, <1>7, <1>9, <2>2, <3>4
    <3>10. Stems(out[x], i, k)'
      BY <1>1, <3>5, <3>6, <3>8, <3>9 DEF Stems
    <3> QED BY <3>10
  <2> QED BY <1>6, <2>1, <2>2
<1> QED BY <1>11, <1>12, <1>13, <1>14

LEMMA StageKeeps == StageInv /\ [Next]_vars => StageInv'
<1> SUFFICES ASSUME StageInv, [Next]_vars PROVE StageInv'
  OBVIOUS
<1> USE DEF StageInv
<1>1. CASE PackLayer \/ PackEntry \/ StartMerge \/ Rested
  BY <1>1 DEF PackLayer, PackEntry, StartMerge, trackers, Rested
<1>2. CASE SkipRoot \/ RecordWhiteout \/ BufferSuppressed \/ DropSuppressed \/ SkipEmitted
           \/ DeferLink \/ PromoteLink \/ WriteEntry \/ EndLayer
  <2>1. Reading => phase = "layers" /\ result = "none"
    BY DEF Reading, Going
  <2> DEFINE Goes == phase = "layers" /\ phase' = "layers" /\ result = "none" /\ result' = "none"
  <2>2. ASSUME SkipRoot \/ RecordWhiteout \/ BufferSuppressed \/ DropSuppressed \/ SkipEmitted
        PROVE  Goes
    BY <2>1, <2>2 DEF SkipRoot, RecordWhiteout, BufferSuppressed, DropSuppressed, SkipEmitted
  <2>3. ASSUME DeferLink \/ PromoteLink \/ WriteEntry \/ EndLayer
        PROVE  Goes
    BY <2>1, <2>3 DEF DeferLink, PromoteLink, WriteEntry, EndLayer, LiveLink, LiveEntry, Going
  <2>4. Goes
    BY ONLY <1>2, <2>2, <2>3
  <2> QED BY <2>4
<1>3. CASE DrainSorted \/ GroupsDone
  BY <1>3 DEF DrainSorted, GroupsDone, trackers
<1>4. ASSUME NEW t, EmitGroup(t) \/ SkipGroup(t) PROVE StageInv'
  BY <1>4 DEF EmitGroup, SkipGroup, Promotes, Promoting
<1>5. CASE EmitLink \/ DropLink
  BY <1>5 DEF EmitLink, DropLink, Linking
<1>6. CASE Finish
  BY <1>6 DEF Finish, Stop, trackers
<1>7. CASE Failure
  BY <1>7 DEF Failure, ReadFails, WriteFails, FinishFails, Stop
<1> QED BY WriterRests, <1>1, <1>2, <1>3, <1>4, <1>5, <1>6, <1>7 DEF Next, Build, Merge

(* What follows the layers writes nothing of its own. *)
LEMMA RestKeepsSeen ==
  ASSUME SeenInv, phase # "build", UNCHANGED <<image, left, pos, recorded, missed>>,
         \A x \in DOMAIN out' : Own(out'[x]) => \E y \in DOMAIN out : out[y] = out'[x],
         \A x \in DOMAIN out : \E y \in DOMAIN out' : out'[y] = out[x],
         emitted \subseteq emitted',
         phase' = "layers" => phase = "layers" /\ emitted' = emitted
  PROVE  SeenInv'
<1>1. OwnPaths' = OwnPaths
  BY DEF OwnPaths
<1>2. \A i, k : Done(i, k)' <=> Done(i, k)
  BY DEF Done
<1>3. \A i, k : Accounted(i, k) => Accounted(i, k)'
  BY <1>1 DEF Accounted, CoveredBy
<1>4. \A i, p : Up(i, p)' <=> Up(i, p)
  BY DEF Up, CoveredBy
<1>5. ASSUME NEW x \in DOMAIN out', Own(out'[x]), ~missed,
             \A y \in DOMAIN out : Own(out[y]) =>
               \E i \in DOMAIN image : \E k \in DOMAIN image[i] : Stems(out[y], i, k)
      PROVE  \E i \in DOMAIN image : \E k \in DOMAIN image[i] : Stems(out[x], i, k)'
  <2>1. PICK y \in DOMAIN out : out[y] = out'[x]
    BY <1>5
  <2>2. PICK i \in DOMAIN image : \E k \in DOMAIN image[i] : Stems(out[y], i, k)
    BY <1>5, <2>1
  <2>3. PICK k \in DOMAIN image[i] : Stems(out[y], i, k)
    BY <2>2
  <2>4. Up(i, out[x].path)'
    BY <1>4, <2>1, <2>3 DEF Stems, Up, CoveredBy
  <2>5. Stems(out[x], i, k)'
    BY <1>2, <2>1, <2>3, <2>4 DEF Stems
  <2> QED BY <2>5
<1> QED BY <1>1, <1>2, <1>3, <1>5 DEF SeenInv

LEMMA SeenStarts ==
  ASSUME TrieInv, BuilderInv, StageInv, StartMerge
  PROVE  SeenInv'
<1>1. /\ left' = Len(image) /\ pos' = 1 /\ image' = image /\ recorded' = {}
      /\ out' = <<>> /\ emitted' = {}
  BY DEF StartMerge, builder, trackers, history, BuilderInv, TrieInv, RecordedNewer, StageInv
<1>2. \A i \in DOMAIN image : \A k \in DOMAIN image[i] : ~Done(i, k)'
  <2>1. \A i \in DOMAIN image : \A k \in DOMAIN image[i] :
          i \in 1..Len(image) /\ k \in 1..Len(image[i]) /\ Len(image) \in Nat
    BY ImageParts
  <2> QED BY <1>1, <2>1 DEF Done, Ahead
<1>3. OwnPaths' = {}
  BY <1>1 DEF OwnPaths
<1> QED BY <1>1, <1>2, <1>3 DEF SeenInv

LEMMA EndLayerKeepsSeen ==
  ASSUME TrieInv, SeenInv, EndLayer
  PROVE  SeenInv'
<1>1. /\ left > 0 /\ pos > Len(image[left]) /\ left' = left - 1 /\ pos' = 1 /\ phase = "layers"
      /\ UNCHANGED <<image, recorded, missed, out, emitted, phase>>
  BY DEF EndLayer, builder, history, Layer
<1>2. \A i \in DOMAIN image : \A k \in DOMAIN image[i] : Done(i, k)' <=> Done(i, k)
  <2>1. ASSUME NEW i \in DOMAIN image, NEW k \in DOMAIN image[i]
        PROVE  Done(i, k)' <=> Done(i, k)
    <3>1. /\ i \in Nat /\ k \in 1..Len(image[i]) /\ Len(image[i]) \in Nat
          /\ left \in Nat /\ pos \in Nat
      BY ImageParts
    <3> QED BY <1>1, <3>1 DEF Done, Ahead
  <2> QED BY <2>1
<1>3. OwnPaths' = OwnPaths
  BY <1>1 DEF OwnPaths
<1>4. \A i, k : Accounted(i, k) => Accounted(i, k)'
  BY <1>1, <1>3 DEF Accounted, CoveredBy
<1>5. \A i, p : Up(i, p)' <=> Up(i, p)
  BY <1>1 DEF Up, CoveredBy
<1>6. ASSUME NEW x \in DOMAIN out, NEW i \in DOMAIN image, NEW k \in DOMAIN image[i],
             Stems(out[x], i, k)
      PROVE  Stems(out[x], i, k)'
  <2>1. Done(i, k)'
    BY <1>2, <1>6 DEF Stems
  <2>2. Up(i, out[x].path)'
    BY <1>1, <1>6 DEF Stems, Up, CoveredBy
  <2> QED BY <1>1, <1>6, <2>1, <2>2 DEF Stems
<1>7. ~missed =>
        /\ \A r \in recorded :
             /\ r[2] + 1 \in DOMAIN image
             /\ \E k \in DOMAIN image[r[2] + 1] :
                  image[r[2] + 1][k].path = r[1] /\ image[r[2] + 1][k].kind # "dir"
        /\ \A i \in DOMAIN image : \A k \in DOMAIN image[i] : Done(i, k) => Accounted(i, k)
        /\ \A x \in DOMAIN out : Own(out[x]) =>
             \E i \in DOMAIN image : \E k \in DOMAIN image[i] : Stems(out[x], i, k)
        /\ OwnPaths \subseteq emitted /\ emitted \subseteq OwnPaths
  BY <1>1 DEF SeenInv
<1>8. ~missed => \A x \in DOMAIN out' : Own(out'[x]) =>
             \E i \in DOMAIN image' : \E k \in DOMAIN image'[i] : Stems(out[x], i, k)'
  BY <1>1, <1>6, <1>7
<1>9. ~missed => \A i \in DOMAIN image' : \A k \in DOMAIN image'[i] :
        Done(i, k)' => Accounted(i, k)'
  BY <1>1, <1>2, <1>4, <1>7
<1> QED BY <1>1, <1>3, <1>7, <1>8, <1>9 DEF SeenInv

LEMMA SeenKeeps ==
  ASSUME IInv, LiveInv, StageInv, SeenInv, [Next]_vars
  PROVE  SeenInv'
<1> USE DEF IInv
<1>1. CASE PackLayer \/ PackEntry
  BY <1>1 DEF PackLayer, PackEntry, SeenInv
<1>2. CASE StartMerge
  BY <1>2, SeenStarts
<1>3. CASE EndLayer
  BY <1>3, EndLayerKeepsSeen
<1>4. CASE SkipRoot
  <2>1. /\ Reading /\ NextEntry /\ UNCHANGED <<builder, phase, left, missed, out, emitted>>
        /\ recorded' = recorded /\ entry.kind = "dir" /\ entry.path = Root
    BY <1>4 DEF SkipRoot, trackers, history
  <2> QED BY <2>1, PassKeepsSeen
<1>5. CASE RecordWhiteout
  <2>1. /\ Reading /\ NextEntry /\ UNCHANGED <<builder, phase, left, missed, out, emitted>>
        /\ recorded' = recorded \cup {<<entry.path, cur>>}
        /\ entry.kind \in {"whiteout", "opaque"}
    BY <1>5 DEF RecordWhiteout, Record
  <2>2. /\ entry.kind # "dir" /\ entry.kind \notin AddKinds
        /\ <<entry.path, cur>> \in recorded'
    BY <2>1 DEF AddKinds, NonDirKinds
  <2> QED BY <2>1, <2>2, PassKeepsSeen
<1>6. CASE BufferSuppressed \/ DropSuppressed
  <2>1. /\ Reading /\ NextEntry /\ UNCHANGED <<builder, phase, left, missed, out, emitted, recorded>>
        /\ entry.kind \in AddKinds /\ Suppressed(entry.path)
    BY <1>6 DEF BufferSuppressed, DropSuppressed, trackers, history, AddKinds, NonDirKinds
  <2>2. CoveredBy(entry.path, cur)
    <3>1. entry.path \in Paths /\ cur \in Int
      BY <2>1, EntryParts DEF Nodes, Suppressed, IsSuppressed, Layers
    <3> QED BY <2>1, <3>1, SuppressedHasReason DEF Suppressed, TrieInv
  <2>3. entry.kind \notin {"whiteout", "opaque"}
    BY <2>1 DEF AddKinds, NonDirKinds
  <2> QED BY <2>1, <2>2, <2>3, PassKeepsSeen
<1>7. CASE SkipEmitted
  <2>1. /\ Reading /\ NextEntry /\ UNCHANGED <<builder, phase, left, out, emitted, recorded>>
        /\ entry.kind \notin {"whiteout", "opaque"} /\ entry.path \in emitted
        /\ missed => missed'
    BY <1>7 DEF SkipEmitted, trackers, AddKinds, NonDirKinds
  <2>2. ~missed' => entry.path \in OwnPaths
    BY <2>1 DEF SeenInv, Reading
  <2> QED BY <2>1, <2>2, PassKeepsSeen
<1>8. CASE DeferLink \/ PromoteLink
  <2>1. /\ Reading /\ NextEntry /\ UNCHANGED <<builder, phase, left, out, emitted>>
        /\ entry.kind = "link" /\ recorded' = recorded \cup {<<entry.path, cur>>}
        /\ missed => missed'
    BY <1>8 DEF DeferLink, PromoteLink, LiveLink, Record
  <2> QED BY <2>1, PassKeepsSeen
<1>9. CASE WriteEntry
  <2>1. /\ Reading /\ NextEntry /\ UNCHANGED <<builder, phase, left>>
        /\ out' = Append(out, Written(entry.kind, entry.path, <<cur, entry.path>>))
        /\ emitted' = emitted \cup {entry.path} /\ entry.path \notin emitted
        /\ entry.kind \in {"dir", "file", "other"} /\ entry.path # Root
        /\ ~Suppressed(entry.path)
        /\ missed => missed'
        /\ IF entry.kind # "dir" THEN recorded' = recorded \cup {<<entry.path, cur>>}
                                 ELSE recorded' = recorded
    BY <1>9 DEF WriteEntry, LiveEntry, Record
  <2>2. ~missed' => ~CoveredBy(entry.path, cur)
    BY <1>9, <2>1 DEF WriteEntry, Misses, Suppressed, CoveredBy
  <2>3. out' # out
    <3>1. out \in Seq(Member)
      BY DEF OutputInv
    <3>2. Len(out') = Len(out) + 1 /\ Len(out) \in Nat
      BY <2>1, <3>1, LenProperties
    <3> QED BY <3>2
  <2>4. entry.kind \notin {"whiteout", "opaque"}
    BY <2>1
  <2>5. CASE entry.kind = "dir"
    BY <2>1, <2>2, <2>3, <2>4, <2>5, PassKeepsSeen
  <2>6. CASE entry.kind # "dir"
    <3>1. recorded' = recorded \cup {<<entry.path, cur>>} /\ <<entry.path, cur>> \in recorded'
      BY <2>1, <2>6
    <3> QED BY <2>1, <2>2, <2>3, <2>4, <2>6, <3>1, PassKeepsSeen
  <2> QED BY <2>5, <2>6
<1>10. ASSUME UNCHANGED <<image, left, pos, recorded, missed, out, emitted>>, phase # "build",
             phase' = "layers" => phase = "layers"
      PROVE  SeenInv'
  BY <1>10, RestKeepsSeen
<1>11. CASE DrainSorted \/ GroupsDone \/ DropLink \/ \E t \in Paths : SkipGroup(t)
  BY <1>10, <1>11 DEF DrainSorted, GroupsDone, DropLink, SkipGroup, builder, trackers, history,
                     Linking, Promoting
<1>12. CASE Rested
  <2>1. UNCHANGED <<image, left, pos, recorded, missed, out, emitted, phase>>
    BY <1>12 DEF Rested, builder, trackers, history
  <2>2. CASE phase = "build"
    BY <2>1, <2>2 DEF SeenInv
  <2> QED BY <1>10, <2>1, <2>2
<1>13. CASE Finish \/ Failure
  <2>1. (\E x : Stop(x)) /\ phase # "build"
    BY <1>13 DEF Finish, Failure, ReadFails, WriteFails, FinishFails, LiveEntry, Reading,
                 Promotes, Promoting
  <2> QED BY <1>10, <2>1 DEF Stop, builder, trackers, history
<1>14. CASE EmitLink
  <2> DEFINE w == Link(Head(deferred).link, Head(deferred).target)
  <2>1. /\ out' = Append(out, w) /\ emitted \subseteq emitted' /\ phase = "link" /\ phase' = phase
        /\ UNCHANGED <<image, left, pos, recorded, missed>>
    BY <1>14 DEF EmitLink, Linking, builder, history
  <2>2. w.kind = "link" /\ ~Own(w)
    BY DEF Link, Own
  <2> HIDE DEF w
  <2>3. DOMAIN out = 1..Len(out) /\ Len(out) \in Nat
    BY LenProperties DEF OutputInv
  <2>4. /\ DOMAIN out' = 1..(Len(out) + 1) /\ out'[Len(out) + 1] = w
        /\ \A i \in 1..Len(out) : out'[i] = out[i]
    <3>1. out \in Seq(Member) /\ out' \in Seq(Member)
      BY <1>14, LinkKeepsOutput DEF OutputInv
    <3> QED BY <2>1, <2>3, <3>1, LenProperties
  <2>5. \A x \in DOMAIN out' : Own(out'[x]) => \E y \in DOMAIN out : out[y] = out'[x]
    BY <2>2, <2>3, <2>4
  <2>6. \A x \in DOMAIN out : \E y \in DOMAIN out' : out'[y] = out[x]
    BY <2>3, <2>4
  <2> QED BY <2>1, <2>5, <2>6, RestKeepsSeen
<1>15. ASSUME NEW t, EmitGroup(t) PROVE SeenInv'
  <2>1. /\ emitted \subseteq emitted' /\ phase = "promote" /\ phase' = phase
        /\ UNCHANGED <<image, left, pos, recorded, missed>>
    BY <1>15 DEF EmitGroup, Promotes, Promoting, builder, history
  <2> SUFFICES ASSUME ~missed PROVE SeenInv'
    BY <2>1 DEF SeenInv
  <2> DEFINE main == promotions[Primary(t)]
             n == Len(out)
  <2>2. /\ n \in Nat /\ DOMAIN out = 1..n /\ main.data # NoData /\ Primary(t) \in DOMAIN promotions
    BY <1>15, GroupWrites DEF Group
  <2>3. PICK c \in Nat : \E f \in [1..c -> Followers(t)] : WritesGroup(t, c, f)
    BY <1>15, GroupWrites
  <2>4. PICK f \in [1..c -> Followers(t)] : WritesGroup(t, c, f)
    BY <2>3
  <2>5. /\ DOMAIN out' = 1..(n + 1 + c)
        /\ \A i \in 1..n : out'[i] = out[i]
        /\ out'[n + 1] = Written("file", main.link, main.data)
        /\ \A k \in 1..c : out'[n + 1 + k] = Link(promotions[f[k]].link, main.link)
    BY <2>4 DEF WritesGroup
  <2>6. Kept(main, image, left, pos, recorded)
    BY <2>2 DEF PromotionInv
  <2>7. main.data[2] = main.target /\ main.link # main.target
    BY <2>2, <2>6 DEF Kept, LiveInv, ItemsChosen
  <2> HIDE DEF n, main
  <2>8. ~Own(Written("file", main.link, main.data)) /\ \A p, q : ~Own(Link(p, q))
    BY <2>7 DEF Own, Written, Link
  <2>9. \A x \in DOMAIN out' : Own(out'[x]) => \E y \in DOMAIN out : out[y] = out'[x]
    <3>1. ASSUME NEW x \in DOMAIN out', Own(out'[x]) PROVE \E y \in DOMAIN out : out[y] = out'[x]
      <4>1. x \in 1..(n + 1 + c)
        BY <2>5
      <4>2. CASE x \in 1..n
        BY <2>2, <2>5, <4>2
      <4>3. CASE x = n + 1
        BY <2>5, <2>8, <3>1, <4>3
      <4>4. CASE x \notin 1..(n + 1)
        <5>1. x - (n + 1) \in 1..c /\ x = n + 1 + (x - (n + 1))
          BY <2>2, <4>1, <4>4
        <5> QED BY <2>5, <2>8, <3>1, <5>1
      <4> QED BY <2>2, <4>1, <4>2, <4>3, <4>4
    <3> QED BY <3>1
  <2>10. \A x \in DOMAIN out : \E y \in DOMAIN out' : out'[y] = out[x]
    BY <2>2, <2>5
  <2> QED BY <2>1, <2>9, <2>10, RestKeepsSeen
<1> QED
  BY WriterRests, <1>1, <1>2, <1>3, <1>4, <1>6, <1>7, <1>8, <1>9, <1>11, <1>12, <1>13, <1>14, <1>15, <1>5
  DEF Next, Build, Merge

----------------------------------------------------------------------------
(* What is up is what the file system has. *)

(* What was recorded over p by a layer that took nothing away at p.        *)
LEMMA NewestIsUncovered ==
  ASSUME TrieInv, SeenInv, phase # "build", ~missed, ~BareOpaque,
         NEW i \in DOMAIN image, NEW p \in Paths, NEW n \in Int, Newest(image, i, p, n),
         NEW r \in recorded, Covers(r[1], p), i - 1 < r[2], r[2] < n
  PROVE  FALSE
<1> DEFINE j == r[2] + 1
<1>1. j \in DOMAIN image /\ \E k \in DOMAIN image[j] :
        image[j][k].path = r[1] /\ image[j][k].kind # "dir"
  BY DEF SeenInv
<1>2. PICK k \in DOMAIN image[j] : image[j][k].path = r[1] /\ image[j][k].kind # "dir"
  BY <1>1
<1>3. j \in (i + 1)..n
  <2>1. r[2] \in Int /\ i \in Int
    BY ImageParts DEF TrieInv, RecordedNewer
  <2> QED BY <2>1
<1> HIDE DEF j
<1>4. ~HoldsAdd(image, j, p) /\ ~Removes(image, j, p)
  BY <1>3 DEF Newest
<1>5. image[j][k].kind \in Kinds
  BY <1>1, ImageParts DEF Item
<1>6. image[j][k].kind = "opaque" /\ image[j][k].path = p
  BY <1>2, <1>4, <1>5 DEF Removes, HoldsAdd, Adds, Kinds, AddKinds
<1>7. Has(j, "opaque", p)
  BY <1>6 DEF Has
<1>8. Has(j, "dir", p)
  BY <1>1, <1>7 DEF BareOpaque
<1> QED BY <1>4, <1>8 DEF Has, HoldsAdd, Adds, AddKinds

LEMMA NewestIsUp ==
  ASSUME TrieInv, SeenInv, phase # "build", ~missed, ~BareOpaque,
         NEW i \in DOMAIN image, NEW p \in Paths, Newest(image, i, p, Len(image))
  PROVE  Up(i, p)
<1>1. ASSUME CoveredBy(p, i - 1) PROVE FALSE
  <2>1. PICK r \in recorded : Covers(r[1], p) /\ i - 1 < r[2]
    BY <1>1 DEF CoveredBy
  <2>2. r[2] + 1 \in DOMAIN image
    BY DEF SeenInv
  <2>3. r[2] < Len(image) /\ Len(image) \in Int
    BY <2>2, ImageParts DEF TrieInv, RecordedNewer
  <2> QED BY <2>1, <2>3, NewestIsUncovered
<1> QED BY <1>1 DEF Up, Newest

(* A path that was read in layer j, or below a path that was, is covered   *)
(* from below, or holds what was written: not below anything but a         *)
(* directory.                                                              *)
LEMMA WrittenOrCovered ==
  ASSUME TrieInv, LiveInv, SeenInv, phase # "build", ~missed,
         NEW j \in DOMAIN image, NEW k \in DOMAIN image[j], Done(j, k),
         image[j][k].kind \in AddKinds, image[j][k].path # Root,
         NEW p, Covers(image[j][k].path, p), p \in Nodes
  PROVE  \/ \E r \in recorded : Covers(r[1], p) /\ j - 1 <= r[2]
         \/ \E i \in DOMAIN image : \E m \in DOMAIN image[i] :
              /\ image[i][m].kind = "dir" /\ image[i][m].path = image[j][k].path
              /\ j <= i /\ Done(i, m)
              /\ image[i][m].path \in OwnPaths
<1> DEFINE q == image[j][k].path
<1>1. q \in Nodes /\ q \in Paths /\ j \in Int
  BY ImageParts DEF Item, Nodes
<1>2. Accounted(j, k)
  BY DEF SeenInv
<1>3. CASE CoveredBy(q, j - 1)
  <2>1. PICK r \in recorded : Covers(r[1], q) /\ j - 1 < r[2]
    BY <1>3 DEF CoveredBy
  <2>2. Covers(r[1], p)
    BY <2>1, CoversUp
  <2>3. r[2] \in Int
    BY DEF TrieInv, RecordedNewer
  <2> QED BY <1>1, <2>1, <2>2, <2>3
<1>4. CASE <<q, j - 1>> \in recorded
  BY <1>1, <1>4
<1>5. CASE q \in OwnPaths
  <2>1. PICK x \in DOMAIN out : Own(out[x]) /\ out[x].path = q
    BY <1>5 DEF OwnPaths
  <2>2. PICK i \in DOMAIN image : \E m \in DOMAIN image[i] : Stems(out[x], i, m)
    BY <2>1 DEF SeenInv
  <2>3. PICK m \in DOMAIN image[i] : Stems(out[x], i, m)
    BY <2>2
  <2>4. /\ image[i][m].kind \in {"dir", "file", "other"} /\ image[i][m].path = q
        /\ out[x].kind = image[i][m].kind
        /\ Done(i, m) /\ Up(i, q) /\ (out[x].kind # "dir" => <<q, i - 1>> \in recorded)
    BY <2>1, <2>3 DEF Stems, Written
  <2>5. i \in Int /\ j \in 1..Len(image) /\ Len(image) \in Nat
    BY ImageParts
  <2>6. j <= i
    <3>1. HoldsAdd(image, j, q)
      BY DEF HoldsAdd, Adds
    <3>2. ~(j \in (i + 1)..Len(image))
      BY <2>4, <3>1 DEF Up
    <3> QED BY <2>5, <3>2
  <2>7. CASE out[x].kind = "dir"
    BY <1>5, <2>4, <2>6, <2>7
  <2>8. CASE out[x].kind # "dir"
    <3>1. <<q, i - 1>> \in recorded /\ j - 1 <= i - 1
      BY <2>4, <2>5, <2>6, <2>8
    <3> QED BY <3>1
  <2> QED BY <2>7, <2>8
<1> QED BY <1>2, <1>3, <1>4, <1>5 DEF Accounted

(* What may be over what layer i holds at p: nothing that some layer takes *)
(* away, when no file became a directory.                                  *)
LEMMA UpIsNewest ==
  ASSUME TrieInv, BuilderInv, LiveInv, SeenInv, phase # "build", ~missed, ~FileBecomesDir,
         NEW i \in DOMAIN image, left <= i, NEW p \in Paths, Up(i, p)
  PROVE  Newest(image, i, p, Len(image))
<1> SUFFICES ASSUME NEW j \in (i + 1)..Len(image), Removes(image, j, p) PROVE FALSE
  BY DEF Newest, Up
<1>1. j \in DOMAIN image /\ left < j /\ j \in Int /\ i \in Int /\ i - 1 < j - 1
  BY ImageParts
<1>2. PICK k \in DOMAIN image[j] :
        /\ Covers(image[j][k].path, p)
        /\ \/ image[j][k].kind = "whiteout"
           \/ image[j][k].kind \in NonDirKinds \cup {"opaque"} /\ image[j][k].path # p
  BY DEF Removes
<1>3. Done(j, k)
  BY <1>1, DoneHere
<1>4. \A r \in recorded : Covers(r[1], p) => ~(j - 1 <= r[2])
  <2>1. \A r \in recorded : Covers(r[1], p) => ~(i - 1 < r[2])
    BY DEF Up, CoveredBy
  <2>2. \A r \in recorded : r[2] \in Int
    BY DEF TrieInv, RecordedNewer
  <2> QED BY <1>1, <2>1, <2>2
<1>5. CASE image[j][k].kind \in {"whiteout", "opaque"}
  <2>1. <<image[j][k].path, j - 1>> \in recorded
    BY <1>1, <1>3, <1>5 DEF SeenInv, Accounted
  <2>2. PICK r \in recorded : r[1] = image[j][k].path /\ r[2] = j - 1
    BY <2>1
  <2> QED BY <1>1, <1>2, <1>4, <2>2
<1>6. CASE image[j][k].kind \in NonDirKinds
  <2>1. image[j][k].kind \in AddKinds /\ image[j][k].path \in Paths /\ image[j][k].path # Root
    BY <1>1, <1>6 DEF AddKinds, NonDirKinds, LiveInv, ItemsChosen
  <2>2. PICK n \in DOMAIN image : \E m \in DOMAIN image[n] :
              /\ image[n][m].kind = "dir" /\ image[n][m].path = image[j][k].path
              /\ j <= n /\ Done(n, m)
    BY <1>1, <1>2, <1>3, <1>4, <2>1, WrittenOrCovered DEF Nodes
  <2>3. PICK m \in DOMAIN image[n] :
              /\ image[n][m].kind = "dir" /\ image[n][m].path = image[j][k].path
              /\ j <= n /\ Done(n, m)
    BY <2>2
  <2> DEFINE q == image[j][k].path
  <2>4. j # n
    <3>1. ASSUME j = n PROVE FALSE
      <4>1. Adds(image, j, k, q) /\ Adds(image, j, m, q)
        BY <2>1, <2>3, <3>1 DEF Adds, AddKinds
      <4>2. k = m
        BY <1>1, <2>1, <2>3, <3>1, <4>1 DEF BuilderInv
      <4> QED BY <1>6, <2>3, <3>1, <4>2 DEF NonDirKinds
    <3> QED BY <3>1
  <2>5. j < n /\ n \in Int
    BY <1>1, <2>3, <2>4, ImageParts
  <2>6. Has(j, image[j][k].kind, q) /\ Has(n, "dir", q)
    BY <2>3 DEF Has
  <2>7. PICK h \in (j + 1)..n : \E z \in Paths : Covers(z, q) /\ Has(h, "whiteout", z)
    BY <1>1, <1>6, <2>1, <2>5, <2>6 DEF FileBecomesDir
  <2>8. PICK z \in Paths : Covers(z, q) /\ Has(h, "whiteout", z)
    BY <2>7
  <2>9. h \in DOMAIN image /\ left < h /\ j < h /\ h \in Int
    <3>1. n \in 1..Len(image) /\ j \in 1..Len(image) /\ Len(image) \in Nat
          /\ DOMAIN image = 1..Len(image) /\ left \in Int
      BY <1>1, ImageParts
    <3> QED BY <1>1, <2>5, <2>7, <3>1
  <2>10. <<z, h - 1>> \in recorded
    <3>1. PICK y \in DOMAIN image[h] : image[h][y].kind = "whiteout" /\ image[h][y].path = z
      BY <2>8 DEF Has
    <3> QED BY <2>9, <3>1, DoneHere DEF SeenInv, Accounted
  <2>11. Covers(z, p)
    BY <1>2, <2>8, CoversUp DEF Nodes
  <2>12. PICK r \in recorded : r[1] = z /\ r[2] = h - 1
    BY <2>10
  <2>13. j - 1 <= r[2]
    BY <1>1, <2>9, <2>12
  <2> QED BY <1>4, <2>11, <2>12, <2>13
<1> QED BY <1>2, <1>5, <1>6

----------------------------------------------------------------------------
(* What waits, and what was written, for an image that can be reproduced.  *)

(* A link that waits is that of an entry that was read, and its path is    *)
(* free.                                                                   *)
Asks(l, n, k) ==
  LET e == image[n][k] IN
  e.kind = "link" /\ e.path = l.link /\ e.target = l.target /\ l.layer = n - 1

Pending(l) ==
  /\ \E n \in DOMAIN image : \E k \in DOMAIN image[n] :
       Asks(l, n, k) /\ Done(n, k) /\ Up(n, l.link)
  /\ <<l.link, l.layer>> \in recorded /\ l.link \notin emitted

(* No path waits twice. *)
Apart ==
  /\ \A x, y \in DOMAIN deferred : deferred[x].link = deferred[y].link => x = y
  /\ \A x, y \in DOMAIN promotions : promotions[x].link = promotions[y].link => x = y
  /\ \A x \in DOMAIN deferred, y \in DOMAIN promotions : deferred[x].link # promotions[y].link

(* A link that was read is hidden, its path is written, or it waits. *)
Met(i, k) ==
  LET e == image[i][k] IN
  \/ CoveredBy(e.path, i - 1)
  \/ e.path \in emitted
  \/ \E l \in ToSet(deferred) \cup ToSet(promotions) : l.link = e.path /\ l.layer = i - 1

WaitInv ==
  phase # "build" /\ Reproducible =>
    /\ \A l \in ToSet(deferred) : Pending(l) /\ ~CoveredBy(l.target, l.layer)
    /\ \A l \in ToSet(promotions) : Pending(l)
    /\ Apart
    /\ \A i \in DOMAIN image : \A k \in DOMAIN image[i] :
         Done(i, k) /\ image[i][k].kind = "link" => Met(i, k)

(* What extraction gives the path of entry x. *)
Carries(x, id) ==
  \/ out[x].kind # "link" /\ out[x].id = id
  \/ /\ out[x].kind = "link"
     /\ \E y \in 1..(x - 1) : /\ out[y].kind # "link" /\ out[y].path = out[x].target
                              /\ out[y].id = id

(* Every path is written once, every file once, and what is not a path's   *)
(* own has the content of a link that is up there.                         *)
WrittenOnce ==
  /\ \A x, y \in DOMAIN out : out[x].path = out[y].path => x = y
  /\ \A x \in DOMAIN out : out[x].path \in emitted
  /\ \A x, y \in DOMAIN out :
       out[x].kind # "link" /\ out[y].kind # "link" /\ out[x].id = out[y].id => x = y

WrittenFrom ==
  /\ phase = "layers" => \A e \in ToSet(out) : Own(e)
  /\ \A e \in ToSet(out) : e.kind # "link" => Origin(image, e.kind, e.id)
  /\ \A e \in ToSet(out) : e.kind # "link" /\ ~Own(e) =>
       CoveredBy(e.id[2], e.id[1]) /\ e.id[2] \notin Targets

LinkUp(x, p) ==
  \E i \in DOMAIN image : \E e \in LinksOf(i) : e.path = p /\ Up(i, p) /\ Carries(x, e.id)

LinksUp == \A x \in DOMAIN out : ~Own(out[x]) => LinkUp(x, out[x].path)

OutInv == phase # "build" /\ Reproducible => WrittenOnce /\ WrittenFrom /\ LinksUp

----------------------------------------------------------------------------
(* The waiting links. *)

LEMMA HistoryGrows ==
  ASSUME [Next]_vars, phase # "build"
  PROVE  /\ image' = image /\ phase' # "build"
         /\ recorded \subseteq recorded' /\ (missed => missed')
<1>1. UNCHANGED <<image, fs>>
  BY MergeKeepsImage DEF PackLayer, PackEntry
<1>2. CASE Rested \/ DrainSorted \/ GroupsDone \/ EmitLink \/ DropLink
           \/ \E t \in Paths : EmitGroup(t) \/ SkipGroup(t)
  BY <1>1, <1>2 DEF Rested, trackers, history, DrainSorted, GroupsDone, EmitLink, DropLink,
                    EmitGroup, SkipGroup
<1>3. CASE SkipRoot \/ BufferSuppressed \/ DropSuppressed \/ EndLayer
  <2>1. UNCHANGED <<phase, history>>
    BY <1>3 DEF SkipRoot, BufferSuppressed, DropSuppressed, EndLayer
  <2> QED BY <1>1, <2>1 DEF history
<1>4. CASE SkipEmitted
  BY <1>1, <1>4 DEF SkipEmitted
<1>5. CASE RecordWhiteout
  BY <1>1, <1>5 DEF Record, RecordWhiteout
<1>6. CASE WriteEntry
  <2>1. /\ recorded \subseteq recorded' /\ UNCHANGED phase
        /\ missed' = (missed \/ Misses(whiteout, entry.path))
    BY <1>6 DEF Record, WriteEntry
  <2> QED BY <1>1, <2>1
<1>7. CASE DeferLink \/ PromoteLink
  BY <1>1, <1>7 DEF Record, DeferLink, PromoteLink
<1>8. CASE Finish \/ Failure
  <2>1. PICK x : Stop(x)
    BY <1>8 DEF Finish, Failure, ReadFails, WriteFails, FinishFails
  <2> QED BY <1>1, <2>1 DEF Stop, history
<1> QED BY WriterRests, <1>2, <1>3, <1>8, <1>5, <1>7, <1>4, <1>6 DEF Next, Build, Merge, PackLayer, PackEntry, StartMerge

(* An image that can be reproduced at the end could be all along. *)
LEMMA ReproducibleBefore ==
  ASSUME image' = image, recorded \subseteq recorded', missed => missed', Reproducible'
  PROVE  Reproducible
<1>1. \A p, i : CoveredBy(p, i) => CoveredBy(p, i)'
  BY DEF CoveredBy
<1>2. HiddenSpecial => HiddenSpecial'
  <2> SUFFICES ASSUME HiddenSpecial PROVE HiddenSpecial'
    OBVIOUS
  <2>1. PICK i \in DOMAIN image : \E e \in LinksOf(i) :
          Has(e.id[1] + 1, "other", e.id[2]) /\ CoveredBy(e.target, i - 1)
    BY DEF HiddenSpecial
  <2>2. PICK e \in LinksOf(i) :
          Has(e.id[1] + 1, "other", e.id[2]) /\ CoveredBy(e.target, i - 1)
    BY <2>1
  <2>3. CoveredBy(e.target, i - 1)'
    BY <1>1, <2>2
  <2>4. Has(e.id[1] + 1, "other", e.id[2])' /\ e \in LinksOf(i)'
    BY <2>2 DEF Has, LinksOf
  <2> QED BY <2>3, <2>4 DEF HiddenSpecial
<1>3. /\ BareOpaque => BareOpaque'
      /\ FileBecomesDir => FileBecomesDir'
      /\ LinkToLink => LinkToLink'
      /\ SharedTargetName => SharedTargetName'
  BY DEF BareOpaque, FileBecomesDir, LinkToLink, SharedTargetName, Has, ImageLinks, LinksOf
<1> QED BY <1>2, <1>3 DEF Reproducible

(* What was read stays read, and nothing newer comes over it. *)
GoesOn ==
  /\ image' = image /\ recorded \subseteq recorded'
  /\ \A i \in DOMAIN image : \A k \in DOMAIN image[i] : Done(i, k) => Done(i, k)'
  /\ \A i \in DOMAIN image : \A p : left <= i /\ CoveredBy(p, i - 1)' => CoveredBy(p, i - 1)

LEMMA UpStays ==
  ASSUME GoesOn, NEW i \in DOMAIN image, left <= i, NEW p, Up(i, p)
  PROVE  Up(i, p)'
BY DEF GoesOn, Up

LEMMA PendingStays ==
  ASSUME TrieInv, GoesOn, NEW l, Pending(l), l.link \notin emitted'
  PROVE  Pending(l)'
<1>1. PICK n \in DOMAIN image : \E k \in DOMAIN image[n] :
         Asks(l, n, k) /\ Done(n, k) /\ Up(n, l.link)
  BY DEF Pending
<1>2. PICK k \in DOMAIN image[n] : Asks(l, n, k) /\ Done(n, k) /\ Up(n, l.link)
  BY <1>1
<1>3. Up(n, l.link)'
  BY <1>2, DoneHere, UpStays
<1>4. Asks(l, n, k)' /\ Done(n, k)'
  BY <1>2 DEF Asks, GoesOn
<1> QED BY <1>3, <1>4 DEF Pending, GoesOn

LEMMA PassGoesOn ==
  ASSUME TrieInv, Reading, NextEntry, UNCHANGED <<image, left>>, recorded \subseteq recorded',
         \A r \in recorded' : r \in recorded \/ r[2] = cur
  PROVE  GoesOn
<1>1. \A i \in DOMAIN image : \A k \in DOMAIN image[i] : Done(i, k) => Done(i, k)'
  BY DoneNext
<1>2. ASSUME NEW i \in DOMAIN image, NEW p, left <= i, CoveredBy(p, i - 1)'
      PROVE  CoveredBy(p, i - 1)
  <2>1. \E r \in recorded' : Covers(r[1], p) /\ i - 1 < r[2]
    BY <1>2 DEF CoveredBy
  <2> QED BY <1>2, <2>1, CoverStays, ImageParts
<1> QED BY <1>1, <1>2 DEF GoesOn

LEMMA RestGoesOn ==
  ASSUME UNCHANGED <<image, left, pos, recorded>>
  PROVE  GoesOn
BY DEF GoesOn, Done, CoveredBy

LEMMA EndGoesOn ==
  ASSUME TrieInv, EndLayer
  PROVE  GoesOn /\ \A i \in DOMAIN image : \A k \in DOMAIN image[i] : Done(i, k)' => Done(i, k)
<1>1. /\ left > 0 /\ pos > Len(image[left]) /\ left' = left - 1 /\ pos' = 1
      /\ UNCHANGED <<image, recorded>>
  BY DEF EndLayer, builder, history, Layer
<1>2. ASSUME NEW i \in DOMAIN image, NEW k \in DOMAIN image[i]
      PROVE  Done(i, k)' <=> Done(i, k)
  <2>1. /\ i \in Nat /\ k \in 1..Len(image[i]) /\ Len(image[i]) \in Nat
        /\ left \in Nat /\ pos \in Nat
    BY ImageParts
  <2> QED BY <1>1, <2>1 DEF Done, Ahead
<1> QED BY <1>1, <1>2 DEF GoesOn, CoveredBy

(* No link waits for the path of an entry that nothing covers. *)
LEMMA PathIsFree ==
  ASSUME TrieInv, BuilderInv, Reading, NEW l, Pending(l),
         entry.kind \in AddKinds, entry.path \in Paths, ~CoveredBy(entry.path, cur)
  PROVE  l.link # entry.path
<1> SUFFICES ASSUME l.link = entry.path PROVE FALSE
  OBVIOUS
<1>1. PICK n \in DOMAIN image : \E k \in DOMAIN image[n] : Asks(l, n, k) /\ Done(n, k)
  BY DEF Pending
<1>2. PICK k \in DOMAIN image[n] : Asks(l, n, k) /\ Done(n, k)
  BY <1>1
<1>3. PICK r \in recorded : r[1] = entry.path /\ r[2] = l.layer
  BY DEF Pending
<1>4. cur <= l.layer /\ l.layer \in Int /\ cur = left - 1 /\ left \in Int /\ n \in Int
  BY <1>3, ImageParts DEF TrieInv, RecordedNewer
<1>5. ~(cur < l.layer)
  BY <1>3, SelfCovers DEF Nodes, CoveredBy
<1>6. n = left
  BY <1>2, <1>4, <1>5 DEF Asks
<1>7. pos \in DOMAIN image[left] /\ entry = image[left][pos] /\ pos \in Nat
  BY EntryParts, ImageParts
<1>8. Adds(image, left, k, entry.path) /\ Adds(image, left, pos, entry.path)
  BY <1>2, <1>6, <1>7 DEF Asks, Adds, AddKinds, NonDirKinds
<1>9. k = pos
  BY <1>1, <1>2, <1>6, <1>7, <1>8 DEF BuilderInv
<1> QED BY <1>2, <1>4, <1>6, <1>7, <1>9 DEF Done, Ahead

(* Nor did a newer layer leave anything there. *)
LEMMA PathIsUp ==
  ASSUME TrieInv, SeenInv, Reading, ~missed,
         entry.path \in Paths, entry.path \notin emitted, ~CoveredBy(entry.path, cur)
  PROVE  Up(left, entry.path)
<1>1. PICK p \in Paths : p = entry.path
  OBVIOUS
<1>2. cur = left - 1 /\ left \in Nat
  BY ImageParts
<1> SUFFICES ASSUME NEW j \in (left + 1)..Len(image), HoldsAdd(image, j, p) PROVE FALSE
  BY <1>1, <1>2 DEF Up
<1>3. j \in DOMAIN image /\ left < j /\ j \in Int
  BY ImageParts
<1>4. PICK m \in DOMAIN image[j] : Adds(image, j, m, p)
  BY DEF HoldsAdd
<1>5. Accounted(j, m)
  BY <1>3, <1>4, DoneHere DEF SeenInv, Reading
<1>6. CoveredBy(p, j - 1) \/ <<p, j - 1>> \in recorded
  BY <1>1, <1>4, <1>5 DEF Accounted, Adds, SeenInv, Reading
<1>7. cur < j - 1
  BY <1>2, <1>3
<1>8. CASE CoveredBy(p, j - 1)
  <2>1. PICK r \in recorded : Covers(r[1], p) /\ j - 1 < r[2]
    BY <1>8 DEF CoveredBy
  <2>2. cur < r[2]
    BY <1>2, <1>3, <1>7, <2>1 DEF TrieInv, RecordedNewer
  <2> QED BY <1>1, <2>1, <2>2 DEF CoveredBy
<1>9. CASE <<p, j - 1>> \in recorded
  BY <1>1, <1>7, <1>9, SelfCovers DEF CoveredBy, Nodes
<1> QED BY <1>6, <1>8, <1>9

(* What becomes of the lists of waiting links. *)
SameLink(l, m) == l.link = m.link /\ l.target = m.target /\ l.layer = m.layer
SameLinks(t, s) == DOMAIN t = DOMAIN s /\ \A x \in DOMAIN s : SameLink(t[x], s[x])
AddsLink(t, s, l) ==
  /\ DOMAIN t = 1..(Len(s) + 1) /\ SameLink(t[Len(s) + 1], l)
  /\ \A x \in 1..Len(s) : SameLink(t[x], s[x])

ThisLink == [link |-> entry.path, target |-> entry.target, layer |-> cur]

Free ==
  /\ entry.kind \in AddKinds /\ entry.path # Root /\ entry.path \notin emitted
  /\ ~missed' => ~CoveredBy(entry.path, cur)

LEMMA LinksStay ==
  ASSUME NEW s, NEW t, NEW l, Len(s) \in Nat, DOMAIN s = 1..Len(s),
         SameLinks(t, s) \/ AddsLink(t, s, l)
  PROVE  \A x \in DOMAIN s : x \in DOMAIN t /\ SameLink(t[x], s[x])
BY DEF SameLinks, AddsLink

LEMMA PassKeepsWait ==
  ASSUME TrieInv, BuilderInv, OutputInv, SeenInv, WaitInv, Reading, NextEntry,
         UNCHANGED <<builder, phase, left>>, missed => missed',
         recorded \subseteq recorded', \A r \in recorded' : r \in recorded \/ r[2] = cur,
         emitted' = emitted \/ (emitted' = emitted \cup {entry.path} /\ Free),
         \/ SameLinks(deferred', deferred) /\ SameLinks(promotions', promotions)
         \/ /\ Free /\ entry.kind = "link" /\ emitted' = emitted
            /\ <<entry.path, cur>> \in recorded'
            /\ \/ /\ AddsLink(deferred', deferred, ThisLink)
                  /\ SameLinks(promotions', promotions)
                  /\ ~missed' => ~CoveredBy(entry.target, cur)
               \/ /\ AddsLink(promotions', promotions, ThisLink)
                  /\ SameLinks(deferred', deferred),
         ~missed' /\ entry.kind = "link" =>
           \/ CoveredBy(entry.path, cur)
           \/ entry.path \in emitted
           \/ AddsLink(deferred', deferred, ThisLink)
           \/ AddsLink(promotions', promotions, ThisLink)
  PROVE  WaitInv'
<1>1. /\ left \in DOMAIN image /\ pos \in DOMAIN image[left] /\ entry = image[left][pos]
      /\ cur = left - 1 /\ left \in Nat /\ image' = image /\ phase = "layers"
      /\ phase' = phase /\ left' = left
  BY EntryParts, ImageParts DEF builder, Reading
<1> SUFFICES ASSUME Reproducible'
             PROVE
    /\ \A l \in ToSet(deferred') : Pending(l)' /\ ~CoveredBy(l.target, l.layer)'
    /\ \A l \in ToSet(promotions') : Pending(l)'
    /\ Apart'
    /\ \A i \in DOMAIN image : \A k \in DOMAIN image[i] :
         Done(i, k)' /\ image[i][k].kind = "link" => Met(i, k)'
  BY <1>1 DEF WaitInv
<1>2. Reproducible /\ ~missed /\ ~missed'
  BY <1>1, ReproducibleBefore DEF Reproducible
<1>3. /\ \A l \in ToSet(deferred) : Pending(l) /\ ~CoveredBy(l.target, l.layer)
      /\ \A l \in ToSet(promotions) : Pending(l)
      /\ Apart
      /\ \A i \in DOMAIN image : \A k \in DOMAIN image[i] :
           Done(i, k) /\ image[i][k].kind = "link" => Met(i, k)
  BY <1>1, <1>2 DEF WaitInv
<1>4. GoesOn
  BY <1>1, PassGoesOn
<1>5. Free => entry.path \in Paths /\ ~CoveredBy(entry.path, cur) /\ entry.path \notin emitted
  BY <1>2, EntryParts DEF Free, Nodes
<1>6. ASSUME Free, NEW l, Pending(l) PROVE l.link # entry.path
  BY <1>5, <1>6, PathIsFree DEF Free
<1>7. ASSUME NEW l, Pending(l) PROVE Pending(l)'
  <2>1. l.link \notin emitted
    BY <1>7 DEF Pending
  <2>2. l.link \notin emitted'
    BY <1>6, <1>7, <2>1
  <2> QED BY <1>4, <1>7, <2>2, PendingStays
<1>8. \A l, m : SameLink(m, l) /\ Pending(l)' => Pending(m)'
  BY DEF SameLink, Pending, Asks
<1>9. ASSUME NEW l, SameLink(l, ThisLink), Free, entry.kind = "link", emitted' = emitted,
             <<entry.path, cur>> \in recorded'
      PROVE  Pending(l)'
  <2>1. l.link = entry.path /\ l.target = entry.target /\ l.layer = cur
    BY <1>9 DEF SameLink, ThisLink
  <2>2. PICK n \in DOMAIN image : n = left
    BY <1>1
  <2>3. PICK k \in DOMAIN image[n] : k = pos
    BY <1>1, <2>2
  <2>4. Up(left, entry.path)
    BY <1>2, <1>5, <1>9, PathIsUp
  <2>5. Up(n, l.link)
    BY <2>1, <2>2, <2>4
  <2>6. Up(n, l.link)'
    BY <1>1, <1>4, <2>2, <2>5, UpStays
  <2>7. Done(n, k)'
    BY <1>1, <2>2, <2>3, DoneNext
  <2>8. Asks(l, n, k)'
    BY <1>1, <1>9, <2>1, <2>2, <2>3 DEF Asks
  <2> QED BY <1>1, <1>5, <1>9, <2>1, <2>6, <2>7, <2>8 DEF Pending
<1>10. /\ DOMAIN deferred = 1..Len(deferred) /\ Len(deferred) \in Nat
       /\ DOMAIN promotions = 1..Len(promotions) /\ Len(promotions) \in Nat
  BY LenProperties DEF OutputInv
<1> DEFINE d == Len(deferred)
           p == Len(promotions)
<1>11. \A x \in DOMAIN deferred' :
         \/ x \in 1..d /\ SameLink(deferred'[x], deferred[x])
         \/ /\ x = d + 1 /\ SameLink(deferred'[x], ThisLink) /\ AddsLink(deferred', deferred, ThisLink)
            /\ ~SameLinks(deferred', deferred)
  <2>1. CASE SameLinks(deferred', deferred)
    BY <1>10, <2>1 DEF SameLinks
  <2>2. CASE AddsLink(deferred', deferred, ThisLink) /\ ~SameLinks(deferred', deferred)
    BY <1>10, <2>2 DEF AddsLink
  <2> QED BY <2>1, <2>2
<1>12. \A x \in DOMAIN promotions' :
         \/ x \in 1..p /\ SameLink(promotions'[x], promotions[x])
         \/ /\ x = p + 1 /\ SameLink(promotions'[x], ThisLink)
            /\ AddsLink(promotions', promotions, ThisLink)
            /\ ~SameLinks(promotions', promotions)
  <2>1. CASE SameLinks(promotions', promotions)
    BY <1>10, <2>1 DEF SameLinks
  <2>2. CASE AddsLink(promotions', promotions, ThisLink) /\ ~SameLinks(promotions', promotions)
    BY <1>10, <2>2 DEF AddsLink
  <2> QED BY <2>1, <2>2
<1>13. ASSUME NEW l \in ToSet(deferred') PROVE Pending(l)' /\ ~CoveredBy(l.target, l.layer)'
  <2>1. PICK x \in DOMAIN deferred' : l = deferred'[x]
    BY <1>13 DEF ToSet
  <2>2. CASE x \in 1..d /\ SameLink(l, deferred[x])
    <3>1. PICK m \in ToSet(deferred) : m = deferred[x]
      BY <1>10, <2>2 DEF ToSet
    <3>2. Pending(m) /\ ~CoveredBy(m.target, m.layer) /\ SameLink(l, m)
      BY <1>3, <2>2, <3>1
    <3>3. PICK n \in DOMAIN image : m.layer = n - 1 /\ left <= n
      BY <3>2, DoneHere DEF Pending, Asks
    <3>4. ~CoveredBy(m.target, n - 1)'
      BY <1>4, <3>2, <3>3 DEF GoesOn
    <3>5. ~CoveredBy(l.target, l.layer)'
      BY <3>2, <3>3, <3>4 DEF SameLink, CoveredBy
    <3> QED BY <1>7, <1>8, <3>2, <3>5
  <2>3. CASE x = d + 1 /\ SameLink(l, ThisLink) /\ ~SameLinks(deferred', deferred)
    <3>1. Free /\ entry.kind = "link" /\ emitted' = emitted /\ <<entry.path, cur>> \in recorded'
          /\ ~CoveredBy(entry.target, cur)
      BY <1>2, <2>3
    <3>2. l.target = entry.target /\ l.layer = left - 1
      BY <1>1, <2>3 DEF SameLink, ThisLink
    <3>3. ~CoveredBy(l.target, left - 1)
      BY <1>1, <3>1, <3>2
    <3>4. PICK n \in DOMAIN image : n = left
      BY <1>1
    <3>5. ~CoveredBy(l.target, n - 1)'
      BY <1>1, <1>4, <3>3, <3>4 DEF GoesOn
    <3>6. ~CoveredBy(l.target, l.layer)'
      BY <3>2, <3>4, <3>5 DEF CoveredBy
    <3> QED BY <1>9, <2>3, <3>1, <3>6
  <2> QED BY <1>11, <2>1, <2>2, <2>3
<1>14. ASSUME NEW l \in ToSet(promotions') PROVE Pending(l)'
  <2>1. PICK x \in DOMAIN promotions' : l = promotions'[x]
    BY <1>14 DEF ToSet
  <2>2. CASE x \in 1..p /\ SameLink(l, promotions[x])
    <3>1. PICK m \in ToSet(promotions) : m = promotions[x]
      BY <1>10, <2>2 DEF ToSet
    <3> QED BY <1>3, <1>7, <1>8, <2>2, <3>1
  <2>3. CASE x = p + 1 /\ SameLink(l, ThisLink) /\ ~SameLinks(promotions', promotions)
    <3>1. Free /\ entry.kind = "link" /\ emitted' = emitted /\ <<entry.path, cur>> \in recorded'
      BY <2>3
    <3> QED BY <1>9, <2>3, <3>1
  <2> QED BY <1>12, <2>1, <2>2, <2>3
<1>15. Apart'
  <2>1. /\ Free => \A x \in 1..d : deferred[x].link # entry.path
        /\ Free => \A x \in 1..p : promotions[x].link # entry.path
    BY <1>3, <1>6, <1>10 DEF ToSet
  <2>2. /\ ~SameLinks(deferred', deferred) => Free /\ SameLinks(promotions', promotions)
        /\ ~SameLinks(promotions', promotions) => Free
    OBVIOUS
  <2>3. \A x \in DOMAIN deferred' :
          \/ x \in 1..d /\ deferred'[x].link = deferred[x].link
          \/ x = d + 1 /\ deferred'[x].link = entry.path /\ ~SameLinks(deferred', deferred)
    BY <1>11 DEF SameLink, ThisLink
  <2>4. \A x \in DOMAIN promotions' :
          \/ x \in 1..p /\ promotions'[x].link = promotions[x].link
          \/ x = p + 1 /\ promotions'[x].link = entry.path /\ ~SameLinks(promotions', promotions)
    BY <1>12 DEF SameLink, ThisLink
  <2>5. /\ \A x, y \in 1..d : deferred[x].link = deferred[y].link => x = y
        /\ \A x, y \in 1..p : promotions[x].link = promotions[y].link => x = y
        /\ \A x \in 1..d, y \in 1..p : deferred[x].link # promotions[y].link
    BY <1>3, <1>10 DEF Apart
  <2> HIDE DEF d, p
  <2>6. \A x, y \in DOMAIN deferred' : deferred'[x].link = deferred'[y].link => x = y
    BY <2>1, <2>2, <2>3, <2>5
  <2>7. \A x, y \in DOMAIN promotions' : promotions'[x].link = promotions'[y].link => x = y
    BY <2>1, <2>2, <2>4, <2>5
  <2>8. \A x \in DOMAIN deferred', y \in DOMAIN promotions' :
          deferred'[x].link # promotions'[y].link
    BY <2>1, <2>2, <2>3, <2>4, <2>5
  <2> QED BY <2>6, <2>7, <2>8 DEF Apart
<1>16. ASSUME NEW i \in DOMAIN image, NEW k \in DOMAIN image[i], Done(i, k)',
              image[i][k].kind = "link"
       PROVE  Met(i, k)'
  <2>1. /\ \A l \in ToSet(deferred) : \E m \in ToSet(deferred') : SameLink(m, l)
        /\ \A l \in ToSet(promotions) : \E m \in ToSet(promotions') : SameLink(m, l)
    <3>1. /\ \A x \in 1..d : x \in DOMAIN deferred' /\ SameLink(deferred'[x], deferred[x])
          /\ \A x \in 1..p : x \in DOMAIN promotions' /\ SameLink(promotions'[x], promotions[x])
      <4>1. /\ SameLinks(deferred', deferred) \/ AddsLink(deferred', deferred, ThisLink)
            /\ SameLinks(promotions', promotions) \/ AddsLink(promotions', promotions, ThisLink)
        OBVIOUS
      <4>2. \A x \in DOMAIN deferred : x \in DOMAIN deferred' /\ SameLink(deferred'[x], deferred[x])
        BY ONLY <1>10, <4>1, LinksStay
      <4>3. \A x \in DOMAIN promotions :
              x \in DOMAIN promotions' /\ SameLink(promotions'[x], promotions[x])
        BY ONLY <1>10, <4>1, LinksStay
      <4> QED BY <1>10, <4>2, <4>3
    <3> QED BY <1>10, <3>1 DEF ToSet
  <2>2. Done(i, k) \/ (i = left /\ k = pos)
    BY <1>1, <1>16, DoneNext
  <2>3. CASE Done(i, k)
    <3>1. Met(i, k)
      BY <1>3, <1>16, <2>3
    <3>2. emitted \subseteq emitted'
      OBVIOUS
    <3> QED BY <1>1, <2>1, <3>1, <3>2 DEF Met, CoveredBy, SameLink
  <2>4. CASE i = left /\ k = pos
    <3>1. image[i][k] = entry /\ i - 1 = cur
      BY <1>1, <2>4
    <3>2. CASE CoveredBy(entry.path, cur)
      BY <1>1, <3>1, <3>2 DEF Met, CoveredBy
    <3>3. CASE entry.path \in emitted
      BY <1>1, <3>1, <3>3 DEF Met
    <3>4. CASE AddsLink(deferred', deferred, ThisLink)
      <4>1. d + 1 \in DOMAIN deferred' /\ SameLink(deferred'[d + 1], ThisLink)
        BY <1>10, <3>4 DEF AddsLink
      <4>2. \E l \in ToSet(deferred') : l.link = entry.path /\ l.layer = cur
        BY <4>1 DEF ToSet, SameLink, ThisLink
      <4> QED BY <1>1, <3>1, <4>2 DEF Met
    <3>5. CASE AddsLink(promotions', promotions, ThisLink)
      <4>1. p + 1 \in DOMAIN promotions' /\ SameLink(promotions'[p + 1], ThisLink)
        BY <1>10, <3>5 DEF AddsLink
      <4>2. \E l \in ToSet(promotions') : l.link = entry.path /\ l.layer = cur
        BY <4>1 DEF ToSet, SameLink, ThisLink
      <4> QED BY <1>1, <3>1, <4>2 DEF Met
    <3> QED BY <1>2, <1>16, <3>1, <3>2, <3>3, <3>4, <3>5
  <2> QED BY <2>2, <2>3, <2>4
<1> QED BY <1>13, <1>14, <1>15, <1>16

----------------------------------------------------------------------------
(* The files that links are to. *)

(* Entry m of layer i gave a link of layer n its content. *)
Gives(i, m, n, k) ==
  LET e == image[n][k]
      s == image[i][m] IN
  /\ s.kind \in {"file", "other"} /\ s.path = e.target
  /\ s.id = <<i - 1, e.target>> /\ e.id = <<i - 1, e.target>>
  /\ \A j \in (i + 1)..n : ~HoldsAdd(image, j, e.target)

LEMMA LinkHasGiver ==
  ASSUME TrieInv, BuilderInv, ~LinkToLink,
         NEW n \in DOMAIN image, NEW k \in DOMAIN image[n], image[n][k].kind = "link"
  PROVE  /\ image[n][k].target \in Paths
         /\ \E i \in 1..n : i \in DOMAIN image /\ \E m \in DOMAIN image[i] : Gives(i, m, n, k)
<1> DEFINE e == image[n][k]
<1>1. e.target \in Paths /\ \E i \in 1..n : \E m \in DOMAIN image[i] :
        Gave(image, i, m, e.target, e.id, n)
  BY DEF BuilderInv
<1>2. PICK i \in 1..n : \E m \in DOMAIN image[i] : Gave(image, i, m, e.target, e.id, n)
  BY <1>1
<1>3. PICK m \in DOMAIN image[i] : Gave(image, i, m, e.target, e.id, n)
  BY <1>2
<1>4. i \in DOMAIN image
  <2>1. n \in 1..Len(image) /\ Len(image) \in Nat /\ DOMAIN image = 1..Len(image)
    BY ImageParts
  <2> QED BY <1>2, <2>1
<1> DEFINE s == image[i][m]
<1>5. s.kind \in NonDirKinds /\ s.path = e.target /\ s.id = e.id
      /\ \A j \in (i + 1)..n : ~HoldsAdd(image, j, e.target)
  BY <1>3 DEF Gave
<1>6. s.kind # "link"
  <2>1. ASSUME s.kind = "link" PROVE FALSE
    <3>1. s \in ImageLinks /\ e \in ImageLinks
      BY <1>4, <2>1 DEF ImageLinks, LinksOf
    <3> HIDE DEF s, e
    <3> QED BY <1>5, <3>1 DEF LinkToLink
  <2> QED BY <2>1
<1>7. s.id = <<i - 1, e.target>>
  BY <1>4, <1>5, <1>6 DEF BuilderInv
<1>8. Gives(i, m, n, k)
  BY <1>5, <1>6, <1>7 DEF Gives, NonDirKinds
<1> QED BY <1>1, <1>4, <1>8

(* A target that nothing newer than its link hides is what the link was    *)
(* made to.                                                                *)
LEMMA TargetIsUp ==
  ASSUME TrieInv, BuilderInv, LiveInv, SeenInv, phase # "build", ~missed,
         ~BareOpaque, ~FileBecomesDir,
         NEW n \in DOMAIN image, NEW k \in DOMAIN image[n], image[n][k].kind = "link", left <= n,
         NEW i \in 1..n, i \in DOMAIN image, NEW m \in DOMAIN image[i], Gives(i, m, n, k),
         NEW t \in Paths, t = image[n][k].target, ~CoveredBy(t, n - 1)
  PROVE  Up(i, t)
<1>1. /\ image[i][m].kind \in {"file", "other"} /\ image[i][m].path = t
      /\ \A j \in (i + 1)..n : ~HoldsAdd(image, j, t)
  BY DEF Gives
<1>2. HoldsAdd(image, i, t) /\ \E kind \in NonDirKinds : Has(i, kind, t)
  BY <1>1 DEF HoldsAdd, Adds, Has, AddKinds, NonDirKinds
<1>3. n \in 1..Len(image) /\ Len(image) \in Nat /\ DOMAIN image = 1..Len(image)
      /\ i \in Int /\ n \in Int /\ left \in Int
  BY ImageParts
<1>4. Newest(image, i, t, n)
  BY <1>1, <1>2 DEF LiveInv, TargetsKept
<1>5. \A r \in recorded : r[2] \in Int
  BY DEF TrieInv, RecordedNewer
<1>6. ~CoveredBy(t, i - 1)
  <2>1. ASSUME CoveredBy(t, i - 1) PROVE FALSE
    <3>1. PICK r \in recorded : Covers(r[1], t) /\ i - 1 < r[2]
      BY <2>1 DEF CoveredBy
    <3>2. r[2] < n
      BY <1>3, <1>5, <3>1 DEF CoveredBy
    <3> QED BY <1>3, <1>4, <3>1, <3>2, NewestIsUncovered
  <2> QED BY <2>1
<1>7. ASSUME NEW j \in (n + 1)..Len(image), HoldsAdd(image, j, t) PROVE FALSE
  <2>1. j \in DOMAIN image /\ left < j /\ j \in Int /\ n - 1 < j - 1
    BY <1>3
  <2>2. PICK h \in DOMAIN image[j] : Adds(image, j, h, t)
    BY <1>7 DEF HoldsAdd
  <2>3. \A r \in recorded : Covers(r[1], t) => ~(j - 1 <= r[2])
    <3>1. \A r \in recorded : Covers(r[1], t) => ~(n - 1 < r[2])
      BY DEF CoveredBy
    <3> QED BY <1>3, <1>5, <2>1, <3>1
  <2>4. t # Root /\ Covers(t, t) /\ t \in Nodes
    BY SelfCovers DEF Nodes
  <2>5. image[j][h].path = t /\ image[j][h].kind \in AddKinds /\ Done(j, h)
    BY <2>1, <2>2, DoneHere DEF Adds
  <2>6. PICK q \in DOMAIN image : \E z \in DOMAIN image[q] :
          image[q][z].kind = "dir" /\ image[q][z].path = t /\ j <= q
    BY <2>1, <2>3, <2>4, <2>5, WrittenOrCovered
  <2>7. Has(q, "dir", t) /\ j <= q /\ q \in Int
    <3>1. Has(q, "dir", t) /\ j <= q
      BY <2>6 DEF Has
    <3>2. q \in Int
      BY <2>6, ImageParts
    <3> QED BY <3>1, <3>2
  <2>8. i < q
    BY <1>3, <2>1, <2>7
  <2>9. PICK g \in (i + 1)..q : \E z \in Paths : Covers(z, t) /\ Has(g, "whiteout", z)
    BY <1>2, <2>7, <2>8 DEF FileBecomesDir
  <2>10. PICK z \in Paths : Covers(z, t) /\ Has(g, "whiteout", z)
    BY <2>9
  <2>11. g \in DOMAIN image /\ g \in Int
    <3>1. q \in 1..Len(image)
      BY <1>3, <2>6
    <3> QED BY <1>3, <2>9, <3>1
  <2>12. PICK y \in DOMAIN image[g] : image[g][y].kind = "whiteout" /\ image[g][y].path = z
    BY <2>10 DEF Has
  <2>13. CASE g <= n
    <3>1. Removes(image, g, t)
      BY <2>10, <2>11, <2>12 DEF Removes
    <3>2. g \in (i + 1)..n
      BY <1>3, <2>9, <2>11, <2>13
    <3> QED BY <1>4, <3>1, <3>2 DEF Newest
  <2>14. CASE ~(g <= n)
    <3>1. left < g /\ n - 1 < g - 1
      BY <1>3, <2>11, <2>14
    <3>2. <<z, g - 1>> \in recorded
      BY <2>11, <2>12, <3>1, DoneHere DEF SeenInv, Accounted
    <3>3. PICK r \in recorded : r[1] = z /\ r[2] = g - 1
      BY <3>2
    <3>4. Covers(r[1], t) /\ n - 1 < r[2]
      BY <2>10, <3>1, <3>3
    <3> QED BY <3>4 DEF CoveredBy
  <2> QED BY <2>13, <2>14
<1>8. \A j \in (i + 1)..Len(image) : j \in (i + 1)..n \/ j \in (n + 1)..Len(image)
  BY <1>3
<1> QED BY <1>1, <1>6, <1>7, <1>8 DEF Up

(* When every layer was read, such a target was written. *)
LEMMA TargetIsWritten ==
  ASSUME TrieInv, BuilderInv, LiveInv, SeenInv, phase # "build", Reproducible, left = 0,
         NEW n \in DOMAIN image, NEW k \in DOMAIN image[n], image[n][k].kind = "link",
         NEW t \in Paths, t = image[n][k].target, ~CoveredBy(t, n - 1)
  PROVE  /\ t \in emitted
         /\ \E x \in DOMAIN out : Own(out[x]) /\ out[x].path = t /\ out[x].id = image[n][k].id
<1>1. ~missed /\ ~BareOpaque /\ ~FileBecomesDir /\ ~LinkToLink
  BY DEF Reproducible
<1>2. \A j \in DOMAIN image : left < j /\ left <= j /\ j \in 1..Len(image) /\ j \in Int
  BY ImageParts
<1>3. PICK i \in 1..n : i \in DOMAIN image /\ \E m \in DOMAIN image[i] : Gives(i, m, n, k)
  BY <1>1, LinkHasGiver
<1>4. PICK m \in DOMAIN image[i] : Gives(i, m, n, k)
  BY <1>3
<1>5. Up(i, t)
  BY <1>1, <1>2, <1>3, <1>4, TargetIsUp
<1>6. /\ image[i][m].kind \in {"file", "other"} /\ image[i][m].path = t
      /\ image[n][k].id = <<i - 1, t>>
  BY <1>4 DEF Gives
<1>7. t \in OwnPaths
  <2>1. Accounted(i, m)
    BY <1>1, <1>2, <1>3, DoneHere DEF SeenInv
  <2> QED BY <1>5, <1>6, <2>1 DEF Accounted, Up, AddKinds, NonDirKinds
<1>8. PICK x \in DOMAIN out : Own(out[x]) /\ out[x].path = t
  BY <1>7 DEF OwnPaths
<1>9. PICK j \in DOMAIN image : \E h \in DOMAIN image[j] : Stems(out[x], j, h)
  BY <1>1, <1>8 DEF SeenInv
<1>10. PICK h \in DOMAIN image[j] : Stems(out[x], j, h)
  BY <1>9
<1>11. /\ image[j][h].kind \in {"dir", "file", "other"} /\ image[j][h].path = t
       /\ out[x].id = <<j - 1, t>> /\ Up(j, t)
  BY <1>8, <1>10 DEF Stems, Written
<1>12. i = j
  <2>1. HoldsAdd(image, i, t) /\ HoldsAdd(image, j, t)
    BY <1>6, <1>11 DEF HoldsAdd, Adds, AddKinds, NonDirKinds
  <2>2. ~(i \in (j + 1)..Len(image)) /\ ~(j \in (i + 1)..Len(image))
    BY <1>5, <1>11, <2>1 DEF Up
  <2>3. i \in 1..Len(image) /\ j \in 1..Len(image) /\ Len(image) \in Nat
    BY <1>2, <1>3, ImageParts
  <2> QED BY <2>2, <2>3
<1> QED BY <1>1, <1>6, <1>7, <1>8, <1>11, <1>12 DEF SeenInv

(* And a target that is hidden is a file, whose content the promotion has. *)
LEMMA HiddenIsFile ==
  ASSUME TrieInv, BuilderInv, PromotionInv, OutputInv, Reproducible, left = 0,
         NEW x \in DOMAIN promotions, NEW l, l = promotions[x],
         NEW n \in DOMAIN image, NEW k \in DOMAIN image[n], Asks(l, n, k)
  PROVE  /\ l.data # NoData /\ l.data = image[n][k].id
         /\ \E j \in DOMAIN image : l.data = <<j - 1, l.target>> /\ HoldsFile(image, j, l.target)
         /\ CoveredBy(l.data[2], l.data[1]) /\ l.data[2] = l.target
<1>1. ~missed /\ ~LinkToLink /\ ~HiddenSpecial
  BY DEF Reproducible
<1> DEFINE e == image[n][k]
           t == l.target
<1>2. e.kind = "link" /\ e.path = l.link /\ e.target = t /\ l.layer = n - 1 /\ n = l.layer + 1
      /\ n \in Int
  BY ImageParts DEF Asks
<1>3. Kept(l, image, left, pos, recorded)
  BY <1>1 DEF PromotionInv
<1>4. PICK i \in 1..n : i \in DOMAIN image /\ \E m \in DOMAIN image[i] : Gives(i, m, n, k)
  BY <1>1, <1>2, LinkHasGiver
<1>5. PICK m \in DOMAIN image[i] : Gives(i, m, n, k)
  BY <1>4
<1>6. /\ image[i][m].kind \in {"file", "other"} /\ image[i][m].path = t
      /\ e.id = <<i - 1, t>> /\ \A j \in (i + 1)..n : ~HoldsAdd(image, j, t)
  BY <1>2, <1>5 DEF Gives
<1>7. i \in Int /\ i >= 1 /\ i <= n
  BY <1>2, <1>4, ImageParts
<1>8. PICK r \in recorded : Covers(r[1], t) /\ l.layer < r[2]
  BY <1>3 DEF Kept
<1>9. r[2] \in Int /\ n - 1 < r[2] /\ i - 1 < r[2]
  BY <1>2, <1>7, <1>8 DEF TrieInv, RecordedNewer
<1>10. image[i][m].kind = "file"
  <2>1. ASSUME image[i][m].kind = "other" PROVE FALSE
    <3>1. e.id[1] + 1 = i /\ e.id[2] = t
      BY <1>6, <1>7
    <3>2. Has(e.id[1] + 1, "other", e.id[2])
      BY <1>6, <2>1, <3>1 DEF Has
    <3>3. CoveredBy(e.target, n - 1) /\ e \in LinksOf(n)
      BY <1>2, <1>8, <1>9 DEF CoveredBy, LinksOf
    <3> QED BY <1>1, <3>2, <3>3 DEF HiddenSpecial
  <2> QED BY <1>6, <2>1
<1>11. FileAt(image, i, m, t) /\ HoldsFile(image, i, t)
  BY <1>6, <1>10 DEF FileAt, HoldsFile
<1>12. l.data # NoData
  <2>1. ASSUME l.data = NoData PROVE FALSE
    <3>1. Ahead(i, m, left, pos)
      <4>1. \A j : l.data # <<j - 1, t>>
        BY <2>1 DEF NoData
      <4> QED BY <1>2, <1>3, <1>4, <1>11, <4>1 DEF Kept
    <3> QED BY <1>7, <3>1 DEF Ahead
  <2> QED BY <2>1
<1>13. PICK j \in 1..n : /\ l.data = <<j - 1, t>> /\ HoldsFile(image, j, t)
                         /\ \A h \in (j + 1)..n : ~HoldsFile(image, h, t)
  BY <1>2, <1>3, <1>12 DEF Kept
<1>14. i = j
  <2>1. HoldsAdd(image, j, t)
    BY <1>13 DEF HoldsFile, FileAt, HoldsAdd, Adds, AddKinds, NonDirKinds
  <2>2. ~(j \in (i + 1)..n) /\ ~(i \in (j + 1)..n)
    BY <1>6, <1>11, <1>13, <2>1
  <2> QED BY <1>2, <1>7, <1>13, <2>2
<1>15. CoveredBy(t, i - 1) /\ l.data[1] = i - 1 /\ l.data[2] = t
  BY <1>8, <1>9, <1>13, <1>14 DEF CoveredBy
<1> QED BY <1>4, <1>6, <1>12, <1>13, <1>14, <1>15

----------------------------------------------------------------------------
(* Lists that lose some of what they hold. *)

(* t has entries of s, each once. *)
Injects(t, s, g) ==
  /\ g \in [DOMAIN t -> DOMAIN s]
  /\ \A k \in DOMAIN t : t[k] = s[g[k]]
  /\ \A j, k \in DOMAIN t : g[j] = g[k] => j = k

LEMMA Pigeon ==
  ASSUME NEW m \in Nat, NEW U, IsFiniteSet(U), Cardinality(U) < m, NEW f \in [1..m -> U]
  PROVE \E j, k \in 1..m : j # k /\ f[j] = f[k]
<1>1. IsFiniteSet(1..m) /\ Cardinality(1..m) = m
  BY FS_Interval
<1> QED BY <1>1, FS_PigeonHole

LEMMA ListsAll ==
  ASSUME NEW S, IsFiniteSet(S), NEW m \in Nat, m = Cardinality(S),
         NEW f \in [1..m -> S], \A j, k \in 1..m : j < k => f[j] # f[k], NEW x \in S
  PROVE  \E k \in 1..m : f[k] = x
<1>1. ASSUME \A k \in 1..m : f[k] # x PROVE FALSE
  <2>1. IsFiniteSet(S \ {x}) /\ Cardinality(S \ {x}) < m
    <3>1. IsFiniteSet(S \ {x}) /\ Cardinality(S \ {x}) = Cardinality(S) - 1
      BY FS_RemoveElement
    <3> QED BY <3>1
  <2>2. f \in [1..m -> S \ {x}]
    BY <1>1
  <2>3. PICK j, k \in 1..m : j # k /\ f[j] = f[k]
    BY <2>1, <2>2, Pigeon
  <2> QED BY <2>3
<1> QED BY <1>1

(* A sorted list holds what the list held. *)
LEMMA SortedIsAll ==
  ASSUME NEW T, NEW s \in Seq(T), \A x \in DOMAIN s : s[x].layer \in Nat, NEW t \in ByLayer(s)
  PROVE  (\E g : Injects(t, s, g)) /\ ToSet(t) = ToSet(s)
<1> DEFINE S == DOMAIN s
           m == Cardinality(S)
<1>1. PICK f \in [1..m -> S] :
        /\ t = Picked(s, f)
        /\ \A j, k \in 1..m : j < k => \/ s[f[j]].layer < s[f[k]].layer
                                       \/ s[f[j]].layer = s[f[k]].layer /\ f[j] < f[k]
  BY DEF ByLayer, Listings
<1>2. DOMAIN s = 1..Len(s) /\ Len(s) \in Nat
  BY LenProperties
<1>3. /\ m \in Nat /\ DOMAIN t = 1..m
      /\ \A k \in 1..m : f[k] \in S /\ t[k] = s[f[k]]
  BY <1>1, SelectionOf
<1>4. IsFiniteSet(S)
  BY <1>2, FS_Interval
<1>5. \A j, k \in 1..m : j < k => f[j] # f[k]
  <2>1. \A x \in S : x \in Int /\ s[x].layer \in Int
    BY <1>2
  <2> HIDE DEF S, m
  <2> QED BY <1>1, <1>3, <2>1
<1>6. \A x \in S : \E k \in 1..m : f[k] = x
  <2>1. f \in [1..m -> S] /\ m \in Nat /\ m = Cardinality(S) /\ IsFiniteSet(S)
    BY <1>3, <1>4
  <2>2. \A j, k \in 1..m : j < k => f[j] # f[k]
    BY <1>5
  <2> HIDE DEF S, m
  <2>3. ASSUME NEW x \in S PROVE \E k \in 1..m : f[k] = x
    BY ONLY <2>1, <2>2, <2>3, ListsAll
  <2> QED BY <2>3
<1> HIDE DEF m, S
<1>7. \A j, k \in 1..m : f[j] = f[k] => j = k
  BY <1>3, <1>5
<1>8. Injects(t, s, f)
  BY <1>3, <1>7 DEF Injects, S
<1>9. ToSet(t) = ToSet(s)
  <2>1. \A x \in ToSet(t) : x \in ToSet(s)
    BY <1>3 DEF ToSet, S
  <2>2. \A x \in ToSet(s) : x \in ToSet(t)
    <3>1. ASSUME NEW x \in ToSet(s) PROVE x \in ToSet(t)
      <4>1. PICK y \in S : x = s[y]
        BY <3>1 DEF ToSet, S
      <4>2. PICK k \in 1..m : f[k] = y
        BY <1>6
      <4> QED BY <1>3, <4>1, <4>2 DEF ToSet
    <3> QED BY <3>1
  <2> QED BY <2>1, <2>2
<1> QED BY <1>8, <1>9

(* Without a group, the promotions are all the others. *)
LEMMA UngroupedIsRest ==
  ASSUME NEW T, promotions \in Seq(T), NEW target, NEW t \in Ungrouped(target)
  PROVE  /\ \E g : Injects(t, promotions, g)
         /\ ToSet(t) = {promotions[x] : x \in DOMAIN promotions \ Group(target)}
<1> DEFINE S == DOMAIN promotions \ Group(target)
           m == Cardinality(S)
<1>1. PICK f \in [1..m -> S] :
        /\ t = Picked(promotions, f)
        /\ \A j, k \in 1..m : j < k => f[j] < f[k]
  BY DEF Ungrouped, InOrder, Listings
<1>2. DOMAIN promotions = 1..Len(promotions) /\ Len(promotions) \in Nat
      /\ S \subseteq DOMAIN promotions
  BY LenProperties
<1>3. /\ m \in Nat /\ DOMAIN t = 1..m /\ IsFiniteSet(S)
      /\ \A k \in 1..m : f[k] \in S /\ t[k] = promotions[f[k]]
  <2> HIDE DEF S
  <2> QED BY <1>1, <1>2, SelectionOf
<1>4. \A j, k \in 1..m : j < k => f[j] # f[k]
  <2>1. \A x \in S : x \in Int
    BY <1>2
  <2> HIDE DEF S, m
  <2> QED BY <1>1, <1>3, <2>1
<1>5. \A x \in S : \E k \in 1..m : f[k] = x
  <2>1. f \in [1..m -> S] /\ m \in Nat /\ m = Cardinality(S) /\ IsFiniteSet(S)
    BY <1>3
  <2>2. \A j, k \in 1..m : j < k => f[j] # f[k]
    BY <1>4
  <2> HIDE DEF S, m
  <2> QED BY ONLY <2>1, <2>2, ListsAll
<1> HIDE DEF m, S
<1>6. \A j, k \in 1..m : f[j] = f[k] => j = k
  BY <1>3, <1>4
<1>7. Injects(t, promotions, f)
  BY <1>2, <1>3, <1>6 DEF Injects
<1>8. ToSet(t) = {promotions[x] : x \in S}
  <2>1. \A y \in ToSet(t) : y \in {promotions[x] : x \in S}
    BY <1>3 DEF ToSet
  <2>2. \A x \in S : promotions[x] \in ToSet(t)
    BY <1>3, <1>5 DEF ToSet
  <2> QED BY <2>1, <2>2
<1> QED BY <1>7, <1>8 DEF S

LEMMA InjectsItself ==
  ASSUME NEW T, NEW s \in Seq(T)
  PROVE  \E g : Injects(s, s, g)
<1> DEFINE g == [k \in DOMAIN s |-> k]
<1>1. Injects(s, s, g)
  BY DEF Injects
<1> QED BY <1>1

LEMMA TailInjects ==
  ASSUME NEW T, NEW s \in Seq(T), s # <<>>
  PROVE  /\ \E g : Injects(Tail(s), s, g)
         /\ ToSet(s) = ToSet(Tail(s)) \cup {Head(s)}
         /\ \A x \in DOMAIN s : s[x] = Head(s) \/ s[x] \in ToSet(Tail(s))
         /\ \A x \in DOMAIN Tail(s) : x + 1 \in DOMAIN s /\ x + 1 # 1 /\ Tail(s)[x] = s[x + 1]
         /\ 1 \in DOMAIN s /\ Head(s) = s[1]
<1> DEFINE t == Tail(s)
           n == Len(s)
           g == [k \in DOMAIN t |-> k + 1]
<1>1. /\ n \in Nat /\ n > 0 /\ DOMAIN s = 1..n /\ t \in Seq(T) /\ Len(t) = n - 1
      /\ DOMAIN t = 1..(n - 1) /\ \A x \in 1..(n - 1) : t[x] = s[x + 1]
      /\ Head(s) = s[1]
  BY EmptySeq, LenProperties, HeadTailProperties
<1> HIDE DEF t, n
<1>2. Injects(t, s, g)
  BY <1>1 DEF Injects
<1>3. \A x \in 1..n : x = 1 \/ (x - 1 \in 1..(n - 1) /\ t[x - 1] = s[x])
  BY <1>1
<1>4. \A x \in DOMAIN s : s[x] = Head(s) \/ s[x] \in ToSet(t)
  BY <1>1, <1>3 DEF ToSet
<1>5. \A x \in 1..(n - 1) : x + 1 \in 1..n /\ x + 1 # 1 /\ t[x] = s[x + 1]
  BY <1>1
<1>6. 1 \in 1..n
  BY <1>1
<1>7. ToSet(s) = ToSet(t) \cup {Head(s)}
  <2>1. \A y \in ToSet(s) : y \in ToSet(t) \cup {Head(s)}
    BY <1>4 DEF ToSet
  <2>2. \A y \in ToSet(t) \cup {Head(s)} : y \in ToSet(s)
    <3>1. ASSUME NEW y \in ToSet(t) PROVE y \in ToSet(s)
      <4>1. PICK x \in 1..(n - 1) : y = t[x]
        BY <1>1, <3>1 DEF ToSet
      <4> QED BY <1>1, <1>5, <4>1 DEF ToSet
    <3>2. Head(s) \in ToSet(s)
      BY <1>1, <1>6 DEF ToSet
    <3> QED BY <3>1, <3>2
  <2> QED BY <2>1, <2>2
<1> QED BY <1>1, <1>2, <1>4, <1>5, <1>6, <1>7 DEF t

(* After the layers, what waits becomes less and is written. *)
LEMMA RestKeepsWait ==
  ASSUME TrieInv, WaitInv, phase # "build", phase' # "build", GoesOn,
         UNCHANGED missed,
         \A i \in DOMAIN image : \A k \in DOMAIN image[i] : Done(i, k)' => Done(i, k),
         \E g : Injects(deferred', deferred, g), \E g : Injects(promotions', promotions, g),
         emitted \subseteq emitted',
         Reproducible => \A l \in ToSet(deferred') \cup ToSet(promotions') : l.link \notin emitted',
         Reproducible => \A l \in ToSet(deferred) \cup ToSet(promotions) :
           l.link \in emitted' \/ l \in ToSet(deferred') \cup ToSet(promotions')
  PROVE  WaitInv'
<1> SUFFICES ASSUME Reproducible'
             PROVE
    /\ \A l \in ToSet(deferred') : Pending(l)' /\ ~CoveredBy(l.target, l.layer)'
    /\ \A l \in ToSet(promotions') : Pending(l)'
    /\ Apart'
    /\ \A i \in DOMAIN image : \A k \in DOMAIN image[i] :
         Done(i, k)' /\ image[i][k].kind = "link" => Met(i, k)'
  BY DEF WaitInv, GoesOn
<1>1. Reproducible
  BY ReproducibleBefore DEF GoesOn
<1>2. /\ \A l \in ToSet(deferred) : Pending(l) /\ ~CoveredBy(l.target, l.layer)
      /\ \A l \in ToSet(promotions) : Pending(l)
      /\ Apart
      /\ \A i \in DOMAIN image : \A k \in DOMAIN image[i] :
           Done(i, k) /\ image[i][k].kind = "link" => Met(i, k)
  BY <1>1 DEF WaitInv
<1>3. PICK g : Injects(deferred', deferred, g)
  OBVIOUS
<1>4. PICK h : Injects(promotions', promotions, h)
  OBVIOUS
<1>5. ToSet(deferred') \subseteq ToSet(deferred) /\ ToSet(promotions') \subseteq ToSet(promotions)
  BY <1>3, <1>4 DEF Injects, ToSet
<1>6. \A l \in ToSet(deferred') \cup ToSet(promotions') : Pending(l)'
  BY <1>1, <1>2, <1>5, PendingStays
<1>7. ASSUME NEW l \in ToSet(deferred') PROVE ~CoveredBy(l.target, l.layer)'
  <2>1. Pending(l) /\ ~CoveredBy(l.target, l.layer)
    BY <1>2, <1>5
  <2>2. PICK n \in DOMAIN image : l.layer = n - 1 /\ left <= n
    BY <2>1, DoneHere DEF Pending, Asks
  <2>3. ~CoveredBy(l.target, n - 1)'
    BY <2>1, <2>2 DEF GoesOn
  <2> QED BY <2>2, <2>3 DEF CoveredBy
<1>8. Apart'
  <2>1. /\ \A x \in DOMAIN deferred' : g[x] \in DOMAIN deferred /\ deferred'[x] = deferred[g[x]]
        /\ \A x, y \in DOMAIN deferred' : g[x] = g[y] => x = y
    BY <1>3 DEF Injects
  <2>2. /\ \A x \in DOMAIN promotions' :
             h[x] \in DOMAIN promotions /\ promotions'[x] = promotions[h[x]]
        /\ \A x, y \in DOMAIN promotions' : h[x] = h[y] => x = y
    BY <1>4 DEF Injects
  <2> QED BY <1>2, <2>1, <2>2 DEF Apart
<1>9. ASSUME NEW i \in DOMAIN image, NEW k \in DOMAIN image[i], Done(i, k)',
             image[i][k].kind = "link"
      PROVE  Met(i, k)'
  <2>1. Met(i, k)
    BY <1>2, <1>9
  <2>2. CASE CoveredBy(image[i][k].path, i - 1) \/ image[i][k].path \in emitted
    BY <2>2 DEF Met, CoveredBy, GoesOn
  <2>3. CASE \E l \in ToSet(deferred) \cup ToSet(promotions) :
               l.link = image[i][k].path /\ l.layer = i - 1
    <3>1. PICK l \in ToSet(deferred) \cup ToSet(promotions) :
            l.link = image[i][k].path /\ l.layer = i - 1
      BY <2>3
    <3>2. l.link \in emitted' \/ l \in ToSet(deferred') \cup ToSet(promotions')
      BY <1>1, <3>1
    <3> QED BY <3>1, <3>2 DEF Met, GoesOn
  <2> QED BY <2>1, <2>2, <2>3 DEF Met
<1> QED BY <1>6, <1>7, <1>8, <1>9

LEMMA DoneLater ==
  ASSUME TrieInv, GoesOn, UNCHANGED <<left, pos>>
  PROVE  \A i \in DOMAIN image : \A k \in DOMAIN image[i] : Done(i, k)' => Done(i, k)
BY DEF GoesOn, Done

(* Under these conditions no link and no group is ever dropped. *)
LEMMA NoLinkDropped ==
  ASSUME IInv, LiveInv, StageInv, SeenInv, WaitInv, Reproducible, Linking
  PROVE  /\ Head(deferred).target \in emitted
         /\ \E n \in DOMAIN image : \E k \in DOMAIN image[n] :
              /\ Asks(Head(deferred), n, k) /\ Up(n, Head(deferred).link)
              /\ \E x \in DOMAIN out : /\ Own(out[x]) /\ out[x].path = Head(deferred).target
                                       /\ out[x].id = image[n][k].id
<1> USE DEF IInv
<1>1. PICK l \in ToSet(deferred) : l = Head(deferred)
  BY TailInjects DEF Linking, OutputInv
<1>2. phase = "link" /\ left = 0
  BY DEF Linking, StageInv
<1>3. Pending(l) /\ ~CoveredBy(l.target, l.layer)
  BY <1>1, <1>2 DEF WaitInv
<1>4. PICK n \in DOMAIN image : \E k \in DOMAIN image[n] : Asks(l, n, k) /\ Up(n, l.link)
  BY <1>3 DEF Pending
<1>5. PICK k \in DOMAIN image[n] : Asks(l, n, k) /\ Up(n, l.link)
  BY <1>4
<1>6. image[n][k].kind = "link" /\ image[n][k].target = l.target /\ l.layer = n - 1
  BY <1>5 DEF Asks
<1>7. l.target \in Paths
  BY <1>6 DEF BuilderInv
<1>8. /\ l.target \in emitted
      /\ \E x \in DOMAIN out : /\ Own(out[x]) /\ out[x].path = l.target
                               /\ out[x].id = image[n][k].id
  BY <1>2, <1>3, <1>6, <1>7, TargetIsWritten
<1> QED BY <1>1, <1>5, <1>8

LEMMA NoGroupDropped ==
  ASSUME IInv, StageInv, WaitInv, Reproducible, NEW t, Promoting(t)
  PROVE  Promotes(t)
<1> USE DEF IInv
<1>1. phase = "promote" /\ left = 0
  BY DEF Promoting, StageInv
<1>2. PICK x \in DOMAIN promotions : promotions[x].target = t
  BY DEF Promoting, Targets
<1>3. PICK l \in ToSet(promotions) : l = promotions[x]
  BY DEF ToSet
<1>4. Pending(l)
  BY <1>1 DEF WaitInv
<1>5. PICK n \in DOMAIN image : \E k \in DOMAIN image[n] : Asks(l, n, k)
  BY <1>4 DEF Pending
<1>6. PICK k \in DOMAIN image[n] : Asks(l, n, k)
  BY <1>5
<1>7. l.data # NoData
  BY <1>1, <1>3, <1>6, HiddenIsFile
<1>8. Usable(x) /\ x \in Group(t)
  BY <1>2, <1>3, <1>4, <1>7 DEF Usable, Pending, Group
<1> QED BY <1>8 DEF Promotes

LEMMA WaitStarts ==
  ASSUME TrieInv, BuilderInv, StageInv, StartMerge
  PROVE  WaitInv'
<1>1. /\ left' = Len(image) /\ pos' = 1 /\ image' = image
      /\ deferred' = <<>> /\ promotions' = <<>>
  BY DEF StartMerge, builder, trackers, BuilderInv, StageInv
<1>2. \A i \in DOMAIN image : \A k \in DOMAIN image[i] : ~Done(i, k)'
  <2>1. \A i \in DOMAIN image : \A k \in DOMAIN image[i] :
          i \in 1..Len(image) /\ k \in 1..Len(image[i]) /\ Len(image) \in Nat
    BY ImageParts
  <2> QED BY <1>1, <2>1 DEF Done, Ahead
<1>3. ToSet(deferred') = {} /\ ToSet(promotions') = {} /\ Apart'
  BY <1>1 DEF ToSet, Apart
<1> QED BY <1>1, <1>2, <1>3 DEF WaitInv

(* Steps that leave what waits alone. *)
LEMMA SameKeepsWait ==
  ASSUME TrieInv, OutputInv, WaitInv, phase # "build", phase' # "build", GoesOn,
         \A i \in DOMAIN image : \A k \in DOMAIN image[i] : Done(i, k)' => Done(i, k),
         UNCHANGED <<missed, emitted, deferred, promotions>>
  PROVE  WaitInv'
<1>1. (\E g : Injects(deferred', deferred, g)) /\ (\E g : Injects(promotions', promotions, g))
  BY InjectsItself DEF OutputInv
<1>2. Reproducible => \A l \in ToSet(deferred) \cup ToSet(promotions) : l.link \notin emitted
  BY DEF WaitInv, Pending
<1> QED BY <1>1, <1>2, RestKeepsWait

LEMMA SortingKeepsWait ==
  ASSUME TrieInv, OutputInv, WaitInv, DrainSorted
  PROVE  WaitInv'
<1>1. /\ phase # "build" /\ phase' # "build" /\ UNCHANGED <<image, left, pos, recorded, missed, emitted>>
      /\ deferred' \in ByLayer(deferred) /\ promotions' \in ByLayer(promotions)
  BY DEF DrainSorted, builder, history
<1>2. deferred \in Seq(Deferred) /\ \A x \in DOMAIN deferred : deferred[x].layer \in Nat
  <2>1. deferred \in Seq(Deferred)
    BY DEF OutputInv
  <2>2. \A x \in DOMAIN deferred : deferred[x] \in Deferred
    BY <2>1, ElementOfSeq, LenProperties
  <2> QED BY <2>1, <2>2 DEF Deferred
<1>3. promotions \in Seq(Promoted) /\ \A x \in DOMAIN promotions : promotions[x].layer \in Nat
  <2>1. promotions \in Seq(Promoted)
    BY DEF OutputInv
  <2>2. \A x \in DOMAIN promotions : promotions[x] \in Promoted
    BY <2>1, ElementOfSeq, LenProperties
  <2> QED BY <2>1, <2>2 DEF Promoted
<1>4. (\E g : Injects(deferred', deferred, g)) /\ ToSet(deferred') = ToSet(deferred)
  BY <1>1, <1>2, SortedIsAll
<1>5. (\E g : Injects(promotions', promotions, g)) /\ ToSet(promotions') = ToSet(promotions)
  BY <1>1, <1>3, SortedIsAll
<1>6. Reproducible => \A l \in ToSet(deferred) \cup ToSet(promotions) : l.link \notin emitted
  BY <1>1 DEF WaitInv, Pending
<1>7. GoesOn
  BY <1>1, RestGoesOn
<1>8. \A i \in DOMAIN image : \A k \in DOMAIN image[i] : Done(i, k)' => Done(i, k)
  BY <1>1, <1>7, DoneLater
<1> QED BY <1>1, <1>4, <1>5, <1>6, <1>7, <1>8, RestKeepsWait

LEMMA LinkKeepsWait ==
  ASSUME TrieInv, OutputInv, WaitInv, EmitLink
  PROVE  WaitInv'
<1> DEFINE l == Head(deferred)
<1>1. /\ phase # "build" /\ phase' # "build" /\ UNCHANGED <<image, left, pos, recorded, missed>>
      /\ deferred' = Tail(deferred) /\ UNCHANGED promotions /\ deferred # <<>>
      /\ emitted' = emitted \cup {l.link}
  BY DEF EmitLink, Linking, builder, history
<1>2. /\ \E g : Injects(deferred', deferred, g)
      /\ ToSet(deferred) = ToSet(deferred') \cup {l}
      /\ \A x \in DOMAIN deferred' :
           x + 1 \in DOMAIN deferred /\ x + 1 # 1 /\ deferred'[x] = deferred[x + 1]
      /\ 1 \in DOMAIN deferred /\ l = deferred[1]
  BY <1>1, TailInjects DEF OutputInv
<1> HIDE DEF l
<1>3. \E g : Injects(promotions', promotions, g)
  BY <1>1, InjectsItself DEF OutputInv
<1>4. GoesOn
  BY <1>1, RestGoesOn
<1>5. \A i \in DOMAIN image : \A k \in DOMAIN image[i] : Done(i, k)' => Done(i, k)
  BY <1>1, <1>4, DoneLater
<1>6. ASSUME Reproducible, NEW m \in ToSet(deferred') \cup ToSet(promotions')
      PROVE  m.link \notin emitted'
  <2>1. m.link \notin emitted
    BY <1>1, <1>2, <1>6 DEF WaitInv, Pending
  <2>2. Apart
    BY <1>1, <1>6 DEF WaitInv
  <2>3. m.link # l.link
    <3>1. CASE m \in ToSet(deferred')
      <4>1. PICK x \in DOMAIN deferred' : m = deferred'[x]
        BY <3>1 DEF ToSet
      <4> QED BY <1>2, <2>2, <4>1 DEF Apart
    <3>2. CASE m \in ToSet(promotions')
      <4>1. PICK x \in DOMAIN promotions : m = promotions[x]
        BY <1>1, <3>2 DEF ToSet
      <4> QED BY <1>2, <2>2, <4>1 DEF Apart
    <3> QED BY <1>6, <3>1, <3>2
  <2> QED BY <1>1, <2>1, <2>3
<1>7. \A m \in ToSet(deferred) \cup ToSet(promotions) :
        m.link \in emitted' \/ m \in ToSet(deferred') \cup ToSet(promotions')
  BY <1>1, <1>2
<1> QED BY <1>1, <1>2, <1>3, <1>4, <1>5, <1>6, <1>7, RestKeepsWait

LEMMA GroupKeepsWait ==
  ASSUME TrieInv, OutputInv, WaitInv, NEW t, EmitGroup(t)
  PROVE  WaitInv'
<1> DEFINE main == promotions[Primary(t)]
           F == Followers(t)
<1>1. /\ phase # "build" /\ phase' # "build" /\ UNCHANGED <<image, left, pos, recorded, missed>>
      /\ promotions' \in Ungrouped(t) /\ UNCHANGED deferred
      /\ emitted' = emitted \cup {main.link} \cup {promotions[i].link : i \in F}
  BY DEF EmitGroup, Promotes, Promoting, builder, history
<1>2. /\ \E g : Injects(promotions', promotions, g)
      /\ ToSet(promotions') = {promotions[x] : x \in DOMAIN promotions \ Group(t)}
  BY <1>1, UngroupedIsRest DEF OutputInv
<1>3. \E g : Injects(deferred', deferred, g)
  BY <1>1, InjectsItself DEF OutputInv
<1>4. GoesOn
  BY <1>1, RestGoesOn
<1>5. \A i \in DOMAIN image : \A k \in DOMAIN image[i] : Done(i, k)' => Done(i, k)
  BY <1>1, <1>4, DoneLater
<1>6. Primary(t) \in Group(t) /\ F \subseteq Group(t) /\ Group(t) \subseteq DOMAIN promotions
  BY GroupWrites DEF Followers, Group
<1>7. \A p \in emitted' : p \in emitted \/ \E i \in Group(t) : p = promotions[i].link
  BY <1>1, <1>6
<1>8. Reproducible => Apart /\ \A m \in ToSet(deferred) \cup ToSet(promotions) : m.link \notin emitted
  BY <1>1 DEF WaitInv, Pending
<1>9. ASSUME Reproducible, NEW m \in ToSet(deferred') \cup ToSet(promotions')
      PROVE  m.link \notin emitted'
  <2>1. CASE m \in ToSet(deferred')
    <3>1. PICK x \in DOMAIN deferred : m = deferred[x]
      BY <1>1, <2>1 DEF ToSet
    <3>2. m.link \notin emitted
      BY <1>1, <1>8, <1>9, <2>1
    <3>3. \A i \in Group(t) : m.link # promotions[i].link
      BY <1>6, <1>8, <1>9, <3>1 DEF Apart
    <3> QED BY <1>7, <3>2, <3>3
  <2>2. CASE m \in ToSet(promotions')
    <3>1. PICK x \in DOMAIN promotions \ Group(t) : m = promotions[x]
      BY <1>2, <2>2
    <3>2. m.link \notin emitted
      BY <1>8, <1>9, <3>1 DEF ToSet
    <3>3. \A i \in Group(t) : m.link # promotions[i].link
      BY <1>6, <1>8, <1>9, <3>1 DEF Apart
    <3> QED BY <1>7, <3>2, <3>3
  <2> QED BY <1>9, <2>1, <2>2
<1>10. ASSUME Reproducible, NEW m \in ToSet(deferred) \cup ToSet(promotions)
       PROVE  m.link \in emitted' \/ m \in ToSet(deferred') \cup ToSet(promotions')
  <2>1. CASE m \in ToSet(deferred)
    BY <1>1, <2>1
  <2>2. CASE m \in ToSet(promotions)
    <3>1. PICK x \in DOMAIN promotions : m = promotions[x]
      BY <2>2 DEF ToSet
    <3>2. CASE x \notin Group(t)
      BY <1>2, <3>1, <3>2
    <3>3. CASE x \in Group(t)
      <4>1. CASE m.link \in emitted \cup {main.link}
        BY <1>1, <4>1
      <4>2. CASE m.link \notin emitted \cup {main.link}
        <5>1. \A j \in Group(t) : j < x => promotions[j].link # promotions[x].link
          <6>1. x \in Int /\ \A j \in Group(t) : j \in DOMAIN promotions /\ j \in Int
            BY <1>6, LenProperties DEF OutputInv
          <6> QED BY <1>8, <1>10, <6>1 DEF Apart
        <5>2. x \in F
          BY <3>1, <3>3, <4>2, <5>1 DEF Followers
        <5> QED BY <1>1, <3>1, <5>2
      <4> QED BY <4>1, <4>2
    <3> QED BY <3>2, <3>3
  <2> QED BY <1>10, <2>1, <2>2
<1> HIDE DEF main, F
<1> QED BY <1>1, <1>2, <1>3, <1>4, <1>5, <1>9, <1>10, RestKeepsWait

LEMMA WaitKeeps ==
  ASSUME IInv, LiveInv, StageInv, SeenInv, WaitInv, [Next]_vars
  PROVE  WaitInv'
<1> USE DEF IInv
<1>1. CASE PackLayer \/ PackEntry
  BY <1>1 DEF PackLayer, PackEntry, WaitInv
<1>2. CASE StartMerge
  BY <1>2, WaitStarts
<1> DEFINE Still == SameLinks(deferred', deferred) /\ SameLinks(promotions', promotions)
<1>3. UNCHANGED <<deferred, promotions>> => Still
  BY DEF SameLinks, SameLink
<1>4. ASSUME Reading, ~Suppressed(entry.path), entry.kind \in AddKinds, entry.path # Root,
             missed' = (missed \/ Misses(whiteout, entry.path)
                               \/ Misses(Shadowed, entry.target))
             \/ missed' = (missed \/ Misses(whiteout, entry.path))
      PROVE  /\ missed => missed'
             /\ ~missed' => ~CoveredBy(entry.path, cur)
  BY <1>4 DEF Misses, Suppressed, CoveredBy
<1>5. CASE SkipRoot
  <2>1. /\ Reading /\ NextEntry /\ UNCHANGED <<builder, phase, left, emitted, recorded, missed>>
        /\ UNCHANGED <<deferred, promotions>> /\ entry.kind = "dir"
    BY <1>5 DEF SkipRoot, trackers, history
  <2> QED BY <1>3, <2>1, PassKeepsWait
<1>6. CASE RecordWhiteout
  <2>1. /\ Reading /\ NextEntry /\ UNCHANGED <<builder, phase, left, emitted, missed>>
        /\ UNCHANGED <<deferred, promotions>> /\ entry.kind # "link"
        /\ recorded' = recorded \cup {<<entry.path, cur>>}
    BY <1>6 DEF RecordWhiteout, Record
  <2> QED BY <1>3, <2>1, PassKeepsWait
<1>7. CASE BufferSuppressed
  <2>1. /\ Reading /\ NextEntry /\ UNCHANGED <<builder, phase, left, emitted, missed, recorded>>
        /\ entry.kind = "file" /\ UNCHANGED deferred
        /\ promotions' = [i \in DOMAIN promotions |->
             IF promotions[i].target = entry.path /\ promotions[i].data = NoData
             THEN [promotions[i] EXCEPT !.data = <<cur, entry.path>>]
             ELSE promotions[i]]
    BY <1>7 DEF BufferSuppressed, history
  <2>2. SameLinks(promotions', promotions)
    <3>1. \A x \in DOMAIN promotions : promotions[x] \in Promoted
      <4>1. promotions \in Seq(Promoted)
        BY DEF OutputInv
      <4> QED BY <4>1, ElementOfSeq, LenProperties
    <3>2. \A l \in Promoted : \A d : SameLink([l EXCEPT !.data = d], l) /\ SameLink(l, l)
      BY DEF Promoted, SameLink
    <3>3. \A x \in DOMAIN promotions : SameLink(promotions'[x], promotions[x])
      BY <2>1, <3>1, <3>2
    <3> QED BY <2>1, <3>3 DEF SameLinks
  <2>3. Still
    BY <2>1, <2>2 DEF SameLinks, SameLink
  <2> QED BY <2>1, <2>3, PassKeepsWait
<1>8. CASE DropSuppressed
  <2>1. /\ Reading /\ NextEntry /\ UNCHANGED <<builder, phase, left, emitted, missed, recorded>>
        /\ UNCHANGED <<deferred, promotions>> /\ Suppressed(entry.path)
    BY <1>8 DEF DropSuppressed, trackers, history
  <2>2. CoveredBy(entry.path, cur)
    <3>1. entry.path \in Paths /\ cur \in Int
      BY <2>1, EntryParts DEF Nodes, Suppressed, IsSuppressed, Layers
    <3> QED BY <2>1, <3>1, SuppressedHasReason DEF Suppressed, TrieInv
  <2> QED BY <1>3, <2>1, <2>2, PassKeepsWait
<1>9. CASE SkipEmitted
  <2>1. /\ Reading /\ NextEntry /\ UNCHANGED <<builder, phase, left, emitted, recorded>>
        /\ UNCHANGED <<deferred, promotions>> /\ entry.path \in emitted
        /\ missed => missed'
    BY <1>9 DEF SkipEmitted, trackers
  <2> QED BY <1>3, <2>1, PassKeepsWait
<1>10. ASSUME DeferLink \/ PromoteLink
       PROVE  /\ Reading /\ NextEntry /\ UNCHANGED <<builder, phase, left, emitted>>
              /\ recorded' = recorded \cup {<<entry.path, cur>>} /\ entry.kind = "link"
              /\ Free /\ (missed => missed')
  <2>1. /\ Reading /\ NextEntry /\ UNCHANGED <<builder, phase, left, emitted>>
        /\ recorded' = recorded \cup {<<entry.path, cur>>} /\ entry.kind = "link"
        /\ ~Suppressed(entry.path) /\ entry.path \notin emitted
    BY <1>10 DEF DeferLink, PromoteLink, LiveLink, Record
  <2>2. entry.path # Root /\ entry.kind \in AddKinds
    BY <2>1, EntryParts, ImageParts DEF LiveInv, ItemsChosen, AddKinds, NonDirKinds
  <2>3. /\ missed => missed'
        /\ ~missed' => ~CoveredBy(entry.path, cur)
    <3>1. \/ missed' = (missed \/ Misses(whiteout, entry.path)
                               \/ Misses(Shadowed, entry.target))
          \/ missed' = (missed \/ Misses(whiteout, entry.path))
      BY <1>10 DEF DeferLink, PromoteLink
    <3> QED BY <1>4, <2>1, <2>2, <3>1
  <2> QED BY <2>1, <2>2, <2>3 DEF Free
<1>11. CASE DeferLink
  <2>1. /\ Reading /\ NextEntry /\ UNCHANGED <<builder, phase, left, emitted>>
        /\ recorded' = recorded \cup {<<entry.path, cur>>} /\ entry.kind = "link"
        /\ Free /\ (missed => missed')
    BY <1>10, <1>11
  <2>2. /\ deferred' = Append(deferred, ThisLink) /\ UNCHANGED promotions
        /\ ~IsSuppressed(Shadowed, entry.target, cur)
        /\ missed' = (missed \/ Misses(whiteout, entry.path) \/ Misses(Shadowed, entry.target))
    BY <1>11 DEF DeferLink, ThisLink
  <2>3. ~missed' => ~CoveredBy(entry.target, cur)
    BY <2>2 DEF Misses, CoveredBy
  <2>4. AddsLink(deferred', deferred, ThisLink)
    <3>1. deferred \in Seq(Deferred) /\ ThisLink \in Deferred
      BY <2>1, EntryParts DEF OutputInv, ThisLink, Deferred, Layers
    <3>2. /\ DOMAIN deferred' = 1..(Len(deferred) + 1) /\ deferred'[Len(deferred) + 1] = ThisLink
          /\ \A i \in 1..Len(deferred) : deferred'[i] = deferred[i]
      BY <2>2, <3>1, OneBehind
    <3> QED BY <3>2 DEF AddsLink, SameLink
  <2>5. SameLinks(promotions', promotions)
    BY <2>2 DEF SameLinks, SameLink
  <2>6. recorded \subseteq recorded' /\ <<entry.path, cur>> \in recorded'
        /\ \A r \in recorded' : r \in recorded \/ r[2] = cur
    BY <2>1
  <2> HIDE DEF Still
  <2> QED BY <2>1, <2>3, <2>4, <2>5, <2>6, PassKeepsWait
<1>12. CASE PromoteLink
  <2>1. /\ Reading /\ NextEntry /\ UNCHANGED <<builder, phase, left, emitted>>
        /\ recorded' = recorded \cup {<<entry.path, cur>>} /\ entry.kind = "link"
        /\ Free /\ (missed => missed')
    BY <1>10, <1>12
  <2> DEFINE w == [link |-> entry.path, target |-> entry.target, layer |-> cur,
                   data |-> IF entry.target \in DOMAIN suppressed
                            THEN suppressed[entry.target] ELSE NoData]
  <2>2. promotions' = Append(promotions, w) /\ UNCHANGED deferred
    BY <1>12 DEF PromoteLink
  <2>3. promotions \in Seq(Promoted) /\ promotions' \in Seq(Promoted)
    BY <1>12, WaitingKeepsOutput DEF OutputInv
  <2>4. SameLink(w, ThisLink)
    BY DEF SameLink, ThisLink
  <2> HIDE DEF w
  <2>5. AddsLink(promotions', promotions, ThisLink)
    <3>1. promotions \in Seq(Promoted \cup {w}) /\ w \in Promoted \cup {w}
      <4>1. promotions \in [1..Len(promotions) -> Promoted \cup {w}] /\ Len(promotions) \in Nat
        BY <2>3, LenProperties, ElementOfSeq
      <4> QED BY <4>1, SeqDef
    <3>2. /\ DOMAIN promotions' = 1..(Len(promotions) + 1) /\ promotions'[Len(promotions) + 1] = w
          /\ \A i \in 1..Len(promotions) : promotions'[i] = promotions[i]
      BY <2>2, <3>1, OneBehind
    <3> QED BY <2>4, <3>2 DEF AddsLink, SameLink
  <2>6. SameLinks(deferred', deferred)
    BY <2>2 DEF SameLinks, SameLink
  <2>7. recorded \subseteq recorded' /\ <<entry.path, cur>> \in recorded'
        /\ \A r \in recorded' : r \in recorded \/ r[2] = cur
    BY <2>1
  <2> HIDE DEF Still
  <2> QED BY <2>1, <2>5, <2>6, <2>7, PassKeepsWait
<1>13. CASE WriteEntry
  <2>1. /\ Reading /\ NextEntry /\ UNCHANGED <<builder, phase, left, deferred, promotions>>
        /\ emitted' = emitted \cup {entry.path} /\ entry.path \notin emitted
        /\ entry.kind \in {"dir", "file", "other"} /\ entry.path # Root
        /\ ~Suppressed(entry.path)
        /\ missed' = (missed \/ Misses(whiteout, entry.path))
        /\ recorded' = recorded \/ recorded' = recorded \cup {<<entry.path, cur>>}
    BY <1>13 DEF WriteEntry, LiveEntry, Record
  <2>2. entry.kind \in AddKinds /\ entry.kind # "link"
    BY <2>1 DEF AddKinds, NonDirKinds
  <2>3. (missed => missed') /\ Free
    BY <1>4, <2>1, <2>2 DEF Free
  <2>4. recorded \subseteq recorded' /\ \A r \in recorded' : r \in recorded \/ r[2] = cur
    BY <2>1
  <2>5. Still
    BY <1>3, <2>1
  <2> QED BY <2>1, <2>2, <2>3, <2>4, <2>5, PassKeepsWait
<1>14. CASE EndLayer
  <2>1. /\ phase # "build" /\ phase' # "build"
        /\ UNCHANGED <<missed, emitted, deferred, promotions>>
    BY <1>14 DEF EndLayer, history
  <2> QED BY <1>14, <2>1, EndGoesOn, SameKeepsWait
<1>15. CASE DrainSorted
  BY <1>15, SortingKeepsWait
<1>16. ASSUME NEW t, EmitGroup(t) PROVE WaitInv'
  BY <1>16, GroupKeepsWait
<1>17. CASE EmitLink
  BY <1>17, LinkKeepsWait
<1>18. ASSUME ~Reproducible, phase # "build" PROVE WaitInv'
  <2>1. ~Reproducible'
    BY <1>18, HistoryGrows, ReproducibleBefore
  <2> QED BY <2>1 DEF WaitInv
<1>19. ASSUME NEW t, SkipGroup(t) PROVE WaitInv'
  <2>1. Promoting(t) /\ ~Promotes(t) /\ phase # "build"
    BY <1>19 DEF SkipGroup, Promoting
  <2> QED BY <1>18, <2>1, NoGroupDropped
<1>20. CASE DropLink
  <2>1. Linking /\ Head(deferred).target \notin emitted /\ phase # "build"
    BY <1>20 DEF DropLink, Linking
  <2> QED BY <1>18, <2>1, NoLinkDropped
<1>21. ASSUME UNCHANGED <<image, left, pos, history, trackers>>, phase # "build", phase' # "build"
       PROVE  WaitInv'
  <2>1. UNCHANGED <<image, left, pos, recorded, missed, emitted, deferred, promotions>>
    BY <1>21 DEF history, trackers
  <2>2. GoesOn
    BY <2>1, RestGoesOn
  <2> QED BY <1>21, <2>1, <2>2, DoneLater, SameKeepsWait
<1>22. CASE GroupsDone
  BY <1>21, <1>22 DEF GroupsDone, builder
<1>23. CASE Finish \/ Failure
  <2>1. (\E x : Stop(x)) /\ phase # "build"
    BY <1>23 DEF Finish, Failure, ReadFails, WriteFails, FinishFails, LiveEntry, Reading,
                 Promotes, Promoting
  <2> QED BY <1>21, <2>1 DEF Stop, builder
<1>24. CASE Rested
  <2>1. UNCHANGED <<image, left, pos, history, trackers, phase>>
    BY <1>24 DEF Rested, builder
  <2>2. CASE phase = "build"
    BY <2>1, <2>2 DEF WaitInv
  <2> QED BY <1>21, <2>1, <2>2
<1> QED
  BY WriterRests, <1>1, <1>2, <1>5, <1>6, <1>7, <1>8, <1>9, <1>11, <1>12, <1>13, <1>14, <1>15, <1>16,
     <1>17, <1>19, <1>20, <1>22, <1>23, <1>24
  DEF Next, Build, Merge

----------------------------------------------------------------------------
(* What is written, and from what. *)

LEMMA CarriesStays ==
  ASSUME NEW x \in DOMAIN out, NEW n \in Nat, DOMAIN out = 1..n,
         \A i \in 1..n : out'[i] = out[i], NEW id, Carries(x, id)
  PROVE  Carries(x, id)'
<1>1. x \in 1..n /\ \A y \in 1..(x - 1) : y \in 1..n
  OBVIOUS
<1> QED BY <1>1 DEF Carries

LEMMA LinkUpStays ==
  ASSUME UNCHANGED <<image, recorded>>,
         NEW x \in DOMAIN out, NEW n \in Nat, DOMAIN out = 1..n,
         \A i \in 1..n : out'[i] = out[i], NEW p, LinkUp(x, p)
  PROVE  LinkUp(x, p)'
<1>1. PICK i \in DOMAIN image : \E e \in LinksOf(i) : e.path = p /\ Up(i, p) /\ Carries(x, e.id)
  BY DEF LinkUp
<1>2. PICK e \in LinksOf(i) : e.path = p /\ Up(i, p) /\ Carries(x, e.id)
  BY <1>1
<1>3. PICK id : id = e.id
  OBVIOUS
<1>4. Carries(x, e.id)'
  BY <1>2, <1>3, CarriesStays
<1>5. Up(i, p)' /\ e \in LinksOf(i)'
  BY <1>2 DEF Up, CoveredBy, LinksOf
<1> QED BY <1>2, <1>4, <1>5 DEF LinkUp

LEMMA RestKeepsOut ==
  ASSUME OutputInv, OutInv, phase # "build", image' = image, recorded \subseteq recorded',
         missed => missed', UNCHANGED <<out, emitted>>, phase' = "layers" => phase = "layers",
         phase = "layers" \/ (recorded' = recorded /\ Targets' \subseteq Targets)
  PROVE  OutInv'
<1> SUFFICES ASSUME Reproducible' PROVE (WrittenOnce /\ WrittenFrom /\ LinksUp)'
  BY DEF OutInv
<1>1. WrittenOnce /\ WrittenFrom /\ LinksUp
  BY ReproducibleBefore DEF OutInv
<1>2. WrittenOnce'
  BY <1>1 DEF WrittenOnce
<1>3. \A e \in ToSet(out) : e.kind # "link" => Origin(image, e.kind, e.id)'
  BY <1>1 DEF WrittenFrom, Origin
<1>4. CASE phase = "layers"
  <2>1. \A e \in ToSet(out) : Own(e)
    BY <1>1, <1>4 DEF WrittenFrom
  <2>2. \A x \in DOMAIN out : Own(out[x])
    BY <2>1 DEF ToSet
  <2> QED BY <1>2, <1>3, <2>1, <2>2 DEF WrittenFrom, LinksUp, ToSet, Own
<1>5. CASE phase # "layers"
  <2>1. \A p, l : CoveredBy(p, l) => CoveredBy(p, l)'
    BY <1>5 DEF CoveredBy
  <2>2. \A e \in ToSet(out) : e.kind # "link" /\ ~Own(e) =>
          CoveredBy(e.id[2], e.id[1]) /\ e.id[2] \notin Targets
    BY <1>1 DEF WrittenFrom
  <2>3. \A e \in ToSet(out) : e.kind # "link" /\ ~Own(e) =>
          CoveredBy(e.id[2], e.id[1])' /\ e.id[2] \notin Targets'
    BY <1>5, <2>1, <2>2
  <2>4. ToSet(out)' = ToSet(out)
    BY DEF ToSet
  <2>5. WrittenFrom'
    BY <1>3, <1>5, <2>3, <2>4 DEF WrittenFrom, Own
  <2>6. ASSUME NEW x \in DOMAIN out, ~Own(out[x]) PROVE LinkUp(x, out[x].path)'
    <3>1. PICK p : p = out[x].path
      OBVIOUS
    <3>2. LinkUp(x, p)
      BY <1>1, <2>6, <3>1 DEF LinksUp
    <3>3. Len(out) \in Nat /\ DOMAIN out = 1..Len(out)
      BY LenProperties DEF OutputInv
    <3>4. LinkUp(x, p)'
      BY <1>5, <3>2, <3>3, LinkUpStays
    <3> QED BY <3>1, <3>4
  <2>7. LinksUp'
    BY <2>6 DEF LinksUp, Own
  <2> QED BY <1>2, <2>5, <2>7
<1> QED BY <1>4, <1>5

LEMMA WriteKeepsOut ==
  ASSUME TrieInv, BuilderInv, OutputInv, OutInv, WriteEntry,
         missed => missed', recorded \subseteq recorded'
  PROVE  OutInv'
<1> DEFINE n == Len(out)
           w == Written(entry.kind, entry.path, <<cur, entry.path>>)
<1>1. /\ Reading /\ image' = image /\ phase = "layers" /\ phase' = "layers"
      /\ out' = Append(out, w) /\ emitted' = emitted \cup {entry.path}
      /\ entry.path \notin emitted /\ entry.kind \in {"dir", "file", "other"}
  BY DEF WriteEntry, LiveEntry, Reading, builder
<1> SUFFICES ASSUME Reproducible' PROVE (WrittenOnce /\ WrittenFrom /\ LinksUp)'
  BY DEF OutInv
<1>2. WrittenOnce /\ WrittenFrom
  BY <1>1, ReproducibleBefore DEF OutInv
<1>3. n \in Nat /\ DOMAIN out = 1..n /\ w \in Member
      /\ DOMAIN out' = 1..(n + 1) /\ out'[n + 1] = w /\ \A i \in 1..n : out'[i] = out[i]
  <2>1. w \in Member
    BY <1>1, EntryParts DEF Written, Member, Nodes, Ids, Kinds, AddKinds, NonDirKinds
  <2>2. out \in Seq(Member)
    BY DEF OutputInv
  <2> HIDE DEF w
  <2> QED BY <1>1, <2>1, <2>2, OneBehind, LenProperties
<1>4. w.kind = entry.kind /\ w.path = entry.path /\ w.id = <<cur, entry.path>>
      /\ w.kind # "link" /\ w.id[2] = w.path
  BY <1>1 DEF Written
<1>5. Origin(image, w.kind, w.id)
  <2>1. left \in DOMAIN image /\ pos \in DOMAIN image[left] /\ entry = image[left][pos]
        /\ cur = left - 1
    BY <1>1, EntryParts DEF cur
  <2>2. image[left][pos].id = <<cur, entry.path>>
    BY <1>1, <2>1 DEF BuilderInv
  <2>3. entry.kind \in AddKinds \ {"link"}
    BY <1>1 DEF AddKinds, NonDirKinds
  <2> HIDE DEF w
  <2> QED BY <1>4, <2>1, <2>2, <2>3 DEF Origin
<1> HIDE DEF w, n
<1>6. \A x \in 1..n : Own(out[x]) /\ Origin(image, out[x].kind, out[x].id)
  BY <1>1, <1>2, <1>3 DEF WrittenFrom, ToSet, Own
<1>7. \A x \in 1..(n + 1) : Own(out'[x]) /\ Origin(image, out'[x].kind, out'[x].id)
  <2>1. \A x \in 1..(n + 1) : x \in 1..n \/ x = n + 1
    BY <1>3
  <2> QED BY <1>3, <1>4, <1>5, <1>6, <2>1 DEF Own
<1>8. \A x \in 1..n : out'[x].path \in emitted /\ out'[x].path # entry.path
  BY <1>1, <1>2, <1>3 DEF WrittenOnce
<1>9. \A x, y \in 1..(n + 1) : out'[x].path = out'[y].path => x = y
  <2>1. \A x \in 1..(n + 1) : x \in 1..n \/ x = n + 1
    BY <1>3
  <2> QED BY <1>2, <1>3, <1>4, <1>8, <2>1 DEF WrittenOnce
<1>10. \A x \in 1..(n + 1) : out'[x].path \in emitted'
  <2>1. \A x \in 1..(n + 1) : x \in 1..n \/ x = n + 1
    BY <1>3
  <2> QED BY <1>1, <1>3, <1>4, <1>8, <2>1
<1>11. \A x, y \in 1..(n + 1) : out'[x].id = out'[y].id => x = y
  BY <1>7, <1>9 DEF Own
<1>12. WrittenOnce'
  BY <1>3, <1>9, <1>10, <1>11 DEF WrittenOnce
<1>13. \A e \in ToSet(out') : Own(e) /\ Origin(image, e.kind, e.id)
  BY <1>3, <1>7 DEF ToSet
<1>14. WrittenFrom'
  BY <1>1, <1>13 DEF WrittenFrom, Own
<1>15. LinksUp'
  BY <1>3, <1>7 DEF LinksUp, Own
<1> QED BY <1>12, <1>14, <1>15

LEMMA LinkKeepsOut ==
  ASSUME IInv, LiveInv, StageInv, SeenInv, WaitInv, OutInv, EmitLink
  PROVE  OutInv'
<1> USE DEF IInv
<1> DEFINE n == Len(out)
           l == Head(deferred)
           w == Link(l.link, l.target)
<1>1. /\ Linking /\ UNCHANGED <<image, recorded, missed, promotions>> /\ deferred # <<>>
      /\ phase = "link" /\ phase' = "link"
      /\ out' = Append(out, w) /\ emitted' = emitted \cup {l.link}
  BY DEF EmitLink, Linking, builder, history
<1> SUFFICES ASSUME Reproducible' PROVE (WrittenOnce /\ WrittenFrom /\ LinksUp)'
  BY DEF OutInv
<1>2. Reproducible /\ WrittenOnce /\ WrittenFrom /\ LinksUp
  BY <1>1, ReproducibleBefore DEF OutInv
<1>3. n \in Nat /\ DOMAIN out = 1..n
      /\ DOMAIN out' = 1..(n + 1) /\ out'[n + 1] = w /\ \A i \in 1..n : out'[i] = out[i]
  <2>1. out \in Seq(Member) /\ out' \in Seq(Member)
    BY LinkKeepsOutput DEF OutputInv
  <2> HIDE DEF w
  <2> QED BY <1>1, <2>1, LenProperties
<1>4. w.kind = "link" /\ w.path = l.link /\ w.target = l.target
  BY DEF Link
<1>5. l.link \notin emitted
  <2>1. deferred \in Seq(Deferred)
    BY DEF OutputInv
  <2>2. l \in ToSet(deferred)
    BY <1>1, <2>1, TailInjects
  <2> QED BY <1>1, <1>2, <2>2 DEF WaitInv, Pending
<1>6. PICK i \in DOMAIN image : \E k \in DOMAIN image[i] :
              /\ Asks(l, i, k) /\ Up(i, l.link)
              /\ \E x \in DOMAIN out : /\ Own(out[x]) /\ out[x].path = l.target
                                       /\ out[x].id = image[i][k].id
  BY <1>1, <1>2, NoLinkDropped
<1>7. PICK k \in DOMAIN image[i] :
              /\ Asks(l, i, k) /\ Up(i, l.link)
              /\ \E x \in DOMAIN out : /\ Own(out[x]) /\ out[x].path = l.target
                                       /\ out[x].id = image[i][k].id
  BY <1>6
<1>8. PICK y \in DOMAIN out : /\ Own(out[y]) /\ out[y].path = l.target
                              /\ out[y].id = image[i][k].id
  BY <1>7
<1>9. PICK p : p = l.link
  OBVIOUS
<1>10. PICK z \in Nat : z = n + 1
  BY <1>3
<1>11. LinkUp(z, p)'
  <2>1. PICK e \in LinksOf(i) : e = image[i][k] /\ e.path = p
    BY <1>7, <1>9 DEF LinksOf, Asks
  <2>2. Up(i, p)' /\ e \in LinksOf(i)'
    BY <1>1, <1>7, <1>9, <2>1 DEF Up, CoveredBy, LinksOf
  <2>3. Carries(z, e.id)'
    <3>1. y \in 1..(z - 1) /\ out'[y].kind # "link" /\ out'[y].path = out'[z].target
          /\ out'[y].id = e.id /\ out'[z].kind = "link"
      BY <1>3, <1>4, <1>8, <1>10, <2>1 DEF Own
    <3> QED BY <3>1 DEF Carries
  <2> QED BY <1>1, <2>1, <2>2, <2>3 DEF LinkUp
<1> HIDE DEF w, n, l
<1>12. \A x \in 1..z : x \in 1..n \/ x = z
  BY <1>3, <1>10
<1>13. WrittenOnce'
  <2>1. \A x \in 1..n : out'[x].path \in emitted /\ out'[x].path # l.link
    BY <1>2, <1>3, <1>5 DEF WrittenOnce
  <2>2. \A x, y1 \in 1..z : out'[x].path = out'[y1].path => x = y1
    <3>1. \A x, y1 \in 1..n : out'[x].path = out'[y1].path => x = y1
      BY <1>2, <1>3 DEF WrittenOnce
    <3>2. out'[z].path = l.link
      BY <1>3, <1>4, <1>10
    <3> QED BY ONLY <1>12, <2>1, <3>1, <3>2
  <2>3. \A x \in 1..z : out'[x].path \in emitted'
    BY <1>1, <1>3, <1>4, <1>10, <1>12, <2>1
  <2>4. \A x, y1 \in 1..z :
          out'[x].kind # "link" /\ out'[y1].kind # "link" /\ out'[x].id = out'[y1].id => x = y1
    <3>1. \A x, y1 \in 1..n : out'[x].kind # "link" /\ out'[y1].kind # "link"
                              /\ out'[x].id = out'[y1].id => x = y1
      BY <1>2, <1>3 DEF WrittenOnce
    <3>2. out'[z].kind = "link"
      BY <1>3, <1>4, <1>10
    <3> QED BY ONLY <1>12, <3>1, <3>2
  <2> QED BY <1>3, <1>10, <2>2, <2>3, <2>4 DEF WrittenOnce
<1>14. WrittenFrom'
  <2>1. \A e \in ToSet(out') : e.kind # "link" => e \in ToSet(out)
    BY <1>3, <1>4, <1>10, <1>12 DEF ToSet
  <2>2. Targets' = Targets /\ (\A q, h : CoveredBy(q, h)' <=> CoveredBy(q, h))
    BY <1>1 DEF Targets, CoveredBy
  <2>3. \A e \in ToSet(out) : e.kind # "link" => Origin(image, e.kind, e.id)
    BY <1>2 DEF WrittenFrom
  <2>4. \A e \in ToSet(out) : e.kind # "link" /\ ~Own(e) =>
          CoveredBy(e.id[2], e.id[1]) /\ e.id[2] \notin Targets
    BY <1>2 DEF WrittenFrom
  <2>5. \A e \in ToSet(out') : e.kind # "link" => Origin(image, e.kind, e.id)'
    BY <1>1, <2>1, <2>3
  <2>6. \A e \in ToSet(out') : e.kind # "link" /\ ~Own(e) =>
          CoveredBy(e.id[2], e.id[1])' /\ e.id[2] \notin Targets'
    BY <2>1, <2>2, <2>4
  <2> QED BY <1>1, <2>5, <2>6 DEF WrittenFrom, Own
<1>15. LinksUp'
  <2>1. ASSUME NEW x \in DOMAIN out', ~Own(out'[x]) PROVE LinkUp(x, out[x].path)'
    <3>1. CASE x = z
      BY <1>3, <1>4, <1>9, <1>11, <1>10, <3>1
    <3>2. CASE x # z
      <4>1. x \in DOMAIN out /\ out'[x] = out[x]
        BY <1>3, <1>10, <1>12, <3>2
      <4>2. PICK q : q = out[x].path
        OBVIOUS
      <4>3. LinkUp(x, q)
        BY <1>2, <2>1, <4>1, <4>2 DEF LinksUp, Own
      <4>4. LinkUp(x, q)'
        BY <1>1, <1>3, <4>1, <4>3, LinkUpStays
      <4> QED BY <4>1, <4>2, <4>4
    <3> QED BY <3>1, <3>2
  <2> QED BY <2>1 DEF LinksUp, Own
<1> QED BY <1>13, <1>14, <1>15

(* The members of a group are links to one file that nothing else has. *)
GroupFile(t, id) ==
  /\ Origin(image, "file", id) /\ CoveredBy(id[2], id[1]) /\ id[2] = t
  /\ \A x \in Group(t) : \E i \in DOMAIN image : \E e \in LinksOf(i) :
       e.path = promotions[x].link /\ Up(i, e.path) /\ e.id = id
  /\ \A y \in DOMAIN out : out[y].kind # "link" => out[y].id # id

LEMMA GroupHasFile ==
  ASSUME IInv, StageInv, SeenInv, WaitInv, OutInv, Reproducible, phase = "promote",
         NEW t, t \in Targets, NEW x0 \in Group(t)
  PROVE  GroupFile(t, promotions[x0].data)
<1> USE DEF IInv
<1>1. left = 0 /\ ~missed /\ ~SharedTargetName
  BY DEF StageInv, Reproducible
<1>2. ASSUME NEW x \in Group(t)
      PROVE  \E i \in DOMAIN image : \E e \in LinksOf(i) :
               /\ e.path = promotions[x].link /\ Up(i, e.path) /\ e.target = t
               /\ e.id = promotions[x].data
               /\ CoveredBy(e.id[2], e.id[1]) /\ e.id[2] = t
               /\ \E j \in DOMAIN image : e.id = <<j - 1, t>> /\ HoldsFile(image, j, t)
  <2>1. PICK l : l = promotions[x]
    OBVIOUS
  <2>2. x \in DOMAIN promotions /\ l.target = t
    BY <2>1 DEF Group
  <2>3. Pending(l)
    BY <2>1, <2>2 DEF WaitInv, ToSet
  <2>4. PICK n \in DOMAIN image : \E k \in DOMAIN image[n] : Asks(l, n, k) /\ Up(n, l.link)
    BY <2>3 DEF Pending
  <2>5. PICK k \in DOMAIN image[n] : Asks(l, n, k) /\ Up(n, l.link)
    BY <2>4
  <2>6. /\ l.data = image[n][k].id
        /\ \E j \in DOMAIN image : l.data = <<j - 1, l.target>> /\ HoldsFile(image, j, l.target)
        /\ CoveredBy(l.data[2], l.data[1]) /\ l.data[2] = l.target
    BY <1>1, <2>1, <2>2, <2>5, HiddenIsFile
  <2>7. image[n][k] \in LinksOf(n) /\ image[n][k].path = l.link /\ image[n][k].target = t
    BY <2>2, <2>5 DEF Asks, LinksOf
  <2> QED BY <2>1, <2>2, <2>4, <2>5, <2>6, <2>7
<1>3. PICK id : id = promotions[x0].data
  OBVIOUS
<1>4. PICK i0 \in DOMAIN image : \E e \in LinksOf(i0) :
               /\ e.target = t /\ e.id = id
               /\ CoveredBy(e.id[2], e.id[1]) /\ e.id[2] = t
               /\ \E j \in DOMAIN image : e.id = <<j - 1, t>> /\ HoldsFile(image, j, t)
  BY <1>2, <1>3
<1>5. PICK e0 \in LinksOf(i0) :
               /\ e0.target = t /\ e0.id = id
               /\ CoveredBy(id[2], id[1]) /\ id[2] = t
               /\ \E j \in DOMAIN image : id = <<j - 1, t>> /\ HoldsFile(image, j, t)
  BY <1>4
<1>6. ASSUME NEW x \in Group(t)
      PROVE  \E i \in DOMAIN image : \E e \in LinksOf(i) :
               e.path = promotions[x].link /\ Up(i, e.path) /\ e.id = id
  <2>1. PICK i \in DOMAIN image : \E e \in LinksOf(i) :
               /\ e.path = promotions[x].link /\ Up(i, e.path) /\ e.target = t
    BY <1>2, <1>6
  <2>2. PICK e \in LinksOf(i) : e.path = promotions[x].link /\ Up(i, e.path) /\ e.target = t
    BY <2>1
  <2>3. e \in ImageLinks /\ e0 \in ImageLinks
    BY <1>4, <2>1 DEF ImageLinks
  <2>4. e.id = id
    BY <1>1, <1>5, <2>2, <2>3 DEF SharedTargetName
  <2> QED BY <2>2, <2>4
<1>7. Origin(image, "file", id)
  <2>1. PICK j \in DOMAIN image : id = <<j - 1, t>> /\ HoldsFile(image, j, t)
    BY <1>5
  <2>2. PICK k \in DOMAIN image[j] : image[j][k].kind = "file" /\ image[j][k].path = t
    BY <2>1 DEF HoldsFile, FileAt
  <2>3. image[j][k].id = id
    BY <2>1, <2>2 DEF BuilderInv
  <2> QED BY <2>2, <2>3 DEF Origin, AddKinds, NonDirKinds
<1>8. ASSUME NEW y \in DOMAIN out, out[y].kind # "link", out[y].id = id PROVE FALSE
  <2>1. CASE Own(out[y])
    <3>1. PICK i \in DOMAIN image : \E k \in DOMAIN image[i] : Stems(out[y], i, k)
      BY <1>1, <2>1 DEF SeenInv
    <3>2. PICK k \in DOMAIN image[i] : Stems(out[y], i, k)
      BY <3>1
    <3>3. id = <<i - 1, image[i][k].path>> /\ ~CoveredBy(image[i][k].path, i - 1)
      BY <1>8, <3>2 DEF Stems, Written, Up
    <3> QED BY <1>5, <3>3
  <2>2. CASE ~Own(out[y])
    <3>1. out[y] \in ToSet(out)
      BY DEF ToSet
    <3>2. id[2] \notin Targets
      BY <1>8, <2>2, <3>1 DEF OutInv, WrittenFrom
    <3> QED BY <1>5, <3>2
  <2> QED BY <2>1, <2>2
<1> QED BY <1>3, <1>5, <1>6, <1>7, <1>8 DEF GroupFile

LEMMA GroupKeepsOut ==
  ASSUME IInv, LiveInv, StageInv, SeenInv, WaitInv, OutInv, NEW t, EmitGroup(t)
  PROVE  OutInv'
<1> USE DEF IInv
<1> DEFINE main == promotions[Primary(t)]
<1>1. /\ phase = "promote" /\ phase' = "promote" /\ UNCHANGED <<image, recorded, missed>>
      /\ t \in Targets /\ promotions' \in Ungrouped(t)
      /\ emitted' = emitted \cup {main.link} \cup {promotions[i].link : i \in Followers(t)}
  BY DEF EmitGroup, Promotes, Promoting, builder, history
<1> SUFFICES ASSUME Reproducible' PROVE (WrittenOnce /\ WrittenFrom /\ LinksUp)'
  BY DEF OutInv
<1>2. Reproducible /\ WrittenOnce /\ WrittenFrom /\ LinksUp
  BY <1>1, ReproducibleBefore DEF OutInv
<1>3. main.link \notin emitted /\ Primary(t) \in Group(t)
      /\ \E c \in Nat : \E f \in [1..c -> Followers(t)] : WritesGroup(t, c, f)
  BY GroupWrites
<1>4. PICK c \in Nat : \E f \in [1..c -> Followers(t)] : WritesGroup(t, c, f)
  BY <1>3
<1>5. PICK f \in [1..c -> Followers(t)] : WritesGroup(t, c, f)
  BY <1>4
<1>6. PICK n \in Nat : n = Len(out) /\ DOMAIN out = 1..n
  BY LenProperties DEF OutputInv
<1>7. PICK id : id = main.data
  OBVIOUS
<1>8. PICK p : p = main.link
  OBVIOUS
<1>9. /\ DOMAIN out' = 1..(n + 1 + c)
      /\ \A i \in 1..n : out'[i] = out[i]
      /\ out'[n + 1] = Written("file", p, id)
      /\ \A k \in 1..c : out'[n + 1 + k] = Link(promotions[f[k]].link, p)
      /\ \A x \in Followers(t) : \E k \in 1..c : f[k] = x
      /\ \A j, k \in 1..c : f[j] = f[k] => j = k
  BY <1>5, <1>6, <1>7, <1>8 DEF WritesGroup
<1>10. GroupFile(t, id)
  BY <1>1, <1>2, <1>3, <1>7, GroupHasFile
<1>11. \A x \in Followers(t) : x \in Group(t) /\ promotions[x].link \notin emitted
                               /\ promotions[x].link # p
  BY <1>8 DEF Followers
<1>12. \A x, y \in Followers(t) : promotions[x].link = promotions[y].link => x = y
  <2>1. Apart
    BY <1>1, <1>2 DEF WaitInv
  <2> QED BY <1>11, <2>1 DEF Apart, Group
<1>13. \A x \in 1..(n + 1 + c) : x \in 1..n \/ x = n + 1 \/ \E k \in 1..c : x = n + 1 + k
  <2>1. ASSUME NEW x \in 1..(n + 1 + c), x \notin 1..n, x # n + 1
        PROVE  \E k \in 1..c : x = n + 1 + k
    <3>1. x - (n + 1) \in 1..c /\ x = n + 1 + (x - (n + 1))
      BY <2>1
    <3> QED BY <3>1
  <2> QED BY <2>1
<1>14. /\ out'[n + 1].kind = "file" /\ out'[n + 1].path = p /\ out'[n + 1].id = id
       /\ \A k \in 1..c : /\ out'[n + 1 + k].kind = "link" /\ out'[n + 1 + k].target = p
                          /\ out'[n + 1 + k].path = promotions[f[k]].link
                          /\ f[k] \in Followers(t)
  <2>1. out'[n + 1] = Written("file", p, id)
    BY <1>9
  <2>2. ASSUME NEW k \in 1..c
        PROVE  /\ out'[n + 1 + k].kind = "link" /\ out'[n + 1 + k].target = p
               /\ out'[n + 1 + k].path = promotions[f[k]].link
               /\ f[k] \in Followers(t)
    <3>1. out'[n + 1 + k] = Link(promotions[f[k]].link, p)
      BY <1>9
    <3>2. f[k] \in Followers(t)
      BY <1>5
    <3> QED BY ONLY <3>1, <3>2 DEF Link
  <2>3. /\ out'[n + 1].kind = "file" /\ out'[n + 1].path = p /\ out'[n + 1].id = id
    BY ONLY <2>1 DEF Written
  <2> QED BY ONLY <2>2, <2>3
<1>15. \A x \in 1..(n + 1 + c) :
        \/ x \in 1..n /\ out'[x] = out[x]
        \/ x = n + 1 /\ out'[x].kind = "file" /\ out'[x].path = p /\ out'[x].id = id
        \/ \E k \in 1..c : /\ x = n + 1 + k /\ out'[x].kind = "link" /\ out'[x].target = p
                           /\ out'[x].path = promotions[f[k]].link /\ f[k] \in Followers(t)
  BY <1>9, <1>13, <1>14
<1>16. WrittenOnce'
  <2>1. \A x \in 1..n : out[x].path \in emitted
    BY <1>2, <1>6 DEF WrittenOnce
  <2>2. p \notin emitted
    BY <1>3, <1>8
  <2>3. \A j, k \in 1..c : f[j] \in Followers(t) /\ f[k] \in Followers(t)
                           /\ promotions[f[j]].link = promotions[f[k]].link => j = k
    <3>1. \A j, k \in 1..c : f[j] = f[k] => j = k
      BY <1>9
    <3> QED BY ONLY <1>12, <3>1
  <2>4. \A x, y \in 1..n : out[x].path = out[y].path => x = y
    BY <1>2, <1>6 DEF WrittenOnce
  <2>5. \A k \in Followers(t) : promotions[k].link \notin emitted /\ promotions[k].link # p
    BY <1>11
  <2>6. ASSUME NEW x \in 1..(n + 1 + c), NEW y \in 1..(n + 1 + c), out'[x].path = out'[y].path
        PROVE  x = y
    <3>1. CASE x \in 1..n
      BY ONLY <1>15, <2>1, <2>2, <2>4, <2>5, <2>6, <3>1
    <3>2. CASE x = n + 1
      <4>1. x \notin 1..n /\ ~ \E k \in 1..c : x = n + 1 + k
        BY <3>2
      <4>2. out'[y].path = p
        BY ONLY <1>15, <2>6, <4>1
      <4> QED BY ONLY <1>15, <2>1, <2>2, <2>5, <2>6, <3>2, <4>2
    <3>3. CASE x \notin 1..n /\ x # n + 1
      <4>1. PICK k \in 1..c : /\ x = n + 1 + k
                              /\ out'[x].path = promotions[f[k]].link /\ f[k] \in Followers(t)
        BY ONLY <1>15, <2>6, <3>3
      <4>2. y \notin 1..n /\ y # n + 1
        BY ONLY <1>15, <2>1, <2>5, <2>6, <4>1
      <4>3. PICK j \in 1..c : /\ y = n + 1 + j
                              /\ out'[y].path = promotions[f[j]].link /\ f[j] \in Followers(t)
        BY ONLY <1>15, <2>6, <4>2
      <4> QED BY ONLY <2>3, <2>6, <4>1, <4>3
    <3> QED BY <3>1, <3>2, <3>3
  <2>7. \A x \in 1..(n + 1 + c) : out'[x].path \in emitted'
    <3>1. /\ emitted \subseteq emitted' /\ p \in emitted'
          /\ \A k \in Followers(t) : promotions[k].link \in emitted'
      BY <1>1, <1>8
    <3> QED BY ONLY <1>15, <2>1, <3>1
  <2>8. \A x \in 1..n : out[x].kind # "link" => out[x].id # id
    BY <1>6, <1>10 DEF GroupFile
  <2>9. \A x, y \in 1..n : out[x].kind # "link" /\ out[y].kind # "link"
                            /\ out[x].id = out[y].id => x = y
    BY <1>2, <1>6 DEF WrittenOnce
  <2>10. \A x, y \in 1..(n + 1 + c) : out'[x].kind # "link" /\ out'[y].kind # "link"
                                      /\ out'[x].id = out'[y].id => x = y
    BY ONLY <1>15, <2>8, <2>9
  <2> QED BY <1>9, <2>6, <2>7, <2>10 DEF WrittenOnce
<1>17. Targets' \subseteq Targets /\ t \notin Targets'
  <2>1. ToSet(promotions') = {promotions[x] : x \in DOMAIN promotions \ Group(t)}
    BY <1>1, UngroupedIsRest DEF OutputInv
  <2>2. \A x \in DOMAIN promotions' : promotions'[x] \in ToSet(promotions')
    BY DEF ToSet
  <2> QED BY <2>1, <2>2 DEF Targets, Group
<1>18. WrittenFrom'
  <2>1. \A e \in ToSet(out') :
          e.kind # "link" => e \in ToSet(out) \/ (e.kind = "file" /\ e.id = id)
    <3>1. \A x \in 1..(n + 1 + c) : out'[x].kind # "link" =>
            out'[x] \in ToSet(out) \/ (out'[x].kind = "file" /\ out'[x].id = id)
      <4>1. \A x \in 1..n : out[x] \in ToSet(out)
        BY <1>6 DEF ToSet
      <4> QED BY ONLY <1>15, <4>1
    <3> QED BY <1>9, <3>1 DEF ToSet
  <2>2. \A q, h : CoveredBy(q, h)' <=> CoveredBy(q, h)
    BY <1>1 DEF CoveredBy
  <2>3. \A e \in ToSet(out) :
          /\ e.kind # "link" => Origin(image, e.kind, e.id)
          /\ e.kind # "link" /\ ~Own(e) => CoveredBy(e.id[2], e.id[1]) /\ e.id[2] \notin Targets
    BY <1>2 DEF WrittenFrom
  <2>4. \A e \in ToSet(out') : e.kind # "link" => Origin(image, e.kind, e.id)
    BY <1>10, <2>1, <2>3 DEF GroupFile
  <2>5. \A e \in ToSet(out') : e.kind # "link" /\ ~Own(e) =>
          CoveredBy(e.id[2], e.id[1])' /\ e.id[2] \notin Targets'
    BY <1>10, <1>17, <2>1, <2>2, <2>3 DEF GroupFile
  <2> QED BY <1>1, <2>4, <2>5 DEF WrittenFrom, Own
<1>19. ASSUME NEW z \in (n + 1)..(n + 1 + c), NEW q, q = out'[z].path PROVE LinkUp(z, q)'
  <2>1. PICK x \in Group(t) : promotions[x].link = q
    <3>1. CASE z = n + 1
      BY <1>3, <1>8, <1>14, <1>19, <3>1
    <3>2. CASE z # n + 1
      <4>1. PICK k \in 1..c : z = n + 1 + k
        BY <1>13, <1>19, <3>2
      <4> QED BY <1>11, <1>14, <1>19, <4>1
    <3> QED BY <3>1, <3>2
  <2>2. PICK i \in DOMAIN image : \E e \in LinksOf(i) : e.path = q /\ Up(i, q) /\ e.id = id
    BY <1>10, <2>1 DEF GroupFile
  <2>3. PICK e \in LinksOf(i) : e.path = q /\ Up(i, q) /\ e.id = id
    BY <2>2
  <2>4. Carries(z, id)'
    <3>1. CASE z = n + 1
      BY <1>14, <3>1 DEF Carries
    <3>2. CASE z # n + 1
      <4>1. PICK k \in 1..c : z = n + 1 + k
        BY <1>13, <1>19, <3>2
      <4>2. n + 1 \in 1..(z - 1)
        BY <4>1
      <4>3. out'[z].kind = "link" /\ out'[z].target = p
        BY <1>14, <4>1
      <4> QED BY <1>14, <4>2, <4>3 DEF Carries
    <3> QED BY <3>1, <3>2
  <2>5. Up(i, q)' /\ e \in LinksOf(i)'
    BY <1>1, <2>3 DEF Up, CoveredBy, LinksOf
  <2>6. Carries(z, e.id)'
    BY <2>3, <2>4
  <2> QED BY <1>1, <2>3, <2>5, <2>6 DEF LinkUp
<1>20. LinksUp'
  <2>1. ASSUME NEW x \in DOMAIN out', ~Own(out'[x]), NEW q, q = out'[x].path PROVE LinkUp(x, q)'
    <3>1. CASE x \in 1..n
      <4>1. x \in DOMAIN out /\ out'[x] = out[x]
        BY <1>6, <1>9, <3>1
      <4>2. LinkUp(x, q)
        BY <1>2, <2>1, <4>1 DEF LinksUp, Own
      <4> QED BY <1>1, <1>6, <1>9, <4>1, <4>2, LinkUpStays
    <3>2. CASE x \notin 1..n
      <4>1. x \in (n + 1)..(n + 1 + c)
        BY <1>9, <3>2
      <4> QED BY <1>19, <2>1, <4>1
    <3> QED BY <3>1, <3>2
  <2>2. \A x \in DOMAIN out' : ~Own(out'[x]) => LinkUp(x, out[x].path)'
    BY <2>1
  <2> QED BY <2>2 DEF LinksUp, Own
<1> QED BY <1>16, <1>18, <1>20

LEMMA OutKeeps ==
  ASSUME IInv, LiveInv, StageInv, SeenInv, WaitInv, OutInv, [Next]_vars
  PROVE  OutInv'
<1> USE DEF IInv
<1>1. CASE PackLayer \/ PackEntry
  BY <1>1 DEF PackLayer, PackEntry, OutInv
<1>2. CASE StartMerge
  <2>1. out' = <<>>
    BY <1>2 DEF StartMerge, BuilderInv
  <2>2. DOMAIN out' = {} /\ ToSet(out') = {}
    BY <2>1 DEF ToSet
  <2> QED BY <2>2 DEF OutInv, WrittenOnce, WrittenFrom, LinksUp
<1>3. phase # "build" => image' = image /\ recorded \subseteq recorded' /\ (missed => missed')
  BY HistoryGrows
<1>4. CASE WriteEntry
  <2>1. phase # "build"
    BY <1>4 DEF WriteEntry, LiveEntry, Reading
  <2> QED BY <1>3, <1>4, <2>1, WriteKeepsOut
<1>5. CASE EmitLink
  BY <1>5, LinkKeepsOut
<1>6. ASSUME NEW t, EmitGroup(t) PROVE OutInv'
  BY <1>6, GroupKeepsOut
<1>7. ASSUME phase = "layers", UNCHANGED <<out, emitted>> PROVE OutInv'
  BY <1>3, <1>7, RestKeepsOut
<1>8. CASE SkipRoot \/ RecordWhiteout \/ BufferSuppressed \/ DropSuppressed \/ SkipEmitted
           \/ DeferLink \/ PromoteLink
  BY <1>7, <1>8 DEF SkipRoot, RecordWhiteout, BufferSuppressed, DropSuppressed, SkipEmitted,
                    DeferLink, PromoteLink, LiveLink, Reading, trackers
<1>9. CASE EndLayer \/ DrainSorted
  BY <1>7, <1>9 DEF EndLayer, DrainSorted
<1>10. ASSUME UNCHANGED <<image, recorded, missed, out, emitted>>, Targets' \subseteq Targets,
              phase # "build", phase' = "layers" => phase = "layers"
       PROVE  OutInv'
  BY <1>10, RestKeepsOut
<1>11. UNCHANGED promotions => Targets' = Targets
  BY DEF Targets
<1>12. ASSUME NEW t, SkipGroup(t) PROVE OutInv'
  <2>1. /\ promotions' \in Ungrouped(t) /\ phase = "promote" /\ phase' = "promote"
        /\ UNCHANGED <<image, recorded, missed, out, emitted>>
    BY <1>12 DEF SkipGroup, Promoting, builder, history
  <2>2. ToSet(promotions') = {promotions[x] : x \in DOMAIN promotions \ Group(t)}
    BY <2>1, UngroupedIsRest DEF OutputInv
  <2>3. \A x \in DOMAIN promotions' : promotions'[x] \in ToSet(promotions')
    BY DEF ToSet
  <2>4. Targets' \subseteq Targets
    BY <2>2, <2>3 DEF Targets
  <2> QED BY <1>10, <2>1, <2>4
<1>13. CASE GroupsDone
  BY <1>10, <1>11, <1>13 DEF GroupsDone, builder, trackers, history
<1>14. CASE DropLink
  BY <1>10, <1>11, <1>14 DEF DropLink, Linking, builder, history
<1>15. CASE Finish \/ Failure
  <2>1. (\E x : Stop(x)) /\ phase # "build"
    BY <1>15 DEF Finish, Failure, ReadFails, WriteFails, FinishFails, LiveEntry, Reading,
                 Promotes, Promoting
  <2> QED BY <1>10, <1>11, <2>1 DEF Stop, builder, trackers, history
<1>16. CASE Rested
  <2>1. UNCHANGED <<image, recorded, missed, out, emitted, promotions, phase>>
    BY <1>16 DEF Rested, builder, trackers, history
  <2>2. CASE phase = "build"
    BY <2>1, <2>2 DEF OutInv
  <2> QED BY <1>10, <1>11, <2>1, <2>2
<1> QED
  BY WriterRests, <1>1, <1>2, <1>4, <1>5, <1>6, <1>8, <1>9, <1>12, <1>13, <1>14, <1>15, <1>16
  DEF Next, Build, Merge

Whole == IInv /\ LiveInv /\ StageInv /\ SeenInv /\ WaitInv /\ OutInv

LEMMA WholeAlways == Spec => []Whole
<1>1. Init => Whole
  <2> SUFFICES ASSUME Init PROVE Whole
    OBVIOUS
  <2>1. BufferInv /\ PromotionInv
    BY DEF Init, BufferInv, PromotionInv, EmptyFS
  <2>2. IInv
    BY <2>1, InitKeeps, BuilderInitially, OutputInitially DEF IInv
  <2>3. LiveInv
    BY LiveStarts
  <2>4. StageInv /\ SeenInv /\ WaitInv /\ OutInv
    BY DEF Init, StageInv, SeenInv, WaitInv, OutInv
  <2> QED BY <2>2, <2>3, <2>4 DEF Whole
<1>2. Whole /\ [Next]_vars => Whole'
  <2> SUFFICES ASSUME Whole, [Next]_vars PROVE Whole'
    OBVIOUS
  <2>1. IInv'
    BY NextKeeps, BuilderKeeps, BuffersKeep, OutputKeeps DEF Whole, IInv
  <2>2. LiveInv'
    BY <2>1, LiveKeeps DEF Whole, IInv
  <2>3. StageInv' /\ SeenInv' /\ WaitInv' /\ OutInv'
    BY StageKeeps, SeenKeeps, WaitKeeps, OutKeeps DEF Whole
  <2> QED BY <2>1, <2>2, <2>3 DEF Whole
<1> QED BY <1>1, <1>2, PTL DEF Spec

----------------------------------------------------------------------------
(* The merged stream and the file system. *)

(* A content has one kind. *)
LEMMA OneOrigin ==
  ASSUME TrieInv, BuilderInv, ItemsChosen, NEW k1, NEW k2, NEW id,
         Origin(image, k1, id), Origin(image, k2, id)
  PROVE  k1 = k2
<1>1. PICK i \in DOMAIN image : \E k \in DOMAIN image[i] :
        image[i][k].kind \in AddKinds \ {"link"} /\ image[i][k].kind = k1 /\ image[i][k].id = id
  BY DEF Origin
<1>2. PICK k \in DOMAIN image[i] :
        image[i][k].kind \in AddKinds \ {"link"} /\ image[i][k].kind = k1 /\ image[i][k].id = id
  BY <1>1
<1>3. PICK j \in DOMAIN image : \E h \in DOMAIN image[j] :
        image[j][h].kind \in AddKinds \ {"link"} /\ image[j][h].kind = k2 /\ image[j][h].id = id
  BY DEF Origin
<1>4. PICK h \in DOMAIN image[j] :
        image[j][h].kind \in AddKinds \ {"link"} /\ image[j][h].kind = k2 /\ image[j][h].id = id
  BY <1>3
<1>5. id = <<i - 1, image[i][k].path>> /\ id = <<j - 1, image[j][h].path>>
  BY <1>2, <1>4 DEF BuilderInv
<1>6. i = j /\ image[i][k].path = image[i][h].path
  BY <1>5, ImageParts
<1>7. CASE image[i][k].path \in Paths
  <2>1. Adds(image, i, k, image[i][k].path) /\ Adds(image, i, h, image[i][k].path)
    BY <1>2, <1>4, <1>6 DEF Adds
  <2>2. k = h
    BY <1>2, <1>4, <1>6, <1>7, <2>1 DEF BuilderInv
  <2> QED BY <1>2, <1>4, <1>6, <2>2
<1>8. CASE image[i][k].path \notin Paths
  BY <1>2, <1>4, <1>6, <1>8 DEF ItemsChosen, AddKinds, NonDirKinds
<1> QED BY <1>7, <1>8

LEMMA UpIsThere ==
  ASSUME IInv, LiveInv, SeenInv, phase # "build", Reproducible, left = 0,
         NEW i \in DOMAIN image, NEW k \in DOMAIN image[i], NEW p \in Paths,
         Adds(image, i, k, p), Up(i, p)
  PROVE  p \in DOMAIN fs /\ fs[p].id = image[i][k].id
<1> USE DEF IInv
<1>1. left <= i /\ ~missed /\ ~FileBecomesDir
  BY ImageParts DEF Reproducible
<1>2. Newest(image, i, p, Len(image))
  BY <1>1, UpIsNewest
<1>3. p \in DOMAIN fs /\ fs[p].layer = i - 1
  BY <1>2 DEF LiveInv, HeldIsThere, HoldsAdd
<1>4. fs[p].layer + 1 = i
  BY <1>3, ImageParts
<1>5. PICK h \in DOMAIN image[i] : Adds(image, i, h, p) /\ image[i][h].id = fs[p].id
  BY <1>3, <1>4 DEF LiveInv, ThereIsHeld
<1>6. h = k
  BY <1>5 DEF BuilderInv
<1> QED BY <1>3, <1>5, <1>6

(* Entry y carries the content of entry x. *)
From(x, y) ==
  /\ out[y].kind # "link"
  /\ \/ out[x].kind # "link" /\ y = x
     \/ out[x].kind = "link" /\ y < x /\ out[y].path = out[x].target

(* What the output holds is what the file system has. *)
EntriesAreOverlay ==
  /\ \A x, y \in DOMAIN out : out[x].path = out[y].path => x = y
  /\ \A x, y \in DOMAIN out :
       out[x].kind # "link" /\ out[y].kind # "link" /\ out[x].id = out[y].id => x = y
  /\ \A p \in DOMAIN fs : \E x \in DOMAIN out : out[x].path = p
  /\ \A x \in DOMAIN out :
       /\ out[x].path \in DOMAIN fs
       /\ \E y \in DOMAIN out :
            From(x, y) /\ fs[out[x].path].kind = out[y].kind /\ fs[out[x].path].id = out[y].id

LEMMA OutputIsOverlay ==
  ASSUME Whole, result = "ok", Reproducible
  PROVE  EntriesAreOverlay
<1> USE DEF Whole, IInv
<1>1. phase # "build" /\ left = 0 /\ promotions = <<>> /\ deferred = <<>> /\ ~missed /\ ~BareOpaque
  BY DEF StageInv, Reproducible
<1>2. WrittenOnce /\ WrittenFrom /\ LinksUp
  BY <1>1 DEF OutInv
<1>3. DOMAIN out = 1..Len(out) /\ Len(out) \in Nat
  BY LenProperties DEF OutputInv
<1>4. ASSUME NEW p \in DOMAIN fs PROVE \E x \in DOMAIN out : out[x].path = p
  <2>1. PICK i \in DOMAIN image : /\ Newest(image, i, p, Len(image))
                                  /\ \E k \in DOMAIN image[i] : Adds(image, i, k, p)
    BY DEF LiveInv, ThereIsHeld
  <2>2. PICK k \in DOMAIN image[i] : Adds(image, i, k, p)
    BY <2>1
  <2>3. p \in Paths /\ p # Root
    BY DEF BuilderInv
  <2>4. Up(i, p)
    BY <1>1, <2>1, <2>3, NewestIsUp
  <2>5. Done(i, k)
    BY <1>1, DoneHere, ImageParts
  <2>6. Accounted(i, k)
    BY <1>1, <2>5 DEF SeenInv
  <2>7. image[i][k].kind \in AddKinds /\ image[i][k].path = p /\ ~CoveredBy(p, i - 1)
    BY <2>2, <2>4 DEF Adds, Up
  <2>8. CASE p \in OwnPaths
    BY <2>8 DEF OwnPaths
  <2>9. CASE image[i][k].kind = "link"
    <3>1. Met(i, k)
      BY <1>1, <2>5, <2>9 DEF WaitInv
    <3>2. ToSet(deferred) = {} /\ ToSet(promotions) = {}
      BY <1>1 DEF ToSet
    <3>3. p \in emitted
      BY <2>7, <3>1, <3>2 DEF Met
    <3> QED BY <3>3 DEF OutputInv
  <2> QED BY <2>3, <2>6, <2>7, <2>8, <2>9 DEF Accounted
<1>5. ASSUME NEW x \in DOMAIN out
      PROVE  /\ out[x].path \in DOMAIN fs
             /\ \E y \in DOMAIN out :
                  From(x, y) /\ fs[out[x].path].id = out[y].id
  <2>1. CASE Own(out[x])
    <3>1. PICK i \in DOMAIN image : \E k \in DOMAIN image[i] : Stems(out[x], i, k)
      BY <1>1, <2>1 DEF SeenInv
    <3>2. PICK k \in DOMAIN image[i] : Stems(out[x], i, k)
      BY <3>1
    <3>3. PICK p \in Paths : p = image[i][k].path
      BY <3>2 DEF Stems
    <3>4. /\ image[i][k].kind \in {"dir", "file", "other"} /\ out[x].path = p
          /\ out[x].id = <<i - 1, p>> /\ Up(i, p) /\ out[x].kind # "link"
      BY <3>2, <3>3 DEF Stems, Written
    <3>5. Adds(image, i, k, p) /\ image[i][k].id = <<i - 1, p>>
      BY <3>3, <3>4 DEF Adds, BuilderInv, AddKinds, NonDirKinds
    <3>6. p \in DOMAIN fs /\ fs[p].id = image[i][k].id
      BY <1>1, <3>4, <3>5, UpIsThere
    <3> QED BY <3>4, <3>5, <3>6 DEF From
  <2>2. CASE ~Own(out[x])
    <3>1. PICK p : p = out[x].path
      OBVIOUS
    <3>2. LinkUp(x, p)
      BY <1>2, <2>2, <3>1 DEF LinksUp
    <3>3. PICK i \in DOMAIN image : \E e \in LinksOf(i) : e.path = p /\ Up(i, p) /\ Carries(x, e.id)
      BY <3>2 DEF LinkUp
    <3>4. PICK k \in DOMAIN image[i] : /\ image[i][k].kind = "link" /\ image[i][k].path = p
                                       /\ Up(i, p) /\ Carries(x, image[i][k].id)
      BY <3>3 DEF LinksOf
    <3>5. Adds(image, i, k, p) /\ p \in Paths
      BY <3>4 DEF Adds, AddKinds, NonDirKinds, LiveInv, ItemsChosen
    <3>6. p \in DOMAIN fs /\ fs[p].id = image[i][k].id
      BY <1>1, <3>4, <3>5, UpIsThere
    <3>7. PICK id : id = image[i][k].id
      OBVIOUS
    <3>8. \E y \in DOMAIN out : From(x, y) /\ out[y].id = id
      <4>1. CASE out[x].kind # "link"
        BY <3>4, <3>7, <4>1 DEF Carries, From
      <4>2. CASE out[x].kind = "link"
        <5>1. PICK y \in 1..(x - 1) : /\ out[y].kind # "link" /\ out[y].path = out[x].target
                                      /\ out[y].id = id
          BY <3>4, <3>7, <4>2 DEF Carries
        <5>2. y \in DOMAIN out /\ y < x
          BY <1>3, <5>1
        <5> QED BY <4>2, <5>1, <5>2 DEF From
      <4> QED BY <4>1, <4>2
    <3> QED BY <3>1, <3>6, <3>7, <3>8
  <2> QED BY <2>1, <2>2
<1>6. ASSUME NEW p \in DOMAIN fs, NEW y \in DOMAIN out, out[y].kind # "link",
             fs[p].id = out[y].id
      PROVE  fs[p].kind = out[y].kind
  <2>1. Origin(image, out[y].kind, out[y].id)
    BY <1>2, <1>6 DEF WrittenFrom, ToSet
  <2>2. Origin(image, fs[p].kind, fs[p].id)
    BY DEF LiveInv, KindsKept
  <2> QED BY <1>6, <2>1, <2>2, OneOrigin DEF LiveInv
<1>7. \A x \in DOMAIN out :
       /\ out[x].path \in DOMAIN fs
       /\ \E y \in DOMAIN out :
            From(x, y) /\ fs[out[x].path].kind = out[y].kind /\ fs[out[x].path].id = out[y].id
  BY <1>5, <1>6 DEF From
<1> QED BY <1>2, <1>4, <1>7 DEF EntriesAreOverlay, WrittenOnce

----------------------------------------------------------------------------
(* What extraction makes of the merged stream. *)

(* The extraction is the recursion that defines it. *)
LEMMA ExtractionUnfolds ==
  ASSUME Len(out) \in Nat
  PROVE  /\ Extraction[0] = EmptyFS
         /\ \A n \in 1..Len(out) : Extraction[n] = Extract(Extraction[n - 1], n)
<1> DEFINE N == Len(out)
           Steps(g, m) ==
             g = [n \in 0..m |-> IF n = 0 THEN EmptyFS ELSE Extract(g[n - 1], n)]
           T == {m \in Nat : ~ \E g : Steps(g, m)}
<1> HIDE DEF N
<1>1. T = {}
  <2> SUFFICES ASSUME T # {} PROVE FALSE
    OBVIOUS
  <2>1. PICK m \in T : \A j \in T : <<j, m>> \notin OpToRel(<, Nat)
    <3>1. T \subseteq Nat /\ T # {}
      OBVIOUS
    <3> HIDE DEF T
    <3> QED BY <3>1, WFMin, NatLessThanWellFounded, Zenon
  <2>2. m \in Nat /\ \A j \in T : ~(j < m)
    BY <2>1 DEF OpToRel
  <2>3. CASE m = 0
    <3> DEFINE g == [n \in 0..0 |-> EmptyFS]
    <3>1. Steps(g, 0)
      OBVIOUS
    <3> QED BY <2>1, <2>3, <3>1
  <2>4. CASE m # 0
    <3>1. m - 1 \in Nat /\ m - 1 < m
      BY ONLY <2>2, <2>4
    <3>2. m - 1 \notin T
      <4> HIDE DEF T
      <4> QED BY ONLY <2>2, <3>1
    <3>3. PICK g : Steps(g, m - 1)
      BY <3>1, <3>2
    <3> DEFINE h == [n \in 0..m |-> IF n = 0 THEN EmptyFS ELSE Extract(g[n - 1], n)]
    <3>4. \A n \in 0..(m - 1) : h[n] = g[n]
      BY <2>2, <3>3
    <3>5. \A n \in 0..m : n # 0 => n - 1 \in 0..(m - 1)
      BY <2>2
    <3>6. h = [n \in 0..m |-> IF n = 0 THEN EmptyFS ELSE Extract(h[n - 1], n)]
      <4> DEFINE a(n) == IF n = 0 THEN EmptyFS ELSE Extract(g[n - 1], n)
                 b(n) == IF n = 0 THEN EmptyFS ELSE Extract(h[n - 1], n)
      <4>1. \A n \in 0..m : a(n) = b(n)
        BY <3>4, <3>5
      <4> QED BY <4>1
    <3> QED BY <2>1, <3>6
  <2> QED BY <2>3, <2>4
<1>2. ASSUME N \in Nat PROVE Steps(Extraction, N)
  <2>1. \E g : Steps(g, N)
    BY <1>1, <1>2
  <2>2. Extraction = CHOOSE g : Steps(g, N)
    BY DEF Extraction, N
  <2> HIDE DEF Steps
  <2> QED BY <2>1, <2>2
<1> QED BY <1>2 DEF N

(* The paths of the first n entries, each with what its entry carries. *)
Extracts(f, n) ==
  /\ DOMAIN f = {out[x].path : x \in 1..n}
  /\ \A x \in 1..n, y \in 1..n :
       From(x, y) => f[out[x].path] = [kind |-> out[y].kind, id |-> out[y].id, ino |-> y]

LEMMA OneMoreExtracted ==
  ASSUME NothingBelowFiles, EntriesAreOverlay, NEW N \in Nat, DOMAIN out = 1..N,
         NEW n \in 1..N, NEW f, Extracts(f, n - 1)
  PROVE  Extracts(Extract(f, n), n)
<1> DEFINE e == out[n]
<1>1. PICK z \in 1..N : /\ From(n, z) /\ fs[e.path].kind = out[z].kind /\ e.path \in DOMAIN fs
  BY DEF EntriesAreOverlay
<1> DEFINE node == [kind |-> out[z].kind, id |-> out[z].id, ino |-> z]
<1>2. n - 1 \in Nat /\ \A x \in 1..n : x = n \/ x \in 1..(n - 1)
  OBVIOUS
<1>3. z \in 1..n /\ (z = n \/ z \in 1..(n - 1))
  BY <1>1 DEF From
<1>4. DOMAIN f = {out[x].path : x \in 1..(n - 1)}
  BY DEF Extracts
<1>5. n \in DOMAIN out /\ \A x \in 1..(n - 1) : x \in DOMAIN out /\ x # n
  OBVIOUS
<1>6. e.path \notin DOMAIN f
  <2>1. \A x \in DOMAIN out : out[x].path = out[n].path => x = n
    BY <1>5 DEF EntriesAreOverlay
  <2> QED BY ONLY <1>4, <1>5, <2>1
<1>7. \A p \in DOMAIN f : p \in DOMAIN fs
  <2>1. \A x \in DOMAIN out : out[x].path \in DOMAIN fs
    BY DEF EntriesAreOverlay
  <2> QED BY ONLY <1>4, <1>5, <2>1
<1>8. Extract(f, n) = Put(f, e.path, node)
  <2>1. CASE e.kind # "link"
    <3>1. z = n
      BY <1>1, <2>1 DEF From
    <3> QED BY <2>1, <3>1 DEF Extract
  <2>2. CASE e.kind = "link"
    <3>1. z \in 1..(n - 1) /\ out[z].path = e.target /\ out[z].kind # "link" /\ From(z, z)
      BY <1>1, <1>2, <1>3, <2>2 DEF From
    <3>2. e.target \in DOMAIN f /\ f[e.target] = node
      BY <1>4, <3>1 DEF Extracts
    <3> QED BY <2>2, <3>2 DEF Extract
  <2> QED BY <2>1, <2>2
<1>9. node.kind # "dir" => \A p \in DOMAIN f : ~Covers(e.path, p)
  <2>1. ASSUME node.kind # "dir", NEW p \in DOMAIN f, Covers(e.path, p) PROVE FALSE
    <3>1. Above(e.path, p)
      BY <1>6, <2>1 DEF Above
    <3> QED BY <1>1, <1>7, <2>1, <3>1 DEF NothingBelowFiles
  <2> QED BY <2>1
<1> HIDE DEF node
<1>10. Put(f, e.path, node) =
        [p \in DOMAIN f \cup {e.path} |-> IF p = e.path THEN node ELSE f[p]]
  <2> DEFINE kept == IF node.kind = "dir" THEN {e.path} ELSE {p \in DOMAIN f : Covers(e.path, p)}
  <2>1. (DOMAIN f \ kept) \cup {e.path} = DOMAIN f \cup {e.path}
    BY <1>9
  <2> QED BY <2>1 DEF Put
<1> DEFINE g == [p \in DOMAIN f \cup {e.path} |-> IF p = e.path THEN node ELSE f[p]]
<1>11. DOMAIN g = {out[x].path : x \in 1..n}
  BY <1>2, <1>4
<1>12. ASSUME NEW x \in 1..n, NEW y \in 1..n, From(x, y)
       PROVE  g[out[x].path] = [kind |-> out[y].kind, id |-> out[y].id, ino |-> y]
  <2>1. CASE x = n
    <3>1. y = z
      <4>1. y \in DOMAIN out /\ z \in DOMAIN out
        BY <1>1, <1>2, <1>12, <1>5
      <4>2. out[y].path = out[z].path => y = z
        BY <4>1 DEF EntriesAreOverlay
      <4> QED BY ONLY <1>1, <1>12, <2>1, <4>2 DEF From
    <3> QED BY <2>1, <3>1 DEF node
  <2>2. CASE x \in 1..(n - 1)
    <3>1. y \in 1..(n - 1)
      BY <1>2, <1>12, <2>2 DEF From
    <3>2. out[x].path \in DOMAIN f /\ out[x].path # e.path
      BY <1>4, <1>6, <2>2
    <3>3. f[out[x].path] = [kind |-> out[y].kind, id |-> out[y].id, ino |-> y]
      BY <1>12, <2>2, <3>1 DEF Extracts
    <3> QED BY <3>2, <3>3
  <2> QED BY <1>2, <2>1, <2>2
<1>13. Extract(f, n) = g
  BY <1>8, <1>10
<1> HIDE DEF g
<1> QED BY <1>11, <1>12, <1>13 DEF Extracts

LEMMA StreamExtracts ==
  ASSUME NothingBelowFiles, EntriesAreOverlay, NEW N \in Nat, N = Len(out), DOMAIN out = 1..N
  PROVE  Extracts(Extracted, N)
<1> DEFINE T == {n \in 0..N : ~Extracts(Extraction[n], n)}
<1>1. T = {}
  <2> SUFFICES ASSUME T # {} PROVE FALSE
    OBVIOUS
  <2>1. PICK n \in T : \A j \in T : <<j, n>> \notin OpToRel(<, Nat)
    <3>1. T \subseteq Nat /\ T # {}
      OBVIOUS
    <3> HIDE DEF T
    <3> QED BY <3>1, WFMin, NatLessThanWellFounded, Zenon
  <2>2. n \in 0..N /\ \A j \in T : j \in Nat
    <3>1. \A j \in T : j \in 0..N /\ j \in Nat
      OBVIOUS
    <3>2. n \in T
      BY <2>1
    <3> HIDE DEF T
    <3> QED BY ONLY <3>1, <3>2
  <2>3. \A j \in T : ~(j < n)
    <3> HIDE DEF T
    <3> QED BY ONLY <2>1, <2>2 DEF OpToRel
  <2>4. CASE n = 0
    <3>1. Extraction[0] = EmptyFS
      BY ExtractionUnfolds
    <3>2. DOMAIN EmptyFS = {} /\ {out[x].path : x \in 1..0} = {} /\ 1..0 = {}
      BY DEF EmptyFS
    <3> QED BY <2>1, <2>4, <3>1, <3>2 DEF Extracts
  <2>5. CASE n # 0
    <3>1. n \in 1..N /\ n - 1 \in 0..N /\ n - 1 < n
      BY <2>5, <2>2
    <3>2. n - 1 \notin T
      <4> HIDE DEF T
      <4> QED BY ONLY <2>3, <3>1
    <3>3. Extracts(Extraction[n - 1], n - 1)
      BY <3>2, <3>1
    <3>4. Extraction[n] = Extract(Extraction[n - 1], n)
      BY <3>1, ExtractionUnfolds
    <3>5. Extracts(Extract(Extraction[n - 1], n), n)
      BY <3>3, <3>1, OneMoreExtracted
    <3> QED BY <2>1, <3>4, <3>5
  <2> QED BY <2>4, <2>5
<1> QED BY <1>1 DEF Extracted

(* The merged stream, extracted, is the file system the layers describe:   *)
(* at the end every path that exists was written, once, with its kind and  *)
(* its content, and two paths are links to one file exactly when they are  *)
(* in the layered file system.  What the newest layer that has a path      *)
(* holds there is what nothing recorded by the merge hides, so that it is  *)
(* written as soon as it is read, or waits as a link that is written when  *)
(* all layers were read.                                                   *)
THEOREM MergeIsOverlay == Spec => []MergedIsOverlay
<1>1. ASSUME Whole, result = "ok", Reproducible
      PROVE  /\ Contents(Extracted) = Contents(fs)
             /\ \A p, q \in DOMAIN fs : fs[p].kind # "dir" =>
                  (fs[p].id = fs[q].id <=> Extracted[p].ino = Extracted[q].ino)
  <2>1. EntriesAreOverlay
    BY <1>1, OutputIsOverlay
  <2>2. PICK N \in Nat : N = Len(out) /\ DOMAIN out = 1..N
    BY <1>1, LenProperties DEF Whole, IInv, OutputInv
  <2>3. Extracts(Extracted, N)
    BY <1>1, <2>1, <2>2, StreamExtracts DEF Whole, LiveInv
  <2>4. DOMAIN Extracted = DOMAIN fs
    <3>1. DOMAIN Extracted = {out[x].path : x \in DOMAIN out}
      BY <2>2, <2>3 DEF Extracts
    <3>2. \A p \in DOMAIN fs : p \in DOMAIN Extracted
      BY <2>1, <3>1 DEF EntriesAreOverlay
    <3>3. \A p \in DOMAIN Extracted : p \in DOMAIN fs
      BY <2>1, <3>1 DEF EntriesAreOverlay
    <3> QED BY <3>2, <3>3
  <2>5. ASSUME NEW p \in DOMAIN fs
        PROVE  \E y \in DOMAIN out :
                 /\ out[y].kind # "link" /\ fs[p].kind = out[y].kind /\ fs[p].id = out[y].id
                 /\ Extracted[p].kind = fs[p].kind /\ Extracted[p].id = fs[p].id
                 /\ Extracted[p].ino = y
    <3>1. PICK x \in DOMAIN out : out[x].path = p
      BY <2>1 DEF EntriesAreOverlay
    <3>2. PICK y \in DOMAIN out :
            From(x, y) /\ fs[p].kind = out[y].kind /\ fs[p].id = out[y].id
      BY <2>1, <3>1 DEF EntriesAreOverlay
    <3>3. Extracted[p] = [kind |-> out[y].kind, id |-> out[y].id, ino |-> y]
      BY <2>2, <2>3, <3>1, <3>2 DEF Extracts
    <3>4. Extracted[p].kind = out[y].kind /\ Extracted[p].id = out[y].id /\ Extracted[p].ino = y
      BY ONLY <3>3
    <3> QED BY <3>2, <3>4 DEF From
  <2>6. \A p \in DOMAIN fs : Extracted[p].kind = fs[p].kind /\ Extracted[p].id = fs[p].id
    BY <2>5
  <2>7. Contents(Extracted) = Contents(fs)
    BY <2>4, <2>6 DEF Contents
  <2>8. \A p, q \in DOMAIN fs : fs[p].id = fs[q].id <=> Extracted[p].ino = Extracted[q].ino
    <3>1. \A x, y \in DOMAIN out :
            out[x].kind # "link" /\ out[y].kind # "link" /\ out[x].id = out[y].id => x = y
      BY <2>1 DEF EntriesAreOverlay
    <3>2. ASSUME NEW p \in DOMAIN fs, NEW q \in DOMAIN fs
          PROVE  fs[p].id = fs[q].id <=> Extracted[p].ino = Extracted[q].ino
      <4>1. PICK y \in DOMAIN out : /\ out[y].kind # "link" /\ fs[p].id = out[y].id
                                    /\ Extracted[p].ino = y
        BY ONLY <2>5, <3>2
      <4>2. PICK z \in DOMAIN out : /\ out[z].kind # "link" /\ fs[q].id = out[z].id
                                    /\ Extracted[q].ino = z
        BY ONLY <2>5, <3>2
      <4> QED BY <3>1, <4>1, <4>2
    <3> QED BY <3>2
  <2> QED BY <2>7, <2>8
<1>2. Whole => MergedIsOverlay
  BY <1>1 DEF MergedIsOverlay
<1> QED BY <1>2, WholeAlways, PTL

----------------------------------------------------------------------------
(* The writer. *)

(* Where an error can be on its way out, and that the flag is the sink's.  *)
WriterInv ==
  /\ failed <=> error = "sink"
  /\ phase = "build" => error = "none"
  /\ error \in {"none", "sink", "entry"}
  /\ phase = "layers" /\ error # "none" => left > 0
  /\ phase \in {"promote", "link"} => left = 0
  /\ result = "none" <=> phase # "done"
  /\ WriteErrorIsBlamed

LEMMA WriterKeeps ==
  ASSUME WriterInv, [Next]_vars
  PROVE  WriterInv'
<1>1. CASE GoesWrong
  <2>1. /\ UNCHANGED <<phase, left, result>> /\ result = "none"
        /\ phase # "build" /\ (phase = "layers" => left > 0)
    BY <1>1 DEF GoesWrong, EntryGoesWrong, FinishGoesWrong, WriteGoesWrong, LiveEntry, Reading,
                Going
  <2>2. PICK e \in WriteErrors : WriteGoesWrong(e)
    BY <1>1 DEF GoesWrong, EntryGoesWrong, FinishGoesWrong
  <2>3. error = "none"
    BY <1>1 DEF GoesWrong, EntryGoesWrong, FinishGoesWrong, LiveEntry, Reading, Going
  <2> QED BY <2>1, <2>2, <2>3
          DEF WriteGoesWrong, WriteErrors, Noted, WriterInv, WriteErrorIsBlamed
<1>2. CASE Failure \/ Finish
  BY <1>2 DEF Failure, ReadFails, WriteFails, FinishFails, Finish, Stop, Going, WriterInv,
              WriteErrorIsBlamed, writer
<1>3. CASE UNCHANGED <<phase, left, error, failed, result>>
  BY <1>3 DEF WriterInv, WriteErrorIsBlamed
<1>4. CASE StartMerge \/ EndLayer \/ DrainSorted \/ GroupsDone
  BY <1>4 DEF StartMerge, EndLayer, DrainSorted, GroupsDone, Going, WriterInv,
              WriteErrorIsBlamed, writer
<1>5. ASSUME PackLayer \/ PackEntry \/ SkipRoot \/ RecordWhiteout \/ BufferSuppressed
             \/ DropSuppressed \/ SkipEmitted \/ DeferLink \/ PromoteLink \/ WriteEntry
      PROVE  UNCHANGED <<phase, left, error, failed, result>>
  <2>1. UNCHANGED <<phase, left, writer, result>>
    <3>1. CASE PackLayer \/ PackEntry \/ SkipRoot \/ RecordWhiteout
      BY <3>1 DEF PackLayer, PackEntry, SkipRoot, RecordWhiteout
    <3>2. CASE BufferSuppressed \/ DropSuppressed \/ SkipEmitted
      BY <3>2 DEF BufferSuppressed, DropSuppressed, SkipEmitted
    <3>3. CASE DeferLink \/ PromoteLink \/ WriteEntry
      BY <3>3 DEF DeferLink, PromoteLink, WriteEntry
    <3> QED BY <1>5, <3>1, <3>2, <3>3
  <2> QED BY <2>1 DEF writer
<1>6. ASSUME EmitLink \/ DropLink \/ UNCHANGED vars
             \/ \E t \in Paths : EmitGroup(t) \/ SkipGroup(t)
      PROVE  UNCHANGED <<phase, left, error, failed, result>>
  BY <1>6 DEF EmitLink, DropLink, EmitGroup, SkipGroup, vars, writer
<1> QED BY <1>1, <1>2, <1>3, <1>4, <1>5, <1>6 DEF Next, Build, Merge

(* The Builder returns every kind of error alike, and the merge blames the *)
(* right party all the same: the flag that TrackedWriter keeps is set just *)
(* when the error is the sink's, however many writes were interrupted.     *)
THEOREM WriteErrorsAreBlamed == Spec => []WriteErrorIsBlamed
<1>1. Init => WriterInv
  BY DEF Init, WriterInv, WriteErrorIsBlamed
<1>2. WriterInv => WriteErrorIsBlamed
  BY DEF WriterInv
<1> QED BY <1>1, <1>2, WriterKeeps, PTL DEF Spec
=============================================================================
