------------------------------ MODULE Overlay ------------------------------
(***************************************************************************)
(* The merge engine of src/overlay.rs (process_layer, emit_deferred,       *)
(* finish_output) with its three trackers (src/tracker.rs).                *)
(*                                                                         *)
(* A builder packs an image, oldest layer first; the merge then reads the  *)
(* layers newest first, one tar entry per step, and appends entries to the *)
(* output.  File content is the identity <<layer, path>> of the entry that *)
(* carried it; a link entry of the image also carries the identity of the  *)
(* file it was made to, which no action of the merge reads.                *)
(***************************************************************************)
EXTENDS OverlaySemantics, SequencesExt

CONSTANTS
  Entries,      \* the entries the builder chooses from: [kind, path, target]
  MaxLayers,    \* bound on the layers of an image
  MaxEntries,   \* bound on the entries of an image
  Faults        \* the failures that may happen, a subset of AllFaults

(* How a write through tar::Builder goes wrong: the sink's write is cut    *)
(* short by a signal, the sink refuses it, or the entry's own data cannot  *)
(* be read or its path cannot be encoded.                                  *)
WriteErrors == {"interrupted", "sink", "entry"}
AllFaults == {"read"} \cup WriteErrors

ASSUME EntriesAssumption ==
  \A e \in Entries : /\ e.kind \in Kinds
                     /\ e.path \in Nodes
                     /\ e.kind \notin {"dir", "opaque"} => e.path \in Paths
                     /\ e.kind = "link" => e.target \in Paths \ {e.path}
ASSUME BoundsAssumption ==
  MaxLayers \in Nat /\ MaxEntries \in Nat /\ Faults \subseteq AllFaults

NoData == <<>>

VARIABLES
  image,        \* the layers; image[i + 1] holds the entries of layer i
  fs,           \* the file system the image describes
  phase,        \* "build", "layers", "promote", "link", "done"
  left,         \* layers not finished; layer left - 1 is being processed
  pos,          \* next entry of that layer
  whiteout,     \* WhiteoutTracker
  emitted,      \* EmittedPathTracker
  deferred,     \* HardLinkTracker.deferred
  promotions,   \* HardLinkTracker.promotions
  suppressed,   \* HardLinkTracker.suppressed_content
  failed,       \* TrackedWriter.failed
  error,        \* what the error the Builder returned came from, "none"
                \* while it has returned none: the merge cannot see it
  out,          \* the entries written to the output tar
  result,       \* "none", "ok", "Input", "Output"
  recorded,     \* history: every whiteout recorded, as <<path, layer>>
  missed        \* history: some query answered FALSE for a path that a newer
                \* layer's whiteout covers

builder == <<image, fs>>
trackers == <<whiteout, emitted, deferred, promotions, suppressed>>
writer == <<failed, error>>
history == <<recorded, missed>>
vars == <<image, fs, phase, left, pos, trackers, writer, out, result, history>>

Layers == 0..(MaxLayers - 1)
Idents == Layers \X Paths

----------------------------------------------------------------------------
(* The image builder. *)

Size == FoldSeq(LAMBDA es, n : n + Len(es), 0, image)

Init ==
  /\ image = <<>>
  /\ fs = EmptyFS
  /\ phase = "build"
  /\ left = 0
  /\ pos = 1
  /\ whiteout = EmptyTrie
  /\ emitted = {}
  /\ deferred = <<>>
  /\ promotions = <<>>
  /\ suppressed = EmptyFS
  /\ failed = FALSE
  /\ error = "none"
  /\ out = <<>>
  /\ result = "none"
  /\ recorded = {}
  /\ missed = FALSE

PackLayer ==
  /\ phase = "build"
  /\ Len(image) < MaxLayers
  /\ image' = Append(image, <<>>)
  /\ UNCHANGED <<fs, phase, left, pos, trackers, writer, out, result, history>>

PackEntry ==
  /\ phase = "build"
  /\ image # <<>>
  /\ Size < MaxEntries
  /\ \E e \in Entries :
       /\ Legal(fs, Len(image) - 1, Last(image), e)
       /\ image' = [image EXCEPT ![Len(image)] =
            Append(@, [kind |-> e.kind, path |-> e.path, target |-> e.target,
                       id |-> Ident(fs, Len(image) - 1, e)])]
       /\ fs' = Apply(fs, Len(image) - 1, e)
  /\ UNCHANGED <<phase, left, pos, trackers, writer, out, result, history>>

StartMerge ==
  /\ phase = "build"
  /\ phase' = "layers"
  /\ left' = Len(image)
  /\ UNCHANGED <<builder, pos, trackers, writer, out, result, history>>

----------------------------------------------------------------------------
(* process_layer: one action per way the loop body ends. *)

cur == left - 1
Layer == image[left]
entry == Layer[pos]

(* The merge runs: it has not ended, and no error is on its way out.       *)
Going == result = "none" /\ error = "none"

Reading == phase = "layers" /\ Going /\ left > 0 /\ pos <= Len(Layer)

Suppressed(path) == IsSuppressed(whiteout, path, cur)

(* A newer layer hid path, and the query of trie does not say so. *)
Misses(trie, path) ==
  /\ ~IsSuppressed(trie, path, cur)
  /\ \E r \in recorded : Covers(r[1], path) /\ cur < r[2]

Record(path) ==
  /\ whiteout' = Insert(whiteout, path, cur)
  /\ recorded' = recorded \cup {<<path, cur>>}

NextEntry == pos' = pos + 1

(* The entry of the root directory. *)
SkipRoot ==
  /\ Reading
  /\ entry.kind = "dir" /\ entry.path = Root
  /\ NextEntry
  /\ UNCHANGED <<builder, phase, left, trackers, writer, out, result, history>>

(* A whiteout entry is recorded and never emitted. *)
RecordWhiteout ==
  /\ Reading
  /\ entry.kind \in {"whiteout", "opaque"}
  /\ Record(entry.path)
  /\ NextEntry
  /\ UNCHANGED <<builder, phase, left, emitted, deferred, promotions, suppressed,
                 writer, out, result, missed>>

(* Mutant: a promotion that has its content takes an older one as well. *)
BufferOverwrites ==
  LET id == <<cur, entry.path>> IN
  /\ Reading
  /\ entry.kind = "file"
  /\ Suppressed(entry.path)
  /\ promotions' = [i \in DOMAIN promotions |->
       IF promotions[i].target = entry.path
       THEN [promotions[i] EXCEPT !.data = id]
       ELSE promotions[i]]
  /\ suppressed' = [p \in DOMAIN suppressed \cup {entry.path} |->
       IF p = entry.path THEN id ELSE suppressed[p]]
  /\ NextEntry
  /\ UNCHANGED <<builder, phase, left, whiteout, emitted, deferred, writer, out,
                 result, history>>

(* note_suppressed_file: the content goes to every promotion waiting for   *)
(* this path, and into the buffer of the layer.                            *)
BufferSuppressed ==
  LET id == <<cur, entry.path>> IN
  /\ Reading
  /\ entry.kind = "file"
  /\ Suppressed(entry.path)
  /\ promotions' = [i \in DOMAIN promotions |->
       IF promotions[i].target = entry.path /\ promotions[i].data = NoData
       THEN [promotions[i] EXCEPT !.data = id]
       ELSE promotions[i]]
  /\ suppressed' = [p \in DOMAIN suppressed \cup {entry.path} |->
       IF p = entry.path THEN id ELSE suppressed[p]]
  /\ NextEntry
  /\ UNCHANGED <<builder, phase, left, whiteout, emitted, deferred, writer, out,
                 result, history>>

DropSuppressed ==
  /\ Reading
  /\ entry.kind \in AddKinds \ {"file"}
  /\ Suppressed(entry.path)
  /\ NextEntry
  /\ UNCHANGED <<builder, phase, left, trackers, writer, out, result, history>>

(* The newest version of the path was already written. *)
SkipEmitted ==
  /\ Reading
  /\ entry.kind \in AddKinds /\ entry.path # Root
  /\ ~Suppressed(entry.path)
  /\ entry.path \in emitted
  /\ NextEntry
  /\ missed' = (missed \/ Misses(whiteout, entry.path))
  /\ UNCHANGED <<builder, phase, left, trackers, writer, out, result, recorded>>

(* A live hard link shadows what older layers hold under its path, then    *)
(* waits until every layer has been read.                                  *)
LiveLink ==
  /\ Reading
  /\ entry.kind = "link"
  /\ ~Suppressed(entry.path)
  /\ entry.path \notin emitted

Shadowed == Insert(whiteout, entry.path, cur)

(* record: the target is live as far as the merge knows. *)
DeferLink ==
  /\ LiveLink
  /\ ~IsSuppressed(Shadowed, entry.target, cur)
  /\ Record(entry.path)
  /\ deferred' = Append(deferred,
       [link |-> entry.path, target |-> entry.target, layer |-> cur])
  /\ missed' = (missed \/ Misses(whiteout, entry.path) \/ Misses(Shadowed, entry.target))
  /\ NextEntry
  /\ UNCHANGED <<builder, phase, left, emitted, promotions, suppressed, writer,
                 out, result>>

(* record_promotion: the target is hidden; its content is attached when    *)
(* this layer already buffered it.                                         *)
PromoteLink ==
  /\ LiveLink
  /\ IsSuppressed(Shadowed, entry.target, cur)
  /\ Record(entry.path)
  /\ promotions' = Append(promotions,
       [link |-> entry.path, target |-> entry.target, layer |-> cur,
        data |-> IF entry.target \in DOMAIN suppressed
                 THEN suppressed[entry.target] ELSE NoData])
  /\ missed' = (missed \/ Misses(whiteout, entry.path))
  /\ NextEntry
  /\ UNCHANGED <<builder, phase, left, emitted, deferred, suppressed, writer,
                 out, result>>

Written(kind, path, id) == [kind |-> kind, path |-> path, target |-> Root, id |-> id]
Link(path, target) == [kind |-> "link", path |-> path, target |-> target, id |-> NoData]

(* Everything else goes to the output at once. *)
LiveEntry ==
  /\ Reading
  /\ entry.kind \in {"dir", "file", "other"} /\ entry.path # Root
  /\ ~Suppressed(entry.path)
  /\ entry.path \notin emitted

(* Mutant: a non-directory shadows nothing. *)
WriteWithoutShadow ==
  /\ LiveEntry
  /\ out' = Append(out, Written(entry.kind, entry.path, <<cur, entry.path>>))
  /\ emitted' = emitted \cup {entry.path}
  /\ missed' = (missed \/ Misses(whiteout, entry.path))
  /\ NextEntry
  /\ UNCHANGED <<builder, phase, left, whiteout, deferred, promotions, suppressed,
                 writer, result, recorded>>

(* A non-directory shadows what older layers hold under its path. *)
WriteEntry ==
  /\ LiveEntry
  /\ out' = Append(out, Written(entry.kind, entry.path, <<cur, entry.path>>))
  /\ emitted' = emitted \cup {entry.path}
  /\ IF entry.kind # "dir" THEN Record(entry.path) ELSE UNCHANGED <<whiteout, recorded>>
  /\ missed' = (missed \/ Misses(whiteout, entry.path))
  /\ NextEntry
  /\ UNCHANGED <<builder, phase, left, deferred, promotions, suppressed, writer, result>>

(* The tar stream of the layer has ended: its buffered content goes. *)
EndLayer ==
  /\ phase = "layers" /\ Going /\ left > 0
  /\ pos > Len(Layer)
  /\ suppressed' = EmptyFS
  /\ left' = left - 1
  /\ pos' = 1
  /\ UNCHANGED <<builder, phase, whiteout, emitted, deferred, promotions, writer,
                 out, result, history>>

Stop(outcome) ==
  /\ result' = outcome
  /\ phase' = "done"
  /\ UNCHANGED <<builder, left, pos, trackers, writer, out, history>>

(* Opening the layer, reading an entry, its header or its link target      *)
(* fails.                                                                  *)
ReadFails ==
  /\ "read" \in Faults
  /\ phase = "layers" /\ Going /\ left > 0
  /\ Stop("Input")

(* Mutant: an interrupted write counts as a failure of the sink. *)
NotedAlways(e) == e \in {"interrupted", "sink"}

(* note: what TrackedWriter remembers of a write.                          *)
Noted(e) == e = "sink"

(* A write through the Builder goes wrong.  TrackedWriter sees what the    *)
(* sink answers; an interrupted write is tried again, any other error is   *)
(* what the Builder returns.                                               *)
WriteGoesWrong(e) ==
  /\ e \in Faults
  /\ failed' = (failed \/ Noted(e))
  /\ error' = IF e = "interrupted" THEN error ELSE e
  /\ UNCHANGED <<builder, phase, left, pos, trackers, out, result, history>>

EntryGoesWrong == LiveEntry /\ \E e \in WriteErrors : WriteGoesWrong(e)

(* write_to_tar returned an error: it is the layer's unless the sink is    *)
(* remembered to have failed.                                              *)
WriteFails ==
  /\ phase = "layers" /\ result = "none" /\ error # "none"
  /\ Stop(IF failed THEN "Output" ELSE "Input")

----------------------------------------------------------------------------
(* emit_deferred and finish_output. *)

(* The one way to list a set of positions in an order. *)
Listings(S, Before(_, _)) ==
  {f \in [1..Cardinality(S) -> S] :
     \A j, k \in 1..Cardinality(S) : j < k => Before(f[j], f[k])}

InOrder(S) == Listings(S, LAMBDA i, j : i < j)

Picked(seq, f) == [k \in DOMAIN f |-> seq[f[k]]]

(* drain_sorted: a stable sort by ascending layer index. *)
ByLayer(links) ==
  {Picked(links, f) : f \in Listings(DOMAIN links, LAMBDA i, j :
     \/ links[i].layer < links[j].layer
     \/ links[i].layer = links[j].layer /\ i < j)}

DrainSorted ==
  /\ phase = "layers" /\ Going /\ left = 0
  /\ phase' = "promote"
  /\ deferred' \in ByLayer(deferred)
  /\ promotions' \in ByLayer(promotions)
  /\ UNCHANGED <<builder, left, pos, whiteout, emitted, suppressed, writer, out,
                 result, history>>

(* The members of a promotion group: the links to one hidden target. *)
Group(target) == {i \in DOMAIN promotions : promotions[i].target = target}

Usable(i) == promotions[i].data # NoData /\ promotions[i].link \notin emitted

(* The oldest usable member is written as a regular file, the others that  *)
(* are not emitted yet as hard links to it.                                *)
Primary(target) ==
  CHOOSE i \in Group(target) : Usable(i) /\ \A j \in Group(target) : j < i => ~Usable(j)

Followers(target) ==
  {i \in Group(target) :
     /\ promotions[i].link \notin emitted \cup {promotions[Primary(target)].link}
     /\ \A j \in Group(target) : j < i => promotions[j].link # promotions[i].link}

(* The code takes the groups in the order of their targets' names; here    *)
(* they are taken in any order.                                            *)
Targets == {promotions[i].target : i \in DOMAIN promotions}

Promoting(target) == phase = "promote" /\ Going /\ target \in Targets

Ungrouped(target) ==
  {Picked(promotions, f) : f \in InOrder(DOMAIN promotions \ Group(target))}

Promotes(target) == Promoting(target) /\ \E i \in Group(target) : Usable(i)

EmitGroup(target) ==
  LET main == promotions[Primary(target)]
      also == Followers(target) IN
  /\ Promotes(target)
  /\ \E f \in InOrder(also) :
       out' = Append(out, Written("file", main.link, main.data))
                \o [k \in DOMAIN f |-> Link(promotions[f[k]].link, main.link)]
  /\ emitted' = emitted \cup {main.link} \cup {promotions[i].link : i \in also}
  /\ promotions' \in Ungrouped(target)
  /\ UNCHANGED <<builder, phase, left, pos, whiteout, deferred, suppressed, writer,
                 result, history>>

(* No member has content and a free path: the group is dropped. *)
SkipGroup(target) ==
  /\ Promoting(target)
  /\ ~Promotes(target)
  /\ promotions' \in Ungrouped(target)
  /\ UNCHANGED <<builder, phase, left, pos, whiteout, emitted, deferred, suppressed,
                 writer, out, result, history>>

GroupsDone ==
  /\ phase = "promote" /\ Going /\ promotions = <<>>
  /\ phase' = "link"
  /\ UNCHANGED <<builder, left, pos, trackers, writer, out, result, history>>

Linking == phase = "link" /\ Going /\ deferred # <<>>

(* Mutant: a link is written whether or not its target was. *)
EmitDangling ==
  LET l == Head(deferred) IN
  /\ Linking
  /\ out' = Append(out, Link(l.link, l.target))
  /\ emitted' = emitted \cup {l.link}
  /\ deferred' = Tail(deferred)
  /\ UNCHANGED <<builder, phase, left, pos, whiteout, promotions, suppressed, writer,
                 result, history>>

EmitLink ==
  LET l == Head(deferred) IN
  /\ Linking
  /\ l.target \in emitted
  /\ out' = Append(out, Link(l.link, l.target))
  /\ emitted' = emitted \cup {l.link}
  /\ deferred' = Tail(deferred)
  /\ UNCHANGED <<builder, phase, left, pos, whiteout, promotions, suppressed, writer,
                 result, history>>

DropLink ==
  /\ Linking
  /\ Head(deferred).target \notin emitted
  /\ deferred' = Tail(deferred)
  /\ UNCHANGED <<builder, phase, left, pos, whiteout, emitted, promotions, suppressed,
                 writer, out, result, history>>

(* The archive's trailer and the flush. *)
Finish ==
  /\ phase = "link" /\ Going /\ deferred = <<>>
  /\ Stop("ok")

(* A write of the output's end goes wrong; only a promoted path is one     *)
(* that may fail to be encoded here.                                       *)
FinishGoesWrong ==
  /\ phase \in {"promote", "link"} /\ Going
  /\ \E e \in WriteErrors : WriteGoesWrong(e) /\ (e = "entry" => \E t \in Targets : Promotes(t))

(* Whatever finish_output returns becomes an output error.                 *)
FinishFails ==
  /\ phase \in {"promote", "link"} /\ result = "none" /\ error # "none"
  /\ Stop("Output")

Build == PackLayer \/ PackEntry \/ StartMerge

Merge ==
  \/ SkipRoot \/ RecordWhiteout \/ BufferSuppressed \/ DropSuppressed \/ SkipEmitted
  \/ DeferLink \/ PromoteLink \/ WriteEntry \/ EndLayer
  \/ DrainSorted
  \/ \E t \in Paths : EmitGroup(t) \/ SkipGroup(t)
  \/ GroupsDone \/ EmitLink \/ DropLink \/ Finish

GoesWrong == EntryGoesWrong \/ FinishGoesWrong

Failure == ReadFails \/ WriteFails \/ FinishFails

Next == Build \/ Merge \/ GoesWrong \/ Failure

Spec == Init /\ [][Next]_vars

----------------------------------------------------------------------------
(* Types. *)

Deferral == [link : Paths, target : Paths, layer : Layers]
Promotion == [link : Paths, target : Paths, layer : Layers, data : Idents \cup {NoData}]

(* Every variable has its type; the trie records layer indexes, the        *)
(* buffers hold the identities of files.                                   *)
TypeOK ==
  /\ \A i \in DOMAIN image : \A k \in DOMAIN image[i] :
       image[i][k].kind \in Kinds /\ image[i][k].path \in Nodes
  /\ DOMAIN fs \subseteq Paths
  /\ phase \in {"build", "layers", "promote", "link", "done"}
  /\ left \in 0..MaxLayers
  /\ pos \in 1..(MaxEntries + 1)
  /\ whiteout \in [Nodes -> Layers \cup {NoWhiteout}]
  /\ emitted \subseteq Paths
  /\ ToSet(deferred) \subseteq Deferral
  /\ ToSet(promotions) \subseteq Promotion
  /\ DOMAIN suppressed \subseteq Paths
  /\ failed \in BOOLEAN
  /\ error \in {"none", "sink", "entry"}
  /\ ToSet(out) \subseteq [kind : AddKinds \ {"link"}, path : Paths, target : {Root},
                           id : Idents]
                   \cup [kind : {"link"}, path : Paths, target : Paths, id : {NoData}]
  /\ result \in {"none", "ok", "Input", "Output"}
  /\ recorded \subseteq Nodes \X Layers
  /\ missed \in BOOLEAN

----------------------------------------------------------------------------
(* The whiteout trie. *)

CoveredBy(path, layer) == \E r \in recorded : Covers(r[1], path) /\ layer < r[2]

(* Nothing is suppressed without cause: when is_suppressed answers yes, a  *)
(* whiteout (or a shadowing non-directory) of a newer layer was recorded   *)
(* on the path or above it, however often trie nodes were overwritten.     *)
SuppressionSound ==
  \A p \in Paths, c \in Layers :
    IsSuppressed(whiteout, p, c) => CoveredBy(p, c)

(* For the layers still to come the trie forgets nothing: is_suppressed    *)
(* answers yes for every path at or below any whiteout recorded so far,    *)
(* although it stops at the first node with a state and although inserts   *)
(* overwrite.                                                              *)
OlderLayersHidden ==
  phase = "layers" =>
    \A p \in Paths, c \in Layers :
      c < cur => (IsSuppressed(whiteout, p, c) <=> \E r \in recorded : Covers(r[1], p))

(* What tracker.rs says of every query: a path is suppressed if any prefix *)
(* of it has a whiteout of a newer layer recorded.                         *)
SuppressionComplete == ~missed

----------------------------------------------------------------------------
(* The output. *)

(* A hard link is written after the entry it points to, whatever the       *)
(* layers held: consumers resolve it while they extract.                   *)
LinksFollowTargets ==
  \A i \in DOMAIN out : out[i].kind = "link" =>
    \E j \in 1..(i - 1) : out[j].path = out[i].target

(* The file system a consumer of the output ends up with: entries are      *)
(* extracted in order, a hard link to nothing is an error the consumer     *)
(* skips; ino is the position of the entry that created the inode.         *)
Extract(f, i) ==
  LET e == out[i] IN
  IF e.kind # "link" THEN Put(f, e.path, [kind |-> e.kind, id |-> e.id, ino |-> i])
  ELSE IF e.target \in DOMAIN f THEN Put(f, e.path, f[e.target])
  ELSE f

Extraction[n \in 0..Len(out)] ==
  IF n = 0 THEN EmptyFS ELSE Extract(Extraction[n - 1], n)

Extracted == Extraction[Len(out)]

Contents(f) == [p \in DOMAIN f |-> <<f[p].kind, f[p].id>>]

(* Images the merge is known not to reproduce; the README names, for each, *)
(* the configuration that shows why.                                       *)

Has(i, kind, path) ==
  \E k \in DOMAIN image[i] : image[i][k].kind = kind /\ image[i][k].path = path

LinksOf(i) == {image[i][k] : k \in {n \in DOMAIN image[i] : image[i][n].kind = "link"}}

ImageLinks == UNION {LinksOf(i) : i \in DOMAIN image}

(* An opaque marker whose directory has no entry in the marker's layer.    *)
BareOpaque ==
  \E i \in DOMAIN image, p \in Paths : Has(i, "opaque", p) /\ ~Has(i, "dir", p)

(* A directory takes the path of a non-directory no whiteout removed.      *)
FileBecomesDir ==
  \E i, j \in DOMAIN image, p \in Paths :
    /\ i < j
    /\ \E kind \in NonDirKinds : Has(i, kind, p)
    /\ Has(j, "dir", p)
    /\ ~ \E n \in (i + 1)..j : \E q \in Paths : Covers(q, p) /\ Has(n, "whiteout", q)

(* A link made through a name that is itself a link.                       *)
LinkToLink == \E e, f \in ImageLinks : f.path = e.target /\ f.id = e.id

(* Links to two different files that lived at one path, one after the      *)
(* other.                                                                  *)
SharedTargetName == \E e, f \in ImageLinks : f.target = e.target /\ f.id # e.id

(* A link made to a symlink or a device whose path a newer layer hides:    *)
(* only the content of regular files is kept for a promotion, and that of  *)
(* an older file at the path is taken for it.                              *)
HiddenSpecial ==
  \E i \in DOMAIN image : \E e \in LinksOf(i) :
    Has(e.id[1] + 1, "other", e.id[2]) /\ CoveredBy(e.target, i - 1)

Reproducible ==
  /\ ~missed
  /\ ~(BareOpaque \/ FileBecomesDir \/ LinkToLink \/ SharedTargetName \/ HiddenSpecial)

(* The merged stream, extracted, is the file system the layers describe:   *)
(* every path that exists, of the right kind and with the right content;   *)
(* and two paths are hard links to one inode exactly when they are in the  *)
(* layered file system: promotion keeps groups together.                   *)
MergedIsOverlay ==
  result = "ok" /\ Reproducible =>
    /\ Contents(Extracted) = Contents(fs)
    /\ \A p, q \in DOMAIN fs : fs[p].kind # "dir" =>
         (fs[p].id = fs[q].id <=> Extracted[p].ino = Extracted[q].ino)

(* A promotion never carries another file's bytes: content attached while  *)
(* the layer is read or by an older layer is that of the file the link was *)
(* made to, even when several files lived at the target's path.            *)
PromotionKeepsItsFile ==
  ~missed /\ ~LinkToLink /\ ~HiddenSpecial =>
    \A i \in DOMAIN promotions : promotions[i].data # NoData =>
      \E e \in LinksOf(promotions[i].layer + 1) :
        e.path = promotions[i].link /\ e.id = promotions[i].data

(* The party at fault is the one blamed: however many writes were          *)
(* interrupted before, an error that came from the entry while the layers  *)
(* are read is the layer's, an error of the sink is the output's wherever  *)
(* it struck, and a merge the Builder failed never reports success.        *)
WriteErrorIsBlamed ==
  /\ result = "ok" => error = "none"
  /\ result # "none" /\ error = "sink" => result = "Output"
  /\ result # "none" /\ error = "entry" /\ left > 0 => result = "Input"

----------------------------------------------------------------------------
(* Statements of the source that some image contradicts. *)

(* All members of a promotion group share the same underlying inode.       *)
GroupsShareOneFile ==
  phase = "promote" =>
    \A i, j \in DOMAIN promotions :
      /\ promotions[i].target = promotions[j].target
      /\ NoData \notin {promotions[i].data, promotions[j].data}
      => promotions[i].data = promotions[j].data

(* A promotion without content at the end had a target that never existed  *)
(* in any layer.                                                           *)
EmptyPromotionIsMalformed ==
  phase = "promote" =>
    \A t \in Targets : (\A i \in Group(t) : promotions[i].data = NoData) =>
      ~ \E n \in DOMAIN image, kind \in AddKinds : Has(n, kind, t)

(* An opaque whiteout hides the content of its directory: a directory that *)
(* exists in the layered file system is in the output.                     *)
DirectoriesSurvive ==
  result = "ok" /\ ~missed =>
    \A p \in DOMAIN fs : fs[p].kind = "dir" => p \in emitted

(* Newer layers overwrite older ones as if applied oldest first: a link    *)
(* keeps the file it was made to when a directory takes the file's path.   *)
LinksKeepTheirFile ==
  result = "ok" /\ ~missed /\ ~BareOpaque /\ ~LinkToLink /\ ~SharedTargetName =>
    \A p \in DOMAIN fs : fs[p].kind # "dir" =>
      p \in DOMAIN Extracted /\ Extracted[p].id = fs[p].id

(* Only an error the sink itself returned is an output failure.            *)
OutputMeansSinkFailed == result = "Output" => error = "sink"
=============================================================================
