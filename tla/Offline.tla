------------------------------ MODULE Offline ------------------------------
(***************************************************************************)
(* The offline commands one after the other, as tests/e2e.rs runs them: an *)
(* image directory written by some tool is converted (convert of           *)
(* src/lib.rs on top of module ImageLayout), and the output is verified    *)
(* (module Verify) against what another tool unpacked from the image.      *)
(* Entries here replace older ones of their path; what whiteouts and hard  *)
(* links add to that is module Overlay, and how a sink runs and fails is   *)
(* module OutputSinks.                                                     *)
(***************************************************************************)
EXTENDS ImageLayout, Verify

CONSTANTS
  Images,       \* images: sequences of names of blobs, oldest first
  BlobOf,       \* the layer blob of a name
  Me,           \* the user that runs the commands
  Held,         \* trees that an output directory may already hold
  Changes       \* how the reference may differ from the image

(* Only files have content. *)
IsInfo(info) ==
  /\ info = Info(info.kind, info.mode, info.owner, info.target, info.content, info.rest)
  /\ info.kind # "file" => info.content = ""

(* Trees as file systems have them. *)
IsTree(tree) ==
  tree = [path \in DOMAIN tree |-> tree[path]] /\ \A path \in DOMAIN tree : IsInfo(tree[path])

(* A whole layer blob: streams of entries, each a path and its info.       *)
IsBlob(blob) ==
  /\ blob = Layer(blob.packing, blob.members, "end") /\ blob.packing \in Packings
  /\ blob.members # <<>> /\ blob.members \in Seq(ToSet(blob.members))
  /\ \A stream \in ToSet(blob.members) :
       stream \in Seq(ToSet(stream)) /\ \A entry \in ToSet(stream) : IsInfo(entry[2])

(* "m", "x" and "y" name the documents of a layout. *)
ASSUME OfflineAssumption ==
  /\ {"m", "x", "y"} \cap DOMAIN BlobOf = {}
  /\ \A name \in DOMAIN BlobOf : IsBlob(BlobOf[name])
  /\ \A img \in Images : img # <<>> /\ img \in Seq(DOMAIN BlobOf)
  /\ \A tree \in Held : IsTree(tree)

VARIABLES
  image,        \* the image the directory was made of
  dir,          \* the image directory, or Forgotten once nothing reads it any more
  damage,       \* what happened to the directory: "none" or a damage
  imageSpec,    \* the output: "squashfs", "tar" or "dir"
  held,         \* what an output directory holds before
  phase,        \* the conversion: "start", "loaded", "merging", "done"
  todo,         \* the layers still to be merged, or to be resolved
  merged,       \* the tree merged so far
  error,        \* of the conversion: "none", "layout" or "layer"
  out,          \* the output: "before" (whatever was there), "none", "partial", "whole"
  reference,    \* the reference tree
  change,       \* how it differs from the image
  ignore        \* --ignore-ownership

convertVars == <<image, dir, imageSpec, held, phase, todo, merged, error, out>>
offlineVars == <<convertVars, damage, verifyVars, reference, change, ignore>>

NoTree == [path \in {} |-> Absent]
Forgotten == Absent

----------------------------------------------------------------------------
(* What an image means, and the directories tools write for it. *)

(* Where both have a value, the first one's. *)
Over(f, g) == [x \in DOMAIN f \cup DOMAIN g |-> IF x \in DOMAIN f THEN f[x] ELSE g[x]]

(* The tree of the entries of one layer, from its streams. *)
Entries(streams) == UNION {ToSet(streams[k]) : k \in DOMAIN streams}
TreeOf(streams) ==
  [path \in {entry[1] : entry \in Entries(streams)} |->
     (CHOOSE entry \in Entries(streams) : entry[1] = path)[2]]

(* Newer entries replace older ones; the tree of layer k and those above.  *)
LayerTree(name) == TreeOf(BlobOf[name].members)
Newest(img, path) == Max({i \in DOMAIN img : path \in DOMAIN LayerTree(img[i])})
MeaningFrom(img, k) ==
  [path \in UNION {DOMAIN LayerTree(img[i]) : i \in k..Len(img)} |->
     LayerTree(img[Newest(img, path)])[path]]
Meaning(img) == MeaningFrom(img, 1)

(* A file in the way of a directory of the image fails the unpacking. *)
ASSUME HeldAssumption ==
  \A tree \in Held, img \in Images : \A path \in DOMAIN tree :
    /\ tree[path].kind = "file"
    /\ path \in DOMAIN Meaning(img) => Meaning(img)[path].kind # "dir"

Typing == {"typed", "untyped", "legacy"}
TypeIn(typing, name) ==
  LET packing == BlobOf[name].packing IN
  CASE typing = "untyped" -> Untyped
    [] typing = "legacy" /\ packing = "tar+gzip" -> "docker.tar.gzip"
    [] typing = "legacy" /\ packing = "tar+xz" -> "tar+lzma"
    [] OTHER -> packing

Descriptors(img, typing) ==
  [i \in DOMAIN img |-> Descriptor("sha256", img[i], TypeIn(typing, img[i]))]

WithBlobs(img, index, manifest, documents) ==
  [index |-> index, manifest |-> manifest,
   blobs |-> Over([name \in ToSet(img) |-> BlobOf[name]], documents)]

NoDocuments == [name \in {} |-> Absent]

(* skopeo, and fetch_image: index.json names a manifest blob.              *)
OciLayout(img, typing) ==
  WithBlobs(img, Index(<<Descriptor("sha256", "m", "manifest")>>), Absent,
            [name \in {"m"} |-> Manifest(Descriptors(img, typing))])

(* containerd, Docker Desktop: an index of platforms in between, where     *)
(* other indexes may come first.                                           *)
NestedLayout(img, typing) ==
  WithBlobs(img, Index(<<Descriptor("sha256", "x", "index")>>), Absent,
            [name \in {"x", "y", "m"} |->
               CASE name = "x" -> Index(<<Descriptor("sha256", "y", "index"),
                                          Descriptor("sha256", "m", "docker_manifest")>>)
                 [] name = "y" -> Index(<<>>)
                 [] OTHER -> Manifest(Descriptors(img, typing))])

SavedImage(img, typing) ==
  [layers |-> img,
   sources |-> IF typing = "untyped" THEN [name \in {} |-> Untyped]
               ELSE [name \in ToSet(img) |-> TypeIn(typing, name)]]

(* docker save, of two tagged images; newer versions add an index.json.    *)
DockerLayout(img, typing) ==
  WithBlobs(img, Absent, Saved(<<SavedImage(img, typing), SavedImage(<<>>, "untyped")>>),
            NoDocuments)

BothLayout(img, typing) ==
  [OciLayout(img, typing) EXCEPT !.manifest = Saved(<<SavedImage(<<>>, "untyped")>>)]

(* The responses of a registry. *)
BareLayout(img, typing) ==
  WithBlobs(img, Absent, Manifest(Descriptors(img, typing)), NoDocuments)

(* An older containerd: a directory per digest, a file per layer index.    *)
SubdirLayout(img, typing) ==
  [OciLayout(img, typing) EXCEPT !.blobs =
     Over([name \in ToSet(img) |->
             BlobDir([i \in {j \in 0..(Len(img) - 1) : img[j + 1] = name} |-> BlobOf[name]])],
          @)]

Layouts(img, typing) ==
  {OciLayout(img, typing), NestedLayout(img, typing), DockerLayout(img, typing),
   BothLayout(img, typing), BareLayout(img, typing), SubdirLayout(img, typing)}

----------------------------------------------------------------------------
(* What may be wrong with a directory. *)

WithBlob(d, name, blob) == [d EXCEPT !.blobs[name] = blob]

(* A download that broke off in the first stream of a blob: after its      *)
(* first entry, or in it.                                                  *)
Cut(blob, end) ==
  LET stream == blob.members[1]
  IN  Layer(blob.packing, <<IF stream = <<>> THEN <<>> ELSE <<stream[1]>>>>, end)

(* A blob of several frames may break off between two of them. *)
Broken(what, blob) ==
  CASE what \in {"cut_entry", "cut_plain"} -> Cut(blob, "entry")
    [] what = "cut_middle" -> Cut(blob, "middle")
    [] what = "cut_frame" -> Layer(blob.packing, <<blob.members[1]>>, "end")
    [] what = "tiny" -> Layer(blob.packing, <<<<>>>>, "tiny")
    [] what = "mistyped" -> [blob EXCEPT !.packing = "odd"]
    [] OTHER -> Absent

DamagesTo(blob) ==
  {IF blob.packing = "tar" THEN "cut_plain" ELSE "cut_entry",
   "cut_middle", "tiny", "missing", "mistyped"}
  \cup (IF blob.packing = "tar+zstd" /\ Len(blob.members) > 1 THEN {"cut_frame"} ELSE {})

Damaged(d, name) ==
  {[what |-> what, dir |-> WithBlob(d, name, Broken(what, BlobOf[name]))] :
     what \in DamagesTo(BlobOf[name])}
  \cup {[what |-> "metadata", dir |-> [d EXCEPT !.index = Garbled]],
        [what |-> "metadata", dir |-> [d EXCEPT !.index = Absent, !.manifest = Absent]],
        [what |-> "metadata",
         dir |-> [d EXCEPT !.index = Index(<<Descriptor("sha512", "m", "manifest")>>)]]}

----------------------------------------------------------------------------
(* The conversion. *)

OfflineInit ==
  /\ image \in Images
  /\ \E typing \in Typing, hit \in ToSet(image) :
       \E d \in Layouts(image, typing) :
         \/ dir = d /\ damage = "none"
         \/ \E w \in Damaged(d, hit) : dir = w.dir /\ damage = w.what
  /\ imageSpec \in {"squashfs", "tar", "dir"}
  /\ held \in IF imageSpec = "dir" THEN Held ELSE {NoTree}
  /\ phase = "start" /\ todo = <<>> /\ merged = NoTree
  /\ error = "none" /\ out = "before"
  /\ VerifyInit
  /\ reference = NoTree /\ change = "none" /\ ignore = FALSE

Untouched == UNCHANGED <<image, imageSpec, held, verifyVars, reference, change, ignore>>

FailsLayout(result) == phase' = "done" /\ error' = result.error /\ UNCHANGED out

Load ==
  /\ phase = "start"
  /\ LET result == LoadManifest(dir) IN
       \/ /\ result.error = "none"
          /\ phase' = "loaded" /\ todo' = result.layers
          /\ UNCHANGED <<error, out>>
       \/ result.error # "none" /\ FailsLayout(result) /\ UNCHANGED todo
  /\ UNCHANGED <<dir, damage, merged>> /\ Untouched

(* Everything is resolved before the output is opened. *)
Resolve ==
  /\ phase = "loaded"
  /\ LET result == ResolveLayers(dir, todo) IN
       \/ /\ result.error = "none"
          /\ phase' = "merging" /\ todo' = result.layers
          /\ UNCHANGED <<error, out>>
       \/ result.error # "none" /\ FailsLayout(result) /\ UNCHANGED todo
  /\ UNCHANGED <<dir, damage, merged>> /\ Untouched

(* Blobs are opened one at a time, long after they were found.  One may    *)
(* have gone meanwhile: a fetch into the directory removes what it finds   *)
(* incomplete.                                                             *)
Vanish ==
  /\ phase = "merging" /\ damage = "none"
  /\ \E k \in DOMAIN todo : dir' = WithBlob(dir, todo[k].desc.name, Absent)
  /\ damage' = "vanished"
  /\ UNCHANGED <<phase, todo, merged, error, out>> /\ Untouched

(* The newest of the layers that are left; older entries do not replace    *)
(* newer ones.  A failed merge leaves a directory as it is and removes     *)
(* any other output.                                                       *)
MergeLayer ==
  /\ phase = "merging" /\ todo # <<>>
  /\ LET next == CHOOSE k \in DOMAIN todo : \A j \in DOMAIN todo : todo[j].index <= todo[k].index
         layer == todo[next]
         result == ReadBlob(FileOf(dir, layer.desc, layer.index), layer.type)
     IN  \/ /\ result.error = "none"
            /\ merged' = Over(merged, TreeOf(result.layers))
            /\ todo' = RemoveAt(todo, next)
            /\ UNCHANGED <<phase, error, out>>
         \/ /\ result.error # "none"
            /\ phase' = "done" /\ error' = result.error
            /\ out' = IF imageSpec = "dir" THEN "partial" ELSE "none"
            /\ UNCHANGED <<todo, merged>>
  /\ UNCHANGED <<dir, damage>> /\ Untouched

FinishConvert ==
  /\ phase = "merging" /\ todo = <<>>
  /\ phase' = "done" /\ out' = "whole" /\ dir' = Forgotten
  /\ UNCHANGED <<damage, todo, merged, error>> /\ Untouched

----------------------------------------------------------------------------
(* Verification of the output. *)

OwnedBy(tree, user) == [path \in DOMAIN tree |-> [tree[path] EXCEPT !.owner = user]]

(* The unpacker never sets owners or extended attributes, and writes       *)
(* everything that is no directory and no link as a file.                  *)
Unpacked(tree) ==
  [path \in DOMAIN tree |->
     LET info == tree[path] IN
     Info(IF EntryKind(info) = "other" THEN "file" ELSE info.kind,
          info.mode, Me, info.target, info.content, "unpacked")]

(* What a sink leaves of a merged tree.  A directory keeps what it held    *)
(* where the image has nothing; mksquashfs records what the headers say.   *)
Leaves(tree) == IF imageSpec = "dir" THEN Over(Unpacked(tree), held) ELSE tree
Output == Leaves(merged)

(* One entry of a tree, changed. *)
Changed(tree, what, path) ==
  LET info == tree[path] IN
  CASE what = "removed" -> [p \in DOMAIN tree \ {path} |-> tree[p]]
    [] what = "added" -> Over([p \in {"extra"} |-> info], tree)
    [] what = "type" ->
         [tree EXCEPT ![path] =
            Info(IF info.kind = "dir" THEN "fifo" ELSE "dir", info.mode, info.owner, "", "", info.rest)]
    [] what = "device" /\ info.kind = "fifo" -> [tree EXCEPT ![path].kind = "chr"]
    [] what = "content" /\ info.kind = "file" -> [tree EXCEPT ![path].content = "other"]
    [] what = "target" /\ info.kind = "symlink" -> [tree EXCEPT ![path].target = "other"]
    [] what \in {"mode", "owner", "rest"} -> [tree EXCEPT ![path][what] = "other"]
    [] OTHER -> tree

(* The verify command, run on a finished output: the reference is what a   *)
(* tool that keeps owners, or one without the privilege to, unpacked of    *)
(* the image, perhaps with one change.                                     *)
StartVerify ==
  /\ phase = "done" /\ out = "whole"
  /\ Begin(imageSpec)
  /\ LET tree == Meaning(image) IN
     \E what \in Changes \cup {"none"}, path \in DOMAIN tree, kept, ign \in BOOLEAN :
       /\ change' = what /\ ignore' = ign
       /\ reference' = Changed(IF kept THEN tree ELSE OwnedBy(tree, Me), what, path)
  /\ UNCHANGED <<convertVars, damage>>

VerifyStep ==
  /\ \/ Mount \/ MountFails \/ Walk \/ WalkFails
     \/ Compare(Output, reference, ignore)
     \/ \E fusermount, umount \in BOOLEAN : Release(fusermount, umount)
  /\ UNCHANGED <<convertVars, damage, reference, change, ignore>>

Convert == Load \/ Resolve \/ MergeLayer \/ FinishConvert

OfflineNext == Convert \/ Vanish \/ StartVerify \/ VerifyStep

OfflineSpec == OfflineInit /\ [][OfflineNext]_offlineVars

(* The commands run to their end; nothing makes a blob vanish. *)
OfflineFairSpec ==
  OfflineSpec /\ WF_offlineVars(Convert) /\ WF_offlineVars(StartVerify) /\ WF_offlineVars(VerifyStep)

----------------------------------------------------------------------------
(* Properties. *)

(* Every variable has its type. *)
OfflineTypeOK ==
  /\ image \in Images /\ imageSpec \in {"squashfs", "tar", "dir"}
  /\ phase \in {"start", "loaded", "merging", "done"}
  /\ error \in {"none", "layout", "layer"}
  /\ out \in {"before", "none", "partial", "whole"}
  /\ change \in Changes \cup {"none"} /\ ignore \in BOOLEAN
  /\ VerifyTypeOK

(* The decoders read the first stream of a blob that has several. *)
SeveralStreams ==
  \E name \in ToSet(image) :
    Len(BlobOf[name].members) > 1 /\ BlobOf[name].packing \in {"tar+gzip", "tar+bzip2", "tar+xz"}

(* A plain blob that ends after an entry is complete to the reader, and so *)
(* is one that ends after a frame.                                         *)
LooksComplete == damage \in {"cut_plain", "cut_frame"}

(* Whichever layout an image comes in, it converts to the same tree, the   *)
(* one its layers describe; a directory that is not in order gives an      *)
(* error, before the output is touched unless a blob turns out bad.        *)
ConvertIsTrue ==
  phase = "done" /\ ~SeveralStreams /\ ~LooksComplete =>
    IF damage = "none" THEN out = "whole" /\ merged = Meaning(image)
    ELSE /\ out # "whole" /\ error # "none"
         /\ error = "layout" => out = "before" /\ damage \in {"missing", "metadata", "tiny"}
         /\ damage \in {"missing", "metadata"} => error = "layout"

(* What the comparison can see of a tree. *)
View(tree) ==
  [path \in DOMAIN tree |->
     LET info == tree[path] IN
     [kind |-> EntryKind(info), mode |-> info.mode, target |-> info.target,
      content |-> info.content, owner |-> IF ignore THEN "any" ELSE info.owner]]

(* The sink turns nothing of the image into something else, and nothing    *)
(* but the image is in the output.                                         *)
KeptByDir ==
  /\ \A path \in DOMAIN Meaning(image) : EntryKind(Meaning(image)[path]) # "other"
  /\ DOMAIN held \subseteq DOMAIN Meaning(image)

(* Of an image that converts at all, whatever its layout, types and        *)
(* damage, the report is clean exactly if the reference looks like what    *)
(* the sink leaves of the image's layers; and an unchanged copy made by    *)
(* another tool, owners ignored, verifies exactly if the output is a       *)
(* squashfs, or a directory that held nothing else, of an image without    *)
(* pipes and devices.                                                      *)
VerdictIsRight ==
  report.error = "none" /\ ~SeveralStreams /\ ~LooksComplete =>
    /\ IsClean(report) <=> View(Leaves(Meaning(image))) = View(reference)
    /\ change = "none" /\ ignore => (IsClean(report) <=> (imageSpec = "dir" => KeptByDir))

(* Both commands end, and a mount does not stay behind unless neither tool *)
(* could remove it.                                                        *)
EndsUnmounted ==
  <>(phase = "done" /\ (out # "whole" \/ step = "done") /\ mount # "mounted")

----------------------------------------------------------------------------
(* Statements of the source that some execution contradicts. *)

(* "true if the generated image and reference are identical" *)
CleanMeansIdentical == IsClean(report) => Output = reference

(* A conversion that succeeds has every entry of the image. *)
SuccessIsWhole == out = "whole" => merged = Meaning(image)
=============================================================================
