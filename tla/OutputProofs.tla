---------------------------- MODULE OutputProofs ----------------------------
(***************************************************************************)
(* Proofs about what a command leaves at its output.                       *)
(*                                                                         *)
(* The three sinks of write_for_spec, for any length of the stream, any    *)
(* capacity of the pipes, any number of retries and messages and any       *)
(* faults: what is left at the output path, which failure is reported, and *)
(* that nothing a sink started runs on.  For each sink the invariant says  *)
(* what holds where the sink is.                                           *)
(*                                                                         *)
(* convert and verify one after the other, for any blobs, images, layouts  *)
(* and references: the directory is described by what is found for each    *)
(* descriptor (Finds), the merge by the layers it has left (LayersLeft),   *)
(* and trees are maps to what a file system may say of an entry (IsTree).  *)
(***************************************************************************)
EXTENDS OutputSinks, Offline, SequenceTheorems, WellFoundedInduction, TLAPS

Stopped == {"input", "output"}

----------------------------------------------------------------------------
(* write_squashfs_with_progress. *)

(* What fails on its own is on record; a merge's failure is then that of   *)
(* the input, or of a link, or of the process.                             *)
SquashfsCauses ==
  /\ causes \subseteq {"input", "encode", "process"}
  /\ "input" \in causes <=> merge = "input"
  /\ "encode" \in causes => merge = "output"
  /\ "process" \in causes => child = "failed"
  /\ merge = "output" => "encode" \in causes \/ "process" \in causes
  /\ child = "failed" => "process" \in causes \/ merge \in Stopped

(* A merge that was cut short has put the end of the archive into the      *)
(* stream, or the process has failed by then.                              *)
SquashfsInv ==
  /\ at \in {"start", "spawn", "merge", "drop", "wait", "returned"}
  /\ at # "returned" => result = "none"
  /\ at \in {"start", "spawn"} => child = "none" /\ merge = "none"
  /\ at = "spawn" => output = "absent"
  /\ at \in {"merge", "drop", "wait"} => output # "stale"
  /\ at \in {"start", "spawn", "merge", "drop"} => ~eof /\ ~trailer
  /\ at \in {"merge", "drop"} => child \in {"reading", "writing", "failed"}
  /\ at = "merge" => merge = "none"
  /\ at = "drop" => merge \in {"ok"} \cup Stopped
  /\ at = "wait" =>
       /\ merge \in {"ok"} \cup Stopped
       /\ child \in {"reading", "writing", "failed", "ok"}
       /\ merge = "ok" => ~trailer
       /\ merge # "ok" => trailer \/ child = "failed"
       /\ child = "ok" => output = IF trailer THEN "short" ELSE "whole"
  /\ SquashfsCauses
  /\ at = "returned" =>
       /\ child \in {"none", "ok", "failed"}
       /\ result # "none"
       /\ Squashfs!WholeOrNothing /\ BlameIsRight

(* write_tar_with_progress. *)
TarInv ==
  /\ at \in {"start", "merge", "remove", "returned"}
  /\ at # "returned" => result = "none"
  /\ at \in {"start", "merge"} => merge = "none" /\ causes = {}
  /\ at = "remove" =>
       /\ merge \in {"ok"} \cup Stopped
       /\ causes \in CASE merge = "ok" -> {{}}
                       [] merge = "input" -> {{"input"}}
                       [] OTHER -> {{"encode"}, {"full"}}
       /\ merge = "ok" => output = "whole" /\ sent = Chunks
  /\ at = "returned" =>
       /\ merge \in {"none", "ok"} \cup Stopped
       /\ Tar!WholeOrNothing /\ BlameIsRight

(* As for the process; a merge finds the reader gone only where the        *)
(* unpacker failed.                                                        *)
DirCauses ==
  /\ causes \subseteq {"input", "encode", "unpack"}
  /\ "input" \in causes <=> merge = "input"
  /\ "encode" \in causes => merge = "output"
  /\ "unpack" \in causes => unpack = "failed"
  /\ merge = "output" => "encode" \in causes \/ "unpack" \in causes
  /\ unpack = "failed" => "unpack" \in causes \/ early
  /\ merge = "running" /\ unpack = "running" => reader

(* write_dir_with_progress.  Until the stream is ended early a merge that  *)
(* was cut short has chunks left that nobody can have read.                *)
DirInv ==
  /\ at \in {"start", "unpack", "join", "returned"}
  /\ sent \in Nat /\ got \in Nat /\ got <= sent
  /\ at # "returned" => result = "none"
  /\ at = "start" => merge = "none" /\ thread = "none" /\ ~early /\ unpack = "none"
  /\ at \in {"unpack", "join"} =>
       merge \in {"running", "ok"} \cup Stopped /\ thread \in {"running", "ended"}
  /\ at = "unpack" => unpack = "running"
  /\ at = "join" => unpack \in {"ok", "failed"}
  /\ unpack = "running" => at = "unpack"
  /\ merge = "running" => thread = "running"
  /\ early => thread = "ended" /\ merge # "ok"
  /\ merge \in Stopped /\ ~early => sent < Chunks
  /\ unpack = "ok" => got = Chunks \/ early
  /\ DirCauses
  /\ at = "returned" =>
       /\ thread # "running" /\ result # "none"
       /\ result = "setup" => merge = "none"
       /\ result # "setup" => thread = "ended" /\ result = Dir!Verdict
       /\ result # "setup" => merge \in {"ok"} \cup Stopped /\ unpack \in {"ok", "failed"}

IInv ==
  /\ spec \in {"squashfs", "tar", "dir"}
  /\ spec = "squashfs" => SquashfsInv
  /\ spec = "tar" => TarInv
  /\ spec = "dir" => DirInv
  /\ spec # "squashfs" => child = "none"
  /\ spec # "dir" => thread = "none"

USE SinkAssumption

LEMMA Initially == Init => IInv
  BY DEF Init, Squashfs!Init, Tar!Init, Dir!Init, IInv, SquashfsInv, TarInv, DirInv,
     SquashfsCauses, DirCauses

----------------------------------------------------------------------------
(* Each sink keeps its invariant. *)

LEMMA SquashfsKeeps ==
  ASSUME SquashfsInv, Squashfs!Next
  PROVE  SquashfsInv'
<1> USE DEF SquashfsInv, Stopped, Squashfs!Alive, Squashfs!Exited, Squashfs!stream,
            Squashfs!process, Squashfs!history
<1>1. ASSUME UNCHANGED <<at, output, eof, trailer, merge, child, causes, kept, result>>
      PROVE  SquashfsInv'
  BY <1>1 DEF Squashfs!WholeOrNothing, BlameIsRight, SquashfsCauses
<1>2. CASE Squashfs!RemoveStale \/ Squashfs!Spawn \/ Squashfs!SpawnFails
  <2>1. SquashfsCauses'
    BY <1>2 DEF Squashfs!RemoveStale, Squashfs!Spawn, Squashfs!SpawnFails, SquashfsCauses
  <2>2. at = "start" \/ at = "spawn" => causes = {}
    BY DEF SquashfsCauses
  <2>3. BlameIsRight'
    BY <1>2, <2>2 DEF Squashfs!RemoveStale, Squashfs!Spawn, Squashfs!SpawnFails, BlameIsRight
  <2> QED BY <1>2, <2>1, <2>3 DEF Squashfs!RemoveStale, Squashfs!Spawn, Squashfs!SpawnFails,
          Squashfs!WholeOrNothing
<1>3. CASE Squashfs!WriteChunk \/ Squashfs!ProcessWrites \/ Squashfs!DrainErrors \/ Squashfs!Retry
  <2>1. CASE Squashfs!WriteChunk \/ Squashfs!DrainErrors \/ Squashfs!Retry
    BY <1>1, <2>1 DEF Squashfs!WriteChunk, Squashfs!DrainErrors, Squashfs!Retry
  <2>2. CASE Squashfs!ProcessWrites
    BY <2>2 DEF Squashfs!ProcessWrites, SquashfsCauses
  <2> QED BY <1>3, <2>1, <2>2
<1>4. CASE Squashfs!MergeOk \/ Squashfs!BrokenPipe \/ Squashfs!InputFails \/ Squashfs!EncodeFails
  <2>1. SquashfsCauses'
    BY <1>4 DEF Squashfs!MergeOk, Squashfs!BrokenPipe, Squashfs!InputFails,
       Squashfs!EncodeFails, Squashfs!MergeReturns, SquashfsCauses
  <2> QED BY <1>4, <2>1 DEF Squashfs!MergeOk, Squashfs!BrokenPipe, Squashfs!InputFails,
          Squashfs!EncodeFails, Squashfs!MergeReturns
<1>5. CASE Squashfs!DropStdin
  BY <1>5 DEF Squashfs!DropStdin, SquashfsCauses
<1>6. CASE Squashfs!ProcessReads
  BY <1>6 DEF Squashfs!ProcessReads, SquashfsCauses
<1>7. CASE Squashfs!ProcessDone
  BY <1>7 DEF Squashfs!ProcessDone, SquashfsCauses
<1>8. CASE Squashfs!ProcessFails
  BY <1>8 DEF Squashfs!ProcessFails, SquashfsCauses
<1>9. CASE Squashfs!Decide
  <2>1. /\ at = "wait" /\ at' = "returned" /\ child \in {"ok", "failed"}
        /\ result' = Squashfs!Verdict
        /\ IF result' = "ok" THEN UNCHANGED <<output, kept>> ELSE Squashfs!Remove
        /\ UNCHANGED <<eof, trailer, merge, child, causes>>
    BY <1>9 DEF Squashfs!Decide
  <2>2. result' = "ok" => merge = "ok" /\ child = "ok" /\ output' = "whole"
    BY <2>1 DEF Squashfs!Verdict
  <2>3. result' \in {"ok", "input", "output", "mksquashfs"}
    BY <2>1 DEF Squashfs!Verdict
  <2>4. Squashfs!WholeOrNothing'
    BY <2>1, <2>2 DEF Squashfs!WholeOrNothing, Squashfs!Remove
  <2>5. BlameIsRight'
    BY <2>1, <2>2 DEF Squashfs!Verdict, BlameIsRight, SquashfsCauses
  <2> QED BY <2>1, <2>3, <2>4, <2>5 DEF SquashfsCauses
<1>10. CASE Squashfs!WaitFails
  BY <1>10 DEF Squashfs!WaitFails, Squashfs!WholeOrNothing, BlameIsRight, SquashfsCauses
<1> QED BY <1>2, <1>3, <1>4, <1>5, <1>6, <1>7, <1>8, <1>9, <1>10
    DEF Squashfs!Next, Squashfs!Sink, Squashfs!Process

LEMMA TarKeeps ==
  ASSUME TarInv, Tar!Next
  PROVE  TarInv'
<1> USE DEF TarInv, Stopped
<1>1. CASE Tar!Create \/ Tar!CreateFails \/ Tar!WriteChunk
  BY <1>1 DEF Tar!Create, Tar!CreateFails, Tar!WriteChunk, Tar!WholeOrNothing, BlameIsRight
<1>2. CASE Tar!MergeOk \/ Tar!MergeFails \/ Tar!WriteFails
  BY <1>2 DEF Tar!MergeOk, Tar!MergeFails, Tar!WriteFails, Tar!MergeReturns
<1>3. CASE Tar!Return
  BY <1>3 DEF Tar!Return, Tar!Remove, Tar!WholeOrNothing, BlameIsRight
<1> QED BY <1>1, <1>2, <1>3 DEF Tar!Next, Tar!Sink

LEMMA DirKeeps ==
  ASSUME DirInv, Dir!Next
  PROVE  DirInv'
<1> USE DEF DirInv, Stopped, Dir!socket
<1>1. CASE Dir!Start \/ Dir!StartFails
  <2>1. DirCauses'
    BY <1>1 DEF Dir!Start, Dir!StartFails, DirCauses
  <2> QED BY <1>1, <2>1 DEF Dir!Start, Dir!StartFails
<1>2. CASE Dir!WriteChunk
  BY <1>2 DEF Dir!WriteChunk, Dir!Verdict, DirCauses
<1>3. CASE Dir!MergeOk \/ Dir!BrokenPipe \/ Dir!InputFails \/ Dir!EncodeFails
  <2>1. merge = "running" /\ ~reader /\ sent < Chunks => "unpack" \in causes
    BY DEF DirCauses, Dir!Verdict
  <2>2. CASE Dir!MergeOk \/ Dir!InputFails \/ Dir!EncodeFails
    <3>1. DirCauses'
      BY <2>2 DEF Dir!MergeOk, Dir!InputFails, Dir!EncodeFails, Dir!MergeReturns, DirCauses
    <3> QED BY <2>2, <3>1 DEF Dir!MergeOk, Dir!InputFails, Dir!EncodeFails, Dir!MergeReturns
  <2>3. CASE Dir!BrokenPipe
    <3>1. DirCauses'
      BY <2>1, <2>3 DEF Dir!BrokenPipe, Dir!MergeReturns, DirCauses
    <3> QED BY <2>3, <3>1 DEF Dir!BrokenPipe, Dir!MergeReturns
  <2> QED BY <1>3, <2>2, <2>3
<1>4. CASE Dir!ThreadEnds
  BY <1>4 DEF Dir!ThreadEnds, Dir!Verdict, DirCauses
<1>5. CASE Dir!Unpack
  <2>1. DirCauses'
    BY <1>5 DEF Dir!Unpack, DirCauses
  <2> QED BY <1>5, <2>1 DEF Dir!Unpack, Dir!Verdict
<1>6. CASE Dir!UnpackOk \/ Dir!UnpackFails
  <2>1. DirCauses'
    BY <1>6 DEF Dir!UnpackOk, Dir!UnpackFails, Dir!UnpackEnds, DirCauses
  <2> QED BY <1>6, <2>1 DEF Dir!UnpackOk, Dir!UnpackFails, Dir!UnpackEnds, Dir!EndOfArchive
<1>7. CASE Dir!Join
  BY <1>7 DEF Dir!Join, Dir!Verdict, DirCauses
<1> QED BY <1>1, <1>2, <1>3, <1>4, <1>5, <1>6, <1>7 DEF Dir!Next, Dir!MergeThread, Dir!Caller

LEMMA Invariance == Spec => []IInv
<1>1. IInv /\ [Next]_vars => IInv'
  <2> SUFFICES ASSUME IInv, [Next]_vars PROVE IInv'
    OBVIOUS
  <2>1. CASE spec = "squashfs" /\ Squashfs!Next /\ NotSquashfs
    BY <2>1, SquashfsKeeps DEF IInv, NotSquashfs, dirOnly
  <2>2. CASE spec = "tar" /\ Tar!Next /\ NotTar
    BY <2>2, TarKeeps DEF IInv, NotTar, squashfsOnly, dirOnly
  <2>3. CASE spec = "dir" /\ Dir!Next /\ NotDir
    BY <2>3, DirKeeps DEF IInv, NotDir, squashfsOnly
  <2>4. CASE UNCHANGED vars
    BY <2>4 DEF vars, squashfsOnly, dirOnly, IInv, SquashfsInv, TarInv, DirInv, SquashfsCauses,
       DirCauses, Squashfs!WholeOrNothing, BlameIsRight, Tar!WholeOrNothing, Dir!Verdict
  <2> QED BY <2>1, <2>2, <2>3, <2>4 DEF Next
<1> QED BY <1>1, Initially, PTL DEF Spec

----------------------------------------------------------------------------
(* What a caller of a conversion may rely on. *)

(* After success the whole image is at the output path, and after a        *)
(* failure of the merge or of mksquashfs there is no file, unless it       *)
(* cannot be removed: a cut archive or image is left behind only then,     *)
(* wherever the stream broke off.                                          *)
THEOREM OutputIsWhole == Spec => []WholeOrNothing
<1>1. IInv => WholeOrNothing
  <2> SUFFICES ASSUME IInv PROVE WholeOrNothing
    OBVIOUS
  <2>1. spec = "squashfs" => Squashfs!WholeOrNothing
    BY DEF IInv, SquashfsInv, Squashfs!WholeOrNothing
  <2>2. spec = "tar" => Tar!WholeOrNothing
    BY DEF IInv, TarInv, Tar!WholeOrNothing
  <2>3. spec = "dir" => Dir!OkIsWhole
    BY DEF IInv, DirInv, Stopped, Dir!OkIsWhole, Dir!Verdict
  <2> QED BY <2>1, <2>2, <2>3 DEF IInv, WholeOrNothing
<1> QED BY <1>1, Invariance, PTL

(* The failure that is reported happened on its own: the layer's where a   *)
(* layer failed, never the broken pipe a failed consumer is to the merge,  *)
(* and success means that nothing failed.                                  *)
THEOREM CauseIsReported == Spec => []BlameIsRight
<1>1. IInv => BlameIsRight
  <2> SUFFICES ASSUME IInv PROVE BlameIsRight
    OBVIOUS
  <2>1. ASSUME result = "none" PROVE BlameIsRight
    BY <2>1 DEF BlameIsRight
  <2>2. ASSUME result # "none" PROVE at = "returned"
    BY <2>2 DEF IInv, SquashfsInv, TarInv, DirInv
  <2>3. ASSUME at = "returned", spec # "dir" PROVE BlameIsRight
    BY <2>3 DEF IInv, SquashfsInv, TarInv
  <2>4. ASSUME at = "returned", spec = "dir" PROVE BlameIsRight
    BY <2>4 DEF IInv, DirInv, DirCauses, Stopped, Dir!Verdict, BlameIsRight
  <2> QED BY <2>1, <2>2, <2>3, <2>4
<1> QED BY <1>1, Invariance, PTL

(* No sink returns while its process or its thread runs.                   *)
THEOREM NothingOutlives == Spec => []NothingRunsOn
<1>1. IInv => NothingRunsOn
  BY DEF IInv, SquashfsInv, DirInv, NothingRunsOn, Squashfs!NoOrphan, Squashfs!Alive,
     Dir!NoThreadLeft
<1> QED BY <1>1, Invariance, PTL

----------------------------------------------------------------------------
(* Image directories. *)

(* The types a tool may give to a blob. *)
OpensAs(type, packing) ==
  \/ type \in {Untyped, packing}
  \/ type = "docker.tar.gzip" /\ packing = "tar+gzip"
  \/ type = "tar+lzma" /\ packing = "tar+xz"

Describes(desc, name) ==
  /\ desc.name = name /\ desc.algorithm \in {"sha256", "path"}
  /\ OpensAs(desc.type, BlobOf[name].packing)

IsDir(e) == e = [index |-> e.index, manifest |-> e.manifest, blobs |-> e.blobs]

(* A document of a directory. *)
Names(e, name, document) == name \in DOMAIN e.blobs /\ e.blobs[name] = document

(* The ways from a directory to the descriptors of its layers. *)
ThroughIndex(e, descs) ==
  /\ e.index = Index(<<Descriptor("sha256", "m", "manifest")>>)
  /\ Names(e, "m", Manifest(descs))

ThroughNested(e, descs) ==
  /\ e.index = Index(<<Descriptor("sha256", "x", "index")>>)
  /\ Names(e, "x", Index(<<Descriptor("sha256", "y", "index"),
                           Descriptor("sha256", "m", "docker_manifest")>>))
  /\ Names(e, "m", Manifest(descs))

ThroughSaved(e, descs) ==
  /\ e.index = Absent
  /\ \E images : e.manifest = Saved(images) /\ DockerSave(images) = Loaded(descs)

Bare(e, descs) == e.index = Absent /\ e.manifest = Manifest(descs)

Refers(e, descs) ==
  \/ ThroughIndex(e, descs) \/ ThroughNested(e, descs)
  \/ ThroughSaved(e, descs) \/ Bare(e, descs)

(* Whichever it is, load_manifest finds it. *)
LEMMA ReferredIsLoaded ==
  ASSUME NEW e, NEW descs, Refers(e, descs)
  PROVE  LoadManifest(e) = Loaded(descs)
<1>1. CASE ThroughIndex(e, descs)
  <2>1. ReadManifest(Manifest(descs)) = Loaded(descs)
    BY DEF ReadManifest, Manifest
  <2>2. LoadManifestBlob(e, Descriptor("sha256", "m", "manifest")) = Loaded(descs)
    BY <1>1, <2>1 DEF ThroughIndex, Names, LoadManifestBlob, Descriptor, IsIndexType, Document
  <2>3. /\ e.index.is = "index" /\ e.index.manifests # <<>>
        /\ Head(e.index.manifests) = Descriptor("sha256", "m", "manifest")
    BY <1>1 DEF ThroughIndex, Index
  <2> QED BY <2>2, <2>3 DEF LoadManifest
<1>2. CASE ThroughNested(e, descs)
  <2> DEFINE single == Descriptor("sha256", "m", "docker_manifest")
             entries == <<Descriptor("sha256", "y", "index"), single>>
             typed == {i \in DOMAIN entries : IsManifestType(entries[i].type)}
  <2>1. ReadManifest(Manifest(descs)) = Loaded(descs)
    BY DEF ReadManifest, Manifest
  <2>2. ReadManifest(Document(e, single)) = Loaded(descs)
    BY <1>2, <2>1 DEF ThroughNested, Names, Descriptor, Document
  <2>3. DOMAIN entries = 1..2 /\ entries[1].type = "index" /\ entries[2] = single
    BY DEF Descriptor
  <2>4. typed = {2} /\ single.type = "docker_manifest"
    BY <2>3 DEF IsManifestType, Descriptor
  <2>5. Min(typed) = 2
    BY <2>4 DEF Min
  <2>6. Document(e, Descriptor("sha256", "x", "index")) = Index(entries)
    BY <1>2 DEF ThroughNested, Names, Descriptor, Document
  <2>7. Index(entries).is = "index" /\ Index(entries).manifests = entries
    BY DEF Index
  <2>8. IsIndexType(Descriptor("sha256", "x", "index").type)
    BY DEF IsIndexType, Descriptor
  <2>9. LoadManifestBlob(e, Descriptor("sha256", "x", "index")) = Loaded(descs)
    <3> HIDE DEF entries, single
    <3> QED BY <2>2, <2>3, <2>4, <2>5, <2>6, <2>7, <2>8 DEF LoadManifestBlob
  <2>10. /\ e.index.is = "index" /\ e.index.manifests # <<>>
         /\ Head(e.index.manifests) = Descriptor("sha256", "x", "index")
    BY <1>2 DEF ThroughNested, Index
  <2> QED BY <2>9, <2>10 DEF LoadManifest
<1>3. CASE ThroughSaved(e, descs)
  BY <1>3 DEF ThroughSaved, LoadManifest, Absent, Saved
<1>4. CASE Bare(e, descs)
  BY <1>4 DEF Bare, LoadManifest, Absent, Manifest, ReadManifest
<1> QED BY <1>1, <1>2, <1>3, <1>4 DEF Refers

(* No other blob matters to it. *)
LEMMA OtherBlobs ==
  ASSUME NEW e, NEW descs, Refers(e, descs), IsDir(e),
         NEW name \in DOMAIN e.blobs, name \notin {"m", "x", "y"}, NEW blob
  PROVE  Refers(WithBlob(e, name, blob), descs)
<1> DEFINE g == WithBlob(e, name, blob)
<1> SUFFICES Refers(g, descs)
  OBVIOUS
<1>1. g.index = e.index /\ g.manifest = e.manifest
  BY DEF IsDir, WithBlob
<1>2. g.blobs = [e.blobs EXCEPT ![name] = blob]
  BY DEF IsDir, WithBlob
<1>3. \A other, document : other # name /\ Names(e, other, document) => Names(g, other, document)
  BY <1>2 DEF Names
<1>4. "m" # name /\ "x" # name
  OBVIOUS
<1> HIDE DEF g
<1>5. CASE ThroughIndex(e, descs)
  BY <1>1, <1>3, <1>4, <1>5 DEF ThroughIndex, Refers
<1>6. CASE ThroughNested(e, descs)
  BY <1>1, <1>3, <1>4, <1>6 DEF ThroughNested, Refers
<1>7. CASE ThroughSaved(e, descs) \/ Bare(e, descs)
  BY <1>1, <1>7 DEF ThroughSaved, Bare, Refers
<1> QED BY <1>5, <1>6, <1>7 DEF Refers

(* A directory serves an image if every layer's blob is found where its    *)
(* descriptor says.                                                        *)
Holds(e, descs, img) ==
  /\ DOMAIN descs = DOMAIN img
  /\ \A k \in DOMAIN img :
       Describes(descs[k], img[k]) /\ FileOf(e, descs[k], k - 1) = BlobOf[img[k]]

Serves(e, descs, img) == IsDir(e) /\ Refers(e, descs) /\ Holds(e, descs, img)

(* Streams of entries as file systems have them. *)
Decent(streams) == \A k \in DOMAIN streams : \A entry \in ToSet(streams[k]) : IsInfo(entry[2])

LEMMA BlobIsLayer ==
  ASSUME NEW name \in DOMAIN BlobOf
  PROVE  /\ BlobOf[name].is = "layer" /\ BlobOf[name].end = "end"
         /\ BlobOf[name].packing \in Packings
         /\ BlobOf[name].members # <<>>
         /\ BlobOf[name].members \in Seq(ToSet(BlobOf[name].members))
         /\ Decent(BlobOf[name].members)
         /\ name \notin {"m", "x", "y"}
<1>1. IsBlob(BlobOf[name])
  BY OfflineAssumption
<1>2. name \notin {"m", "x", "y"}
  BY OfflineAssumption
<1>3. Decent(BlobOf[name].members)
  BY <1>1 DEF IsBlob, Decent, ToSet
<1> QED BY <1>1, <1>2, <1>3 DEF IsBlob, Layer

LEMMA ImageNames ==
  ASSUME NEW img \in Images
  PROVE  /\ img \in Seq(DOMAIN BlobOf) /\ Len(img) \in Nat \ {0}
         /\ DOMAIN img = 1..Len(img)
         /\ \A k \in DOMAIN img : img[k] \in DOMAIN BlobOf
         /\ ToSet(img) \subseteq DOMAIN BlobOf
<1>1. img \in Seq(DOMAIN BlobOf) /\ img # <<>>
  BY OfflineAssumption
<1>2. Len(img) \in Nat \ {0} /\ DOMAIN img = 1..Len(img)
  BY <1>1, EmptySeq, LenProperties
<1>3. \A k \in DOMAIN img : img[k] \in DOMAIN BlobOf
  BY <1>1, <1>2, ElementOfSeq
<1> QED BY <1>1, <1>2, <1>3 DEF ToSet

LEMMA BlobsOfLayout ==
  ASSUME NEW img \in Images, NEW index, NEW manifest,
         NEW documents, DOMAIN documents \subseteq {"m", "x", "y"}
  PROVE  LET g == WithBlobs(img, index, manifest, documents) IN
         /\ IsDir(g) /\ g.index = index /\ g.manifest = manifest
         /\ \A k \in DOMAIN img : Names(g, img[k], BlobOf[img[k]])
         /\ \A name \in DOMAIN documents : Names(g, name, documents[name])
<1> DEFINE g == WithBlobs(img, index, manifest, documents)
           blobs == [name \in ToSet(img) |-> BlobOf[name]]
<1>1. IsDir(g) /\ g.index = index /\ g.manifest = manifest /\ g.blobs = Over(blobs, documents)
  BY DEF IsDir, WithBlobs
<1>2. \A k \in DOMAIN img : Names(g, img[k], BlobOf[img[k]])
  BY <1>1 DEF Names, Over, ToSet
<1>3. \A name \in DOMAIN documents : name \notin ToSet(img)
  BY ImageNames, BlobIsLayer
<1>4. \A name \in DOMAIN documents : Names(g, name, documents[name])
  BY <1>1, <1>3 DEF Names, Over
<1> HIDE DEF g
<1> QED BY <1>1, <1>2, <1>4 DEF g

LEMMA TypesDescribe ==
  ASSUME NEW img, NEW typing \in Typing, NEW k \in DOMAIN img, NEW algorithm,
         algorithm \in {"sha256", "path"}
  PROVE  Describes(Descriptor(algorithm, img[k], TypeIn(typing, img[k])), img[k])
  BY DEF Typing, TypeIn, Describes, Descriptor, OpensAs

LEMMA PlainFile ==
  ASSUME NEW e, NEW desc, NEW name, NEW file, Describes(desc, name), Names(e, name, file),
         file.is # "blobs", NEW i
  PROVE  FileOf(e, desc, i) = file
  BY DEF Describes, Names, FileOf

LEMMA PlainHolds ==
  ASSUME NEW img \in Images, NEW typing \in Typing, NEW e,
         \A k \in DOMAIN img : Names(e, img[k], BlobOf[img[k]])
  PROVE  Holds(e, Descriptors(img, typing), img)
<1>1. SUFFICES ASSUME NEW k \in DOMAIN img
               PROVE  /\ Describes(Descriptors(img, typing)[k], img[k])
                      /\ FileOf(e, Descriptors(img, typing)[k], k - 1) = BlobOf[img[k]]
  BY DEF Holds, Descriptors
<1>2. Descriptors(img, typing)[k] = Descriptor("sha256", img[k], TypeIn(typing, img[k]))
  BY DEF Descriptors
<1>3. Describes(Descriptors(img, typing)[k], img[k])
  BY <1>2, TypesDescribe
<1>4. BlobOf[img[k]].is # "blobs"
  BY ImageNames, BlobIsLayer
<1> QED BY <1>3, <1>4, PlainFile

LEMMA OciServes ==
  ASSUME NEW img \in Images, NEW typing \in Typing
  PROVE  /\ Serves(OciLayout(img, typing), Descriptors(img, typing), img)
         /\ ThroughIndex(OciLayout(img, typing), Descriptors(img, typing))
<1> DEFINE g == OciLayout(img, typing)
           manifest == Manifest(Descriptors(img, typing))
           documents == [name \in {"m"} |-> manifest]
           index == Index(<<Descriptor("sha256", "m", "manifest")>>)
<1>1. /\ IsDir(g) /\ g.index = index /\ g.manifest = Absent
      /\ \A k \in DOMAIN img : Names(g, img[k], BlobOf[img[k]])
      /\ \A name \in DOMAIN documents : Names(g, name, documents[name])
  BY BlobsOfLayout DEF OciLayout
<1>2. Names(g, "m", manifest)
  BY <1>1
<1>3. Holds(g, Descriptors(img, typing), img)
  BY <1>1, PlainHolds
<1> QED BY <1>1, <1>2, <1>3 DEF Serves, Refers, ThroughIndex

LEMMA NestedServes ==
  ASSUME NEW img \in Images, NEW typing \in Typing
  PROVE  Serves(NestedLayout(img, typing), Descriptors(img, typing), img)
<1> DEFINE g == NestedLayout(img, typing)
           manifest == Manifest(Descriptors(img, typing))
           entries == Index(<<Descriptor("sha256", "y", "index"),
                              Descriptor("sha256", "m", "docker_manifest")>>)
           documents == [name \in {"x", "y", "m"} |->
                           CASE name = "x" -> entries
                             [] name = "y" -> Index(<<>>)
                             [] OTHER -> manifest]
           index == Index(<<Descriptor("sha256", "x", "index")>>)
<1>1. /\ IsDir(g) /\ g.index = index /\ g.manifest = Absent
      /\ \A k \in DOMAIN img : Names(g, img[k], BlobOf[img[k]])
      /\ \A name \in DOMAIN documents : Names(g, name, documents[name])
  BY BlobsOfLayout DEF NestedLayout
<1>2. documents["x"] = entries /\ documents["m"] = manifest
  OBVIOUS
<1>3. Names(g, "m", manifest) /\ Names(g, "x", entries)
  BY <1>1, <1>2
<1>4. Holds(g, Descriptors(img, typing), img)
  BY <1>1, PlainHolds
<1> QED BY <1>1, <1>3, <1>4 DEF Serves, Refers, ThroughNested

LEMMA BareServes ==
  ASSUME NEW img \in Images, NEW typing \in Typing
  PROVE  Serves(BareLayout(img, typing), Descriptors(img, typing), img)
<1> DEFINE g == BareLayout(img, typing)
           manifest == Manifest(Descriptors(img, typing))
<1>1. /\ IsDir(g) /\ g.index = Absent /\ g.manifest = manifest
      /\ \A k \in DOMAIN img : Names(g, img[k], BlobOf[img[k]])
  BY BlobsOfLayout DEF BareLayout, NoDocuments
<1>2. Holds(g, Descriptors(img, typing), img)
  BY <1>1, PlainHolds
<1> QED BY <1>1, <1>2 DEF Serves, Refers, Bare

LEMMA BothServes ==
  ASSUME NEW img \in Images, NEW typing \in Typing
  PROVE  Serves(BothLayout(img, typing), Descriptors(img, typing), img)
<1> DEFINE e == OciLayout(img, typing)
           g == BothLayout(img, typing)
           descs == Descriptors(img, typing)
<1>1. Serves(e, descs, img) /\ ThroughIndex(e, descs)
  BY OciServes
<1>3. IsDir(g) /\ g.index = e.index /\ g.blobs = e.blobs
  BY <1>1 DEF Serves, IsDir, BothLayout
<1> HIDE DEF g, e
<1>4. ThroughIndex(g, descs)
  BY <1>1, <1>3 DEF ThroughIndex, Names
<1>5. Holds(g, descs, img)
  BY <1>1, <1>3 DEF Serves, Holds, FileOf
<1>6. Serves(g, descs, img)
  BY <1>3, <1>4, <1>5 DEF Serves, Refers
<1> QED BY <1>6 DEF g

(* The paths of manifest.json, and the types of LayerSources. *)
SavedDescs(img, typing) ==
  [k \in DOMAIN img |-> Descriptor("path", img[k], TypeIn(typing, img[k]))]

LEMMA SavedIsRead ==
  ASSUME NEW img \in Images, NEW typing
  PROVE  DockerSave(<<SavedImage(img, typing), SavedImage(<<>>, "untyped")>>)
           = Loaded(SavedDescs(img, typing))
<1> DEFINE saved == SavedImage(img, typing)
           TypeOf(name) == IF name \in DOMAIN saved.sources THEN saved.sources[name] ELSE Untyped
<1>1. saved.layers = img
  BY DEF SavedImage
<1>2. \A k \in DOMAIN img : TypeOf(img[k]) = TypeIn(typing, img[k])
  <2>1. CASE typing = "untyped"
    <3>1. \A name : TypeIn(typing, name) = Untyped
      BY <2>1 DEF TypeIn
    <3>2. saved.sources = [name \in {} |-> Untyped]
      BY <2>1 DEF SavedImage
    <3> QED BY <3>1, <3>2
  <2>2. CASE typing # "untyped"
    BY <2>2 DEF SavedImage, ToSet
  <2> QED BY <2>1, <2>2
<1>3. DockerSave(<<saved, SavedImage(<<>>, "untyped")>>)
        = Loaded([k \in DOMAIN saved.layers |->
                    Descriptor("path", saved.layers[k], TypeOf(saved.layers[k]))])
  BY DEF DockerSave
<1>4. [k \in DOMAIN saved.layers |->
         Descriptor("path", saved.layers[k], TypeOf(saved.layers[k]))] = SavedDescs(img, typing)
  BY <1>1, <1>2 DEF SavedDescs
<1> QED BY <1>3, <1>4

LEMMA DockerServes ==
  ASSUME NEW img \in Images, NEW typing \in Typing
  PROVE  Serves(DockerLayout(img, typing), SavedDescs(img, typing), img)
<1> DEFINE g == DockerLayout(img, typing)
           descs == SavedDescs(img, typing)
           images == <<SavedImage(img, typing), SavedImage(<<>>, "untyped")>>
<1>1. /\ IsDir(g) /\ g.index = Absent /\ g.manifest = Saved(images)
      /\ \A k \in DOMAIN img : Names(g, img[k], BlobOf[img[k]])
  BY BlobsOfLayout DEF DockerLayout, NoDocuments
<1>2. ThroughSaved(g, descs)
  BY <1>1, SavedIsRead DEF ThroughSaved
<1>3. SUFFICES ASSUME NEW k \in DOMAIN img
               PROVE  Describes(descs[k], img[k]) /\ FileOf(g, descs[k], k - 1) = BlobOf[img[k]]
  BY <1>1, <1>2 DEF Serves, Refers, Holds, SavedDescs
<1>4. Describes(descs[k], img[k])
  BY TypesDescribe DEF SavedDescs
<1>5. BlobOf[img[k]].is # "blobs"
  BY ImageNames, BlobIsLayer
<1>6. Names(g, img[k], BlobOf[img[k]])
  BY <1>1
<1> HIDE DEF g, descs
<1> QED BY <1>4, <1>5, <1>6, PlainFile

LEMMA SubdirServes ==
  ASSUME NEW img \in Images, NEW typing \in Typing
  PROVE  Serves(SubdirLayout(img, typing), Descriptors(img, typing), img)
<1> DEFINE e == OciLayout(img, typing)
           g == SubdirLayout(img, typing)
           descs == Descriptors(img, typing)
           At(name) == {j \in 0..(Len(img) - 1) : img[j + 1] = name}
           dirs == [name \in ToSet(img) |-> BlobDir([i \in At(name) |-> BlobOf[name]])]
<1>1. Serves(e, descs, img) /\ ThroughIndex(e, descs)
  BY OciServes
<1>3. IsDir(g) /\ g.index = e.index /\ g.blobs = Over(dirs, e.blobs)
  BY <1>1 DEF Serves, IsDir, SubdirLayout
<1>4. "m" \notin ToSet(img)
  BY ImageNames, BlobIsLayer
<1>5. ThroughIndex(g, descs)
  <2> HIDE DEF g, e, dirs
  <2>1. DOMAIN dirs = ToSet(img)
    BY DEF dirs
  <2> QED BY <1>1, <1>3, <1>4, <2>1 DEF ThroughIndex, Names, Over
<1>6. ASSUME NEW k \in DOMAIN img
      PROVE  Describes(descs[k], img[k]) /\ FileOf(g, descs[k], k - 1) = BlobOf[img[k]]
  <2>1. Describes(descs[k], img[k])
    BY <1>1 DEF Serves, Holds
  <2>2. k - 1 \in At(img[k])
    BY ImageNames
  <2>3. img[k] \in DOMAIN g.blobs /\ g.blobs[img[k]] = dirs[img[k]]
    BY <1>3 DEF Over, ToSet
  <2>4. dirs[img[k]] = BlobDir([i \in At(img[k]) |-> BlobOf[img[k]]])
    BY DEF ToSet
  <2>5. FileOf(g, descs[k], k - 1) = BlobOf[img[k]]
    <3> HIDE DEF g, dirs, descs, At
    <3> QED BY <2>1, <2>2, <2>3, <2>4 DEF FileOf, Describes, BlobDir
  <2> QED BY <2>1, <2>5
<1>7. DOMAIN descs = DOMAIN img
  BY DEF Descriptors
<1> HIDE DEF g, descs
<1>8. Serves(g, descs, img)
  BY <1>3, <1>5, <1>6, <1>7 DEF Serves, Refers, Holds
<1> QED BY <1>8 DEF g, descs

(* Whichever tool wrote the directory, the image is found in it. *)
LEMMA LayoutServes ==
  ASSUME NEW img \in Images, NEW typing \in Typing, NEW d \in Layouts(img, typing)
  PROVE  \E descs : Serves(d, descs, img)
<1>1. \/ d = OciLayout(img, typing) \/ d = NestedLayout(img, typing)
      \/ d = DockerLayout(img, typing) \/ d = BothLayout(img, typing)
      \/ d = BareLayout(img, typing) \/ d = SubdirLayout(img, typing)
  BY DEF Layouts
<1> QED BY <1>1, OciServes, NestedServes, DockerServes, BothServes, BareServes, SubdirServes, Zenon

----------------------------------------------------------------------------
(* Damaged directories. *)

(* What is found of a blob, when hit is the one that what happened to. *)
FileFor(name, what, hit) ==
  IF name # hit \/ what = "none" THEN BlobOf[name] ELSE Broken(what, BlobOf[name])

BlobDamages ==
  {"cut_entry", "cut_plain", "cut_frame", "cut_middle", "tiny", "missing", "mistyped"}

(* The damage fits the blob. *)
Fits(what, hit) == what = "cut_entry" => BlobOf[hit].packing # "tar"

(* The files that are found for the layers. *)
Finds(e, descs, img, what, hit) ==
  /\ DOMAIN descs = DOMAIN img /\ Fits(what, hit)
  /\ \A k \in DOMAIN img :
       /\ Describes(descs[k], img[k])
       /\ FileOf(e, descs[k], k - 1) = FileFor(img[k], what, hit)

LEMMA FileReplaced ==
  ASSUME NEW e, IsDir(e), NEW desc, desc.algorithm \in {"sha256", "path"}, NEW i,
         NEW hit \in DOMAIN e.blobs, NEW blob, blob.is # "blobs"
  PROVE  FileOf(WithBlob(e, hit, blob), desc, i)
           = IF desc.name = hit THEN blob ELSE FileOf(e, desc, i)
<1> DEFINE g == WithBlob(e, hit, blob)
<1> SUFFICES FileOf(g, desc, i) = IF desc.name = hit THEN blob ELSE FileOf(e, desc, i)
  OBVIOUS
<1>1. g.blobs = [e.blobs EXCEPT ![hit] = blob]
  BY DEF IsDir, WithBlob
<1> HIDE DEF g
<1>2. CASE desc.name = hit
  BY <1>1, <1>2 DEF FileOf
<1>3. CASE desc.name # hit
  <2>1. DOMAIN g.blobs = DOMAIN e.blobs
    BY <1>1
  <2>2. desc.name \in DOMAIN e.blobs => g.blobs[desc.name] = e.blobs[desc.name]
    BY <1>1, <1>3
  <2> QED BY <1>3, <2>1, <2>2 DEF FileOf
<1> QED BY <1>2, <1>3

LEMMA FileThere ==
  ASSUME NEW e, NEW desc, NEW name, Describes(desc, name), NEW i,
         FileOf(e, desc, i).is # "absent"
  PROVE  name \in DOMAIN e.blobs
  BY DEF FileOf, Describes, Absent

(* A damaged blob is a blob of one file, or none. *)
LEMMA FileForShape ==
  ASSUME NEW name \in DOMAIN BlobOf, NEW what, NEW hit
  PROVE  /\ FileFor(name, what, hit).is \in {"layer", "absent"}
         /\ what \in BlobDamages \cup {"none"} =>
              (FileFor(name, what, hit).is = "absent" <=> name = hit /\ what = "missing")
<1>1. BlobOf[name].is = "layer"
  BY BlobIsLayer
<1>2. BlobOf[name] = Layer(BlobOf[name].packing, BlobOf[name].members, "end")
  BY OfflineAssumption DEF IsBlob
<1>3. [BlobOf[name] EXCEPT !.packing = "odd"].is = "layer"
  BY <1>2 DEF Layer
<1>4. /\ \A end : Cut(BlobOf[name], end).is = "layer"
      /\ \A packing, members, end : Layer(packing, members, end).is = "layer"
  BY DEF Cut, Layer
<1>5. Absent.is = "absent"
  BY DEF Absent
<1>6. Broken(what, BlobOf[name]).is \in {"layer", "absent"}
  BY <1>3, <1>4, <1>5 DEF Broken
<1>7. what \in BlobDamages => (Broken(what, BlobOf[name]).is = "absent" <=> what = "missing")
  BY <1>3, <1>4, <1>5 DEF Broken, BlobDamages
<1>8. ASSUME name # hit \/ what = "none"
      PROVE  FileFor(name, what, hit) = BlobOf[name]
  BY <1>8 DEF FileFor
<1>9. ASSUME name = hit, what # "none"
      PROVE  FileFor(name, what, hit) = Broken(what, BlobOf[name])
  BY <1>9 DEF FileFor
<1>10. CASE name # hit \/ what = "none"
  BY <1>1, <1>8, <1>10
<1>11. CASE name = hit /\ what # "none"
  BY <1>6, <1>7, <1>9, <1>11
<1> QED BY <1>10, <1>11

LEMMA FilesReplaced ==
  ASSUME NEW img \in Images, NEW e, IsDir(e), NEW descs, Holds(e, descs, img),
         NEW hit \in ToSet(img), NEW what, what # "none", Fits(what, hit)
  PROVE  /\ hit \in DOMAIN e.blobs
         /\ Finds(WithBlob(e, hit, FileFor(hit, what, hit)), descs, img, what, hit)
<1> DEFINE file == FileFor(hit, what, hit)
<1>1. ASSUME NEW k \in DOMAIN img
      PROVE  img[k] \in DOMAIN e.blobs
  <2>1. Describes(descs[k], img[k]) /\ FileOf(e, descs[k], k - 1) = BlobOf[img[k]]
    BY DEF Holds
  <2>2. FileOf(e, descs[k], k - 1).is # "absent"
    BY <2>1, ImageNames, BlobIsLayer
  <2> QED BY <2>1, <2>2, FileThere
<1>2. hit \in DOMAIN e.blobs
  BY <1>1 DEF ToSet
<1>3. file.is # "blobs"
  BY ImageNames, FileForShape
<1>4. \A k \in DOMAIN img : img[k] # hit => FileFor(img[k], what, hit) = BlobOf[img[k]]
  BY DEF FileFor
<1> HIDE DEF file
<1>5. ASSUME NEW k \in DOMAIN img
      PROVE  FileOf(WithBlob(e, hit, file), descs[k], k - 1)
               = IF img[k] = hit THEN file ELSE BlobOf[img[k]]
  <2>1. Describes(descs[k], img[k]) /\ FileOf(e, descs[k], k - 1) = BlobOf[img[k]]
    BY DEF Holds
  <2>2. descs[k].name = img[k] /\ descs[k].algorithm \in {"sha256", "path"}
    BY <2>1 DEF Describes
  <2>3. \A i : FileOf(WithBlob(e, hit, file), descs[k], i)
                 = IF descs[k].name = hit THEN file ELSE FileOf(e, descs[k], i)
    <3> DEFINE desc == descs[k]
    <3>1. desc.algorithm \in {"sha256", "path"}
      BY <2>2
    <3> HIDE DEF desc
    <3>2. \A i : FileOf(WithBlob(e, hit, file), desc, i)
                   = IF desc.name = hit THEN file ELSE FileOf(e, desc, i)
      BY <1>2, <1>3, <3>1, FileReplaced
    <3> QED BY <3>2 DEF desc
  <2> QED BY <2>1, <2>2, <2>3
<1>6. \A k \in DOMAIN img : FileOf(WithBlob(e, hit, file), descs[k], k - 1) = FileFor(img[k], what, hit)
  BY <1>4, <1>5 DEF file
<1>7. Finds(WithBlob(e, hit, file), descs, img, what, hit)
  BY <1>6 DEF Finds, Holds
<1> QED BY <1>2, <1>7 DEF file

LEMMA IsDirKept ==
  ASSUME NEW e, IsDir(e), NEW hit, NEW blob
  PROVE  IsDir(WithBlob(e, hit, blob))
  BY DEF IsDir, WithBlob

(* What the conversion meets in the directory it starts from. *)
Ready(e, what) ==
  IF what = "metadata" THEN LoadManifest(e) = Failed("layout")
  ELSE /\ what \in BlobDamages \cup {"none"} /\ IsDir(e)
       /\ \E hit \in ToSet(image) : \E descs :
            LoadManifest(e) = Loaded(descs) /\ Finds(e, descs, image, what, hit)

LEMMA MetadataFails ==
  ASSUME NEW d, IsDir(d),
         NEW e, \/ e = [d EXCEPT !.index = Garbled]
                \/ e = [d EXCEPT !.index = Absent, !.manifest = Absent]
                \/ e = [d EXCEPT !.index = Index(<<Descriptor("sha512", "m", "manifest")>>)]
  PROVE  LoadManifest(e) = Failed("layout")
<1>1. CASE e = [d EXCEPT !.index = Garbled]
  <2>1. e.index = Garbled
    BY <1>1 DEF IsDir
  <2> QED BY <2>1 DEF LoadManifest, Garbled
<1>2. CASE e = [d EXCEPT !.index = Absent, !.manifest = Absent]
  <2>1. e.index = Absent /\ e.manifest = Absent
    BY <1>2 DEF IsDir
  <2> QED BY <2>1 DEF LoadManifest, Absent, ReadManifest
<1>3. CASE e = [d EXCEPT !.index = Index(<<Descriptor("sha512", "m", "manifest")>>)]
  <2> DEFINE other == Descriptor("sha512", "m", "manifest")
  <2>1. e.index = Index(<<other>>)
    BY <1>3 DEF IsDir
  <2>2. /\ e.index.is = "index" /\ e.index.manifests # <<>>
        /\ Head(e.index.manifests) = other
    BY <2>1 DEF Index
  <2>3. Document(e, other) = [is |-> "unsupported"] /\ ~IsIndexType(other.type)
    BY DEF Document, Descriptor, IsIndexType
  <2>4. LoadManifestBlob(e, other) = Failed("layout")
    BY <2>3 DEF LoadManifestBlob, ReadManifest
  <2> QED BY <2>2, <2>4 DEF LoadManifest
<1> QED BY <1>1, <1>2, <1>3

LEMMA BlobDamaged ==
  ASSUME image \in Images, NEW d, NEW descs, Serves(d, descs, image),
         NEW hit \in ToSet(image), NEW what \in BlobDamages, Fits(what, hit)
  PROVE  Ready(WithBlob(d, hit, FileFor(hit, what, hit)), what)
<1> DEFINE e == WithBlob(d, hit, FileFor(hit, what, hit))
<1> SUFFICES Ready(e, what)
  OBVIOUS
<1>1. IsDir(d) /\ Holds(d, descs, image) /\ Refers(d, descs)
  BY DEF Serves
<1>2. what # "none" /\ what # "metadata"
  BY DEF BlobDamages
<1>3. hit \in DOMAIN d.blobs /\ Finds(e, descs, image, what, hit)
  BY <1>1, <1>2, FilesReplaced
<1>4. hit \notin {"m", "x", "y"}
  BY ImageNames, BlobIsLayer
<1>5. Refers(e, descs)
  BY <1>1, <1>3, <1>4, OtherBlobs
<1>6. LoadManifest(e) = Loaded(descs)
  BY <1>5, ReferredIsLoaded
<1>7. IsDir(e)
  BY <1>1, IsDirKept
<1> HIDE DEF e
<1> QED BY <1>2, <1>3, <1>6, <1>7 DEF Ready

LEMMA DamagedIsReady ==
  ASSUME image \in Images, NEW d, NEW descs, Serves(d, descs, image),
         NEW hit \in ToSet(image), NEW w \in Damaged(d, hit)
  PROVE  Ready(w.dir, w.what)
<1>1. \/ /\ w.what \in BlobDamages /\ Fits(w.what, hit)
         /\ w.dir = WithBlob(d, hit, FileFor(hit, w.what, hit))
      \/ /\ w.what = "metadata"
         /\ \/ w.dir = [d EXCEPT !.index = Garbled]
            \/ w.dir = [d EXCEPT !.index = Absent, !.manifest = Absent]
            \/ w.dir = [d EXCEPT !.index = Index(<<Descriptor("sha512", "m", "manifest")>>)]
  <2> DEFINE Blobs == {[what |-> what, dir |-> WithBlob(d, hit, Broken(what, BlobOf[hit]))] :
                         what \in DamagesTo(BlobOf[hit])}
  <2>1. CASE w \in Blobs
    <3>1. PICK what \in DamagesTo(BlobOf[hit]) :
            w = [what |-> what, dir |-> WithBlob(d, hit, Broken(what, BlobOf[hit]))]
      BY <2>1
    <3>2. what \in BlobDamages /\ Fits(what, hit)
      BY DEF DamagesTo, BlobDamages, Fits
    <3>3. FileFor(hit, what, hit) = Broken(what, BlobOf[hit])
      BY <3>2 DEF FileFor, BlobDamages
    <3> QED BY <3>1, <3>2, <3>3
  <2>2. CASE w \notin Blobs
    BY <2>2 DEF Damaged
  <2> QED BY <2>1, <2>2
<1>2. IsDir(d)
  BY DEF Serves
<1>3. CASE /\ w.what \in BlobDamages /\ Fits(w.what, hit)
           /\ w.dir = WithBlob(d, hit, FileFor(hit, w.what, hit))
  BY <1>3, BlobDamaged
<1>4. CASE w.what = "metadata"
  <2>1. LoadManifest(w.dir) = Failed("layout")
    BY <1>1, <1>2, <1>4, MetadataFails DEF BlobDamages
  <2> QED BY <1>4, <2>1 DEF Ready
<1> QED BY <1>1, <1>3, <1>4

LEMMA WholeIsReady ==
  ASSUME image \in Images, NEW d, NEW descs, Serves(d, descs, image),
         NEW hit \in ToSet(image)
  PROVE  Ready(d, "none")
<1>1. IsDir(d) /\ Holds(d, descs, image) /\ LoadManifest(d) = Loaded(descs)
  BY ReferredIsLoaded DEF Serves
<1>2. Finds(d, descs, image, "none", hit)
  BY <1>1 DEF Holds, Finds, FileFor, Fits
<1> QED BY <1>1, <1>2 DEF Ready

LEMMA InitIsReady ==
  ASSUME OfflineInit
  PROVE  image \in Images /\ Ready(dir, damage)
<1>1. image \in Images
  BY DEF OfflineInit
<1>2. PICK typing \in Typing, hit \in ToSet(image) :
        \E d \in Layouts(image, typing) :
          \/ dir = d /\ damage = "none"
          \/ \E w \in Damaged(d, hit) : dir = w.dir /\ damage = w.what
  BY DEF OfflineInit
<1>3. PICK d \in Layouts(image, typing) :
          \/ dir = d /\ damage = "none"
          \/ \E w \in Damaged(d, hit) : dir = w.dir /\ damage = w.what
  BY <1>2
<1>5. PICK descs : Serves(d, descs, image)
  BY <1>1, LayoutServes
<1>6. CASE dir = d /\ damage = "none"
  BY <1>1, <1>5, <1>6, WholeIsReady
<1>7. CASE \E w \in Damaged(d, hit) : dir = w.dir /\ damage = w.what
  BY <1>1, <1>5, <1>7, DamagedIsReady
<1> QED BY <1>1, <1>3, <1>6, <1>7

----------------------------------------------------------------------------
(* Trees. *)

LEMMA OverLookup ==
  ASSUME NEW f, NEW g
  PROVE  /\ DOMAIN Over(f, g) = DOMAIN f \cup DOMAIN g
         /\ \A x \in DOMAIN f : Over(f, g)[x] = f[x]
         /\ \A x \in DOMAIN g \ DOMAIN f : Over(f, g)[x] = g[x]
  BY DEF Over

(* A nonempty set of layers has a newest one. *)
LEMMA NewestExists ==
  ASSUME NEW n \in Nat, NEW S \in SUBSET (1..n), S # {}
  PROVE  Max(S) \in S /\ \A y \in S : Max(S) >= y
<1> DEFINE T == {n - i : i \in S}
<1>1. T \subseteq Nat /\ T # {}
  OBVIOUS
<1>2. PICK t \in T : \A u \in T : <<u, t>> \notin OpToRel(<, Nat)
  <2> HIDE DEF T
  <2> QED BY <1>1, WFMin, NatLessThanWellFounded, Zenon
<1>3. \A u \in T : ~(u < t)
  BY <1>1, <1>2 DEF OpToRel
<1>4. PICK x \in S : t = n - x
  OBVIOUS
<1>5. \A y \in S : x >= y
  <2> TAKE y \in S
  <2>1. ~(n - y < n - x)
    BY <1>3, <1>4
  <2>2. x \in Int /\ y \in Int
    OBVIOUS
  <2> QED BY <2>1, <2>2
<1> QED BY <1>5 DEF Max

LEMMA MeaningStep ==
  ASSUME NEW img \in Images, NEW j \in DOMAIN img
  PROVE  Over(MeaningFrom(img, j + 1), LayerTree(img[j])) = MeaningFrom(img, j)
<1> DEFINE newer == MeaningFrom(img, j + 1)
           tree == LayerTree(img[j])
           all == MeaningFrom(img, j)
           both == Over(newer, tree)
           Paths(k) == UNION {DOMAIN LayerTree(img[i]) : i \in k..Len(img)}
           With(path) == {i \in DOMAIN img : path \in DOMAIN LayerTree(img[i])}
<1>1. Len(img) \in Nat /\ DOMAIN img = 1..Len(img) /\ j \in 1..Len(img)
  BY ImageNames
<1>2. DOMAIN newer = Paths(j + 1) /\ DOMAIN all = Paths(j)
  BY DEF MeaningFrom
<1>3. j..Len(img) = {j} \cup (j + 1)..Len(img)
  BY <1>1
<1>4. Paths(j) = Paths(j + 1) \cup DOMAIN tree
  BY <1>3
<1>5. DOMAIN both = DOMAIN all
  BY <1>2, <1>4, OverLookup
<1>6. \A path \in DOMAIN newer : newer[path] = LayerTree(img[Newest(img, path)])[path]
  BY DEF MeaningFrom
<1>7. \A path \in DOMAIN all : all[path] = LayerTree(img[Newest(img, path)])[path]
  BY DEF MeaningFrom
<1>8. \A path \in DOMAIN newer : both[path] = all[path]
  <2>1. \A path \in DOMAIN newer : both[path] = newer[path]
    BY OverLookup
  <2>2. DOMAIN newer \subseteq DOMAIN all
    BY <1>2, <1>4
  <2> HIDE DEF newer, both, all
  <2> QED BY <1>6, <1>7, <2>1, <2>2
<1>9. ASSUME NEW path \in DOMAIN tree \ DOMAIN newer
      PROVE  both[path] = all[path]
  <2>1. both[path] = tree[path]
    <3>1. \A x \in DOMAIN tree \ DOMAIN newer : both[x] = tree[x]
      BY OverLookup
    <3> QED BY <1>9, <3>1
  <2>2. \A i \in With(path) : i <= j
    <3> SUFFICES ASSUME NEW i \in With(path), i > j
                 PROVE  FALSE
      BY <1>1
    <3>1. i \in (j + 1)..Len(img)
      BY <1>1
    <3>2. path \in Paths(j + 1)
      BY <3>1
    <3> QED BY <1>2, <1>9, <3>2
  <2>3. j \in With(path)
    BY <1>9
  <2>4. With(path) \subseteq Int
    BY <1>1
  <2>5. Max(With(path)) = j
    <3> HIDE DEF With
    <3>1. \A y \in With(path) : j >= y
      BY <1>1, <2>2, <2>4
    <3>2. \A x \in With(path) : (\A y \in With(path) : x >= y) => x = j
      BY <1>1, <2>2, <2>3, <2>4
    <3> QED BY <2>3, <3>1, <3>2 DEF Max
  <2>6. Newest(img, path) = j
    BY <2>5 DEF Newest
  <2> QED BY <1>2, <1>4, <1>7, <1>9, <2>1, <2>6
<1>10. \A path \in DOMAIN both : both[path] = all[path]
  BY <1>2, <1>4, <1>5, <1>8, <1>9
<1>11. both = [path \in DOMAIN both |-> both[path]] /\ all = [path \in DOMAIN all |-> all[path]]
  BY DEF Over, MeaningFrom
<1> HIDE DEF both, all
<1>12. both = all
  BY <1>5, <1>10, <1>11
<1> QED BY <1>12 DEF both, all

(* Nothing is newer than the newest layer. *)
LEMMA MeaningNone ==
  ASSUME NEW img \in Images
  PROVE  MeaningFrom(img, Len(img) + 1) = NoTree
<1>1. (Len(img) + 1)..Len(img) = {}
  BY ImageNames
<1> QED BY <1>1 DEF MeaningFrom, NoTree

(* Trees as file systems have them. *)
LEMMA TreeOfIsTree ==
  ASSUME NEW streams, Decent(streams)
  PROVE  IsTree(TreeOf(streams))
<1> DEFINE tree == TreeOf(streams)
<1>1. \A entry \in Entries(streams) : IsInfo(entry[2])
  BY DEF Decent, Entries
<1>2. tree = [path \in DOMAIN tree |-> tree[path]]
  BY DEF TreeOf
<1>3. ASSUME NEW path \in DOMAIN tree
      PROVE  IsInfo(tree[path])
  <2> DEFINE chosen == CHOOSE entry \in Entries(streams) : entry[1] = path
  <2>1. \E entry \in Entries(streams) : entry[1] = path
    BY DEF TreeOf
  <2>2. chosen \in Entries(streams)
    BY <2>1
  <2>3. tree[path] = chosen[2]
    BY DEF TreeOf
  <2> HIDE DEF chosen, tree
  <2> QED BY <1>1, <2>2, <2>3
<1> HIDE DEF tree
<1>4. IsTree(tree)
  BY <1>2, <1>3 DEF IsTree
<1> QED BY <1>4 DEF tree

LEMMA OverIsTree ==
  ASSUME NEW f, NEW g, IsTree(f), IsTree(g)
  PROVE  IsTree(Over(f, g))
<1> DEFINE both == Over(f, g)
<1>1. both = [path \in DOMAIN both |-> both[path]]
  BY DEF Over
<1>2. DOMAIN both = DOMAIN f \cup DOMAIN g
  BY OverLookup
<1>3. /\ \A path \in DOMAIN f : both[path] = f[path]
      /\ \A path \in DOMAIN g \ DOMAIN f : both[path] = g[path]
  BY OverLookup
<1>4. \A path \in DOMAIN both : IsInfo(both[path])
  <2> HIDE DEF both
  <2> QED BY <1>2, <1>3 DEF IsTree
<1> QED BY <1>1, <1>4 DEF IsTree

LEMMA MeaningIsTree ==
  ASSUME NEW img \in Images
  PROVE  IsTree(Meaning(img))
<1> DEFINE tree == Meaning(img)
<1>1. tree = [path \in DOMAIN tree |-> tree[path]]
  BY DEF Meaning, MeaningFrom
<1>2. ASSUME NEW path \in DOMAIN tree
      PROVE  IsInfo(tree[path])
  <2> DEFINE With == {i \in DOMAIN img : path \in DOMAIN LayerTree(img[i])}
             i == Newest(img, path)
  <2>1. Len(img) \in Nat /\ DOMAIN img = 1..Len(img)
    BY ImageNames
  <2>2. With # {}
    BY <2>1 DEF Meaning, MeaningFrom
  <2>3. i \in With
    <3>1. With \in SUBSET (1..Len(img))
      BY <2>1
    <3>2. Max(With) \in With
      <4> HIDE DEF With
      <4> QED BY <2>1, <2>2, <3>1, NewestExists
    <3> QED BY <3>2 DEF Newest
  <2>4. tree[path] = LayerTree(img[i])[path]
    BY DEF Meaning, MeaningFrom
  <2>5. Decent(BlobOf[img[i]].members)
    BY <2>3, ImageNames, BlobIsLayer
  <2>6. IsTree(LayerTree(img[i]))
    BY <2>5, TreeOfIsTree DEF LayerTree
  <2> HIDE DEF tree, i
  <2> QED BY <2>3, <2>4, <2>6 DEF IsTree
<1> HIDE DEF tree
<1>3. IsTree(tree)
  BY <1>1, <1>2 DEF IsTree
<1> QED BY <1>3 DEF tree

----------------------------------------------------------------------------
(* Reading blobs. *)

(* The first stream, or all of them. *)
LEMMA StreamsOf ==
  ASSUME NEW decoder, NEW members, members # <<>>, members \in Seq(ToSet(members))
  PROVE  /\ Streams(decoder, members) # <<>>
         /\ Streams(decoder, members) \in Seq(ToSet(members))
         /\ Len(Streams(decoder, members)) \in {1, Len(members)}
         /\ Len(members) = 1 \/ decoder \notin {"tar+gzip", "tar+bzip2", "tar+xz"}
              => Streams(decoder, members) = members
         /\ Len(members) = 1 => Len(Streams(decoder, members)) = Len(members)
<1> DEFINE S == ToSet(members)
           first == SubSeq(members, 1, 1)
<1>1. Len(members) \in Nat \ {0}
  BY EmptySeq
<1>2. \A i \in 1..1 : members[i] \in S
  BY <1>1, ElementOfSeq
<1>3. first \in Seq(S) /\ Len(first) = 1
  BY <1>2, SubSeqProperties
<1>4. Len(members) = 1 => first = members
  BY SubSeqFull
<1>5. first # <<>>
  BY <1>3
<1> HIDE DEF first
<1>6. Streams(decoder, members) = first \/ Streams(decoder, members) = members
  BY DEF Streams, first
<1>7. decoder \notin {"tar+gzip", "tar+bzip2", "tar+xz"} => Streams(decoder, members) = members
  BY DEF Streams
<1> QED BY <1>1, <1>3, <1>4, <1>5, <1>6, <1>7

LEMMA DecentKept ==
  ASSUME NEW decoder, NEW members, members # <<>>, members \in Seq(ToSet(members)), Decent(members)
  PROVE  Decent(Streams(decoder, members))
<1> DEFINE streams == Streams(decoder, members)
<1>1. streams \in Seq(ToSet(members))
  BY StreamsOf
<1>2. \A k \in DOMAIN streams : streams[k] \in ToSet(members)
  BY <1>1, ElementOfSeq, LenProperties
<1> HIDE DEF streams
<1>3. Decent(streams)
  BY <1>2 DEF Decent, ToSet
<1> QED BY <1>3 DEF streams

(* A whole blob is read, except for what follows its first stream. *)
LEMMA WholeBlobReads ==
  ASSUME NEW name \in DOMAIN BlobOf, NEW type, DecoderOf(type) = BlobOf[name].packing
  PROVE  ReadBlob(BlobOf[name], type)
           = Loaded(Streams(BlobOf[name].packing, BlobOf[name].members))
<1>1. /\ BlobOf[name].is = "layer" /\ BlobOf[name].end = "end"
      /\ BlobOf[name].packing # "unsupported"
  BY BlobIsLayer DEF Packings
<1> QED BY <1>1 DEF ReadBlob

(* Nothing of another file is read by mistake. *)
LEMMA BadFileFails ==
  ASSUME NEW name \in DOMAIN BlobOf, NEW what, what \notin {"none", "cut_plain", "cut_frame"},
         NEW type, what # "mistyped" => DecoderOf(type) = BlobOf[name].packing,
         Fits(what, name)
  PROVE  ReadBlob(FileFor(name, what, name), type) = Failed("layer")
<1> DEFINE file == FileFor(name, what, name)
<1> SUFFICES ReadBlob(file, type) = Failed("layer")
  OBVIOUS
<1>0. file = Broken(what, BlobOf[name])
  BY DEF FileFor
<1>1. ASSUME NEW end \in {"entry", "middle", "tiny"}, NEW stream,
             file = Layer(BlobOf[name].packing, <<stream>>, end),
             DecoderOf(type) = BlobOf[name].packing,
             end = "entry" => BlobOf[name].packing # "tar"
      PROVE  ReadBlob(file, type) = Failed("layer")
  <2> DEFINE members == <<stream>>
  <2>1. file = Layer(BlobOf[name].packing, members, end)
    BY <1>1
  <2>2. file.is = "layer" /\ file.end = end /\ file.members = members
        /\ file.packing = BlobOf[name].packing
    BY <2>1 DEF Layer
  <2>3. Len(members) = 1 /\ members # <<>> /\ members \in Seq(ToSet(members))
    <3>1. members \in Seq({stream}) /\ Len(members) = 1 /\ members[1] = stream /\ DOMAIN members = 1..1
      OBVIOUS
    <3>2. ToSet(members) = {stream}
      BY <3>1 DEF ToSet
    <3> QED BY <3>1, <3>2
  <2> HIDE DEF members, file
  <2>4. Len(Streams(DecoderOf(type), members)) = Len(members)
    BY <2>3, StreamsOf
  <2> QED BY <1>1, <2>2, <2>4 DEF ReadBlob
<1>2. CASE what = "cut_entry"
  <2> DEFINE stream == IF BlobOf[name].members[1] = <<>> THEN <<>> ELSE <<BlobOf[name].members[1][1]>>
  <2>1. file = Layer(BlobOf[name].packing, <<stream>>, "entry")
    BY <1>0, <1>2 DEF Broken, Cut
  <2> HIDE DEF stream, file
  <2> QED BY <1>1, <1>2, <2>1 DEF Fits
<1>3. CASE what = "cut_middle"
  <2> DEFINE stream == IF BlobOf[name].members[1] = <<>> THEN <<>> ELSE <<BlobOf[name].members[1][1]>>
  <2>1. file = Layer(BlobOf[name].packing, <<stream>>, "middle")
    BY <1>0, <1>3 DEF Broken, Cut
  <2> HIDE DEF stream, file
  <2> QED BY <1>1, <1>3, <2>1
<1>4. CASE what = "tiny"
  <2>1. file = Layer(BlobOf[name].packing, <<<<>>>>, "tiny")
    BY <1>0, <1>4 DEF Broken
  <2> HIDE DEF file
  <2> QED BY <1>1, <1>4, <2>1
<1>5. CASE what = "mistyped"
  <2>1. file = [BlobOf[name] EXCEPT !.packing = "odd"]
    BY <1>0, <1>5 DEF Broken
  <2>2. BlobOf[name] = Layer(BlobOf[name].packing, BlobOf[name].members, "end")
    BY OfflineAssumption DEF IsBlob
  <2>3. file.packing = "odd"
    BY <2>1, <2>2 DEF Layer
  <2>4. DecoderOf(type) # "odd"
    BY DEF DecoderOf, Packings
  <2> HIDE DEF file
  <2> QED BY <2>3, <2>4 DEF ReadBlob
<1>6. CASE what \notin {"cut_entry", "cut_middle", "tiny", "mistyped"}
  <2>1. file.is = "absent"
    BY <1>0, <1>6 DEF Broken, Absent
  <2> HIDE DEF file
  <2> QED BY <2>1 DEF ReadBlob
<1> QED BY <1>2, <1>3, <1>4, <1>5, <1>6

(* Whatever is read of a file is fit for a tree. *)
LEMMA ReadsDecent ==
  ASSUME NEW name \in DOMAIN BlobOf, NEW what, NEW hit, NEW type,
         ReadBlob(FileFor(name, what, hit), type).error = "none"
  PROVE  Decent(ReadBlob(FileFor(name, what, hit), type).layers)
<1> DEFINE file == FileFor(name, what, hit)
           blob == BlobOf[name]
<1> SUFFICES Decent(ReadBlob(file, type).layers)
  OBVIOUS
<1>1. /\ blob = Layer(blob.packing, blob.members, "end")
      /\ blob.members # <<>> /\ blob.members \in Seq(ToSet(blob.members)) /\ Decent(blob.members)
      /\ \A k \in DOMAIN blob.members : blob.members[k] \in Seq(ToSet(blob.members[k]))
  <2>1. IsBlob(blob) /\ Decent(blob.members)
    BY OfflineAssumption, BlobIsLayer
  <2>2. \A k \in DOMAIN blob.members : blob.members[k] \in ToSet(blob.members)
    BY DEF ToSet
  <2> QED BY <2>1, <2>2 DEF IsBlob
<1>2. ASSUME NEW members, file.members = members, members # <<>>,
             members \in Seq(ToSet(members)), Decent(members)
      PROVE  Decent(ReadBlob(file, type).layers)
  <2> HIDE DEF file
  <2>1. ReadBlob(file, type).layers = Streams(DecoderOf(type), members)
    BY <1>2 DEF ReadBlob, Failed, Loaded, file
  <2> QED BY <1>2, <2>1, DecentKept
<1>3. CASE file = blob
  BY <1>1, <1>2, <1>3
<1>4. CASE file = [blob EXCEPT !.packing = "odd"]
  <2>1. file.members = blob.members
    BY <1>1, <1>4 DEF Layer
  <2> QED BY <1>1, <1>2, <2>1
<1>5. ASSUME NEW stream, NEW end, file = Layer(blob.packing, <<stream>>, end),
             ToSet(stream) \subseteq ToSet(blob.members[1])
      PROVE  Decent(ReadBlob(file, type).layers)
  <2> DEFINE members == <<stream>>
  <2>1. file.members = members
    BY <1>5 DEF Layer
  <2>2. 1 \in DOMAIN blob.members
    BY <1>1, EmptySeq, LenProperties
  <2>3. \A entry \in ToSet(stream) : IsInfo(entry[2])
    BY <1>1, <1>5, <2>2 DEF Decent
  <2>4. members \in Seq({stream}) /\ members # <<>> /\ members[1] = stream /\ DOMAIN members = 1..1
    OBVIOUS
  <2>5. ToSet(members) = {stream}
    BY <2>4 DEF ToSet
  <2>6. Decent(members)
    BY <2>3, <2>4 DEF Decent
  <2> HIDE DEF members
  <2> QED BY <1>2, <2>1, <2>4, <2>5, <2>6
<1>6. CASE \E end : file = Cut(blob, end)
  <2> DEFINE stream == IF blob.members[1] = <<>> THEN <<>> ELSE <<blob.members[1][1]>>
  <2>1. PICK end : file = Layer(blob.packing, <<stream>>, end)
    BY <1>6 DEF Cut
  <2>2. 1 \in DOMAIN blob.members
    BY <1>1, EmptySeq, LenProperties
  <2>3. ToSet(stream) \subseteq ToSet(blob.members[1])
    <3>1. CASE blob.members[1] = <<>>
      BY <3>1 DEF ToSet
    <3>2. CASE blob.members[1] # <<>>
      <4>1. 1 \in DOMAIN blob.members[1]
        BY <1>1, <2>2, <3>2, EmptySeq, LenProperties
      <4>2. \A i \in DOMAIN stream : stream[i] = blob.members[1][1]
        BY <3>2
      <4> QED BY <4>1, <4>2 DEF ToSet
    <3> QED BY <3>1, <3>2
  <2> HIDE DEF stream, file
  <2> QED BY <1>5, <2>1, <2>3
<1>7. CASE file = Layer(blob.packing, <<blob.members[1]>>, "end")
  <2> HIDE DEF file
  <2> QED BY <1>5, <1>7
<1>8. CASE file = Layer(blob.packing, <<<<>>>>, "tiny")
  <2>1. ToSet(<<>>) \subseteq ToSet(blob.members[1])
    BY DEF ToSet
  <2> HIDE DEF file
  <2> QED BY <1>5, <1>8, <2>1
<1>9. CASE file = Absent
  <2>1. ReadBlob(file, type) = Failed("layer")
    BY <1>9 DEF ReadBlob, Absent
  <2> QED BY <2>1 DEF Failed
<1>10. \/ file = blob \/ file = [blob EXCEPT !.packing = "odd"] \/ (\E end : file = Cut(blob, end))
       \/ file = Layer(blob.packing, <<blob.members[1]>>, "end")
       \/ file = Layer(blob.packing, <<<<>>>>, "tiny") \/ file = Absent
  BY DEF FileFor, Broken
<1> QED BY <1>3, <1>4, <1>6, <1>7, <1>8, <1>9, <1>10

----------------------------------------------------------------------------
(* The conversion. *)

Offered(layer, k, hit) ==
  /\ layer.index = k - 1
  /\ Describes(layer.desc, image[k])
  /\ FileOf(dir, layer.desc, k - 1) = FileFor(image[k], damage, hit)
  /\ damage # "mistyped" \/ image[k] # hit => DecoderOf(layer.type) = BlobOf[image[k]].packing

(* The layers up to j are left, and the hit blob is among them; the newer  *)
(* ones are merged.                                                        *)
LayersLeft(j, hit) ==
  /\ todo \in Seq(ToSet(todo)) /\ Len(todo) = j /\ Fits(damage, hit)
  /\ \A k \in 1..j : Offered(todo[k], k, hit)
  /\ damage # "none" /\ ~LooksComplete => \E k \in 1..j : image[k] = hit
  /\ ~SeveralStreams /\ ~LooksComplete => merged = MeaningFrom(image, j + 1)

BeforeDone ==
  /\ error = "none" /\ out = "before" /\ step = "idle"

ConvertInv ==
  /\ image \in Images
  /\ phase \in {"start", "loaded", "merging", "done"}
  /\ phase = "start" => Ready(dir, damage) /\ BeforeDone /\ merged = NoTree
  /\ phase = "loaded" =>
       /\ damage \in BlobDamages \cup {"none"} /\ IsDir(dir) /\ BeforeDone /\ merged = NoTree
       /\ \E hit \in ToSet(image) : Finds(dir, todo, image, damage, hit)
  /\ phase = "merging" =>
       /\ damage \in (BlobDamages \cup {"none", "vanished"}) \ {"missing"}
       /\ IsDir(dir) /\ BeforeDone
       /\ \E hit \in ToSet(image) : \E j \in 0..Len(image) : LayersLeft(j, hit)
  /\ phase = "done" => ConvertIsTrue
  /\ IsTree(merged)

LEMMA InitConvertInv ==
  ASSUME OfflineInit
  PROVE  ConvertInv
<1>1. image \in Images /\ Ready(dir, damage)
  BY InitIsReady
<1>2. phase = "start" /\ merged = NoTree /\ BeforeDone
  BY DEF OfflineInit, VerifyInit, BeforeDone
<1>3. IsTree(NoTree)
  BY DEF IsTree, NoTree
<1> QED BY <1>1, <1>2, <1>3 DEF ConvertInv

LEMMA LoadStep ==
  ASSUME ConvertInv, Load
  PROVE  ConvertInv'
<1> USE DEF Untouched, verifyVars
<1>1. /\ phase = "start" /\ image' = image /\ merged' = merged /\ damage' = damage /\ dir' = dir
      /\ step' = step
  BY DEF Load
<1>2. Ready(dir, damage) /\ BeforeDone /\ image \in Images /\ IsTree(merged) /\ merged = NoTree
  BY <1>1 DEF ConvertInv
<1>3. CASE damage = "metadata"
  <2>1. LoadManifest(dir) = Failed("layout")
    BY <1>2, <1>3 DEF Ready
  <2>2. LoadManifest(dir).error = "layout"
    BY <2>1 DEF Failed
  <2>3. phase' = "done" /\ error' = "layout" /\ out' = "before"
    BY <1>2, <2>2 DEF Load, FailsLayout, BeforeDone
  <2> QED BY <1>1, <1>2, <1>3, <2>3 DEF ConvertInv, ConvertIsTrue
<1>4. CASE damage # "metadata"
  <2>1. PICK hit \in ToSet(image) : \E descs :
          LoadManifest(dir) = Loaded(descs) /\ Finds(dir, descs, image, damage, hit)
    BY <1>2, <1>4 DEF Ready
  <2>2. PICK descs :
          LoadManifest(dir) = Loaded(descs) /\ Finds(dir, descs, image, damage, hit)
    BY <2>1
  <2>3. LoadManifest(dir).error = "none" /\ LoadManifest(dir).layers = descs
    BY <2>2 DEF Loaded
  <2>4. phase' = "loaded" /\ todo' = descs /\ error' = error /\ out' = out
    BY <2>3 DEF Load, FailsLayout
  <2>5. damage \in BlobDamages \cup {"none"} /\ IsDir(dir)
    BY <1>2, <1>4 DEF Ready
  <2>6. BeforeDone'
    BY <1>1, <1>2, <2>4 DEF BeforeDone
  <2>7. Finds(dir', todo', image', damage', hit)
    BY <1>1, <2>2, <2>4
  <2> QED BY <1>1, <1>2, <2>4, <2>5, <2>6, <2>7 DEF ConvertInv
<1> QED BY <1>3, <1>4

(* The layers in order are a sequence. *)
LEMMA LayersAreSeq ==
  ASSUME NEW n \in Nat, NEW f, f = [k \in 1..n |-> f[k]]
  PROVE  f \in Seq(ToSet(f)) /\ Len(f) = n
<1>1. DOMAIN f = 1..n
  BY Zenon
<1>2. f \in [1..n -> ToSet(f)]
  BY <1>1 DEF ToSet
<1>3. f \in Seq(ToSet(f))
  BY <1>2, SeqDef
<1>4. Len(f) = n
  BY <1>1, <1>3, LenProperties
<1> QED BY <1>3, <1>4

LEMMA FilePacked ==
  ASSUME NEW name \in DOMAIN BlobOf, NEW what \in (BlobDamages \cup {"none"}) \ {"missing"},
         NEW hit, what # "mistyped" \/ name # hit
  PROVE  DetectMediaType(FileFor(name, what, hit)) = BlobOf[name].packing
<1> DEFINE file == FileFor(name, what, hit)
<1>1. BlobOf[name].is = "layer"
  BY BlobIsLayer
<1>2. file = BlobOf[name] \/ \E members, end : file = Layer(BlobOf[name].packing, members, end)
  BY DEF FileFor, BlobDamages, Broken, Cut
<1>3. file.is = "layer" /\ file.packing = BlobOf[name].packing
  BY <1>1, <1>2 DEF Layer
<1> HIDE DEF file
<1>4. DetectMediaType(file) = BlobOf[name].packing
  BY <1>3 DEF DetectMediaType
<1> QED BY <1>4 DEF file

(* Only what is left of a tiny blob is too short to be typed. *)
LEMMA ShortIsTiny ==
  ASSUME NEW name \in DOMAIN BlobOf, NEW what, NEW hit, TooShort(FileFor(name, what, hit))
  PROVE  what = "tiny"
<1> SUFFICES ASSUME what # "tiny"
             PROVE  FALSE
  OBVIOUS
<1> DEFINE file == FileFor(name, what, hit)
           blob == BlobOf[name]
<1>1. blob = Layer(blob.packing, blob.members, "end")
  BY OfflineAssumption DEF IsBlob
<1>2. blob.end = "end" /\ [blob EXCEPT !.packing = "odd"].end = "end"
  BY <1>1 DEF Layer
<1>3. file.is = "layer" /\ file.end = "tiny"
  BY DEF TooShort
<1>4. \/ file = blob \/ file = [blob EXCEPT !.packing = "odd"] \/ file = Cut(blob, "entry")
      \/ file = Cut(blob, "middle")
      \/ file = Layer(blob.packing, <<blob.members[1]>>, "end") \/ file = Absent
  BY DEF FileFor, Broken
<1>5. /\ \A end : Cut(blob, end).end = end /\ Layer(blob.packing, <<blob.members[1]>>, end).end = end
      /\ Absent.is = "absent"
  BY DEF Cut, Layer, Absent
<1>6. file.end \in {"end", "entry", "middle"} \/ file.is = "absent"
  BY <1>2, <1>4, <1>5, Zenon
<1> HIDE DEF file
<1> QED BY <1>3, <1>6

(* The type a descriptor gives, or the one detected, names the decoder. *)
LEMMA TypeDecodes ==
  ASSUME NEW packing \in Packings, NEW type, OpensAs(type, packing)
  PROVE  DecoderOf(IF type # Untyped THEN type ELSE packing) = packing
<1>1. DecoderOf(packing) = packing
  BY DEF DecoderOf, Packings
<1> QED BY <1>1 DEF OpensAs, DecoderOf

LEMMA ResolveStep ==
  ASSUME ConvertInv, Resolve
  PROVE  ConvertInv'
<1> USE DEF Untouched, verifyVars
<1> DEFINE n == Len(image)
<1>1. /\ phase = "loaded" /\ image' = image /\ merged' = merged /\ damage' = damage /\ dir' = dir
      /\ step' = step
  BY DEF Resolve
<1>2. /\ damage \in BlobDamages \cup {"none"} /\ IsDir(dir) /\ BeforeDone
      /\ image \in Images /\ IsTree(merged) /\ merged = NoTree
  BY <1>1 DEF ConvertInv
<1>3. PICK hit \in ToSet(image) : Finds(dir, todo, image, damage, hit)
  BY <1>1 DEF ConvertInv
<1>4. /\ DOMAIN todo = 1..n /\ n \in Nat /\ DOMAIN image = 1..n
      /\ \A k \in 1..n : image[k] \in DOMAIN BlobOf
  BY <1>2, <1>3, ImageNames DEF Finds
<1>5. \A k \in 1..n : /\ Describes(todo[k], image[k])
                      /\ FileOf(dir, todo[k], k - 1) = FileFor(image[k], damage, hit)
  BY <1>3, <1>4 DEF Finds
<1>6. \A k \in 1..n : FileFor(image[k], damage, hit).is = "absent"
                        <=> image[k] = hit /\ damage = "missing"
  BY <1>2, <1>4, FileForShape
<1>7. CASE damage = "missing"
  <2>1. \E k \in DOMAIN todo : FileOf(dir, todo[k], k - 1).is = "absent"
    BY <1>4, <1>5, <1>6, <1>7 DEF ToSet
  <2>2. ResolveLayers(dir, todo).error = "layout"
    BY <2>1 DEF ResolveLayers, Failed
  <2>3. phase' = "done" /\ error' = "layout" /\ out' = "before"
    BY <1>2, <2>2 DEF Resolve, FailsLayout, BeforeDone
  <2> QED BY <1>1, <1>2, <1>7, <2>3 DEF ConvertInv, ConvertIsTrue
<1>8. CASE \E k \in 1..n : todo[k].type = Untyped /\ TooShort(FileOf(dir, todo[k], k - 1))
  <2>1. damage = "tiny"
    <3>1. PICK k \in 1..n : TooShort(FileOf(dir, todo[k], k - 1))
      BY <1>8
    <3> QED BY <1>4, <1>5, <3>1, ShortIsTiny
  <2>2. ResolveLayers(dir, todo).error = "layout"
    BY <1>4, <1>8 DEF ResolveLayers, Failed
  <2>3. phase' = "done" /\ error' = "layout" /\ out' = "before"
    BY <1>2, <2>2 DEF Resolve, FailsLayout, BeforeDone
  <2> QED BY <1>1, <1>2, <2>1, <2>3 DEF ConvertInv, ConvertIsTrue
<1>9. CASE /\ damage # "missing"
           /\ ~ \E k \in 1..n : todo[k].type = Untyped /\ TooShort(FileOf(dir, todo[k], k - 1))
  <2> DEFINE TypeOf(k) == IF todo[k].type # Untyped THEN todo[k].type
                          ELSE DetectMediaType(FileOf(dir, todo[k], k - 1))
             all == [k \in DOMAIN todo |-> [desc |-> todo[k], index |-> k - 1, type |-> TypeOf(k)]]
  <2>1. ~ \E k \in DOMAIN todo :
            \/ FileOf(dir, todo[k], k - 1).is = "absent"
            \/ todo[k].type = Untyped /\ TooShort(FileOf(dir, todo[k], k - 1))
    BY <1>4, <1>5, <1>6, <1>9
  <2>2. ResolveLayers(dir, todo) = Loaded(all)
    BY <2>1 DEF ResolveLayers
  <2>3. phase' = "merging" /\ todo' = all /\ error' = error /\ out' = out
    <3>1. ResolveLayers(dir, todo).error = "none" /\ ResolveLayers(dir, todo).layers = all
      <4> HIDE DEF all
      <4> QED BY <2>2 DEF Loaded
    <3> HIDE DEF all
    <3> QED BY <3>1 DEF Resolve
  <2>4. todo' \in Seq(ToSet(todo')) /\ Len(todo') = n
    <3>1. all = [k \in 1..n |-> all[k]]
      BY <1>4
    <3> HIDE DEF all
    <3>2. all \in Seq(ToSet(all)) /\ Len(all) = n
      BY <1>4, <3>1, LayersAreSeq
    <3> QED BY <2>3, <3>2
  <2>5. ASSUME NEW k \in 1..n
        PROVE  Offered(todo[k], k, hit)'
    <3>1. todo'[k] = [desc |-> todo[k], index |-> k - 1, type |-> TypeOf(k)]
      BY <1>4, <2>3
    <3>2. Describes(todo[k], image[k]) /\ FileOf(dir, todo[k], k - 1) = FileFor(image[k], damage, hit)
      BY <1>5
    <3>3. damage # "mistyped" \/ image[k] # hit => DecoderOf(TypeOf(k)) = BlobOf[image[k]].packing
      <4> SUFFICES ASSUME damage # "mistyped" \/ image[k] # hit
                   PROVE  DecoderOf(TypeOf(k)) = BlobOf[image[k]].packing
        OBVIOUS
      <4> DEFINE packing == BlobOf[image[k]].packing
      <4>1. image[k] \in DOMAIN BlobOf /\ packing \in Packings
        BY <1>4, BlobIsLayer
      <4>2. damage \in (BlobDamages \cup {"none"}) \ {"missing"}
        BY <1>2, <1>9
      <4>3. DetectMediaType(FileOf(dir, todo[k], k - 1)) = packing
        BY <3>2, <4>1, <4>2, FilePacked
      <4>4. TypeOf(k) = IF todo[k].type # Untyped THEN todo[k].type ELSE packing
        BY <4>3
      <4>5. OpensAs(todo[k].type, packing)
        BY <3>2 DEF Describes
      <4> HIDE DEF packing
      <4>6. DecoderOf(IF todo[k].type # Untyped THEN todo[k].type ELSE packing) = packing
        BY <4>1, <4>5, TypeDecodes
      <4> QED BY <4>4, <4>6 DEF packing
    <3> HIDE DEF TypeOf
    <3>4. /\ todo'[k].desc = todo[k] /\ todo'[k].index = k - 1 /\ todo'[k].type = TypeOf(k)
      BY <3>1
    <3> QED BY <1>1, <3>2, <3>3, <3>4 DEF Offered
  <2>6. \E k \in 1..n : image[k] = hit
    BY <1>4 DEF ToSet
  <2>7. merged' = MeaningFrom(image, n + 1)
    BY <1>1, <1>2, MeaningNone
  <2>8. LayersLeft(n, hit)'
    BY <1>1, <1>3, <2>4, <2>5, <2>6, <2>7 DEF LayersLeft, Finds, Fits
  <2>9. \E j \in 0..Len(image') : LayersLeft(j, hit)'
    BY <1>1, <1>4, <2>8
  <2>10. BeforeDone'
    BY <1>1, <1>2, <2>3 DEF BeforeDone
  <2> QED BY <1>1, <1>2, <1>9, <2>3, <2>9, <2>10 DEF ConvertInv
<1> QED BY <1>7, <1>8, <1>9

LEMMA VanishStep ==
  ASSUME ConvertInv, Vanish
  PROVE  ConvertInv'
<1> USE DEF Untouched, verifyVars
<1>1. /\ phase = "merging" /\ phase' = phase /\ image' = image /\ merged' = merged /\ todo' = todo
      /\ error' = error /\ out' = out /\ step' = step /\ damage = "none" /\ damage' = "vanished"
  BY DEF Vanish
<1>2. IsDir(dir) /\ BeforeDone /\ image \in Images /\ IsTree(merged)
  BY <1>1 DEF ConvertInv
<1>3. PICK old \in ToSet(image), j \in 0..Len(image) : LayersLeft(j, old)
  BY <1>1 DEF ConvertInv
<1>4. PICK gone \in DOMAIN todo : dir' = WithBlob(dir, todo[gone].desc.name, Absent)
  BY DEF Vanish
<1>5. /\ Len(image) \in Nat /\ DOMAIN image = 1..Len(image)
      /\ \A k \in DOMAIN image : image[k] \in DOMAIN BlobOf
  BY <1>2, ImageNames
<1>6. DOMAIN todo = 1..j /\ j \in Nat
  BY <1>3, LenProperties DEF LayersLeft
<1>7. \A k \in 1..j : /\ k \in DOMAIN image
                      /\ todo[k].index = k - 1 /\ Describes(todo[k].desc, image[k])
                      /\ FileOf(dir, todo[k].desc, k - 1) = BlobOf[image[k]]
                      /\ DecoderOf(todo[k].type) = BlobOf[image[k]].packing
  BY <1>1, <1>3, <1>5, <1>6 DEF LayersLeft, Offered, FileFor
<1>8. PICK hit \in ToSet(image) : hit = image[gone] /\ hit = todo[gone].desc.name
  BY <1>6, <1>7 DEF Describes, ToSet
<1>9. hit \in DOMAIN dir.blobs
  <2>1. FileOf(dir, todo[gone].desc, gone - 1).is # "absent" /\ Describes(todo[gone].desc, hit)
    BY <1>5, <1>6, <1>7, <1>8, BlobIsLayer
  <2> QED BY <2>1, FileThere
<1>10. dir' = WithBlob(dir, hit, Absent) /\ IsDir(dir')
  BY <1>2, <1>4, <1>8, IsDirKept
<1>11. ASSUME NEW k \in 1..j
       PROVE  Offered(todo[k], k, hit)'
  <2>1. /\ Describes(todo[k].desc, image[k]) /\ todo[k].index = k - 1
        /\ FileOf(dir, todo[k].desc, k - 1) = BlobOf[image[k]]
        /\ DecoderOf(todo[k].type) = BlobOf[image[k]].packing
    BY <1>7
  <2>2. todo[k].desc.name = image[k] /\ todo[k].desc.algorithm \in {"sha256", "path"}
    BY <2>1 DEF Describes
  <2>3. Absent.is # "blobs"
    BY DEF Absent
  <2>4. FileFor(image[k], "vanished", hit) = IF image[k] = hit THEN Absent ELSE BlobOf[image[k]]
    BY DEF FileFor, Broken
  <2>5. \A i : FileOf(WithBlob(dir, hit, Absent), todo[k].desc, i)
                 = IF todo[k].desc.name = hit THEN Absent ELSE FileOf(dir, todo[k].desc, i)
    <3> DEFINE desc == todo[k].desc
               blob == Absent
    <3>1. desc.algorithm \in {"sha256", "path"} /\ blob.is # "blobs"
      BY <2>2, <2>3
    <3> HIDE DEF desc, blob
    <3>2. \A i : FileOf(WithBlob(dir, hit, blob), desc, i)
                   = IF desc.name = hit THEN blob ELSE FileOf(dir, desc, i)
      BY <1>2, <1>9, <3>1, FileReplaced
    <3> QED BY <3>2 DEF desc, blob
  <2>6. FileOf(dir', todo[k].desc, k - 1) = FileFor(image[k], "vanished", hit)
    BY <1>10, <2>1, <2>2, <2>4, <2>5
  <2> QED BY <1>1, <2>1, <2>6 DEF Offered
<1>12. \E k \in 1..j : image[k] = hit
  BY <1>6, <1>8
<1>13. ~LooksComplete /\ ~LooksComplete'
  BY <1>1 DEF LooksComplete
<1>14. SeveralStreams' = SeveralStreams
  BY <1>1 DEF SeveralStreams
<1>15. ~SeveralStreams => merged = MeaningFrom(image, j + 1)
  BY <1>3, <1>13 DEF LayersLeft
<1>16. todo \in Seq(ToSet(todo)) /\ Len(todo) = j
  BY <1>3 DEF LayersLeft
<1>17. LayersLeft(j, hit)'
  BY <1>1, <1>11, <1>12, <1>14, <1>15, <1>16 DEF LayersLeft, Fits
<1>18. BeforeDone'
  BY <1>1, <1>2 DEF BeforeDone
<1>19. \E i \in 0..Len(image') : LayersLeft(i, hit)'
  BY <1>1, <1>17
<1> QED BY <1>1, <1>2, <1>10, <1>18, <1>19 DEF ConvertInv

(* The newest of the layers left is the last of them. *)
LEMMA LastIsNext ==
  ASSUME NEW j \in Nat \ {0}, DOMAIN todo = 1..j, \A k \in 1..j : todo[k].index = k - 1
  PROVE  (CHOOSE k \in DOMAIN todo : \A i \in DOMAIN todo : todo[i].index <= todo[k].index) = j
<1>1. j \in DOMAIN todo /\ \A i \in DOMAIN todo : todo[i].index <= todo[j].index
  OBVIOUS
<1>2. \A k \in DOMAIN todo : (\A i \in DOMAIN todo : todo[i].index <= todo[k].index) => k = j
  OBVIOUS
<1> QED BY <1>1, <1>2

LEMMA LastRemoved ==
  ASSUME NEW s, s \in Seq(ToSet(s)), NEW j \in Nat \ {0}, Len(s) = j
  PROVE  /\ RemoveAt(s, j) \in Seq(ToSet(s)) /\ Len(RemoveAt(s, j)) = j - 1
         /\ \A k \in 1..(j - 1) : RemoveAt(s, j)[k] = s[k]
<1> DEFINE S == ToSet(s)
           rest == SubSeq(s, 1, j - 1)
<1>1. SubSeq(s, j + 1, j) = <<>>
  BY SubSeqEmpty
<1>2. \A i \in 1..(j - 1) : s[i] \in S
  BY ElementOfSeq
<1>3. rest \in Seq(S) /\ Len(rest) = j - 1 /\ \A k \in 1..(j - 1) : rest[k] = s[k]
  <2>1. /\ rest \in Seq(S)
        /\ Len(rest) = IF 1 <= j - 1 THEN (j - 1) - 1 + 1 ELSE 0
        /\ \A k \in 1..((j - 1) - 1 + 1) : rest[k] = s[1 + k - 1]
    <3> HIDE DEF S
    <3> QED BY <1>2, SubSeqProperties
  <2> HIDE DEF rest
  <2> QED BY <2>1
<1>4. rest \o <<>> = rest
  BY <1>3, ConcatEmptySeq
<1> QED BY <1>1, <1>3, <1>4 DEF RemoveAt

LEMMA MergeStep ==
  ASSUME ConvertInv, MergeLayer
  PROVE  ConvertInv'
<1> USE DEF Untouched, verifyVars
<1>1. /\ phase = "merging" /\ image' = image /\ damage' = damage /\ dir' = dir /\ step' = step
      /\ todo # <<>>
  BY DEF MergeLayer
<1>2. /\ damage \in (BlobDamages \cup {"none", "vanished"}) \ {"missing"}
      /\ IsDir(dir) /\ BeforeDone /\ image \in Images /\ IsTree(merged)
  BY <1>1 DEF ConvertInv
<1>3. PICK hit \in ToSet(image), j \in 0..Len(image) : LayersLeft(j, hit)
  BY <1>1 DEF ConvertInv
<1>4. /\ Len(image) \in Nat /\ DOMAIN image = 1..Len(image)
      /\ \A k \in DOMAIN image : image[k] \in DOMAIN BlobOf
  BY <1>2, ImageNames
<1>5. /\ todo \in Seq(ToSet(todo)) /\ Len(todo) = j /\ j \in Nat \ {0} /\ DOMAIN todo = 1..j
      /\ j \in DOMAIN image
  BY <1>1, <1>3, <1>4, EmptySeq, LenProperties DEF LayersLeft
<1>6. \A k \in 1..j : Offered(todo[k], k, hit)
  BY <1>3 DEF LayersLeft
<1> DEFINE name == image[j]
           file == FileFor(name, damage, hit)
           type == todo[j].type
           outcome == ReadBlob(file, type)
<1>7. (CHOOSE k \in DOMAIN todo : \A i \in DOMAIN todo : todo[i].index <= todo[k].index) = j
  BY <1>5, <1>6, LastIsNext DEF Offered
<1>8. FileOf(dir, todo[j].desc, todo[j].index) = file
  BY <1>5, <1>6 DEF Offered
<1>9. \/ /\ outcome.error = "none"
         /\ merged' = Over(merged, TreeOf(outcome.layers))
         /\ todo' = RemoveAt(todo, j)
         /\ phase' = phase /\ error' = error /\ out' = out
      \/ /\ outcome.error # "none"
         /\ phase' = "done" /\ error' = outcome.error
         /\ out' = IF imageSpec = "dir" THEN "partial" ELSE "none"
         /\ merged' = merged
  <2> HIDE DEF file
  <2> QED BY <1>7, <1>8 DEF MergeLayer
<1>10. name \in DOMAIN BlobOf /\ name \in ToSet(image)
  BY <1>4, <1>5 DEF ToSet
<1>11. damage # "mistyped" \/ name # hit => DecoderOf(type) = BlobOf[name].packing
  BY <1>5, <1>6 DEF Offered
<1>12. SeveralStreams' = SeveralStreams /\ LooksComplete' = LooksComplete
  BY <1>1 DEF SeveralStreams, LooksComplete
<1>13. IsTree(merged')
  <2>1. CASE outcome.error = "none"
    <3>1. Decent(outcome.layers)
      BY <1>10, <2>1, ReadsDecent
    <3> HIDE DEF outcome
    <3> QED BY <1>2, <1>9, <2>1, <3>1, TreeOfIsTree, OverIsTree
  <2>2. CASE outcome.error # "none"
    BY <1>2, <1>9, <2>2
  <2> QED BY <2>1, <2>2
(* The blob is whole, or this is the damaged one. *)
<1>14. CASE name # hit \/ damage = "none"
  <2> DEFINE streams == Streams(BlobOf[name].packing, BlobOf[name].members)
  <2>1. file = BlobOf[name]
    BY <1>14 DEF FileFor
  <2>2. DecoderOf(type) = BlobOf[name].packing
    BY <1>11, <1>14
  <2>3. outcome = Loaded(streams)
    BY <1>10, <2>1, <2>2, WholeBlobReads
  <2>4. outcome.error = "none" /\ outcome.layers = streams
    BY <2>3 DEF Loaded
  <2>5. ~SeveralStreams => streams = BlobOf[name].members
    <3> SUFFICES ASSUME ~SeveralStreams
                 PROVE  streams = BlobOf[name].members
      OBVIOUS
    <3>1. /\ BlobOf[name].members # <<>> /\ BlobOf[name].members \in Seq(ToSet(BlobOf[name].members))
      BY <1>10, BlobIsLayer
    <3>2. Len(BlobOf[name].members) \in Nat \ {0}
      BY <3>1, EmptySeq
    <3>3. Len(BlobOf[name].members) > 1 =>
            BlobOf[name].packing \notin {"tar+gzip", "tar+bzip2", "tar+xz"}
      BY <1>10 DEF SeveralStreams
    <3>4. \/ Len(BlobOf[name].members) = 1
          \/ BlobOf[name].packing \notin {"tar+gzip", "tar+bzip2", "tar+xz"}
      <4>1. \A n \in Nat \ {0} : n = 1 \/ n > 1
        OBVIOUS
      <4>2. Len(BlobOf[name].members) = 1 \/ Len(BlobOf[name].members) > 1
        BY <3>2, <4>1, Zenon
      <4> QED BY <3>3, <4>2, Zenon
    <3> QED BY <3>1, <3>4, StreamsOf
  <2>6. /\ merged' = Over(merged, TreeOf(streams)) /\ todo' = RemoveAt(todo, j)
        /\ phase' = "merging" /\ error' = error /\ out' = out
    <3> HIDE DEF outcome, streams
    <3> QED BY <1>1, <1>9, <2>4
  <2>7. ~SeveralStreams /\ ~LooksComplete => merged' = MeaningFrom(image, j)
    <3> SUFFICES ASSUME ~SeveralStreams, ~LooksComplete
                 PROVE  merged' = MeaningFrom(image, j)
      OBVIOUS
    <3>1. merged = MeaningFrom(image, j + 1)
      BY <1>3 DEF LayersLeft
    <3>2. TreeOf(streams) = LayerTree(image[j])
      BY <2>5 DEF LayerTree
    <3> HIDE DEF streams
    <3> QED BY <1>2, <1>5, <2>6, <3>1, <3>2, MeaningStep
  <2>8. /\ todo' \in Seq(ToSet(todo)) /\ Len(todo') = j - 1
        /\ \A k \in 1..(j - 1) : todo'[k] = todo[k]
    BY <1>5, <2>6, LastRemoved
  <2>9. todo' \in Seq(ToSet(todo'))
    <3>1. DOMAIN todo' = 1..(j - 1) /\ todo' = [k \in DOMAIN todo' |-> todo'[k]]
      BY <1>5, <2>8, LenProperties
    <3>2. todo' = [k \in 1..(j - 1) |-> todo'[k]] /\ j - 1 \in Nat
      BY <1>5, <3>1
    <3> QED BY <3>2, LayersAreSeq
  <2>10. \A k \in 1..(j - 1) : Offered(todo[k], k, hit)'
    BY <1>1, <1>5, <1>6, <2>8 DEF Offered
  <2>11. damage # "none" /\ ~LooksComplete => \E k \in 1..(j - 1) : image[k] = hit
    BY <1>3, <1>5, <1>14 DEF LayersLeft
  <2>12. LayersLeft(j - 1, hit)'
    <3>1. (j - 1) + 1 = j
      BY <1>5
    <3> QED BY <1>1, <1>3, <1>12, <2>7, <2>8, <2>9, <2>10, <2>11, <3>1 DEF LayersLeft, Fits
  <2>13. j - 1 \in 0..Len(image')
    BY <1>1, <1>4, <1>5
  <2>14. \E i \in 0..Len(image') : LayersLeft(i, hit)'
    BY <2>12, <2>13
  <2>15. BeforeDone'
    BY <1>1, <1>2, <2>6 DEF BeforeDone
  <2> QED BY <1>1, <1>2, <1>13, <2>6, <2>14, <2>15 DEF ConvertInv
<1>15. CASE name = hit /\ damage # "none" /\ ~LooksComplete
  <2>1. Fits(damage, name) /\ damage \notin {"none", "cut_plain", "cut_frame"}
    BY <1>3, <1>15 DEF LayersLeft, LooksComplete
  <2>2. file = FileFor(name, damage, name)
    BY <1>15
  <2>3. outcome = Failed("layer")
    BY <1>10, <1>11, <1>15, <2>1, <2>2, BadFileFails
  <2>4. outcome.error = "layer"
    BY <2>3 DEF Failed
  <2>5. phase' = "done" /\ error' = "layer" /\ out' \in {"partial", "none"}
    <3> HIDE DEF outcome
    <3> QED BY <1>9, <2>4
  <2>6. ConvertIsTrue'
    BY <1>1, <1>2, <1>15, <2>5 DEF ConvertIsTrue, BlobDamages
  <2> QED BY <1>1, <1>2, <1>13, <2>5, <2>6 DEF ConvertInv
(* What was cut is taken for complete, and nothing is claimed. *)
<1>16. CASE LooksComplete
  <2>1. CASE outcome.error = "none"
    <3>1. phase' = "merging" /\ todo' = RemoveAt(todo, j) /\ error' = error /\ out' = out
      <4> HIDE DEF outcome
      <4> QED BY <1>1, <1>9, <2>1
    <3>2. /\ todo' \in Seq(ToSet(todo)) /\ Len(todo') = j - 1
          /\ \A k \in 1..(j - 1) : todo'[k] = todo[k]
      BY <1>5, <3>1, LastRemoved
    <3>3. todo' \in Seq(ToSet(todo'))
      <4>1. DOMAIN todo' = 1..(j - 1) /\ todo' = [k \in DOMAIN todo' |-> todo'[k]]
        BY <1>5, <3>2, LenProperties
      <4>2. todo' = [k \in 1..(j - 1) |-> todo'[k]] /\ j - 1 \in Nat
        BY <1>5, <4>1
      <4> QED BY <4>2, LayersAreSeq
    <3>4. \A k \in 1..(j - 1) : Offered(todo[k], k, hit)'
      BY <1>1, <1>5, <1>6, <3>2 DEF Offered
    <3>5. LayersLeft(j - 1, hit)'
      BY <1>1, <1>3, <1>12, <1>16, <3>2, <3>3, <3>4 DEF LayersLeft, Fits
    <3>6. \E i \in 0..Len(image') : LayersLeft(i, hit)'
      BY <1>1, <1>4, <1>5, <3>5
    <3>7. BeforeDone'
      BY <1>1, <1>2, <3>1 DEF BeforeDone
    <3> QED BY <1>1, <1>2, <1>13, <3>1, <3>6, <3>7 DEF ConvertInv
  <2>2. CASE outcome.error # "none"
    <3>1. phase' = "done"
      BY <1>9, <2>2
    <3>2. ConvertIsTrue'
      BY <1>12, <1>16 DEF ConvertIsTrue
    <3> QED BY <1>1, <1>2, <1>13, <3>1, <3>2 DEF ConvertInv
  <2> QED BY <2>1, <2>2
<1> QED BY <1>14, <1>15, <1>16

LEMMA FinishStep ==
  ASSUME ConvertInv, FinishConvert
  PROVE  ConvertInv'
<1> USE DEF Untouched, verifyVars
<1>1. /\ phase = "merging" /\ todo = <<>> /\ phase' = "done" /\ out' = "whole"
      /\ image' = image /\ damage' = damage /\ merged' = merged /\ error' = error
  BY DEF FinishConvert
<1>2. image \in Images /\ IsTree(merged)
  BY <1>1 DEF ConvertInv
<1>3. PICK hit \in ToSet(image), j \in 0..Len(image) : LayersLeft(j, hit)
  BY <1>1 DEF ConvertInv
<1>4. j = 0
  BY <1>1, <1>3, EmptySeq DEF LayersLeft
<1>5. SeveralStreams' = SeveralStreams /\ LooksComplete' = LooksComplete
  BY <1>1 DEF SeveralStreams, LooksComplete
<1>6. ~SeveralStreams /\ ~LooksComplete => damage = "none" /\ merged = Meaning(image)
  BY <1>3, <1>4 DEF LayersLeft, Meaning
<1>7. ConvertIsTrue'
  <2>1. Meaning(image)' = Meaning(image)
    BY <1>1 DEF Meaning, MeaningFrom, Newest
  <2> QED BY <1>1, <1>5, <1>6, <2>1 DEF ConvertIsTrue
<1> QED BY <1>1, <1>2, <1>7 DEF ConvertInv

----------------------------------------------------------------------------
(* Verification. *)

LEMMA InfoIsInfo ==
  ASSUME NEW kind, NEW mode, NEW owner, NEW target, NEW content, NEW rest,
         kind # "file" => content = ""
  PROVE  IsInfo(Info(kind, mode, owner, target, content, rest))
  BY DEF IsInfo, Info

LEMMA FieldSet ==
  ASSUME NEW info, IsInfo(info), NEW x
  PROVE  LET i == info IN
         /\ [i EXCEPT !.kind = x] = Info(x, i.mode, i.owner, i.target, i.content, i.rest)
         /\ [i EXCEPT !.mode = x] = Info(i.kind, x, i.owner, i.target, i.content, i.rest)
         /\ [i EXCEPT !.owner = x] = Info(i.kind, i.mode, x, i.target, i.content, i.rest)
         /\ [i EXCEPT !.target = x] = Info(i.kind, i.mode, i.owner, x, i.content, i.rest)
         /\ [i EXCEPT !.content = x] = Info(i.kind, i.mode, i.owner, i.target, x, i.rest)
         /\ [i EXCEPT !.rest = x] = Info(i.kind, i.mode, i.owner, i.target, i.content, x)
<1>1. info = Info(info.kind, info.mode, info.owner, info.target, info.content, info.rest)
  BY DEF IsInfo
<1> QED BY <1>1 DEF Info

LEMMA FieldKeepsInfo ==
  ASSUME NEW info, IsInfo(info), NEW x
  PROVE  /\ info.kind = "fifo" /\ x = "chr" => IsInfo([info EXCEPT !.kind = x])
         /\ IsInfo([info EXCEPT !.mode = x]) /\ IsInfo([info EXCEPT !.owner = x])
         /\ IsInfo([info EXCEPT !.target = x]) /\ IsInfo([info EXCEPT !.rest = x])
         /\ info.kind = "file" => IsInfo([info EXCEPT !.content = x])
<1> DEFINE i == info
<1>1. i.kind # "file" => i.content = ""
  BY DEF IsInfo
<1>2. i.kind = "fifo" /\ x = "chr" => IsInfo(Info(x, i.mode, i.owner, i.target, i.content, i.rest))
  BY <1>1, InfoIsInfo
<1>3. /\ IsInfo(Info(i.kind, x, i.owner, i.target, i.content, i.rest))
      /\ IsInfo(Info(i.kind, i.mode, x, i.target, i.content, i.rest))
      /\ IsInfo(Info(i.kind, i.mode, i.owner, x, i.content, i.rest))
      /\ IsInfo(Info(i.kind, i.mode, i.owner, i.target, i.content, x))
  BY <1>1, InfoIsInfo
<1>4. i.kind = "file" => IsInfo(Info(i.kind, i.mode, i.owner, i.target, x, i.rest))
  BY InfoIsInfo
<1> QED BY <1>2, <1>3, <1>4, FieldSet

LEMMA OwnedIsTree ==
  ASSUME NEW tree, IsTree(tree), NEW user
  PROVE  IsTree(OwnedBy(tree, user))
<1>1. \A path \in DOMAIN tree : IsInfo(tree[path])
  BY DEF IsTree
<1>2. \A info : IsInfo(info) => IsInfo([info EXCEPT !.owner = user])
  BY FieldKeepsInfo
<1> QED BY <1>1, <1>2 DEF OwnedBy, IsTree

(* A tree is unpacked to a tree. *)
LEMMA UnpackedIsTree ==
  ASSUME NEW tree, IsTree(tree)
  PROVE  IsTree(Unpacked(tree)) /\ DOMAIN Unpacked(tree) = DOMAIN tree
<1> DEFINE KindOf(info) == IF EntryKind(info) = "other" THEN "file" ELSE info.kind
           Written(info) == Info(KindOf(info), info.mode, Me, info.target, info.content, "unpacked")
<1>1. \A info : IsInfo(info) => IsInfo(Written(info))
  <2> TAKE info
  <2> HAVE IsInfo(info)
  <2>1. KindOf(info) # "file" => info.content = ""
    BY DEF IsInfo, EntryKind
  <2> HIDE DEF KindOf
  <2> QED BY <2>1, InfoIsInfo
<1>2. Unpacked(tree) = [path \in DOMAIN tree |-> Written(tree[path])]
  BY DEF Unpacked
<1> HIDE DEF Written
<1> QED BY <1>1, <1>2 DEF IsTree

(* So is what a sink leaves of it. *)
LEMMA LeavesIsTree ==
  ASSUME NEW tree, IsTree(tree), IsTree(held)
  PROVE  IsTree(Leaves(tree))
<1>1. IsTree(Over(Unpacked(tree), held))
  BY UnpackedIsTree, OverIsTree
<1> QED BY <1>1 DEF Leaves

LEMMA SetIsTree ==
  ASSUME NEW tree, IsTree(tree), NEW path \in DOMAIN tree, NEW info, IsInfo(info)
  PROVE  IsTree([tree EXCEPT ![path] = info])
  BY DEF IsTree

LEMMA ChangedIsTree ==
  ASSUME NEW tree, IsTree(tree), NEW what, NEW path \in DOMAIN tree
  PROVE  IsTree(Changed(tree, what, path))
<1> DEFINE info == tree[path]
           typed == Info(IF info.kind = "dir" THEN "fifo" ELSE "dir", info.mode, info.owner, "", "", info.rest)
           one == [p \in {"extra"} |-> info]
           rest == [p \in DOMAIN tree \ {path} |-> tree[p]]
<1>1. IsInfo(info)
  BY DEF IsTree
<1>2. IsTree(rest)
  BY DEF IsTree
<1>3. IsTree(Over(one, tree))
  <2>1. IsTree(one)
    BY <1>1 DEF IsTree
  <2> HIDE DEF one
  <2> QED BY <2>1, OverIsTree
<1>4. IsTree([tree EXCEPT ![path] = typed])
  <2>1. IsInfo(typed)
    BY DEF IsInfo, Info
  <2> HIDE DEF typed
  <2> QED BY <2>1, SetIsTree
<1>5. info.kind = "fifo" => IsTree([tree EXCEPT ![path].kind = "chr"])
  <2>1. info.kind = "fifo" => IsInfo([info EXCEPT !.kind = "chr"])
    BY <1>1, FieldKeepsInfo
  <2> QED BY <2>1, SetIsTree
<1>6. info.kind = "file" => IsTree([tree EXCEPT ![path].content = "other"])
  <2>1. info.kind = "file" => IsInfo([info EXCEPT !.content = "other"])
    BY <1>1, FieldKeepsInfo
  <2> QED BY <2>1, SetIsTree
<1>7. IsTree([tree EXCEPT ![path].target = "other"])
  <2>1. IsInfo([info EXCEPT !.target = "other"])
    BY <1>1, FieldKeepsInfo
  <2> QED BY <2>1, SetIsTree
<1>8. what \in {"mode", "owner", "rest"} => IsTree([tree EXCEPT ![path][what] = "other"])
  <2>1. what = "mode" => IsInfo([info EXCEPT ![what] = "other"])
    BY <1>1, FieldKeepsInfo
  <2>2. what = "owner" => IsInfo([info EXCEPT ![what] = "other"])
    BY <1>1, FieldKeepsInfo
  <2>3. what = "rest" => IsInfo([info EXCEPT ![what] = "other"])
    BY <1>1, FieldKeepsInfo
  <2> QED BY <2>1, <2>2, <2>3, SetIsTree
<1> DEFINE outcome == Changed(tree, what, path)
<1>9. \/ outcome = rest
      \/ outcome = Over(one, tree)
      \/ outcome = [tree EXCEPT ![path] = typed]
      \/ info.kind = "fifo" /\ outcome = [tree EXCEPT ![path].kind = "chr"]
      \/ info.kind = "file" /\ outcome = [tree EXCEPT ![path].content = "other"]
      \/ outcome = [tree EXCEPT ![path].target = "other"]
      \/ what \in {"mode", "owner", "rest"} /\ outcome = [tree EXCEPT ![path][what] = "other"]
      \/ outcome = tree
  BY DEF Changed
<1> HIDE DEF outcome, rest, one, typed, info
<1>10. IsTree(outcome)
  BY <1>2, <1>3, <1>4, <1>5, <1>6, <1>7, <1>8, <1>9
<1> QED BY <1>10 DEF outcome

(* What the comparison can see of an entry. *)
Seen(info) ==
  [kind |-> EntryKind(info), mode |-> info.mode, target |-> info.target,
   content |-> info.content, owner |-> IF ignore THEN "any" ELSE info.owner]

LEMMA ViewSeen ==
  ASSUME NEW tree
  PROVE  View(tree) = [path \in DOMAIN tree |-> Seen(tree[path])]
  BY DEF View, Seen

(* It finds no difference exactly where it sees none. *)
LEMMA EntriesEqual ==
  ASSUME NEW a, NEW b, IsInfo(a), IsInfo(b), ignore \in BOOLEAN
  PROVE  CompareEntries(a, b, ignore) = {} <=> Seen(a) = Seen(b)
<1>1. /\ a.kind # "file" => a.content = ""
      /\ b.kind # "file" => b.content = ""
  BY DEF IsInfo
<1>2. EntryKind(a) = EntryKind(b) => (a.kind = "file" <=> b.kind = "file")
  BY DEF EntryKind
<1>3. CompareEntries(a, b, ignore) = {} <=>
        /\ EntryKind(a) = EntryKind(b) /\ a.mode = b.mode /\ a.target = b.target
        /\ ignore \/ a.owner = b.owner
        /\ a.content = b.content
  <2>1. CASE EntryKind(a) # EntryKind(b)
    BY <2>1 DEF CompareEntries
  <2>2. CASE EntryKind(a) = EntryKind(b)
    <3> DEFINE fields == {field \in {"mode", "target"} : a[field] # b[field]}
               owners == IF ignore \/ a.owner = b.owner THEN {} ELSE {"owner"}
               contents == IF a.kind # "file" \/ a.content = b.content THEN {} ELSE {"content"}
    <3>1. CompareEntries(a, b, ignore) = fields \cup owners \cup contents
      BY <2>2 DEF CompareEntries
    <3>2. fields = {} <=> a.mode = b.mode /\ a.target = b.target
      <4>1. fields = {} <=> a["mode"] = b["mode"] /\ a["target"] = b["target"]
        OBVIOUS
      <4> QED BY <4>1
    <3>3. owners = {} <=> ignore \/ a.owner = b.owner
      OBVIOUS
    <3>4. contents = {} <=> a.content = b.content
      BY <1>1, <1>2, <2>2
    <3>5. fields \cup owners \cup contents = {} <=> fields = {} /\ owners = {} /\ contents = {}
      OBVIOUS
    <3> HIDE DEF fields, owners, contents
    <3> QED BY <2>2, <3>1, <3>2, <3>3, <3>4, <3>5
  <2> QED BY <2>1, <2>2
<1>4. Seen(a) = Seen(b) <=>
        /\ EntryKind(a) = EntryKind(b) /\ a.mode = b.mode /\ a.target = b.target
        /\ ignore \/ a.owner = b.owner
        /\ a.content = b.content
  <2> DEFINE Of(kind, mode, target, content, owner) ==
               [kind |-> kind, mode |-> mode, target |-> target, content |-> content, owner |-> owner]
             OwnerOf(info) == IF ignore THEN "any" ELSE info.owner
  <2>1. \A k1, m1, t1, c1, o1, k2, m2, t2, c2, o2 :
          Of(k1, m1, t1, c1, o1) = Of(k2, m2, t2, c2, o2)
            <=> k1 = k2 /\ m1 = m2 /\ t1 = t2 /\ c1 = c2 /\ o1 = o2
    OBVIOUS
  <2>2. /\ Seen(a) = Of(EntryKind(a), a.mode, a.target, a.content, OwnerOf(a))
        /\ Seen(b) = Of(EntryKind(b), b.mode, b.target, b.content, OwnerOf(b))
    BY DEF Seen
  <2>3. OwnerOf(a) = OwnerOf(b) <=> ignore \/ a.owner = b.owner
    OBVIOUS
  <2> HIDE DEF Of, OwnerOf
  <2> QED BY <2>1, <2>2, <2>3
<1> QED BY <1>3, <1>4

(* Two views are equal if they show the same paths and entries. *)
LEMMA ViewsEqual ==
  ASSUME NEW g, NEW r
  PROVE  View(g) = View(r)
           <=> DOMAIN g = DOMAIN r /\ \A path \in DOMAIN g : Seen(g[path]) = Seen(r[path])
<1>1. ASSUME View(g) = View(r)
      PROVE  DOMAIN g = DOMAIN r /\ \A path \in DOMAIN g : Seen(g[path]) = Seen(r[path])
  <2>1. DOMAIN View(g) = DOMAIN g /\ DOMAIN View(r) = DOMAIN r
    BY ViewSeen
  <2>2. /\ \A path \in DOMAIN g : View(g)[path] = Seen(g[path])
        /\ \A path \in DOMAIN r : View(r)[path] = Seen(r[path])
    BY ViewSeen
  <2> QED BY <1>1, <2>1, <2>2
<1>2. ASSUME DOMAIN g = DOMAIN r, \A path \in DOMAIN g : Seen(g[path]) = Seen(r[path])
      PROVE  View(g) = View(r)
  BY <1>2, ViewSeen
<1> QED BY <1>1, <1>2

LEMMA CleanIsEqual ==
  ASSUME NEW g, NEW r, IsTree(g), IsTree(r), ignore \in BOOLEAN
  PROVE  IsClean(VerifyDirs(g, r, ignore)) <=> View(g) = View(r)
<1> DEFINE Found(path) == CompareEntries(g[path], r[path], ignore)
           differences == UNION {{<<path, field>> : field \in Found(path)} :
                                   path \in DOMAIN g \cap DOMAIN r}
<1>1. IsClean(VerifyDirs(g, r, ignore)) <=>
        DOMAIN g \ DOMAIN r = {} /\ DOMAIN r \ DOMAIN g = {} /\ differences = {}
  BY DEF IsClean, VerifyDirs
<1>2. differences = {} <=> \A path \in DOMAIN g \cap DOMAIN r : Found(path) = {}
  <2> HIDE DEF Found
  <2>1. ASSUME differences = {}, NEW path \in DOMAIN g \cap DOMAIN r, NEW field \in Found(path)
        PROVE  FALSE
    <3>1. <<path, field>> \in differences
      OBVIOUS
    <3> QED BY <2>1, <3>1
  <2>2. ASSUME \A path \in DOMAIN g \cap DOMAIN r : Found(path) = {}
        PROVE  differences = {}
    BY <2>2
  <2> QED BY <2>1, <2>2
<1>3. IsClean(VerifyDirs(g, r, ignore)) <=>
        DOMAIN g = DOMAIN r /\ \A path \in DOMAIN g : Found(path) = {}
  <2> HIDE DEF Found, differences
  <2> QED BY <1>1, <1>2
<1>4. \A path \in DOMAIN g \cap DOMAIN r : Found(path) = {} <=> Seen(g[path]) = Seen(r[path])
  BY EntriesEqual DEF IsTree
<1> HIDE DEF Found
<1> QED BY <1>3, <1>4, ViewsEqual

(* The owners of a copy do not matter if they are ignored. *)
LEMMA OwnersUnseen ==
  ASSUME ignore, NEW tree, IsTree(tree), NEW user
  PROVE  View(OwnedBy(tree, user)) = View(tree)
<1> DEFINE owned == OwnedBy(tree, user)
<1>1. DOMAIN owned = DOMAIN tree
  BY DEF OwnedBy
<1>2. ASSUME NEW path \in DOMAIN tree
      PROVE  Seen(owned[path]) = Seen(tree[path])
  <2> DEFINE i == tree[path]
  <2>1. IsInfo(i)
    BY DEF IsTree
  <2>2. owned[path] = Info(i.kind, i.mode, user, i.target, i.content, i.rest)
    <3>1. owned[path] = [i EXCEPT !.owner = user]
      BY DEF OwnedBy
    <3> QED BY <2>1, <3>1, FieldSet
  <2> HIDE DEF owned, i
  <2> QED BY <2>2 DEF Seen, Info, EntryKind, i
<1> HIDE DEF owned
<1>3. View(owned) = View(tree)
  BY <1>1, <1>2, ViewsEqual
<1> QED BY <1>3 DEF owned

(* A directory looks like the image it was unpacked of, owners ignored,    *)
(* unless it held something else or something became a file.               *)
LEMMA DirIsSeen ==
  ASSUME ignore, imageSpec = "dir", NEW tree, IsTree(tree)
  PROVE  View(Leaves(tree)) = View(tree)
           <=> /\ \A path \in DOMAIN tree : EntryKind(tree[path]) # "other"
               /\ DOMAIN held \subseteq DOMAIN tree
<1> DEFINE left == Leaves(tree)
<1>1. /\ DOMAIN left = DOMAIN tree \cup DOMAIN held
      /\ \A path \in DOMAIN tree : left[path] = Unpacked(tree)[path]
  <2>1. left = Over(Unpacked(tree), held) /\ DOMAIN Unpacked(tree) = DOMAIN tree
    BY UnpackedIsTree DEF Leaves
  <2> DEFINE unpacked == Unpacked(tree)
  <2> HIDE DEF left, unpacked
  <2>2. left = Over(unpacked, held) /\ DOMAIN unpacked = DOMAIN tree
    BY <2>1 DEF unpacked
  <2>3. /\ DOMAIN left = DOMAIN tree \cup DOMAIN held
        /\ \A path \in DOMAIN tree : left[path] = unpacked[path]
    BY <2>2 DEF Over
  <2> QED BY <2>3 DEF unpacked
<1>2. ASSUME NEW path \in DOMAIN tree
      PROVE  Seen(left[path]) = Seen(tree[path]) <=> EntryKind(tree[path]) # "other"
  <2> DEFINE i == tree[path]
             kind == IF EntryKind(i) = "other" THEN "file" ELSE i.kind
  <2>1. left[path] = Info(kind, i.mode, Me, i.target, i.content, "unpacked")
    <3>1. left[path] = Unpacked(tree)[path]
      BY <1>1
    <3> HIDE DEF left
    <3> QED BY <3>1 DEF Unpacked
  <2> HIDE DEF left
  <2>2. Seen(left[path]) = [Seen(i) EXCEPT !.kind = EntryKind(left[path])]
    BY <2>1 DEF Seen, Info
  <2>3. EntryKind(left[path]) = IF EntryKind(i) = "other" THEN "file" ELSE EntryKind(i)
    BY <2>1 DEF EntryKind, Info
  <2>4. Seen(i).kind = EntryKind(i) /\ Seen(left[path]).kind = EntryKind(left[path])
    BY DEF Seen
  <2>5. [Seen(i) EXCEPT !.kind = EntryKind(i)] = Seen(i)
    BY DEF Seen
  <2> HIDE DEF i
  <2> QED BY <2>2, <2>3, <2>4, <2>5 DEF i
<1> HIDE DEF left
<1>3. View(left) = View(tree)
        <=> DOMAIN left = DOMAIN tree /\ \A path \in DOMAIN left : Seen(left[path]) = Seen(tree[path])
  BY ViewsEqual
<1>4. DOMAIN left = DOMAIN tree <=> DOMAIN held \subseteq DOMAIN tree
  BY <1>1
<1> QED BY <1>2, <1>3, <1>4 DEF left

VerifyInv ==
  /\ imageSpec \in {"squashfs", "tar", "dir"} /\ ignore \in BOOLEAN /\ IsTree(held)
  /\ step # "idle" => phase = "done" /\ out = "whole"
  /\ report.error = "none" =>
       step # "idle" /\ report = VerifyDirs(Output, reference, ignore)
  /\ IsTree(reference)
  /\ step # "idle" /\ change = "none" =>
       reference \in {Meaning(image), OwnedBy(Meaning(image), Me)}

OfflineInv == ConvertInv /\ VerifyInv

LEMMA InitVerifyInv ==
  ASSUME OfflineInit
  PROVE  VerifyInv
<1>1. IsTree(NoTree)
  BY DEF IsTree, NoTree
<1>2. IsTree(held)
  BY <1>1, OfflineAssumption DEF OfflineInit
<1> QED BY <1>1, <1>2 DEF OfflineInit, VerifyInit, VerifyInv, NoReport

LEMMA ConvertKeepsVerify ==
  ASSUME OfflineInv, Convert \/ Vanish
  PROVE  VerifyInv'
<1>1. phase # "done" /\ Untouched
  BY DEF Convert, Load, Resolve, MergeLayer, FinishConvert, Vanish
<1>2. step = "idle"
  BY <1>1 DEF OfflineInv, ConvertInv, BeforeDone
<1>3. /\ step' = step /\ report' = report /\ reference' = reference /\ ignore' = ignore
      /\ imageSpec' = imageSpec /\ held' = held
  BY <1>1 DEF Untouched, verifyVars
<1>4. report.error # "none" /\ ignore \in BOOLEAN /\ imageSpec \in {"squashfs", "tar", "dir"}
      /\ IsTree(reference) /\ IsTree(held)
  BY <1>2 DEF OfflineInv, VerifyInv
<1> QED BY <1>2, <1>3, <1>4 DEF VerifyInv

(* The conversion is over while the verification runs. *)
LEMMA ConvertStays ==
  ASSUME ConvertInv, UNCHANGED <<convertVars, damage>>, phase = "done" \/ step' = step
  PROVE  ConvertInv'
<1>1. /\ image' = image /\ dir' = dir /\ phase' = phase /\ todo' = todo /\ merged' = merged
      /\ error' = error /\ out' = out /\ damage' = damage
  BY DEF convertVars
<1>2. CASE phase = "done"
  <2>1. ConvertIsTrue' = ConvertIsTrue
    BY <1>1 DEF ConvertIsTrue, SeveralStreams, LooksComplete, Meaning, MeaningFrom, Newest
  <2> QED BY <1>1, <1>2, <2>1 DEF ConvertInv
<1>3. CASE phase # "done" /\ step' = step
  <2>1. BeforeDone' = BeforeDone
    BY <1>1, <1>3 DEF BeforeDone
  <2>2. Ready(dir, damage)' = Ready(dir, damage)
    BY <1>1 DEF Ready
  <2>3. \A j, hit : LayersLeft(j, hit)' = LayersLeft(j, hit)
    BY <1>1 DEF LayersLeft, Offered, SeveralStreams, LooksComplete, Fits
  <2> QED BY <1>1, <1>3, <2>1, <2>2, <2>3 DEF ConvertInv
<1> QED BY <1>2, <1>3

LEMMA StartVerifyStep ==
  ASSUME OfflineInv, StartVerify
  PROVE  OfflineInv'
<1>1. /\ phase = "done" /\ out = "whole" /\ Begin(imageSpec) /\ UNCHANGED <<convertVars, damage>>
  BY DEF StartVerify
<1>2. /\ image \in Images /\ imageSpec \in {"squashfs", "tar", "dir"} /\ ConvertInv
      /\ report.error = "none" => step # "idle"
  BY DEF OfflineInv, ConvertInv, VerifyInv
<1>3. ConvertInv'
  BY <1>1, <1>2, ConvertStays
<1>4. step = "idle" /\ step' # "idle" /\ report'.error # "none"
  BY <1>1, <1>2 DEF Begin, ReturnsReport, Fails, NoReport
<1>5. /\ ignore' \in BOOLEAN /\ phase' = "done" /\ out' = "whole" /\ imageSpec' = imageSpec
      /\ image' = image /\ IsTree(held')
  BY <1>1 DEF StartVerify, convertVars, OfflineInv, VerifyInv
<1> DEFINE tree == Meaning(image)
<1>6. PICK what \in Changes \cup {"none"}, path \in DOMAIN tree, owned \in BOOLEAN :
        change' = what /\ reference' = Changed(IF owned THEN tree ELSE OwnedBy(tree, Me), what, path)
  BY DEF StartVerify
<1>7. IsTree(tree) /\ IsTree(OwnedBy(tree, Me)) /\ DOMAIN OwnedBy(tree, Me) = DOMAIN tree
  BY <1>2, MeaningIsTree, OwnedIsTree DEF OwnedBy
<1>8. IsTree(reference')
  <2> HIDE DEF tree
  <2>1. CASE owned
    BY <1>6, <1>7, <2>1, ChangedIsTree
  <2>2. CASE ~owned
    BY <1>6, <1>7, <2>2, ChangedIsTree
  <2> QED BY <2>1, <2>2
<1>9. change' = "none" => reference' \in {tree, OwnedBy(tree, Me)}
  <2> HIDE DEF tree
  <2> QED BY <1>6 DEF Changed
<1>10. Meaning(image)' = tree /\ OwnedBy(Meaning(image), Me)' = OwnedBy(tree, Me)
  BY <1>5 DEF Meaning, MeaningFrom, Newest, OwnedBy
<1> HIDE DEF tree
<1> QED BY <1>2, <1>3, <1>4, <1>5, <1>8, <1>9, <1>10 DEF OfflineInv, VerifyInv

LEMMA VerifyStepStep ==
  ASSUME OfflineInv, VerifyStep
  PROVE  OfflineInv'
<1>1. /\ UNCHANGED <<convertVars, damage>> /\ reference' = reference /\ ignore' = ignore
      /\ merged' = merged /\ imageSpec' = imageSpec /\ phase' = phase /\ out' = out
      /\ held' = held /\ image' = image /\ change' = change
  BY DEF VerifyStep, convertVars
<1>2. /\ step # "idle" /\ step' # "idle"
      /\ \/ report'.error # "none"
         \/ report' = report
         \/ report' = VerifyDirs(Output, reference, ignore)
  <2>1. CASE Mount \/ MountFails \/ Walk \/ WalkFails
    BY <2>1 DEF Mount, MountFails, Walk, WalkFails, ReturnsReport, Fails, NoReport
  <2>2. CASE Compare(Output, reference, ignore)
    BY <2>2 DEF Compare
  <2>3. CASE \E fusermount, umount \in BOOLEAN : Release(fusermount, umount)
    BY <2>3 DEF Release
  <2> QED BY <2>1, <2>2, <2>3 DEF VerifyStep
<1>3. phase = "done" /\ out = "whole" /\ ConvertInv
  BY <1>2 DEF OfflineInv, VerifyInv
<1>4. ConvertInv'
  BY <1>1, <1>3, ConvertStays
<1>5. VerifyDirs(Output, reference, ignore)' = VerifyDirs(Output, reference, ignore)
  BY <1>1 DEF Output, Leaves
<1>6. report'.error = "none" => report' = VerifyDirs(Output, reference, ignore)
  BY <1>2 DEF OfflineInv, VerifyInv
<1>7. /\ imageSpec \in {"squashfs", "tar", "dir"} /\ ignore \in BOOLEAN /\ IsTree(reference)
      /\ IsTree(held)
      /\ change = "none" => reference \in {Meaning(image), OwnedBy(Meaning(image), Me)}
  BY <1>2 DEF OfflineInv, VerifyInv
<1>8. Meaning(image)' = Meaning(image) /\ OwnedBy(Meaning(image), Me)' = OwnedBy(Meaning(image), Me)
  BY <1>1 DEF Meaning, MeaningFrom, Newest, OwnedBy
<1> QED BY <1>1, <1>2, <1>3, <1>4, <1>5, <1>6, <1>7, <1>8 DEF OfflineInv, VerifyInv

LEMMA OfflineStep ==
  ASSUME OfflineInv, [OfflineNext]_offlineVars
  PROVE  OfflineInv'
<1>1. ConvertInv
  BY DEF OfflineInv
<1>2. CASE Convert
  BY <1>1, <1>2, LoadStep, ResolveStep, MergeStep, FinishStep, ConvertKeepsVerify
     DEF Convert, OfflineInv
<1>3. CASE Vanish
  BY <1>1, <1>3, VanishStep, ConvertKeepsVerify DEF OfflineInv
<1>4. CASE StartVerify
  BY <1>4, StartVerifyStep
<1>5. CASE VerifyStep
  BY <1>5, VerifyStepStep
<1>6. CASE UNCHANGED offlineVars
  <2>1. UNCHANGED <<convertVars, damage>> /\ step' = step
    BY <1>6 DEF offlineVars, verifyVars
  <2>2. ConvertInv'
    BY <1>1, <2>1, ConvertStays
  <2>3. /\ merged' = merged /\ imageSpec' = imageSpec /\ phase' = phase /\ out' = out
        /\ report' = report /\ reference' = reference /\ ignore' = ignore /\ step' = step
        /\ held' = held /\ image' = image /\ change' = change
    BY <1>6 DEF offlineVars, verifyVars, convertVars
  <2>4. VerifyDirs(Output, reference, ignore)' = VerifyDirs(Output, reference, ignore)
    BY <2>3 DEF Output, Leaves
  <2>5. Meaning(image)' = Meaning(image) /\ OwnedBy(Meaning(image), Me)' = OwnedBy(Meaning(image), Me)
    BY <2>3 DEF Meaning, MeaningFrom, Newest, OwnedBy
  <2>6. VerifyInv'
    BY <2>3, <2>4, <2>5 DEF OfflineInv, VerifyInv
  <2> QED BY <2>2, <2>6 DEF OfflineInv
<1> QED BY <1>2, <1>3, <1>4, <1>5, <1>6 DEF OfflineNext

LEMMA OfflineInvHolds == OfflineSpec => []OfflineInv
<1>1. OfflineInit => OfflineInv
  BY InitConvertInv, InitVerifyInv DEF OfflineInv
<1>2. OfflineInv /\ [OfflineNext]_offlineVars => OfflineInv'
  BY OfflineStep
<1> QED BY <1>1, <1>2, PTL DEF OfflineSpec

(* An image converts to the one tree its layers describe, whichever of the *)
(* layouts it comes in and whatever its blobs hold; a directory that is    *)
(* not in order, or loses a blob, ends in an error, and the output is not  *)
(* touched unless a blob turns out bad.                                    *)
THEOREM ConversionIsTrue == OfflineSpec => []ConvertIsTrue
<1>1. OfflineInv => ConvertIsTrue
  BY DEF OfflineInv, ConvertInv, ConvertIsTrue
<1> QED BY <1>1, OfflineInvHolds, PTL

LEMMA VerdictFromInv ==
  ASSUME OfflineInv
  PROVE  VerdictIsRight
<1> DEFINE tree == Meaning(image)
<1>1. SUFFICES ASSUME report.error = "none", ~SeveralStreams, ~LooksComplete
               PROVE  /\ IsClean(report) <=> View(Leaves(tree)) = View(reference)
                      /\ change = "none" /\ ignore =>
                           (IsClean(report) <=> (imageSpec = "dir" => KeptByDir))
  BY DEF VerdictIsRight
<1>2. /\ phase = "done" /\ out = "whole" /\ ignore \in BOOLEAN /\ IsTree(reference) /\ IsTree(held)
      /\ report = VerifyDirs(Output, reference, ignore) /\ image \in Images
      /\ change = "none" => reference \in {tree, OwnedBy(tree, Me)}
  BY <1>1 DEF OfflineInv, VerifyInv, ConvertInv
<1>3. Output = Leaves(tree)
  <2>1. merged = tree
    BY <1>1, <1>2 DEF OfflineInv, ConvertInv, ConvertIsTrue
  <2> QED BY <2>1 DEF Output
<1>4. IsTree(tree) /\ IsTree(Leaves(tree))
  BY <1>2, MeaningIsTree, LeavesIsTree
<1> HIDE DEF tree
<1>5. IsClean(report) <=> View(Leaves(tree)) = View(reference)
  BY <1>2, <1>3, <1>4, CleanIsEqual
<1>6. ASSUME change = "none", ignore
      PROVE  IsClean(report) <=> (imageSpec = "dir" => KeptByDir)
  <2>1. View(reference) = View(tree)
    BY <1>2, <1>4, <1>6, OwnersUnseen
  <2>2. CASE imageSpec = "dir"
    <3>1. View(Leaves(tree)) = View(tree) <=> KeptByDir
      BY <1>4, <1>6, <2>2, DirIsSeen DEF KeptByDir, tree
    <3> QED BY <1>5, <2>1, <2>2, <3>1
  <2>3. CASE imageSpec # "dir"
    <3>1. Leaves(tree) = tree
      BY <2>3 DEF Leaves
    <3> QED BY <1>5, <2>1, <2>3, <3>1
  <2> QED BY <2>2, <2>3
<1> QED BY <1>5, <1>6 DEF tree

(* For every image, in every layout and with any damage that shows, every  *)
(* output and every reference: the report is clean exactly if the          *)
(* reference looks like what the sink leaves of the image's layers, and    *)
(* another tool's copy, owners ignored, verifies exactly against a         *)
(* squashfs, or against a directory that held nothing else, of an image    *)
(* without pipes and devices.                                              *)
THEOREM VerdictsAreRight == OfflineSpec => []VerdictIsRight
<1>1. OfflineInv => VerdictIsRight
  BY VerdictFromInv
<1> QED BY <1>1, OfflineInvHolds, PTL
=============================================================================
