# A TLA+ development of ocirender

ocirender flattens an OCI image (an ordered stack of tar layers, each adding
files and hiding files of the layers below) into one tar stream and feeds that
stream to a sink: a tar file, a directory, or `mksquashfs`. The layers can come
from an image layout on disk or arrive one by one, in any order, while they are
being downloaded. This directory holds a formal model of that program: TLA+
modules translated from the Rust source, TLC configurations that check them on
small instances, and TLAPS proofs of the properties that matter most.

## The system

| Component | Source | State it keeps | Operations |
|---|---|---|---|
| Merge engine | `src/overlay.rs` | position in the layers, the output tar | `process_layer`, `emit_deferred`, `finish_output` |
| Resequencing loop | `src/overlay.rs` (`merge_layers_into_streaming`) | waiting layers, the indexes seen, the cursor | receive, drain, finish |
| Trackers | `src/tracker.rs` | whiteout trie, emitted paths, deferred links, promotions, buffered content | insert, query, record, promote, drain |
| Streaming packer | `src/lib.rs` | tokio channel, relay task, merge task | `new`, `notify_layer_ready`, `notify_error`, `finish` |
| Progress relay | `src/lib.rs` (`relay_from_blocking`) | three channels between the merge thread and the caller | `try_send`, relay, receive |
| Output sinks | `src/tar.rs`, `src/dir.rs`, `src/squashfs.rs` | the output file or directory, the consumer thread or process | write, wait, choose the error, clean up |
| Layer opening | `src/layers.rs` | none | `open_layer` by media type |
| Image layout | `src/image.rs` | none; reads a directory | `load_manifest`, `resolve_layers` |
| Canonical headers | `src/canonical.rs` | one header with its records | `from_entry`, `make_regular`, `write_to_tar`, `write_hardlink_to_tar` |
| Sparse reader | `src/sparse.rs` | position in the sparse map | `detect`, `expand`, `read` |
| Verification | `src/verify.rs` | a mount, two walked trees | `verify`, `walk_dir`, `compare_entries` |
| Registry client | `ocirender-cli/src/registry/client.rs` | token cache, work queue, blob files | `get_authed`, `resolve_manifest`, `download_blob`, `fetch_image`, `pull_image` |
| Credentials | `ocirender-cli/src/registry/credentials.rs` | `~/.docker/config.json`, shared with other tools | `load`, `lookup`, `save` |
| Auth challenge, references | `ocirender-cli/src/registry/auth.rs`, `reference.rs` | none | parsing |
| Command line | `ocirender-cli/src/main.rs` | none | login, fetch, pull, convert, verify |
| Batch conversion, dispatch | `src/lib.rs` | none of its own | `convert`, `convert_streaming`, `layers_from_image_dir`, `write_for_spec` |

(Paths are below `src/` of this directory's parent: `src/src/...` for the
library, `src/ocirender-cli/...` for the command line.)

### How the parts interact

```
 pull_image workers --notify--> StreamingPacker --tokio channel--> relay --std channel--+
   (client.rs)                    (lib.rs)                     (relay_to_blocking)      |
                                                                                        v
 caller <--channel-- relay_from_blocking <--std channel-- merge thread: merge_layers_into_streaming
                        (lib.rs)              progress       resequencing -> process_layer x n
                                                                   -> emit_deferred -> finish_output
                                                                          | tar bytes
                                                            file | socket -> unpacker | pipe -> mksquashfs
```

Around that stream stand three files that outlive a process and are shared with
others: the image directory, which `fetch_image` writes and `convert` reads;
the output, which a sink writes and `verify` reads; and `config.json`, which
logins and other tools write and every client reads once, when it is made.

Three kinds of concurrency meet here: tokio tasks (download workers, two
relays), OS threads (the merge, the unpacker's counterpart, the progress
bridge) and a child process. Inside `process_layer` there is none: its
difficulty is the order of things, because layers are read newest first and so
every decision is taken before the older layers are known.

### What is hard, and what makes each part correct

* **Merge engine and trackers.** Whiteouts overwrite each other in a trie, a
  hard link's target may be in a layer not read yet, hidden by a whiteout, or
  replaced. Correct when the merged stream extracts to the file system one gets
  by applying the layers oldest first, inodes included, and an error of a write
  is blamed on the sink or the layer it came from.
* **Resequencing.** Any arrival order, duplicates, indexes out of range, errors
  in the stream and early close. Correct when it is a merge of all layers in
  descending order, ends, and reports the first fault.
* **Streaming packer.** A bounded tokio channel, a relay that may die because
  the merge has, callers that wait for room when it does, and a packer
  that is finished or dropped with items on the way. Correct when nothing accepted
  is lost, no call hangs, and what `finish` returns fits what the calls returned.
* **Progress relay.** `try_send` from the merge thread into a bounded channel.
  Correct when nothing is ever dropped and both relays end.
* **Output sinks.** Two sides of a pipe, each of which may fail first. Correct
  when the sink returns, leaves all or nothing as far as it can remove files,
  blames a failure that no other one caused and leaves nothing running.
* **Registry pull and fetch.** Workers, a queue, files that survive a crash and
  are checked, removed and rewritten in separate steps. Correct when success
  means complete, failure has a cause and is told, and whole blobs stay.
* **Credentials and tokens.** A file that other tools write too, rewritten in
  place; a cache read, requested for and written under separate locks; image
  names in many spellings. Correct when no login is lost, a name means what its
  user means by it, tokens fit their requests, and no account gets to a
  registry it is not for, though a challenge may name any realm.
* **Headers and sparse files.** A path, a link target or a size stands in up to
  four places of an archive member, archivers differ in which they use, and the
  map of a sparse file is untrusted. Correct when a reader of the output finds
  the file the archiver was given, by its path, in all its bytes.
* **Image layout and verification.** Three layouts, nested indexes, four ways to
  type a layer; a mount that must not stay behind. Correct when the layout does
  not matter to the result, damage is an error, and the verdict says how the
  layers, through the sink, differ from the reference.

The full list of hazards, each with its source line and the properties that
cover it or the reason why none does, is in `PROJECT.json`.

## The modules

| Module | Models | State and actions |
|---|---|---|
| `WhiteoutTracker` | the whiteout trie, `tracker.rs` | operators: the trie is a function from nodes to the layer recorded there |
| `OverlaySemantics` | the reference: what an image means (OCI image layer rules) | operators `Legal`, `Ident`, `Apply`: one packed entry applied to a file system |
| `Overlay` | `process_layer`, `emit_deferred`, `finish_output` and the three trackers | a builder packs any legal image, then one action per way the entry loop's body ends: whiteout, opaque, suppressed, recorded as content, emitted, deferred link, promotion; then promotions, deferred links, end of archive. A read may fail; a write goes wrong in one step (`WriteGoesWrong`: what `TrackedWriter` notes, what the Builder returns) and is classified in the next (`WriteFails`, `FinishFails`) from what was noted |
| `CanonicalHeader` | `canonical.rs`, `normalize_path`, and what the tar crate reads and writes | operators on a member: its header fields, PAX records and GNU records |
| `SparseReader` | `sparse.rs` | `Detect` and `Expand` read and validate the map, then one action per branch of `read`; what a map means (`Byte`, `Stored`) is said of positions in the file, without reading it |
| `Emission` | one member on its way through `process_layer` | an archiver (external) makes a member of a file in one of seven forms; `Capture`, `ExpandSparse`, then `Emit`, `Buffer` and `Promote`, or `EmitLink`; `Transfer` copies its data through `SparseReader` |
| `InOrderMerge` | the promise of the merge: layers `Total-1 .. 0`, each once, then a verdict | `Process`, `Succeed`, `Fail` |
| `Resequencer` | the receive and drain loop | `Accept`, `Reject` and `RunDry` for what a receive may bring, `StartLayer`, `FinishLayer`, `LayerFails` and `Wait` for the drain, `Finish`; `OpenFails` when the sink never gets to the loop; `Send` and `Close` are an arbitrary environment |
| `StreamingPacker` | `StreamingPacker` and `relay_to_blocking` | caller tasks with a call each, the bounded channel, the relay; the merge thread is `Resequencer` by INSTANCE |
| `ProgressRelay` | `emit_progress` and `relay_from_blocking` | merge thread, bridging thread, forwarding task, caller; three channels |
| `PackerProgress` | a packer with a progress channel | `StreamingPacker` and `ProgressRelay` joined at the merge thread: a step that starts or finishes a layer emits its event |
| `PullImage` | `pull_image` | queue, workers, main task joining them; the packer behind it is `StreamingPacker` by INSTANCE |
| `FetchImage` | `fetch_image`, `resolve_manifest`, `select_platform`, `download_blob`, `check_local_blob` | the main task from the manifest to the config blob, then workers step by step on files with inodes (a removed file stays open); crash and rerun |
| `SquashfsSink`, `DirSink`, `TarSink` | the three sinks | the sink's steps and the other side of its pipe |
| `OutputSinks` | `write_for_spec` | the three of them behind one conversion, chosen by `spec` |
| `ImageLayout` | `image.rs`, `layers.rs` | operators on a directory: `LoadManifest`, `ResolveLayers`, `FileOf`, `ReadBlob` |
| `Verify` | `verify.rs` | mounting, walking two trees, comparing, releasing the mount on every path |
| `Offline` | `convert` followed by `verify` | a directory some tool wrote (whole or damaged) is loaded, resolved and merged layer by layer; `Leaves` is what the sink makes of the result; that is verified against a tree another tool unpacked |
| `ImageReference` | `reference.rs` | operators on names as sequences of tokens |
| `CredentialStore` | what is in `config.json`, and `load` and `lookup` | operators on documents |
| `Credentials` | `save`, beside other tools that write the file | a login reads, truncates and writes in separate steps and may be stopped in between; an edit by another tool |
| `TokenCache` | `get_authed`, `resolve_token` | tasks request from a registry or Docker Hub's mirror, are sent to a realm, look up, fetch with the account of the image's registry, store, repeat |
| `Auth` | a client beside logins | `Credentials` and `TokenCache`, joined when the client is made |
| `ResequencerProofs`, `OverlayProofs`, `PackerProgressProofs`, `PullImageProofs`, `FetchImageProofs`, `OutputProofs`, `EmissionProofs`, `AuthProofs` | proofs | |
| `MCOverlay`, `MCStreamingPacker`, `MCPackerProgress`, `MCPullImage`, `MCFetchImage`, `MCEmission`, `MCOffline`, `MCAuth` | values for TLC | |

Names of variables and actions follow the source where TLA+ allows. `PROJECT.json`
maps every definition to its lines.

### Abstractions

* File content is the identity `<<layer, path>>` of the entry that brought it.
  Two files have the same content in `Overlay` only if they are the same file;
  `Emission` and `SparseReader` are about the bytes.
* Paths in `Overlay` are sequences of names from a prefix-closed set. What makes
  a path of its spelling is in `CanonicalHeader`, where a path is a sequence of
  pieces with a width each, so that it fits a header field, splits over two, or
  does not fit.
* A header is the fields that name, size or link something. Permissions, times
  and numeric owners travel with it unchanged; one record stands for all
  extended attributes, one for the owner's names.
* A tree in `Offline` maps paths to a kind, a mode, an owner, a target, a
  content and a rest that no comparison looks at (extended attributes, the
  number of a device). A directory output has a regular file for everything that
  is no directory and no link, as `tar::Archive::unpack` writes it, and keeps what
  it held before. Whiteouts and hard links are `Overlay`'s.
* Names of images and registries are sequences of tokens: separators, and words
  between them. A password is part of the account that has it.
* Channels are sequences with the capacity the code gives them.
* The tar stream is a number of chunks; a pipe or a socket holds a few of them.
* What libraries, other processes and other tools do (tar decoding, tokio,
  archivers, mksquashfs, squashfuse, the unpacker's file system, the registry)
  is an environment that may do whatever the code has to cope with; such
  definitions are marked external in the map.
* History variables (`recorded`, `missed` in `Overlay`, `taken` and `processed`
  in `Resequencer`, `causes` and `kept` in the sinks, `expected` and `disturbed`
  in `Credentials`, `sent` in `TokenCache`, ...) are read by properties only,
  never by a guard of the program's actions.

## The runs

Reproduce one with `tlc -workers 2 -config X.cfg M`.

| Run | Module, configuration | Checks | Shows |
|---|---|---|---|
| overlay | `MCOverlay`, `Overlay.cfg` | `WriteErrorIsBlamed`, `SuppressionSound`, `OlderLayersHidden`, `LinksFollowTargets`, `MergedIsOverlay`, `PromotionKeepsItsFile` | every image of up to 3 layers and 5 entries over `a`, `a/b`, `a/c`, `b` with all kinds of entries merges into the file system its layers describe, with failures of read, encoding and sink and interrupted writes at any point, each blamed on where it came from |
| resequencer | `Resequencer`, `Resequencer.cfg` | `Conserved`, `SuccessIsComplete`, `MergeEnds`, `InOrderSpec` | the loop implements `InOrderMerge` for every sequence of arrivals |
| streaming | `MCPackerProgress`, `PackerProgress.cfg` | `NothingLost`, `VerdictFitsCalls`, `NothingDropped`, `ProgressIsTrue`, `CallsReturn`, `AllEnd` | layers reach the merge thread and events come back without loss, `finish` returns what the calls led to expect, a reader of the events knows what became of the merge, nobody hangs and nothing is left behind |
| pull | `MCPullImage`, `PullImage.cfg` | `FailureIsTold`, `PullEnds`, `KeepsProtocol` | the pull returns and tells why it failed; its workers keep the protocol of the packer |
| fetch | `MCFetchImage`, `FetchImage.cfg` | `OkMeansComplete`, `OneWriter`, `WholeStays`, `RunEnds` | success means every blob of the wanted platform's image is whole, over crashes, wrong bytes and reruns |
| sinks | `OutputSinks`, `OutputSinks.cfg` | `WholeOrNothing`, `BlameIsRight`, `NothingRunsOn`, `Returns` | whatever fails and whenever, a sink returns, leaves all or nothing unless it cannot remove the file, and names a failure that no other one caused |
| emission | `MCEmission`, `Emission.cfg` | `ReadsBack`, `InStep`, `Faithful`, `AcceptsWellFormed` | a member of any of seven archive forms comes out as the file its archiver was given: path, target, type and bytes; sparse maps with a chunk are accepted exactly when they describe a file |
| offline | `MCOffline`, `Offline.cfg` | `ConvertIsTrue`, `VerdictIsRight`, `EndsUnmounted` | six layouts of seven images convert to the same trees, damage is an error, verification is clean exactly when the reference looks like what the sink leaves of the layers, and leaves no mount |
| auth | `MCAuth`, `Auth.cfg` | `SavesKept`, `TokensFitRequests`, `NamesReadAsMeant`, `OwnAccount`, `LoginsAreSeen`, `RequestsEnd` | logins keep what is in `config.json` while writers do not overlap, and a client's requests carry tokens of the registry the name means, and accounts go to its realms alone |
| overlay_masked | `MCOverlay`, `Overlay_masked.cfg` | `SuppressionComplete` | a violation, below |
| fetch_twice | `MCFetchImage`, `FetchImage_twice.cfg` | `CleanDownloadsSucceed` | a violation, below |
| emission_sized | `MCEmission`, `Emission_sized.cfg` | `InStep` | a violation, below |

`Overlay_flat.cfg` is a further instance (four layers over three names, symmetric),
which passes too.

`MergedIsOverlay` is the central property: the extraction of the merged stream
and the layered file system have the same paths, kinds and contents, and two
paths share an inode in one exactly when they do in the other. It is claimed for
`Reproducible` images. Those excluded are named one by one in `Overlay`
(`BareOpaque`, `FileBecomesDir`, `LinkToLink`, `SharedTargetName`,
`HiddenSpecial`, a link to a symlink or device that a newer layer hides, and
images on which a whiteout was masked), and for each exclusion there is a counterexample
that shows an image the merge does not reproduce. They are conditions on the
input and not on what the merge did, except for `missed`, which is the condition
of the first finding.

`ReadsBack` is its counterpart for one member: the first says which entries come
out and in which order, the second that an entry which comes out is readable.

`KeepsProtocol` and `InOrderSpec` are refinements, and they chain: what
`pull_image` does is a behaviour of `StreamingPacker`, which is put together with
`Resequencer` (its relay sends and closes, its merge thread merges), and that
implements `InOrderMerge`. They carry safety; the liveness properties are checked
on each level. That the parts of a packer fit is not a matter of form, and
`VerdictFitsCalls` says what there is to say: what `finish` returns at one end
against what the calls returned at the other.

Some properties set cases apart, each with a counterexample below.
`ConvertIsTrue` and `VerdictIsRight`: blobs of several gzip, bzip2 or xz streams
(`SeveralStreams`), and blobs that look complete although they were cut, a plain
one after an entry and one of zstd frames between two (`LooksComplete`).
`Faithful` and `AcceptsWellFormed`: files that are all hole and whose map has no
chunk (`Unmarked`: the 0.0 form is recognised by an offset record, of which there
is none; `EmptyList`: the 0.1 form has one empty word, which is no number).
`WholeOrNothing`: a file that could not be removed (`kept`; both sinks ignore the
error of `remove_file`). `SavesKept`: writers that overlap or are stopped
(`disturbed`), about which `OwnAccount` still speaks.

`BlameIsRight` is about causes, which the history variable `causes` collects when
they happen. It does not say that the first failure is reported, because that is
not so: when the consumer fails and then, independently, a layer, the layer is
reported (`squashfs.rs:75-80`, `dir.rs:57-61`).

`VerdictIsRight` says what a verdict is worth. Its first half compares the report
with the image and not with what the merge computed, so that a wrong conversion
breaks it too. Its second half says when a copy made by another tool verifies:
always for a squashfs, and for a directory only if it held nothing else and the
image has no pipes or devices, which the unpacker turns into files.

`OwnAccount` follows an account to the realm that receives it. With
`--registry-mirror` (README.md:422-431 of the repository) requests for Docker Hub
go to the mirror, and the account stored for Docker Hub goes to whatever realm the
mirror names: the property allows that, as the documented purpose of a mirror, and
forbids that the mirror stands in for any other registry.

### Bounds, and why they are enough

* *overlay*: three layers are the least in which a whiteout, a file it hides and
  a link made in between exist; five entries allow a group of two links, their
  target, a whiteout and a replacement. The tree has a directory with two
  children so that a whiteout may hit a path, its parent or its sibling.
* *resequencer*: three layers, the index 3 out of range, five items: enough for
  a full delivery with a duplicate or an error between any two layers. The
  theorems below hold for every number.
* *streaming*: two layers and two callers over a channel of capacity `Cap` as in
  `new` (the number of layers, at least one); three calls overfill it. The
  caller's progress channel holds one event, so that every link of the chain is
  full at some time. The safety part is proved for all numbers.
* *pull*: three layers and two workers, so that a worker waits in a send while
  the other fails.
* *fetch*: three digests, blobs of two parts (a half written one exists), an
  image by itself, an index whose wanted platform stands second and twice, with a
  config and a layer listed twice, and an index without it; two runs (one to
  crash, one to recover).
* *sinks*: six chunks over pipes of two, so that both sides wait for each other;
  two messages over an error pipe that holds two, because a process that says
  more than that blocks for good (`SquashfsSink_pipes.cfg`);
  the five retries are the code's own `MAX_RETRIES`.
* *emission*: a name field of 4 bytes and a prefix of 6, with paths of 1 to 7
  bytes: some fit, some split, some fit neither way, and some fit only without
  the root they are spelled with. Numbers of sparse maps are below `Word = 8`, so
  that 7 + 1 and more overflow as 2^64 does; blocks of two bytes instead of 512.
  Two chunks can touch, overlap, be empty or be out of order; a plain file has up
  to five bytes, so that its size may need a record. A size of more than
  `SizeField = 4` does not fit a header; `SparseData` is the most data a sparse
  file of the run stores, at that limit in `Emission.cfg` and above it in
  `Emission_sized.cfg`, where the one file has a chunk of 5 bytes behind a hole.
* *offline*: images with a layer twice, every packing, a layer that replaces a
  path by another kind, a pipe, and two of the frames that zstd concatenates;
  output directories that are empty, hold a path of some images, or one of none;
  one damage and one difference at a time, because each is caught by a check of
  its own.
* *auth*: two logins to different registries, one of them Docker Hub with its two
  keys, another tool that edits, two tasks with a request each, two tokens; a
  mirror or none, and a realm of its own for every server.

Counters without a bound in the code are bounded by guards that carry the names
of constants (`MaxItems`, `MaxRuns`, `MaxTokens`, `MaxWriters`, `Requests`,
`Messages`, `MaxEntries`). Deadlock is not checked anywhere because every one of
these programs ends; that they end is stated as a liveness property instead,
where there is something to wait for.

### Fairness

Weak fairness only, and only of steps that a scheduler owes: of the merge thread
(`Merge`, `MergeThread`, `MergeAndTell`), of the relay tasks and the bridging
thread, of a download worker, of the main task, of a sink's thread and of the
process at the other end of a pipe, of a caller's pending send when there is
room, and of the single thread of `convert` and `verify`. An OS thread that can
run is run, a tokio task that is ready is polled, and the channel operations are
FIFO with wake-up. No failure is owed: where one could unblock a wait, as `OpenFails`
could, the fairness leaves it out. Nothing is assumed of what a caller does next: it may stop
calling, drop the packer or never call `finish`, and the liveness properties are
conditional on what it does. The exception is the reader of progress events: a
caller that is in state `reading` goes on reading (it may go away at any time,
and it may be idle from the start). Logins are not fair at all: one may be
stopped anywhere. A registry answers every request in the end, with data, a
token or an error; there is no timeout in the code to model, and a registry that
never answers hangs the program.

## What is proved

TLAPS checks the following for all values of the constants.

`ResequencerProofs`, from `ResequencerAssumption` alone (any number of layers,
any indexes, any bound on the items):

* `BooksAreKept`: `Conserved` and `NeverIdle`, each delivered layer is in exactly
  one place and the loop does not wait for what it has;
* `DescendingOrder`: layers are processed newest first, each once;
* `CompleteOnSuccess`: `SuccessIsComplete`;
* `FirstFault`: `FirstFaultDecides`, the loop fails only for a reason it was
  given, and the first fault among the items it took is the one it reports;
* `ImplementsInOrder`: `Spec => InOrder!Spec`, with `verdict` mapped to the
  result of the loop.

The inductive invariant is
`IInv == TypeOK /\ Conserved /\ NeverIdle /\ NewestFirst /\ Cursor /\ SuccessIsComplete`.
`Conserved` is not inductive alone: the drain loop takes `next_index` out of the
buffer, and that it is not processed already follows only from `Cursor`, which
ties the cursor to the number of processed layers and to `pc`, and `NewestFirst`, which says
which layers those are. `SuccessIsComplete` needs that `received` counts a set
(in `TypeOK`): with `received = Total` distinct indexes below `Total` all of them
have arrived, a fact about cardinalities that is a lemma of its own. `FirstFault`
adds `TakenInv`: while the loop runs, all it took are distinct layers in range,
so an item that it rejects is the first that could be. The
refinement has one step per action: `FinishLayer` maps to `Process`, `Finish` to
`Succeed` or `Fail`, every error to `Fail`, everything else to a stutter.

`OverlayProofs`, from `EntriesAssumption`, `BoundsAssumption` and the two
assumptions on paths (they are sequences and closed under prefixes):

* `SuppressionIsSound`: `SuppressionSound`, nothing is suppressed without a newer
  whiteout on it or above it;
* `OlderLayersAreHidden`: `OlderLayersHidden`, for layers still to come the trie
  answers exactly as the set of all whiteouts would, although each node keeps
  only the last one;
* `LinksAreResolvable`: `LinksFollowTargets`, a hard link is written after the
  entry it points to;
* `PromotionsKeepTheirFile`: `PromotionKeepsItsFile`, the content of a promotion
  is that of the file its link was made to;
* `MergeIsOverlay`: `MergedIsOverlay`, the output of a reproducible image, extracted,
  is the file system its layers describe;
* `WriteErrorsAreBlamed`: `WriteErrorIsBlamed`, by an invariant that ties what
  `TrackedWriter` remembers to what the Builder returned.

The invariant is `IInv == TrieInv /\ BuilderInv /\ BufferInv /\ PromotionInv /\
OutputInv`. In `TrieInv`, `TrieKept` says that a node's state was really recorded and that no recorded node
lost its state; this is all that survives of a whiteout that was overwritten.
`RecordedNewer` says that everything recorded belongs to the layer being read or
a newer one: for an older layer every state on the way is therefore a reason to
hide, and it does not matter which of them the lookup meets first. For the layer
being read it does matter, and that is the first finding.

`PromotionsKeepTheirFile` is about three times: when an image was built, when a
link was recorded, and when a file is met layers later. `BuilderInv` ties an
image to the file system it built: no layer adds a path twice, and a link has
the content its target was last given, by a layer not newer than the link's
(`Gave`). `BufferInv` says that the buffer holds exactly the hidden files of the
layer that were read, and `PromotionInv` that a promotion either has the newest
file at its target that is not newer than the link, or waits and no such file
was passed (`Kept`). `OutputInv` adds that what is in `emitted` is in the output,
which is all that the order of links and targets needs.

`MergeIsOverlay` needs more, because it says that nothing is missing and nothing
comes twice. Its invariant is `Whole == IInv /\ LiveInv /\ StageInv /\ SeenInv /\
WaitInv /\ OutInv`:

* `LiveInv` is about the builder: a path is in the file system exactly when an
  entry gave it that no newer layer hid or replaced (`HeldIsThere`, `ThereIsHeld`),
  with that entry's content and the kind of the entry that first gave it.
* `SeenInv` accounts for every entry that was read: it is hidden, or written, or
  kept as a link; and what was written at once comes from an entry that is up
  (`Up`: no whiteout recorded by a newer layer covers it, no newer layer holds its
  path). `UpIsNewest` and `NewestIsUp` show that being up, which is what the merge
  can see, is being what the file system holds. Here `BareOpaque`, `FileBecomesDir`
  and `missed` are needed: each of them makes the two differ.
* `WaitInv` is about links that wait: the path of each is still free, no path waits
  twice, and a link that was read is written, hidden or waiting (`Met`), so that the
  promotions and the links drained at the end (`NoGroupDropped`, `NoLinkDropped`)
  lose none.
* `OutInv` says that every path and every file is written once, and that what was
  written by a promotion or as a link carries the content of a link that is up
  (`LinksUp`). `LinkToLink`, `SharedTargetName` and `HiddenSpecial` are needed here.
* `StageInv` says which of the lists are empty in which phase.

At the end nothing waits, so the output has each path of the file system once, with
its kind and content (`OutputIsOverlay`). Extraction is a recursive function over the
output; each entry finds its path absent and its target present, and a least
counterexample over the prefixes shows what it leaves (`StreamExtracts`).

`PackerProgressProofs`, from `ProgressAssumption` (a number of layers, a caller's
channel that holds at least one event):

* `DeliveredIsKept`: `NothingLost`;
* `VerdictsFitCalls`: `VerdictFitsCalls`. It rests on lemma `PackerIsChannel`,
  by which the invariant of the resequencing loop holds in the packer, on
  `NothingLost`, and on the order of ends: the channel closes only after the
  owner let go, when no call is under way, unless the merge has ended before
  (`VerdictInv`);
* `EventsArrive`: `NothingDropped`;
* `EventsAreTrue`: `ProgressIsTrue`, what a caller reads is what happened.

The invariant of the events, `ProgressInv`, says that while the caller keeps its
end the events emitted are exactly the stream: what it got, its queue, the task's
hand, the bridge, the thread's hand and the std channel, in this order. A step
moves one event from one of them to the next, which leaves the stream as it is
(lemma `Handover`), or adds one at its end (`Growth`). That `try_send` never
finds the std channel full is a count: two events per layer that was started or
is working (`Counted`), and the channel holds two for every layer. `Leaving`
says that thread and task end empty-handed and in order. What the events say is
a second invariant, `Told`, on what was emitted and what was merged: two events
for each layer that is done, one for the layer at work.

`PullImageProofs`, from `PullAssumption` (an image with layers, at least one
worker, any number of both, and any failures):

* `PullKeepsProtocol`: `KeepsProtocol`, every step of a pull is a step of the
  packer or none;
* `PullMergesInOrder`: a pull implements `InOrderMerge`, by the theorem of
  `ResequencerProofs` about the loop behind it;
* `FailuresAreTold`: `FailureIsTold`.

The invariant follows the layers. Each is in one place (`OnePlace`): the queue,
a worker's hands, or the way to the merge, which is the two channels and what
the merge has taken. None leaves these before the merge ends unless a worker
fails (`Somewhere`), and the layer of a failed download is in none of them for
ever (`Lost`), so that a merge that has them all cannot follow a failure. With
`Relaying` (the relay ends only after the owner let go or after the merge) and
`Telling` (once main has told it, the error is in a channel until the merge ends)
the channel cannot run dry: when it closes, either the error is in it, or every
worker finished and every layer has arrived, which lemma `NeverDry` counts. The
invariant of the loop, `Loop!IInv`, is taken over as it is, from the instance of
`ResequencerProofs`.

`FetchImageProofs`, from `FetchAssumption` (any answers, workers, parts, runs and
faults):

* `FilesApart`: `OneWriter`;
* `Resumes`: `WholeStays`;
* `Complete`: `OkMeansComplete`, also for images that list a digest twice.

No two paths have one file (`Apart`). While the digests of an image differ, no
two tasks have one blob, and none has a blob that is still queued (`OneEach`), so
that nobody else touches the path a task works on and what it knows of it stays
true (`Sound`): a writer's path is its own file, which holds only parts before
the one it is at, and a file found bad by reading is bad still when it is
removed. `Places` says in which phase which tasks work. `Resumes` is then an
argument per action: only a removal, a truncation and a write change a file, and
each is of one that is not whole.

`Complete` cannot use any of this, because it holds when two tasks work on one
blob. Its invariant, `DInv`, says of each blob only that it is in place or that
some task is pledged to it: one that will fail unless it finds the blob in place
(`Good`). A task that damages what another relies on is pledged itself from then
on, and main can succeed only when all tasks have gone idle. `Own` says that the
file a task has open is at the path of its blob or at none.

`OutputProofs`, about the sinks without an assumption on sizes or faults:

* `OutputIsWhole`: `WholeOrNothing`;
* `CauseIsReported`: `BlameIsRight`;
* `NothingOutlives`: `NothingRunsOn`;

and about the offline commands from `OfflineAssumption` (any number of images,
layers and entries; a blob is whole, in a packing the code knows, and only its
files have content; no blob has the name of a document; an image has a layer) and
`HeldAssumption` (what an output directory holds are files, none in the way of a
directory of the image):

* `ConversionIsTrue`: `ConvertIsTrue`;
* `VerdictsAreRight`: `VerdictIsRight`.

There is an invariant for each sink, which says what holds at each point of its
code. The facts that matter are about the other side of the pipe: a merge that
was cut short either leaves the end of an archive in the stream, and then the
process ends with a short image, or its process has failed already
(`SquashfsInv`); a merge that stopped early has chunks left that no unpacker can
have read (`DirInv`).

The conversion is proved layout by layout only once: each of the six directories
holds a file for every layer of the image and gives `load_manifest` its names in
order (lemma `LayoutServes`, which establishes `Serves`), and what follows rests
on `Serves` alone. A damage takes something from that: the documents, and then
loading or resolving fails, or the file of one layer, and then opening or reading
that layer does (`Finds`). `LayersLeft` is the invariant of the merge: the layers
left are the oldest ones of the image, the bad one is among them, and what is
merged is `MeaningFrom` of the newer ones. `Meaning` gives each path the entry of
the newest layer that has it, which needs no fold; that putting a layer under what
is merged extends `MeaningFrom` by one is the step. `VerdictIsRight` is then a
statement about two trees of proper entries (`IsTree`): comparing them finds no
difference exactly if their `View`s, which keep what is looked at, are equal
(`EntriesEqual`, `CleanIsEqual`); and for its second half, that what the sink
leaves of the image has the view of the image exactly if `KeptByDir`.

`EmissionProofs`, from `SparseAssumption`, `FieldAssumption` and
`EmissionAssumption` (any maps, buffers, widths of fields and forms):

* `FilesAreWhole`: `Faithful`;
* `MapsAreJudged`: `AcceptsWellFormed`;
* `MembersAreInStep`: `InStep`, if `SparseData <= SizeField`. The hypothesis is
  needed: `emission_sized` is the counterexample without it;
* `OutputReadsBack`: `ReadsBack`, if archivers spell roots and paths as `Spelled`
  says ("./"s before "/"s, and no path begins with either; `MCEmission` checks it
  of its instance) and a reader keeps PAX records across a GNU record
  (`RecordsSurvive`). Both are needed: `OneKey` and `RecordsArrive`, among the
  weaker disagreements below, fail without them.

`ReaderInv` relates the reader to the file the map means. The chunks that are
left are in order behind the position and cover exactly what is stored of the
rest of the file (`Remaining`), the data read is what is stored before the
position (`Consumed`), and what was returned is the front of the file (`IsFront`).
That a map whose neighbours are in order has all its chunks in order is lemma
`ChunksInOrder`, a least counterexample; `expand` checks neighbours and the
meaning needs all pairs. `HeaderInv` follows the size through the header: field
and record agree from capture on (`Sized`), whichever of the two a reader takes.
`PathInv` follows the names: what an archiver wrote of a path and a target can be
found in the member (`Stands`), is kept by capture and by the rewriting of a
sparse file's header (`Spells`), and is found by a reader of what is written
(`Found`). Widths stay abstract, so that the argument covers every choice of what
fits a field, what is split and what needs a record.

`AuthProofs`, from the assumptions of `CredentialStore`, `Credentials` and
`TokenCache`:

* `TokensFit`: `TokensFitRequests`;
* `OwnAccounts`: `OwnAccount`, also when writers overlap or are stopped, for any
  mirror and any realms a server names;
* `SavesAreKept`: `SavesKept`;
* `ClientsSeeLogins`: `LoginsAreSeen`, an action property;
* `NamesAreRead`: `NamesReadAsMeant`, for names that can be read back from their
  spelling (`WellNamed`: the host looks like one, the first of several words of a
  path without a host is not "localhost", no separator is part of a word or a tag,
  and a tag comes without a digest; `MCAuth` checks it of its names). The last of
  these is needed: `NoTagInRepository` fails without it.

`FileInv` says that every entry, in the file and in the document a login holds,
is an account of its own registry; `TokenInv` that the realm a task was sent to
is one its server names, and that a token a task or the cache
holds was issued for the key it is held under. A token once issued is never
reissued, so that holding its number is enough. `SaveInv` says that while nobody
overlaps one writer at most is busy, that it has read all the file is to hold,
and that the file is empty only while it writes. About names there is nothing to
run: a name is put together with at most one "@", and with a tag, a host and a
path around ":" and "/", each of which the parser finds again where it was put
(`FirstAround`, `LastAround`), because what stands before or behind it has none, or
recognises as a port's because a "/" comes behind it (`BeforeSlash`).

Every invariant that a passing run checks is stated by a theorem. Only model-checked,
because the provers installed do not reach them, are the liveness properties
(`MergeEnds`, `CallsReturn`, `AllEnd`, `PullEnds`, `RunEnds`, `Returns`,
`EndsUnmounted`, `RequestsEnd`), which depend on fairness.

## Disagreements between the source and its documentation

Three runs end in a violation.

1. **overlay_masked** (`src/src/tracker.rs:94` against `tracker.rs:83-85`). The
   lookup returns at the first node that has a state, and an insert overwrites
   what its node had. When an older layer records a whiteout at or above a path a
   newer layer had hidden, the newer whiteout is masked for the entries of that
   older layer: its own entry of the path comes back.
2. **fetch_twice** (`src/ocirender-cli/src/registry/client.rs:868` against
   `client.rs:848-851`). In a manifest that lists a digest twice two workers check,
   remove and write the same file; the fetch fails although the registry served
   every blob. (A success is still complete: `OkMeansComplete` holds for such
   images.)
3. **emission_sized** (`src/src/canonical.rs:132` against `canonical.rs:119-122`
   and `129-131`). A sparse file whose stored data is too large for the header's
   size field has its size in a PAX record. `make_regular` rewrites the field and
   drops the sparse records but keeps that one, which a reader prefers: behind the
   expanded file it goes on reading at the wrong place.

The following are weaker: a comment that says more than the code does, a case
the code knowingly leaves, or a consequence of a library's behaviour. TLC finds
an execution for each, with the configuration named, changed as the second
column says; they delimit the properties above.

| Statement | Configuration | Source | What happens |
|---|---|---|---|
| `GroupsShareOneFile` | `Overlay_masked.cfg` over `FlatPaths`, `FlatEntries`, `MaxEntries = 5` | `overlay.rs:301-302`, `344-345` against `309-314` | links to two files that lived at one path, one after the other, are in one promotion group |
| `EmptyPromotionIsMalformed` | `Overlay_masked.cfg` over `FlatPaths`, `FlatEntries` | `tracker.rs:198-200` against `overlay.rs:210-212` | a promotion without content whose target is itself a link is dropped, and its image is not malformed; so is one to a symlink or device |
| `DirectoriesSurvive` | `Overlay_masked.cfg` | `tracker.rs:32-33`, `README.md:84-86` against `tracker.rs:96-98` | an opaque marker in a layer without an entry of its directory hides the directory itself |
| `LinksKeepTheirFile` | `Overlay_masked.cfg` with `a/b` a directory too in `TreeEntries` | `README.md:68-70` against `overlay.rs:240-249`, `358-371` | something else takes the path of a link's target in a newer layer, and the link is emitted to it |
| `OutputMeansSinkFailed` | `Overlay_masked.cfg` with `Faults = {"entry"}` | `overlay.rs:88-89` against `500` | an entry that cannot be encoded while promotions are written is reported as a failed output |
| `NotifiedErrorFails` | `StreamingPacker_notify_error.cfg` | `lib.rs:495-498` against `overlay.rs:449`, `lib.rs:501` | an error notified after the last layer is accepted and never seen |
| `StoppedMeansError` | `StreamingPacker_notify_error.cfg` with `MaxItems = 4` | `lib.rs:472-474` against `179-183`, `490` | a layer notified after the merge succeeded is refused as if it had failed |
| `ConsumesAsItArrives` | `SquashfsSink_pipes.cfg` | `squashfs.rs:27-28` against `127-129`, `62-67` | a process that fills its error pipe, which is read only at the end, stops reading its input |
| `FailureLeavesNothing` | `SquashfsSink_pipes.cfg` with `Messages = 2`, `Faults = {"input", "wait"}` or `{"input", "unlink"}` | `squashfs.rs:28` against `67-69`, `82` | when waiting for the process fails the function returns before it removes the output; and an error of the removal is ignored |
| `NeverTruncated` | `TarSink` with `Init`, `Next`, `Chunks = 6`, `Faults = {"full", "unlink"}` | `tar.rs:20-21` against `34` | a tar that was cut short stays if it cannot be removed |
| `AllRecognised` | `Emission.cfg` | `sparse.rs:44-45` against `79`, `96-97` | a 0.0 member whose map has no chunk, a file that is all hole, has no offset record and comes out as what it stores, nothing |
| `NamedStaysReadable` | `FetchImage_twice.cfg` over `OneAnswer` with `Faults = {"crash"}` | `client.rs:482` | a rerun truncates the manifest of a layout that was complete; if it dies there, the layout can no longer be read |
| `RetryIsUseful` | `Auth_expired.cfg` | `client.rs:217-220` against `177-179`, `257-267` | an expired token stays in the cache, and every later request uses it |
| `NoTagInRepository` | `Auth_expired.cfg` over `TagAndDigest` | `reference.rs` | of a name with a tag and a digest the tag stays part of the repository |
| `RestPreserved` | `Auth.cfg` with `Tasks = {}` | `credentials.rs:107-127` | what another tool writes to the file between a login's read and its write is lost |
| `OneKey` | `Emission.cfg` over `MCRootsAnyOrder` and the forms `ustar`, `gnu`, `pax` | `overlay.rs:521` | "/./a" becomes "./a", which keys the trackers differently from "a" |
| `RecordsArrive` | `Emission.cfg` with `RecordsSurvive = FALSE` and the forms `ustar`, `gnu`, `pax` | `canonical.rs:337-355` | for a reader that uses PAX records up at the next header, those of a member with a long name are lost behind its long-name record |
| `SuccessIsWhole` | `Offline_members.cfg`, or over `PlainOnly` | `layers.rs:41-49` | of a gzip blob of several members the first is read; of a plain blob cut after an entry, or a zstd one between two frames, what is there |
| `CleanMeansIdentical` | `Offline_members.cfg` over `PlainOnly` | `verify.rs:101` against `216`, `261` | devices, pipes and sockets are one kind without a number, and extended attributes are not looked at: two trees that differ there verify as identical |

## What is not modelled, and why

* Decoding itself: decompression, octal and decimal numbers, JSON and base64 are
  libraries; what they may answer (a value, an error, the end) is modelled, the
  bytes are not.
* The text of `WWW-Authenticate` headers and token URLs (`auth.rs`): a challenge
  names a realm and the scope is the request's own, or it does not.
* `main.rs` apart from the order of its calls: argument parsing, progress bars,
  exit codes, and `Errors`, which are types.
* Names that cannot be represented (other encodings than UTF-8): paths are tokens.
* `convert_streaming`'s stream: the same relay as the packer's, fed by a stream
  instead of by callers.
* What mksquashfs and the unpacker write, apart from whole, partial or short.
* Permissions, times and numeric owners: they travel unchanged with a header.
* Two `fetch_image` processes on one directory: nothing in the source supports it.

