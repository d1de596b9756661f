----------------------------- MODULE FetchImage -----------------------------
(***************************************************************************)
(* fetch_image of ocirender-cli/src/registry/client.rs, with               *)
(* resolve_manifest, select_platform, download_blob and check_local_blob:  *)
(* the main task asks for the manifest of a platform, writes it and an     *)
(* index.json that names it, and fetches the config blob; then workers     *)
(* take layers from a shared queue, keep blobs that are already in the     *)
(* layout directory and download the others.  The directory outlives the   *)
(* process, which may die at any point and be run again.                   *)
(*                                                                         *)
(* A file's content is the set of the parts it holds; Junk stands for any  *)
(* bytes that belong to no part.  A digest matches when every part and no  *)
(* junk is there.  A path and an open file are different things: removing  *)
(* a path leaves the writer of the file behind it writing.                 *)
(***************************************************************************)
EXTENDS Integers, Sequences, FiniteSets, Functions

CONSTANTS
  Blobs,        \* digests of configs and layers
  NoBlob,       \* no digest
  Answers,      \* what the registry may have under the image's name
  Wanted,       \* the platform that is asked for
  Parts,        \* a blob is written in parts 1..Parts
  Workers,      \* the download tasks
  Main,         \* the main task
  MaxRuns,      \* bound on the times the program is started
  Faults        \* what may fail, a subset of AllFaults

AllFaults == {"request", "corrupt", "crash"}

(* A manifest, and the answer to a request by name: a manifest of its own  *)
(* (the only entry, of any platform), or an index of manifests.            *)
Image == [config : Blobs \cup {NoBlob}, layers : Seq(Blobs)]
Blank == [config |-> NoBlob, layers |-> <<>>]

ASSUME FetchAssumption ==
  /\ \A answer \in Answers :
       /\ answer.index \in BOOLEAN
       /\ answer.entries \in Seq([platform : STRING, image : Image])
       /\ answer.index \/ Len(answer.entries) = 1
  /\ Parts \in Nat \ {0}
  /\ MaxRuns \in Nat
  /\ Faults \subseteq AllFaults
  /\ NoBlob \notin Blobs /\ Main \notin Workers
  /\ IsFiniteSet(Blobs) /\ IsFiniteSet(Workers)

Junk == 0
Whole == 1..Parts
NoFile == 0
Files == 1..(Cardinality(Blobs) + Cardinality(Workers) + 1)
Tasks == Workers \cup {Main}

VARIABLES
  answer,       \* what the registry has in this run
  only,         \* the manifest_only argument
  image,        \* the manifest of this run, Blank until it is known
  main,         \* where the main task is
  link,         \* the directory: blob -> file, or NoFile
  content,      \* file -> the parts it holds
  manifests,    \* the images whose manifest blob is there and whole
  named,        \* what index.json names: one image, or none
  queue,        \* the work queue
  worker,       \* per task: where it is, its blob, its open file, next part, hash so far
  runs,         \* times the program was started
  result        \* "none", "ok" or "error", of the current run

layout == <<manifests, named>>
disk == <<link, content, layout>>
request == <<answer, only>>
vars == <<request, image, main, disk, queue, worker, runs, result>>

At(step, blob) == [step |-> step, blob |-> blob, file |-> NoFile, part |-> 1, good |-> TRUE]
Idle == At("idle", NoBlob)

WorkQueue(layers) == [i \in DOMAIN layers |-> layers[Len(layers) + 1 - i]]

(* A new directory, or one with every blob in a file of its own.           *)
Init ==
  /\ answer \in Answers
  /\ only \in BOOLEAN
  /\ image = Blank
  /\ main = "resolve"
  /\ \/ link = [b \in Blobs |-> NoFile]
     \/ link = CHOOSE l \in [Blobs -> Files] : IsInjective(l)
  /\ \E old \in {{1}, Whole} :
       content = [f \in Files |-> IF f \in Range(link) THEN old ELSE {}]
  /\ manifests = {} /\ named = {}
  /\ queue = <<>>
  /\ worker = [t \in Tasks |-> Idle]
  /\ runs = 1
  /\ result = "none"

Running == result = "none"
Becomes(w, state) == worker' = [worker EXCEPT ![w] = state]

----------------------------------------------------------------------------
(* The main task, before the workers. *)

MainAt(step) == Running /\ main = step
MainGoes(step) == main' = step

(* resolve_manifest: what is not an index is the manifest itself.          *)
Resolve ==
  /\ MainAt("resolve") /\ ~answer.index
  /\ image' = answer.entries[1].image
  /\ MainGoes("manifest")
  /\ UNCHANGED <<request, disk, queue, worker, runs, result>>

(* select_platform: the first manifest of the platform. *)
SelectPlatform ==
  LET fit == {i \in DOMAIN answer.entries : answer.entries[i].platform = Wanted}
  IN  {i \in fit : \A j \in fit : i <= j}

(* The manifest of the platform, asked for by its digest. *)
ResolveIndex ==
  /\ MainAt("resolve") /\ answer.index
  /\ \E i \in SelectPlatform : image' = answer.entries[i].image
  /\ MainGoes("manifest")
  /\ UNCHANGED <<request, disk, queue, worker, runs, result>>

NoPlatform ==
  /\ MainAt("resolve") /\ answer.index /\ SelectPlatform = {}
  /\ result' = "error"
  /\ UNCHANGED <<request, image, main, disk, queue, worker, runs>>

(* A request of the main task fails, or it is answered with bytes that are *)
(* no manifest; nothing compares a manifest with a digest.                 *)
ResolveFails ==
  /\ MainAt("resolve")
  /\ \/ /\ "request" \in Faults
        /\ result' = "error" /\ UNCHANGED <<image, main>>
     \/ /\ "corrupt" \in Faults
        /\ image' = Blank /\ MainGoes("manifest") /\ UNCHANGED result
  /\ UNCHANGED <<request, disk, queue, worker, runs>>

(* The manifest blob, then index.json; both are emptied before they are    *)
(* written.                                                                *)
EmptyManifest ==
  /\ MainAt("manifest")
  /\ manifests' = manifests \ {image}
  /\ MainGoes("fill")
  /\ UNCHANGED <<request, image, link, content, named, queue, worker, runs, result>>

FillManifest ==
  /\ MainAt("fill")
  /\ manifests' = manifests \cup {image}
  /\ MainGoes("index")
  /\ UNCHANGED <<request, image, link, content, named, queue, worker, runs, result>>

EmptyIndex ==
  /\ MainAt("index")
  /\ named' = {}
  /\ MainGoes("name")
  /\ UNCHANGED <<request, image, link, content, manifests, queue, worker, runs, result>>

FillIndex ==
  /\ MainAt("name")
  /\ named' = {image}
  /\ MainGoes("parse")
  /\ UNCHANGED <<request, image, link, content, manifests, queue, worker, runs, result>>

(* manifest_only ends here; a manifest without layers is an error.         *)
ReturnEarly ==
  /\ MainAt("parse")
  /\ only \/ image.layers = <<>>
  /\ result' = IF only THEN "ok" ELSE "error"
  /\ UNCHANGED <<request, image, main, disk, queue, worker, runs>>

(* The config blob is fetched by the main task, if there is one. *)
StartConfig ==
  /\ MainAt("parse")
  /\ ~only /\ image.layers # <<>>
  /\ MainGoes("config")
  /\ worker' = IF image.config = NoBlob THEN worker
               ELSE [worker EXCEPT ![Main] = At("check", image.config)]
  /\ UNCHANGED <<request, image, disk, queue, runs, result>>

Spawn ==
  /\ MainAt("config") /\ worker[Main].step = "idle"
  /\ MainGoes("join")
  /\ queue' = WorkQueue(image.layers)
  /\ UNCHANGED <<request, image, disk, worker, runs, result>>

----------------------------------------------------------------------------
(* check_local_blob. *)

(* Mutant: a worker leaves the layer it takes in the queue. *)
PeekLayer(w) ==
  /\ MainAt("join")
  /\ worker[w].step = "idle" /\ queue # <<>>
  /\ Becomes(w, At("check", Head(queue)))
  /\ queue' = IF Len(queue) > 1 THEN Tail(queue) ELSE queue
  /\ UNCHANGED <<request, image, main, disk, runs, result>>

TakeLayer(w) ==
  /\ MainAt("join")
  /\ worker[w].step = "idle" /\ queue # <<>>
  /\ Becomes(w, At("check", Head(queue)))
  /\ queue' = Tail(queue)
  /\ UNCHANGED <<request, image, main, disk, runs, result>>

(* Mutant: a file that is there is taken to be whole. *)
TrustLocal(w) ==
  /\ Running /\ worker[w].step = "check"
  /\ Becomes(w, IF link[worker[w].blob] = NoFile THEN At("request", worker[w].blob)
                ELSE Idle)
  /\ UNCHANGED <<request, image, main, disk, queue, runs, result>>

(* metadata: a file that is there is hashed. *)
LookLocal(w) ==
  /\ Running /\ worker[w].step = "check"
  /\ Becomes(w, At(IF link[worker[w].blob] = NoFile THEN "request" ELSE "open",
                   worker[w].blob))
  /\ UNCHANGED <<request, image, main, disk, queue, runs, result>>

(* hash_file_sync opens the path, for check_local_blob or download_blob;   *)
(* a path that is gone by then is an error.                                *)
OpenToHash(w) ==
  LET f == link[worker[w].blob] IN
  /\ Running /\ worker[w].step \in {"open", "verify"}
  /\ Becomes(w, IF f = NoFile THEN At("failed", worker[w].blob)
                ELSE [worker[w] EXCEPT
                        !.step = IF @ = "open" THEN "hash" ELSE "rehash",
                        !.file = f, !.part = 1, !.good = TRUE])
  /\ UNCHANGED <<request, image, main, disk, queue, runs, result>>

(* One part after the other, while others may write. *)
HashPart(w) ==
  LET s == worker[w] IN
  /\ Running /\ s.step \in {"hash", "rehash"} /\ s.part <= Parts
  /\ Becomes(w, [s EXCEPT !.part = @ + 1,
                          !.good = @ /\ s.part \in content[s.file]
                                     /\ Junk \notin content[s.file]])
  /\ UNCHANGED <<request, image, main, disk, queue, runs, result>>

Hashed(w, step) == Running /\ worker[w].step = step /\ worker[w].part > Parts

(* Mutant: a file that matches is removed as well. *)
KeepNothing(w) ==
  /\ Hashed(w, "hash") /\ worker[w].good
  /\ link' = [link EXCEPT ![worker[w].blob] = NoFile]
  /\ Becomes(w, At("request", worker[w].blob))
  /\ UNCHANGED <<request, image, main, content, layout, queue, runs, result>>

KeepLocal(w) ==
  /\ Hashed(w, "hash") /\ worker[w].good
  /\ Becomes(w, Idle)
  /\ UNCHANGED <<request, image, main, disk, queue, runs, result>>

(* A file that does not match is removed, whichever file the path names    *)
(* now.                                                                    *)
RemoveLocal(w) ==
  /\ Hashed(w, "hash") /\ ~worker[w].good
  /\ link' = [link EXCEPT ![worker[w].blob] = NoFile]
  /\ Becomes(w, At("request", worker[w].blob))
  /\ UNCHANGED <<request, image, main, content, layout, queue, runs, result>>

----------------------------------------------------------------------------
(* download_blob. *)

InUse == Range(link) \cup {worker[t].file : t \in Tasks}

(* The file of the path, or a new one; which of them does not matter.      *)
FileFor(b) ==
  IF link[b] # NoFile THEN {link[b]}
  ELSE {f \in Files \ InUse : \A g \in Files \ InUse : f <= g}

(* The response has come: File::create truncates the file of the path, or  *)
(* makes a new one.                                                        *)
CreateFile(w) ==
  LET b == worker[w].blob IN
  /\ Running /\ worker[w].step = "request"
  /\ \E f \in FileFor(b) :
       /\ link' = [link EXCEPT ![b] = f]
       /\ content' = [content EXCEPT ![f] = {}]
       /\ Becomes(w, [At("write", b) EXCEPT !.file = f])
  /\ UNCHANGED <<request, image, main, layout, queue, runs, result>>

WritePart(w) ==
  LET s == worker[w] IN
  /\ Running /\ s.step = "write" /\ s.part <= Parts
  /\ \E bytes \in {s.part} \cup (IF "corrupt" \in Faults THEN {Junk} ELSE {}) :
       content' = [content EXCEPT ![s.file] = @ \cup {bytes}]
  /\ Becomes(w, [s EXCEPT !.part = @ + 1])
  /\ UNCHANGED <<request, image, main, link, layout, queue, runs, result>>

(* Everything is written and flushed; the path is hashed. *)
Written(w) ==
  /\ Running /\ worker[w].step = "write" /\ worker[w].part > Parts
  /\ Becomes(w, At("verify", worker[w].blob))
  /\ UNCHANGED <<request, image, main, disk, queue, runs, result>>

Verified(w) ==
  /\ Hashed(w, "rehash") /\ worker[w].good
  /\ Becomes(w, Idle)
  /\ UNCHANGED <<request, image, main, disk, queue, runs, result>>

(* The path is removed and the download is an error. *)
Mismatch(w) ==
  /\ Hashed(w, "rehash") /\ ~worker[w].good
  /\ link' = [link EXCEPT ![worker[w].blob] = NoFile]
  /\ Becomes(w, At("failed", worker[w].blob))
  /\ UNCHANGED <<request, image, main, content, layout, queue, runs, result>>

(* The request is refused, or the stream breaks off. *)
RequestFails(w) ==
  /\ "request" \in Faults
  /\ Running /\ worker[w].step \in {"request", "write"}
  /\ Becomes(w, At("failed", worker[w].blob))
  /\ UNCHANGED <<request, image, main, disk, queue, runs, result>>

Work(w) ==
  \/ w # Main /\ TakeLayer(w)
  \/ LookLocal(w) \/ OpenToHash(w) \/ HashPart(w) \/ KeepLocal(w)
  \/ RemoveLocal(w) \/ CreateFile(w) \/ WritePart(w) \/ Written(w) \/ Verified(w)
  \/ Mismatch(w)

----------------------------------------------------------------------------
(* The main task. *)

(* Every worker has returned Ok. *)
ReturnOk ==
  /\ MainAt("join") /\ queue = <<>>
  /\ \A w \in Workers : worker[w].step = "idle"
  /\ result' = "ok"
  /\ UNCHANGED <<request, image, main, disk, queue, worker, runs>>

(* Mutant: every worker's result is awaited for the first error. *)
ReturnNever ==
  /\ Running
  /\ \A t \in Tasks : worker[t].step = "failed"
  /\ result' = "error"
  /\ worker' = [t \in Tasks |-> Idle]
  /\ UNCHANGED <<request, image, main, disk, queue, runs>>

(* The main task's own error, or the first that a worker returns, ends the *)
(* run, and dropping the JoinSet aborts the others wherever they are.      *)
ReturnError ==
  /\ Running
  /\ \E t \in Tasks : worker[t].step = "failed"
  /\ result' = "error"
  /\ worker' = [t \in Tasks |-> Idle]
  /\ UNCHANGED <<request, image, main, disk, queue, runs>>

(* The process dies. *)
Crash ==
  /\ "crash" \in Faults
  /\ Running
  /\ result' = "error"
  /\ worker' = [t \in Tasks |-> Idle]
  /\ UNCHANGED <<request, image, main, disk, queue, runs>>

(* The user runs the command again on the same directory; the name may     *)
(* stand for something else by then.                                       *)
RunAgain ==
  /\ ~Running /\ runs < MaxRuns
  /\ runs' = runs + 1
  /\ answer' \in Answers /\ only' \in BOOLEAN
  /\ image' = Blank /\ MainGoes("resolve")
  /\ queue' = <<>>
  /\ result' = "none"
  /\ UNCHANGED <<disk, worker>>

Prepare ==
  \/ Resolve \/ ResolveIndex \/ NoPlatform \/ EmptyManifest \/ FillManifest
  \/ EmptyIndex \/ FillIndex \/ ReturnEarly \/ StartConfig \/ Spawn

MainTask == Prepare \/ ReturnOk \/ ReturnError

Next ==
  \/ MainTask \/ ResolveFails \/ Crash \/ RunAgain
  \/ \E t \in Tasks : Work(t) \/ RequestFails(t)

Spec == Init /\ [][Next]_vars

(* Every task is scheduled; nothing has to fail and nobody runs it again.  *)
FairSpec == Spec /\ WF_vars(MainTask) /\ \A t \in Tasks : WF_vars(Work(t))

----------------------------------------------------------------------------
(* Properties. *)

(* Every variable has its type. *)
TypeOK ==
  /\ answer \in Answers /\ only \in BOOLEAN
  /\ image \in Image
  /\ main \in {"resolve", "manifest", "fill", "index", "name", "parse", "config", "join"}
  /\ link \in [Blobs -> Files \cup {NoFile}]
  /\ content \in [Files -> SUBSET (Whole \cup {Junk})]
  /\ manifests \subseteq Image /\ named \subseteq Image
  /\ queue \in Seq(Blobs)
  /\ worker \in [Tasks ->
        [step : {"idle", "check", "open", "hash", "request", "write", "verify",
                 "rehash", "failed"},
         blob : Blobs \cup {NoBlob}, file : Files \cup {NoFile},
         part : 1..(Parts + 1), good : BOOLEAN]]
  /\ runs \in Nat
  /\ result \in {"none", "ok", "error"}

InPlace(b) == link[b] # NoFile /\ content[link[b]] = Whole
BlobsOf(m) == Range(m.layers) \cup ({m.config} \ {NoBlob})

(* A fetch that succeeds leaves a layout that can be read: index.json      *)
(* names a manifest that is there, of the platform that was asked for, and *)
(* unless only the manifest was (whose bytes nothing checks), there are    *)
(* layers, and every blob is in place and whole: whatever an earlier run   *)
(* left behind, wherever it died, and although workers with the same       *)
(* digest truncate and remove each other's file.                           *)
OkMeansComplete ==
  result = "ok" =>
    /\ named = {image} /\ image \in manifests
    /\ image = Blank \/ \E i \in DOMAIN answer.entries :
                          /\ answer.entries[i].image = image
                          /\ answer.index => answer.entries[i].platform = Wanted
    /\ ~only => image.layers # <<>> /\ \A b \in BlobsOf(image) : InPlace(b)

(* Layers that differ, and differ from the config. *)
Distinct ==
  /\ \A i, j \in DOMAIN image.layers : image.layers[i] = image.layers[j] => i = j
  /\ image.config \notin Range(image.layers)

(* With distinct digests two tasks never have one file open. *)
OneWriter ==
  Distinct => \A t, u \in Tasks :
    t # u /\ worker[t].file # NoFile => worker[t].file # worker[u].file

(* A blob once whole stays, over failures, crashes and later runs: it is   *)
(* what a resumed fetch resumes from.                                      *)
WholeStays ==
  [][Distinct => \A b \in Blobs : InPlace(b) => InPlace(b)']_vars

(* Every run ends, also one whose workers get into each other's way.       *)
RunEnds == result = "none" ~> result # "none"

----------------------------------------------------------------------------
(* Statements of the source, and of its users, that some schedule          *)
(* contradicts.                                                            *)

(* A local file that fails verification is left over from an earlier       *)
(* download, and is removed so that the blob is downloaded cleanly: with a *)
(* registry that serves every blob the fetch succeeds.                     *)
CleanDownloadsSucceed ==
  Faults = {} => ~(result = "error" /\ main = "join")

(* A layout that an earlier run has completed can be read while a later    *)
(* run works on it, and if that run dies.                                  *)
NamedStaysReadable == named \subseteq manifests
=============================================================================
