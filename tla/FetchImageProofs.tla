-------------------------- MODULE FetchImageProofs --------------------------
(***************************************************************************)
(* Proofs about FetchImage, for any answers of the registry, any number of *)
(* workers, parts and runs, and any faults.                                *)
(*                                                                         *)
(* Files are never shared between paths (Apart).  While the layers and the *)
(* config differ, no two tasks have the same blob, so that nobody else     *)
(* touches the path and the file a task works on (Sound).  When digests    *)
(* are equal tasks do get into each other's way; then whoever makes a blob *)
(* less than whole is pledged to it from then on (Good), and a run cannot  *)
(* succeed while a task has a pledge to keep.                              *)
(***************************************************************************)
EXTENDS FetchImage, FiniteSetTheorems, TLAPS

Early == {"resolve", "manifest", "fill", "index", "name", "parse"}
OpenSteps == {"write", "hash", "rehash"}

TaskStates ==
  [step : {"idle", "check", "open", "request", "verify", "failed"} \cup OpenSteps,
   blob : Blobs \cup {NoBlob}, file : Files \cup {NoFile},
   part : 1..(Parts + 1), good : BOOLEAN]

(* No two paths have one file. *)
Apart(paths) ==
  \A a, b \in Blobs : paths[a] = paths[b] /\ paths[a] # NoFile => a = b

(* A task at work has a blob, and has its file open in some steps. *)
Shape(s) ==
  /\ s.step # "idle" => s.blob \in Blobs
  /\ s.file # NoFile <=> s.step \in OpenSteps

(* What a task knows of the path and the file of its blob. *)
Sound(s, paths, data) ==
  /\ s.step = "request" => paths[s.blob] = NoFile
  /\ s.step \in OpenSteps => paths[s.blob] = s.file
  /\ s.step = "write" => \A n \in data[s.file] : n < s.part
  /\ s.step \in {"hash", "rehash"} /\ ~s.good => data[s.file] # Whole

Types ==
  /\ answer \in Answers
  /\ image \in Image
  /\ main \in Early \cup {"config", "join"}
  /\ link \in [Blobs -> Files \cup {NoFile}]
  /\ content \in [Files -> SUBSET (Whole \cup {Junk})]
  /\ queue \in Seq(Blobs)
  /\ worker \in [Tasks -> TaskStates]

(* Where tasks may be at work. *)
Places ==
  /\ main \in Early \/ ~Running => \A t \in Tasks : worker[t].step = "idle"
  /\ main = "config" => /\ \A w \in Workers : worker[w].step = "idle"
                        /\ worker[Main].step # "idle" => worker[Main].blob = image.config
  /\ main = "join" => worker[Main].step = "idle"

(* Nobody works on another's blob, or on one that is still queued. *)
OneEach ==
  /\ \A t, u \in Tasks :
       t # u /\ worker[t].step # "idle" /\ worker[u].step # "idle" =>
         worker[t].blob # worker[u].blob
  /\ main = "join" =>
       /\ \A i, j \in DOMAIN queue : queue[i] = queue[j] => i = j
       /\ \A t \in Tasks, i \in DOMAIN queue :
            worker[t].step # "idle" => worker[t].blob # queue[i]

IInv ==
  /\ Types /\ Places
  /\ Apart(link)
  /\ \A t \in Tasks : Shape(worker[t])
  /\ Distinct => OneEach /\ \A t \in Tasks : Sound(worker[t], link, content)

USE FetchAssumption

----------------------------------------------------------------------------

LEMMA Sizes == Files \subseteq Nat \ {NoFile} /\ Cardinality(Blobs) \in Nat
<1>1. Cardinality(Blobs) \in Nat /\ Cardinality(Workers) \in Nat
  BY FS_CardinalityType
<1> QED BY <1>1 DEF Files, NoFile

(* There are enough files for every blob to have its own. *)
LEMMA EnoughFiles == \E l \in [Blobs -> Files] : IsInjective(l)
<1> DEFINE n == Cardinality(Blobs)
<1>1. n \in Nat /\ Cardinality(Workers) \in Nat /\ ExistsBijection(1..n, Blobs)
  BY FS_CardinalityType
<1>2. PICK g \in Bijection(1..n, Blobs) : TRUE
  BY <1>1 DEF ExistsBijection
<1>3. g \in [1..n -> Blobs] /\ \A b \in Blobs : \E i \in 1..n : g[i] = b
  BY <1>2 DEF Bijection, Injection, Surjection
<1> DEFINE l == [b \in Blobs |-> CHOOSE i \in 1..n : g[i] = b]
<1>4. \A b \in Blobs : l[b] \in 1..n /\ g[l[b]] = b
  BY <1>3
<1>5. 1..n \subseteq Files
  BY <1>1 DEF Files
<1>6. l \in [Blobs -> Files]
  BY <1>4, <1>5
<1>7. IsInjective(l)
  BY <1>4 DEF IsInjective
<1> QED BY <1>6, <1>7

LEMMA IdleIsState == Idle \in TaskStates /\ Idle.step = "idle" /\ Shape(Idle)
  BY DEF Idle, At, TaskStates, Shape, OpenSteps, NoFile

(* A task that has no file open. *)
LEMMA AtIsState ==
  ASSUME NEW b \in Blobs, NEW step \in {"check", "open", "request", "verify", "failed"}
  PROVE  /\ At(step, b) \in TaskStates /\ Shape(At(step, b))
         /\ At(step, b).step = step /\ At(step, b).blob = b
  BY DEF At, TaskStates, Shape, OpenSteps, NoFile

LEMMA Initially == Init => IInv
<1> SUFFICES ASSUME Init PROVE IInv
  OBVIOUS
<1>1. answer \in Answers /\ image \in Image /\ main \in Early /\ queue \in Seq(Blobs)
  BY DEF Init, Image, Blank, Early
<1>2. link \in [Blobs -> Files \cup {NoFile}] /\ Apart(link)
  <2>1. CASE link = [b \in Blobs |-> NoFile]
    BY <2>1 DEF Apart
  <2>2. CASE link = CHOOSE l \in [Blobs -> Files] : IsInjective(l)
    <3>1. link \in [Blobs -> Files] /\ IsInjective(link)
      BY <2>2, EnoughFiles
    <3> QED BY <3>1 DEF Apart, IsInjective
  <2> QED BY <2>1, <2>2 DEF Init
<1>3. content \in [Files -> SUBSET (Whole \cup {Junk})]
  BY DEF Init, Whole
<1>4. worker = [t \in Tasks |-> Idle]
  BY DEF Init
<1>5. /\ worker \in [Tasks -> TaskStates]
      /\ \A t \in Tasks : worker[t].step = "idle" /\ Shape(worker[t])
  BY <1>4, IdleIsState
<1>6. \A t \in Tasks : Sound(worker[t], link, content)
  BY <1>5 DEF Sound, OpenSteps
<1>7. Places /\ OneEach
  BY <1>1, <1>5 DEF Places, OneEach, Early, Tasks
<1> QED BY <1>1, <1>2, <1>3, <1>5, <1>6, <1>7 DEF IInv, Types

----------------------------------------------------------------------------
(* Steps. *)

(* Nothing but the main task's own place changes while no task is at work. *)
LEMMA MainMoves ==
  ASSUME IInv, main \in Early \/ ~Running,
         answer' \in Answers, image' \in Image, main' \in Early, UNCHANGED <<link, content, worker>>,
         queue' \in Seq(Blobs)
  PROVE  IInv'
<1>1. \A t \in Tasks : worker'[t].step = "idle"
  BY DEF IInv, Places
<1>2. Types' /\ Apart(link') /\ \A t \in Tasks : Shape(worker'[t])
  BY DEF IInv, Types
<1>3. Places' /\ OneEach'
  BY <1>1 DEF Places, OneEach, Early, Tasks
<1>4. \A t \in Tasks : Sound(worker'[t], link', content')
  BY <1>1 DEF Sound, OpenSteps
<1> QED BY <1>2, <1>3, <1>4 DEF IInv

(* A run ends, or has ended: every task is dropped. *)
LEMMA AllDropped ==
  ASSUME IInv, worker' = [t \in Tasks |-> Idle],
         UNCHANGED <<answer, image, main, link, content, queue>>
  PROVE  IInv'
<1>1. \A t \in Tasks : worker'[t] = Idle /\ worker'[t].step = "idle"
  BY IdleIsState
<1>2. Types' /\ Apart(link') /\ \A t \in Tasks : Shape(worker'[t])
  BY <1>1, IdleIsState DEF IInv, Types
<1>3. Places' /\ (Distinct' => OneEach')
  BY <1>1 DEF IInv, Places, OneEach, Distinct, Tasks
<1>4. \A t \in Tasks : Sound(worker'[t], link', content')
  BY <1>1 DEF Sound, OpenSteps
<1> QED BY <1>2, <1>3, <1>4 DEF IInv

(* A task at work goes on with its blob, or is done with it: it may change *)
(* its own path and the file behind it, and nobody else's.                 *)
LEMMA TaskMoves ==
  ASSUME IInv, Running, NEW t \in Tasks, worker[t].step # "idle",
         NEW s \in TaskStates, Shape(s), s.step # "idle" => s.blob = worker[t].blob,
         worker' = [worker EXCEPT ![t] = s], UNCHANGED <<answer, image, main, queue, result>>,
         link' \in [Blobs -> Files \cup {NoFile}], Apart(link'),
         content' \in [Files -> SUBSET (Whole \cup {Junk})],
         Distinct => /\ Sound(s, link', content')
                     /\ \A b \in Blobs : b # worker[t].blob =>
                          /\ link'[b] = link[b]
                          /\ link[b] # NoFile => content'[link[b]] = content[link[b]]
  PROVE  IInv'
<1>1. \A u \in Tasks : worker'[u] = IF u = t THEN s ELSE worker[u]
  BY DEF IInv, Types
<1>2. Types' /\ \A u \in Tasks : Shape(worker'[u])
  BY <1>1 DEF IInv, Types
<1>3. main \in {"config", "join"} /\ (main = "join" => t # Main) /\ (main = "config" => t = Main)
  BY DEF IInv, Types, Places, Tasks
<1>4. Places'
  BY <1>1, <1>3 DEF IInv, Places, Running, Early, Tasks
<1>5. ASSUME Distinct PROVE OneEach'
  BY <1>1, <1>5 DEF IInv, OneEach
<1>6. ASSUME Distinct, NEW u \in Tasks PROVE Sound(worker'[u], link', content')
  <2>1. CASE u = t
    BY <2>1, <1>1, <1>6
  <2>2. CASE u # t /\ worker[u].step = "idle"
    BY <2>2, <1>1 DEF Sound, OpenSteps
  <2>3. CASE u # t /\ worker[u].step # "idle"
    <3>1. worker[u].blob \in Blobs /\ worker[u].blob # worker[t].blob
      BY <2>3, <1>6 DEF IInv, OneEach, Shape
    <3>2. Sound(worker[u], link, content) /\ Shape(worker[u])
      BY <1>6 DEF IInv
    <3>3. link'[worker[u].blob] = link[worker[u].blob]
      BY <3>1, <1>6
    <3>4. worker[u].step \in OpenSteps =>
            content'[worker[u].file] = content[worker[u].file]
      BY <3>1, <3>2, <1>6 DEF Sound, Shape
    <3> QED BY <2>3, <1>1, <3>2, <3>3, <3>4 DEF Sound, OpenSteps
  <2> QED BY <2>1, <2>2, <2>3
<1>7. Distinct' = Distinct
  BY DEF Distinct
<1> QED BY <1>2, <1>4, <1>5, <1>6, <1>7 DEF IInv

(* A task moves on without touching the directory. *)
LEMMA TaskLooks ==
  ASSUME IInv, Running, NEW t \in Tasks, worker[t].step # "idle",
         NEW s \in TaskStates, Shape(s), s.step # "idle" => s.blob = worker[t].blob,
         worker' = [worker EXCEPT ![t] = s],
         UNCHANGED <<answer, image, main, queue, result, link, content>>,
         Distinct => Sound(s, link, content)
  PROVE  IInv'
  BY TaskMoves DEF IInv, Types

----------------------------------------------------------------------------
(* The main task, and the run. *)

LEMMA AnswersAreImages ==
  ASSUME NEW a \in Answers, NEW i \in DOMAIN a.entries
  PROVE  a.entries[i].image \in Image
<1> DEFINE Entries == [platform : STRING, image : Image]
<1>1. a.entries \in Seq(Entries)
  OBVIOUS
<1>2. a.entries[i] \in Entries
  <2> HIDE DEF Entries
  <2> QED BY <1>1
<1> QED BY <1>2

LEMMA PrepareKeeps ==
  ASSUME IInv, Prepare \/ ResolveFails
  PROVE  IInv'
<1> USE DEF MainAt, MainGoes, Early
<1>1. Blank \in Image /\ queue \in Seq(Blobs)
  BY DEF Blank, Image, IInv, Types
<1>2. CASE Resolve \/ ResolveIndex \/ ResolveFails
  <2>1. image' \in Image
    BY <1>1, <1>2, AnswersAreImages DEF Resolve, ResolveIndex, ResolveFails, SelectPlatform, IInv, Types
  <2>2. main \in Early /\ main' \in Early /\ UNCHANGED <<answer, link, content, worker, queue>>
    BY <1>2 DEF Resolve, ResolveIndex, ResolveFails, disk, request
  <2> QED BY <1>1, <2>1, <2>2, MainMoves DEF IInv, Types
<1>3. CASE NoPlatform \/ EmptyManifest \/ FillManifest \/ EmptyIndex \/ FillIndex \/ ReturnEarly
  <2>1. /\ main \in Early /\ main' \in Early
        /\ UNCHANGED <<answer, image, link, content, worker, queue>>
    BY <1>3 DEF NoPlatform, EmptyManifest, FillManifest, EmptyIndex, FillIndex, ReturnEarly, disk, request
  <2> QED BY <1>1, <2>1, MainMoves DEF IInv, Types
<1>4. CASE StartConfig
  <2> DEFINE s == At("check", image.config)
  <2>1. /\ main = "parse" /\ main' = "config"
        /\ UNCHANGED <<answer, image, link, content, queue, result>> /\ Running
        /\ worker' = IF image.config = NoBlob THEN worker ELSE [worker EXCEPT ![Main] = s]
    BY <1>4 DEF StartConfig, disk, request
  <2>2. image.config # NoBlob => image.config \in Blobs
    BY DEF IInv, Types, Image
  <2>3. image.config # NoBlob => /\ s \in TaskStates /\ Shape(s)
                                 /\ s.blob = image.config /\ s.step = "check"
    BY <2>2, AtIsState
  <2>4. \A t \in Tasks : /\ worker[t].step = "idle"
                         /\ worker'[t] = IF t = Main /\ image.config # NoBlob
                                         THEN s ELSE worker[t]
    BY <2>1 DEF IInv, Types, Places
  <2> HIDE DEF s
  <2>5. Types' /\ Apart(link') /\ \A t \in Tasks : Shape(worker'[t])
    BY <2>1, <2>3, <2>4 DEF IInv, Types, Tasks
  <2>6. Places' /\ OneEach'
    BY <2>1, <2>3, <2>4 DEF Places, OneEach, Running, Tasks
  <2>7. \A t \in Tasks : Sound(worker'[t], link', content')
    BY <2>3, <2>4 DEF Sound, OpenSteps
  <2> QED BY <2>5, <2>6, <2>7 DEF IInv
<1>5. CASE Spawn
  <2>1. /\ main = "config" /\ main' = "join" /\ worker[Main].step = "idle"
        /\ UNCHANGED <<answer, image, link, content, worker, result>>
        /\ queue' = WorkQueue(image.layers)
    BY <1>5 DEF Spawn, disk, request
  <2>2. image.layers \in Seq(Blobs) /\ Len(image.layers) \in Nat
    BY DEF IInv, Types, Image
  <2>3. /\ queue' = [i \in 1..Len(image.layers) |-> image.layers[Len(image.layers) + 1 - i]]
        /\ queue' \in Seq(Blobs)
    <3>1. \A i \in 1..Len(image.layers) : image.layers[Len(image.layers) + 1 - i] \in Blobs
      BY <2>2
    <3>2. queue' = [i \in 1..Len(image.layers) |-> image.layers[Len(image.layers) + 1 - i]]
      BY <2>1 DEF WorkQueue
    <3>3. queue' \in [1..Len(image.layers) -> Blobs]
      BY <3>1, <3>2
    <3>4. queue' \in Seq(Blobs)
      BY <2>2, <3>3
    <3> QED BY <3>2, <3>4
  <2>4. \A t \in Tasks : worker'[t].step = "idle"
    BY <2>1 DEF IInv, Places, Tasks
  <2>5. Distinct => \A i, j \in DOMAIN queue' : queue'[i] = queue'[j] => i = j
    BY <2>2, <2>3 DEF Distinct
  <2>6. Types' /\ Apart(link') /\ \A t \in Tasks : Shape(worker'[t])
    BY <2>1, <2>3 DEF IInv, Types
  <2>7. Places' /\ (Distinct' => OneEach')
    BY <2>1, <2>4, <2>5 DEF Places, OneEach, Distinct, Tasks
  <2>8. \A t \in Tasks : Sound(worker'[t], link', content')
    BY <2>4 DEF Sound, OpenSteps
  <2> QED BY <2>6, <2>7, <2>8 DEF IInv
<1> QED BY <1>2, <1>3, <1>4, <1>5 DEF Prepare

LEMMA RunKeeps ==
  ASSUME IInv, ReturnOk \/ ReturnError \/ Crash \/ RunAgain
  PROVE  IInv'
<1>1. CASE ReturnOk
  <2>1. main = "join" /\ UNCHANGED <<answer, image, main, link, content, queue, worker>>
    BY <1>1 DEF ReturnOk, MainAt, disk, request
  <2>2. \A t \in Tasks : worker[t].step = "idle"
    BY <1>1, <2>1 DEF ReturnOk, IInv, Places, Tasks
  <2> QED BY <2>1, <2>2 DEF IInv, Types, Places, OneEach, Distinct
<1>2. CASE ReturnError \/ Crash
  BY <1>2, AllDropped DEF ReturnError, Crash, disk, request
<1>3. CASE RunAgain
  <2>1. /\ ~Running /\ answer' \in Answers /\ image' = Blank /\ main' = "resolve" /\ queue' = <<>>
        /\ UNCHANGED <<link, content, worker>>
    BY <1>3 DEF RunAgain, MainGoes, disk, request
  <2>2. Blank \in Image
    BY DEF Blank, Image
  <2> QED BY <2>1, <2>2, MainMoves DEF Early
<1> QED BY <1>1, <1>2, <1>3

----------------------------------------------------------------------------
(* The tasks. *)

(* The layer is nobody's: neither queued again nor in work. *)
LEMMA TakeKeeps ==
  ASSUME IInv, NEW w \in Workers, TakeLayer(w)
  PROVE  IInv'
<1> DEFINE s == At("check", Head(queue))
<1>1. /\ main = "join" /\ Running /\ queue # <<>> /\ worker[w].step = "idle"
      /\ worker' = [worker EXCEPT ![w] = s] /\ queue' = Tail(queue)
      /\ UNCHANGED <<answer, image, main, link, content, result>>
  BY DEF TakeLayer, MainAt, Becomes, disk, request
<1>2. /\ queue \in Seq(Blobs) /\ Head(queue) \in Blobs /\ queue' \in Seq(Blobs)
      /\ Head(queue) = queue[1] /\ 1 \in DOMAIN queue
      /\ \A i \in DOMAIN queue' : queue'[i] = queue[i + 1] /\ i + 1 \in DOMAIN queue /\ i + 1 # 1
  BY <1>1 DEF IInv, Types
<1>3. s \in TaskStates /\ Shape(s) /\ s.step = "check" /\ s.blob = queue[1]
  BY <1>2, AtIsState
<1>4. w \in Tasks /\ \A u \in Tasks : worker'[u] = IF u = w THEN s ELSE worker[u]
  BY <1>1 DEF IInv, Types, Tasks
<1> HIDE DEF s
<1>5. Types' /\ Apart(link') /\ \A t \in Tasks : Shape(worker'[t])
  BY <1>1, <1>2, <1>3, <1>4 DEF IInv, Types
<1>6. Places'
  BY <1>1, <1>4 DEF IInv, Places, Running, Early, Tasks
<1>7. ASSUME Distinct PROVE OneEach'
  <2>1. \A t, u \in Tasks :
          t # u /\ worker'[t].step # "idle" /\ worker'[u].step # "idle" =>
            worker'[t].blob # worker'[u].blob
    BY <1>1, <1>2, <1>3, <1>4, <1>7 DEF IInv, OneEach
  <2>2. \A i, j \in DOMAIN queue' : queue'[i] = queue'[j] => i = j
    <3> SUFFICES ASSUME NEW i \in DOMAIN queue', NEW j \in DOMAIN queue', queue'[i] = queue'[j]
                 PROVE  i = j
      OBVIOUS
    <3>1. i + 1 = j + 1
      BY <1>1, <1>2, <1>7 DEF IInv, OneEach
    <3>2. i \in Int /\ j \in Int
      BY <1>2
    <3> QED BY <3>1, <3>2
  <2>3. \A t \in Tasks, i \in DOMAIN queue' :
          worker'[t].step # "idle" => worker'[t].blob # queue'[i]
    BY <1>1, <1>2, <1>3, <1>4, <1>7 DEF IInv, OneEach
  <2> QED BY <2>1, <2>2, <2>3 DEF OneEach
<1>8. ASSUME Distinct, NEW u \in Tasks PROVE Sound(worker'[u], link', content')
  <2>1. CASE u = w
    BY <2>1, <1>3, <1>4 DEF Sound, OpenSteps
  <2>2. CASE u # w
    BY <2>2, <1>1, <1>4, <1>8 DEF IInv
  <2> QED BY <2>1, <2>2
<1>9. Distinct' = Distinct
  BY <1>1 DEF Distinct
<1> QED BY <1>5, <1>6, <1>7, <1>8, <1>9 DEF IInv

(* What is read tells whether the file is whole, since nobody writes it. *)
LEMMA LooksKeep ==
  ASSUME IInv, NEW t \in Tasks,
         \/ LookLocal(t) \/ OpenToHash(t) \/ HashPart(t) \/ KeepLocal(t)
         \/ Written(t) \/ Verified(t) \/ RequestFails(t)
  PROVE  IInv'
<1> DEFINE old == worker[t]
<1>1. /\ Running /\ UNCHANGED <<answer, image, main, queue, result, link, content>>
      /\ old.step # "idle" /\ old \in TaskStates /\ old.blob \in Blobs /\ Shape(old)
      /\ Distinct => Sound(old, link, content)
  BY DEF LookLocal, OpenToHash, HashPart, KeepLocal, Written, Verified, RequestFails,
         Hashed, disk, request, IInv, Types, Shape
<1>2. /\ link \in [Blobs -> Files \cup {NoFile}]
      /\ content \in [Files -> SUBSET (Whole \cup {Junk})]
  BY DEF IInv, Types
<1>3. ASSUME NEW step \in {"open", "verify", "failed"}, Becomes(t, At(step, old.blob))
      PROVE  IInv'
  <2>1. Sound(At(step, old.blob), link, content)
    BY <1>1, AtIsState DEF Sound, OpenSteps
  <2> QED BY <1>1, <1>3, <2>1, AtIsState, TaskLooks DEF Becomes
<1>4. ASSUME Becomes(t, Idle) PROVE IInv'
  <2>1. Sound(Idle, link, content)
    BY IdleIsState DEF Sound, OpenSteps
  <2> QED BY <1>1, <1>4, <2>1, IdleIsState, TaskLooks DEF Becomes
<1>5. CASE KeepLocal(t) \/ Verified(t)
  BY <1>4, <1>5 DEF KeepLocal, Verified
<1>6. CASE Written(t) \/ RequestFails(t)
  BY <1>3, <1>6 DEF Written, RequestFails
<1>7. CASE LookLocal(t)
  <2>1. CASE link[old.blob] # NoFile
    BY <2>1, <1>3, <1>7 DEF LookLocal
  <2>2. CASE link[old.blob] = NoFile
    <3> DEFINE s == At("request", old.blob)
    <3>1. s \in TaskStates /\ Shape(s) /\ s.blob = old.blob /\ s.step = "request"
      BY <1>1, AtIsState
    <3>2. Sound(s, link, content)
      BY <2>2, <3>1 DEF Sound, OpenSteps
    <3>3. worker' = [worker EXCEPT ![t] = s]
      BY <2>2, <1>7 DEF LookLocal, Becomes
    <3> HIDE DEF s
    <3> QED BY <1>1, <3>1, <3>2, <3>3, TaskLooks
  <2> QED BY <2>1, <2>2
<1>8. CASE OpenToHash(t)
  <2>1. CASE link[old.blob] = NoFile
    BY <2>1, <1>3, <1>8 DEF OpenToHash
  <2>2. CASE link[old.blob] # NoFile
    <3> DEFINE step == IF old.step = "open" THEN "hash" ELSE "rehash"
               s == [old EXCEPT !.step = step, !.file = link[old.blob],
                                !.part = 1, !.good = TRUE]
    <3>1. worker' = [worker EXCEPT ![t] = s]
      BY <2>2, <1>8 DEF OpenToHash, Becomes
    <3>2. step \in {"hash", "rehash"} /\ step \in OpenSteps /\ link[old.blob] \in Files
      BY <1>1, <1>2, <2>2 DEF OpenSteps
    <3>3. 1 \in 1..(Parts + 1) /\ TRUE \in BOOLEAN
      OBVIOUS
    <3> HIDE DEF step
    <3>5. /\ s \in TaskStates /\ s.step = step /\ s.blob = old.blob
          /\ s.file = link[old.blob] /\ s.part = 1 /\ s.good = TRUE
      BY <1>1, <3>2, <3>3 DEF TaskStates
    <3> HIDE DEF s
    <3>4. Shape(s) /\ Sound(s, link, content)
      BY <1>1, <2>2, <3>2, <3>5 DEF Shape, Sound, OpenSteps
    <3> QED BY <1>1, <3>1, <3>4, <3>5, TaskLooks
  <2> QED BY <2>1, <2>2
<1>9. CASE HashPart(t)
  <2> DEFINE good == /\ old.good /\ old.part \in content[old.file]
                     /\ Junk \notin content[old.file]
             s == [old EXCEPT !.part = old.part + 1, !.good = good]
  <2>1. /\ worker' = [worker EXCEPT ![t] = s]
        /\ old.step \in {"hash", "rehash"} /\ old.part <= Parts
    BY <1>9 DEF HashPart, Becomes
  <2>6. good \in BOOLEAN /\ old.part + 1 \in 1..(Parts + 1) /\ old.step \in OpenSteps
    BY <1>1, <2>1 DEF TaskStates, OpenSteps
  <2>2. /\ s.step = old.step /\ s.blob = old.blob /\ s.file = old.file /\ s.good = good
        /\ s \in TaskStates
    <3> HIDE DEF good
    <3> QED BY <1>1, <2>6 DEF TaskStates
  <2>3. old.part \in Whole /\ Junk \notin Whole
    BY <1>1, <2>1 DEF TaskStates, Whole, Junk
  <2>4. ~good => ~old.good \/ content[old.file] # Whole
    BY <2>3
  <2> HIDE DEF s, good
  <2>5. Shape(s) /\ (Distinct => Sound(s, link, content))
    BY <1>1, <2>1, <2>2, <2>4 DEF Shape, Sound, OpenSteps
  <2> QED BY <1>1, <2>1, <2>2, <2>5, TaskLooks
<1> QED BY <1>5, <1>6, <1>7, <1>8, <1>9

(* The blobs that are whole stay so in a step. *)
Kept == \A b \in Blobs : InPlace(b) => InPlace(b)'

(* A path is removed by the task whose blob it is, which has seen that the *)
(* file does not match.                                                    *)
LEMMA RemovalKeeps ==
  ASSUME IInv, NEW t \in Tasks, RemoveLocal(t) \/ Mismatch(t)
  PROVE  IInv' /\ (Distinct => Kept)
<1> DEFINE b == worker[t].blob
           s == At(IF worker[t].step = "hash" THEN "request" ELSE "failed", b)
<1>1. /\ Running /\ UNCHANGED <<answer, image, main, queue, result, content>>
      /\ worker[t].step \in {"hash", "rehash"} /\ ~worker[t].good
      /\ link' = [link EXCEPT ![b] = NoFile] /\ worker' = [worker EXCEPT ![t] = s]
  BY DEF RemoveLocal, Mismatch, Hashed, Becomes, layout, request
<1>2. /\ link \in [Blobs -> Files \cup {NoFile}] /\ Apart(link)
      /\ content \in [Files -> SUBSET (Whole \cup {Junk})]
      /\ b \in Blobs /\ (Distinct => Sound(worker[t], link, content))
  BY <1>1 DEF IInv, Types, Shape
<1>3. /\ s \in TaskStates /\ Shape(s) /\ s.blob = b /\ s.step \in {"request", "failed"}
  BY <1>2, AtIsState
<1>4. /\ link' \in [Blobs -> Files \cup {NoFile}] /\ link'[b] = NoFile
      /\ \A a \in Blobs : a # b => link'[a] = link[a]
  BY <1>1, <1>2
<1> HIDE DEF s
<1>5. Apart(link')
  BY <1>2, <1>4 DEF Apart
<1>6. Sound(s, link', content')
  BY <1>3, <1>4 DEF Sound, OpenSteps
<1>7. IInv'
  <2> HIDE DEF b
  <2> QED BY <1>1, <1>2, <1>3, <1>4, <1>5, <1>6, TaskMoves DEF b
<1>8. ASSUME Distinct PROVE Kept
  <2>1. ~InPlace(b)
    BY <1>1, <1>2, <1>8 DEF Sound, OpenSteps, InPlace
  <2> QED BY <1>1, <1>4, <2>1 DEF Kept, InPlace
<1> QED BY <1>7, <1>8

(* A file is created for a path that has none, or else emptied. *)
LEMMA CreationKeeps ==
  ASSUME IInv, NEW t \in Tasks, CreateFile(t)
  PROVE  IInv' /\ (Distinct => Kept)
<1> DEFINE b == worker[t].blob
<1>1. PICK f \in FileFor(b) :
        /\ link' = [link EXCEPT ![b] = f] /\ content' = [content EXCEPT ![f] = {}]
        /\ worker' = [worker EXCEPT ![t] = [At("write", b) EXCEPT !.file = f]]
  BY DEF CreateFile, Becomes
<1> DEFINE s == [At("write", b) EXCEPT !.file = f]
<1>2. /\ Running /\ UNCHANGED <<answer, image, main, queue, result>>
      /\ worker[t].step = "request"
  BY DEF CreateFile, layout, request
<1>3. /\ link \in [Blobs -> Files \cup {NoFile}] /\ Apart(link)
      /\ content \in [Files -> SUBSET (Whole \cup {Junk})]
      /\ b \in Blobs /\ (Distinct => link[b] = NoFile)
  BY <1>2 DEF IInv, Types, Shape, Sound
<1>4. /\ f \in Files /\ f # NoFile
      /\ link[b] = NoFile => \A a \in Blobs : link[a] # f
  <2>1. CASE link[b] # NoFile
    BY <2>1, <1>1, <1>3 DEF FileFor
  <2>2. CASE link[b] = NoFile
    <3>1. f \in Files \ InUse
      BY <2>2, <1>1 DEF FileFor
    <3> QED BY <3>1, <1>3, Sizes DEF InUse, Range
  <2> QED BY <2>1, <2>2
<1>5. link[b] # NoFile => f = link[b]
  BY <1>1 DEF FileFor
<1>6. /\ s \in TaskStates /\ s.blob = b /\ s.step = "write" /\ s.file = f
  <2> HIDE DEF b
  <2>1. At("write", b) \in TaskStates
    BY <1>3 DEF At, TaskStates, OpenSteps
  <2>2. At("write", b).blob = b /\ At("write", b).step = "write"
    BY DEF At
  <2> QED BY <1>4, <2>1, <2>2 DEF TaskStates
<1>7. /\ link' \in [Blobs -> Files \cup {NoFile}] /\ link'[b] = f
      /\ \A a \in Blobs : a # b => link'[a] = link[a]
      /\ content' \in [Files -> SUBSET (Whole \cup {Junk})] /\ content'[f] = {}
      /\ \A g \in Files : g # f => content'[g] = content[g]
  BY <1>1, <1>3, <1>4
<1> HIDE DEF s
<1>8. Apart(link')
  BY <1>3, <1>4, <1>5, <1>7 DEF Apart
<1>9. Shape(s) /\ Sound(s, link', content')
  BY <1>3, <1>4, <1>6, <1>7 DEF Shape, Sound, OpenSteps
<1>10. ASSUME Distinct, NEW a \in Blobs, a # b
       PROVE  /\ link'[a] = link[a]
              /\ link[a] # NoFile => content'[link[a]] = content[link[a]]
  BY <1>3, <1>4, <1>7, <1>10
<1>11. IInv'
  <2>1. worker' = [worker EXCEPT ![t] = s]
    BY <1>1 DEF s
  <2> HIDE DEF b
  <2> QED BY <1>2, <1>6, <1>7, <1>8, <1>9, <1>10, <2>1, TaskMoves DEF b
<1>12. ASSUME Distinct PROVE Kept
  BY <1>3, <1>10, <1>12 DEF Kept, InPlace
<1> QED BY <1>11, <1>12

(* The file that is written is the path's, and is not whole before. *)
LEMMA WritingKeeps ==
  ASSUME IInv, NEW t \in Tasks, WritePart(t)
  PROVE  IInv' /\ (Distinct => Kept)
<1> DEFINE old == worker[t]
           b == old.blob
           f == old.file
           s == [old EXCEPT !.part = old.part + 1]
<1>1. PICK n \in {old.part, Junk} : content' = [content EXCEPT ![f] = content[f] \cup {n}]
  BY DEF WritePart
<1>2. /\ Running /\ UNCHANGED <<answer, image, main, queue, result, link>>
      /\ old.step = "write" /\ old.part <= Parts /\ worker' = [worker EXCEPT ![t] = s]
  BY DEF WritePart, Becomes, layout, request
<1>3. /\ link \in [Blobs -> Files \cup {NoFile}] /\ Apart(link)
      /\ content \in [Files -> SUBSET (Whole \cup {Junk})]
      /\ b \in Blobs /\ f \in Files /\ f # NoFile /\ old \in TaskStates /\ Shape(old)
      /\ Distinct => link[b] = f /\ \A m \in content[f] : m < old.part
  BY <1>2 DEF IInv, Types, Shape, Sound, OpenSteps, TaskStates
<1>4. old.part \in Whole /\ old.part + 1 \in 1..(Parts + 1)
  BY <1>2, <1>3 DEF TaskStates, Whole
<1>5. s \in TaskStates /\ s.blob = b /\ s.step = "write" /\ s.file = f /\ s.part = old.part + 1
  BY <1>2, <1>3, <1>4 DEF TaskStates
<1> HIDE DEF s
<1>6. /\ content' \in [Files -> SUBSET (Whole \cup {Junk})] /\ content'[f] = content[f] \cup {n}
      /\ \A g \in Files : g # f => content'[g] = content[g]
  BY <1>1, <1>3, <1>4
<1>7. \A m \in content[f] : m \in Int
  BY <1>3 DEF Whole, Junk
<1>8. Distinct => Sound(s, link', content')
  <2>1. n < old.part + 1 /\ old.part \in Int
    BY <1>1, <1>4 DEF Whole, Junk
  <2>2. Distinct => \A m \in content'[f] : m < s.part
    BY <1>3, <1>5, <1>6, <1>7, <2>1
  <2> QED BY <1>2, <1>3, <1>5, <2>2 DEF Sound, OpenSteps
<1>9. ASSUME Distinct, NEW a \in Blobs, a # b
      PROVE  link[a] # NoFile => content'[link[a]] = content[link[a]]
  BY <1>3, <1>6, <1>9 DEF Apart
<1>10. IInv'
  <2>1. Shape(s)
    BY <1>3, <1>5 DEF Shape, OpenSteps
  <2> HIDE DEF b, f, old
  <2> QED BY <1>2, <1>3, <1>5, <1>6, <1>8, <1>9, <2>1, TaskMoves DEF b, f, old
<1>11. ASSUME Distinct PROVE Kept
  <2>1. old.part \notin content[f]
    BY <1>3, <1>4, <1>11 DEF Whole
  <2>2. ~InPlace(b)
    BY <1>3, <1>4, <1>11, <2>1 DEF InPlace
  <2> QED BY <1>2, <1>9, <1>11, <2>2 DEF Kept, InPlace
<1> QED BY <1>10, <1>11

----------------------------------------------------------------------------

LEMMA StepKeeps ==
  ASSUME IInv, [Next]_vars
  PROVE  IInv' /\ (Distinct => Kept)
<1>1. ASSUME UNCHANGED <<link, content>> PROVE Kept
  BY <1>1 DEF Kept, InPlace
<1>2. CASE MainTask \/ ResolveFails \/ Crash \/ RunAgain
  <2>1. IInv'
    BY <1>2, PrepareKeeps, RunKeeps DEF MainTask
  <2>2. UNCHANGED <<link, content>>
    BY <1>2 DEF MainTask, Prepare, Resolve, ResolveIndex, NoPlatform, EmptyManifest,
         FillManifest, EmptyIndex, FillIndex, ReturnEarly, StartConfig, Spawn, ReturnOk,
         ReturnError, ResolveFails, Crash, RunAgain, disk
  <2> QED BY <1>1, <2>1, <2>2
<1>3. ASSUME NEW t \in Tasks, Work(t) \/ RequestFails(t)
      PROVE  IInv' /\ (Distinct => Kept)
  <2>1. CASE t # Main /\ TakeLayer(t)
    BY <1>1, <2>1, TakeKeeps DEF Tasks, TakeLayer, disk
  <2>2. CASE \/ LookLocal(t) \/ OpenToHash(t) \/ HashPart(t) \/ KeepLocal(t)
             \/ Written(t) \/ Verified(t) \/ RequestFails(t)
    BY <1>1, <2>2, LooksKeep DEF LookLocal, OpenToHash, HashPart, KeepLocal, Written,
         Verified, RequestFails, disk
  <2>3. CASE RemoveLocal(t) \/ Mismatch(t)
    BY <2>3, RemovalKeeps
  <2>4. CASE CreateFile(t)
    BY <2>4, CreationKeeps
  <2>5. CASE WritePart(t)
    BY <2>5, WritingKeeps
  <2> QED BY <1>3, <2>1, <2>2, <2>3, <2>4, <2>5 DEF Work
<1>4. CASE UNCHANGED vars
  <2>1. /\ UNCHANGED <<answer, image, main, link, content, queue, worker, result>>
    BY <1>4 DEF vars, disk, request
  <2> QED BY <1>1, <2>1 DEF IInv, Types, Places, OneEach, Distinct, Running
<1> QED BY <1>2, <1>3, <1>4 DEF Next

LEMMA Invariance == Spec => []IInv
<1>1. IInv /\ [Next]_vars => IInv'
  BY StepKeeps
<1> QED BY Initially, <1>1, PTL DEF Spec

(* Whatever the registry serves, however many workers, failures and runs:  *)
(* while the layers and the config differ, no two tasks of a run ever have *)
(* one file open.                                                          *)
THEOREM FilesApart == Spec => []OneWriter
<1>1. IInv => OneWriter
  <2> SUFFICES ASSUME IInv, Distinct, NEW t \in Tasks, NEW u \in Tasks, t # u,
                      worker[t].file # NoFile, worker[u].file = worker[t].file
               PROVE  FALSE
    BY DEF OneWriter
  <2>1. /\ worker[t].step \in OpenSteps /\ worker[u].step \in OpenSteps
        /\ Shape(worker[t]) /\ Shape(worker[u])
    BY DEF IInv, Shape
  <2>2. /\ worker[t].blob \in Blobs /\ worker[u].blob \in Blobs
        /\ worker[t].blob # worker[u].blob
    BY <2>1 DEF IInv, OneEach, Shape, OpenSteps
  <2>3. /\ link[worker[t].blob] = worker[t].file /\ link[worker[u].blob] = worker[u].file
    BY <2>1 DEF IInv, Sound
  <2> QED BY <2>2, <2>3 DEF IInv, Apart
<1> QED BY <1>1, Invariance, PTL

(* A fetch can be resumed however often it fails: no step of any run makes *)
(* a blob that is whole less than that.                                    *)
THEOREM Resumes == Spec => WholeStays
<1>1. IInv /\ [Next]_vars =>
        [Distinct => \A b \in Blobs : InPlace(b) => InPlace(b)']_vars
  BY StepKeeps DEF Kept
<1> QED BY <1>1, Invariance, PTL DEF Spec, WholeStays

----------------------------------------------------------------------------
(* Success means complete, also when digests are equal. *)

(* The file a task has open is of its blob only, for paths and tasks.      *)
OwnedBy(f, b, tasks, paths) ==
  /\ \A a \in Blobs : paths[a] = f => a = b
  /\ \A u \in Tasks : tasks[u].file = f => tasks[u].blob = b

Own ==
  \A t \in Tasks :
    worker[t].file # NoFile => OwnedBy(worker[t].file, worker[t].blob, worker, link)

(* What a task has hashed so far is what the path of its blob still has.   *)
Matches(s, paths, data) ==
  /\ paths[s.blob] = s.file
  /\ 1..(s.part - 1) \subseteq data[s.file]
  /\ s.part > 1 => Junk \notin data[s.file]

(* A task that cannot end well unless its blob is in place by then.        *)
Pledged(s, paths, data) ==
  \/ s.step \in {"check", "open", "request", "write", "verify", "failed"}
  \/ s.step \in {"hash", "rehash"} /\ (s.good => Matches(s, paths, data))

Pledge(b, tasks, paths, data) ==
  \E t \in Tasks : tasks[t].blob = b /\ Pledged(tasks[t], paths, data)

Held(b, paths, data) == paths[b] # NoFile /\ data[paths[b]] = Whole

(* A blob is in place, or one of the tasks that work on it sees to it.     *)
Good(b, tasks, paths, data) ==
  \/ Held(b, paths, data)
  \/ Pledge(b, tasks, paths, data)

FromAnswer ==
  image = Blank \/ \E i \in DOMAIN answer.entries :
                     /\ answer.entries[i].image = image
                     /\ answer.index => answer.entries[i].platform = Wanted

(* What the main task has established by the time it comes to a step.      *)
Progress ==
  Running =>
  /\ main # "resolve" => FromAnswer
  /\ main \in {"index", "name", "parse", "config", "join"} => image \in manifests
  /\ main \in {"parse", "config", "join"} => named = {image}
  /\ main \in {"config", "join"} =>
       /\ ~only /\ image.layers # <<>>
       /\ image.config # NoBlob => Good(image.config, worker, link, content)
  /\ main = "join" =>
       \A i \in DOMAIN image.layers :
         \/ Good(image.layers[i], worker, link, content)
         \/ \E j \in DOMAIN queue : queue[j] = image.layers[i]

DInv == Own /\ Progress /\ OkMeansComplete

LEMMA ImageBlobs ==
  ASSUME IInv
  PROVE  /\ image.config # NoBlob => image.config \in Blobs
         /\ image.layers \in Seq(Blobs)
         /\ \A i \in DOMAIN image.layers : image.layers[i] \in Blobs
<1>1. image.layers \in Seq(Blobs) /\ (image.config # NoBlob => image.config \in Blobs)
  BY DEF IInv, Types, Image
<1> QED BY <1>1

(* A task at work goes on: what it changes is of its own blob, and that    *)
(* blob is no worse for it.                                                *)
LEMMA TaskKeepsGood ==
  ASSUME IInv, DInv, Running, NEW t \in Tasks, worker[t].step # "idle",
         NEW s \in TaskStates, Shape(s), s.step # "idle" => s.blob = worker[t].blob,
         worker' = [worker EXCEPT ![t] = s],
         UNCHANGED <<answer, only, image, main, manifests, named, queue, result>>,
         s.file # NoFile => OwnedBy(s.file, worker[t].blob, worker, link),
         link'[worker[t].blob] \in {NoFile, link[worker[t].blob], s.file},
         \A a \in Blobs : a # worker[t].blob => link'[a] = link[a],
         \A f \in Files : content'[f] # content[f] => OwnedBy(f, worker[t].blob, worker, link),
         Good(worker[t].blob, worker, link, content) => Good(worker[t].blob, worker', link', content')
  PROVE  DInv'
<1> DEFINE b == worker[t].blob
<1>1. \A u \in Tasks : worker'[u] = IF u = t THEN s ELSE worker[u]
  BY DEF IInv, Types
<1>2. /\ link \in [Blobs -> Files \cup {NoFile}] /\ worker \in [Tasks -> TaskStates]
      /\ \A u \in Tasks : Shape(worker[u])
  BY DEF IInv, Types
<1>3. b \in Blobs
  BY <1>2 DEF Shape
<1>4. Own'
  <2> SUFFICES ASSUME NEW u \in Tasks, worker'[u].file # NoFile
               PROVE  OwnedBy(worker'[u].file, worker'[u].blob, worker', link')
    BY DEF Own
  <2>1. CASE u = t
    <3>1. worker'[u] = s /\ s.blob = b
      BY <2>1, <1>1 DEF Shape, OpenSteps
    <3>2. OwnedBy(s.file, b, worker, link)
      BY <2>1, <1>1
    <3>3. \A a \in Blobs : link'[a] = s.file => a = b
      BY <3>2 DEF OwnedBy
    <3>4. \A v \in Tasks : worker'[v].file = s.file => worker'[v].blob = b
      BY <3>1, <3>2, <1>1 DEF OwnedBy
    <3> QED BY <3>1, <3>3, <3>4 DEF OwnedBy
  <2>2. CASE u # t
    <3>1. worker'[u] = worker[u] /\ OwnedBy(worker[u].file, worker[u].blob, worker, link)
      BY <2>2, <1>1 DEF DInv, Own
    <3>2. s.file = worker[u].file => worker[u].blob = b /\ s.blob = b
      BY <2>2, <1>1, <3>1 DEF OwnedBy, Shape, OpenSteps
    <3>3. \A a \in Blobs : link'[a] = worker[u].file => a = worker[u].blob
      <4> SUFFICES ASSUME NEW a \in Blobs, link'[a] = worker[u].file PROVE a = worker[u].blob
        OBVIOUS
      <4>1. CASE a # b
        BY <4>1, <3>1 DEF OwnedBy
      <4>2. CASE a = b
        BY <4>2, <3>1, <3>2, <1>1, <2>2 DEF OwnedBy
      <4> QED BY <4>1, <4>2
    <3>4. \A v \in Tasks : worker'[v].file = worker[u].file => worker'[v].blob = worker[u].blob
      BY <1>1, <3>1, <3>2 DEF OwnedBy
    <3> QED BY <3>1, <3>3, <3>4 DEF OwnedBy
  <2> QED BY <2>1, <2>2
<1>5. ASSUME NEW a \in Blobs, a # b, Good(a, worker, link, content) PROVE Good(a, worker', link', content')
  <2>1. \A f \in Files : content'[f] # content[f] =>
          link[a] # f /\ \A u \in Tasks : worker[u].file = f => worker[u].blob # a
    BY <1>5 DEF OwnedBy
  <2>2. CASE Held(a, link, content)
    BY <2>1, <2>2, <1>2, <1>5 DEF Held, Good
  <2>3. CASE Pledge(a, worker, link, content)
    <3>1. PICK u \in Tasks : worker[u].blob = a /\ Pledged(worker[u], link, content)
      BY <2>3 DEF Pledge
    <3>2. worker'[u] = worker[u] /\ link'[a] = link[a]
      BY <3>1, <1>1, <1>5
    <3>3. worker[u].step \in {"hash", "rehash"} => content'[worker[u].file] = content[worker[u].file]
      BY <2>1, <3>1, <1>2 DEF Shape, OpenSteps, TaskStates
    <3>4. Pledged(worker[u], link', content')
      BY <3>1, <3>2, <3>3 DEF Pledged, Matches
    <3> QED BY <3>1, <3>2, <3>4 DEF Good, Pledge
  <2> QED BY <1>5, <2>2, <2>3 DEF Good
<1>6. \A a \in Blobs : Good(a, worker, link, content) => Good(a, worker', link', content')
  BY <1>5
<1>7. Progress'
  <2> HIDE DEF b
  <2> QED BY <1>6, ImageBlobs DEF DInv, Progress, FromAnswer, Running
<1>8. OkMeansComplete'
  BY DEF Running, OkMeansComplete
<1> QED BY <1>4, <1>7, <1>8 DEF DInv

(* The same for a task that leaves the directory alone.                    *)
LEMMA TaskLooksGood ==
  ASSUME IInv, DInv, Running, NEW t \in Tasks, worker[t].step # "idle",
         NEW s \in TaskStates, Shape(s), s.step # "idle" => s.blob = worker[t].blob,
         worker' = [worker EXCEPT ![t] = s],
         UNCHANGED <<answer, only, image, main, manifests, named, queue, result, link, content>>,
         s.file \in {NoFile, worker[t].file, link[worker[t].blob]},
         \/ s.blob = worker[t].blob /\ (Pledged(worker[t], link, content) => Pledged(s, link, content))
         \/ Pledged(worker[t], link, content) => Held(worker[t].blob, link, content)
  PROVE  DInv'
<1> DEFINE b == worker[t].blob
<1>1. /\ \A u \in Tasks : worker'[u] = IF u = t THEN s ELSE worker[u]
      /\ b \in Blobs /\ Apart(link) /\ Own
  BY DEF IInv, Types, Shape, DInv
<1>2. s.file # NoFile => OwnedBy(s.file, b, worker, link)
  <2>1. CASE s.file = worker[t].file
    BY <2>1, <1>1 DEF Own
  <2>2. CASE s.file = link[b] /\ s.file # NoFile
    BY <2>2, <1>1 DEF Own, OwnedBy, Apart
  <2> QED BY <2>1, <2>2
<1>3. ASSUME Good(b, worker, link, content) PROVE Good(b, worker', link', content')
  <2>1. CASE Held(b, link, content)
    BY <2>1 DEF Good, Held
  <2>2. CASE Pledge(b, worker, link, content)
    <3>1. PICK u \in Tasks : worker[u].blob = b /\ Pledged(worker[u], link, content)
      BY <2>2 DEF Pledge
    <3>2. CASE u # t
      <4>1. worker'[u] = worker[u]
        BY <3>2, <1>1
      <4> QED BY <3>1, <4>1 DEF Good, Pledge
    <3>3. CASE u = t /\ Held(b, link, content)
      BY <3>3 DEF Good, Held
    <3>4. CASE u = t /\ s.blob = b /\ Pledged(s, link, content)
      <4>1. worker'[t] = s
        BY <1>1
      <4> QED BY <3>4, <4>1 DEF Good, Pledge
    <3> QED BY <3>1, <3>2, <3>3, <3>4
  <2> QED BY <1>3, <2>1, <2>2 DEF Good
<1> HIDE DEF b
<1> QED BY <1>2, <1>3, TaskKeepsGood DEF b

(* The main task only ever moves the run on.                               *)
LEMMA MainKeepsGood ==
  ASSUME IInv, DInv, Prepare \/ ResolveFails
  PROVE  DInv'
<1>1. /\ Running /\ UNCHANGED <<answer, only, link, content>>
      /\ link \in [Blobs -> Files \cup {NoFile}] /\ worker \in [Tasks -> TaskStates]
  BY DEF Prepare, Resolve, ResolveIndex, NoPlatform, EmptyManifest, FillManifest, EmptyIndex,
         FillIndex, ReturnEarly, StartConfig, Spawn, ResolveFails, MainAt, request, disk,
         IInv, Types
<1>2. CASE Resolve \/ ResolveIndex \/ ResolveFails
  <2>1. UNCHANGED <<worker, manifests, named>> /\ Own'
    BY <1>1, <1>2 DEF Resolve, ResolveIndex, ResolveFails, disk, layout, DInv, Own, OwnedBy
  <2>2. CASE Resolve
    <3>1. FromAnswer'
      <4>1. answer.entries \in Seq([platform : STRING, image : Image])
        BY DEF IInv, Types
      <4>2. ~answer.index /\ image' = answer.entries[1].image /\ 1 \in DOMAIN answer.entries
        <5>1. Len(answer.entries) = 1
          BY <2>2 DEF Resolve, IInv, Types
        <5> QED BY <2>2, <4>1, <5>1 DEF Resolve
      <4> QED BY <4>2, <1>1 DEF FromAnswer
    <3>2. main' = "manifest" /\ result' = result
      BY <2>2 DEF Resolve, MainGoes
    <3> QED BY <1>1, <2>1, <3>1, <3>2 DEF DInv, Progress, Running, OkMeansComplete
  <2>3. CASE ResolveIndex
    <3>1. FromAnswer'
      BY <1>1, <2>3 DEF ResolveIndex, SelectPlatform, FromAnswer
    <3>2. main' = "manifest" /\ result' = result
      BY <2>3 DEF ResolveIndex, MainGoes
    <3> QED BY <1>1, <2>1, <3>1, <3>2 DEF DInv, Progress, Running, OkMeansComplete
  <2>4. CASE ResolveFails
    BY <1>1, <2>1, <2>4 DEF ResolveFails, MainAt, MainGoes, DInv, Progress, FromAnswer, Running,
       OkMeansComplete
  <2> QED BY <1>2, <2>2, <2>3, <2>4
<1>3. CASE NoPlatform \/ EmptyManifest \/ FillManifest \/ EmptyIndex \/ FillIndex
  <2>1. UNCHANGED <<worker, image>> /\ Own'
    BY <1>1, <1>3 DEF NoPlatform, EmptyManifest, FillManifest, EmptyIndex, FillIndex, disk, DInv,
       Own, OwnedBy
  <2>2. Progress'
    BY <1>1, <1>3, <2>1 DEF NoPlatform, EmptyManifest, FillManifest, EmptyIndex, FillIndex, disk,
       layout, MainAt, MainGoes, DInv, Progress, FromAnswer, Running
  <2>3. OkMeansComplete'
    BY <1>1, <1>3 DEF NoPlatform, EmptyManifest, FillManifest, EmptyIndex, FillIndex, Running,
       OkMeansComplete
  <2> QED BY <2>1, <2>2, <2>3 DEF DInv
<1>4. CASE ReturnEarly
  <2>1. UNCHANGED <<worker, image, main, manifests, named>> /\ Own' /\ main = "parse"
    BY <1>1, <1>4 DEF ReturnEarly, disk, layout, DInv, Own, OwnedBy, MainAt
  <2>2. ~Running' /\ (result' = "ok" => only)
    BY <1>4 DEF ReturnEarly, Running
  <2>3. OkMeansComplete'
    BY <1>1, <2>1, <2>2 DEF DInv, Progress, FromAnswer, OkMeansComplete
  <2> QED BY <2>1, <2>2, <2>3 DEF DInv, Progress
<1>5. CASE StartConfig
  <2> DEFINE s == At("check", image.config)
  <2>1. /\ main = "parse" /\ main' = "config" /\ ~only /\ image.layers # <<>>
        /\ UNCHANGED <<image, manifests, named, result>>
        /\ worker' = IF image.config = NoBlob THEN worker ELSE [worker EXCEPT ![Main] = s]
    BY <1>5 DEF StartConfig, disk, layout, MainAt, MainGoes
  <2>2. s.file = NoFile /\ s.step = "check" /\ s.blob = image.config
    BY DEF At
  <2>3. \A t \in Tasks : worker'[t] = IF t = Main /\ image.config # NoBlob THEN s ELSE worker[t]
    BY <1>1, <2>1
  <2>4. Main \in Tasks
    BY DEF Tasks
  <2> HIDE DEF s
  <2>5. image.config # NoBlob => Good(image.config, worker', link', content')
    BY <2>2, <2>3, <2>4 DEF Good, Pledge, Pledged
  <2>6. Own'
    BY <1>1, <2>2, <2>3 DEF DInv, Own, OwnedBy
  <2>7. Progress'
    BY <1>1, <2>1, <2>5 DEF DInv, Progress, FromAnswer
  <2>8. OkMeansComplete'
    BY <1>1, <2>1 DEF Running, OkMeansComplete
  <2> QED BY <2>6, <2>7, <2>8 DEF DInv
<1>6. CASE Spawn
  <2>1. /\ main = "config" /\ main' = "join" /\ queue' = WorkQueue(image.layers)
        /\ UNCHANGED <<image, manifests, named, result, worker>>
    BY <1>6 DEF Spawn, disk, layout, MainAt, MainGoes
  <2>2. \A i \in DOMAIN image.layers : \E j \in DOMAIN queue' : queue'[j] = image.layers[i]
    <3> DEFINE n == Len(image.layers)
    <3>1. image.layers \in Seq(Blobs) /\ n \in Nat
      BY ImageBlobs
    <3>2. \A i \in 1..n : n + 1 - i \in 1..n /\ n + 1 - (n + 1 - i) = i
      BY <3>1
    <3>3. DOMAIN queue' = 1..n /\ \A i \in 1..n : queue'[i] = image.layers[n + 1 - i]
      BY <2>1, <3>1 DEF WorkQueue
    <3>4. DOMAIN image.layers = 1..n
      BY <3>1
    <3> HIDE DEF n
    <3> QED BY <3>2, <3>3, <3>4
  <2>3. Own'
    BY <1>1, <2>1 DEF DInv, Own, OwnedBy
  <2>4. Progress'
    BY <1>1, <2>1, <2>2 DEF DInv, Progress, FromAnswer
  <2>5. OkMeansComplete'
    BY <1>1, <2>1 DEF Running, OkMeansComplete
  <2> QED BY <2>3, <2>4, <2>5 DEF DInv
<1> QED BY <1>2, <1>3, <1>4, <1>5, <1>6 DEF Prepare

(* A run that succeeds has no task left that could be pledged.             *)
LEMMA RunKeepsGood ==
  ASSUME IInv, DInv, ReturnOk \/ ReturnError \/ Crash \/ RunAgain
  PROVE  DInv'
<1>1. CASE ReturnOk
  <2>1. /\ Running /\ ~Running' /\ main = "join" /\ queue = <<>>
        /\ UNCHANGED <<answer, only, image, worker, link, content, manifests, named>>
    BY <1>1 DEF ReturnOk, MainAt, Running, request, disk, layout
  <2>2. \A t \in Tasks : worker[t].step = "idle"
    BY <1>1, <2>1 DEF ReturnOk, IInv, Places, Tasks
  <2>3. \A b \in Blobs : Good(b, worker, link, content) => InPlace(b)
    BY <2>2 DEF Good, Held, InPlace, Pledge, Pledged
  <2>4. \A b \in BlobsOf(image) : InPlace(b)
    <3>1. \A i \in DOMAIN image.layers : InPlace(image.layers[i])
      BY <2>1, <2>3, ImageBlobs DEF DInv, Progress
    <3>2. image.config # NoBlob => InPlace(image.config)
      BY <2>1, <2>3, ImageBlobs DEF DInv, Progress
    <3> QED BY <3>1, <3>2 DEF BlobsOf, Range
  <2>5. OkMeansComplete'
    <3>1. \A b \in BlobsOf(image) : InPlace(b)'
      BY <2>1, <2>4 DEF InPlace
    <3> QED BY <2>1, <3>1 DEF DInv, Progress, FromAnswer, OkMeansComplete, BlobsOf, InPlace
  <2> QED BY <2>1, <2>5 DEF DInv, Own, OwnedBy, Progress
<1>2. CASE ReturnError \/ Crash
  <2>1. ~Running' /\ result' # "ok" /\ worker' = [t \in Tasks |-> Idle]
    BY <1>2 DEF ReturnError, Crash, Running
  <2>2. \A t \in Tasks : worker'[t].file = NoFile
    BY <2>1 DEF Idle, At
  <2> QED BY <2>1, <2>2 DEF DInv, Own, Progress, OkMeansComplete
<1>3. CASE RunAgain
  BY <1>3 DEF RunAgain, MainGoes, disk, DInv, Own, OwnedBy, Progress, OkMeansComplete
<1> QED BY <1>1, <1>2, <1>3

(* The layer leaves the queue for a task that will see to it.              *)
LEMMA TakeKeepsGood ==
  ASSUME IInv, DInv, NEW w \in Workers, TakeLayer(w)
  PROVE  DInv'
<1> DEFINE s == At("check", Head(queue))
<1>1. /\ Running /\ main = "join" /\ queue # <<>> /\ worker[w].step = "idle"
      /\ worker' = [worker EXCEPT ![w] = s] /\ queue' = Tail(queue)
      /\ UNCHANGED <<answer, only, image, main, link, content, manifests, named, result>>
  BY DEF TakeLayer, MainAt, Becomes, disk, layout, request
<1>2. /\ queue \in Seq(Blobs) /\ worker \in [Tasks -> TaskStates]
      /\ link \in [Blobs -> Files \cup {NoFile}] /\ w \in Tasks
  BY DEF IInv, Types, Tasks
<1>3. s.file = NoFile /\ s.step = "check" /\ s.blob = queue[1]
  BY <1>1, <1>2 DEF At
<1>4. \A t \in Tasks : worker'[t] = IF t = w THEN s ELSE worker[t]
  BY <1>1, <1>2
<1> HIDE DEF s
<1>5. Own'
  BY <1>1, <1>3, <1>4 DEF DInv, Own, OwnedBy
<1>6. Good(queue[1], worker', link', content')
  BY <1>2, <1>3, <1>4 DEF Good, Pledge, Pledged
<1>7. \A b \in Blobs : Good(b, worker, link, content) => Good(b, worker', link', content')
  <2>1. ~Pledged(worker[w], link, content)
    BY <1>1 DEF Pledged
  <2> QED BY <1>1, <1>4, <2>1 DEF Good, Held, Pledge
<1>8. \A j \in DOMAIN queue : j = 1 \/ \E i \in DOMAIN queue' : queue'[i] = queue[j]
  <2>1. \A j \in DOMAIN queue : j # 1 => j - 1 \in DOMAIN queue' /\ queue'[j - 1] = queue[j]
    BY <1>1, <1>2
  <2> QED BY <2>1
<1>9. \A i \in DOMAIN image.layers :
        Good(image.layers[i], worker', link', content')
          \/ \E j \in DOMAIN queue' : queue'[j] = image.layers[i]
  <2> SUFFICES ASSUME NEW i \in DOMAIN image.layers
               PROVE  \/ Good(image.layers[i], worker', link', content')
                      \/ \E j \in DOMAIN queue' : queue'[j] = image.layers[i]
    OBVIOUS
  <2>1. image.layers[i] \in Blobs
    BY ImageBlobs
  <2>2. CASE Good(image.layers[i], worker, link, content)
    BY <2>1, <2>2, <1>7
  <2>3. CASE \E j \in DOMAIN queue : queue[j] = image.layers[i]
    BY <2>3, <1>6, <1>8
  <2> QED BY <2>2, <2>3, <1>1 DEF DInv, Progress
<1>10. Progress'
  BY <1>1, <1>7, <1>9, ImageBlobs DEF DInv, Progress, FromAnswer, Running
<1>11. OkMeansComplete'
  BY <1>1 DEF Running, OkMeansComplete
<1> QED BY <1>5, <1>10, <1>11 DEF DInv

(* A blob whose hashing task is content with it is in place, or some other *)
(* task is pledged to it.                                                  *)
LEMMA HashedIsWhole ==
  ASSUME IInv, NEW t \in Tasks, worker[t].step \in {"hash", "rehash"}, worker[t].good,
         worker[t].part > Parts, Pledged(worker[t], link, content)
  PROVE  Held(worker[t].blob, link, content)
<1> DEFINE old == worker[t]
<1>1. /\ old \in TaskStates /\ old.file # NoFile /\ old.file \in Files
      /\ content \in [Files -> SUBSET (Whole \cup {Junk})]
  BY DEF IInv, Types, Shape, OpenSteps, TaskStates
<1>2. link[old.blob] = old.file /\ 1..(old.part - 1) \subseteq content[old.file]
      /\ (old.part > 1 => Junk \notin content[old.file])
  BY DEF Pledged, Matches
<1>3. old.part = Parts + 1
  BY <1>1 DEF TaskStates
<1>4. old.part > 1 /\ old.part - 1 = Parts
  BY <1>3
<1>5. content[old.file] = Whole
  <2>1. content[old.file] \subseteq Whole \cup {Junk}
    BY <1>1
  <2>2. Whole \subseteq content[old.file] /\ Junk \notin content[old.file]
    BY <1>2, <1>4 DEF Whole
  <2> QED BY <2>1, <2>2
<1> QED BY <1>1, <1>2, <1>5 DEF Held

LEMMA LooksKeepGood ==
  ASSUME IInv, DInv, NEW t \in Tasks,
         \/ LookLocal(t) \/ OpenToHash(t) \/ HashPart(t) \/ KeepLocal(t)
         \/ Written(t) \/ Verified(t) \/ RequestFails(t)
  PROVE  DInv'
<1> DEFINE old == worker[t]
<1>1. /\ Running /\ old.step # "idle" /\ old \in TaskStates /\ old.blob \in Blobs /\ Shape(old)
      /\ UNCHANGED <<answer, only, image, main, manifests, named, queue, result, link, content>>
  BY DEF LookLocal, OpenToHash, HashPart, KeepLocal, Written, Verified, RequestFails,
         Hashed, disk, layout, request, IInv, Types, Shape
<1>2. /\ link \in [Blobs -> Files \cup {NoFile}]
      /\ content \in [Files -> SUBSET (Whole \cup {Junk})]
  BY DEF IInv, Types
<1>3. ASSUME NEW step \in {"open", "request", "verify", "failed"}, Becomes(t, At(step, old.blob))
      PROVE  DInv'
  <2> DEFINE s == At(step, old.blob)
  <2>1. /\ s \in TaskStates /\ Shape(s) /\ s.blob = old.blob /\ s.step = step
        /\ worker' = [worker EXCEPT ![t] = s]
    BY <1>1, <1>3, AtIsState DEF Becomes
  <2>2. s.file = NoFile
    BY DEF At
  <2> HIDE DEF s
  <2>3. Pledged(s, link, content)
    BY <2>1 DEF Pledged
  <2> QED BY <1>1, <2>1, <2>2, <2>3, TaskLooksGood
<1>4. CASE KeepLocal(t) \/ Verified(t)
  <2>1. /\ old.step \in {"hash", "rehash"} /\ old.good /\ old.part > Parts
        /\ worker' = [worker EXCEPT ![t] = Idle]
    BY <1>4 DEF KeepLocal, Verified, Hashed, Becomes
  <2>2. Pledged(old, link, content) => Held(old.blob, link, content)
    BY <2>1, HashedIsWhole
  <2>3. Idle \in TaskStates /\ Shape(Idle) /\ Idle.step = "idle" /\ Idle.file = NoFile
    BY IdleIsState DEF Idle, At
  <2> QED BY <1>1, <2>1, <2>2, <2>3, TaskLooksGood
<1>5. CASE Written(t) \/ RequestFails(t) \/ LookLocal(t)
  BY <1>3, <1>5 DEF Written, RequestFails, LookLocal
<1>6. CASE OpenToHash(t)
  <2>1. CASE link[old.blob] = NoFile
    BY <2>1, <1>3, <1>6 DEF OpenToHash
  <2>2. CASE link[old.blob] # NoFile
    <3> DEFINE step == IF old.step = "open" THEN "hash" ELSE "rehash"
               s == [old EXCEPT !.step = step, !.file = link[old.blob],
                                !.part = 1, !.good = TRUE]
    <3>1. worker' = [worker EXCEPT ![t] = s]
      BY <2>2, <1>6 DEF OpenToHash, Becomes
    <3>2. step \in {"hash", "rehash"} /\ step \in OpenSteps /\ link[old.blob] \in Files
      BY <1>1, <1>2, <2>2 DEF OpenSteps
    <3>3. 1 \in 1..(Parts + 1) /\ TRUE \in BOOLEAN
      OBVIOUS
    <3> HIDE DEF step
    <3>4. /\ s \in TaskStates /\ s.step = step /\ s.blob = old.blob
          /\ s.file = link[old.blob] /\ s.part = 1
      BY <1>1, <3>2, <3>3 DEF TaskStates
    <3> HIDE DEF s
    <3>5. Shape(s)
      BY <1>1, <2>2, <3>2, <3>4 DEF Shape, OpenSteps
    <3>6. 1..(s.part - 1) = {} /\ ~(s.part > 1)
      BY <3>4
    <3>7. Pledged(s, link, content)
      BY <3>2, <3>4, <3>6 DEF Pledged, Matches
    <3> QED BY <1>1, <3>1, <3>4, <3>5, <3>7, TaskLooksGood
  <2> QED BY <2>1, <2>2
<1>7. CASE HashPart(t)
  <2> DEFINE good == /\ old.good /\ old.part \in content[old.file]
                     /\ Junk \notin content[old.file]
             s == [old EXCEPT !.part = old.part + 1, !.good = good]
  <2>1. /\ worker' = [worker EXCEPT ![t] = s]
        /\ old.step \in {"hash", "rehash"} /\ old.part <= Parts
    BY <1>7 DEF HashPart, Becomes
  <2>2. good \in BOOLEAN /\ old.part + 1 \in 1..(Parts + 1) /\ old.part \in Nat
    BY <1>1, <2>1 DEF TaskStates
  <2>3. /\ s.step = old.step /\ s.blob = old.blob /\ s.file = old.file /\ s.good = good
        /\ s.part = old.part + 1 /\ s \in TaskStates
    <3> HIDE DEF good
    <3> QED BY <1>1, <2>2 DEF TaskStates
  <2>4. \A n \in 1..(old.part + 1 - 1) : n \in 1..(old.part - 1) \/ n = old.part
    <3> HIDE DEF old
    <3> QED BY <2>2
  <2>5. good => old.good /\ old.part \in content[old.file] /\ Junk \notin content[old.file]
    OBVIOUS
  <2> HIDE DEF s, good
  <2>6. Pledged(old, link, content) => Pledged(s, link, content)
    <3> SUFFICES ASSUME Pledged(old, link, content), good PROVE Matches(s, link, content)
      BY <2>1, <2>3 DEF Pledged
    <3>1. Matches(old, link, content)
      BY <2>1, <2>5 DEF Pledged
    <3>2. s.part - 1 = old.part + 1 - 1
      BY <2>2, <2>3
    <3>3. 1..(s.part - 1) \subseteq content[s.file]
      BY <3>1, <3>2, <2>3, <2>4, <2>5 DEF Matches
    <3> QED BY <3>1, <3>3, <2>3, <2>5 DEF Matches
  <2>7. Shape(s)
    BY <1>1, <2>1, <2>3 DEF Shape, OpenSteps
  <2> QED BY <1>1, <2>1, <2>3, <2>6, <2>7, TaskLooksGood
<1> QED BY <1>4, <1>5, <1>6, <1>7

(* Who takes a path away, empties a file or writes to it sees to the blob  *)
(* from then on.                                                           *)
LEMMA ChangesKeepGood ==
  ASSUME IInv, DInv, NEW t \in Tasks,
         RemoveLocal(t) \/ Mismatch(t) \/ CreateFile(t) \/ WritePart(t)
  PROVE  DInv'
<1> DEFINE old == worker[t]
           b == old.blob
<1>1. /\ Running /\ old.step # "idle" /\ old \in TaskStates /\ b \in Blobs /\ Shape(old)
      /\ UNCHANGED <<answer, only, image, main, manifests, named, queue, result>>
  BY DEF RemoveLocal, Mismatch, CreateFile, WritePart, Hashed, layout, request, IInv, Types, Shape
<1>2. /\ link \in [Blobs -> Files \cup {NoFile}] /\ Apart(link) /\ Own
      /\ content \in [Files -> SUBSET (Whole \cup {Junk})] /\ worker \in [Tasks -> TaskStates]
  BY DEF IInv, Types, DInv
<1>3. ASSUME NEW s \in TaskStates, Shape(s), s.blob = b, s.step \in {"request", "failed", "write"},
             worker' = [worker EXCEPT ![t] = s],
             s.file # NoFile => OwnedBy(s.file, b, worker, link),
             link'[b] \in {NoFile, link[b], s.file},
             \A a \in Blobs : a # b => link'[a] = link[a],
             \A f \in Files : content'[f] # content[f] => OwnedBy(f, b, worker, link)
      PROVE  DInv'
  <2>1. worker'[t] = s
    BY <1>2, <1>3
  <2>2. Good(b, worker', link', content')
    BY <1>3, <2>1 DEF Good, Pledge, Pledged
  <2> HIDE DEF b
  <2> QED BY <1>1, <1>3, <2>2, TaskKeepsGood DEF b
<1>4. CASE RemoveLocal(t) \/ Mismatch(t)
  <2> DEFINE s == At(IF old.step = "hash" THEN "request" ELSE "failed", b)
  <2>1. /\ link' = [link EXCEPT ![b] = NoFile] /\ UNCHANGED content
        /\ worker' = [worker EXCEPT ![t] = s]
    BY <1>4 DEF RemoveLocal, Mismatch, Hashed, Becomes
  <2>2. /\ s \in TaskStates /\ Shape(s) /\ s.blob = b /\ s.step \in {"request", "failed"}
    BY <1>1, AtIsState
  <2>3. s.file = NoFile
    BY DEF At
  <2>4. link'[b] = NoFile /\ \A a \in Blobs : a # b => link'[a] = link[a]
    BY <1>1, <1>2, <2>1
  <2> HIDE DEF s, b
  <2> QED BY <1>3, <2>1, <2>2, <2>3, <2>4
<1>5. CASE CreateFile(t)
  <2>1. PICK f \in FileFor(b) :
          /\ link' = [link EXCEPT ![b] = f] /\ content' = [content EXCEPT ![f] = {}]
          /\ worker' = [worker EXCEPT ![t] = [At("write", b) EXCEPT !.file = f]]
    BY <1>5 DEF CreateFile, Becomes
  <2> DEFINE s == [At("write", b) EXCEPT !.file = f]
  <2>2. f \in Files /\ f # NoFile /\ OwnedBy(f, b, worker, link)
    <3>1. CASE link[b] # NoFile
      <4>1. f = link[b]
        BY <2>1, <3>1 DEF FileFor
      <4>2. ASSUME NEW u \in Tasks, worker[u].file = f PROVE worker[u].blob = b
        BY <1>1, <1>2, <3>1, <4>1, <4>2 DEF Own, OwnedBy
      <4> QED BY <1>1, <1>2, <3>1, <4>1, <4>2 DEF Apart, OwnedBy
    <3>2. CASE link[b] = NoFile
      <4>1. f \in Files \ InUse
        BY <2>1, <3>2 DEF FileFor
      <4>2. \A a \in Blobs : link[a] # f
        BY <1>2, <4>1 DEF InUse, Range
      <4>3. \A u \in Tasks : worker[u].file # f
        BY <4>1 DEF InUse
      <4> QED BY <4>1, <4>2, <4>3, Sizes DEF OwnedBy
    <3> QED BY <3>1, <3>2
  <2>3. /\ s \in TaskStates /\ s.blob = b /\ s.step = "write" /\ s.file = f
    <3> HIDE DEF b
    <3>1. b \in Blobs
      BY <1>1
    <3>2. At("write", b) \in TaskStates
      BY <3>1 DEF At, TaskStates, OpenSteps
    <3>3. At("write", b).blob = b /\ At("write", b).step = "write"
      BY DEF At
    <3> QED BY <2>2, <3>2, <3>3 DEF TaskStates
  <2>4. worker' = [worker EXCEPT ![t] = s]
    BY <2>1
  <2> HIDE DEF s
  <2>5. link'[b] = f /\ \A a \in Blobs : a # b => link'[a] = link[a]
    BY <1>1, <1>2, <2>1
  <2>6. \A g \in Files : g # f => content'[g] = content[g]
    BY <1>2, <2>1
  <2>7. Shape(s)
    BY <1>1, <2>2, <2>3 DEF Shape, OpenSteps
  <2>8. \A g \in Files : content'[g] # content[g] => OwnedBy(g, b, worker, link)
    BY <2>2, <2>6
  <2> HIDE DEF b
  <2> QED BY <1>3, <2>2, <2>3, <2>4, <2>5, <2>7, <2>8
<1>6. CASE WritePart(t)
  <2> DEFINE s == [old EXCEPT !.part = old.part + 1]
  <2>1. /\ link' = link /\ old.step = "write" /\ old.part <= Parts
        /\ worker' = [worker EXCEPT ![t] = s]
    BY <1>6 DEF WritePart, Becomes
  <2>2. old.file \in Files /\ old.file # NoFile /\ OwnedBy(old.file, b, worker, link)
    BY <1>1, <1>2, <2>1 DEF Shape, OpenSteps, TaskStates, Own
  <2>3. \A g \in Files : g # old.file => content'[g] = content[g]
    BY <1>2, <1>6 DEF WritePart
  <2>4. old.part + 1 \in 1..(Parts + 1)
    BY <1>1, <2>1 DEF TaskStates
  <2>5. s \in TaskStates /\ s.blob = b /\ s.step = "write" /\ s.file = old.file
    BY <1>1, <2>1, <2>4 DEF TaskStates
  <2> HIDE DEF s
  <2>6. Shape(s)
    BY <1>1, <2>2, <2>5 DEF Shape, OpenSteps
  <2>7. \A g \in Files : content'[g] # content[g] => OwnedBy(g, b, worker, link)
    BY <2>2, <2>3
  <2> HIDE DEF b
  <2> QED BY <1>3, <2>1, <2>2, <2>5, <2>6, <2>7
<1> QED BY <1>4, <1>5, <1>6

LEMMA StepKeepsGood ==
  ASSUME IInv, DInv, [Next]_vars
  PROVE  DInv'
<1>1. CASE MainTask \/ ResolveFails \/ Crash \/ RunAgain
  BY <1>1, MainKeepsGood, RunKeepsGood DEF MainTask
<1>2. ASSUME NEW t \in Tasks, Work(t) \/ RequestFails(t)
      PROVE  DInv'
  <2>1. CASE t # Main /\ TakeLayer(t)
    BY <2>1, TakeKeepsGood DEF Tasks
  <2>2. CASE \/ LookLocal(t) \/ OpenToHash(t) \/ HashPart(t) \/ KeepLocal(t)
             \/ Written(t) \/ Verified(t) \/ RequestFails(t)
    BY <2>2, LooksKeepGood
  <2>3. CASE RemoveLocal(t) \/ Mismatch(t) \/ CreateFile(t) \/ WritePart(t)
    BY <2>3, ChangesKeepGood
  <2> QED BY <1>2, <2>1, <2>2, <2>3 DEF Work
<1>3. CASE UNCHANGED vars
  BY <1>3 DEF vars, disk, layout, request, DInv, Own, OwnedBy, Progress, FromAnswer, Running,
     OkMeansComplete, InPlace
<1> QED BY <1>1, <1>2, <1>3 DEF Next

(* Whatever the registry serves, also one digest many times over, and      *)
(* whatever an earlier run left: a fetch that succeeds leaves an index     *)
(* that names the manifest, of the platform that was asked for, and every  *)
(* blob of it in place and whole.                                          *)
THEOREM Complete == Spec => []OkMeansComplete
<1>1. Init => DInv
  BY IdleIsState DEF Init, Idle, At, DInv, Own, Progress, OkMeansComplete
<1>2. IInv /\ DInv /\ [Next]_vars => DInv'
  BY StepKeepsGood
<1>3. DInv => OkMeansComplete
  BY DEF DInv
<1>4. IInv /\ [Next]_vars => IInv'
  BY StepKeeps
<1> QED BY <1>1, <1>2, <1>3, <1>4, Initially, PTL DEF Spec
=============================================================================
