------------------------------- MODULE DirSink -------------------------------
(***************************************************************************)
(* write_dir_with_progress of src/dir.rs: a thread merges the layers into  *)
(* one end of a socket pair while the caller unpacks the tar stream from   *)
(* the other end, and the two results decide what is returned.             *)
(*                                                                         *)
(* The last chunk of the stream is the end-of-archive blocks, where the    *)
(* unpacker stops reading.  A merge that returns early drops its           *)
(* tar::Builder, whose destructor writes those blocks as well, wherever    *)
(* the stream happens to be.                                               *)
(***************************************************************************)
EXTENDS Integers

CONSTANTS
  Chunks,   \* length of the merged tar stream, the end of the archive included
  Cap,      \* chunks the socket holds
  Faults    \* what may fail, a subset of AllFaults

AllFaults == {"setup", "input", "encode", "unpack"}

VARIABLES
  at,       \* the caller: "start", "unpack", "join" or "returned"
  merge,    \* the merge: "none", "running", or what it returned
  thread,   \* the merge thread: "none", "running" or "ended"
  sent,     \* chunks written to the socket
  got,      \* chunks read from it
  early,    \* the stream was ended early
  unpack,   \* "none", "running", "ok" or "failed"
  reader,   \* the read end is open
  causes,   \* history: the failures that none of the others caused
  result    \* "none", "ok", "setup", "input", "unpack" or "merge"

socket == <<sent, got, early, reader>>
vars == <<at, merge, thread, socket, unpack, causes, result>>

Init ==
  /\ at = "start"
  /\ merge = "none" /\ thread = "none"
  /\ sent = 0 /\ got = 0 /\ early = FALSE /\ reader = FALSE
  /\ unpack = "none" /\ causes = {} /\ result = "none"

Room == sent - got < Cap

----------------------------------------------------------------------------
(* The caller, before the merge. *)

Start ==
  /\ at = "start"
  /\ at' = "unpack" /\ reader' = TRUE
  /\ merge' = "running" /\ thread' = "running" /\ unpack' = "running"
  /\ UNCHANGED <<sent, got, early, causes, result>>

(* The directory or the socket cannot be made. *)
StartFails ==
  /\ at = "start" /\ "setup" \in Faults
  /\ at' = "returned" /\ result' = "setup"
  /\ UNCHANGED <<merge, thread, socket, unpack, causes>>

----------------------------------------------------------------------------
(* The merge thread. *)

WriteChunk ==
  /\ merge = "running" /\ sent < Chunks /\ reader /\ Room
  /\ sent' = sent + 1
  /\ UNCHANGED <<at, merge, thread, got, early, reader, unpack, causes, result>>

MergeReturns(kind, why) ==
  /\ merge = "running"
  /\ merge' = kind
  /\ causes' = causes \cup why
  /\ UNCHANGED <<at, thread, socket, unpack, result>>

MergeOk == sent = Chunks /\ MergeReturns("ok", {})

(* The reader is gone. *)
BrokenPipe == ~reader /\ sent < Chunks /\ MergeReturns("output", {})

(* A layer does not come, or cannot be read. *)
InputFails == "input" \in Faults /\ sent < Chunks /\ MergeReturns("input", {"input"})

(* A deferred link cannot be encoded; finish_output counts it as output. *)
EncodeFails == "encode" \in Faults /\ sent < Chunks /\ MergeReturns("output", {"encode"})

(* The builder and the socket are dropped and the thread ends: unless the  *)
(* archive was finished it is ended here, if the reader is still there.    *)
ThreadEnds ==
  /\ thread = "running" /\ merge \in {"ok", "input", "output"}
  /\ IF merge # "ok" /\ reader
     THEN Room /\ sent' = sent + 1 /\ early' = TRUE
     ELSE UNCHANGED <<sent, early>>
  /\ thread' = "ended"
  /\ UNCHANGED <<at, merge, got, reader, unpack, causes, result>>

----------------------------------------------------------------------------
(* The caller unpacks. *)

Unpack ==
  /\ unpack = "running" /\ got < sent
  /\ got' = got + 1
  /\ UNCHANGED <<at, merge, thread, sent, early, reader, unpack, causes, result>>

EndOfArchive == got = Chunks \/ (early /\ got = sent)

(* unpack returns, and the archive is dropped with its end of the socket. *)
UnpackEnds(kind, why) ==
  /\ unpack = "running"
  /\ causes' = causes \cup why
  /\ unpack' = kind /\ at' = "join"
  /\ reader' = FALSE
  /\ UNCHANGED <<merge, thread, sent, got, early, result>>

UnpackOk == EndOfArchive /\ UnpackEnds("ok", {})

(* A file cannot be made, or an entry was cut short by the early end. *)
UnpackFails ==
  \/ "unpack" \in Faults /\ UnpackEnds("failed", {"unpack"})
  \/ early /\ got = sent /\ UnpackEnds("failed", {})

----------------------------------------------------------------------------
(* The caller joins the thread. *)

(* Mutant: the merge's failure is always the one reported. *)
VerdictOfMerge ==
  IF merge = "input" THEN "input"
  ELSE IF merge = "output" THEN "merge"
  ELSE IF unpack = "failed" THEN "unpack"
  ELSE "ok"

Verdict ==
  IF merge = "input" THEN "input"
  ELSE IF unpack = "failed" THEN "unpack"
  ELSE IF merge = "output" THEN "merge"
  ELSE "ok"

(* Mutant: an unpack error is returned without joining the thread. *)
JoinOnSuccess ==
  /\ at = "join" /\ (thread = "ended" \/ unpack = "failed")
  /\ at' = "returned" /\ result' = Verdict
  /\ UNCHANGED <<merge, thread, socket, unpack, causes>>

Join ==
  /\ at = "join" /\ thread = "ended"
  /\ at' = "returned" /\ result' = Verdict
  /\ UNCHANGED <<merge, thread, socket, unpack, causes>>

MergeThread == WriteChunk \/ MergeOk \/ BrokenPipe \/ ThreadEnds
Caller == Start \/ StartFails \/ Unpack \/ UnpackOk \/ Join

Next ==
  \/ MergeThread \/ Caller
  \/ InputFails \/ EncodeFails \/ UnpackFails

Spec == Init /\ [][Next]_vars

(* Both threads run, and the layers come. *)
FairSpec == Spec /\ WF_vars(MergeThread) /\ WF_vars(Caller)

----------------------------------------------------------------------------
(* Properties. *)

(* Every variable has its type, and the socket holds no more than it can.  *)
TypeOK ==
  /\ at \in {"start", "unpack", "join", "returned"}
  /\ merge \in {"none", "running", "ok", "input", "output"}
  /\ thread \in {"none", "running", "ended"}
  /\ sent \in 0..Chunks /\ got \in 0..sent /\ sent - got <= Cap
  /\ early \in BOOLEAN /\ reader \in BOOLEAN
  /\ unpack \in {"none", "running", "ok", "failed"}
  /\ causes \subseteq {"input", "encode", "unpack"}
  /\ result \in {"none", "ok", "setup", "input", "unpack", "merge"}

(* Success means that the whole stream was unpacked: an archive that was   *)
(* ended early looks complete to the unpacker, and only the merge's result *)
(* tells the difference.                                                   *)
OkIsWhole == result = "ok" => got = Chunks /\ ~early

(* The caller never returns with the merge thread still running. *)
NoThreadLeft == result # "none" => thread # "running"

(* The sink returns: neither thread waits for the other for good, also     *)
(* when the unpacker fails while the merge waits for room.                 *)
Returns == <>(at = "returned")
=============================================================================
