---------------------------- MODULE SquashfsSink ----------------------------
(***************************************************************************)
(* write_squashfs_with_progress of src/squashfs.rs: the merge writes the   *)
(* tar stream into the standard input of an mksquashfs process, then the   *)
(* sink waits for the process and decides which failure to report.         *)
(*                                                                         *)
(* The process is external: it reads its input to the end, may write       *)
(* messages to its standard error, and exits; it may also fail.  Both      *)
(* pipes are finite.  A merge that returns early drops its tar::Builder,   *)
(* whose destructor still writes the end-of-archive blocks: the process    *)
(* then reads a shortened archive that is well formed.                     *)
(***************************************************************************)
EXTENDS Integers

CONSTANTS
  Chunks,       \* length of the merged tar stream
  InCap,        \* chunks the input pipe holds
  ErrCap,       \* messages the error pipe holds
  Messages,     \* bound on the messages the process writes
  MaxRetries,   \* spawn attempts after ETXTBSY
  Faults        \* what may fail, a subset of AllFaults

AllFaults ==
  {"unremovable", "spawn", "busy", "input", "encode", "process", "wait", "unlink"}

VARIABLES
  at,           \* "start", "spawn", "merge", "drop", "wait" or "returned"
  attempt,      \* retries made
  output,       \* the file: "absent", "stale", "partial", "short" or "whole"
  sent,         \* chunks written into the input pipe
  got,          \* chunks the process has read
  eof,          \* the write end of the input pipe is closed
  trailer,      \* the end-of-archive blocks of a dropped builder are in the stream
  merge,        \* what the merge returned: "none", "ok", "input" or "output"
  child,        \* "none", "reading", "writing", "ok" or "failed"
  said,         \* messages the process has begun to write
  errors,       \* messages in the error pipe
  causes,       \* history: the failures that none of the others caused
  kept,         \* history: the file could not be removed after a failure
  result        \* "none", "ok", "input", "mksquashfs", "output", "spawn", "wait"

stream == <<sent, got, eof, trailer>>
process == <<child, said, errors>>
history == <<causes, kept>>
vars == <<at, attempt, output, stream, merge, process, history, result>>

Init ==
  /\ at = "start" /\ attempt = 0
  /\ output \in {"absent", "stale"}
  /\ sent = 0 /\ got = 0 /\ eof = FALSE /\ trailer = FALSE
  /\ merge = "none"
  /\ child = "none" /\ said = 0 /\ errors = 0
  /\ causes = {} /\ kept = FALSE
  /\ result = "none"

Alive == child \in {"reading", "writing"}
Exited == child \in {"ok", "failed"}
Room == sent - got < InCap

----------------------------------------------------------------------------
(* Before the merge. *)

RemoveStale ==
  /\ at = "start"
  /\ \/ output' = "absent" /\ at' = "spawn" /\ UNCHANGED result
     \/ /\ "unremovable" \in Faults /\ output = "stale"
        /\ result' = "output" /\ at' = "returned" /\ UNCHANGED output
  /\ UNCHANGED <<attempt, stream, merge, process, history>>

Spawn ==
  /\ at = "spawn"
  /\ child' = "reading" /\ at' = "merge"
  /\ UNCHANGED <<attempt, output, stream, merge, said, errors, history, result>>

(* ETXTBSY is retried, up to MaxRetries times. *)
Retry ==
  /\ at = "spawn" /\ "busy" \in Faults /\ attempt < MaxRetries
  /\ attempt' = attempt + 1
  /\ UNCHANGED <<at, output, stream, merge, process, history, result>>

SpawnFails ==
  /\ at = "spawn"
  /\ "spawn" \in Faults \/ ("busy" \in Faults /\ attempt = MaxRetries)
  /\ result' = "spawn" /\ at' = "returned"
  /\ UNCHANGED <<attempt, output, stream, merge, process, history>>

----------------------------------------------------------------------------
(* merge_layers_into_streaming, writing into the pipe. *)

(* A write waits for room. *)
WriteChunk ==
  /\ at = "merge" /\ sent < Chunks /\ Alive /\ Room
  /\ sent' = sent + 1
  /\ UNCHANGED <<at, attempt, output, got, eof, trailer, merge, process, history, result>>

MergeReturns(kind, why) ==
  /\ at = "merge"
  /\ merge' = kind /\ at' = "drop"
  /\ causes' = causes \cup why
  /\ UNCHANGED <<attempt, output, stream, process, kept, result>>

(* Everything is written; emptying the writer's buffer is all that is left. *)
MergeOk == sent = Chunks /\ MergeReturns("ok", {})

(* A write into the pipe of a process that is gone, waiting or not. *)
BrokenPipe == Exited /\ sent < Chunks /\ MergeReturns("output", {})

(* A layer does not come, or cannot be read. *)
InputFails == "input" \in Faults /\ sent < Chunks /\ MergeReturns("input", {"input"})

(* A deferred link cannot be encoded; finish_output counts it as output. *)
EncodeFails == "encode" \in Faults /\ sent < Chunks /\ MergeReturns("output", {"encode"})

(* Mutant: stdin is still held when the process is waited for. *)
KeepStdin ==
  /\ at = "drop" /\ merge # "none"
  /\ at' = "wait"
  /\ UNCHANGED <<attempt, output, stream, merge, process, history, result>>

(* The builder and stdin are dropped: unless the archive was finished the  *)
(* end-of-archive blocks go into the pipe, which can wait for room too.    *)
DropStdin ==
  /\ at = "drop" /\ merge # "none"
  /\ \/ merge = "ok" /\ UNCHANGED <<sent, trailer>>
     \/ merge # "ok" /\ Alive /\ Room /\ sent' = sent + 1 /\ trailer' = TRUE
     \/ merge # "ok" /\ Exited /\ UNCHANGED <<sent, trailer>>
  /\ eof' = TRUE /\ at' = "wait"
  /\ UNCHANGED <<attempt, output, got, merge, process, history, result>>

----------------------------------------------------------------------------
(* The process. *)

ProcessReads ==
  /\ child = "reading" /\ got < sent
  /\ got' = got + 1
  /\ output' = "partial"
  /\ \/ UNCHANGED <<child, said>>
     \/ said < Messages /\ said' = said + 1 /\ child' = "writing"
  /\ UNCHANGED <<at, attempt, sent, eof, trailer, merge, errors, history, result>>

(* A message waits for room in the error pipe. *)
ProcessWrites ==
  /\ child = "writing" /\ errors < ErrCap
  /\ errors' = errors + 1 /\ child' = "reading"
  /\ UNCHANGED <<at, attempt, output, stream, merge, said, history, result>>

(* The whole input is read and the image written. *)
ProcessDone ==
  /\ child = "reading" /\ eof /\ got = sent
  /\ child' = "ok"
  /\ output' = IF trailer THEN "short" ELSE "whole"
  /\ UNCHANGED <<at, attempt, stream, merge, said, errors, history, result>>

(* The process fails on its own, or makes nothing of an archive that was   *)
(* ended in the middle of an entry.                                        *)
ProcessFails ==
  /\ child' = "failed"
  /\ \/ "process" \in Faults /\ Alive /\ causes' = causes \cup {"process"}
     \/ child = "reading" /\ eof /\ got = sent /\ trailer /\ UNCHANGED causes
  /\ UNCHANGED <<at, attempt, output, stream, merge, said, errors, kept, result>>

Process == ProcessReads \/ ProcessWrites \/ ProcessDone

----------------------------------------------------------------------------
(* wait_with_output reads the error pipe to its end, then reaps.           *)

DrainErrors ==
  /\ at = "wait" /\ errors > 0
  /\ errors' = errors - 1
  /\ UNCHANGED <<at, attempt, output, stream, merge, child, said, history, result>>

Verdict ==
  IF merge = "input" THEN "input"
  ELSE IF child = "failed" THEN "mksquashfs"
  ELSE merge

(* remove_file, whose own error is ignored. *)
Remove ==
  \/ output' = "absent" /\ UNCHANGED kept
  \/ "unlink" \in Faults /\ kept' = TRUE /\ UNCHANGED output

(* Mutant: the file is removed only when the process failed. *)
DecideKeeping ==
  /\ at = "wait" /\ Exited /\ errors = 0
  /\ result' = Verdict /\ at' = "returned"
  /\ IF child = "failed" THEN Remove ELSE UNCHANGED <<output, kept>>
  /\ UNCHANGED <<attempt, stream, merge, process, causes>>

(* On an error of any kind the file is removed. *)
Decide ==
  /\ at = "wait" /\ Exited /\ errors = 0
  /\ result' = Verdict /\ at' = "returned"
  /\ IF result' = "ok" THEN UNCHANGED <<output, kept>> ELSE Remove
  /\ UNCHANGED <<attempt, stream, merge, process, causes>>

(* wait_with_output itself fails, for instance because the process is    *)
(* reaped elsewhere, and the sink returns from there.                      *)
WaitFails ==
  /\ at = "wait" /\ "wait" \in Faults /\ Exited
  /\ result' = "wait" /\ at' = "returned"
  /\ UNCHANGED <<attempt, output, stream, merge, process, history>>

Sink ==
  \/ RemoveStale \/ Spawn \/ SpawnFails \/ WriteChunk \/ MergeOk \/ BrokenPipe
  \/ DropStdin \/ DrainErrors \/ Decide

Next ==
  \/ Sink \/ Process \/ Retry
  \/ InputFails \/ EncodeFails \/ ProcessFails \/ WaitFails

Spec == Init /\ [][Next]_vars

(* The sink's thread runs, and the process reads what it is given.         *)
FairSpec == Spec /\ WF_vars(Sink) /\ WF_vars(Process)

----------------------------------------------------------------------------
(* Properties. *)

(* Every variable has its type, and the pipes never hold more than fits.   *)
TypeOK ==
  /\ at \in {"start", "spawn", "merge", "drop", "wait", "returned"}
  /\ attempt \in 0..MaxRetries
  /\ output \in {"absent", "stale", "partial", "short", "whole"}
  /\ sent \in 0..(Chunks + 1) /\ got \in 0..sent /\ sent - got <= InCap
  /\ eof \in BOOLEAN /\ trailer \in BOOLEAN
  /\ merge \in {"none", "ok", "input", "output"}
  /\ child \in {"none", "reading", "writing", "ok", "failed"}
  /\ said \in 0..Messages /\ errors \in 0..ErrCap
  /\ causes \subseteq {"input", "encode", "process"} /\ kept \in BOOLEAN
  /\ result \in {"none", "ok", "input", "mksquashfs", "output", "spawn", "wait"}

(* The file at the output path after the sink has returned is the whole    *)
(* image, or there is none: the short but well-formed image that the       *)
(* process makes of an aborted stream is left behind only if it cannot be  *)
(* removed.                                                                *)
WholeOrNothing ==
  result \notin {"none", "wait"} /\ output # "stale" =>
    IF result = "ok" THEN output = "whole" ELSE output = "absent" \/ kept

(* The sink never returns with the process still running. *)
NoOrphan == result # "none" => ~Alive

(* The sink returns, and the process has ended by then. *)
Returns == <>(at = "returned")

----------------------------------------------------------------------------
(* Statements of the source that some execution contradicts. *)

(* On failure the partial output file is removed. *)
FailureLeavesNothing ==
  result \notin {"none", "ok"} => output \notin {"partial", "short", "whole"}

(* The process consumes data as it arrives, however much it has to say:    *)
(* every chunk sent is read, unless the process fails.                     *)
ConsumesAsItArrives == \A n \in 1..Chunks : sent = n ~> got >= n \/ child = "failed"
=============================================================================
