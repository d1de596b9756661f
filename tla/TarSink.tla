------------------------------- MODULE TarSink -------------------------------
(***************************************************************************)
(* write_tar_with_progress of src/tar.rs: the merge writes straight into   *)
(* the output file, with no consumer beside it.                            *)
(*                                                                         *)
(* A merge that returns early drops its tar::Builder, whose destructor     *)
(* writes the end-of-archive blocks: what it leaves is a shortened archive *)
(* that is well formed.                                                    *)
(***************************************************************************)
EXTENDS Integers

CONSTANTS
  Chunks,   \* length of the merged tar stream
  Faults    \* what may fail, a subset of AllFaults

AllFaults == {"create", "input", "encode", "full", "unlink"}

VARIABLES
  at,       \* "start", "merge", "remove" or "returned"
  output,   \* the file: "absent", "stale", "partial", "short" or "whole"
  sent,     \* chunks written to it
  merge,    \* what the merge returned: "none", "ok", "input" or "output"
  causes,   \* history: what made the merge fail
  kept,     \* history: the file could not be removed after a failure
  result    \* "none", "ok", "input" or "output"

vars == <<at, output, sent, merge, causes, kept, result>>

Init ==
  /\ at = "start"
  /\ output \in {"absent", "stale"}
  /\ sent = 0
  /\ merge = "none" /\ causes = {} /\ kept = FALSE /\ result = "none"

(* What was at the path is truncated. *)
Create ==
  /\ at = "start"
  /\ at' = "merge" /\ output' = "partial"
  /\ UNCHANGED <<sent, merge, causes, kept, result>>

CreateFails ==
  /\ at = "start" /\ "create" \in Faults
  /\ at' = "returned" /\ result' = "output"
  /\ UNCHANGED <<output, sent, merge, causes, kept>>

WriteChunk ==
  /\ at = "merge" /\ sent < Chunks
  /\ sent' = sent + 1
  /\ UNCHANGED <<at, output, merge, causes, kept, result>>

(* The merge returns, and the builder and the file are dropped. *)
MergeReturns(kind, why) ==
  /\ at = "merge"
  /\ merge' = kind /\ at' = "remove"
  /\ causes' = why
  /\ UNCHANGED <<sent, kept, result>>

MergeOk == sent = Chunks /\ output' = "whole" /\ MergeReturns("ok", {})

(* A layer does not come or cannot be read, or a deferred link cannot be   *)
(* encoded, which finish_output counts as output.                          *)
MergeFails ==
  /\ sent < Chunks /\ output' = "short"
  /\ \/ "input" \in Faults /\ MergeReturns("input", {"input"})
     \/ "encode" \in Faults /\ MergeReturns("output", {"encode"})

(* The disk is full; the end of the archive may fit nevertheless. *)
WriteFails ==
  /\ sent < Chunks /\ "full" \in Faults
  /\ output' \in {"partial", "short"}
  /\ MergeReturns("output", {"full"})

(* remove_file, whose own error is ignored. *)
Remove ==
  \/ output' = "absent" /\ UNCHANGED kept
  \/ "unlink" \in Faults /\ kept' = TRUE /\ UNCHANGED output

(* On an error of any kind the file is removed. *)
Return ==
  /\ at = "remove"
  /\ result' = merge /\ at' = "returned"
  /\ IF merge = "ok" THEN UNCHANGED <<output, kept>> ELSE Remove
  /\ UNCHANGED <<sent, merge, causes>>

Sink == Create \/ WriteChunk \/ MergeOk \/ Return

Next == Sink \/ CreateFails \/ MergeFails \/ WriteFails

----------------------------------------------------------------------------
(* Properties. *)

(* After success there is the whole tar, and after an error of the merge   *)
(* there is no file, unless it cannot be removed.                          *)
WholeOrNothing ==
  at = "returned" /\ merge # "none" =>
    IF result = "ok" THEN output = "whole" /\ sent = Chunks ELSE output = "absent" \/ kept

----------------------------------------------------------------------------
(* A statement of the source that some execution contradicts. *)

(* Callers never observe a truncated tar.                                  *)
NeverTruncated == at = "returned" => output \notin {"partial", "short"}
=============================================================================
