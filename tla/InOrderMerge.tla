---------------------------- MODULE InOrderMerge ----------------------------
(***************************************************************************)
(* What merge_layers_into_streaming promises its caller, whatever the      *)
(* order of arrival: layers are processed one at a time, newest first,     *)
(* each once, and the merge succeeds only when every one has been.         *)
(***************************************************************************)
EXTENDS Naturals, Sequences

CONSTANT Total              \* layers declared in the manifest

VARIABLES
  processed,                \* indexes of the layers processed, in order
  verdict                   \* "running", "ok", "failed"

Init == processed = <<>> /\ verdict = "running"

(* The newest layer not processed yet. *)
Process ==
  /\ verdict = "running"
  /\ Len(processed) < Total
  /\ processed' = Append(processed, Total - 1 - Len(processed))
  /\ UNCHANGED verdict

Succeed ==
  /\ verdict = "running"
  /\ Len(processed) = Total
  /\ verdict' = "ok"
  /\ UNCHANGED processed

Fail ==
  /\ verdict = "running"
  /\ verdict' = "failed"
  /\ UNCHANGED processed

Next == Process \/ Succeed \/ Fail

Spec == Init /\ [][Next]_<<processed, verdict>>
=============================================================================
