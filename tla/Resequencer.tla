---------------------------- MODULE Resequencer ----------------------------
(***************************************************************************)
(* The resequencing loop of merge_layers_into_streaming (src/overlay.rs):  *)
(* layers arrive on a channel in any order and are processed in descending *)
(* index order, each as soon as all newer ones are done.  What             *)
(* process_layer does to a layer is module Overlay; here it is one span    *)
(* between StartLayer and FinishLayer that may fail.                       *)
(***************************************************************************)
EXTENDS Integers, Sequences, FiniteSets

CONSTANTS
  Total,        \* total_layers
  Arrivals,     \* indexes the other side may send, out-of-range ones included
  MaxItems,     \* bound on the items sent
  LayerErrors   \* how process_layer or finish_output may fail

ASSUME ResequencerAssumption ==
  /\ Total \in Nat
  /\ Arrivals \subseteq Nat
  /\ MaxItems \in Nat
  /\ LayerErrors \subseteq {"Layer", "Output"}

SourceError == -1           \* an Err item: the caller could not supply a layer
Idle == -1                  \* no layer is in process_layer
Indexes == 0..(Total - 1)
Items == Arrivals \cup {SourceError}
Errors == {"LayerSource", "MissingLayers", "LayerIndexOutOfRange", "DuplicateLayer",
           "Layer", "Output"}

VARIABLES
  inbox,        \* the channel: items sent and not received
  sent,         \* how many were sent
  closed,       \* every sender is gone
  pc,           \* "recv", "drain", "process", "done"
  buffer,       \* layers that arrived before their turn
  delivered,    \* the indexes seen so far
  received,     \* how many layers were received
  next_index,   \* the layer to process next
  active,       \* the layer in process_layer, or Idle
  result,       \* "none", "ok" or an error
  taken,        \* history: the items received, in order
  processed     \* history: the layers process_layer finished, in order

channel == <<inbox, sent, closed>>
cursor == <<buffer, delivered, received, next_index, active>>
history == <<taken, processed>>
vars == <<channel, pc, cursor, result, history>>

Init ==
  /\ inbox = <<>>
  /\ sent = 0
  /\ closed = FALSE
  /\ pc = "recv"
  /\ buffer = {}
  /\ delivered = {}
  /\ received = 0
  /\ next_index = IF Total = 0 THEN 0 ELSE Total - 1
  /\ active = Idle
  /\ result = "none"
  /\ taken = <<>>
  /\ processed = <<>>

----------------------------------------------------------------------------
(* The other end of the channel. *)

Send(item) ==
  /\ ~closed
  /\ sent < MaxItems
  /\ inbox' = Append(inbox, item)
  /\ sent' = sent + 1
  /\ UNCHANGED <<closed, pc, cursor, result, history>>

Close ==
  /\ ~closed
  /\ closed' = TRUE
  /\ UNCHANGED <<inbox, sent, pc, cursor, result, history>>

----------------------------------------------------------------------------
(* The merge thread. *)

Stop(verdict) == pc' = "done" /\ result' = verdict

(* write_for_spec: the output cannot be created or the process not         *)
(* started, so the loop never runs and its end of the channel is dropped.  *)
OpenFails ==
  /\ pc = "recv" /\ taken = <<>>
  /\ "Output" \in LayerErrors
  /\ Stop("Output")
  /\ UNCHANGED <<channel, cursor, history>>

Receiving == pc = "recv" /\ received < Total

Take ==
  /\ inbox # <<>>
  /\ inbox' = Tail(inbox)
  /\ taken' = Append(taken, Head(inbox))
  /\ UNCHANGED <<sent, closed, processed>>

(* Mutant: the same index is accepted again. *)
AcceptAgain ==
  /\ Receiving
  /\ Take
  /\ Head(inbox) \in Indexes
  /\ delivered' = delivered \cup {Head(inbox)}
  /\ received' = received + 1
  /\ buffer' = buffer \cup {Head(inbox)}
  /\ pc' = "drain"
  /\ UNCHANGED <<next_index, active, result>>

(* A layer of the image, not seen before, waits for its turn. *)
Accept ==
  /\ Receiving
  /\ Take
  /\ Head(inbox) \in Indexes \ delivered
  /\ delivered' = delivered \cup {Head(inbox)}
  /\ received' = received + 1
  /\ buffer' = buffer \cup {Head(inbox)}
  /\ pc' = "drain"
  /\ UNCHANGED <<next_index, active, result>>

Rejection(item) ==
  CASE item = SourceError -> "LayerSource"
    [] item \notin Indexes \cup {SourceError} -> "LayerIndexOutOfRange"
    [] OTHER -> "DuplicateLayer"

Reject ==
  /\ Receiving
  /\ Take
  /\ Head(inbox) \notin Indexes \ delivered
  /\ Stop(Rejection(Head(inbox)))
  /\ UNCHANGED cursor

(* Mutant: an end of input before the first layer is not noticed. *)
RunDryStarted ==
  /\ Receiving
  /\ received > 0
  /\ inbox = <<>> /\ closed
  /\ Stop("MissingLayers")
  /\ UNCHANGED <<channel, cursor, history>>

(* recv fails: no sender is left and the channel is empty. *)
RunDry ==
  /\ Receiving
  /\ inbox = <<>> /\ closed
  /\ Stop("MissingLayers")
  /\ UNCHANGED <<channel, cursor, history>>

(* Mutant: the layer stays in the buffer (get instead of remove). *)
StartKept ==
  /\ pc = "drain"
  /\ next_index \in buffer
  /\ active' = next_index
  /\ pc' = "process"
  /\ UNCHANGED <<channel, buffer, delivered, received, next_index, result, history>>

(* The layer whose turn it is has arrived. *)
StartLayer ==
  /\ pc = "drain"
  /\ next_index \in buffer
  /\ buffer' = buffer \ {next_index}
  /\ active' = next_index
  /\ pc' = "process"
  /\ UNCHANGED <<channel, delivered, received, next_index, result, history>>

(* After layer 0 the drain loop is left; otherwise the cursor moves down.  *)
FinishLayer ==
  /\ pc = "process"
  /\ processed' = Append(processed, active)
  /\ active' = Idle
  /\ IF next_index = 0
       THEN pc' = "recv" /\ UNCHANGED next_index
       ELSE pc' = "drain" /\ next_index' = next_index - 1
  /\ UNCHANGED <<channel, buffer, delivered, received, result, taken>>

LayerFails ==
  /\ pc = "process"
  /\ \E e \in LayerErrors : Stop(e)
  /\ UNCHANGED <<channel, cursor, history>>

(* The next layer has not arrived: back to receiving. *)
Wait ==
  /\ pc = "drain"
  /\ next_index \notin buffer
  /\ pc' = "recv"
  /\ UNCHANGED <<channel, cursor, result, history>>

(* Mutant: the output is finished when the cursor reaches the base layer.  *)
FinishAtZero ==
  /\ pc = "recv" /\ next_index = 0
  /\ Stop("ok")
  /\ UNCHANGED <<channel, cursor, history>>

(* Every layer was received: finish_output. *)
Finish ==
  /\ pc = "recv" /\ received = Total
  /\ \/ Stop("ok")
     \/ "Output" \in LayerErrors /\ Stop("Output")
  /\ UNCHANGED <<channel, cursor, history>>

Merge ==
  \/ OpenFails
  \/ Accept \/ Reject \/ RunDry
  \/ StartLayer \/ FinishLayer \/ LayerFails \/ Wait
  \/ Finish

Next == (\E item \in Items : Send(item)) \/ Close \/ Merge

Spec == Init /\ [][Next]_vars

(* The merge thread runs whenever it can; nothing makes the other side     *)
(* send or close, or the output impossible to open.                        *)
FairSpec == Spec /\ WF_vars(Merge /\ ~OpenFails)

----------------------------------------------------------------------------
(* Properties. *)

(* Every variable has its type; received counts the indexes seen. *)
TypeOK ==
  /\ inbox \in Seq(Items)
  /\ sent \in 0..MaxItems
  /\ closed \in BOOLEAN
  /\ pc \in {"recv", "drain", "process", "done"}
  /\ buffer \subseteq Indexes
  /\ delivered \subseteq Indexes
  /\ received = Cardinality(delivered)
  /\ next_index \in Nat
  /\ active \in Indexes \cup {Idle}
  /\ result \in Errors \cup {"none", "ok"}
  /\ taken \in Seq(Items)
  /\ processed \in Seq(Indexes)

Finished == {processed[i] : i \in DOMAIN processed}

(* No layer is lost or processed from nowhere: what was delivered is       *)
(* exactly what waits, what is being processed and what is finished, each  *)
(* layer in one of the three places.                                       *)
Conserved ==
  /\ delivered = buffer \cup (Finished \cup ({active} \ {Idle}))
  /\ buffer \cap (Finished \cup {active}) = {}
  /\ active \notin Finished

(* The loop never goes back to waiting while the layer whose turn it is    *)
(* sits in the buffer: processing starts as soon as all newer layers are   *)
(* done.                                                                   *)
NeverIdle == pc = "recv" => next_index \notin buffer

(* Layers are processed newest first, each once, whatever the order of     *)
(* arrival.                                                                *)
NewestFirst == \A i \in DOMAIN processed : processed[i] = Total - i

(* Success means that every layer of the image was processed. *)
SuccessIsComplete == result = "ok" => Finished = Indexes

(* The first bad item decides: every item before it was a new layer of the *)
(* image, and the error names what was wrong with it.                      *)
FirstFaultDecides ==
  /\ \A i, j \in DOMAIN taken : i < j /\ j < Len(taken) =>
       taken[i] \in Indexes /\ taken[i] # taken[j]
  /\ result = "LayerSource" => taken[Len(taken)] = SourceError
  /\ result = "LayerIndexOutOfRange" => taken[Len(taken)] >= Total
  /\ result = "DuplicateLayer" =>
       \E i \in 1..(Len(taken) - 1) : taken[i] = taken[Len(taken)]
  /\ result = "MissingLayers" => Cardinality(delivered) < Total

AllSent == Indexes \subseteq delivered \cup {inbox[i] : i \in DOMAIN inbox}

(* The merge ends once the other side has gone, also before the first      *)
(* layer, and once every layer has been sent, without waiting for the      *)
(* channel to close.                                                       *)
MergeEnds == closed \/ AllSent ~> pc = "done"

(* The loop implements the in-order merge. *)
Verdict == CASE result = "none" -> "running" [] result = "ok" -> "ok" [] OTHER -> "failed"
InOrder == INSTANCE InOrderMerge WITH verdict <- Verdict
InOrderSpec == InOrder!Spec
=============================================================================
