-------------------------- MODULE StreamingPacker --------------------------
(***************************************************************************)
(* StreamingPacker of src/lib.rs: callers deliver layers through a bounded *)
(* tokio channel, a detached task relays them to the unbounded std channel *)
(* of the merge thread (module Resequencer), and the owner drops the       *)
(* sender and waits for the merge in finish.                               *)
(***************************************************************************)
EXTENDS Integers, Sequences, SequencesExt

CONSTANTS
  Total,        \* layer_metas.len()
  Arrivals,     \* the indexes callers name, out-of-range ones included
  MaxItems,     \* bound on the calls made
  LayerErrors,  \* how process_layer or finish_output may fail
  Callers       \* the tasks that share the packer

VARIABLES
  inbox, sent, closed, pc, buffer, delivered, received, next_index, active, result,
  taken, processed,     \* of the merge thread: see Resequencer
  owner,        \* the packer: "held", "finishing", "returned" or "dropped"
  layers,       \* the tokio channel
  relay,        \* relay_to_blocking: "running" or "gone"
  calling,      \* per caller: the item it is sending, or NoCall
  made,         \* calls made
  answers       \* history: <<item, answer>> for every call that returned

Resequencer == INSTANCE Resequencer

Indexes == Resequencer!Indexes
Items == Resequencer!Items
SourceError == Resequencer!SourceError
NoCall == -2
Cap == IF Total = 0 THEN 1 ELSE Total
Answers == {"ok", "out_of_range", "stopped"}

mergeVars == <<inbox, sent, closed, pc, buffer, delivered, received, next_index, active,
               result, taken, processed>>
channelVars == <<inbox, sent, closed>>
callerVars == <<calling, made, answers>>
vars == <<mergeVars, owner, layers, relay, calling, made, answers>>

(* StreamingPacker::new: both channels, the relay and the merge thread.    *)
Init ==
  /\ Resequencer!Init
  /\ owner = "held"
  /\ layers = <<>>
  /\ relay = "running"
  /\ calling = [c \in Callers |-> NoCall]
  /\ made = 0
  /\ answers = {}

----------------------------------------------------------------------------
(* The callers. *)

Call(c) == owner = "held" /\ calling[c] = NoCall /\ made < MaxItems

(* notify_layer_ready of a layer of the image, and notify_error: the item  *)
(* is on its way into the channel.                                         *)
Notify(c, item) ==
  /\ Call(c)
  /\ item \in Indexes \cup {SourceError}
  /\ made' = made + 1
  /\ calling' = [calling EXCEPT ![c] = item]
  /\ UNCHANGED <<mergeVars, owner, layers, relay, answers>>

(* notify_layer_ready of an index the image does not have. *)
RefuseIndex(c, item) ==
  /\ Call(c)
  /\ item \notin Indexes \cup {SourceError}
  /\ made' = made + 1
  /\ answers' = answers \cup {<<item, "out_of_range">>}
  /\ UNCHANGED <<mergeVars, owner, layers, relay, calling>>

Answer(c, answer) ==
  /\ calling' = [calling EXCEPT ![c] = NoCall]
  /\ answers' = answers \cup {<<calling[c], answer>>}

(* The send completes when the channel has room. *)
SendItem(c) ==
  /\ calling[c] # NoCall
  /\ relay = "running"
  /\ Len(layers) < Cap
  /\ layers' = Append(layers, calling[c])
  /\ Answer(c, "ok")
  /\ UNCHANGED <<mergeVars, owner, relay, made>>

(* Mutant: a full channel is waited on even when nobody reads it. *)
SendStoppedEmpty(c) ==
  /\ calling[c] # NoCall
  /\ relay = "gone" /\ layers # <<>>
  /\ Answer(c, "stopped")
  /\ UNCHANGED <<mergeVars, owner, layers, relay, made>>

(* The receiver is gone: PackerStopped, or nothing for notify_error. *)
SendStopped(c) ==
  /\ calling[c] # NoCall
  /\ relay = "gone"
  /\ Answer(c, "stopped")
  /\ UNCHANGED <<mergeVars, owner, layers, relay, made>>

(* finish and drop consume the packer: no call is under way. *)
Release ==
  /\ owner = "held"
  /\ \A c \in Callers : calling[c] = NoCall
  /\ UNCHANGED <<mergeVars, layers, relay, callerVars>>

Finish == Release /\ owner' = "finishing"

Drop == Release /\ owner' = "dropped"

(* join: the merge task has returned. *)
FinishReturns ==
  /\ owner = "finishing"
  /\ pc = "done"
  /\ owner' = "returned"
  /\ UNCHANGED <<mergeVars, layers, relay, callerVars>>

----------------------------------------------------------------------------
(* relay_to_blocking. *)

RelayItem ==
  /\ relay = "running" /\ layers # <<>>
  /\ pc # "done"
  /\ Resequencer!Send(Head(layers))
  /\ layers' = Tail(layers)
  /\ UNCHANGED <<owner, relay, callerVars>>

(* Both ends the task holds go with it, and the items still in its channel. *)
RelayGone == relay' = "gone" /\ layers' = <<>> /\ Resequencer!Close

(* The merge has stopped and dropped its receiver: the send fails. *)
RelayBreaks ==
  /\ relay = "running" /\ layers # <<>>
  /\ pc = "done"
  /\ RelayGone
  /\ UNCHANGED <<owner, callerVars>>

(* Mutant: the task ends with the sender, whatever the channel still holds. *)
RelayEndsEarly ==
  /\ relay = "running"
  /\ owner # "held"
  /\ RelayGone
  /\ UNCHANGED <<owner, callerVars>>

(* Mutant: only finish closes the channel. *)
RelayEndsOnFinish ==
  /\ relay = "running" /\ layers = <<>>
  /\ owner \in {"finishing", "returned"}
  /\ RelayGone
  /\ UNCHANGED <<owner, callerVars>>

(* The sender was dropped and the channel is empty. *)
RelayEnds ==
  /\ relay = "running" /\ layers = <<>>
  /\ owner # "held"
  /\ RelayGone
  /\ UNCHANGED <<owner, callerVars>>

Relay == RelayItem \/ RelayBreaks \/ RelayEnds

MergeThread ==
  Resequencer!Merge /\ UNCHANGED <<owner, layers, relay, callerVars>>

Next ==
  \/ \E c \in Callers :
       \/ \E item \in Items : Notify(c, item) \/ RefuseIndex(c, item)
       \/ SendItem(c) \/ SendStopped(c)
  \/ Finish \/ Drop \/ FinishReturns
  \/ Relay
  \/ MergeThread

Spec == Init /\ [][Next]_vars

(* The runtime runs the relay, the merge thread, a caller whose send can   *)
(* complete, and the join; nobody is made to call or to finish, and no     *)
(* output has to be impossible to open.                                    *)
Fairness ==
  /\ WF_vars(Relay)
  /\ WF_vars(MergeThread /\ ~Resequencer!OpenFails)
  /\ WF_vars(FinishReturns)
  /\ \A c \in Callers : WF_vars(SendItem(c) \/ SendStopped(c))

FairSpec == Spec /\ Fairness

----------------------------------------------------------------------------
(* Properties. *)

(* Every variable of the packer has its type. *)
TypeOK ==
  /\ Resequencer!TypeOK
  /\ owner \in {"held", "finishing", "returned", "dropped"}
  /\ layers \in Seq(Items) /\ Len(layers) <= Cap
  /\ relay \in {"running", "gone"}
  /\ calling \in [Callers -> Items \cup {NoCall}]
  /\ made \in 0..MaxItems
  /\ answers \subseteq Items \X Answers

Accepted == {item \in Items : <<item, "ok">> \in answers}

(* While the merge runs, nothing a caller was told is delivered gets lost: *)
(* it is in one of the two channels or was received.                       *)
NothingLost ==
  pc # "done" => Accepted = ToSet(layers) \cup ToSet(inbox) \cup ToSet(taken)

(* No call waits for ever, whatever the merge does and whatever the other  *)
(* callers do.                                                             *)
CallsReturn == \A c \in Callers : calling[c] # NoCall ~> calling[c] = NoCall

(* What finish returns fits what the callers were told, however calls,     *)
(* relay, merge and owner interleave.  It returns Ok only if for every     *)
(* layer of the image a call has returned Ok, and MissingLayers only if    *)
(* for some layer none has; a source error is one that a caller reported,  *)
(* and no index that the image does not have gets as far as the merge.     *)
VerdictFitsCalls ==
  owner = "returned" =>
    /\ result \notin {"none", "LayerIndexOutOfRange"}
    /\ result = "ok" => Indexes \subseteq Accepted
    /\ result = "MissingLayers" => ~(Indexes \subseteq Accepted)
    /\ result = "LayerSource" => SourceError \in Accepted

----------------------------------------------------------------------------
(* Statements of the source that some schedule contradicts. *)

(* After a notify_error, finish returns an error. *)
NotifiedErrorFails ==
  owner = "returned" /\ <<SourceError, "ok">> \in answers => result # "ok"

(* The packer stops accepting layers only on an error, which finish then   *)
(* returns.                                                                *)
StoppedMeansError ==
  owner = "returned" /\ (\E i \in Indexes : <<i, "stopped">> \in answers) => result # "ok"
=============================================================================
