--------------------------- MODULE PackerProgress ---------------------------
(***************************************************************************)
(* A StreamingPacker that was given a progress channel (src/lib.rs): the   *)
(* merge thread of module StreamingPacker is the one that emits the events *)
(* of module ProgressRelay, around each process_layer of src/overlay.rs.   *)
(***************************************************************************)
EXTENDS StreamingPacker

CONSTANT
  CallerCap     \* capacity of the caller's progress channel

ASSUME ProgressAssumption ==
  /\ Total \in Nat /\ CallerCap \in Nat \ {0}
  /\ LayerErrors \subseteq {"Layer", "Output"}

VARIABLES
  layer, working, merging, std, thread, threadHas, bridge, task, taskHas, queue,
  caller, ended, emitted, got       \* see ProgressRelay, where ended is "closed"

Progress == INSTANCE ProgressRelay WITH closed <- ended

progressVars == <<layer, working, merging, std, thread, threadHas, bridge, task, taskHas,
                  queue, caller, ended, emitted, got>>
allVars == <<vars, progressVars>>

(* StreamingPacker::new with Some(progress_tx). *)
InitAll == Init /\ Progress!Init

(* Mutant: a layer counts as finished when it is taken up. *)
MergeAndTellEarly ==
  /\ MergeThread
  /\ CASE pc' = "done" -> Progress!EndMerge
       [] pc = "drain" /\ pc' = "process" ->
            /\ emitted' = emitted \o <<<<"started", next_index>>, <<"finished", next_index>>>>
            /\ std' = IF thread = "running"
                      THEN std \o <<<<"started", next_index>>, <<"finished", next_index>>>>
                      ELSE std
            /\ layer' = layer - 1
            /\ UNCHANGED <<working, merging, thread, threadHas, bridge, task, taskHas, queue,
                           caller, ended, got>>
       [] OTHER -> UNCHANGED progressVars

(* LayerStarted goes out before process_layer and LayerFinished after it;  *)
(* the sender is dropped when the merge returns.                           *)
MergeAndTell ==
  /\ MergeThread
  /\ CASE pc' = "done" -> Progress!EndMerge
       [] pc' = "process" -> Progress!StartLayer
       [] pc = "process" /\ pc' # "done" -> Progress!FinishLayer
       [] OTHER -> UNCHANGED progressVars

ProgressThread == UNCHANGED vars /\ Progress!Thread
ProgressTask == UNCHANGED vars /\ Progress!Task
ProgressReader == UNCHANGED vars /\ Progress!Receive
ProgressReaderLeaves == UNCHANGED vars /\ Progress!GoAway

(* Everything but the merge thread leaves the progress events alone. *)
NextAll ==
  \/ /\ \/ \E c \in Callers :
             \/ \E item \in Items : Notify(c, item) \/ RefuseIndex(c, item)
             \/ SendItem(c) \/ SendStopped(c)
        \/ Finish \/ Drop \/ FinishReturns
        \/ Relay
     /\ UNCHANGED progressVars
  \/ MergeAndTell
  \/ ProgressThread \/ ProgressTask \/ ProgressReader \/ ProgressReaderLeaves

SpecAll == InitAll /\ [][NextAll]_allVars

(* As in StreamingPacker, and the runtime runs the progress relay and a    *)
(* caller that reads; nothing makes a caller go away.                      *)
FairSpecAll ==
  /\ SpecAll
  /\ WF_allVars(Relay /\ UNCHANGED progressVars)
  /\ WF_allVars(MergeAndTell /\ ~Resequencer!OpenFails)
  /\ WF_allVars(FinishReturns /\ UNCHANGED progressVars)
  /\ \A c \in Callers :
       WF_allVars((SendItem(c) \/ SendStopped(c)) /\ UNCHANGED progressVars)
  /\ WF_allVars(ProgressThread) /\ WF_allVars(ProgressTask) /\ WF_allVars(ProgressReader)

----------------------------------------------------------------------------
(* Properties. *)

(* No event is dropped, doubled or overtaken on its way to a caller that   *)
(* keeps its end, although the merge thread never waits for anybody.       *)
NothingDropped == Progress!NothingDropped

(* A caller that reads to the end of its channel knows what became of the  *)
(* merge: it was told of every layer that was merged, in order, that it    *)
(* was started and then that it was finished, and of no other, but that    *)
(* one was started if the merge failed in it.                              *)
ProgressIsTrue ==
  ended /\ caller = "reading" =>
    /\ Len(got) = 2 * Len(processed) + IF active = Resequencer!Idle THEN 0 ELSE 1
    /\ \A i \in DOMAIN processed :
         /\ got[2 * i - 1] = <<"started", processed[i]>>
         /\ got[2 * i] = <<"finished", processed[i]>>
    /\ active # Resequencer!Idle =>
         got[Len(got)] = <<"started", active>> /\ result \in LayerErrors

(* Once the packer is consumed everything it set up ends: the merge, so    *)
(* that finish returns, the relay of the layers, and the thread and the    *)
(* task of the progress relay, unless the caller keeps its end of the      *)
(* progress channel and does not read.  A caller that reads sees the end.  *)
AllEnd ==
  owner # "held" ~>
    /\ pc = "done" /\ owner # "finishing" /\ relay = "gone"
    /\ (thread = "gone" /\ task = "gone") \/ caller = "idle"
    /\ ended \/ caller # "reading"
=============================================================================
