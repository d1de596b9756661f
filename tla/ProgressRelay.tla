--------------------------- MODULE ProgressRelay ---------------------------
(***************************************************************************)
(* The way of progress events from the merge thread to the caller          *)
(* (src/lib.rs, relay_from_blocking): a bounded std channel written with   *)
(* try_send, a blocking thread that moves events to a bridge of capacity   *)
(* one, and a task that moves them on to the caller's bounded channel.     *)
(***************************************************************************)
EXTENDS Integers, Sequences, SequencesExt

CONSTANTS
  Total,        \* layers of the image
  CallerCap     \* capacity of the caller's channel

Layers == 0..(Total - 1)
Events == {"started", "finished"} \X Layers
Nothing == <<>>             \* no event is held

VARIABLES
  layer,        \* the merge thread: the layer it is at, counting down
  working,      \* LayerStarted was sent for it
  merging,      \* the merge thread still holds its sender
  std,          \* the std channel
  thread,       \* "running" or "gone"
  threadHas,    \* the event the blocking thread is sending, or Nothing
  bridge,       \* the channel between thread and task
  task,         \* "running" or "gone"
  taskHas,      \* the event the task is sending, or Nothing
  queue,        \* the caller's channel
  caller,       \* "reading", "idle" (keeps its end and does not read) or "gone"
  closed,       \* the caller saw the end of its channel
  emitted,      \* history: every event the merge sent, in order
  got           \* history: every event the caller received, in order

merge == <<layer, working, merging, emitted>>
ends == <<caller, closed>>
vars == <<merge, std, thread, threadHas, bridge, task, taskHas, queue, ends, got>>

(* Mutant: room for one event per layer. *)
CapHalf == IF Total = 0 THEN 1 ELSE Total

Cap == 2 * (IF Total = 0 THEN 1 ELSE Total)

Init ==
  /\ layer = Total - 1
  /\ working = FALSE
  /\ merging = TRUE
  /\ std = <<>>
  /\ thread = "running" /\ threadHas = Nothing
  /\ bridge = <<>>
  /\ task = "running" /\ taskHas = Nothing
  /\ queue = <<>>
  /\ caller \in {"reading", "idle"}
  /\ closed = FALSE
  /\ emitted = <<>>
  /\ got = <<>>

----------------------------------------------------------------------------
(* The merge thread. *)

(* try_send: a full channel or a missing receiver is ignored. *)
Emit(event) ==
  /\ emitted' = Append(emitted, event)
  /\ std' = IF thread = "running" /\ Len(std) < Cap THEN Append(std, event) ELSE std

StartLayer ==
  /\ merging /\ ~working /\ layer >= 0
  /\ working' = TRUE
  /\ Emit(<<"started", layer>>)
  /\ UNCHANGED <<layer, merging, thread, threadHas, bridge, task, taskHas, queue, ends, got>>

FinishLayer ==
  /\ merging /\ working
  /\ working' = FALSE
  /\ layer' = layer - 1
  /\ Emit(<<"finished", layer>>)
  /\ UNCHANGED <<merging, thread, threadHas, bridge, task, taskHas, queue, ends, got>>

(* The merge returns, with its layers done or with an error. *)
EndMerge ==
  /\ merging
  /\ merging' = FALSE
  /\ UNCHANGED <<layer, working, emitted, std, thread, threadHas, bridge, task, taskHas,
                 queue, ends, got>>

----------------------------------------------------------------------------
(* The blocking thread. *)

ThreadReceives ==
  /\ thread = "running" /\ threadHas = Nothing
  /\ std # <<>>
  /\ threadHas' = Head(std)
  /\ std' = Tail(std)
  /\ UNCHANGED <<merge, thread, bridge, task, taskHas, queue, ends, got>>

ThreadSends ==
  /\ thread = "running" /\ threadHas # Nothing
  /\ task = "running" /\ Len(bridge) < 1
  /\ bridge' = Append(bridge, threadHas)
  /\ threadHas' = Nothing
  /\ UNCHANGED <<merge, std, thread, task, taskHas, queue, ends, got>>

ThreadGone ==
  /\ thread' = "gone" /\ std' = <<>> /\ threadHas' = Nothing
  /\ UNCHANGED <<merge, bridge, task, taskHas, queue, ends, got>>

(* Nobody receives from the bridge, or nobody sends events any more. *)
ThreadEnds ==
  /\ thread = "running"
  /\ \/ threadHas # Nothing /\ task = "gone"
     \/ threadHas = Nothing /\ std = <<>> /\ ~merging
  /\ ThreadGone

----------------------------------------------------------------------------
(* The task. *)

TaskReceives ==
  /\ task = "running" /\ taskHas = Nothing
  /\ bridge # <<>>
  /\ taskHas' = Head(bridge)
  /\ bridge' = Tail(bridge)
  /\ UNCHANGED <<merge, std, thread, threadHas, task, queue, ends, got>>

TaskSends ==
  /\ task = "running" /\ taskHas # Nothing
  /\ caller # "gone" /\ Len(queue) < CallerCap
  /\ queue' = Append(queue, taskHas)
  /\ taskHas' = Nothing
  /\ UNCHANGED <<merge, std, thread, threadHas, bridge, task, ends, got>>

TaskGone ==
  /\ task' = "gone" /\ bridge' = <<>> /\ taskHas' = Nothing
  /\ UNCHANGED <<merge, std, thread, threadHas, queue, ends, got>>

(* The caller dropped its receiver, or the thread is gone. *)
TaskEnds ==
  /\ task = "running"
  /\ \/ taskHas # Nothing /\ caller = "gone"
     \/ taskHas = Nothing /\ bridge = <<>> /\ thread = "gone"
  /\ TaskGone

----------------------------------------------------------------------------
(* The caller. *)

Receive ==
  /\ caller = "reading" /\ ~closed
  /\ \/ /\ queue # <<>>
        /\ got' = Append(got, Head(queue))
        /\ queue' = Tail(queue)
        /\ UNCHANGED closed
     \/ /\ queue = <<>> /\ task = "gone"
        /\ closed' = TRUE
        /\ UNCHANGED <<queue, got>>
  /\ UNCHANGED <<merge, std, thread, threadHas, bridge, task, taskHas, caller>>

(* The caller drops its receiver. *)
GoAway ==
  /\ caller # "gone"
  /\ caller' = "gone"
  /\ queue' = <<>>
  /\ UNCHANGED <<merge, std, thread, threadHas, bridge, task, taskHas, closed, got>>

Thread == ThreadReceives \/ ThreadSends \/ ThreadEnds
Task == TaskReceives \/ TaskSends \/ TaskEnds

Next == StartLayer \/ FinishLayer \/ EndMerge \/ Thread \/ Task \/ Receive \/ GoAway

Spec == Init /\ [][Next]_vars

(* Thread, task and a reading caller are scheduled. *)
FairSpec == Spec /\ WF_vars(Thread) /\ WF_vars(Task) /\ WF_vars(Receive)

----------------------------------------------------------------------------
(* Properties. *)

Held(event) == IF event = Nothing THEN <<>> ELSE <<event>>

(* Every variable has its type; the channels keep their bounds. *)
TypeOK ==
  /\ layer \in -1..(Total - 1) /\ working \in BOOLEAN /\ merging \in BOOLEAN
  /\ std \in Seq(Events) /\ Len(std) <= Cap
  /\ thread \in {"running", "gone"} /\ threadHas \in Events \cup {Nothing}
  /\ bridge \in Seq(Events) /\ Len(bridge) <= 1
  /\ task \in {"running", "gone"} /\ taskHas \in Events \cup {Nothing}
  /\ queue \in Seq(Events) /\ Len(queue) <= CallerCap
  /\ caller \in {"reading", "idle", "gone"} /\ closed \in BOOLEAN
  /\ emitted \in Seq(Events) /\ got \in Seq(Events)

(* No event is dropped, doubled or overtaken for a caller that keeps its   *)
(* end, although the merge thread never waits: what it sent is what the    *)
(* caller got followed by what is on the way, at any moment, and the       *)
(* caller's channel closes only after the last event.                      *)
NothingDropped ==
  /\ caller # "gone" =>
       emitted = got \o queue \o Held(taskHas) \o bridge \o Held(threadHas) \o std
  /\ closed => ~merging /\ (caller = "reading" => got = emitted)
=============================================================================
