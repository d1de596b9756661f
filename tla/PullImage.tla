----------------------------- MODULE PullImage -----------------------------
(***************************************************************************)
(* pull_image of ocirender-cli/src/registry/client.rs: workers take layers *)
(* from a shared queue, newest first, download them and hand them to the   *)
(* packer; the main task joins the workers, tells the packer of the first  *)
(* error and returns what finish returns.                                  *)
(***************************************************************************)
EXTENDS Integers, Sequences, FiniteSets

CONSTANTS
  Total,        \* layers of the manifest
  LayerErrors,  \* how process_layer or finish_output may fail
  Workers,      \* the download tasks
  Main          \* the task of pull_image

(* An image without layers is refused, and at least one worker is started. *)
ASSUME PullAssumption ==
  /\ Total \in Nat \ {0}
  /\ LayerErrors \subseteq {"Layer", "Output"}
  /\ Workers # {} /\ Main \notin Workers

Callers == Workers \cup {Main}
Arrivals == 0..(Total - 1)
MaxItems == Total + 1       \* one call per layer and one for the error

VARIABLES
  inbox, sent, closed, pc, buffer, delivered, received, next_index, active, result,
  taken, processed, owner, layers, relay, calling, made, answers,   \* see StreamingPacker
  queue,        \* the work queue
  worker,       \* per worker: [step, layer]
  joined,       \* the workers main has joined
  first_err     \* "none", "download" or "stopped"

Packer == INSTANCE StreamingPacker

packerVars == <<inbox, sent, closed, pc, buffer, delivered, received, next_index, active,
                result, taken, processed, owner, layers, relay, calling, made, answers>>
vars == <<packerVars, queue, worker, joined, first_err>>

NoLayer == -1
At(step, layer) == [step |-> step, layer |-> layer]

WorkQueue == [i \in 1..Total |-> Total - i]

Init ==
  /\ Packer!Init
  /\ queue = WorkQueue
  /\ worker = [w \in Workers |-> At("idle", NoLayer)]
  /\ joined = {}
  /\ first_err = "none"

----------------------------------------------------------------------------
(* A worker. *)

Becomes(w, step, layer) == worker' = [worker EXCEPT ![w] = At(step, layer)]

TakeLayer(w) ==
  /\ worker[w].step = "idle"
  /\ queue # <<>>
  /\ Becomes(w, "downloading", Head(queue))
  /\ queue' = Tail(queue)
  /\ UNCHANGED <<packerVars, joined, first_err>>

WorkerDone(w) ==
  /\ worker[w].step = "idle"
  /\ queue = <<>>
  /\ Becomes(w, "finished", NoLayer)
  /\ UNCHANGED <<packerVars, queue, joined, first_err>>

(* The blob is complete and its digest right: notify_layer_ready. *)
Downloaded(w) ==
  /\ worker[w].step = "downloading"
  /\ Packer!Notify(w, worker[w].layer)
  /\ Becomes(w, "notifying", worker[w].layer)
  /\ UNCHANGED <<queue, joined, first_err>>

(* The request, the stream, the file or the digest fails. *)
DownloadFails(w) ==
  /\ worker[w].step = "downloading"
  /\ Becomes(w, "download", NoLayer)
  /\ UNCHANGED <<packerVars, queue, joined, first_err>>

Notified(w) ==
  /\ worker[w].step = "notifying"
  /\ Packer!SendItem(w)
  /\ Becomes(w, "idle", NoLayer)
  /\ UNCHANGED <<queue, joined, first_err>>

(* Mutant: a layer the packer does not take is downloaded again. *)
NotifyRetried(w) ==
  /\ worker[w].step = "notifying"
  /\ Packer!SendStopped(w)
  /\ Becomes(w, "downloading", worker[w].layer)
  /\ UNCHANGED <<queue, joined, first_err>>

(* The packer has stopped. *)
NotifyStopped(w) ==
  /\ worker[w].step = "notifying"
  /\ Packer!SendStopped(w)
  /\ Becomes(w, "stopped", NoLayer)
  /\ UNCHANGED <<queue, joined, first_err>>

Work(w) ==
  \/ TakeLayer(w) \/ WorkerDone(w)
  \/ Downloaded(w) \/ DownloadFails(w)
  \/ Notified(w) \/ NotifyStopped(w)

----------------------------------------------------------------------------
(* The main task. *)

Ended(w) == worker[w].step \in {"finished", "download", "stopped"}

(* join_next: the first error is kept. *)
Join(w) ==
  /\ w \notin joined /\ Ended(w)
  /\ joined' = joined \cup {w}
  /\ first_err' = IF first_err = "none" /\ worker[w].step # "finished"
                  THEN worker[w].step ELSE first_err
  /\ UNCHANGED <<packerVars, queue, worker>>

Drained == joined = Workers /\ owner = "held"

Told == \E answer \in Packer!Answers : <<Packer!SourceError, answer>> \in answers

ReportError ==
  /\ Drained /\ first_err # "none" /\ ~Told
  /\ Packer!Notify(Main, Packer!SourceError)
  /\ UNCHANGED <<queue, worker, joined, first_err>>

Reported ==
  /\ Packer!SendItem(Main) \/ Packer!SendStopped(Main)
  /\ UNCHANGED <<queue, worker, joined, first_err>>

(* Mutant: the error is not forwarded. *)
FinishUntold ==
  /\ Drained
  /\ owner' = "finishing"
  /\ UNCHANGED <<inbox, sent, closed, pc, buffer, delivered, received, next_index, active,
                 result, taken, processed, layers, relay, calling, made, answers,
                 queue, worker, joined, first_err>>

(* Mutant: the first error ends the wait for the workers. *)
FinishFirst ==
  /\ owner = "held"
  /\ joined = Workers \/ first_err # "none"
  /\ owner' = "finishing"
  /\ UNCHANGED <<inbox, sent, closed, pc, buffer, delivered, received, next_index, active,
                 result, taken, processed, layers, relay, calling, made, answers,
                 queue, worker, joined, first_err>>

(* The workers' handles are gone, so the packer is unwrapped and finished. *)
Finish ==
  /\ Drained /\ (first_err = "none" \/ Told)
  /\ owner' = "finishing"
  /\ UNCHANGED <<inbox, sent, closed, pc, buffer, delivered, received, next_index, active,
                 result, taken, processed, layers, relay, calling, made, answers,
                 queue, worker, joined, first_err>>

Return ==
  /\ Packer!FinishReturns
  /\ UNCHANGED <<queue, worker, joined, first_err>>

MainTask == (\E w \in Workers : Join(w)) \/ ReportError \/ Reported \/ Finish \/ Return

RelayTask == Packer!Relay /\ UNCHANGED <<queue, worker, joined, first_err>>
MergeThread == Packer!MergeThread /\ UNCHANGED <<queue, worker, joined, first_err>>

Next == (\E w \in Workers : Work(w)) \/ MainTask \/ RelayTask \/ MergeThread

Spec == Init /\ [][Next]_vars

(* The runtime schedules every task; a download ends, well or badly.       *)
FairSpec ==
  Spec /\ WF_vars(MainTask) /\ WF_vars(RelayTask)
       /\ WF_vars(MergeThread /\ ~Packer!Resequencer!OpenFails)
       /\ \A w \in Workers : WF_vars(Work(w))

----------------------------------------------------------------------------
(* Properties. *)

(* Every variable has its type. *)
TypeOK ==
  /\ Packer!TypeOK
  /\ queue \in Seq(Arrivals)
  /\ \A w \in Workers :
       /\ worker[w].step \in {"idle", "downloading", "notifying", "finished",
                              "download", "stopped"}
       /\ worker[w].layer \in Arrivals \cup {NoLayer}
  /\ joined \subseteq Workers
  /\ first_err \in {"none", "download", "stopped"}

(* The user is told why a pull failed.  A failed download fails the pull,  *)
(* although pull_image does not return that error itself: it is in the     *)
(* channel before the channel closes, so a merge that still runs never     *)
(* ends with "the layers stopped arriving".  And a source error is always  *)
(* a download's, never the complaint of a worker that found the packer     *)
(* stopped, which would hide why the packer stopped.                       *)
FailureIsTold ==
  /\ owner = "returned" /\ (\E w \in Workers : worker[w].step = "download") => result # "ok"
  /\ result # "MissingLayers"
  /\ result = "LayerSource" => first_err = "download"

(* The pull returns, whatever downloads, layers and output do. *)
PullEnds == <>(owner = "returned")

(* The workers and the main task keep the packer's protocol: finish is     *)
(* called once no call is under way and nobody calls later.                *)
KeepsProtocol == Packer!Spec
=============================================================================
