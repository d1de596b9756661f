-------------------------- MODULE PullImageProofs --------------------------
(***************************************************************************)
(* Proofs about pull_image, for any number of layers and workers and       *)
(* whatever fails: its tasks keep the protocol of the packer, so that the  *)
(* merge behind them is the one ResequencerProofs speaks of, and a pull    *)
(* tells why it failed.                                                    *)
(*                                                                         *)
(* Every layer is in one place (OnePlace): in the queue, in a worker's     *)
(* hands, or on its way to the merge and there.  None leaves these places  *)
(* before the merge has ended unless a worker fails (Somewhere), and the   *)
(* layer of a failed download never comes back to any of them (Lost).      *)
(***************************************************************************)
EXTENDS PullImage, SequenceTheorems, TLAPS

Loop == INSTANCE ResequencerProofs

NoCall == -2
Error == -1
Calls == Arrivals \cup {Error}
WorkerStates ==
  [step : {"idle", "downloading", "notifying", "finished", "download", "stopped"},
   layer : Arrivals \cup {NoLayer}]

In(s) == {s[i] : i \in DOMAIN s}
Way == In(layers) \cup In(inbox) \cup delivered
Busy(w) == worker[w].step \in {"downloading", "notifying"}

Types ==
  /\ queue \in Seq(Arrivals)
  /\ worker \in [Workers -> WorkerStates]
  /\ joined \subseteq Workers
  /\ first_err \in {"none", "download", "stopped"}
  /\ layers \in Seq(Calls) /\ inbox \in Seq(Calls)
  /\ calling \in [Callers -> Calls \cup {NoCall}]
  /\ owner \in {"held", "finishing", "returned"}
  /\ relay \in {"running", "gone"}

(* Who is in a call, and with what. *)
Calling ==
  /\ \A w \in Workers : Busy(w) => worker[w].layer \in Arrivals
  /\ \A w \in Workers :
       calling[w] = IF worker[w].step = "notifying" THEN worker[w].layer ELSE NoCall
  /\ calling[Main] \in {Error, NoCall}
  /\ calling[Main] = Error => joined = Workers /\ first_err # "none" /\ ~Told

(* What main knows of the workers, and when it calls finish. *)
Joining ==
  /\ \A w \in joined : Ended(w)
  /\ first_err = "none" => \A w \in joined : worker[w].step = "finished"
  /\ \A w \in Workers : worker[w].step = "finished" => queue = <<>>
  /\ Told => joined = Workers
  /\ owner # "held" => /\ joined = Workers /\ calling[Main] = NoCall
                       /\ first_err = "none" \/ Told

(* The relay lives until the packer is finished or the merge has ended. *)
Relaying ==
  /\ closed <=> relay = "gone"
  /\ relay = "gone" => layers = <<>> /\ (owner # "held" \/ pc = "done")
  /\ first_err = "stopped" => relay = "gone"
  /\ \A w \in Workers : worker[w].step = "stopped" => relay = "gone"

OnePlace ==
  /\ \A i, j \in DOMAIN queue : queue[i] = queue[j] => i = j
  /\ In(queue) \cap Way = {}
  /\ \A w \in Workers : Busy(w) => worker[w].layer \notin In(queue) \cup Way
  /\ \A v, w \in Workers : Busy(v) /\ Busy(w) /\ worker[v].layer = worker[w].layer => v = w

Somewhere ==
  pc # "done" => \A x \in Arrivals :
    \/ x \in In(queue) \cup Way
    \/ \E w \in Workers : Busy(w) /\ worker[w].layer = x
    \/ \E w \in Workers : worker[w].step \in {"download", "stopped"}

Lost ==
  (\E w \in Workers : worker[w].step = "download") =>
    \E x \in Arrivals : /\ x \notin In(queue) \cup Way
                        /\ \A w \in Workers : Busy(w) => worker[w].layer # x

(* An error in the channel is a download's, and is there until the merge   *)
(* has taken it.                                                           *)
Telling ==
  /\ Error \in In(layers) \cup In(inbox) => first_err = "download"
  /\ result = "LayerSource" => first_err = "download"
  /\ Told /\ pc # "done" => Error \in In(layers) \cup In(inbox)
  /\ result # "MissingLayers"

IInv ==
  /\ Loop!IInv /\ Types
  /\ Calling /\ Joining /\ Relaying
  /\ OnePlace /\ Somewhere /\ Lost /\ Telling

USE PullAssumption

----------------------------------------------------------------------------
(* The packer and the loop behind it. *)

LEMMA LoopAssumption == Loop!ResequencerAssumption
  BY DEF Loop!ResequencerAssumption, Arrivals, MaxItems

LEMMA LoopMerge == Packer!Resequencer!Merge => Loop!Merge
  BY DEF Packer!Resequencer!Merge, Packer!Resequencer!Accept, Packer!Resequencer!Reject,
       Packer!Resequencer!OpenFails, Packer!Resequencer!RunDry, Packer!Resequencer!StartLayer,
       Packer!Resequencer!FinishLayer, Packer!Resequencer!LayerFails,
       Packer!Resequencer!Wait, Packer!Resequencer!Finish, Packer!Resequencer!Receiving,
       Packer!Resequencer!Take, Packer!Resequencer!Stop, Packer!Resequencer!Rejection,
       Packer!Resequencer!channel, Packer!Resequencer!cursor, Packer!Resequencer!history,
       Packer!Resequencer!Indexes, Packer!Resequencer!SourceError, Packer!Resequencer!Idle,
       Loop!Merge, Loop!OpenFails, Loop!Accept, Loop!Reject, Loop!RunDry, Loop!StartLayer, Loop!FinishLayer,
       Loop!LayerFails, Loop!Wait, Loop!Finish, Loop!Receiving, Loop!Take, Loop!Stop,
       Loop!Rejection, Loop!channel, Loop!cursor, Loop!history, Loop!Indexes,
       Loop!SourceError, Loop!Idle

(* What the merge thread takes from the channel, and what it says of it.   *)
LEMMA MergeTakes ==
  ASSUME Loop!Merge
  PROVE  /\ pc # "done" /\ UNCHANGED <<closed, sent>>
         /\ \/ /\ UNCHANGED <<inbox, delivered>>
               /\ result' = "LayerSource" => result = "LayerSource"
               /\ result' = "MissingLayers" =>
                    result = "MissingLayers" \/ (closed /\ inbox = <<>> /\ received < Total)
            \/ /\ inbox # <<>> /\ inbox' = Tail(inbox) /\ Head(inbox) \in Arrivals
               /\ delivered' = delivered \cup {Head(inbox)} /\ result' = result
            \/ /\ inbox # <<>> /\ inbox' = Tail(inbox) /\ delivered' = delivered
               /\ pc' = "done" /\ result' # "MissingLayers"
               /\ result' = "LayerSource" => Head(inbox) = Error
<1>1. CASE Loop!Accept
  BY <1>1 DEF Loop!Accept, Loop!Receiving, Loop!Take, Loop!Indexes, Arrivals
<1>2. CASE Loop!Reject
  BY <1>2 DEF Loop!Reject, Loop!Receiving, Loop!Take, Loop!Stop, Loop!Rejection, Loop!cursor,
       Loop!SourceError, Error
<1>3. CASE Loop!RunDry
  BY <1>3 DEF Loop!RunDry, Loop!Receiving, Loop!Stop, Loop!channel, Loop!cursor
<1>4. CASE Loop!OpenFails \/ Loop!LayerFails \/ Loop!Finish
  BY <1>4 DEF Loop!OpenFails, Loop!LayerFails, Loop!Finish, Loop!Stop, Loop!channel, Loop!cursor
<1>5. CASE Loop!StartLayer \/ Loop!FinishLayer \/ Loop!Wait
  BY <1>5 DEF Loop!StartLayer, Loop!FinishLayer, Loop!Wait, Loop!channel, Loop!cursor
<1> QED BY <1>1, <1>2, <1>3, <1>4, <1>5 DEF Loop!Merge

LEMMA Members ==
  ASSUME NEW S, NEW s \in Seq(S)
  PROVE  /\ \A e \in S : Append(s, e) \in Seq(S) /\ In(Append(s, e)) = In(s) \cup {e}
         /\ s # <<>> => /\ Head(s) \in S /\ Tail(s) \in Seq(S)
                        /\ In(s) = {Head(s)} \cup In(Tail(s))
<1>1. ASSUME NEW e \in S PROVE In(Append(s, e)) = In(s) \cup {e}
  <2>1. /\ DOMAIN Append(s, e) = DOMAIN s \cup {Len(s) + 1}
        /\ Append(s, e)[Len(s) + 1] = e
        /\ \A i \in DOMAIN s : Append(s, e)[i] = s[i]
    OBVIOUS
  <2> QED BY <2>1 DEF In
<1>2. ASSUME s # <<>>
      PROVE  Head(s) \in S /\ Tail(s) \in Seq(S) /\ In(s) = {Head(s)} \cup In(Tail(s))
  <2>1. /\ Head(s) \in S /\ Head(s) = s[1] /\ Tail(s) \in Seq(S)
        /\ Len(s) \in Nat /\ Len(s) > 0 /\ DOMAIN s = 1..Len(s)
        /\ DOMAIN Tail(s) = 1..(Len(s) - 1)
        /\ \A i \in 1..(Len(s) - 1) : Tail(s)[i] = s[i + 1]
    BY <1>2, HeadTailProperties
  <2>2. ASSUME NEW i \in DOMAIN s PROVE s[i] \in {Head(s)} \cup In(Tail(s))
    <3>1. CASE i = 1
      BY <2>1, <3>1
    <3>2. CASE i # 1
      <4>1. i - 1 \in DOMAIN Tail(s) /\ Tail(s)[i - 1] = s[i]
        BY <2>1, <3>2
      <4> QED BY <4>1 DEF In
    <3> QED BY <3>1, <3>2
  <2>3. ASSUME NEW i \in DOMAIN Tail(s) PROVE Tail(s)[i] \in In(s)
    <3>1. i + 1 \in DOMAIN s /\ Tail(s)[i] = s[i + 1]
      BY <2>1
    <3> QED BY <3>1 DEF In
  <2>4. Head(s) \in In(s)
    BY <2>1 DEF In
  <2> QED BY <2>1, <2>2, <2>3, <2>4 DEF In
<1> QED BY <1>1, <1>2

(* The first of distinct elements is not among the others. *)
LEMMA FirstIsGone ==
  ASSUME NEW S, NEW s \in Seq(S), s # <<>>, \A i, j \in DOMAIN s : s[i] = s[j] => i = j
  PROVE  /\ Head(s) \notin In(Tail(s))
         /\ \A i, j \in DOMAIN Tail(s) : Tail(s)[i] = Tail(s)[j] => i = j
<1>1. /\ Head(s) = s[1] /\ Len(s) \in Nat /\ Len(s) > 0 /\ DOMAIN s = 1..Len(s)
      /\ DOMAIN Tail(s) = 1..(Len(s) - 1)
      /\ \A i \in 1..(Len(s) - 1) : Tail(s)[i] = s[i + 1]
  BY HeadTailProperties
<1> QED BY <1>1 DEF In

LEMMA LoopStart == Init => Loop!Init
<1>1. Init => Packer!Resequencer!Init
  BY DEF Init, Packer!Init
<1> QED BY <1>1 DEF Packer!Resequencer!Init, Loop!Init, Packer!Resequencer!Idle, Loop!Idle

LEMMA Initially == Init => IInv
<1> SUFFICES ASSUME Init PROVE IInv
  OBVIOUS
<1>1. Packer!Init /\ Packer!Resequencer!Init
  BY DEF Init, Packer!Init
<1>2. Loop!IInv
  BY LoopStart, LoopAssumption, Loop!InitInv
<1>3. /\ queue = WorkQueue /\ worker = [w \in Workers |-> At("idle", NoLayer)]
      /\ joined = {} /\ first_err = "none" /\ owner = "held" /\ layers = <<>>
      /\ relay = "running" /\ calling = [c \in Callers |-> NoCall] /\ answers = {}
      /\ inbox = <<>> /\ closed = FALSE /\ pc = "recv" /\ delivered = {} /\ result = "none"
  BY <1>1 DEF Init, Packer!Init, Packer!Resequencer!Init, Packer!NoCall, NoCall, Callers
<1>4. queue \in Seq(Arrivals) /\ DOMAIN queue = 1..Total
      /\ \A i \in 1..Total : queue[i] = Total - i
  BY <1>3 DEF WorkQueue, Arrivals
<1>5. \A w \in Workers : worker[w] = [step |-> "idle", layer |-> NoLayer]
  BY <1>3 DEF At
<1>6. Types
  BY <1>3, <1>4 DEF Types, WorkerStates, At
<1>7. Calling /\ Joining /\ Relaying
  <2>1. ~Told /\ \A c \in Callers : calling[c] = NoCall
    BY <1>3 DEF Told
  <2>2. Calling
    BY <1>5, <2>1 DEF Calling, Callers, Busy, NoCall, Error
  <2>3. Joining
    <3>1. joined = {} /\ first_err = "none" /\ owner = "held"
      BY <1>3
    <3> QED BY <1>5, <2>1, <3>1 DEF Joining
  <2>4. Relaying
    BY <1>3, <1>5 DEF Relaying
  <2> QED BY <2>2, <2>3, <2>4
<1>8. OnePlace /\ Lost
  BY <1>3, <1>4, <1>5 DEF OnePlace, Lost, Busy, Way, In
<1>9. Somewhere
  <2> SUFFICES ASSUME NEW x \in Arrivals PROVE x \in In(queue)
    BY DEF Somewhere
  <2>1. Total - x \in 1..Total /\ queue[Total - x] = x
    BY <1>4 DEF Arrivals
  <2> QED BY <1>4, <2>1 DEF In
<1>10. Telling
  BY <1>3 DEF Telling, In, Told
<1> QED BY <1>2, <1>6, <1>7, <1>8, <1>9, <1>10 DEF IInv

----------------------------------------------------------------------------
(* The workers. *)

(* The merge and its channel stay as they are. *)
LoopVars == <<inbox, sent, closed, pc, buffer, delivered, received, next_index, active,
              result, taken, processed>>

LEMMA LoopRests ==
  ASSUME Loop!IInv, UNCHANGED LoopVars
  PROVE  Loop!IInv'
  BY LoopAssumption, Loop!NextInv
  DEF LoopVars, Loop!vars, Loop!channel, Loop!cursor, Loop!history

LEMMA TakeKeeps ==
  ASSUME IInv, NEW w \in Workers, TakeLayer(w)
  PROVE  IInv'
<1> DEFINE x == Head(queue)
<1>1. /\ worker[w].step = "idle" /\ queue # <<>> /\ queue' = Tail(queue)
      /\ worker' = [worker EXCEPT ![w] = [step |-> "downloading", layer |-> x]]
      /\ UNCHANGED LoopVars /\ UNCHANGED <<owner, layers, relay, calling, made, answers>>
      /\ UNCHANGED <<joined, first_err>>
  BY DEF TakeLayer, Becomes, At, packerVars, LoopVars
<1>2. /\ x \in Arrivals /\ queue' \in Seq(Arrivals) /\ In(queue) = {x} \cup In(queue')
      /\ x \notin In(queue') /\ \A i, j \in DOMAIN queue' : queue'[i] = queue'[j] => i = j
  BY <1>1, Members, FirstIsGone DEF IInv, Types, OnePlace
<1> HIDE DEF x
<1>3. /\ worker'[w] = [step |-> "downloading", layer |-> x]
      /\ \A v \in Workers : v # w => worker'[v] = worker[v]
  BY <1>1 DEF IInv, Types
<1>4. Way' = Way /\ (Told <=> Told') /\ UNCHANGED <<pc, result, closed, delivered, inbox>>
  BY <1>1 DEF Way, Told, LoopVars
<1>5. Types'
  BY <1>1, <1>2 DEF IInv, Types, WorkerStates, LoopVars
<1>6. Calling' /\ Joining' /\ Relaying'
  <2>1. Calling'
    BY <1>1, <1>2, <1>3, <1>4 DEF IInv, Calling, Busy, NoLayer
  <2>2. Joining'
    BY <1>1, <1>3, <1>4 DEF IInv, Joining, Ended
  <2>3. Relaying'
    BY <1>1, <1>3, <1>4 DEF IInv, Relaying
  <2> QED BY <2>1, <2>2, <2>3
<1>7. OnePlace'
  BY <1>2, <1>3, <1>4 DEF IInv, OnePlace, Busy
<1>8. Somewhere'
  BY <1>1, <1>2, <1>3, <1>4 DEF IInv, Somewhere, Busy
<1>9. Lost'
  BY <1>1, <1>2, <1>3, <1>4 DEF IInv, Lost, Busy
<1>10. Telling'
  BY <1>1, <1>4 DEF IInv, Telling
<1> QED BY <1>1, <1>5, <1>6, <1>7, <1>8, <1>9, <1>10, LoopRests DEF IInv

LEMMA DoneKeeps ==
  ASSUME IInv, NEW w \in Workers, WorkerDone(w)
  PROVE  IInv'
<1>1. /\ worker[w].step = "idle" /\ queue = <<>> /\ UNCHANGED queue
      /\ worker' = [worker EXCEPT ![w] = [step |-> "finished", layer |-> NoLayer]]
      /\ UNCHANGED LoopVars /\ UNCHANGED <<owner, layers, relay, calling, made, answers>>
      /\ UNCHANGED <<joined, first_err>>
  BY DEF WorkerDone, Becomes, At, packerVars, LoopVars
<1>2. /\ worker'[w] = [step |-> "finished", layer |-> NoLayer]
      /\ \A v \in Workers : v # w => worker'[v] = worker[v]
  BY <1>1 DEF IInv, Types
<1>3. Way' = Way /\ (Told <=> Told') /\ UNCHANGED <<pc, result, closed, delivered, inbox>>
  BY <1>1 DEF Way, Told, LoopVars
<1>4. Types'
  BY <1>1, <1>3 DEF IInv, Types, WorkerStates
<1>5. Calling'
  BY <1>1, <1>2, <1>3 DEF IInv, Calling, Busy
<1>6. Joining'
  BY <1>1, <1>2, <1>3 DEF IInv, Joining, Ended
<1>7. Relaying'
  BY <1>1, <1>2, <1>3 DEF IInv, Relaying
<1>8. OnePlace'
  BY <1>1, <1>2, <1>3 DEF IInv, OnePlace, Busy
<1>9. Somewhere'
  BY <1>1, <1>2, <1>3 DEF IInv, Somewhere, Busy
<1>10. Lost'
  BY <1>1, <1>2, <1>3 DEF IInv, Lost, Busy
<1>11. Telling'
  BY <1>1, <1>3 DEF IInv, Telling
<1> QED BY <1>1, <1>4, <1>5, <1>6, <1>7, <1>8, <1>9, <1>10, <1>11, LoopRests DEF IInv

LEMMA DownloadedKeeps ==
  ASSUME IInv, NEW w \in Workers, Downloaded(w)
  PROVE  IInv'
<1> DEFINE x == worker[w].layer
<1>1. /\ worker[w].step = "downloading" /\ x \in Arrivals
      /\ worker' = [worker EXCEPT ![w] = [step |-> "notifying", layer |-> x]]
      /\ calling' = [calling EXCEPT ![w] = x]
      /\ UNCHANGED LoopVars /\ UNCHANGED <<owner, layers, relay, answers>>
      /\ UNCHANGED <<queue, joined, first_err>>
  BY DEF IInv, Calling, Busy, Downloaded, Becomes, At, Packer!Notify, Packer!mergeVars,
       LoopVars
<1> HIDE DEF x
<1>2. /\ worker'[w] = [step |-> "notifying", layer |-> x] /\ calling'[w] = x
      /\ \A v \in Workers : v # w => worker'[v] = worker[v] /\ calling'[v] = calling[v]
      /\ calling'[Main] = calling[Main]
  BY <1>1 DEF IInv, Types, Callers
<1>3. Way' = Way /\ (Told <=> Told') /\ UNCHANGED <<pc, result, closed, delivered, inbox>>
  BY <1>1 DEF Way, Told, LoopVars
<1>4. Types'
  BY <1>1, <1>3 DEF IInv, Types, WorkerStates, Calls
<1>5. Calling'
  BY <1>1, <1>2, <1>3 DEF IInv, Calling, Busy
<1>6. Joining'
  BY <1>1, <1>2, <1>3 DEF IInv, Joining, Ended
<1>7. Relaying'
  BY <1>1, <1>2, <1>3 DEF IInv, Relaying
<1>8. OnePlace'
  BY <1>1, <1>2, <1>3 DEF IInv, OnePlace, Busy, x
<1>9. Somewhere'
  BY <1>1, <1>2, <1>3 DEF IInv, Somewhere, Busy, x
<1>10. Lost'
  BY <1>1, <1>2, <1>3 DEF IInv, Lost, Busy, x
<1>11. Telling'
  BY <1>1, <1>3 DEF IInv, Telling
<1> QED BY <1>1, <1>4, <1>5, <1>6, <1>7, <1>8, <1>9, <1>10, <1>11, LoopRests DEF IInv

LEMMA FailureKeeps ==
  ASSUME IInv, NEW w \in Workers, DownloadFails(w)
  PROVE  IInv'
<1> DEFINE x == worker[w].layer
<1>1. /\ worker[w].step = "downloading" /\ x \in Arrivals
      /\ worker' = [worker EXCEPT ![w] = [step |-> "download", layer |-> NoLayer]]
      /\ UNCHANGED LoopVars /\ UNCHANGED <<owner, layers, relay, calling, answers>>
      /\ UNCHANGED <<queue, joined, first_err>>
  BY DEF IInv, Calling, Busy, DownloadFails, Becomes, At, packerVars, LoopVars
<1>2. /\ worker'[w] = [step |-> "download", layer |-> NoLayer]
      /\ \A v \in Workers : v # w => worker'[v] = worker[v]
  BY <1>1 DEF IInv, Types
<1>3. Way' = Way /\ (Told <=> Told') /\ UNCHANGED <<pc, result, closed, delivered, inbox>>
  BY <1>1 DEF Way, Told, LoopVars
<1>4. Types'
  BY <1>1, <1>3 DEF IInv, Types, WorkerStates
<1>5. Calling'
  BY <1>1, <1>2, <1>3 DEF IInv, Calling, Busy
<1>6. Joining'
  BY <1>1, <1>2, <1>3 DEF IInv, Joining, Ended
<1>7. Relaying'
  BY <1>1, <1>2, <1>3 DEF IInv, Relaying
<1>8. OnePlace'
  BY <1>1, <1>2, <1>3 DEF IInv, OnePlace, Busy
<1>9. Somewhere'
  BY <1>2 DEF Somewhere
<1>10. x \notin In(queue) \cup Way /\ \A v \in Workers : v # w /\ Busy(v) => worker[v].layer # x
  BY <1>1 DEF IInv, OnePlace, Busy
<1>11. Lost'
  BY <1>1, <1>2, <1>3, <1>10 DEF Lost, Busy
<1>12. Telling'
  BY <1>1, <1>3 DEF IInv, Telling
<1> QED BY <1>1, <1>4, <1>5, <1>6, <1>7, <1>8, <1>9, <1>11, <1>12, LoopRests DEF IInv

LEMMA NotifiedKeeps ==
  ASSUME IInv, NEW w \in Workers, Notified(w)
  PROVE  IInv'
<1> DEFINE x == worker[w].layer
<1>1. /\ worker[w].step = "notifying" /\ x \in Arrivals /\ calling[w] = x
      /\ relay = "running" /\ layers' = Append(layers, x)
      /\ worker' = [worker EXCEPT ![w] = [step |-> "idle", layer |-> NoLayer]]
      /\ calling' = [calling EXCEPT ![w] = NoCall]
      /\ answers' = answers \cup {<<x, "ok">>}
      /\ UNCHANGED LoopVars /\ UNCHANGED <<owner, relay, queue, joined, first_err>>
  BY DEF IInv, Calling, Busy, Notified, Becomes, At, Packer!SendItem, Packer!Answer,
       Packer!NoCall, NoCall, Packer!mergeVars, LoopVars
<1>2. x # Error /\ x \in Calls
  BY <1>1 DEF Arrivals, Error, Calls
<1>3. Told' <=> Told
  BY <1>1, <1>2 DEF Told, Packer!SourceError, Packer!Resequencer!SourceError, Error
<1> HIDE DEF x
<1>4. /\ worker'[w] = [step |-> "idle", layer |-> NoLayer] /\ calling'[w] = NoCall
      /\ \A v \in Workers : v # w => worker'[v] = worker[v] /\ calling'[v] = calling[v]
      /\ calling'[Main] = calling[Main]
  BY <1>1 DEF IInv, Types, Callers
<1>5. /\ layers' \in Seq(Calls) /\ In(layers') = In(layers) \cup {x}
      /\ UNCHANGED <<pc, result, closed, delivered, inbox>>
  BY <1>1, <1>2, Members DEF IInv, Types, LoopVars
<1>6. Way' = Way \cup {x}
  BY <1>5 DEF Way
<1>7. Types'
  BY <1>1, <1>5 DEF IInv, Types, WorkerStates
<1>8. Calling'
  BY <1>1, <1>3, <1>4 DEF IInv, Calling, Busy
<1>9. Joining'
  BY <1>1, <1>3, <1>4 DEF IInv, Joining, Ended
<1>10. Relaying'
  BY <1>1, <1>4, <1>5 DEF IInv, Relaying
<1>11. OnePlace'
  <2>1. x \notin In(queue) /\ \A v \in Workers : v # w /\ Busy(v) => worker[v].layer # x
    BY <1>1 DEF IInv, OnePlace, Busy, x
  <2> QED BY <1>1, <1>4, <1>6, <2>1 DEF IInv, OnePlace, Busy
<1>12. Somewhere'
  BY <1>1, <1>4, <1>5, <1>6 DEF IInv, Somewhere, Busy, x
<1>13. Lost'
  BY <1>1, <1>4, <1>6 DEF IInv, Lost, Busy, x
<1>14. Telling'
  BY <1>1, <1>2, <1>3, <1>5 DEF IInv, Telling
<1> QED BY <1>1, <1>7, <1>8, <1>9, <1>10, <1>11, <1>12, <1>13, <1>14, LoopRests DEF IInv

LEMMA StoppedKeeps ==
  ASSUME IInv, NEW w \in Workers, NotifyStopped(w)
  PROVE  IInv'
<1> DEFINE x == worker[w].layer
<1>1. /\ worker[w].step = "notifying" /\ x \in Arrivals /\ calling[w] = x
      /\ relay = "gone"
      /\ worker' = [worker EXCEPT ![w] = [step |-> "stopped", layer |-> NoLayer]]
      /\ calling' = [calling EXCEPT ![w] = NoCall]
      /\ answers' = answers \cup {<<x, "stopped">>}
      /\ UNCHANGED LoopVars /\ UNCHANGED <<owner, layers, relay, queue, joined, first_err>>
  BY DEF IInv, Calling, Busy, NotifyStopped, Becomes, At, Packer!SendStopped, Packer!Answer,
       Packer!NoCall, NoCall, Packer!mergeVars, LoopVars
<1>2. Told' <=> Told
  <2>1. x # Error
    BY <1>1 DEF Arrivals, Error
  <2> QED BY <1>1, <2>1 DEF Told, Packer!SourceError, Packer!Resequencer!SourceError, Error
<1> HIDE DEF x
<1>3. /\ worker'[w] = [step |-> "stopped", layer |-> NoLayer] /\ calling'[w] = NoCall
      /\ \A v \in Workers : v # w => worker'[v] = worker[v] /\ calling'[v] = calling[v]
      /\ calling'[Main] = calling[Main]
  BY <1>1 DEF IInv, Types, Callers
<1>4. Way' = Way /\ UNCHANGED <<pc, result, closed, delivered, inbox>>
  BY <1>1 DEF Way, LoopVars
<1>5. Types'
  BY <1>1, <1>4 DEF IInv, Types, WorkerStates
<1>6. Calling'
  BY <1>1, <1>2, <1>3 DEF IInv, Calling, Busy
<1>7. Joining'
  BY <1>1, <1>2, <1>3 DEF IInv, Joining, Ended
<1>8. Relaying'
  BY <1>1, <1>3, <1>4 DEF IInv, Relaying
<1>9. OnePlace'
  BY <1>1, <1>3, <1>4 DEF IInv, OnePlace, Busy
<1>10. Somewhere'
  BY <1>3 DEF Somewhere
<1>11. Lost'
  BY <1>1, <1>3, <1>4 DEF IInv, Lost, Busy
<1>12. Telling'
  BY <1>1, <1>2, <1>4 DEF IInv, Telling
<1> QED BY <1>1, <1>5, <1>6, <1>7, <1>8, <1>9, <1>10, <1>11, <1>12, LoopRests DEF IInv

----------------------------------------------------------------------------
(* The main task. *)

(* What the other tasks keep, as they take no layer from queue or worker.  *)
LEMMA Places ==
  ASSUME OnePlace, Lost, UNCHANGED <<queue, worker>>, Way' \subseteq Way
  PROVE  OnePlace' /\ Lost'
  BY DEF OnePlace, Lost, Busy

LEMMA JoinKeeps ==
  ASSUME IInv, NEW w \in Workers, Join(w)
  PROVE  IInv'
<1>1. /\ w \notin joined /\ Ended(w) /\ joined' = joined \cup {w}
      /\ first_err' = IF first_err = "none" /\ worker[w].step # "finished"
                      THEN worker[w].step ELSE first_err
      /\ UNCHANGED LoopVars /\ UNCHANGED <<owner, layers, relay, calling, answers>>
      /\ UNCHANGED <<queue, worker>>
  BY DEF Join, packerVars, LoopVars
<1>2. Way' = Way /\ (Told <=> Told') /\ UNCHANGED <<pc, result, closed, delivered, inbox>>
  BY <1>1 DEF Way, Told, LoopVars
<1>3. owner = "held" /\ ~Told /\ calling[Main] = NoCall
  BY <1>1 DEF IInv, Joining, Calling
<1>4. Types'
  BY <1>1, <1>2 DEF IInv, Types, Ended
<1>5. Calling'
  BY <1>1, <1>3 DEF IInv, Calling, Busy, NoCall, Error
<1>6. Joining'
  BY <1>1, <1>2, <1>3 DEF IInv, Joining, Ended
<1>7. Relaying'
  BY <1>1, <1>2 DEF IInv, Relaying
<1>8. OnePlace' /\ Lost'
  BY <1>1, <1>2, Places DEF IInv
<1>9. Somewhere'
  BY <1>1, <1>2 DEF IInv, Somewhere, Busy
<1>10. Telling'
  BY <1>1, <1>2 DEF IInv, Telling
<1> QED BY <1>1, <1>4, <1>5, <1>6, <1>7, <1>8, <1>9, <1>10, LoopRests DEF IInv

LEMMA ReportKeeps ==
  ASSUME IInv, ReportError
  PROVE  IInv'
<1>1. /\ joined = Workers /\ owner = "held" /\ first_err # "none" /\ ~Told
      /\ calling' = [calling EXCEPT ![Main] = Error]
      /\ UNCHANGED LoopVars /\ UNCHANGED <<owner, layers, relay, answers>>
      /\ UNCHANGED <<queue, worker, joined, first_err>>
  BY DEF ReportError, Drained, Packer!Notify, Packer!SourceError,
       Packer!Resequencer!SourceError, Error, Packer!mergeVars, LoopVars
<1>2. Way' = Way /\ (Told <=> Told') /\ UNCHANGED <<pc, result, closed, delivered, inbox>>
  BY <1>1 DEF Way, Told, LoopVars
<1>3. /\ calling'[Main] = Error
      /\ \A w \in Workers : calling'[w] = calling[w]
  BY <1>1 DEF IInv, Types, Callers
<1>4. Types'
  BY <1>1, <1>2 DEF IInv, Types, Calls
<1>5. Calling'
  BY <1>1, <1>2, <1>3 DEF IInv, Calling, Busy
<1>6. Joining'
  BY <1>1, <1>2 DEF IInv, Joining, Ended
<1>7. Relaying'
  BY <1>1, <1>2 DEF IInv, Relaying
<1>8. OnePlace' /\ Lost'
  BY <1>1, <1>2, Places DEF IInv
<1>9. Somewhere'
  BY <1>1, <1>2 DEF IInv, Somewhere, Busy
<1>10. Telling'
  BY <1>1, <1>2 DEF IInv, Telling
<1> QED BY <1>1, <1>4, <1>5, <1>6, <1>7, <1>8, <1>9, <1>10, LoopRests DEF IInv

(* While somebody waits for the error to be taken, nothing else is called. *)
LEMMA MainCalls ==
  ASSUME IInv, calling[Main] # NoCall
  PROVE  calling[Main] = Error /\ joined = Workers /\ first_err # "none" /\ owner = "held"
  BY DEF IInv, Calling, Joining

LEMMA ErrorSentKeeps ==
  ASSUME IInv, Packer!SendItem(Main), UNCHANGED <<queue, worker, joined, first_err>>
  PROVE  IInv'
<1>1. calling[Main] # NoCall
  BY DEF Packer!SendItem, Packer!NoCall, NoCall
<1>2. /\ calling[Main] = Error /\ joined = Workers /\ first_err # "none" /\ owner = "held"
      /\ relay = "running" /\ layers' = Append(layers, Error)
      /\ calling' = [calling EXCEPT ![Main] = NoCall]
      /\ answers' = answers \cup {<<Error, "ok">>}
      /\ UNCHANGED LoopVars /\ UNCHANGED <<owner, relay, queue, worker, joined, first_err>>
  BY <1>1, MainCalls DEF Packer!SendItem, Packer!Answer, Packer!NoCall, NoCall,
       Packer!mergeVars, LoopVars
<1>3. first_err = "download"
  BY <1>2 DEF IInv, Types, Relaying
<1>4. /\ calling'[Main] = NoCall
      /\ \A w \in Workers : calling'[w] = calling[w]
  BY <1>2 DEF IInv, Types, Callers
<1>5. /\ layers' \in Seq(Calls) /\ In(layers') = In(layers) \cup {Error}
      /\ UNCHANGED <<pc, result, closed, delivered, inbox>>
  <2>1. layers \in Seq(Calls) /\ Error \in Calls
    BY DEF IInv, Types, Calls
  <2> QED BY <1>2, <2>1, Members DEF LoopVars
<1>6. Way' = Way \cup {Error}
  BY <1>5 DEF Way
<1>7. Types'
  BY <1>2, <1>5 DEF IInv, Types, Calls
<1>8. Calling'
  BY <1>2, <1>4 DEF IInv, Calling, Busy, NoCall, Error
<1>9. Joining'
  BY <1>2, <1>4 DEF IInv, Joining, Ended
<1>10. Relaying'
  BY <1>2, <1>5 DEF IInv, Relaying
<1>11. Error \notin In(queue) /\ Error \notin Arrivals
  BY DEF IInv, Types, In, Error, Arrivals
<1>12. OnePlace'
  BY <1>2, <1>6, <1>11 DEF IInv, OnePlace, Busy, Calling
<1>13. Somewhere'
  BY <1>2, <1>5, <1>6 DEF IInv, Somewhere, Busy
<1>14. Lost'
  BY <1>2, <1>6, <1>11 DEF IInv, Lost, Busy
<1>15. Telling'
  BY <1>3, <1>2, <1>5 DEF IInv, Telling
<1> QED BY <1>2, <1>7, <1>8, <1>9, <1>10, <1>12, <1>13, <1>14, <1>15, LoopRests DEF IInv

LEMMA ErrorStoppedKeeps ==
  ASSUME IInv, Packer!SendStopped(Main), UNCHANGED <<queue, worker, joined, first_err>>
  PROVE  IInv'
<1>1. calling[Main] # NoCall
  BY DEF Packer!SendStopped, Packer!NoCall, NoCall
<1>2. /\ joined = Workers /\ first_err # "none" /\ owner = "held" /\ relay = "gone"
      /\ calling' = [calling EXCEPT ![Main] = NoCall]
      /\ UNCHANGED LoopVars
      /\ UNCHANGED <<owner, layers, relay, queue, worker, joined, first_err>>
  BY <1>1, MainCalls DEF Packer!SendStopped, Packer!Answer, Packer!NoCall, NoCall,
       Packer!mergeVars, LoopVars
<1>3. pc = "done"
  BY <1>2 DEF IInv, Relaying
<1>4. /\ calling'[Main] = NoCall
      /\ \A w \in Workers : calling'[w] = calling[w]
  BY <1>2 DEF IInv, Types, Callers
<1>5. Way' = Way /\ UNCHANGED <<pc, result, closed, delivered, inbox>>
  BY <1>2 DEF Way, LoopVars
<1>6. Types'
  BY <1>2, <1>5 DEF IInv, Types, Calls
<1>7. Calling'
  BY <1>2, <1>4 DEF IInv, Calling, Busy, NoCall, Error
<1>8. Joining'
  BY <1>2, <1>4 DEF IInv, Joining, Ended
<1>9. Relaying'
  BY <1>2, <1>5 DEF IInv, Relaying
<1>10. OnePlace' /\ Lost'
  BY <1>2, <1>5, Places DEF IInv
<1>11. Somewhere'
  BY <1>3, <1>5 DEF Somewhere
<1>12. Telling'
  BY <1>2, <1>3, <1>5 DEF IInv, Telling
<1> QED BY <1>2, <1>6, <1>7, <1>8, <1>9, <1>10, <1>11, <1>12, LoopRests DEF IInv

(* Finish and Return: the owner moves on. *)
LEMMA OwnerKeeps ==
  ASSUME IInv, UNCHANGED LoopVars, UNCHANGED <<layers, relay, calling, answers>>,
         UNCHANGED <<queue, worker, joined, first_err>>,
         \/ owner' = owner
         \/ owner' = "finishing" /\ joined = Workers /\ (first_err = "none" \/ Told)
         \/ owner' = "returned" /\ owner = "finishing"
  PROVE  IInv'
<1>1. Way' = Way /\ (Told <=> Told') /\ UNCHANGED <<pc, result, closed, delivered, inbox>>
  BY DEF Way, Told, LoopVars
<1>2. Types'
  BY <1>1 DEF IInv, Types
<1>3. Calling'
  BY <1>1 DEF IInv, Calling, Busy
<1>4. Joining'
  BY <1>1 DEF IInv, Joining, Calling, Ended
<1>5. Relaying'
  BY <1>1 DEF IInv, Relaying
<1>6. OnePlace' /\ Lost'
  BY <1>1, Places DEF IInv
<1>7. Somewhere'
  BY <1>1 DEF IInv, Somewhere, Busy
<1>8. Telling'
  BY <1>1 DEF IInv, Telling
<1> QED BY <1>2, <1>3, <1>4, <1>5, <1>6, <1>7, <1>8, LoopRests DEF IInv

----------------------------------------------------------------------------
(* The relay and the merge thread. *)

LEMMA RelaySends ==
  ASSUME IInv, Packer!RelayItem
  PROVE  Loop!Send(Head(layers)) /\ Head(layers) \in Loop!Items
<1>1. Head(layers) \in Calls
  BY Members DEF Packer!RelayItem, IInv, Types
<1> QED BY <1>1 DEF Packer!RelayItem, Packer!Resequencer!Send, Packer!Resequencer!cursor,
         Packer!Resequencer!history, Loop!Send, Loop!cursor, Loop!history, Loop!Items,
         Loop!SourceError, Calls, Error

LEMMA RelayCloses == Packer!RelayBreaks \/ Packer!RelayEnds => Loop!Close
  BY DEF Packer!RelayBreaks, Packer!RelayEnds, Packer!RelayGone, Packer!Resequencer!Close,
       Packer!Resequencer!cursor, Packer!Resequencer!history, Loop!Close, Loop!cursor,
       Loop!history

LEMMA RelayItemKeeps ==
  ASSUME IInv, Packer!RelayItem, UNCHANGED <<queue, worker, joined, first_err>>
  PROVE  IInv'
<1> DEFINE x == Head(layers)
<1>1. /\ relay = "running" /\ layers # <<>> /\ layers' = Tail(layers) /\ pc # "done"
      /\ inbox' = Append(inbox, x)
      /\ UNCHANGED <<pc, result, closed, delivered, owner, relay, calling, answers>>
  BY DEF Packer!RelayItem, Packer!Resequencer!Send, Packer!Resequencer!cursor,
       Packer!callerVars
<1>2. /\ x \in Calls /\ layers' \in Seq(Calls) /\ In(layers) = {x} \cup In(layers')
      /\ inbox' \in Seq(Calls) /\ In(inbox') = In(inbox) \cup {x}
  BY <1>1, Members DEF IInv, Types
<1>3. Loop!IInv'
  BY RelaySends, LoopAssumption, Loop!NextInv DEF IInv, Loop!Next
<1> HIDE DEF x
<1>4. Way' = Way /\ (Told <=> Told')
  BY <1>1, <1>2 DEF Way, Told
<1>5. Types'
  BY <1>1, <1>2 DEF IInv, Types
<1>6. Calling' /\ Joining' /\ Relaying'
  BY <1>1, <1>4 DEF IInv, Calling, Joining, Relaying, Busy, Ended
<1>7. OnePlace' /\ Lost'
  BY <1>4, Places DEF IInv
<1>8. Somewhere'
  BY <1>1, <1>4 DEF IInv, Somewhere, Busy
<1>9. Telling'
  BY <1>1, <1>2, <1>4 DEF IInv, Telling
<1> QED BY <1>3, <1>5, <1>6, <1>7, <1>8, <1>9 DEF IInv

LEMMA RelayGoneKeeps ==
  ASSUME IInv, Packer!RelayBreaks \/ Packer!RelayEnds,
         UNCHANGED <<queue, worker, joined, first_err>>
  PROVE  IInv'
<1>1. /\ relay' = "gone" /\ layers' = <<>> /\ closed' = TRUE
      /\ (layers = <<>> /\ owner # "held") \/ pc = "done"
      /\ UNCHANGED <<pc, result, inbox, delivered, owner, calling, answers>>
  BY DEF Packer!RelayBreaks, Packer!RelayEnds, Packer!RelayGone, Packer!Resequencer!Close,
       Packer!Resequencer!cursor, Packer!callerVars
<1>2. Loop!IInv'
  BY RelayCloses, LoopAssumption, Loop!NextInv DEF IInv, Loop!Next
<1>3. In(layers') = {}
  BY <1>1 DEF In
<1>4. Way' \subseteq Way /\ (layers = <<>> => Way' = Way) /\ (Told <=> Told')
  BY <1>1, <1>3 DEF Way, Told
<1>5. Types'
  BY <1>1 DEF IInv, Types
<1>6. Calling' /\ Joining'
  BY <1>1, <1>4 DEF IInv, Calling, Joining, Busy, Ended
<1>7. Relaying'
  BY <1>1 DEF IInv, Relaying
<1>8. OnePlace' /\ Lost'
  BY <1>4, Places DEF IInv
<1>9. Somewhere'
  BY <1>1, <1>4 DEF IInv, Somewhere, Busy
<1>10. Telling'
  BY <1>1, <1>3 DEF IInv, Telling, Told
<1> QED BY <1>2, <1>5, <1>6, <1>7, <1>8, <1>9, <1>10 DEF IInv

(* The layers do not stop arriving while the merge waits for one: an error *)
(* is in the channel, or every layer has arrived.                          *)
LEMMA NeverDry ==
  ASSUME IInv, pc # "done", closed, inbox = <<>>
  PROVE  received = Total
<1>1. layers = <<>> /\ owner # "held"
  BY DEF IInv, Relaying
<1>2. In(layers) = {} /\ In(inbox) = {}
  BY <1>1 DEF In
<1>3. joined = Workers /\ first_err = "none"
  BY <1>1, <1>2 DEF IInv, Joining, Telling
<1>4. \A w \in Workers : worker[w].step = "finished"
  BY <1>3 DEF IInv, Joining
<1>5. queue = <<>>
  BY <1>4 DEF IInv, Joining
<1>6. In(queue) = {}
  BY <1>5 DEF In
<1>7. Arrivals \subseteq delivered
  BY <1>2, <1>4, <1>6 DEF IInv, Somewhere, Busy, Way
<1>8. Loop!TypeOK
  BY DEF IInv, Loop!IInv
<1>9. Loop!Indexes \subseteq delivered
  BY <1>7 DEF Loop!Indexes, Arrivals
<1> QED BY <1>8, <1>9, LoopAssumption, Loop!AllReceived

LEMMA MergeKeeps ==
  ASSUME IInv, MergeThread
  PROVE  IInv'
<1>1. /\ Loop!Merge /\ UNCHANGED <<owner, layers, relay, calling, answers>>
      /\ UNCHANGED <<queue, worker, joined, first_err>>
  BY LoopMerge DEF MergeThread, Packer!MergeThread, Packer!callerVars
<1>2. pc # "done" /\ UNCHANGED closed
  BY <1>1, MergeTakes
<1>3. Loop!IInv'
  BY <1>1, LoopAssumption, Loop!NextInv DEF IInv, Loop!Next
<1>4. inbox # <<>> => /\ Head(inbox) \in Calls /\ Tail(inbox) \in Seq(Calls)
                      /\ In(inbox) = {Head(inbox)} \cup In(Tail(inbox))
  BY Members DEF IInv, Types
<1>5. /\ Way' \subseteq Way /\ (pc' # "done" => Way' = Way)
      /\ In(inbox') \subseteq In(inbox)
      /\ pc' # "done" => (Error \in In(inbox) => Error \in In(inbox'))
      /\ inbox' \in Seq(Calls)
      /\ result' = "LayerSource" => result = "LayerSource" \/ Error \in In(inbox)
      /\ result' # "MissingLayers"
  <2>1. CASE /\ UNCHANGED <<inbox, delivered>>
             /\ result' = "LayerSource" => result = "LayerSource"
             /\ result' = "MissingLayers" =>
                  result = "MissingLayers" \/ (closed /\ inbox = <<>> /\ received < Total)
    <3>1. result' # "MissingLayers"
      BY <1>2, <2>1, NeverDry DEF IInv, Telling
    <3> QED BY <1>1, <2>1, <3>1 DEF Way, IInv, Types
  <2>2. CASE /\ inbox # <<>> /\ inbox' = Tail(inbox) /\ Head(inbox) \in Arrivals
             /\ delivered' = delivered \cup {Head(inbox)} /\ result' = result
    <3>1. Head(inbox) # Error
      BY <2>2 DEF Arrivals, Error
    <3> QED BY <1>1, <1>4, <2>2, <3>1 DEF Way, IInv, Telling
  <2>3. CASE /\ inbox # <<>> /\ inbox' = Tail(inbox) /\ delivered' = delivered
             /\ pc' = "done" /\ result' # "MissingLayers"
             /\ result' = "LayerSource" => Head(inbox) = Error
    BY <1>1, <1>4, <2>3 DEF Way
  <2> QED BY <1>1, <2>1, <2>2, <2>3, MergeTakes
<1>6. Told <=> Told'
  BY <1>1 DEF Told
<1>7. Types'
  BY <1>1, <1>5 DEF IInv, Types
<1>8. Calling' /\ Joining' /\ Relaying'
  BY <1>1, <1>2, <1>6 DEF IInv, Calling, Joining, Relaying, Busy, Ended
<1>9. OnePlace' /\ Lost'
  BY <1>1, <1>5, Places DEF IInv
<1>10. Somewhere'
  BY <1>1, <1>2, <1>5 DEF IInv, Somewhere, Busy
<1>11. Telling'
  BY <1>1, <1>2, <1>5, <1>6 DEF IInv, Telling
<1> QED BY <1>3, <1>7, <1>8, <1>9, <1>10, <1>11 DEF IInv

LEMMA NextKeeps == IInv /\ [Next]_vars => IInv'
<1> SUFFICES ASSUME IInv, [Next]_vars PROVE IInv'
  OBVIOUS
<1>1. ASSUME NEW w \in Workers, Work(w) PROVE IInv'
  BY <1>1, TakeKeeps, DoneKeeps, DownloadedKeeps, FailureKeeps, NotifiedKeeps, StoppedKeeps
  DEF Work
<1>2. ASSUME NEW w \in Workers, Join(w) PROVE IInv'
  BY <1>2, JoinKeeps
<1>3. CASE ReportError
  BY <1>3, ReportKeeps
<1>4. CASE Reported
  BY <1>4, ErrorSentKeeps, ErrorStoppedKeeps DEF Reported
<1>5. CASE Finish
  BY <1>5, OwnerKeeps DEF Finish, Drained, LoopVars
<1>6. CASE Return
  BY <1>6, OwnerKeeps DEF Return, Packer!FinishReturns, Packer!mergeVars, Packer!callerVars,
       LoopVars
<1>7. CASE RelayTask
  BY <1>7, RelayItemKeeps, RelayGoneKeeps DEF RelayTask, Packer!Relay
<1>8. CASE MergeThread
  BY <1>8, MergeKeeps
<1>9. CASE UNCHANGED vars
  BY <1>9, OwnerKeeps DEF vars, packerVars, LoopVars
<1> QED BY <1>1, <1>2, <1>3, <1>4, <1>5, <1>6, <1>7, <1>8, <1>9 DEF Next, MainTask

LEMMA Invariance == Spec => []IInv
  BY Initially, NextKeeps, PTL DEF Spec

----------------------------------------------------------------------------
(* The theorems. *)

(* finish is called when every worker has ended and nobody calls.          *)
LEMMA StepMaps == IInv /\ [Next]_vars => [Packer!Next]_(Packer!vars)
<1> SUFFICES ASSUME IInv, [Next]_vars PROVE Packer!Next \/ UNCHANGED packerVars
  BY DEF packerVars, Packer!vars, Packer!mergeVars
<1>1. ASSUME NEW w \in Workers, Work(w) PROVE Packer!Next \/ UNCHANGED packerVars
  <2>1. CASE TakeLayer(w) \/ WorkerDone(w) \/ DownloadFails(w)
    BY <2>1 DEF TakeLayer, WorkerDone, DownloadFails
  <2>2. CASE Downloaded(w)
    <3>1. worker[w].layer \in Packer!Items /\ w \in Callers
      BY <2>2 DEF Downloaded, IInv, Calling, Busy, Packer!Items, Packer!Resequencer!Items,
           Callers
    <3> QED BY <2>2, <3>1 DEF Downloaded, Packer!Next
  <2>3. CASE Notified(w) \/ NotifyStopped(w)
    BY <2>3 DEF Notified, NotifyStopped, Packer!Next, Callers
  <2> QED BY <1>1, <2>1, <2>2, <2>3 DEF Work
<1>2. ASSUME NEW w \in Workers, Join(w) PROVE UNCHANGED packerVars
  BY <1>2 DEF Join
<1>3. CASE ReportError
  <2>1. Packer!SourceError \in Packer!Items /\ Main \in Callers
    BY DEF Packer!SourceError, Packer!Items, Packer!Resequencer!Items, Callers
  <2> QED BY <1>3, <2>1 DEF ReportError, Packer!Next
<1>4. CASE Reported
  BY <1>4 DEF Reported, Packer!Next, Callers
<1>5. CASE Finish
  <2>1. \A c \in Callers : calling[c] = Packer!NoCall
    BY <1>5 DEF IInv, Finish, Drained, Joining, Calling, Ended, Callers, Packer!NoCall, NoCall
  <2>2. Packer!Finish
    BY <1>5, <2>1 DEF Finish, Drained, Packer!Finish, Packer!Release, Packer!mergeVars,
         Packer!callerVars
  <2> QED BY <2>2 DEF Packer!Next
<1>6. CASE Return \/ RelayTask \/ MergeThread
  BY <1>6 DEF Return, RelayTask, MergeThread, Packer!Next
<1>7. CASE UNCHANGED vars
  BY <1>7 DEF vars
<1> QED BY <1>1, <1>2, <1>3, <1>4, <1>5, <1>6, <1>7 DEF Next, MainTask

(* pull_image keeps the packer's protocol: whatever interleaving of its    *)
(* tasks, finish is called once, after the last call of a worker and of    *)
(* main has returned, so what holds of StreamingPacker holds of a pull.    *)
THEOREM PullKeepsProtocol == Spec => KeepsProtocol
<1>1. Init => Packer!Init
  BY DEF Init
<1> QED BY <1>1, StepMaps, Invariance, PTL DEF Spec, KeepsProtocol, Packer!Spec

LEMMA LoopSteps == IInv /\ [Next]_vars => [Loop!Next]_(Loop!vars)
<1> SUFFICES ASSUME IInv, [Next]_vars PROVE Loop!Next \/ UNCHANGED LoopVars
  BY DEF LoopVars, Loop!vars, Loop!channel, Loop!cursor, Loop!history
<1>1. ASSUME NEW w \in Workers, Work(w) PROVE UNCHANGED LoopVars
  BY <1>1 DEF Work, TakeLayer, WorkerDone, Downloaded, DownloadFails, Notified, NotifyStopped,
       Packer!Notify, Packer!SendItem, Packer!SendStopped, Packer!mergeVars, packerVars,
       LoopVars
<1>2. CASE (\E w \in Workers : Join(w)) \/ ReportError \/ Reported \/ Finish \/ Return
  BY <1>2 DEF Join, ReportError, Reported, Finish, Return, Packer!Notify, Packer!SendItem,
       Packer!SendStopped, Packer!FinishReturns, Packer!mergeVars, packerVars, LoopVars
<1>3. CASE Packer!RelayItem
  BY <1>3, RelaySends DEF Loop!Next
<1>4. CASE Packer!RelayBreaks \/ Packer!RelayEnds
  BY <1>4, RelayCloses DEF Loop!Next
<1>5. CASE MergeThread
  BY <1>5, LoopMerge DEF MergeThread, Packer!MergeThread, Loop!Next
<1>6. CASE UNCHANGED vars
  BY <1>6 DEF vars, packerVars, LoopVars
<1> QED BY <1>1, <1>2, <1>3, <1>4, <1>5, <1>6 DEF Next, MainTask, RelayTask, Packer!Relay

(* Whatever order the downloads end in and whatever fails, the layers of a *)
(* pull are merged newest first, each once, up to success or one failure:  *)
(* the promise of InOrderMerge, three modules down.                        *)
THEOREM PullMergesInOrder == Spec => Loop!InOrderSpec
<1>1. Spec => Loop!Spec
  BY LoopStart, LoopSteps, Invariance, PTL DEF Spec, Loop!Spec
<1> QED BY <1>1, LoopAssumption, Loop!ImplementsInOrder

(* A merge that succeeded has every layer, and a failed download's layer   *)
(* never got there.                                                        *)
LEMMA FailureFails ==
  ASSUME IInv, NEW w \in Workers, worker[w].step = "download"
  PROVE  result # "ok"
<1> SUFFICES ASSUME result = "ok" PROVE FALSE
  OBVIOUS
<1>1. Loop!Finished = Loop!Indexes /\ Loop!Finished \subseteq delivered
  BY DEF IInv, Loop!IInv, Loop!SuccessIsComplete, Loop!Conserved
<1>2. Arrivals \subseteq Way
  BY <1>1 DEF Loop!Indexes, Arrivals, Way
<1> QED BY <1>2 DEF IInv, Lost

(* A failed download fails the pull, the merge never complains of missing  *)
(* layers, and an error of the source is a failed download's.              *)
THEOREM FailuresAreTold == Spec => []FailureIsTold
<1>1. IInv => FailureIsTold
  BY FailureFails DEF IInv, Telling, FailureIsTold
<1> QED BY <1>1, Invariance, PTL
=============================================================================
