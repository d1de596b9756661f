------------------------- MODULE ResequencerProofs -------------------------
(***************************************************************************)
(* For every number of layers and every arrival order: the resequencing    *)
(* loop keeps its books, processes layers newest first, each once, claims  *)
(* success only when all are processed, and so implements InOrderMerge.    *)
(***************************************************************************)
EXTENDS Resequencer, FiniteSetTheorems, TLAPS

(* Where the cursor stands: it is one step ahead of what is finished, and  *)
(* a layer is in process_layer exactly while pc says so.                   *)
Cursor ==
  /\ Len(processed) <= Total
  /\ Len(processed) < Total => next_index = Total - 1 - Len(processed)
  /\ Len(processed) = Total => next_index = 0
  /\ pc \in {"recv", "drain"} => active = Idle
  /\ pc = "process" => active = next_index
  /\ pc \in {"drain", "process"} => Len(processed) < Total
  /\ pc # "done" => result = "none"

IInv == TypeOK /\ Conserved /\ NeverIdle /\ NewestFirst /\ Cursor /\ SuccessIsComplete

USE ResequencerAssumption

(* Once Total layers are finished, they are all the layers. *)
LEMMA AllFinished ==
  ASSUME TypeOK, NewestFirst, Len(processed) = Total
  PROVE  Finished = Indexes
<1>1. \A i \in DOMAIN processed : processed[i] \in Indexes
  BY DEF TypeOK
<1>2. ASSUME NEW x \in Indexes PROVE x \in Finished
  <2>1. Total - x \in DOMAIN processed
    BY <1>2 DEF TypeOK, Indexes
  <2>2. processed[Total - x] = x
    BY <2>1 DEF NewestFirst, Indexes
  <2> QED BY <2>1, <2>2 DEF Finished
<1> QED BY <1>1, <1>2 DEF Finished

(* What is finished grows by the layer appended to the history. *)
LEMMA FinishedGrows ==
  ASSUME TypeOK, NEW x \in Indexes, processed' = Append(processed, x)
  PROVE  Finished' = Finished \cup {x}
<1>1. DOMAIN processed' = 1..(Len(processed) + 1) /\ DOMAIN processed = 1..Len(processed)
  BY DEF TypeOK
<1>2. \A i \in DOMAIN processed : processed'[i] = processed[i]
  BY <1>1 DEF TypeOK
<1>3. processed'[Len(processed) + 1] = x
  BY DEF TypeOK
<1> QED BY <1>1, <1>2, <1>3, Len(processed) \in Nat DEF Finished, TypeOK

(* When all layers were received and the loop waits, all are finished. *)
LEMMA ReceivedAllFinished ==
  ASSUME IInv, pc = "recv", received = Total
  PROVE  Len(processed) = Total
<1>1. delivered = Indexes
  <2>1. IsFiniteSet(Indexes) /\ Cardinality(Indexes) = Total
    BY FS_Interval DEF Indexes
  <2> QED BY <2>1, FS_Subset DEF IInv, TypeOK
<1>2. SUFFICES ASSUME Len(processed) < Total PROVE FALSE
  BY DEF IInv, Cursor, TypeOK
<1>3. next_index \in Indexes /\ next_index \notin buffer
  BY <1>2 DEF IInv, Cursor, NeverIdle, TypeOK, Indexes
<1>4. next_index \in Finished
  BY <1>1, <1>3 DEF IInv, Conserved, Cursor
<1>5. PICK i \in DOMAIN processed : next_index = processed[i]
  BY <1>4 DEF Finished
<1> QED BY <1>2, <1>5 DEF IInv, NewestFirst, Cursor, TypeOK

(* received counts every layer once all of them were delivered. *)
LEMMA AllReceived ==
  ASSUME TypeOK, Indexes \subseteq delivered
  PROVE  received = Total
<1>1. delivered = Indexes /\ received = Cardinality(Indexes)
  BY DEF TypeOK
<1>2. Cardinality(Indexes) = Total
  BY FS_Interval DEF Indexes
<1> QED BY <1>1, <1>2

LEMMA InitInv == Init => IInv
<1> SUFFICES ASSUME Init PROVE IInv
  OBVIOUS
<1>1. Cardinality({}) = 0
  BY FS_EmptySet
<1>2. TypeOK
  <2>1. sent \in 0..MaxItems /\ next_index \in Nat
    BY ResequencerAssumption DEF Init
  <2>2. inbox \in Seq(Items) /\ taken \in Seq(Items) /\ processed \in Seq(Indexes)
    BY DEF Init
  <2>3. received = Cardinality(delivered)
    BY <1>1 DEF Init
  <2> QED BY <2>1, <2>2, <2>3 DEF Init, TypeOK
<1>3. Finished = {}
  BY DEF Init, Finished
<1>4. Conserved /\ NeverIdle /\ NewestFirst /\ SuccessIsComplete
  BY <1>3 DEF Init, Conserved, NeverIdle, NewestFirst, SuccessIsComplete, Idle
<1>5. Cursor
  BY DEF Init, Cursor, Idle
<1> QED BY <1>2, <1>4, <1>5 DEF IInv

(* The first item of the channel is an item. *)
LEMMA HeadTail ==
  ASSUME TypeOK, inbox # <<>>
  PROVE  Head(inbox) \in Items /\ Tail(inbox) \in Seq(Items)
BY DEF TypeOK

(* Accepting a layer: the only step that counts. *)
LEMMA AcceptInv == IInv /\ Accept => IInv'
<1> SUFFICES ASSUME IInv, Accept PROVE IInv'
  OBVIOUS
<1> DEFINE x == Head(inbox)
<1>1. /\ x \in Indexes \ delivered
      /\ delivered' = delivered \cup {x}
      /\ received' = received + 1
      /\ buffer' = buffer \cup {x}
      /\ pc = "recv" /\ pc' = "drain" /\ received < Total
      /\ inbox # <<>> /\ inbox' = Tail(inbox) /\ taken' = Append(taken, x)
      /\ UNCHANGED <<sent, closed, next_index, active, result, processed>>
  BY DEF Accept, Take, Receiving
<1>2. TypeOK /\ Conserved /\ NeverIdle /\ NewestFirst /\ Cursor
  BY DEF IInv
<1>3. Finished' = Finished
  BY <1>1 DEF Finished
<1>4. TypeOK'
  <2>1. x \in Items /\ inbox' \in Seq(Items)
    BY <1>1, <1>2, HeadTail
  <2>2. taken' \in Seq(Items)
    BY <1>1, <1>2, <2>1 DEF TypeOK
  <2>3. received' = Cardinality(delivered')
    <3>1. IsFiniteSet(Indexes)
      BY FS_Interval, ResequencerAssumption DEF Indexes
    <3>2. IsFiniteSet(delivered)
      BY <1>2, <3>1, FS_Subset DEF TypeOK
    <3> QED BY <1>1, <1>2, <3>2, FS_AddElement DEF TypeOK
  <2> QED BY <1>1, <1>2, <2>1, <2>2, <2>3 DEF TypeOK
<1>5. x \notin Finished /\ x # active /\ active = Idle
  BY <1>1, <1>2 DEF Conserved, Cursor, TypeOK, Indexes, Idle
<1>6. Conserved'
  BY <1>1, <1>2, <1>3, <1>5 DEF Conserved
<1>7. NewestFirst' /\ NeverIdle'
  BY <1>1, <1>2 DEF NewestFirst, NeverIdle
<1>8. Len(processed) < Total
  <2>1. SUFFICES ASSUME Len(processed) = Total PROVE FALSE
    BY <1>2, ResequencerAssumption DEF Cursor, TypeOK
  <2> QED BY <1>1, <1>2, <1>5, <2>1, AllFinished
<1>9. Cursor'
  BY <1>1, <1>2, <1>8 DEF Cursor
<1>10. SuccessIsComplete'
  BY <1>1, <1>2 DEF SuccessIsComplete, Cursor
<1> QED BY <1>4, <1>6, <1>7, <1>9, <1>10 DEF IInv

LEMMA StartInv == IInv /\ StartLayer => IInv'
<1> SUFFICES ASSUME IInv, StartLayer PROVE IInv'
  OBVIOUS
<1>1. TypeOK /\ Conserved /\ NewestFirst /\ Cursor
  BY DEF IInv
<1>2. /\ pc = "drain" /\ pc' = "process"
      /\ next_index \in buffer /\ buffer' = buffer \ {next_index}
      /\ active' = next_index
      /\ UNCHANGED <<channel, delivered, received, next_index, result, history>>
  BY DEF StartLayer
<1>3. Finished' = Finished /\ active = Idle /\ next_index \in Indexes
  BY <1>1, <1>2 DEF Finished, history, Cursor, TypeOK
<1>4. TypeOK'
  BY <1>1, <1>2, <1>3 DEF TypeOK, channel, history
<1>5. Conserved'
  BY <1>1, <1>2, <1>3 DEF Conserved, Indexes, Idle
<1>6. NewestFirst' /\ NeverIdle' /\ Cursor' /\ SuccessIsComplete'
  BY <1>1, <1>2, <1>3 DEF NewestFirst, NeverIdle, Cursor, SuccessIsComplete, history
<1> QED BY <1>4, <1>5, <1>6 DEF IInv

LEMMA FinishLayerInv == IInv /\ FinishLayer => IInv'
<1> SUFFICES ASSUME IInv, FinishLayer PROVE IInv'
  OBVIOUS
<1>1. TypeOK /\ Conserved /\ NewestFirst /\ Cursor
  BY DEF IInv
<1>2. /\ pc = "process"
      /\ processed' = Append(processed, active) /\ active' = Idle
      /\ UNCHANGED <<channel, buffer, delivered, received, result, taken>>
      /\ \/ next_index = 0 /\ pc' = "recv" /\ UNCHANGED next_index
         \/ next_index # 0 /\ pc' = "drain" /\ next_index' = next_index - 1
  BY DEF FinishLayer
<1>3. /\ Len(processed) < Total /\ next_index = Total - 1 - Len(processed)
      /\ active = next_index /\ active \in Indexes /\ Len(processed) \in Nat
  BY <1>1, <1>2, ResequencerAssumption DEF Cursor, TypeOK, Indexes
<1>4. Finished' = Finished \cup {active}
  BY <1>1, <1>2, <1>3, FinishedGrows
<1>5. Len(processed') = Len(processed) + 1 /\ processed' \in Seq(Indexes)
  BY <1>1, <1>2, <1>3 DEF TypeOK
<1>6. TypeOK'
  BY <1>1, <1>2, <1>3, <1>5 DEF TypeOK, channel
<1>7. Conserved'
  <2>1. Idle \notin Indexes /\ buffer \subseteq Indexes
    BY <1>1, ResequencerAssumption DEF TypeOK, Indexes, Idle
  <2>2. Finished' \subseteq Indexes
    BY <1>5 DEF Finished
  <2> QED BY <1>1, <1>2, <1>3, <1>4, <2>1, <2>2 DEF Conserved
<1>8. NeverIdle'
  BY <1>1, <1>2, <1>3 DEF NeverIdle, Conserved
<1>9. NewestFirst'
  <2> SUFFICES ASSUME NEW i \in DOMAIN processed' PROVE processed'[i] = Total - i
    BY DEF NewestFirst
  <2>1. i \in 1..(Len(processed) + 1)
    BY <1>5
  <2>2. CASE i = Len(processed) + 1
    BY <2>2, <1>1, <1>2, <1>3 DEF TypeOK
  <2>3. CASE i # Len(processed) + 1
    <3>1. i \in DOMAIN processed /\ processed'[i] = processed[i]
      BY <2>1, <2>3, <1>1, <1>2, <1>3 DEF TypeOK
    <3> QED BY <3>1, <1>1 DEF NewestFirst
  <2> QED BY <2>2, <2>3
<1>10. Cursor'
  BY <1>1, <1>2, <1>3, <1>5, ResequencerAssumption DEF Cursor
<1>11. SuccessIsComplete'
  BY <1>1, <1>2 DEF SuccessIsComplete, Cursor
<1> QED BY <1>6, <1>7, <1>8, <1>9, <1>10, <1>11 DEF IInv

(* Steps that stop the merge with an error keep the books as they are. *)
LEMMA StopInv ==
  ASSUME IInv, pc # "done",
         UNCHANGED <<sent, closed, cursor, processed>>,
         inbox' \in Seq(Items), taken' \in Seq(Items),
         NEW e \in Errors, Stop(e)
  PROVE  IInv'
<1>1. Finished' = Finished
  BY DEF Finished
<1>2. TypeOK'
  BY DEF IInv, TypeOK, cursor, Stop, Errors
<1>3. Conserved' /\ NewestFirst'
  BY <1>1 DEF IInv, Conserved, NewestFirst, cursor
<1>4. NeverIdle' /\ Cursor' /\ SuccessIsComplete'
  BY <1>1 DEF IInv, NeverIdle, Cursor, SuccessIsComplete, cursor, Stop, Errors
<1> QED BY <1>2, <1>3, <1>4 DEF IInv

LEMMA FinishInv == IInv /\ Finish => IInv'
<1> SUFFICES ASSUME IInv, Finish PROVE IInv'
  OBVIOUS
<1>1. pc = "recv" /\ received = Total /\ UNCHANGED <<channel, cursor, history>>
  BY DEF Finish
<1>2. TypeOK /\ NewestFirst
  BY DEF IInv
<1>3. CASE Stop("Output")
  <2>1. "Output" \in Errors
    BY DEF Errors
  <2> QED BY <1>1, <1>2, <1>3, <2>1, StopInv DEF channel, history, TypeOK
<1>4. CASE Stop("ok")
  <2>1. Finished = Indexes
    BY <1>1, <1>2, ReceivedAllFinished, AllFinished
  <2>2. Finished' = Finished
    BY <1>1 DEF Finished, history
  <2>3. TypeOK'
    BY <1>1, <1>2, <1>4 DEF TypeOK, Stop, channel, cursor, history
  <2>4. Conserved' /\ NewestFirst'
    BY <1>1, <2>2 DEF IInv, Conserved, NewestFirst, cursor, history
  <2>5. NeverIdle' /\ Cursor' /\ SuccessIsComplete'
    BY <1>1, <1>4, <2>1, <2>2
    DEF IInv, NeverIdle, Cursor, SuccessIsComplete, cursor, history, Stop
  <2> QED BY <2>3, <2>4, <2>5 DEF IInv
<1> QED BY <1>3, <1>4 DEF Finish

LEMMA NextInv == IInv /\ [Next]_vars => IInv'
<1> SUFFICES ASSUME IInv, [Next]_vars PROVE IInv'
  OBVIOUS
<1>t. TypeOK
  BY DEF IInv
<1>1. ASSUME NEW item \in Items, Send(item) PROVE IInv'
  <2>1. inbox' \in Seq(Items) /\ sent' \in 0..MaxItems
    BY <1>t, <1>1, ResequencerAssumption DEF TypeOK, Send
  <2>2. TypeOK'
    BY <1>t, <1>1, <2>1 DEF TypeOK, Send, cursor, history
  <2>3. Finished' = Finished
    BY <1>1 DEF Send, Finished, history
  <2>4. Conserved' /\ NeverIdle' /\ NewestFirst' /\ Cursor' /\ SuccessIsComplete'
    BY <1>1, <2>3
    DEF IInv, Send, Conserved, NeverIdle, NewestFirst, Cursor, SuccessIsComplete, cursor, history
  <2> QED BY <2>2, <2>4 DEF IInv
<1>2. ASSUME Close \/ Wait PROVE IInv'
  <2>1. TypeOK'
    BY <1>t, <1>2 DEF TypeOK, Close, Wait, channel, cursor, history
  <2>2. Finished' = Finished
    BY <1>2 DEF Close, Wait, Finished, history
  <2>3. Conserved' /\ NeverIdle' /\ NewestFirst' /\ Cursor' /\ SuccessIsComplete'
    BY <1>2, <2>2
    DEF IInv, Close, Wait, Conserved, NeverIdle, NewestFirst, Cursor, SuccessIsComplete,
        channel, cursor, history
  <2> QED BY <2>1, <2>3 DEF IInv
<1>3. ASSUME Reject PROVE IInv'
  <2>1. pc # "done" /\ UNCHANGED <<sent, closed, cursor, processed>>
    BY <1>3 DEF Reject, Receiving, Take
  <2>2. inbox' \in Seq(Items) /\ taken' \in Seq(Items)
    BY <1>t, <1>3, HeadTail DEF Reject, Take, TypeOK
  <2>3. Rejection(Head(inbox)) \in Errors /\ Stop(Rejection(Head(inbox)))
    BY <1>3 DEF Reject, Rejection, Errors
  <2> QED BY <2>1, <2>2, <2>3, StopInv
<1>4. ASSUME OpenFails \/ RunDry \/ LayerFails PROVE IInv'
  <2>1. pc # "done" /\ UNCHANGED <<channel, cursor, history>>
    BY <1>4 DEF OpenFails, RunDry, LayerFails, Receiving
  <2>2. inbox' \in Seq(Items) /\ taken' \in Seq(Items)
    BY <1>t, <2>1 DEF TypeOK, channel, history
  <2>3. PICK e \in Errors : Stop(e)
    BY <1>4, ResequencerAssumption DEF OpenFails, RunDry, LayerFails, Errors
  <2> QED BY <2>1, <2>2, <2>3, StopInv DEF channel, history
<1>5. ASSUME UNCHANGED vars PROVE IInv'
  <2>1. TypeOK'
    BY <1>t, <1>5 DEF TypeOK, vars, channel, cursor, history
  <2>2. Finished' = Finished
    BY <1>5 DEF Finished, vars, history
  <2>3. Conserved' /\ NeverIdle' /\ NewestFirst' /\ Cursor' /\ SuccessIsComplete'
    BY <1>5, <2>2
    DEF IInv, Conserved, NeverIdle, NewestFirst, Cursor, SuccessIsComplete,
        vars, channel, cursor, history
  <2> QED BY <2>1, <2>3 DEF IInv
<1> QED
  BY <1>1, <1>2, <1>3, <1>4, <1>5, AcceptInv, StartInv, FinishLayerInv, FinishInv
  DEF Next, Merge

(* The books of the resequencing loop hold in every state: every delivered *)
(* layer is in exactly one of the buffer, process_layer and the finished   *)
(* ones, and the loop never waits while the next layer is at hand.         *)
THEOREM BooksAreKept == Spec => [](TypeOK /\ Conserved /\ NeverIdle)
<1>1. IInv => TypeOK /\ Conserved /\ NeverIdle
  BY DEF IInv
<1> QED BY <1>1, InitInv, NextInv, PTL DEF Spec

(* Layers are processed in descending index order, each once, for every    *)
(* order of arrival.                                                       *)
THEOREM DescendingOrder == Spec => []NewestFirst
<1>1. IInv => NewestFirst
  BY DEF IInv
<1> QED BY <1>1, InitInv, NextInv, PTL DEF Spec

(* merge_layers_into_streaming returns Ok only after it processed every    *)
(* layer of the image.                                                     *)
THEOREM CompleteOnSuccess == Spec => []SuccessIsComplete
<1>1. IInv => SuccessIsComplete
  BY DEF IInv
<1> QED BY <1>1, InitInv, NextInv, PTL DEF Spec

----------------------------------------------------------------------------
(* The first fault. *)

(* Until the merge stops, the items it took are the layers delivered. *)
TakenInv ==
  /\ pc # "done" =>
       /\ \A i \in DOMAIN taken : taken[i] \in delivered
       /\ \A i, j \in DOMAIN taken : i < j => taken[i] # taken[j]
       /\ \A x \in delivered : \E i \in DOMAIN taken : taken[i] = x
       /\ result = "none"
  /\ FirstFaultDecides

LEMMA TakenAppend ==
  ASSUME TypeOK, TakenInv, pc # "done", NEW x \in Items, taken' = Append(taken, x)
  PROVE  /\ Len(taken) \in Nat /\ Len(taken') = Len(taken) + 1
         /\ DOMAIN taken = 1..Len(taken) /\ DOMAIN taken' = 1..(Len(taken) + 1)
         /\ \A i \in DOMAIN taken : taken'[i] = taken[i]
         /\ taken'[Len(taken')] = x
         /\ \A i, j \in DOMAIN taken' : i < j /\ j < Len(taken') =>
              taken'[i] \in Indexes /\ taken'[i] # taken'[j]
<1>1. /\ Len(taken) \in Nat /\ Len(taken') = Len(taken) + 1
      /\ DOMAIN taken = 1..Len(taken) /\ DOMAIN taken' = 1..(Len(taken) + 1)
      /\ \A i \in DOMAIN taken : taken'[i] = taken[i]
      /\ taken'[Len(taken')] = x
  BY DEF TypeOK
<1>2. ASSUME NEW i \in DOMAIN taken', NEW j \in DOMAIN taken', i < j, j < Len(taken')
      PROVE  taken'[i] \in Indexes /\ taken'[i] # taken'[j]
  <2>1. i \in DOMAIN taken /\ j \in DOMAIN taken
    BY <1>1, <1>2
  <2> QED BY <1>1, <1>2, <2>1 DEF TypeOK, TakenInv
<1> QED BY <1>1, <1>2

LEMMA TakenStep == IInv /\ TakenInv /\ [Next]_vars => TakenInv'
<1> SUFFICES ASSUME IInv, TakenInv, [Next]_vars PROVE TakenInv'
  OBVIOUS
<1>t. TypeOK
  BY DEF IInv
<1>1. CASE Accept
  <2> DEFINE x == Head(inbox)
  <2>1. /\ x \in Indexes \ delivered /\ delivered' = delivered \cup {x}
        /\ taken' = Append(taken, x) /\ pc = "recv" /\ inbox # <<>> /\ result' = result
    BY <1>1 DEF Accept, Take, Receiving
  <2>2. x \in Items
    BY <1>t, <2>1, HeadTail
  <2> HIDE DEF x
  <2>3. /\ Len(taken) \in Nat /\ Len(taken') = Len(taken) + 1
        /\ DOMAIN taken = 1..Len(taken) /\ DOMAIN taken' = 1..(Len(taken) + 1)
        /\ \A i \in DOMAIN taken : taken'[i] = taken[i]
        /\ taken'[Len(taken')] = x
        /\ \A i, j \in DOMAIN taken' : i < j /\ j < Len(taken') =>
             taken'[i] \in Indexes /\ taken'[i] # taken'[j]
    BY <1>t, <2>1, <2>2, TakenAppend
  <2>4. \A i \in DOMAIN taken' : taken'[i] \in delivered'
    BY <2>1, <2>3 DEF TakenInv
  <2>5. \A i, j \in DOMAIN taken' : i < j => taken'[i] # taken'[j]
    BY <2>1, <2>3 DEF TakenInv
  <2>6. \A y \in delivered' : \E i \in DOMAIN taken' : taken'[i] = y
    BY <2>1, <2>3 DEF TakenInv
  <2>7. result' = "none"
    BY <2>1 DEF TakenInv
  <2>8. FirstFaultDecides'
    BY <2>3, <2>7 DEF FirstFaultDecides
  <2> QED BY <2>4, <2>5, <2>6, <2>7, <2>8 DEF TakenInv
<1>2. CASE Reject
  <2> DEFINE x == Head(inbox)
  <2>1. /\ x \notin Indexes \ delivered /\ taken' = Append(taken, x) /\ pc = "recv"
        /\ inbox # <<>> /\ pc' = "done" /\ result' = Rejection(x)
    BY <1>2 DEF Reject, Take, Receiving, Stop
  <2>2. x \in Items
    BY <1>t, <2>1, HeadTail
  <2> HIDE DEF x
  <2>3. /\ Len(taken) \in Nat /\ Len(taken') = Len(taken) + 1
        /\ DOMAIN taken = 1..Len(taken)
        /\ \A i \in DOMAIN taken : taken'[i] = taken[i]
        /\ taken'[Len(taken')] = x
        /\ \A i, j \in DOMAIN taken' : i < j /\ j < Len(taken') =>
             taken'[i] \in Indexes /\ taken'[i] # taken'[j]
    BY <1>t, <2>1, <2>2, TakenAppend
  <2>4. CASE x = SourceError
    BY <2>1, <2>3, <2>4 DEF FirstFaultDecides, TakenInv, Rejection
  <2>5. CASE x \notin Indexes \cup {SourceError}
    <3>1. x >= Total /\ result' = "LayerIndexOutOfRange"
      BY <2>1, <2>2, <2>5, ResequencerAssumption DEF Items, Indexes, Rejection
    <3> QED BY <2>1, <2>3, <3>1 DEF FirstFaultDecides, TakenInv
  <2>6. CASE x \in Indexes
    <3>1. x # SourceError /\ result' = "DuplicateLayer" /\ x \in delivered
      BY <2>1, <2>6, ResequencerAssumption DEF Indexes, SourceError, Rejection
    <3>2. PICK i \in DOMAIN taken : taken[i] = x
      BY <2>1, <3>1 DEF TakenInv
    <3>3. i \in 1..(Len(taken') - 1) /\ taken'[i] = taken'[Len(taken')]
      BY <2>3, <3>2
    <3> QED BY <2>1, <2>3, <3>1, <3>3 DEF FirstFaultDecides, TakenInv
  <2> QED BY <2>4, <2>5, <2>6
<1>3. CASE RunDry
  <2>1. pc = "recv" /\ pc' = "done" /\ result' = "MissingLayers" /\ received < Total
        /\ UNCHANGED <<delivered, taken>>
    BY <1>3 DEF RunDry, Receiving, Stop, cursor, history
  <2> QED BY <1>t, <2>1 DEF FirstFaultDecides, TakenInv, TypeOK
<1>4. CASE OpenFails \/ LayerFails \/ Finish
  <2>1. pc # "done" /\ pc' = "done" /\ result' \in {"ok", "Layer", "Output"}
        /\ UNCHANGED <<delivered, taken>>
    BY <1>4, ResequencerAssumption DEF OpenFails, LayerFails, Finish, Stop, cursor, history
  <2> QED BY <2>1 DEF FirstFaultDecides, TakenInv
<1>5. CASE StartLayer \/ FinishLayer \/ Wait
  <2>1. pc # "done" /\ pc' # "done" /\ UNCHANGED <<delivered, taken, result>>
    BY <1>5 DEF StartLayer, FinishLayer, Wait, cursor, history
  <2> QED BY <2>1 DEF FirstFaultDecides, TakenInv
<1>6. CASE (\E item \in Items : Send(item)) \/ Close \/ UNCHANGED vars
  <2>1. UNCHANGED <<pc, delivered, taken, result>>
    BY <1>6 DEF Send, Close, vars, cursor, history
  <2> QED BY <2>1 DEF FirstFaultDecides, TakenInv
<1> QED BY <1>1, <1>2, <1>3, <1>4, <1>5, <1>6 DEF Next, Merge

(* For every sequence of items: the first bad one decides, all before it   *)
(* were new layers of the image, and the error names what is wrong with it.*)
THEOREM FirstFault == Spec => []FirstFaultDecides
<1>1. Init => TakenInv
  BY DEF Init, TakenInv, FirstFaultDecides
<1>2. TakenInv => FirstFaultDecides
  BY DEF TakenInv
<1> QED BY <1>1, <1>2, InitInv, NextInv, TakenStep, PTL DEF Spec

----------------------------------------------------------------------------
(* Refinement. *)

LEMMA InitMaps == Init => InOrder!Init
BY DEF Init, InOrder!Init, Verdict

LEMMA StepMaps ==
  IInv /\ [Next]_vars => [InOrder!Next]_<<processed, Verdict>>
<1> SUFFICES ASSUME IInv, [Next]_vars, <<processed, Verdict>>' # <<processed, Verdict>>
             PROVE  InOrder!Next
  OBVIOUS
<1>1. TypeOK /\ Cursor
  BY DEF IInv
<1>2. ASSUME FinishLayer PROVE InOrder!Process
  <2>1. /\ Len(processed) < Total /\ active = Total - 1 - Len(processed)
        /\ processed' = Append(processed, active)
        /\ result = "none" /\ result' = result
    BY <1>1, <1>2 DEF FinishLayer, Cursor
  <2> QED BY <2>1 DEF InOrder!Process, Verdict
<1>3. ASSUME NEW e \in Errors, Stop(e), pc # "done", processed' = processed
      PROVE  InOrder!Fail
  BY <1>1, <1>3 DEF Stop, Errors, Cursor, InOrder!Fail, Verdict
<1>4. ASSUME Finish PROVE InOrder!Next
  <2>1. CASE Stop("ok")
    <3>1. /\ Len(processed) = Total /\ result = "none" /\ result' = "ok"
          /\ processed' = processed
      BY <1>1, <1>4, <2>1, ReceivedAllFinished DEF Finish, Cursor, Stop, history
    <3> QED BY <3>1 DEF InOrder!Next, InOrder!Succeed, Verdict
  <2>2. CASE Stop("Output")
    BY <1>3, <1>4, <2>2 DEF Finish, history, Errors, InOrder!Next
  <2> QED BY <1>4, <2>1, <2>2 DEF Finish
<1>5. ASSUME Reject PROVE InOrder!Fail
  BY <1>3, <1>5 DEF Reject, Rejection, Errors, Receiving, Take
<1>6. ASSUME OpenFails \/ RunDry \/ LayerFails PROVE InOrder!Fail
  BY <1>3, <1>6, ResequencerAssumption DEF OpenFails, RunDry, LayerFails, Errors, Receiving, history
<1>7. ASSUME (\E item \in Items : Send(item)) \/ Close \/ Accept \/ StartLayer \/ Wait
             \/ UNCHANGED vars
      PROVE  FALSE
  BY <1>7 DEF Send, Close, Accept, Take, StartLayer, Wait, vars, history, Verdict
<1> QED BY <1>2, <1>4, <1>5, <1>6, <1>7 DEF Next, Merge, InOrder!Next

(* The resequencing loop implements InOrderMerge: whatever arrives, and in *)
(* whatever order, an observer of the processed layers and of the result   *)
(* sees the newest-first, all-or-error merge.                              *)
THEOREM ImplementsInOrder == Spec => InOrderSpec
<1> QED BY InitMaps, StepMaps, InitInv, NextInv, PTL DEF Spec, InOrderSpec, InOrder!Spec
=============================================================================
