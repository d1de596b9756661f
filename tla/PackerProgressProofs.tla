------------------------ MODULE PackerProgressProofs ------------------------
(***************************************************************************)
(* Proofs about the streaming packer and its progress channel, for any     *)
(* number of layers, callers and calls and any capacity of the caller's    *)
(* channel: no layer is lost on its way to the merge thread, no progress   *)
(* event on its way to the caller, and what finish returns fits what the   *)
(* callers were told.                                                      *)
(***************************************************************************)
EXTENDS PackerProgress, SequenceTheorems, FiniteSetTheorems, TLAPS

USE ProgressAssumption

----------------------------------------------------------------------------
(* Sequences. *)

(* An element moves from the front of one sequence to the end of the one   *)
(* before it.                                                              *)
LEMMA Handover ==
  ASSUME NEW S, NEW a \in Seq(S), NEW b \in Seq(S), b # <<>>
  PROVE  /\ Head(b) \in S /\ Tail(b) \in Seq(S)
         /\ Append(a, Head(b)) \o Tail(b) = a \o b
         /\ (a \o <<Head(b)>>) \o Tail(b) = a \o b
<1>1. Head(b) \in S /\ Tail(b) \in Seq(S) /\ <<Head(b)>> \in Seq(S)
  BY HeadTailProperties
<1>2. b = <<Head(b)>> \o Tail(b)
  BY <1>1
<1>3. (a \o <<Head(b)>>) \o Tail(b) = a \o (<<Head(b)>> \o Tail(b))
  BY <1>1, ConcatAssociative
<1>4. Append(a, Head(b)) = a \o <<Head(b)>>
  BY <1>1, AppendIsConcat
<1> QED BY <1>1, <1>2, <1>3, <1>4

(* A sequence behind others grows. *)
LEMMA Growth ==
  ASSUME NEW S, NEW a \in Seq(S), NEW b \in Seq(S), NEW e \in S
  PROVE  a \o Append(b, e) = Append(a \o b, e)
<1>1. a \o b \in Seq(S) /\ <<e>> \in Seq(S)
  BY ConcatProperties
<1>2. Append(b, e) = b \o <<e>> /\ Append(a \o b, e) = (a \o b) \o <<e>>
  BY <1>1, AppendIsConcat
<1> QED BY <1>1, <1>2, ConcatAssociative

LEMMA Members ==
  ASSUME NEW S, NEW s \in Seq(S)
  PROVE  /\ \A e \in S : ToSet(Append(s, e)) = ToSet(s) \cup {e}
         /\ s # <<>> => /\ Head(s) \in S /\ Tail(s) \in Seq(S)
                        /\ ToSet(s) = {Head(s)} \cup ToSet(Tail(s))
<1>1. ASSUME NEW e \in S PROVE ToSet(Append(s, e)) = ToSet(s) \cup {e}
  <2>1. /\ DOMAIN Append(s, e) = DOMAIN s \cup {Len(s) + 1}
        /\ Append(s, e)[Len(s) + 1] = e
        /\ \A i \in DOMAIN s : Append(s, e)[i] = s[i]
    OBVIOUS
  <2> QED BY <2>1 DEF ToSet
<1>2. ASSUME s # <<>>
      PROVE  /\ Head(s) \in S /\ Tail(s) \in Seq(S)
             /\ ToSet(s) = {Head(s)} \cup ToSet(Tail(s))
  <2>1. /\ Head(s) \in S /\ Head(s) = s[1] /\ Tail(s) \in Seq(S)
        /\ Len(s) \in Nat /\ Len(s) > 0 /\ DOMAIN s = 1..Len(s)
        /\ DOMAIN Tail(s) = 1..(Len(s) - 1)
        /\ \A i \in 1..(Len(s) - 1) : Tail(s)[i] = s[i + 1]
    BY <1>2, HeadTailProperties
  <2>2. ASSUME NEW i \in DOMAIN s PROVE s[i] \in {Head(s)} \cup ToSet(Tail(s))
    <3>1. CASE i = 1
      BY <2>1, <3>1
    <3>2. CASE i # 1
      <4>1. i - 1 \in DOMAIN Tail(s) /\ Tail(s)[i - 1] = s[i]
        BY <2>1, <3>2
      <4> QED BY <4>1 DEF ToSet
    <3> QED BY <3>1, <3>2
  <2>3. ASSUME NEW i \in DOMAIN Tail(s) PROVE Tail(s)[i] \in ToSet(s)
    <3>1. i + 1 \in DOMAIN s /\ Tail(s)[i] = s[i + 1]
      BY <2>1
    <3> QED BY <3>1 DEF ToSet
  <2>4. Head(s) \in ToSet(s)
    BY <2>1 DEF ToSet
  <2> QED BY <2>1, <2>2, <2>3, <2>4 DEF ToSet
<1> QED BY <1>1, <1>2

----------------------------------------------------------------------------
(* The layers. *)

PackerInv ==
  /\ layers \in Seq(Items) /\ inbox \in Seq(Items) /\ taken \in Seq(Items)
  /\ calling \in [Callers -> Items \cup {NoCall}]
  /\ NothingLost

(* What the merge thread does to its end of the channel. *)
LEMMA MergeTakes ==
  ASSUME Resequencer!Merge
  PROVE  /\ pc # "done"
         /\ \/ UNCHANGED <<inbox, taken>>
            \/ /\ inbox # <<>> /\ inbox' = Tail(inbox)
               /\ taken' = Append(taken, Head(inbox))
  BY DEF Resequencer!Merge, Resequencer!Accept, Resequencer!Reject, Resequencer!RunDry,
       Resequencer!OpenFails, Resequencer!StartLayer, Resequencer!FinishLayer, Resequencer!LayerFails,
       Resequencer!Wait, Resequencer!Finish, Resequencer!Receiving, Resequencer!Take,
       Resequencer!channel, Resequencer!history

LEMMA PackerInitially == Init => PackerInv
  BY DEF Init, PackerInv, NothingLost, Accepted, ToSet, Resequencer!Init

LEMMA PackerStep ==
  ASSUME PackerInv, [Next]_vars
  PROVE  PackerInv' /\ [Resequencer!Next]_mergeVars
<1> USE DEF PackerInv, NothingLost, Accepted
<1>1. ASSUME NEW c \in Callers, NEW item \in Items, Notify(c, item)
      PROVE  PackerInv' /\ UNCHANGED mergeVars
  BY <1>1 DEF Notify, mergeVars
<1>2. ASSUME NEW c \in Callers, NEW item \in Items, RefuseIndex(c, item)
      PROVE  PackerInv' /\ UNCHANGED mergeVars
  <2>1. \A i : <<i, "ok">> \in answers' <=> <<i, "ok">> \in answers
    BY <1>2 DEF RefuseIndex
  <2> QED BY <1>2, <2>1 DEF RefuseIndex, mergeVars
<1>3. ASSUME NEW c \in Callers, SendItem(c)
      PROVE  PackerInv' /\ UNCHANGED mergeVars
  <2>1. calling[c] \in Items /\ layers' = Append(layers, calling[c]) /\ UNCHANGED mergeVars
    BY <1>3 DEF SendItem
  <2>2. \A i : <<i, "ok">> \in answers' <=> <<i, "ok">> \in answers \/ i = calling[c]
    BY <1>3 DEF SendItem, Answer
  <2>3. ToSet(layers') = ToSet(layers) \cup {calling[c]} /\ layers' \in Seq(Items)
    BY <2>1, Members
  <2>4. calling' \in [Callers -> Items \cup {NoCall}]
    BY <1>3 DEF SendItem, Answer
  <2>5. Accepted' = Accepted \cup {calling[c]}
    BY <2>1, <2>2
  <2> QED BY <2>1, <2>3, <2>4, <2>5 DEF mergeVars
<1>4. ASSUME NEW c \in Callers, SendStopped(c)
      PROVE  PackerInv' /\ UNCHANGED mergeVars
  <2>1. \A i : <<i, "ok">> \in answers' <=> <<i, "ok">> \in answers
    BY <1>4 DEF SendStopped, Answer
  <2>2. calling' \in [Callers -> Items \cup {NoCall}]
    BY <1>4 DEF SendStopped, Answer
  <2> QED BY <1>4, <2>1, <2>2 DEF SendStopped, mergeVars
<1>5. ASSUME Finish \/ Drop \/ FinishReturns
      PROVE  PackerInv' /\ UNCHANGED mergeVars
  BY <1>5 DEF Finish, Drop, Release, FinishReturns, callerVars, mergeVars
<1>6. ASSUME RelayItem
      PROVE  PackerInv' /\ Resequencer!Next
  <2>1. /\ layers # <<>> /\ layers' = Tail(layers) /\ inbox' = Append(inbox, Head(layers))
        /\ UNCHANGED <<pc, taken, calling, answers>> /\ Resequencer!Send(Head(layers))
    BY <1>6 DEF RelayItem, Resequencer!Send, Resequencer!history, callerVars
  <2>2. /\ Head(layers) \in Items /\ layers' \in Seq(Items)
        /\ ToSet(layers) = {Head(layers)} \cup ToSet(layers')
    BY <2>1, Members
  <2>3. inbox' \in Seq(Items) /\ ToSet(inbox') = ToSet(inbox) \cup {Head(layers)}
    BY <2>1, <2>2, Members
  <2> QED BY <2>1, <2>2, <2>3 DEF Resequencer!Next, Items
<1>7. ASSUME RelayBreaks \/ RelayEnds
      PROVE  PackerInv' /\ Resequencer!Next
  <2>1. /\ layers' = <<>> /\ UNCHANGED <<pc, inbox, taken, calling, answers>>
        /\ pc # "done" => layers = <<>>
        /\ Resequencer!Close
    BY <1>7 DEF RelayBreaks, RelayEnds, RelayGone, Resequencer!Close, Resequencer!history,
         callerVars
  <2> QED BY <2>1 DEF Resequencer!Next
<1>8. ASSUME MergeThread
      PROVE  PackerInv' /\ Resequencer!Next
  <2>1. Resequencer!Merge /\ UNCHANGED <<layers, calling, answers>>
    BY <1>8 DEF MergeThread, callerVars
  <2>2. CASE UNCHANGED <<inbox, taken>>
    BY <2>1, <2>2, MergeTakes DEF Resequencer!Next
  <2>3. CASE inbox # <<>> /\ inbox' = Tail(inbox) /\ taken' = Append(taken, Head(inbox))
    <3>1. /\ Head(inbox) \in Items /\ inbox' \in Seq(Items)
          /\ ToSet(inbox) = {Head(inbox)} \cup ToSet(inbox')
      BY <2>3, Members
    <3>2. taken' \in Seq(Items) /\ ToSet(taken') = ToSet(taken) \cup {Head(inbox)}
      BY <2>3, <3>1, Members
    <3> QED BY <2>1, <3>1, <3>2, MergeTakes DEF Resequencer!Next
  <2> QED BY <2>1, <2>2, <2>3, MergeTakes
<1>9. CASE UNCHANGED vars
  BY <1>9 DEF vars, mergeVars
<1> QED BY <1>1, <1>2, <1>3, <1>4, <1>5, <1>6, <1>7, <1>8, <1>9 DEF Next, Relay

----------------------------------------------------------------------------
(* The progress events. *)

Events == {"started", "finished"} \X (0..(Total - 1))
Nothing == <<>>
Held(event) == IF event = Nothing THEN <<>> ELSE <<event>>

(* The events that were sent and have not reached the caller, behind those *)
(* that have.                                                              *)
Before == ((got \o queue) \o Held(taskHas)) \o bridge
Stream == (Before \o Held(threadHas)) \o std

ProgressTypes ==
  /\ layer \in -1..(Total - 1) /\ working \in BOOLEAN /\ merging \in BOOLEAN
  /\ got \in Seq(Events) /\ queue \in Seq(Events) /\ bridge \in Seq(Events)
  /\ std \in Seq(Events) /\ emitted \in Seq(Events)
  /\ taskHas \in Events \cup {Nothing} /\ threadHas \in Events \cup {Nothing}
  /\ thread \in {"running", "gone"} /\ task \in {"running", "gone"}
  /\ caller \in {"reading", "idle", "gone"} /\ ended \in BOOLEAN

(* Two events per layer: the std channel has room for all of them. *)
Counted ==
  /\ working => layer >= 0
  /\ Len(emitted) = 2 * (Total - 1 - layer) + IF working THEN 1 ELSE 0

(* Thread and task leave nothing behind, and while the caller keeps its    *)
(* end they leave in order, after the merge.                               *)
Leaving ==
  /\ thread = "gone" => std = <<>> /\ threadHas = Nothing
  /\ task = "gone" => bridge = <<>> /\ taskHas = Nothing
  /\ caller # "gone" => /\ thread = "gone" => ~merging
                        /\ task = "gone" => thread = "gone"
  /\ ended /\ caller # "gone" => task = "gone" /\ queue = <<>>

ProgressInv ==
  ProgressTypes /\ Counted /\ Leaving /\ (caller # "gone" => emitted = Stream)
  /\ (ended => ~merging)

LEMMA HeldTypes ==
  /\ Held(Nothing) = <<>> /\ Nothing = <<>>
  /\ \A e \in Events : e # Nothing /\ Held(e) = <<e>>
  /\ \A e \in Events \cup {Nothing} : Held(e) \in Seq(Events)
<1>1. \A e \in Events : e # <<>>
  BY DEF Events
<1> QED BY <1>1 DEF Held, Nothing

(* Handover and Growth, of events. *)
LEMMA EventsMove ==
  ASSUME NEW a \in Seq(Events), NEW b \in Seq(Events)
  PROVE  /\ \A e \in Events : a \o Append(b, e) = Append(a \o b, e)
         /\ b # <<>> => /\ Head(b) \in Events /\ Tail(b) \in Seq(Events)
                        /\ Append(a, Head(b)) \o Tail(b) = a \o b
                        /\ (a \o <<Head(b)>>) \o Tail(b) = a \o b
<1>1. ASSUME NEW e \in Events PROVE a \o Append(b, e) = Append(a \o b, e)
  BY Growth
<1>2. ASSUME b # <<>>
      PROVE  /\ Head(b) \in Events /\ Tail(b) \in Seq(Events)
             /\ Append(a, Head(b)) \o Tail(b) = a \o b
             /\ (a \o <<Head(b)>>) \o Tail(b) = a \o b
  BY <1>2, Handover
<1> QED BY <1>1, <1>2

LEMMA BeforeType ==
  ASSUME ProgressTypes
  PROVE  /\ Before \in Seq(Events) /\ Before \o Held(threadHas) \in Seq(Events)
         /\ got \o queue \in Seq(Events) /\ (got \o queue) \o Held(taskHas) \in Seq(Events)
  BY HeldTypes, ConcatProperties DEF ProgressTypes, Before

(* While the caller keeps its end, the std channel is never full. *)
LEMMA Room ==
  ASSUME ProgressInv, caller # "gone", Len(emitted) < 2 * Total
  PROVE  Len(std) < Progress!Cap
<1>1. Len(emitted) = Len(Before \o Held(threadHas)) + Len(std)
  BY BeforeType, ConcatProperties DEF ProgressInv, ProgressTypes, Stream
<1>2. Len(Before \o Held(threadHas)) \in Nat /\ Len(std) \in Nat /\ Len(emitted) \in Nat
  BY BeforeType DEF ProgressInv, ProgressTypes
<1>3. Progress!Cap >= 2 * Total /\ Progress!Cap \in Nat
  BY DEF Progress!Cap
<1> QED BY <1>1, <1>2, <1>3

(* An event that is sent by the merge thread is at the end of the stream.  *)
LEMMA EmissionKeeps ==
  ASSUME ProgressInv, merging, NEW e \in Events, Len(emitted) < 2 * Total,
         Progress!Emit(e),
         UNCHANGED <<got, queue, taskHas, bridge, threadHas, thread, caller>>
  PROVE  /\ std' \in Seq(Events) /\ emitted' \in Seq(Events)
         /\ Len(emitted') = Len(emitted) + 1
         /\ thread = "gone" => std' = std
         /\ caller # "gone" => emitted' = Stream'
<1>1. std \in Seq(Events) /\ emitted \in Seq(Events) /\ emitted' = Append(emitted, e)
  BY DEF ProgressInv, ProgressTypes, Progress!Emit
<1>2. std' = std \/ std' = Append(std, e)
  BY DEF Progress!Emit
<1>3. ASSUME caller # "gone" PROVE emitted' = Stream'
  <2>1. thread = "running" /\ Len(std) < Progress!Cap
    BY <1>3, Room DEF ProgressInv, ProgressTypes, Leaving
  <2>2. std' = Append(std, e)
    BY <2>1 DEF Progress!Emit
  <2>3. Stream' = (Before \o Held(threadHas)) \o std'
    BY DEF Stream, Before
  <2>4. Stream' = Append(Stream, e)
    <3>1. Before \o Held(threadHas) \in Seq(Events)
      BY BeforeType DEF ProgressInv
    <3>2. (Before \o Held(threadHas)) \o Append(std, e) =
          Append((Before \o Held(threadHas)) \o std, e)
      BY <1>1, <3>1, EventsMove
    <3> QED BY <2>2, <2>3, <3>2 DEF Stream
  <2>5. emitted = Stream
    BY <1>3 DEF ProgressInv
  <2> QED BY <1>1, <2>4, <2>5
<1>4. thread = "gone" => std' = std
  BY DEF Progress!Emit
<1>5. std' \in Seq(Events)
  BY <1>1, <1>2
<1>6. emitted' \in Seq(Events) /\ Len(emitted') = Len(emitted) + 1
  BY <1>1
<1> QED BY <1>3, <1>4, <1>5, <1>6

LEMMA ProgressInitially == Progress!Init => ProgressInv
<1> SUFFICES ASSUME Progress!Init PROVE ProgressInv
  OBVIOUS
<1>1. ProgressTypes
  <2>1. layer \in -1..(Total - 1)
    BY DEF Progress!Init
  <2>2. /\ got \in Seq(Events) /\ queue \in Seq(Events) /\ bridge \in Seq(Events)
        /\ std \in Seq(Events) /\ emitted \in Seq(Events)
    BY DEF Progress!Init
  <2>3. taskHas \in Events \cup {Nothing} /\ threadHas \in Events \cup {Nothing}
    BY DEF Progress!Init, Nothing, Progress!Nothing
  <2>4. /\ working \in BOOLEAN /\ merging \in BOOLEAN /\ ended \in BOOLEAN
        /\ thread \in {"running", "gone"} /\ task \in {"running", "gone"}
        /\ caller \in {"reading", "idle", "gone"}
    BY DEF Progress!Init
  <2> QED BY <2>1, <2>2, <2>3, <2>4 DEF ProgressTypes
<1>5. Leaving /\ ~ended
  BY DEF Progress!Init, Leaving
<1>4. Counted
  BY DEF Progress!Init, Counted
<1>2. Held(taskHas) = <<>> /\ Held(threadHas) = <<>>
  BY HeldTypes DEF Progress!Init, Nothing, Progress!Nothing
<1>3. emitted = Stream
  BY <1>2 DEF Progress!Init, Stream, Before
<1> QED BY <1>1, <1>3, <1>4, <1>5 DEF ProgressInv

(* The merge thread. *)
LEMMA TellingKeeps ==
  ASSUME ProgressInv, Progress!StartLayer \/ Progress!FinishLayer \/ Progress!EndMerge
  PROVE  ProgressInv'
<1>1. CASE Progress!StartLayer
  <2> DEFINE e == <<"started", layer>>
  <2>1. /\ merging /\ ~working /\ layer >= 0 /\ working' = TRUE /\ Progress!Emit(e)
        /\ UNCHANGED <<layer, merging, thread, threadHas, bridge, task, taskHas, queue,
                       caller, ended, got>>
    BY <1>1 DEF Progress!StartLayer, Progress!ends
  <2>2. e \in Events
    BY <2>1 DEF ProgressInv, ProgressTypes, Events
  <2>3. Len(emitted) = 2 * (Total - 1 - layer) /\ layer \in 0..(Total - 1)
    BY <2>1 DEF ProgressInv, ProgressTypes, Counted
  <2>4. Len(emitted) < 2 * Total
    BY <2>3
  <2> HIDE DEF e
  <2>5. /\ std' \in Seq(Events) /\ emitted' \in Seq(Events)
        /\ Len(emitted') = Len(emitted) + 1
        /\ thread = "gone" => std' = std
        /\ caller # "gone" => emitted' = Stream'
    BY <2>1, <2>2, <2>4, EmissionKeeps
  <2>6. ProgressTypes'
    BY <2>1, <2>5 DEF ProgressInv, ProgressTypes
  <2>7. Counted'
    BY <2>1, <2>3, <2>5 DEF Counted
  <2>8. Leaving' /\ (ended' => ~merging')
    BY <2>1, <2>5 DEF ProgressInv, Leaving
  <2> QED BY <2>1, <2>5, <2>6, <2>7, <2>8 DEF ProgressInv
<1>2. CASE Progress!FinishLayer
  <2> DEFINE e == <<"finished", layer>>
  <2>1. /\ merging /\ working /\ working' = FALSE /\ layer' = layer - 1 /\ Progress!Emit(e)
        /\ UNCHANGED <<merging, thread, threadHas, bridge, task, taskHas, queue,
                       caller, ended, got>>
    BY <1>2 DEF Progress!FinishLayer, Progress!ends
  <2>2. e \in Events
    BY <2>1 DEF ProgressInv, ProgressTypes, Counted, Events
  <2>3. Len(emitted) = 2 * (Total - 1 - layer) + 1 /\ layer \in 0..(Total - 1)
    BY <2>1 DEF ProgressInv, ProgressTypes, Counted
  <2>4. Len(emitted) < 2 * Total
    BY <2>3
  <2> HIDE DEF e
  <2>5. /\ std' \in Seq(Events) /\ emitted' \in Seq(Events)
        /\ Len(emitted') = Len(emitted) + 1
        /\ thread = "gone" => std' = std
        /\ caller # "gone" => emitted' = Stream'
    BY <2>1, <2>2, <2>4, EmissionKeeps
  <2>6. ProgressTypes'
    <3>1. layer' \in -1..(Total - 1)
      BY <2>1, <2>3
    <3>2. working' \in BOOLEAN
      BY <2>1
    <3> QED BY <2>1, <2>5, <3>1, <3>2 DEF ProgressInv, ProgressTypes
  <2>7. Counted'
    BY <2>1, <2>3, <2>5 DEF Counted
  <2>8. Leaving' /\ (ended' => ~merging')
    BY <2>1, <2>5 DEF ProgressInv, Leaving
  <2> QED BY <2>1, <2>5, <2>6, <2>7, <2>8 DEF ProgressInv
<1>3. CASE Progress!EndMerge
  <2>1. merging' = FALSE /\ UNCHANGED <<layer, working, emitted, std, thread, threadHas, bridge,
          task, taskHas, queue, caller, ended, got>>
    BY <1>3 DEF Progress!EndMerge, Progress!ends
  <2>2. ProgressTypes' /\ Counted'
    BY <2>1 DEF ProgressInv, ProgressTypes, Counted
  <2>3. Leaving' /\ (ended' => ~merging')
    BY <2>1 DEF ProgressInv, Leaving
  <2>4. Stream' = Stream /\ caller' = caller /\ emitted' = emitted
    BY <2>1 DEF Stream, Before
  <2> QED BY <2>2, <2>3, <2>4 DEF ProgressInv
<1> QED BY <1>1, <1>2, <1>3

(* The blocking thread. *)
LEMMA ThreadKeeps ==
  ASSUME ProgressInv, Progress!Thread
  PROVE  ProgressInv'
<1> DEFINE p == ((got \o queue) \o Held(taskHas))
<1>1. /\ p \in Seq(Events) /\ Before \in Seq(Events)
      /\ UNCHANGED <<layer, working, merging, emitted, got, queue, task, taskHas, caller, ended>>
  BY BeforeType DEF ProgressInv, Progress!Thread, Progress!ThreadReceives, Progress!ThreadSends,
       Progress!ThreadEnds, Progress!ThreadGone, Progress!merge, Progress!ends
<1>2. Counted' /\ (ended' => ~merging')
  BY <1>1 DEF ProgressInv, Counted
<1>3. CASE Progress!ThreadReceives
  <2>1. /\ threadHas = Nothing /\ std # <<>> /\ thread = "running"
        /\ threadHas' = Head(std) /\ std' = Tail(std) /\ UNCHANGED <<thread, bridge>>
    BY <1>3 DEF Progress!ThreadReceives, Nothing, Progress!Nothing
  <2>2. /\ Head(std) \in Events /\ Tail(std) \in Seq(Events)
        /\ (Before \o <<Head(std)>>) \o Tail(std) = Before \o std
    <3>1. std \in Seq(Events) /\ std # <<>> /\ Before \in Seq(Events)
      BY <1>1, <2>1 DEF ProgressInv, ProgressTypes
    <3> QED BY <3>1, EventsMove
  <2>3. Stream' = (Before \o <<Head(std)>>) \o Tail(std)
    BY <1>1, <2>1, <2>2, HeldTypes DEF Stream, Before
  <2>4. Stream = Before \o std
    BY <1>1, <2>1, HeldTypes, ConcatEmptySeq DEF Stream
  <2>5. ProgressTypes' /\ Leaving'
    BY <1>1, <2>1, <2>2 DEF ProgressInv, ProgressTypes, Leaving
  <2> QED BY <1>1, <1>2, <2>2, <2>3, <2>4, <2>5 DEF ProgressInv
<1>4. CASE Progress!ThreadSends
  <2>1. /\ threadHas # Nothing /\ thread = "running" /\ task = "running"
        /\ threadHas' = Nothing /\ bridge' = Append(bridge, threadHas)
        /\ UNCHANGED <<thread, std>>
    BY <1>4 DEF Progress!ThreadSends, Nothing, Progress!Nothing
  <2>2. threadHas \in Events /\ bridge \in Seq(Events) /\ bridge' \in Seq(Events)
    BY <2>1 DEF ProgressInv, ProgressTypes
  <2>3. p \o bridge' = Append(p \o bridge, threadHas)
    <3>1. bridge' = Append(bridge, threadHas) /\ p \in Seq(Events)
      BY <1>1, <2>1
    <3> HIDE DEF p
    <3> QED BY <2>2, <3>1, EventsMove
  <2>4. Before' = p \o bridge' /\ Before = p \o bridge
    BY <1>1 DEF Before
  <2>5. Append(Before, threadHas) = Before \o <<threadHas>>
    BY <1>1, <2>2, AppendIsConcat
  <2>6. Before' \o Held(threadHas') = Before \o Held(threadHas)
    <3>1. Before' \in Seq(Events)
      BY <1>1, <2>2, <2>3, <2>4
    <3> QED BY <2>1, <2>2, <2>3, <2>4, <2>5, <3>1, HeldTypes, ConcatEmptySeq
  <2>7. Stream' = Stream
    BY <2>1, <2>6 DEF Stream
  <2>8. ProgressTypes' /\ Leaving'
    BY <1>1, <2>1, <2>2 DEF ProgressInv, ProgressTypes, Leaving
  <2> QED BY <1>1, <1>2, <2>7, <2>8 DEF ProgressInv
<1>5. CASE Progress!ThreadEnds
  <2>1. /\ thread = "running" /\ thread' = "gone" /\ std' = <<>> /\ threadHas' = Nothing
        /\ UNCHANGED bridge
        /\ task = "gone" \/ (threadHas = Nothing /\ std = <<>> /\ ~merging)
    BY <1>5 DEF Progress!ThreadEnds, Progress!ThreadGone, Nothing, Progress!Nothing
  <2>2. caller # "gone" => threadHas = Nothing /\ std = <<>> /\ ~merging
    BY <2>1 DEF ProgressInv, Leaving
  <2>3. caller # "gone" => Stream' = Stream
    BY <1>1, <2>1, <2>2 DEF Stream, Before
  <2>4. ProgressTypes'
    BY <1>1, <2>1 DEF ProgressInv, ProgressTypes
  <2>5. Leaving'
    BY <1>1, <2>1, <2>2 DEF ProgressInv, Leaving
  <2> QED BY <1>1, <1>2, <2>3, <2>4, <2>5 DEF ProgressInv
<1> QED BY <1>3, <1>4, <1>5 DEF Progress!Thread

(* The task. *)
LEMMA TaskKeeps ==
  ASSUME ProgressInv, Progress!Task
  PROVE  ProgressInv'
<1> DEFINE p == got \o queue
           rest == Held(threadHas)
<1>1. /\ p \in Seq(Events) /\ p \o Held(taskHas) \in Seq(Events)
      /\ UNCHANGED <<layer, working, merging, emitted, std, thread, threadHas, got, caller, ended>>
  BY BeforeType DEF ProgressInv, Progress!Task, Progress!TaskReceives, Progress!TaskSends,
       Progress!TaskEnds, Progress!TaskGone, Progress!merge, Progress!ends
<1>2. Counted' /\ (ended' => ~merging')
  BY <1>1 DEF ProgressInv, Counted
<1>3. ASSUME Before' = Before PROVE Stream' = Stream
  BY <1>1, <1>3 DEF Stream
<1>4. CASE Progress!TaskReceives
  <2>1. /\ taskHas = Nothing /\ bridge # <<>> /\ task = "running"
        /\ taskHas' = Head(bridge) /\ bridge' = Tail(bridge) /\ UNCHANGED <<task, queue>>
    BY <1>4 DEF Progress!TaskReceives, Nothing, Progress!Nothing
  <2>2. /\ Head(bridge) \in Events /\ Tail(bridge) \in Seq(Events)
        /\ (p \o <<Head(bridge)>>) \o Tail(bridge) = p \o bridge
    <3>1. bridge \in Seq(Events) /\ bridge # <<>> /\ p \in Seq(Events)
      BY <1>1, <2>1 DEF ProgressInv, ProgressTypes
    <3> HIDE DEF p
    <3> QED BY <3>1, EventsMove
  <2>3. Before' = (p \o <<Head(bridge)>>) \o Tail(bridge)
    BY <1>1, <2>1, <2>2, HeldTypes DEF Before
  <2>4. Before = p \o bridge
    BY <1>1, <2>1, HeldTypes, ConcatEmptySeq DEF Before
  <2>5. ProgressTypes' /\ Leaving'
    BY <1>1, <2>1, <2>2 DEF ProgressInv, ProgressTypes, Leaving
  <2> QED BY <1>1, <1>2, <1>3, <2>2, <2>3, <2>4, <2>5 DEF ProgressInv
<1>5. CASE Progress!TaskSends
  <2>1. /\ taskHas # Nothing /\ task = "running" /\ caller # "gone"
        /\ taskHas' = Nothing /\ queue' = Append(queue, taskHas)
        /\ UNCHANGED <<task, bridge>>
    BY <1>5 DEF Progress!TaskSends, Nothing, Progress!Nothing
  <2>2. /\ taskHas \in Events /\ queue \in Seq(Events) /\ queue' \in Seq(Events)
        /\ got \in Seq(Events)
    BY <2>1 DEF ProgressInv, ProgressTypes
  <2>3. got \o queue' = Append(p, taskHas)
    BY <2>1, <2>2, EventsMove
  <2>4. Append(p, taskHas) = p \o <<taskHas>> /\ Append(p, taskHas) \in Seq(Events)
    BY <1>1, <2>2, AppendIsConcat
  <2>5. Held(taskHas) = <<taskHas>> /\ Held(taskHas') = <<>>
    BY <2>1, <2>2, HeldTypes
  <2>6. (got \o queue') \o Held(taskHas') = p \o Held(taskHas)
    BY <2>3, <2>4, <2>5, ConcatEmptySeq
  <2>7. Before' = ((got \o queue') \o Held(taskHas')) \o bridge
    BY <1>1, <2>1 DEF Before
  <2>8. Before' = Before
    BY <2>6, <2>7 DEF Before
  <2>9. ProgressTypes' /\ Leaving'
    BY <1>1, <2>1, <2>2 DEF ProgressInv, ProgressTypes, Leaving
  <2> QED BY <1>1, <1>2, <1>3, <2>8, <2>9 DEF ProgressInv
<1>6. CASE Progress!TaskEnds
  <2>1. /\ task = "running" /\ task' = "gone" /\ bridge' = <<>> /\ taskHas' = Nothing
        /\ UNCHANGED queue
        /\ caller = "gone" \/ (taskHas = Nothing /\ bridge = <<>> /\ thread = "gone")
    BY <1>6 DEF Progress!TaskEnds, Progress!TaskGone, Nothing, Progress!Nothing
  <2>2. caller # "gone" => Stream' = Stream
    BY <1>1, <2>1 DEF Stream, Before
  <2>3. ProgressTypes'
    BY <1>1, <2>1 DEF ProgressInv, ProgressTypes
  <2>4. Leaving'
    BY <1>1, <2>1 DEF ProgressInv, Leaving
  <2> QED BY <1>1, <1>2, <2>2, <2>3, <2>4 DEF ProgressInv
<1> QED BY <1>4, <1>5, <1>6 DEF Progress!Task

(* The caller, who sees the end of its channel or goes away. *)
LEMMA CallerKeeps ==
  ASSUME ProgressInv, Progress!Receive \/ Progress!GoAway
  PROVE  ProgressInv'
<1>1. UNCHANGED <<layer, working, merging, emitted, std, thread, threadHas, bridge, task, taskHas>>
  BY DEF Progress!Receive, Progress!GoAway, Progress!merge
<1>2. Counted'
  BY <1>1 DEF ProgressInv, Counted
<1>3. CASE Progress!Receive /\ queue # <<>>
  <2>1. /\ got' = Append(got, Head(queue)) /\ queue' = Tail(queue)
        /\ UNCHANGED <<caller, ended>> /\ ~ended
    BY <1>3 DEF Progress!Receive
  <2>2. /\ Head(queue) \in Events /\ Tail(queue) \in Seq(Events) /\ got' \in Seq(Events)
        /\ Append(got, Head(queue)) \o Tail(queue) = got \o queue
    <3>1. got \in Seq(Events) /\ queue \in Seq(Events) /\ queue # <<>>
      BY <1>3 DEF ProgressInv, ProgressTypes
    <3> QED BY <2>1, <3>1, EventsMove
  <2>3. Stream' = Stream
    BY <1>1, <2>1, <2>2 DEF Stream, Before
  <2>4. ProgressTypes' /\ Leaving' /\ (ended' => ~merging')
    BY <1>1, <2>1, <2>2 DEF ProgressInv, ProgressTypes, Leaving
  <2> QED BY <1>1, <1>2, <2>1, <2>3, <2>4 DEF ProgressInv
<1>4. CASE Progress!Receive /\ queue = <<>>
  <2>1. /\ caller = "reading" /\ task = "gone" /\ ended' = TRUE
        /\ UNCHANGED <<got, queue, caller>>
    BY <1>4 DEF Progress!Receive
  <2>2. ~merging
    BY <2>1 DEF ProgressInv, Leaving
  <2>3. Stream' = Stream
    BY <1>1, <2>1 DEF Stream, Before
  <2>4. ProgressTypes' /\ Leaving'
    BY <1>1, <1>4, <2>1 DEF ProgressInv, ProgressTypes, Leaving
  <2> QED BY <1>1, <1>2, <2>1, <2>2, <2>3, <2>4 DEF ProgressInv
<1>5. CASE Progress!GoAway
  <2>1. caller' = "gone" /\ queue' = <<>> /\ UNCHANGED <<got, ended>>
    BY <1>5 DEF Progress!GoAway
  <2>2. ProgressTypes' /\ Leaving' /\ (ended' => ~merging')
    BY <1>1, <2>1 DEF ProgressInv, ProgressTypes, Leaving
  <2> QED BY <1>2, <2>1, <2>2 DEF ProgressInv
<1> QED BY <1>3, <1>4, <1>5

LEMMA ProgressStep ==
  ASSUME ProgressInv, [Progress!Next]_progressVars
  PROVE  ProgressInv'
<1>1. CASE UNCHANGED progressVars
  <2>1. UNCHANGED <<layer, working, merging, std, thread, threadHas, bridge, task, taskHas,
                    queue, caller, ended, emitted, got>>
    BY <1>1 DEF progressVars
  <2>2. Stream' = Stream
    BY <2>1 DEF Stream, Before
  <2>3. ProgressTypes' /\ Counted' /\ Leaving' /\ (ended' => ~merging')
    BY <2>1 DEF ProgressInv, ProgressTypes, Counted, Leaving
  <2> QED BY <2>1, <2>2, <2>3 DEF ProgressInv
<1> QED BY <1>1, TellingKeeps, ThreadKeeps, TaskKeeps, CallerKeeps DEF Progress!Next

----------------------------------------------------------------------------
(* The composition. *)

LEMMA StepKeeps ==
  ASSUME PackerInv, ProgressInv, [NextAll]_allVars
  PROVE  /\ PackerInv' /\ ProgressInv'
         /\ [Resequencer!Next]_mergeVars
<1>1. [Next]_vars
  BY DEF NextAll, MergeAndTell, ProgressThread, ProgressTask, ProgressReader,
       ProgressReaderLeaves, Next, allVars
<1>2. [Progress!Next]_progressVars
  BY DEF NextAll, MergeAndTell, ProgressThread, ProgressTask, ProgressReader,
       ProgressReaderLeaves, Progress!Next, allVars
<1> QED BY <1>1, <1>2, PackerStep, ProgressStep

LEMMA Invariance == SpecAll => [](PackerInv /\ ProgressInv)
<1>1. InitAll => PackerInv /\ ProgressInv
  BY PackerInitially, ProgressInitially DEF InitAll
<1>2. PackerInv /\ ProgressInv /\ [NextAll]_allVars => (PackerInv /\ ProgressInv)'
  BY StepKeeps
<1> QED BY <1>1, <1>2, PTL DEF SpecAll

(* While the merge runs, every layer a caller was told is delivered is in  *)
(* one of the two channels or was received, however many callers deliver,  *)
(* and whatever the owner does with the packer.                            *)
THEOREM DeliveredIsKept == SpecAll => []NothingLost
<1>1. PackerInv => NothingLost
  BY DEF PackerInv
<1> QED BY <1>1, Invariance, PTL

(* For the merge thread, callers, owner and relay are together the other   *)
(* end of one channel: what is proved about the resequencing loop holds in *)
(* the packer.                                                             *)
LEMMA PackerIsChannel == SpecAll => Resequencer!Spec
<1>1. InitAll => Resequencer!Init
  BY DEF InitAll, Init
<1>2. PackerInv /\ ProgressInv /\ [NextAll]_allVars => [Resequencer!Next]_(Resequencer!vars)
  BY StepKeeps DEF mergeVars, Resequencer!vars, Resequencer!channel, Resequencer!cursor,
       Resequencer!history
<1> QED BY <1>1, <1>2, Invariance, PTL DEF SpecAll, Resequencer!Spec

----------------------------------------------------------------------------
(* What finish returns. *)

(* What the loop has counted, and what its verdict says of the calls: none *)
(* is under way or to come once the packer is released, and only then can  *)
(* the relay end while the merge runs, with nothing left in its channel.   *)
Calls == Indexes \cup {SourceError}
VerdictInv ==
  /\ calling \in [Callers -> Calls \cup {NoCall}] /\ Accepted \subseteq Calls
  /\ owner # "held" => \A c \in Callers : calling[c] = NoCall
  /\ closed => relay = "gone"
  /\ relay = "gone" => layers = <<>> /\ (owner # "held" \/ pc = "done")
  /\ owner = "returned" => pc = "done"
  /\ pc # "done" => delivered = ToSet(taken) /\ result = "none"
  /\ delivered \subseteq Indexes /\ received = Cardinality(delivered)
  /\ pc = "done" => result # "none"
  /\ result = "ok" => Indexes \subseteq Accepted
  /\ result = "LayerSource" => SourceError \in Accepted
  /\ result = "MissingLayers" => owner # "held" /\ ~(Indexes \subseteq Accepted)
  /\ result # "LayerIndexOutOfRange"

LEMMA VerdictInitially == Init => VerdictInv
<1>1. Cardinality({}) = 0
  BY FS_EmptySet
<1> QED BY <1>1 DEF Init, VerdictInv, Resequencer!Init, Accepted, ToSet

(* The finite sets of layers. *)
LEMMA LayersCount ==
  /\ IsFiniteSet(Indexes) /\ Cardinality(Indexes) = Total
  /\ \A S \in SUBSET Indexes : IsFiniteSet(S) /\ (Cardinality(S) = Total => S = Indexes)
<1>1. IsFiniteSet(Indexes) /\ Cardinality(Indexes) = Total
  BY FS_Interval DEF Indexes, Resequencer!Indexes
<1> QED BY <1>1, FS_Subset

(* A step that is none of the merge thread's. *)
LEMMA CallsKeepVerdict ==
  ASSUME PackerInv, VerdictInv, UNCHANGED <<pc, result, delivered, received, taken>>,
         calling' \in [Callers -> Calls \cup {NoCall}],
         Accepted' \subseteq Calls, Accepted \subseteq Accepted',
         owner # "held" => Accepted' = Accepted /\ owner' # "held",
         owner' # "held" => \A c \in Callers : calling'[c] = NoCall,
         closed' => relay' = "gone",
         relay' = "gone" => layers' = <<>> /\ (owner' # "held" \/ pc' = "done"),
         owner' = "returned" => pc' = "done"
  PROVE  VerdictInv'
<1>1. result = "MissingLayers" => ~(Indexes \subseteq Accepted') /\ owner' # "held"
  BY DEF VerdictInv
<1>2. Indexes' = Indexes /\ Calls' = Calls /\ SourceError' = SourceError /\ NoCall' = NoCall
  BY DEF Indexes, Resequencer!Indexes, Calls, SourceError, Resequencer!SourceError, NoCall
<1> QED BY <1>1, <1>2 DEF VerdictInv

LEMMA VerdictStep ==
  ASSUME PackerInv, VerdictInv, [Next]_vars
  PROVE  VerdictInv'
<1>1. ASSUME NEW c \in Callers, NEW item \in Items, Notify(c, item)
      PROVE  VerdictInv'
  <2>1. /\ item \in Calls /\ calling' = [calling EXCEPT ![c] = item] /\ owner = "held"
        /\ UNCHANGED <<mergeVars, owner, layers, relay, answers>>
    BY <1>1 DEF Notify, Call, Calls
  <2>2. calling' \in [Callers -> Calls \cup {NoCall}] /\ Accepted' = Accepted
    BY <2>1 DEF VerdictInv, Accepted
  <2> QED BY <2>1, <2>2, CallsKeepVerdict DEF VerdictInv, mergeVars
<1>2. ASSUME NEW c \in Callers, NEW item \in Items, RefuseIndex(c, item)
      PROVE  VerdictInv'
  <2>1. \A i : <<i, "ok">> \in answers' <=> <<i, "ok">> \in answers
    BY <1>2 DEF RefuseIndex
  <2>2. Accepted' = Accepted /\ UNCHANGED <<mergeVars, owner, layers, relay, calling>>
    BY <1>2, <2>1 DEF RefuseIndex, Accepted
  <2> QED BY <2>2, CallsKeepVerdict DEF VerdictInv, mergeVars
<1>3. ASSUME NEW c \in Callers, SendItem(c)
      PROVE  VerdictInv'
  <2>1. /\ calling[c] # NoCall /\ calling[c] \in Calls /\ owner = "held" /\ relay = "running"
        /\ UNCHANGED <<mergeVars, owner, relay>>
    BY <1>3 DEF SendItem, VerdictInv
  <2>2. \A i : <<i, "ok">> \in answers' <=> <<i, "ok">> \in answers \/ i = calling[c]
    BY <1>3 DEF SendItem, Answer
  <2>3. Accepted \subseteq Accepted' /\ Accepted' \subseteq Accepted \cup {calling[c]}
    BY <2>2 DEF Accepted
  <2>4. calling' \in [Callers -> Calls \cup {NoCall}]
    BY <1>3 DEF SendItem, Answer, VerdictInv
  <2> QED BY <2>1, <2>3, <2>4, CallsKeepVerdict DEF VerdictInv, mergeVars
<1>4. ASSUME NEW c \in Callers, SendStopped(c)
      PROVE  VerdictInv'
  <2>1. \A i : <<i, "ok">> \in answers' <=> <<i, "ok">> \in answers
    BY <1>4 DEF SendStopped, Answer
  <2>2. /\ calling[c] # NoCall /\ owner = "held" /\ Accepted' = Accepted
        /\ UNCHANGED <<mergeVars, owner, layers, relay>>
    BY <1>4, <2>1 DEF SendStopped, VerdictInv, Accepted
  <2>3. calling' \in [Callers -> Calls \cup {NoCall}]
    BY <1>4 DEF SendStopped, Answer, VerdictInv
  <2> QED BY <2>2, <2>3, CallsKeepVerdict DEF VerdictInv, mergeVars
<1>5. ASSUME Finish \/ Drop \/ FinishReturns
      PROVE  VerdictInv'
  <2>1. /\ UNCHANGED <<mergeVars, layers, relay, calling, answers>> /\ Accepted' = Accepted
        /\ owner' # "held" /\ (owner' = "returned" => pc = "done")
        /\ \A c \in Callers : calling[c] = NoCall
    BY <1>5 DEF Finish, Drop, Release, FinishReturns, callerVars, VerdictInv, Accepted
  <2> QED BY <2>1, CallsKeepVerdict DEF VerdictInv, mergeVars
<1>6. ASSUME Relay
      PROVE  VerdictInv'
  <2>1. /\ UNCHANGED <<pc, result, delivered, received, taken, owner, calling, answers>>
        /\ Accepted' = Accepted
    BY <1>6 DEF Relay, RelayItem, RelayBreaks, RelayEnds, RelayGone, Resequencer!Send,
         Resequencer!Close, Resequencer!cursor, Resequencer!history, callerVars, Accepted
  <2>2. CASE RelayItem
    <3>1. UNCHANGED <<closed, relay>> /\ relay = "running"
      BY <2>2 DEF RelayItem, Resequencer!Send
    <3> QED BY <2>1, <3>1, CallsKeepVerdict DEF VerdictInv
  <2>3. CASE RelayBreaks \/ RelayEnds
    <3>1. relay' = "gone" /\ layers' = <<>> /\ (owner # "held" \/ pc = "done")
      BY <2>3 DEF RelayBreaks, RelayEnds, RelayGone
    <3> QED BY <2>1, <3>1, CallsKeepVerdict DEF VerdictInv
  <2> QED BY <1>6, <2>2, <2>3 DEF Relay
<1>7. ASSUME MergeThread
      PROVE  VerdictInv'
  <2>0. /\ Resequencer!Merge /\ UNCHANGED <<owner, layers, relay, calling, answers, closed>>
        /\ Accepted' = Accepted
    BY <1>7 DEF MergeThread, callerVars, Accepted, Resequencer!Merge, Resequencer!Accept,
         Resequencer!Reject, Resequencer!RunDry, Resequencer!OpenFails, Resequencer!StartLayer,
         Resequencer!FinishLayer, Resequencer!LayerFails, Resequencer!Wait, Resequencer!Finish,
         Resequencer!Take, Resequencer!channel
  <2>1. /\ pc # "done" /\ result = "none" /\ delivered = ToSet(taken)
        /\ Accepted = ToSet(layers) \cup ToSet(inbox) \cup ToSet(taken)
        /\ inbox \in Seq(Items) /\ taken \in Seq(Items)
    BY <2>0, MergeTakes DEF PackerInv, NothingLost, VerdictInv
  <2>2. ASSUME UNCHANGED <<delivered, received, taken>>,
               pc' # "done" => result' = "none",
               pc' = "done" => result' # "none",
               result' = "ok" => received = Total,
               result' # "LayerSource", result' # "LayerIndexOutOfRange",
               result' = "MissingLayers" => inbox = <<>> /\ closed /\ received < Total
        PROVE  VerdictInv'
    <3>1. result' = "ok" => Indexes \subseteq Accepted
      BY <2>1, <2>2, LayersCount DEF VerdictInv
    <3>2. result' = "MissingLayers" => owner # "held" /\ ~(Indexes \subseteq Accepted)
      <4> SUFFICES ASSUME result' = "MissingLayers"
                   PROVE  owner # "held" /\ ~(Indexes \subseteq Accepted)
        OBVIOUS
      <4>1. owner # "held" /\ layers = <<>>
        BY <2>1, <2>2 DEF VerdictInv
      <4>2. Accepted = delivered
        BY <2>1, <2>2, <4>1 DEF ToSet
      <4>3. delivered # Indexes /\ delivered \subseteq Indexes
        BY <2>2, LayersCount DEF VerdictInv
      <4> QED BY <4>1, <4>2, <4>3
    <3> QED BY <2>0, <2>1, <2>2, <3>1, <3>2
            DEF VerdictInv, Indexes, Resequencer!Indexes, Calls, SourceError,
                Resequencer!SourceError, NoCall
  <2>3. CASE Resequencer!Accept
    <3> DEFINE x == Head(inbox)
    <3>1. /\ inbox # <<>> /\ x \in Indexes \ delivered /\ delivered' = delivered \cup {x}
          /\ received' = received + 1 /\ taken' = Append(taken, x)
          /\ pc' # "done" /\ result' = result
      BY <2>3 DEF Resequencer!Accept, Resequencer!Take, Indexes
    <3>2. x \in Items
      BY <2>1, <3>1, Members
    <3> HIDE DEF x
    <3>3. ToSet(taken') = ToSet(taken) \cup {x}
      BY <2>1, <3>1, <3>2, Members
    <3>4. received' = Cardinality(delivered')
      BY <3>1, LayersCount, FS_AddElement DEF VerdictInv
    <3> QED BY <2>0, <2>1, <3>1, <3>3, <3>4
            DEF VerdictInv, Indexes, Resequencer!Indexes, Calls, SourceError,
                Resequencer!SourceError, NoCall
  <2>4. CASE Resequencer!Reject
    <3> DEFINE x == Head(inbox)
    <3>1. /\ inbox # <<>> /\ pc' = "done" /\ result' = Resequencer!Rejection(x)
          /\ UNCHANGED <<delivered, received>>
      BY <2>4 DEF Resequencer!Reject, Resequencer!Take, Resequencer!Stop, Resequencer!cursor
    <3>2. x \in Accepted
      BY <2>1, <3>1, Members
    <3>3. x \in Calls
      BY <3>2 DEF VerdictInv
    <3>4. result' \in {"LayerSource", "DuplicateLayer"} /\ (result' = "LayerSource" => x = SourceError)
      BY <3>1, <3>3 DEF Resequencer!Rejection, Calls, Indexes, SourceError
    <3> QED BY <2>0, <2>1, <3>1, <3>2, <3>4
            DEF VerdictInv, Indexes, Resequencer!Indexes, Calls, SourceError,
                Resequencer!SourceError, NoCall
  <2>5. CASE Resequencer!RunDry
    BY <2>2, <2>5 DEF Resequencer!RunDry, Resequencer!Receiving, Resequencer!Stop,
         Resequencer!cursor, Resequencer!history
  <2>6. CASE Resequencer!StartLayer \/ Resequencer!FinishLayer \/ Resequencer!Wait
    BY <2>1, <2>2, <2>6 DEF Resequencer!StartLayer, Resequencer!FinishLayer, Resequencer!Wait,
         Resequencer!cursor, Resequencer!history
  <2>7. CASE Resequencer!OpenFails \/ Resequencer!LayerFails
    <3>1. result' \in LayerErrors /\ pc' = "done" /\ UNCHANGED <<delivered, received, taken>>
      BY <2>7 DEF Resequencer!OpenFails, Resequencer!LayerFails, Resequencer!Stop,
           Resequencer!cursor, Resequencer!history
    <3> QED BY <2>2, <3>1
  <2>8. CASE Resequencer!Finish
    BY <2>2, <2>8 DEF Resequencer!Finish, Resequencer!Stop, Resequencer!cursor,
         Resequencer!history
  <2> QED BY <2>0, <2>3, <2>4, <2>5, <2>6, <2>7, <2>8 DEF Resequencer!Merge
<1>8. CASE UNCHANGED vars
  <2>1. Accepted' = Accepted
    BY <1>8 DEF vars, Accepted
  <2> QED BY <1>8, <2>1, CallsKeepVerdict DEF VerdictInv, vars, mergeVars
<1> QED BY <1>1, <1>2, <1>3, <1>4, <1>5, <1>6, <1>7, <1>8 DEF Next

(* For any number of layers, callers and calls: finish returns Ok only if  *)
(* every layer was taken from a caller, MissingLayers only if one was not, *)
(* LayerSource only if a caller reported an error, and never an index that *)
(* the image does not have.                                                *)
THEOREM VerdictsFitCalls == SpecAll => []VerdictFitsCalls
<1>1. InitAll => VerdictInv
  BY VerdictInitially DEF InitAll
<1>2. PackerInv /\ VerdictInv /\ [NextAll]_allVars => VerdictInv'
  <2> SUFFICES ASSUME PackerInv, VerdictInv, [NextAll]_allVars PROVE VerdictInv'
    OBVIOUS
  <2>1. [Next]_vars
    BY DEF NextAll, MergeAndTell, ProgressThread, ProgressTask, ProgressReader,
         ProgressReaderLeaves, Next, allVars
  <2> QED BY <2>1, VerdictStep
<1>3. VerdictInv => VerdictFitsCalls
  BY DEF VerdictInv, VerdictFitsCalls
<1> QED BY <1>1, <1>2, <1>3, Invariance, PTL DEF SpecAll

(* A caller that has read to the end has every event. *)
LEMMA ReaderHasAll ==
  ASSUME ProgressInv, ended, caller = "reading"
  PROVE  got = emitted
<1>1. /\ queue = <<>> /\ taskHas = Nothing /\ bridge = <<>> /\ threadHas = Nothing
      /\ std = <<>> /\ got \in Seq(Events)
  BY DEF ProgressInv, Leaving, ProgressTypes
<1>2. Held(taskHas) = <<>> /\ Held(threadHas) = <<>>
  BY <1>1, HeldTypes
<1>3. got \o <<>> = got
  BY <1>1, ConcatEmptySeq
<1> QED BY <1>1, <1>2, <1>3 DEF ProgressInv, Stream, Before

(* A caller that keeps its end misses no event, for any number of layers   *)
(* and any capacity of its channel, although the merge thread never waits: *)
(* the std channel has room for all events.                                *)
THEOREM EventsArrive == SpecAll => []NothingDropped
<1>1. ProgressInv => NothingDropped
  <2> SUFFICES ASSUME ProgressInv PROVE NothingDropped
    OBVIOUS
  <2>1. /\ Progress!Held(taskHas) = Held(taskHas)
        /\ Progress!Held(threadHas) = Held(threadHas)
    BY DEF Progress!Held, Progress!Nothing, Held, Nothing
  <2>2. caller # "gone" =>
          emitted = got \o queue \o Held(taskHas) \o bridge \o Held(threadHas) \o std
    BY DEF ProgressInv, Stream, Before
  <2>3. ended /\ caller = "reading" => got = emitted
    BY ReaderHasAll
  <2>4. ended => ~merging
    BY DEF ProgressInv
  <2> QED BY <2>1, <2>2, <2>3, <2>4 DEF NothingDropped, Progress!NothingDropped
<1> QED BY <1>1, Invariance, PTL

----------------------------------------------------------------------------
(* What the events say. *)

(* The cursor of the merge and the events it has sent.                     *)
Told ==
  /\ processed \in Seq(Int)
  /\ next_index = IF layer >= 0 THEN layer ELSE 0
  /\ pc \in {"recv", "drain"} => active = Resequencer!Idle
  /\ working <=> active # Resequencer!Idle
  /\ working => active = layer
  /\ merging \/ pc = "done"
  /\ working /\ pc = "done" => result \in LayerErrors
  /\ Len(emitted) = 2 * Len(processed) + IF working THEN 1 ELSE 0
  /\ \A i \in 1..Len(processed) :
       /\ emitted[2 * i - 1] = <<"started", processed[i]>>
       /\ emitted[2 * i] = <<"finished", processed[i]>>
  /\ working => emitted[Len(emitted)] = <<"started", active>>

LEMMA ToldInitially == InitAll => Told
  BY DEF InitAll, Init, Resequencer!Init, Progress!Init, Told, Resequencer!Idle

(* An event of the merge thread comes behind those it has sent.            *)
LEMMA Emitted ==
  ASSUME ProgressInv, NEW e, Progress!Emit(e)
  PROVE  /\ Len(emitted') = Len(emitted) + 1 /\ emitted'[Len(emitted) + 1] = e
         /\ \A k \in 1..Len(emitted) : emitted'[k] = emitted[k]
<1>1. emitted \in Seq(Events \cup {e})
  BY DEF ProgressInv, ProgressTypes
<1>2. emitted' = Append(emitted, e)
  BY DEF Progress!Emit
<1> QED BY <1>1, <1>2

LEMMA ToldStep ==
  ASSUME ProgressInv, Told, [NextAll]_allVars
  PROVE  Told'
<1>1. ASSUME UNCHANGED <<next_index, layer, active, working, processed, emitted>>,
             merging' = merging \/ pc' = "done", pc = "done" => pc' = "done",
             \/ UNCHANGED <<pc, result>>
             \/ active = Resequencer!Idle /\ (pc' \in {"recv", "drain"} \/ pc' = "done")
             \/ pc' = "done" /\ result' \in LayerErrors
      PROVE  Told'
  <2>1. merging' \/ pc' = "done"
    <3>1. CASE merging' = merging
      BY <3>1, <1>1 DEF Told
    <3>2. CASE pc' = "done"
      BY <3>2
    <3> QED BY <1>1, <3>1, <3>2
  <2>2. pc' \in {"recv", "drain"} => active' = Resequencer!Idle
    BY <1>1 DEF Told
  <2>3. working /\ pc' = "done" => result' \in LayerErrors
    <3> SUFFICES ASSUME working, pc' = "done" PROVE result' \in LayerErrors
      OBVIOUS
    <3>1. active # Resequencer!Idle
      BY DEF Told
    <3> QED BY <1>1, <3>1 DEF Told
  <2> QED BY <1>1, <2>1, <2>2, <2>3 DEF Told
<1>2. CASE MergeAndTell
  <2>1. Resequencer!Merge
    BY <1>2 DEF MergeAndTell, MergeThread
  <2>2. CASE Resequencer!Accept \/ Resequencer!Wait
    <3>1. /\ pc \in {"recv", "drain"} /\ pc' \in {"recv", "drain"}
          /\ UNCHANGED <<next_index, active, processed>>
      BY <2>2 DEF Resequencer!Accept, Resequencer!Wait, Resequencer!Receiving, Resequencer!Take,
           Resequencer!cursor, Resequencer!history
    <3>2. UNCHANGED progressVars
      BY <1>2, <3>1 DEF MergeAndTell
    <3> QED BY <1>1, <3>1, <3>2 DEF progressVars, Told
  <2>3. CASE Resequencer!OpenFails \/ Resequencer!Reject \/ Resequencer!RunDry \/ Resequencer!Finish \/ Resequencer!LayerFails
    <3>1. /\ pc' = "done" /\ UNCHANGED <<next_index, active, processed>>
          /\ pc = "recv" \/ result' \in LayerErrors
      BY <2>3 DEF Resequencer!OpenFails, Resequencer!Reject, Resequencer!RunDry, Resequencer!Finish,
           Resequencer!LayerFails, Resequencer!Stop, Resequencer!Receiving, Resequencer!Take,
           Resequencer!cursor, Resequencer!history
    <3>2. Progress!EndMerge
      BY <1>2, <3>1 DEF MergeAndTell
    <3>3. UNCHANGED <<layer, working, emitted>> /\ (pc = "done" => pc' = "done")
      BY <3>1, <3>2 DEF Progress!EndMerge
    <3> QED BY <1>1, <3>1, <3>3 DEF Told
  <2>4. CASE Resequencer!StartLayer
    <3>1. /\ pc = "drain" /\ pc' = "process" /\ pc' # "done"
          /\ active' = next_index /\ UNCHANGED <<next_index, processed>>
      BY <2>4 DEF Resequencer!StartLayer, Resequencer!channel, Resequencer!history
    <3>2. Progress!StartLayer
      BY <1>2, <3>1 DEF MergeAndTell
    <3>3. /\ ~working /\ layer >= 0 /\ working' = TRUE /\ layer' = layer
          /\ merging /\ merging' = merging
          /\ Progress!Emit(<<"started", layer>>)
      BY <3>2 DEF Progress!StartLayer
    <3>4. /\ Len(emitted') = Len(emitted) + 1
          /\ emitted'[Len(emitted) + 1] = <<"started", layer>>
          /\ \A k \in 1..Len(emitted) : emitted'[k] = emitted[k]
      BY <3>3, Emitted
    <3>5. /\ processed \in Seq(Int) /\ Len(processed) \in Nat
          /\ Len(emitted) = 2 * Len(processed) /\ next_index = layer /\ layer \in Nat
      BY <3>3 DEF Told, ProgressInv, ProgressTypes
    <3>6. \A i \in 1..Len(processed) :
             /\ 2 * i - 1 \in 1..Len(emitted) /\ 2 * i \in 1..Len(emitted)
      BY <3>5
    <3>7. \A i \in 1..Len(processed) :
             /\ emitted'[2 * i - 1] = <<"started", processed[i]>>
             /\ emitted'[2 * i] = <<"finished", processed[i]>>
      BY <3>4, <3>6 DEF Told
    <3>8. active' = layer /\ active' # Resequencer!Idle
      BY <3>1, <3>5 DEF Resequencer!Idle
    <3> QED BY <3>1, <3>3, <3>4, <3>5, <3>7, <3>8 DEF Told
  <2>5. CASE Resequencer!FinishLayer
    <3>1. /\ pc = "process" /\ pc' \in {"recv", "drain"} /\ pc' # "done" /\ pc' # "process"
          /\ active' = Resequencer!Idle
          /\ processed' = Append(processed, active)
          /\ next_index' = IF next_index = 0 THEN 0 ELSE next_index - 1
      BY <2>5 DEF Resequencer!FinishLayer
    <3>2. Progress!FinishLayer
      BY <1>2, <3>1 DEF MergeAndTell
    <3>3. /\ working /\ working' = FALSE /\ layer' = layer - 1
          /\ merging /\ merging' = merging
          /\ Progress!Emit(<<"finished", layer>>)
      BY <3>2 DEF Progress!FinishLayer
    <3>4. /\ Len(emitted') = Len(emitted) + 1
          /\ emitted'[Len(emitted) + 1] = <<"finished", layer>>
          /\ \A k \in 1..Len(emitted) : emitted'[k] = emitted[k]
      BY <3>3, Emitted
    <3>5. /\ processed \in Seq(Int) /\ Len(processed) \in Nat
          /\ Len(emitted) = 2 * Len(processed) + 1
          /\ active = layer /\ layer \in Nat /\ next_index = layer
          /\ emitted[Len(emitted)] = <<"started", layer>>
      <4>1. layer \in Nat
        BY <3>3 DEF ProgressInv, ProgressTypes, Counted
      <4>2. processed \in Seq(Int) /\ Len(processed) \in Nat
        BY DEF Told
      <4>3. /\ Len(emitted) = 2 * Len(processed) + 1 /\ active = layer
            /\ emitted[Len(emitted)] = <<"started", active>>
        BY <3>3 DEF Told
      <4>4. next_index = layer
        BY <4>1 DEF Told
      <4> QED BY <4>1, <4>2, <4>3, <4>4
    <3>6. /\ processed' \in Seq(Int) /\ Len(processed') = Len(processed) + 1
          /\ processed'[Len(processed) + 1] = layer
          /\ \A i \in 1..Len(processed) : processed'[i] = processed[i]
      BY <3>1, <3>5
    <3>7. ASSUME NEW i \in 1..Len(processed')
          PROVE  /\ emitted'[2 * i - 1] = <<"started", processed'[i]>>
                 /\ emitted'[2 * i] = <<"finished", processed'[i]>>
      <4>1. CASE i \in 1..Len(processed)
        <5>1. 2 * i - 1 \in 1..Len(emitted) /\ 2 * i \in 1..Len(emitted)
          BY <3>5, <4>1
        <5> QED BY <3>4, <3>6, <4>1, <5>1 DEF Told
      <4>2. CASE i = Len(processed) + 1
        <5>1. 2 * i - 1 = Len(emitted) /\ 2 * i = Len(emitted) + 1
          BY <3>5, <4>2
        <5>2. Len(emitted) \in 1..Len(emitted)
          BY <3>5
        <5>3. emitted'[Len(emitted)] = <<"started", layer>>
          BY <3>4, <3>5, <5>2
        <5>4. processed'[i] = layer
          BY <3>6, <4>2
        <5>5. emitted'[2 * i - 1] = <<"started", layer>>
          BY <5>1, <5>3
        <5>6. emitted'[2 * i] = <<"finished", layer>>
          BY <3>4, <5>1
        <5> QED BY <5>4, <5>5, <5>6
      <4>3. i \in 1..Len(processed) \/ i = Len(processed) + 1
        <5>1. Len(processed') = Len(processed) + 1 /\ Len(processed) \in Nat
          BY <3>5, <3>6
        <5> QED BY <5>1
      <4> QED BY <4>1, <4>2, <4>3
    <3>8. next_index' = IF layer' >= 0 THEN layer' ELSE 0
      BY <3>1, <3>3, <3>5
    <3>9. Len(emitted') = 2 * Len(processed')
      BY <3>4, <3>5, <3>6
    <3>10. \A i \in 1..Len(processed') :
              /\ emitted'[2 * i - 1] = <<"started", processed'[i]>>
              /\ emitted'[2 * i] = <<"finished", processed'[i]>>
      BY <3>7
    <3>11. /\ processed' \in Seq(Int) /\ active' = Resequencer!Idle /\ ~working'
           /\ merging' \/ pc' = "done"
      BY <3>1, <3>3, <3>6
    <3>12. Len(emitted') = 2 * Len(processed') + IF working' THEN 1 ELSE 0
      BY <3>6, <3>9, <3>11
    <3> QED BY <3>8, <3>10, <3>11, <3>12 DEF Told
  <2> QED BY <2>1, <2>2, <2>3, <2>4, <2>5 DEF Resequencer!Merge
<1>3. CASE ProgressThread \/ ProgressTask \/ ProgressReader \/ ProgressReaderLeaves
  <2>1. UNCHANGED <<layer, working, emitted, merging>>
    BY <1>3 DEF ProgressThread, ProgressTask, ProgressReader, ProgressReaderLeaves,
         Progress!Thread, Progress!ThreadReceives, Progress!ThreadSends, Progress!ThreadEnds,
         Progress!ThreadGone, Progress!Task, Progress!TaskReceives, Progress!TaskSends,
         Progress!TaskEnds, Progress!TaskGone, Progress!Receive, Progress!GoAway, Progress!merge
  <2>2. UNCHANGED <<pc, result, next_index, active, processed>>
    BY <1>3 DEF ProgressThread, ProgressTask, ProgressReader, ProgressReaderLeaves, vars, mergeVars
  <2> QED BY <1>1, <2>1, <2>2
<1>4. ASSUME UNCHANGED progressVars,
             \/ \E c \in Callers :
                  \/ \E item \in Items : Notify(c, item) \/ RefuseIndex(c, item)
                  \/ SendItem(c) \/ SendStopped(c)
             \/ Finish \/ Drop \/ FinishReturns
             \/ Relay
      PROVE  Told'
  <2>1. UNCHANGED <<pc, result, next_index, active, processed>>
    BY <1>4 DEF Notify, RefuseIndex, SendItem, SendStopped, Finish, Drop, Release, FinishReturns,
         Relay, RelayItem, RelayBreaks, RelayEnds, RelayGone, mergeVars, callerVars,
         Resequencer!Send, Resequencer!Close, Resequencer!cursor, Resequencer!history
  <2> QED BY <1>1, <1>4, <2>1 DEF progressVars
<1>5. CASE UNCHANGED allVars
  BY <1>1, <1>5 DEF allVars, vars, mergeVars, progressVars
<1> QED BY <1>2, <1>3, <1>4, <1>5 DEF NextAll

(* The events a caller reads tell what became of the merge, for any number *)
(* of layers: each layer that was merged, in order, as started and then    *)
(* finished, and the one the merge failed in as started.                   *)
THEOREM EventsAreTrue == SpecAll => []ProgressIsTrue
<1>1. PackerInv /\ ProgressInv /\ Told /\ [NextAll]_allVars => Told'
  BY ToldStep
<1>2. ProgressInv /\ Told => ProgressIsTrue
  <2> SUFFICES ASSUME ProgressInv, Told, ended, caller = "reading" PROVE ProgressIsTrue
    BY DEF ProgressIsTrue
  <2>1. got = emitted
    BY ReaderHasAll
  <2>2. ~merging /\ pc = "done"
    BY DEF ProgressInv, Told
  <2>3. /\ working <=> active # Resequencer!Idle
        /\ Len(emitted) = 2 * Len(processed) + IF working THEN 1 ELSE 0
        /\ working => emitted[Len(emitted)] = <<"started", active>> /\ result \in LayerErrors
    BY <2>2 DEF Told
  <2>4. Len(emitted) = 2 * Len(processed) + IF active = Resequencer!Idle THEN 0 ELSE 1
    BY <2>3
  <2>5. \A i \in DOMAIN processed :
          /\ emitted[2 * i - 1] = <<"started", processed[i]>>
          /\ emitted[2 * i] = <<"finished", processed[i]>>
    <3>1. DOMAIN processed = 1..Len(processed)
      BY DEF Told
    <3> QED BY <3>1 DEF Told
  <2> QED BY <2>1, <2>3, <2>4, <2>5 DEF ProgressIsTrue
<1> QED BY <1>1, <1>2, ToldInitially, Invariance, PTL DEF SpecAll
=============================================================================
