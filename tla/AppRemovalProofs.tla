--------------------------- MODULE AppRemovalProofs ---------------------------
(***************************************************************************)
(* Proofs about AppRemoval, for any applications, calls and resources.     *)
(***************************************************************************)
EXTENDS AppRemoval, FiniteSetTheorems, TLAPS

USE RemovalAssumption

Handlers == [call : Calls, what : {"request", "rejected", "event", "closing"}]

\* Where a call is while one of its handlers is on the strand.
Awaits(what) ==
    CASE what = "request" -> {"called"}
      [] what = "rejected" -> {"rejected"}
      [] what = "event" -> {"transacting", "closing"}
      [] what = "closing" -> {"closing"}

\* A queue q fits the places p of the calls, and only events of a call can
\* have another handler of it behind them.
WellQueued(q, p) ==
    /\ \A i \in 1..Len(q) : p[q[i].call] \in Awaits(q[i].what)
    /\ \A i, j \in 1..Len(q) :
          i < j /\ q[i].call = q[j].call => q[i].what = "event"

Queued == WellQueued(strandq, pc)

\* A call waits for replies exactly while it cleans up, and the counter lacks
\* as many as there are.
Counted ==
    \A c \in Calls :
        /\ pc[c] # "cleaning" => deleting[c] = {}
        /\ pc[c] \notin {"cleaning", "ended"} => counter[c] = 0
        /\ pc[c] = "cleaning" =>
              /\ deleting[c] # {}
              /\ counter[c] + Cardinality(deleting[c]) = total[c]

\* Until it ends, a call has no answer.
Answered ==
    \A c \in Calls :
        /\ Len(answer[c]) <= 1
        /\ Running /\ pc[c] # "ended" => answer[c] = <<>>

\* A witness of an operation in progress is still connected, and the last event
\* of an operation is sent as it ends.
Witnessed ==
    \A c \in Calls :
        /\ pc[c] \in {"idle", "called", "rejected"} => witness[c] = "none"
        /\ witness[c] = "listening" /\ InProgress(c) => AppOf[c] \in sinks
        /\ witness[c] = "listening" /\ pc[c] = "ended" =>
              heard[c] # <<>> /\ heard[c][Len(heard[c])] = "final"
        /\ \A i \in 1..Len(heard[c]) :
              heard[c][i] = "final" => i = Len(heard[c]) /\ pc[c] = "ended"

\* What an uninstall has found and is still there is still to be deleted.
Remaining ==
    \A c \in Calls :
        /\ c \in listed => pc[c] \in {"cleaning", "ended"}
        /\ c \notin ByRef /\ c \in listed /\ c \notin any_error =>
              \A r \in owed[c] : <<AppOf[c], r>> \in entries => r \in deleting[c]

-----------------------------------------------------------------------------
(* The queue of the strand. *)

LEMMA QueuedTail ==
    ASSUME NEW q \in Seq(Handlers), q # <<>>, NEW p, NEW p2, WellQueued(q, p),
           Head(q).what = "event" => p2 = p,
           \A d \in Calls : d # Head(q).call => p2[d] = p[d]
    PROVE  WellQueued(Tail(q), p2)
<1> DEFINE t == Tail(q)
<1>1. Len(t) = Len(q) - 1 /\ \A i \in 1..Len(t) : t[i] = q[i + 1] /\ i + 1 \in 1..Len(q)
  OBVIOUS
<1>2. Head(q) = q[1] /\ 1 \in 1..Len(q)
  OBVIOUS
<1>3. ASSUME NEW i \in 1..Len(t) PROVE p2[t[i].call] \in Awaits(t[i].what)
  <2>1. p[t[i].call] \in Awaits(t[i].what) /\ t[i] \in Handlers
    BY <1>1 DEF WellQueued
  <2>2. t[i].call = Head(q).call => Head(q).what = "event"
    BY <1>1, <1>2 DEF WellQueued
  <2> QED BY <2>1, <2>2 DEF Handlers
<1>4. ASSUME NEW i \in 1..Len(t), NEW j \in 1..Len(t), i < j, t[i].call = t[j].call
      PROVE  t[i].what = "event"
  BY <1>1, <1>4 DEF WellQueued
<1> QED BY <1>3, <1>4 DEF WellQueued

LEMMA QueuedAppend ==
    ASSUME NEW q \in Seq(Handlers), NEW c \in Calls,
           NEW w \in {"request", "rejected", "event", "closing"}, NEW p, NEW p2,
           WellQueued(q, p),
           p2[c] \in Awaits(w),
           \A d \in Calls : d # c => p2[d] = p[d],
           \A i \in 1..Len(q) : q[i].call = c =>
               q[i].what = "event" /\ p2[c] \in {"transacting", "closing"}
    PROVE  WellQueued(Append(q, Handler(c, w)), p2)
<1> DEFINE h == Handler(c, w)
<1>0. h \in Handlers /\ h.call = c /\ h.what = w
  BY DEF Handler, Handlers
<1> HIDE DEF h
<1> DEFINE a == Append(q, h)
<1>1. Len(a) = Len(q) + 1 /\ a[Len(a)] = h /\ \A i \in 1..Len(q) : a[i] = q[i] /\ q[i] \in Handlers
  OBVIOUS
<1>2. ASSUME NEW i \in 1..Len(a) PROVE p2[a[i].call] \in Awaits(a[i].what)
  <2>1. CASE i = Len(a)
    BY <1>0, <1>1, <2>1
  <2>2. CASE i \in 1..Len(q)
    <3>1. CASE q[i].call = c
      BY <1>0, <1>1, <2>2, <3>1 DEF Awaits
    <3>2. CASE q[i].call # c
      BY <1>1, <2>2, <3>2 DEF WellQueued, Handlers
    <3> QED BY <3>1, <3>2
  <2> QED BY <1>1, <2>1, <2>2
<1>3. ASSUME NEW i \in 1..Len(a), NEW j \in 1..Len(a), i < j, a[i].call = a[j].call
      PROVE  a[i].what = "event"
  <2>1. i \in 1..Len(q)
    BY <1>1, <1>3
  <2>2. CASE j = Len(a)
    BY <1>0, <1>1, <1>3, <2>1, <2>2
  <2>3. CASE j \in 1..Len(q)
    BY <1>1, <1>3, <2>1, <2>3 DEF WellQueued
  <2> QED BY <1>1, <2>2, <2>3
<1> QED BY <1>2, <1>3 DEF WellQueued, h

\* Calls without a handler move freely.
LEMMA QueuedMove ==
    ASSUME NEW q \in Seq(Handlers), NEW p, NEW p2, NEW c \in Calls, WellQueued(q, p),
           p[c] \notin {"called", "rejected", "transacting", "closing"},
           \A d \in Calls : d # c => p2[d] = p[d]
    PROVE  WellQueued(q, p2)
<1>1. \A i \in 1..Len(q) : q[i] \in Handlers
  OBVIOUS
<1>2. \A i \in 1..Len(q) : q[i].call # c
  BY <1>1 DEF WellQueued, Awaits, Handlers
<1> QED BY <1>1, <1>2 DEF WellQueued, Handlers

\* What the head of the queue says of its call.
LEMMA HeadOfQueue ==
    ASSUME TypeOK, Queued, NEW c \in Calls, NEW what, Runs(c, what)
    PROVE  /\ Head(strandq).call = c /\ Head(strandq).what = what
           /\ pc[c] \in Awaits(what)
           /\ what \in {"request", "rejected", "event", "closing"}
<1>1. strandq \in Seq(Handlers)
  BY DEF TypeOK, Handlers
<1>2. Head(strandq) = strandq[1] /\ 1 \in 1..Len(strandq) /\ strandq[1] \in Handlers
  BY <1>1 DEF Runs
<1> QED BY <1>2 DEF Queued, WellQueued, Runs, Handler, Handlers

-----------------------------------------------------------------------------
(* Type correctness. *)

LEMMA SendType ==
    ASSUME TypeOK, NEW c \in Calls, NEW e \in {"started", "event", "final"},
           SendTransactionEvent(c, e)
    PROVE  heard' \in [Calls -> Seq({"started", "event", "final"})]
BY DEF SendTransactionEvent, TypeOK

LEMMA CallType ==
    ASSUME TypeOK, NEW c \in Calls, NEW result \in BOOLEAN, Call(c, result)
    PROVE  answer' \in [Calls -> Seq(BOOLEAN)]
BY DEF Call, TypeOK

LEMMA CloseType ==
    ASSUME TypeOK, NEW c \in Calls, NEW result \in BOOLEAN, Close(c, result)
    PROVE  /\ pc' \in [Calls -> Locations]
           /\ answer' \in [Calls -> Seq(BOOLEAN)]
           /\ heard' \in [Calls -> Seq({"started", "event", "final"})]
           /\ sinks' \subseteq setup
           /\ witness' \in [Calls -> {"none", "listening", "disturbed"}]
<1>1. heard' \in [Calls -> Seq({"started", "event", "final"})]
  BY SendType DEF Close
<1>2. answer' \in [Calls -> Seq(BOOLEAN)]
  BY CallType DEF Close
<1> QED BY <1>1, <1>2 DEF Close, TypeOK, Locations

LEMMA ResourcesFinite == IsFiniteSet(Resources)
BY FS_Union DEF Resources

LEMMA TypeInit == Init => TypeOK
BY DEF Init, TypeOK, Locations

LEMMA TypeStep == TypeOK /\ [Next]_vars => TypeOK'
<1> SUFFICES ASSUME TypeOK, [Next]_vars PROVE TypeOK'
  OBVIOUS
<1> USE DEF callVars, eventVars, cleanupVars, storeVars
<1>0. \A c \in Calls : \A w \in {"request", "rejected", "event", "closing"} :
          Append(strandq, Handler(c, w)) \in Seq(Handlers)
  BY DEF TypeOK, Handlers, Handler
<1>a. strandq # <<>> => Tail(strandq) \in Seq(Handlers)
  BY DEF TypeOK, Handlers
<1>1. ASSUME NEW c \in Calls, Request(c) PROVE TypeOK'
  BY <1>0, <1>1 DEF Request, Move, TypeOK, Locations, Handlers
<1>2. ASSUME NEW c \in Calls, OnStrand(c) PROVE TypeOK'
  <2>1. CASE NotFound(c)
    <3>1. answer' \in [Calls -> Seq(BOOLEAN)]
      BY <2>1, CallType DEF NotFound
    <3> QED BY <2>1, <3>1, <1>a DEF NotFound, Runs, Move, TypeOK, Locations, Handlers
  <2>2. CASE UpdateWithoutList(c)
    <3>1. answer' \in [Calls -> Seq(BOOLEAN)]
      BY <2>2, CallType DEF UpdateWithoutList
    <3> QED BY <2>2, <3>1 DEF UpdateWithoutList, TypeOK
  <2>3. CASE Reject(c)
    <3>1. strandq' \in Seq(Handlers)
      BY <2>3, <1>a DEF Reject, Runs, Handler, Handlers
    <3> QED BY <2>3, <3>1 DEF Reject, Move, TypeOK, Locations, Handlers
  <2>4. CASE AnswerRejected(c)
    <3>1. answer' \in [Calls -> Seq(BOOLEAN)]
      BY <2>4, CallType DEF AnswerRejected
    <3> QED BY <2>4, <3>1, <1>a DEF AnswerRejected, Runs, Move, TypeOK, Locations, Handlers
  <2>5. CASE StartTransaction(c)
    <3>1. heard' \in [Calls -> Seq({"started", "event", "final"})]
      BY <2>5, SendType DEF StartTransaction
    <3> QED BY <2>5, <3>1, <1>a DEF StartTransaction, Runs, Move, TypeOK, Locations, Handlers
  <2>6. CASE DeliverEvent(c)
    <3>1. heard' \in [Calls -> Seq({"started", "event", "final"})]
      BY <2>6, SendType DEF DeliverEvent
    <3> QED BY <2>6, <3>1, <1>a DEF DeliverEvent, Runs, TypeOK, Handlers
  <2>7. CASE EventWithFreedId(c)
    BY <2>7, <1>a DEF EventWithFreedId, Runs, TypeOK, Handlers
  <2>8. CASE Closing(c)
    <3>1. (c \in success) \in BOOLEAN
      OBVIOUS
    <3> QED BY <2>8, <3>1, <1>a, CloseType DEF Closing, Runs, TypeOK, Handlers
  <2>9. CASE ListDevices(c)
    BY <2>9, <1>a DEF ListDevices, Runs, Move, TypeOK, Locations, Handlers
  <2> QED BY <1>2, <2>1, <2>2, <2>3, <2>4, <2>5, <2>6, <2>7, <2>8, <2>9 DEF OnStrand
<1>3. ASSUME NEW c \in Calls, Signal(c) PROVE TypeOK'
  <2>1. strandq' \in Seq(Handlers)
    BY <1>0, <1>3 DEF Signal
  <2>2. posted' \in [Calls -> 0..MaxEvents]
    BY <1>3 DEF Signal, TypeOK
  <2> QED BY <1>3, <2>1, <2>2 DEF Signal, TypeOK, Handlers
<1>4. ASSUME NEW c \in Calls, TransactionEnds(c) PROVE TypeOK'
  BY <1>0, <1>4 DEF TransactionEnds, Move, TypeOK, Locations, Handlers
<1>5. ASSUME NEW c \in Calls, DevicesListed(c) PROVE TypeOK'
  <2>1. deleting' \in [Calls -> SUBSET Resources]
    BY <1>5 DEF DevicesListed, TypeOK, Resources
  <2>2. Cardinality(deleting'[c]) \in Nat
    BY <2>1, ResourcesFinite, FS_Subset, FS_CardinalityType
  <2> QED BY <1>5, <2>1, <2>2 DEF DevicesListed, Move, TypeOK, Locations
<1>6. ASSUME NEW c \in Calls, NEW r \in Resources, DeletionAnswered(c, r) PROVE TypeOK'
  <2>1. /\ pc' \in [Calls -> Locations] /\ answer' \in [Calls -> Seq(BOOLEAN)]
        /\ heard' \in [Calls -> Seq({"started", "event", "final"})]
        /\ sinks' \subseteq setup
        /\ witness' \in [Calls -> {"none", "listening", "disturbed"}]
    <3>1. CASE LastReply(c)
      BY <1>6, <3>1, CloseType DEF DeletionAnswered
    <3>2. CASE ~LastReply(c)
      BY <1>6, <3>2 DEF DeletionAnswered, TypeOK
    <3> QED BY <3>1, <3>2
  <2>2. /\ entries' \subseteq AppIds \X Resources /\ any_error' \subseteq Calls
    BY <1>6 DEF DeletionAnswered, DeletionFails, TypeOK
  <2>3. deleting' \in [Calls -> SUBSET Resources] /\ counter' \in [Calls -> Nat]
    BY <1>6 DEF DeletionAnswered, TypeOK
  <2> QED BY <1>6, <2>1, <2>2, <2>3 DEF DeletionAnswered, TypeOK
<1>7. ASSUME NEW a \in AppIds, SetupTransactionEventChannel(a) \/ Listen(a) \/ Cancel(a)
      PROVE TypeOK'
  BY <1>7 DEF SetupTransactionEventChannel, Listen, Cancel, TypeOK
<1>8. ASSUME NEW a \in AppIds, NEW r \in Resources, PermissionStored(a, r) PROVE TypeOK'
  BY <1>8 DEF PermissionStored, TypeOK
<1>9. CASE UNCHANGED vars
  BY <1>9 DEF vars, TypeOK
<1> QED BY <1>1, <1>2, <1>3, <1>4, <1>5, <1>6, <1>7, <1>8, <1>9 DEF Next, OnReply

\* Every variable keeps its type, for calls and threads in any order.
THEOREM TypeCorrect == Spec => []TypeOK
<1> QED BY TypeInit, TypeStep, PTL DEF Spec

-----------------------------------------------------------------------------
(* The invariants of the queue, the counters, the answers and the events. *)

LEMMA QueuedStep ==
    ASSUME TypeOK, Queued, Counted, [Next]_vars
    PROVE  Queued'
<1> USE DEF callVars, eventVars, cleanupVars, storeVars
<1>z. strandq \in Seq(Handlers) /\ pc \in [Calls -> Locations]
  BY DEF TypeOK, Handlers
<1>0. /\ strandq \in Seq(Handlers) /\ pc \in [Calls -> Locations]
      /\ \A i \in 1..Len(strandq) : strandq[i] \in Handlers
  BY <1>z
<1>1. ASSUME NEW c \in Calls, Request(c) PROVE Queued'
  <2>1. pc[c] = "idle" /\ pc' = [pc EXCEPT ![c] = "called"]
        /\ strandq' = Append(strandq, Handler(c, "request"))
    BY <1>1 DEF Request, Move
  <2>2. \A i \in 1..Len(strandq) : strandq[i].call # c
    <3> SUFFICES ASSUME NEW i \in 1..Len(strandq), strandq[i].call = c PROVE FALSE
      OBVIOUS
    <3>1. pc[c] \in Awaits(strandq[i].what) /\ strandq[i] \in Handlers
      BY <1>0 DEF Queued, WellQueued
    <3> QED BY <2>1, <3>1 DEF Awaits, Handlers
  <2>3. /\ pc'[c] \in Awaits("request")
        /\ \A d \in Calls : d # c => pc'[d] = pc[d]
    BY <1>0, <2>1 DEF Awaits
  <2>4. PICK w \in {"request", "rejected", "event", "closing"} : w = "request"
    OBVIOUS
  <2>5. /\ pc'[c] \in Awaits(w)
        /\ \A i \in 1..Len(strandq) : strandq[i].call = c =>
               strandq[i].what = "event" /\ pc'[c] \in {"transacting", "closing"}
    BY <2>2, <2>3, <2>4
  <2>6. WellQueued(Append(strandq, Handler(c, w)), pc')
    BY <1>z, <2>3, <2>5, QueuedAppend DEF Queued
  <2> QED BY <2>1, <2>4, <2>6 DEF Queued
<1>2. ASSUME NEW c \in Calls, OnStrand(c) PROVE Queued'
  <2>1. CASE UpdateWithoutList(c)
    BY <2>1 DEF UpdateWithoutList, Queued
  <2>2. CASE Reject(c)
    <3>1. Head(strandq).call = c /\ Head(strandq).what = "request" /\ strandq # <<>>
      BY <2>2, HeadOfQueue DEF Reject, Runs
    <3>2. pc[c] = "called" /\ pc' = [pc EXCEPT ![c] = "rejected"]
          /\ strandq' = Append(Tail(strandq), Handler(c, "rejected"))
      BY <2>2 DEF Reject, Move
    <3>3. Tail(strandq) \in Seq(Handlers) /\ WellQueued(Tail(strandq), pc)
      BY <1>0, <3>1, QueuedTail DEF Queued
    <3>4. \A i \in 1..Len(Tail(strandq)) : Tail(strandq)[i].call # c
      <4>1. \A i \in 1..Len(Tail(strandq)) :
                /\ Tail(strandq)[i] = strandq[i + 1] /\ 1 < i + 1
                /\ i + 1 \in 1..Len(strandq)
        BY <1>0, <3>1
      <4>2. Head(strandq) = strandq[1] /\ 1 \in 1..Len(strandq)
        BY <1>0, <3>1
      <4> QED BY <3>1, <4>1, <4>2 DEF Queued, WellQueued
    <3>5. /\ pc'[c] \in Awaits("rejected")
          /\ \A d \in Calls : d # c => pc'[d] = pc[d]
      BY <1>0, <3>2 DEF Awaits
    <3>6. PICK w \in {"request", "rejected", "event", "closing"} : w = "rejected"
      OBVIOUS
    <3>7. /\ pc'[c] \in Awaits(w)
          /\ \A i \in 1..Len(Tail(strandq)) : Tail(strandq)[i].call = c =>
                 /\ Tail(strandq)[i].what = "event"
                 /\ pc'[c] \in {"transacting", "closing"}
      BY <3>4, <3>5, <3>6
    <3>8. WellQueued(Append(Tail(strandq), Handler(c, w)), pc')
      <4> DEFINE q == Tail(strandq)
      <4>1. /\ q \in Seq(Handlers) /\ WellQueued(q, pc) /\ pc'[c] \in Awaits(w)
            /\ \A i \in 1..Len(q) : q[i].call = c =>
                   q[i].what = "event" /\ pc'[c] \in {"transacting", "closing"}
        BY <3>3, <3>7
      <4> HIDE DEF q
      <4>2. WellQueued(Append(q, Handler(c, w)), pc')
        BY <3>5, <4>1, QueuedAppend
      <4> QED BY <4>2 DEF q
    <3> QED BY <3>2, <3>6, <3>8 DEF Queued
  <2>3. CASE \/ NotFound(c) \/ AnswerRejected(c) \/ StartTransaction(c)
             \/ Closing(c) \/ ListDevices(c)
    <3>0. PICK w \in {"request", "rejected", "closing"} :
              Runs(c, w) /\ strandq' = Tail(strandq)
      BY <2>3 DEF NotFound, AnswerRejected, StartTransaction, Closing, ListDevices
    <3>1. Head(strandq).call = c /\ Head(strandq).what # "event" /\ strandq # <<>>
          /\ strandq' = Tail(strandq)
      BY <3>0 DEF Runs, Handler
    <3>2. \A d \in Calls : d # c => pc'[d] = pc[d]
      BY <1>0, <2>3
      DEF NotFound, AnswerRejected, StartTransaction, Closing, ListDevices, Close, Move
    <3>3. WellQueued(strandq', pc')
      BY <1>0, <3>1, <3>2, QueuedTail DEF Queued
    <3> QED BY <3>3 DEF Queued
  <2>4. CASE DeliverEvent(c) \/ EventWithFreedId(c)
    <3>1. strandq # <<>> /\ strandq' = Tail(strandq) /\ pc' = pc
      BY <2>4 DEF DeliverEvent, EventWithFreedId, Runs
    <3> QED BY <1>0, <3>1, QueuedTail DEF Queued
  <2> QED BY <1>2, <2>1, <2>2, <2>3, <2>4 DEF OnStrand
<1>3. ASSUME NEW c \in Calls, Signal(c) \/ TransactionEnds(c) PROVE Queued'
  <2>1. PICK w \in {"event", "closing"} :
            /\ strandq' = Append(strandq, Handler(c, w))
            /\ w = "event" => pc' = pc
            /\ w = "closing" => pc' = [pc EXCEPT ![c] = "closing"]
    BY <1>3 DEF Signal, TransactionEnds, Move
  <2>2. pc[c] = "transacting"
    BY <1>3 DEF Signal, TransactionEnds, Move
  <2>3. \A i \in 1..Len(strandq) : strandq[i].call = c => strandq[i].what = "event"
    <3> SUFFICES ASSUME NEW i \in 1..Len(strandq), strandq[i].call = c
                 PROVE  strandq[i].what = "event"
      OBVIOUS
    <3>1. pc[c] \in Awaits(strandq[i].what) /\ strandq[i] \in Handlers
      BY <1>0 DEF Queued, WellQueued
    <3> QED BY <2>2, <3>1 DEF Awaits, Handlers
  <2>5. /\ pc'[c] \in Awaits(w) /\ pc'[c] \in {"transacting", "closing"}
        /\ \A d \in Calls : d # c => pc'[d] = pc[d]
    BY <1>0, <2>1, <2>2 DEF Awaits
  <2> QED BY <1>0, <2>1, <2>3, <2>5, QueuedAppend DEF Queued
<1>4. ASSUME NEW c \in Calls, DevicesListed(c) PROVE Queued'
  <2>1. pc[c] = "listing" /\ strandq' = strandq
    BY <1>4 DEF DevicesListed, Move
  <2>2. \A d \in Calls : d # c => pc'[d] = pc[d]
    BY <1>0, <1>4 DEF DevicesListed, Move
  <2>3. WellQueued(strandq', pc')
    BY <1>0, <2>1, <2>2, QueuedMove DEF Queued
  <2> QED BY <2>3 DEF Queued
<1>5. ASSUME NEW c \in Calls, NEW r \in Resources, DeletionAnswered(c, r) PROVE Queued'
  <2>1. pc[c] = "cleaning" /\ strandq' = strandq
    BY <1>5 DEF DeletionAnswered, Counted
  <2>2. \A d \in Calls : d # c => pc'[d] = pc[d]
    BY <1>0, <1>5 DEF DeletionAnswered, Close
  <2> QED BY <1>0, <2>1, <2>2, QueuedMove DEF Queued
<1>6. ASSUME NEW a \in AppIds,
             \/ SetupTransactionEventChannel(a) \/ Listen(a) \/ Cancel(a)
             \/ \E r \in Resources : PermissionStored(a, r)
      PROVE Queued'
  BY <1>6 DEF SetupTransactionEventChannel, Listen, Cancel, PermissionStored, Queued
<1>7. CASE UNCHANGED vars
  BY <1>7 DEF vars, Queued
<1> QED BY <1>1, <1>2, <1>3, <1>4, <1>5, <1>6, <1>7 DEF Next, OnReply

LEMMA CountedStep ==
    ASSUME TypeOK, Queued, Counted, [Next]_vars
    PROVE  Counted'
<1> USE DEF callVars, eventVars, cleanupVars, storeVars
<1>0. /\ pc \in [Calls -> Locations] /\ deleting \in [Calls -> SUBSET Resources]
      /\ counter \in [Calls -> Nat] /\ total \in [Calls -> Nat]
  BY DEF TypeOK
<1>1. ASSUME NEW c \in Calls, pc[c] \notin {"cleaning", "ended"}, \A d \in Calls : d # c => pc'[d] = pc[d],
             pc'[c] # "cleaning", UNCHANGED <<deleting, counter, total>>
      PROVE  Counted'
  BY <1>1 DEF Counted
<1>2. ASSUME NEW c \in Calls, OnStrand(c) PROVE Counted'
  <2>1. CASE UpdateWithoutList(c) \/ DeliverEvent(c) \/ EventWithFreedId(c)
    BY <2>1 DEF UpdateWithoutList, DeliverEvent, EventWithFreedId, Counted
  <2>2. CASE NotFound(c) \/ Reject(c) \/ AnswerRejected(c) \/ StartTransaction(c)
             \/ ListDevices(c)
    BY <1>0, <1>1, <2>2
    DEF NotFound, Reject, AnswerRejected, StartTransaction, ListDevices, Move
  <2>3. CASE Closing(c)
    <3>1. pc[c] = "closing"
      BY <2>3, HeadOfQueue DEF Closing, Awaits
    <3> QED BY <1>0, <1>1, <2>3, <3>1 DEF Closing, Close
  <2> QED BY <1>2, <2>1, <2>2, <2>3 DEF OnStrand
<1>3. ASSUME NEW c \in Calls, Request(c) \/ Signal(c) \/ TransactionEnds(c) PROVE Counted'
  <2>1. CASE Signal(c)
    BY <2>1 DEF Signal, Counted
  <2>2. CASE Request(c) \/ TransactionEnds(c)
    BY <1>0, <1>1, <2>2 DEF Request, TransactionEnds, Move
  <2> QED BY <1>3, <2>1, <2>2
<1>4. ASSUME NEW c \in Calls, DevicesListed(c) PROVE Counted'
  <2>1. pc[c] = "listing" /\ counter[c] = 0 /\ counter' = counter
        /\ pc' = [pc EXCEPT ![c] = "cleaning"]
    BY <1>4 DEF DevicesListed, Move, Counted
  <2>2. deleting'[c] # {} /\ total'[c] = Cardinality(deleting'[c])
    BY <1>0, <1>4 DEF DevicesListed
  <2>3. \A d \in Calls : d # c => /\ deleting'[d] = deleting[d] /\ total'[d] = total[d]
                                  /\ pc'[d] = pc[d]
    BY <1>0, <1>4, <2>1 DEF DevicesListed
  <2>4. deleting'[c] \in SUBSET Resources
    BY <1>0, <1>4 DEF DevicesListed, Resources
  <2>5. Cardinality(deleting'[c]) \in Nat
    BY <2>4, ResourcesFinite, FS_Subset, FS_CardinalityType
  <2> QED BY <1>0, <2>1, <2>2, <2>3, <2>5 DEF Counted
<1>5. ASSUME NEW c \in Calls, NEW r \in Resources, DeletionAnswered(c, r) PROVE Counted'
  <2> DEFINE D == deleting[c]
  <2>1. /\ pc[c] = "cleaning" /\ r \in D /\ deleting' = [deleting EXCEPT ![c] = D \ {r}]
        /\ counter' = [counter EXCEPT ![c] = @ + 1] /\ total' = total
        /\ counter[c] + Cardinality(D) = total[c]
    BY <1>5 DEF DeletionAnswered, Counted
  <2>2. /\ IsFiniteSet(D) /\ Cardinality(D) \in Nat
        /\ IsFiniteSet(D \ {r}) /\ Cardinality(D \ {r}) = Cardinality(D) - 1
    BY <1>0, <2>1, ResourcesFinite, FS_Subset, FS_CardinalityType, FS_RemoveElement
  <2>3. (D \ {r} = {}) <=> Cardinality(D) = 1
    BY <2>2, FS_EmptySet
  <2>4. CASE LastReply(c)
    <3>1. counter[c] + 1 = total[c] /\ pc' = [pc EXCEPT ![c] = "ended"]
      BY <1>5, <2>4 DEF DeletionAnswered, Close, LastReply
    <3>2. D \ {r} = {}
      BY <1>0, <2>1, <2>2, <2>3, <3>1
    <3> QED BY <1>0, <2>1, <3>1, <3>2 DEF Counted
  <2>5. CASE ~LastReply(c)
    <3>1. counter[c] + 1 # total[c] /\ pc' = pc
      BY <1>5, <2>5 DEF DeletionAnswered, LastReply
    <3>2. D \ {r} # {}
      BY <1>0, <2>1, <2>2, <2>3, <3>1
    <3>3. counter'[c] + Cardinality(D \ {r}) = total[c]
      BY <1>0, <2>1, <2>2
    <3> QED BY <1>0, <2>1, <3>1, <3>2, <3>3 DEF Counted
  <2> QED BY <2>4, <2>5
<1>6. ASSUME NEW a \in AppIds,
             \/ SetupTransactionEventChannel(a) \/ Listen(a) \/ Cancel(a)
             \/ \E r \in Resources : PermissionStored(a, r)
      PROVE Counted'
  BY <1>6 DEF SetupTransactionEventChannel, Listen, Cancel, PermissionStored, Counted
<1>7. CASE UNCHANGED vars
  BY <1>7 DEF vars, Counted
<1> QED BY <1>2, <1>3, <1>4, <1>5, <1>6, <1>7 DEF Next, OnReply

LEMMA AnsweredStep ==
    ASSUME TypeOK, Queued, Counted, Answered, [Next]_vars
    PROVE  Answered'
<1> USE DEF callVars, eventVars, cleanupVars, storeVars
<1>0. /\ pc \in [Calls -> Locations] /\ answer \in [Calls -> Seq(BOOLEAN)]
  BY DEF TypeOK
\* A call in progress is answered as it ends, or as the plugin goes down.
<1>1. ASSUME NEW c \in Calls, NEW result \in BOOLEAN, Running, pc[c] # "ended",
             Call(c, result), pc'[c] = "ended" \/ ~Running',
             \A d \in Calls : d # c => pc'[d] = pc[d],
             Running' \/ pc' = pc
      PROVE  Answered'
  <2>1. answer[c] = <<>> /\ answer' = [answer EXCEPT ![c] = Append(answer[c], result)]
    BY <1>1 DEF Answered, Call
  <2>2. Len(answer'[c]) <= 1
    BY <1>0, <2>1
  <2> QED BY <1>0, <1>1, <2>1, <2>2 DEF Answered
<1>2. ASSUME NEW c \in Calls, answer' = answer, Running,
             \A d \in Calls : pc'[d] # "ended" => pc[d] # "ended"
      PROVE  Answered'
  BY <1>2 DEF Answered
<1>3. ASSUME NEW c \in Calls, OnStrand(c) PROVE Answered'
  <2>0. Running
    BY <1>3 DEF OnStrand, NotFound, UpdateWithoutList, Reject, AnswerRejected,
                StartTransaction, DeliverEvent, EventWithFreedId, Closing,
                ListDevices, Runs
  <2>1. CASE NotFound(c) \/ AnswerRejected(c)
    BY <1>0, <1>1, <2>0, <2>1 DEF NotFound, AnswerRejected, Move, Running
  <2>2. CASE UpdateWithoutList(c)
    <3>1. pc[c] # "ended"
      BY <2>2, HeadOfQueue DEF UpdateWithoutList, Awaits
    <3> QED BY <1>0, <1>1, <2>0, <2>2, <3>1 DEF UpdateWithoutList, Running
  <2>3. CASE Closing(c)
    <3>1. pc[c] = "closing"
      BY <2>3, HeadOfQueue DEF Closing, Awaits
    <3>2. (c \in success) \in BOOLEAN
      OBVIOUS
    <3>3. PICK result \in BOOLEAN : Close(c, result)
      BY <2>3, <3>2 DEF Closing
    <3>4. /\ pc'[c] = "ended" /\ Call(c, result)
          /\ \A d \in Calls : d # c => pc'[d] = pc[d]
      BY <1>0, <3>3 DEF Close
    <3> QED BY <1>1, <2>0, <2>3, <3>1, <3>4 DEF Closing, Running
  <2>4. CASE Reject(c) \/ StartTransaction(c) \/ ListDevices(c)
    BY <1>0, <1>2, <2>0, <2>4 DEF Reject, StartTransaction, ListDevices, Move
  <2>5. CASE DeliverEvent(c) \/ EventWithFreedId(c)
    BY <1>2, <2>0, <2>5 DEF DeliverEvent, EventWithFreedId
  <2> QED BY <1>3, <2>1, <2>2, <2>3, <2>4, <2>5 DEF OnStrand
<1>4. ASSUME NEW c \in Calls, Request(c) \/ Signal(c) \/ TransactionEnds(c)
      PROVE  Answered'
  BY <1>0, <1>2, <1>4 DEF Request, Signal, TransactionEnds, Move
<1>5. ASSUME NEW c \in Calls, DevicesListed(c) PROVE Answered'
  BY <1>0, <1>2, <1>5 DEF DevicesListed, Move
<1>6. ASSUME NEW c \in Calls, NEW r \in Resources, DeletionAnswered(c, r) PROVE Answered'
  <2>1. CASE LastReply(c)
    <3>1. pc[c] = "cleaning" /\ Close(c, TRUE) /\ Running /\ Running'
      BY <1>6, <2>1 DEF DeletionAnswered, Counted, Running
    <3>2. /\ pc'[c] = "ended" /\ Call(c, TRUE)
          /\ \A d \in Calls : d # c => pc'[d] = pc[d]
      BY <1>0, <3>1 DEF Close
    <3> QED BY <1>1, <3>1, <3>2
  <2>2. CASE ~LastReply(c)
    BY <1>2, <1>6, <2>2 DEF DeletionAnswered
  <2> QED BY <2>1, <2>2
<1>7. ASSUME NEW a \in AppIds,
             \/ SetupTransactionEventChannel(a) \/ Listen(a) \/ Cancel(a)
             \/ \E r \in Resources : PermissionStored(a, r)
      PROVE Answered'
  BY <1>7 DEF SetupTransactionEventChannel, Listen, Cancel, PermissionStored,
              Answered, Running
<1>8. CASE UNCHANGED vars
  BY <1>8 DEF vars, Answered, Running
<1> QED BY <1>3, <1>4, <1>5, <1>6, <1>7, <1>8 DEF Next, OnReply

\* Ending an operation that was in progress.
LEMMA WitnessedClose ==
    ASSUME TypeOK, Witnessed, NEW c \in Calls, NEW result, InProgress(c),
           Close(c, result)
    PROVE  Witnessed'
<1>0. /\ pc \in [Calls -> Locations] /\ witness \in [Calls -> {"none", "listening", "disturbed"}]
      /\ heard \in [Calls -> Seq({"started", "event", "final"})]
  BY DEF TypeOK
<1>1. /\ pc' = [pc EXCEPT ![c] = "ended"] /\ sinks' = sinks \ {AppOf[c]}
      /\ \A d \in Calls : d \notin Others(c) => witness'[d] = witness[d]
      /\ \A d \in Others(c) : witness'[d] = "disturbed"
  BY DEF Close, Others
<1>2. \A d \in Calls : d # c => heard'[d] = heard[d] /\ pc'[d] = pc[d]
  BY <1>0, <1>1 DEF Close, SendTransactionEvent
<1>3. ASSUME NEW d \in Calls, d # c
      PROVE  /\ pc'[d] \in {"idle", "called", "rejected"} => witness'[d] = "none"
             /\ witness'[d] = "listening" /\ InProgress(d)' => AppOf[d] \in sinks'
             /\ witness'[d] = "listening" /\ pc'[d] = "ended" =>
                    heard'[d] # <<>> /\ heard'[d][Len(heard'[d])] = "final"
             /\ \A i \in 1..Len(heard'[d]) :
                    heard'[d][i] = "final" => i = Len(heard'[d]) /\ pc'[d] = "ended"
  <2>1. CASE d \in Others(c)
    BY <1>1, <1>2, <1>3, <2>1 DEF Witnessed, Others, InProgress
  <2>2. CASE d \notin Others(c)
    <3>1. witness'[d] = witness[d] /\ heard'[d] = heard[d] /\ pc'[d] = pc[d]
      BY <1>1, <1>2, <1>3, <2>2
    <3>2. InProgress(d)' => InProgress(d) /\ AppOf[d] # AppOf[c]
      BY <1>3, <2>2, <3>1 DEF Others, InProgress
    <3> QED BY <1>1, <3>1, <3>2 DEF Witnessed
  <2> QED BY <2>1, <2>2
<1>4. /\ pc'[c] = "ended" /\ ~InProgress(c)' /\ witness'[c] = witness[c]
      /\ pc[c] # "ended"
  BY <1>0, <1>1 DEF InProgress, Others
<1>5. witness'[c] = "listening" => heard'[c] = Append(heard[c], "final")
  BY <1>0, <1>4 DEF Close, SendTransactionEvent, Witnessed
<1>6. heard'[c] = Append(heard[c], "final") \/ heard'[c] = heard[c]
  BY <1>0 DEF Close, SendTransactionEvent
<1>7. \A i \in 1..Len(heard[c]) : heard[c][i] # "final"
  BY <1>4 DEF Witnessed
<1>8. heard[c] \in Seq({"started", "event", "final"})
  BY <1>0
<1>9. \A i \in 1..Len(heard'[c]) : heard'[c][i] = "final" => i = Len(heard'[c])
  BY <1>6, <1>7, <1>8
<1>10. witness'[c] = "listening" => heard'[c] # <<>> /\ heard'[c][Len(heard'[c])] = "final"
  BY <1>5, <1>8
<1> QED BY <1>3, <1>4, <1>9, <1>10 DEF Witnessed

LEMMA WitnessedStep ==
    ASSUME TypeOK, Queued, Counted, Witnessed, [Next]_vars
    PROVE  Witnessed'
<1> USE DEF callVars, eventVars, cleanupVars, storeVars
<1>0. /\ pc \in [Calls -> Locations] /\ witness \in [Calls -> {"none", "listening", "disturbed"}]
      /\ heard \in [Calls -> Seq({"started", "event", "final"})]
  BY DEF TypeOK
\* Steps that leave the events alone and end no operation.
<1>1. ASSUME UNCHANGED <<sinks, heard, witness>>,
             \A c \in Calls : \/ pc'[c] = pc[c]
                              \/ pc[c] \in {"idle", "called", "rejected"} /\ ~InProgress(c)'
                                 /\ (pc'[c] = "ended" => witness[c] = "none")
                              \/ InProgress(c) /\ InProgress(c)'
      PROVE  Witnessed'
  <2> SUFFICES ASSUME NEW c \in Calls
      PROVE  /\ pc'[c] \in {"idle", "called", "rejected"} => witness[c] = "none"
             /\ witness[c] = "listening" /\ InProgress(c)' => AppOf[c] \in sinks
             /\ witness[c] = "listening" /\ pc'[c] = "ended" =>
                    heard[c] # <<>> /\ heard[c][Len(heard[c])] = "final"
             /\ \A i \in 1..Len(heard[c]) :
                    heard[c][i] = "final" => i = Len(heard[c]) /\ pc'[c] = "ended"
    BY <1>1 DEF Witnessed
  <2>1. CASE pc'[c] = pc[c]
    BY <2>1 DEF Witnessed, InProgress
  <2>2. CASE pc[c] \in {"idle", "called", "rejected"} /\ ~InProgress(c)'
    BY <1>1, <2>2 DEF Witnessed, InProgress
  <2>3. CASE InProgress(c) /\ InProgress(c)'
    BY <2>3 DEF Witnessed, InProgress
  <2> QED BY <1>1, <2>1, <2>2, <2>3
<1>2. ASSUME NEW c \in Calls, OnStrand(c) PROVE Witnessed'
  <2>1. CASE NotFound(c) \/ Reject(c) \/ AnswerRejected(c)
    <3>1. pc[c] \in {"called", "rejected"} /\ pc'[c] \in {"ended", "rejected"}
          /\ \A d \in Calls : d # c => pc'[d] = pc[d]
      BY <1>0, <2>1 DEF NotFound, Reject, AnswerRejected, Move
    <3>2. UNCHANGED <<sinks, heard, witness>>
      BY <2>1 DEF NotFound, Reject, AnswerRejected
    <3>3. witness[c] = "none"
      BY <3>1 DEF Witnessed
    <3> QED BY <1>1, <3>1, <3>2, <3>3 DEF InProgress
  <2>2. CASE UpdateWithoutList(c) \/ EventWithFreedId(c)
    BY <1>1, <2>2 DEF UpdateWithoutList, EventWithFreedId
  <2>3. CASE StartTransaction(c)
    <3>1. /\ pc[c] = "called" /\ pc' = [pc EXCEPT ![c] = "transacting"] /\ sinks' = sinks
          /\ heard' = IF AppOf[c] \in sinks THEN [heard EXCEPT ![c] = Append(@, "started")]
                                            ELSE heard
          /\ witness' = [witness EXCEPT ![c] = IF AppOf[c] \in sinks THEN "listening"
                                                                     ELSE "none"]
      BY <2>3 DEF StartTransaction, Move, SendTransactionEvent
    <3>2. heard[c] \in Seq({"started", "event", "final"})
          /\ \A i \in 1..Len(heard[c]) : heard[c][i] # "final"
      BY <1>0, <3>1 DEF Witnessed
    <3>3. \A i \in 1..Len(heard'[c]) : heard'[c][i] # "final"
      BY <1>0, <3>1, <3>2
    <3>4. pc'[c] = "transacting" /\ (witness'[c] = "listening" => AppOf[c] \in sinks)
      BY <1>0, <3>1
    <3>5. \A d \in Calls : d # c => /\ pc'[d] = pc[d] /\ witness'[d] = witness[d]
                                    /\ heard'[d] = heard[d]
      BY <1>0, <3>1
    <3> QED BY <3>1, <3>3, <3>4, <3>5 DEF Witnessed, InProgress
  <2>4. CASE DeliverEvent(c)
    <3>1. pc[c] \in {"transacting", "closing"}
      BY <2>4, HeadOfQueue DEF DeliverEvent, Awaits
    <3>2. /\ UNCHANGED <<pc, sinks, witness>>
          /\ heard' = IF AppOf[c] \in sinks THEN [heard EXCEPT ![c] = Append(@, "event")]
                                            ELSE heard
      BY <2>4 DEF DeliverEvent, SendTransactionEvent
    <3>3. heard[c] \in Seq({"started", "event", "final"})
          /\ \A i \in 1..Len(heard[c]) : heard[c][i] # "final"
      BY <1>0, <3>1 DEF Witnessed
    <3>4. \A i \in 1..Len(heard'[c]) : heard'[c][i] # "final"
      BY <1>0, <3>2, <3>3
    <3>5. \A d \in Calls : d # c => heard'[d] = heard[d]
      BY <1>0, <3>2
    <3> QED BY <3>1, <3>2, <3>4, <3>5 DEF Witnessed, InProgress
  <2>5. CASE Closing(c)
    <3>1. InProgress(c)
      BY <2>5, HeadOfQueue DEF Closing, Awaits, InProgress
    <3> QED BY <2>5, <3>1, WitnessedClose DEF Closing
  <2>6. CASE ListDevices(c)
    <3>1. /\ pc[c] = "closing" /\ pc'[c] = "listing" /\ UNCHANGED <<sinks, heard, witness>>
          /\ \A d \in Calls : d # c => pc'[d] = pc[d]
      BY <1>0, <2>6 DEF ListDevices, Move
    <3> QED BY <1>1, <3>1 DEF InProgress
  <2> QED BY <1>2, <2>1, <2>2, <2>3, <2>4, <2>5, <2>6 DEF OnStrand
<1>3. ASSUME NEW c \in Calls, Request(c) \/ Signal(c) \/ TransactionEnds(c) PROVE Witnessed'
  <2>1. UNCHANGED <<sinks, heard, witness>>
    BY <1>3 DEF Request, Signal, TransactionEnds
  <2>2. \A d \in Calls : \/ pc'[d] = pc[d]
                         \/ pc[d] = "idle" /\ pc'[d] = "called"
                         \/ pc[d] = "transacting" /\ pc'[d] = "closing"
    BY <1>0, <1>3 DEF Request, Signal, TransactionEnds, Move
  <2> QED BY <1>1, <2>1, <2>2 DEF InProgress
<1>4. ASSUME NEW c \in Calls, DevicesListed(c) PROVE Witnessed'
  <2>1. pc[c] = "listing" /\ pc' = [pc EXCEPT ![c] = "cleaning"]
    BY <1>4 DEF DevicesListed, Move
  <2>2. ASSUME NEW d \in Calls
        PROVE  pc'[d] = pc[d] \/ (pc[d] = "listing" /\ pc'[d] = "cleaning")
    <3>1. CASE d = c
      BY <1>0, <2>1, <3>1
    <3>2. CASE d # c
      BY <1>0, <2>1, <3>2
    <3> QED BY <3>1, <3>2
  <2> QED BY <1>1, <1>4, <2>2 DEF DevicesListed, InProgress
<1>5. ASSUME NEW c \in Calls, NEW r \in Resources, DeletionAnswered(c, r) PROVE Witnessed'
  <2>1. CASE LastReply(c)
    <3>1. InProgress(c) /\ Close(c, TRUE)
      BY <1>5, <2>1 DEF DeletionAnswered, Counted, InProgress
    <3> QED BY <3>1, WitnessedClose
  <2>2. CASE ~LastReply(c)
    BY <1>1, <1>5, <2>2 DEF DeletionAnswered
  <2> QED BY <2>1, <2>2
<1>6. ASSUME NEW a \in AppIds, SetupTransactionEventChannel(a)
             \/ \E r \in Resources : PermissionStored(a, r)
      PROVE Witnessed'
  BY <1>1, <1>6 DEF SetupTransactionEventChannel, PermissionStored
<1>7. ASSUME NEW a \in AppIds, Listen(a) PROVE Witnessed'
  BY <1>7 DEF Listen, Witnessed, InProgress
<1>8. ASSUME NEW a \in AppIds, Cancel(a) PROVE Witnessed'
  <2>1. \A c \in Calls : witness'[c] = IF AppOf[c] = a THEN "none" ELSE witness[c]
    BY <1>8 DEF Cancel
  <2>2. sinks' = sinks \ {a} /\ UNCHANGED <<pc, heard>>
    BY <1>8 DEF Cancel
  <2> QED BY <2>1, <2>2 DEF Witnessed, InProgress
<1>9. CASE UNCHANGED vars
  BY <1>1, <1>9 DEF vars
<1> QED BY <1>2, <1>3, <1>4, <1>5, <1>6, <1>7, <1>8, <1>9 DEF Next, OnReply

-----------------------------------------------------------------------------
(* The permissions. *)

LEMMA RemainingStep ==
    ASSUME TypeOK, Queued, Counted, Remaining, [Next]_vars
    PROVE  Remaining'
<1> USE DEF callVars, eventVars, cleanupVars, storeVars
<1>0. /\ pc \in [Calls -> Locations] /\ owed \in [Calls -> SUBSET Resources]
      /\ deleting \in [Calls -> SUBSET Resources] /\ entries \subseteq AppIds \X Resources
      /\ listed \subseteq Calls /\ any_error \subseteq Calls
  BY DEF TypeOK
\* Steps outside the cleanup.
<1>1. ASSUME UNCHANGED <<owed, entries, deleting, listed, any_error>>,
             \A c \in Calls : pc[c] \in {"cleaning", "ended"} => pc'[c] \in {"cleaning", "ended"}
      PROVE  Remaining'
  BY <1>1 DEF Remaining
<1>2. ASSUME NEW c \in Calls, OnStrand(c) PROVE Remaining'
  <2>1. CASE ListDevices(c)
    <3>1. /\ pc[c] = "closing" /\ pc' = [pc EXCEPT ![c] = "listing"]
          /\ UNCHANGED <<entries, deleting, listed, any_error>>
          /\ \A d \in Calls : d # c => owed'[d] = owed[d]
      BY <1>0, <2>1 DEF ListDevices, Move
    <3>2. c \notin listed
      BY <3>1 DEF Remaining
    <3> QED BY <1>0, <3>1, <3>2 DEF Remaining
  <2>2. CASE NotFound(c) \/ Reject(c) \/ AnswerRejected(c) \/ StartTransaction(c)
    BY <1>0, <1>1, <2>2 DEF NotFound, Reject, AnswerRejected, StartTransaction, Move
  <2>3. CASE UpdateWithoutList(c) \/ DeliverEvent(c) \/ EventWithFreedId(c)
    BY <1>1, <2>3 DEF UpdateWithoutList, DeliverEvent, EventWithFreedId
  <2>4. CASE Closing(c)
    BY <1>0, <1>1, <2>4 DEF Closing, Close
  <2> QED BY <1>2, <2>1, <2>2, <2>3, <2>4 DEF OnStrand
<1>3. ASSUME NEW c \in Calls, Request(c) \/ Signal(c) \/ TransactionEnds(c) PROVE Remaining'
  BY <1>0, <1>1, <1>3 DEF Request, Signal, TransactionEnds, Move
<1>4. ASSUME NEW c \in Calls, DevicesListed(c) PROVE Remaining'
  <2>1. /\ pc[c] = "listing" /\ pc' = [pc EXCEPT ![c] = "cleaning"]
        /\ UNCHANGED <<entries, owed, any_error>>
        /\ \A d \in Calls : d # c => deleting'[d] = deleting[d]
        /\ listed' \in {listed, listed \cup {c}}
    BY <1>0, <1>4 DEF DevicesListed, Move
  <2>2. c \notin listed
    BY <2>1 DEF Remaining
  <2>3. ASSUME c \in listed', NEW r \in owed[c], <<AppOf[c], r>> \in entries
        PROVE  r \in deleting'[c]
    <3>1. PICK devices \in SUBSET Devices :
              InUse \subseteq devices /\ deleting' = [deleting EXCEPT ![c] = Fixed \cup devices]
      BY <1>4, <2>2, <2>3 DEF DevicesListed
    <3>2. r \in Fixed \/ r \in InUse
      BY <1>0, <2>3 DEF InUse, Resources
    <3> QED BY <1>0, <3>1, <3>2
  <2>4. ASSUME NEW d \in Calls
        PROVE  /\ d \in listed' => pc'[d] \in {"cleaning", "ended"}
               /\ d \notin ByRef /\ d \in listed' /\ d \notin any_error =>
                     \A r \in owed[d] : <<AppOf[d], r>> \in entries => r \in deleting'[d]
    <3>1. CASE d = c
      BY <1>0, <2>1, <2>3, <3>1
    <3>2. CASE d # c
      BY <1>0, <2>1, <3>2 DEF Remaining
    <3> QED BY <3>1, <3>2
  <2> QED BY <2>1, <2>4 DEF Remaining
<1>5. ASSUME NEW c \in Calls, NEW r \in Resources, DeletionAnswered(c, r) PROVE Remaining'
  <2>1. /\ pc[c] = "cleaning" /\ UNCHANGED <<listed, owed>>
        /\ deleting' = [deleting EXCEPT ![c] = @ \ {r}]
        /\ \/ entries' = entries \ Deleted(c, r) /\ any_error' = any_error
           \/ entries' = entries /\ any_error' = any_error \cup {c}
    BY <1>5 DEF DeletionAnswered, Counted, DeletionFails
  <2>2. \A d \in Calls : pc'[d] = pc[d] \/ pc'[d] = "ended"
    BY <1>0, <1>5 DEF DeletionAnswered, Close
  <2>3. ASSUME NEW d \in Calls, d \notin ByRef, d \in listed, d \notin any_error',
               NEW s \in owed[d], <<AppOf[d], s>> \in entries'
        PROVE  s \in deleting'[d]
    <3>1. d \notin any_error /\ <<AppOf[d], s>> \in entries
      BY <2>1, <2>3
    <3>2. s \in deleting[d]
      BY <2>3, <3>1 DEF Remaining
    <3>3. CASE d = c /\ s = r
      BY <2>1, <2>3, <3>3 DEF Deleted
    <3> QED BY <1>0, <2>1, <3>2, <3>3
  <2> QED BY <2>1, <2>2, <2>3 DEF Remaining
<1>6. ASSUME NEW a \in AppIds, NEW r \in Resources, PermissionStored(a, r) PROVE Remaining'
  <2>1. /\ entries' = entries \cup {<<a, r>>} /\ UNCHANGED <<pc, deleting, listed, any_error>>
        /\ \A c \in Calls : owed'[c] = IF AppOf[c] = a THEN owed[c] \ {r} ELSE owed[c]
    BY <1>6 DEF PermissionStored
  <2>2. ASSUME NEW c \in Calls, NEW s \in owed'[c], <<AppOf[c], s>> \in entries'
        PROVE  s \in owed[c] /\ <<AppOf[c], s>> \in entries
    BY <2>1, <2>2
  <2> QED BY <2>1, <2>2 DEF Remaining
<1>7. ASSUME NEW a \in AppIds, SetupTransactionEventChannel(a) \/ Listen(a) \/ Cancel(a)
      PROVE Remaining'
  BY <1>1, <1>7 DEF SetupTransactionEventChannel, Listen, Cancel
<1>8. CASE UNCHANGED vars
  BY <1>1, <1>8 DEF vars
<1> QED BY <1>2, <1>3, <1>4, <1>5, <1>6, <1>7, <1>8 DEF Next, OnReply

-----------------------------------------------------------------------------
(* The theorems. *)

IInv == TypeOK /\ Queued /\ Counted /\ Answered /\ Witnessed /\ Remaining

THEOREM Invariant == Spec => []IInv
<1>1. Init => IInv
  <2> SUFFICES ASSUME Init PROVE IInv
    OBVIOUS
  <2>1. TypeOK
    BY TypeInit
  <2>2. Queued
    BY DEF Init, Queued, WellQueued
  <2>3. Counted /\ Answered
    BY DEF Init, Counted, Answered
  <2>4. Witnessed /\ Remaining
    BY DEF Init, Witnessed, Remaining, InProgress
  <2> QED BY <2>1, <2>2, <2>3, <2>4 DEF IInv
<1>2. IInv /\ [Next]_vars => IInv'
  BY TypeStep, QueuedStep, CountedStep, AnsweredStep, WitnessedStep, RemainingStep DEF IInv
<1> QED BY <1>1, <1>2, PTL DEF Spec

\* The callback of an uninstall comes once, after every reply of the store.
THEOREM CallbackOnceAndLast == Spec => []AnsweredOnceAndLast
<1>1. IInv => AnsweredOnceAndLast
  BY DEF IInv, Counted, Answered, AnsweredOnceAndLast
<1> QED BY Invariant, <1>1, PTL

\* An uninstall by name leaves no permission it found when the store fails
\* nothing.
THEOREM PermissionsRemoved == Spec => []CleanRemoval
<1>1. IInv => CleanRemoval
  BY DEF IInv, Counted, Remaining, CleanRemoval
<1> QED BY Invariant, <1>1, PTL

\* A listener that no other operation disturbs hears an operation's last event.
THEOREM LastEventHeard == Spec => []FinalEventHeard
<1>1. IInv => FinalEventHeard
  BY DEF IInv, Witnessed, FinalEventHeard
<1> QED BY Invariant, <1>1, PTL

\* Nothing of an operation is heard after its last event.
THEOREM LastEventIsLast == Spec => []FinalEventIsLast
<1>1. IInv => FinalEventIsLast
  <2> SUFFICES ASSUME IInv, NEW c \in Calls
               PROVE  \A i \in DOMAIN heard[c] : heard[c][i] = "final" => i = Len(heard[c])
    BY DEF FinalEventIsLast
  <2>1. heard[c] \in Seq({"started", "event", "final"})
    BY DEF IInv, TypeOK
  <2>2. DOMAIN heard[c] = 1..Len(heard[c])
    BY <2>1
  <2> QED BY <2>2 DEF IInv, Witnessed
<1> QED BY Invariant, <1>1, PTL
-----------------------------------------------------------------------------
(* No call is lost. *)

\* The handler a call in one of these places waits for.
HandlerAt == [called |-> "request", rejected |-> "rejected", closing |-> "closing"]

\* It is in the queue q, for every call in such a place p.
WellServed(q, p) ==
    \A c \in Calls :
        p[c] \in DOMAIN HandlerAt =>
            \E i \in 1..Len(q) : q[i] = Handler(c, HandlerAt[p[c]])

\* A call that has ended has its answer.
EndedAnswered == Running => \A c \in Calls : pc[c] = "ended" => Len(answer[c]) = 1

\* A call that has no answer yet has a handler on the strand, a transaction that
\* libflatpak runs, or a reply of the permission store to come.
NoCallLost ==
    Running =>
        \A c \in Calls :
            \/ pc[c] = "idle"
            \/ Len(answer[c]) = 1
            \/ pc[c] \in DOMAIN HandlerAt
                 /\ \E i \in 1..Len(strandq) : strandq[i] = Handler(c, HandlerAt[pc[c]])
            \/ pc[c] \in {"transacting", "listing"}
            \/ pc[c] = "cleaning" /\ deleting[c] # {}

\* The handler at the head may go when its call no longer waits for it.
LEMMA ServedTail ==
    ASSUME NEW q \in Seq(Handlers), q # <<>>, NEW p, NEW p2, WellServed(q, p),
           \A d \in Calls : d # Head(q).call => p2[d] = p[d],
           \/ Head(q).what = "event" /\ p2 = p
           \/ p2[Head(q).call] \notin DOMAIN HandlerAt
    PROVE  WellServed(Tail(q), p2)
<1> SUFFICES ASSUME NEW c \in Calls, p2[c] \in DOMAIN HandlerAt
             PROVE  \E i \in 1..Len(Tail(q)) : Tail(q)[i] = Handler(c, HandlerAt[p2[c]])
  BY DEF WellServed
<1>1. p2[c] = p[c]
  OBVIOUS
<1>2. PICK i \in 1..Len(q) : q[i] = Handler(c, HandlerAt[p[c]])
  BY <1>1 DEF WellServed
<1>3. q[i].call = c /\ q[i].what # "event"
  BY <1>1, <1>2 DEF Handler, HandlerAt
<1>4. i # 1
  BY <1>3
<1>5. i - 1 \in 1..Len(Tail(q)) /\ Tail(q)[i - 1] = q[i]
  BY <1>4
<1> QED BY <1>1, <1>2, <1>5

\* A handler may be added, and its call come to wait for it.
LEMMA ServedAppend ==
    ASSUME NEW q \in Seq(Handlers), NEW h \in Handlers, NEW p, NEW p2, WellServed(q, p),
           \A d \in Calls : d # h.call => p2[d] = p[d],
           \/ p2[h.call] = p[h.call]
           \/ p2[h.call] \in DOMAIN HandlerAt /\ HandlerAt[p2[h.call]] = h.what
    PROVE  WellServed(Append(q, h), p2)
<1> SUFFICES ASSUME NEW c \in Calls, p2[c] \in DOMAIN HandlerAt
             PROVE  \E i \in 1..Len(Append(q, h)) :
                        Append(q, h)[i] = Handler(c, HandlerAt[p2[c]])
  BY DEF WellServed
<1>1. CASE p2[c] = p[c]
  <2>1. PICK i \in 1..Len(q) : q[i] = Handler(c, HandlerAt[p[c]])
    BY <1>1 DEF WellServed
  <2>2. i \in 1..Len(Append(q, h)) /\ Append(q, h)[i] = q[i]
    OBVIOUS
  <2> QED BY <1>1, <2>1, <2>2
<1>2. CASE p2[c] # p[c]
  <2>1. h.call = c /\ h.what = HandlerAt[p2[c]]
    BY <1>2
  <2>2. h = Handler(c, HandlerAt[p2[c]])
    BY <2>1 DEF Handlers, Handler
  <2>3. Len(q) + 1 \in 1..Len(Append(q, h)) /\ Append(q, h)[Len(q) + 1] = h
    OBVIOUS
  <2> QED BY <2>2, <2>3
<1> QED BY <1>1, <1>2

\* Calls may leave their places without a handler.
LEMMA ServedMove ==
    ASSUME NEW q, NEW p, NEW p2, WellServed(q, p),
           \A d \in Calls : p2[d] \in DOMAIN HandlerAt => p2[d] = p[d]
    PROVE  WellServed(q, p2)
BY DEF WellServed

LEMMA ServedStep ==
    ASSUME TypeOK, Queued, Counted, WellServed(strandq, pc), [Next]_vars
    PROVE  WellServed(strandq', pc')
<1> USE DEF callVars, eventVars, cleanupVars, storeVars
<1>0. strandq \in Seq(Handlers) /\ pc \in [Calls -> Locations]
  BY DEF TypeOK, Handlers
<1>a. ASSUME NEW c \in Calls, NEW w \in {"request", "rejected", "event", "closing"}
      PROVE  Handler(c, w) \in Handlers /\ Handler(c, w).call = c /\ Handler(c, w).what = w
  BY DEF Handler, Handlers
<1>1. ASSUME NEW c \in Calls, Request(c) PROVE WellServed(strandq', pc')
  <2>1. /\ strandq' = Append(strandq, Handler(c, "request")) /\ pc'[c] = "called"
        /\ \A d \in Calls : d # c => pc'[d] = pc[d]
    BY <1>0, <1>1 DEF Request, Move
  <2>2. pc'[c] \in DOMAIN HandlerAt /\ HandlerAt[pc'[c]] = "request"
    BY <2>1 DEF HandlerAt
  <2>3. PICK h \in Handlers : h = Handler(c, "request") /\ h.call = c /\ h.what = "request"
    BY <1>a
  <2> QED BY ONLY <1>0, <2>1, <2>2, <2>3, WellServed(strandq, pc), ServedAppend
<1>2. ASSUME NEW c \in Calls, OnStrand(c) PROVE WellServed(strandq', pc')
  <2>1. CASE UpdateWithoutList(c)
    BY <2>1 DEF UpdateWithoutList
  <2>2. CASE NotFound(c) \/ AnswerRejected(c) \/ StartTransaction(c) \/ Closing(c)
             \/ ListDevices(c)
    <3>1. /\ strandq # <<>> /\ Head(strandq).call = c /\ strandq' = Tail(strandq)
      <4>1. \E w \in {"request", "rejected", "closing"} : Runs(c, w)
        BY <2>2 DEF NotFound, AnswerRejected, StartTransaction, Closing, ListDevices
      <4>2. strandq # <<>> /\ Head(strandq).call = c
        BY <4>1 DEF Runs, Handler
      <4>3. strandq' = Tail(strandq)
        BY <2>2 DEF NotFound, AnswerRejected, StartTransaction, Closing, ListDevices
      <4> QED BY <4>2, <4>3
    <3>2. /\ pc'[c] \in {"ended", "transacting", "listing"}
          /\ \A d \in Calls : d # c => pc'[d] = pc[d]
      BY <1>0, <2>2 DEF NotFound, AnswerRejected, StartTransaction, Closing, ListDevices,
                        Move, Close
    <3>3. pc'[c] \notin DOMAIN HandlerAt
      BY <3>2 DEF HandlerAt
    <3> QED BY <1>0, <3>1, <3>2, <3>3, ServedTail
  <2>3. CASE Reject(c)
    <3>1. /\ strandq # <<>> /\ Head(strandq).call = c
          /\ strandq' = Append(Tail(strandq), Handler(c, "rejected"))
          /\ pc'[c] = "rejected" /\ \A d \in Calls : d # c => pc'[d] = pc[d]
      BY <1>0, <2>3 DEF Reject, Runs, Handler, Move
    <3> DEFINE p == [pc EXCEPT ![c] = "ended"]
    <3>2. /\ p[c] = "ended" /\ p[c] \notin DOMAIN HandlerAt
          /\ \A d \in Calls : d # c => p[d] = pc[d]
      BY <1>0 DEF HandlerAt
    <3>3. pc'[c] \in DOMAIN HandlerAt /\ HandlerAt[pc'[c]] = "rejected"
      BY <3>1 DEF HandlerAt
    <3>4. Tail(strandq) \in Seq(Handlers)
      BY <1>0, <3>1
    <3> HIDE DEF p
    <3>5. WellServed(Tail(strandq), p)
      BY <1>0, <3>1, <3>2, ServedTail
    <3>6. PICK h \in Handlers : h = Handler(c, "rejected") /\ h.call = c /\ h.what = "rejected"
      BY <1>a
    <3>7. \A d \in Calls : d # h.call => pc'[d] = p[d]
      BY <3>1, <3>2, <3>6
    <3>8. strandq' = Append(Tail(strandq), h)
      BY <3>1, <3>6
    <3>9. pc'[h.call] \in DOMAIN HandlerAt /\ HandlerAt[pc'[h.call]] = h.what
      BY <3>3, <3>6
    <3> DEFINE q == Tail(strandq)
               p2 == pc'
    <3>10. /\ q \in Seq(Handlers) /\ WellServed(q, p)
           /\ \A d \in Calls : d # h.call => p2[d] = p[d]
           /\ p2[h.call] \in DOMAIN HandlerAt /\ HandlerAt[p2[h.call]] = h.what
      BY <3>4, <3>5, <3>7, <3>9
    <3> HIDE DEF q, p2
    <3>11. WellServed(Append(q, h), p2)
      BY ONLY <3>10, ServedAppend
    <3> QED BY <3>8, <3>11 DEF q, p2
  <2>4. CASE DeliverEvent(c) \/ EventWithFreedId(c)
    <3>1. /\ strandq # <<>> /\ Head(strandq).what = "event"
          /\ strandq' = Tail(strandq) /\ pc' = pc
      BY <2>4 DEF DeliverEvent, EventWithFreedId, Runs, Handler
    <3> QED BY <1>0, <3>1, ServedTail
  <2> QED BY <1>2, <2>1, <2>2, <2>3, <2>4 DEF OnStrand
<1>3. ASSUME NEW c \in Calls, Signal(c) PROVE WellServed(strandq', pc')
  <2>1. strandq' = Append(strandq, Handler(c, "event")) /\ pc' = pc
    BY <1>3 DEF Signal
  <2> QED BY <1>0, <1>a, <2>1, ServedAppend
<1>4. ASSUME NEW c \in Calls, TransactionEnds(c) PROVE WellServed(strandq', pc')
  <2>1. /\ strandq' = Append(strandq, Handler(c, "closing")) /\ pc'[c] = "closing"
        /\ \A d \in Calls : d # c => pc'[d] = pc[d]
    BY <1>0, <1>4 DEF TransactionEnds, Move
  <2>2. pc'[c] \in DOMAIN HandlerAt /\ HandlerAt[pc'[c]] = "closing"
    BY <2>1 DEF HandlerAt
  <2>3. PICK h \in Handlers : h = Handler(c, "closing") /\ h.call = c /\ h.what = "closing"
    BY <1>a
  <2> QED BY ONLY <1>0, <2>1, <2>2, <2>3, WellServed(strandq, pc), ServedAppend
<1>5. ASSUME NEW c \in Calls, DevicesListed(c) PROVE WellServed(strandq', pc')
  <2>1. strandq' = strandq /\ \A d \in Calls : pc'[d] = pc[d] \/ pc'[d] = "cleaning"
    BY <1>0, <1>5 DEF DevicesListed, Move
  <2> QED BY <2>1, ServedMove DEF HandlerAt
<1>6. ASSUME NEW c \in Calls, NEW r \in Resources, DeletionAnswered(c, r)
      PROVE  WellServed(strandq', pc')
  <2>1. strandq' = strandq /\ \A d \in Calls : pc'[d] = pc[d] \/ pc'[d] = "ended"
    BY <1>0, <1>6 DEF DeletionAnswered, Close
  <2> QED BY <2>1, ServedMove DEF HandlerAt
<1>7. ASSUME NEW a \in AppIds,
             \/ SetupTransactionEventChannel(a) \/ Listen(a) \/ Cancel(a)
             \/ \E r \in Resources : PermissionStored(a, r)
      PROVE WellServed(strandq', pc')
  BY <1>7 DEF SetupTransactionEventChannel, Listen, Cancel, PermissionStored
<1>8. CASE UNCHANGED vars
  BY <1>8 DEF vars
<1> QED BY <1>1, <1>2, <1>3, <1>4, <1>5, <1>6, <1>7, <1>8 DEF Next, OnReply

LEMMA EndedStep ==
    ASSUME TypeOK, Queued, Counted, Answered, EndedAnswered, [Next]_vars
    PROVE  EndedAnswered'
<1> USE DEF callVars, eventVars, cleanupVars, storeVars
<1>0. pc \in [Calls -> Locations] /\ answer \in [Calls -> Seq(BOOLEAN)]
  BY DEF TypeOK
\* A call is answered as it ends.
<1>1. ASSUME NEW c \in Calls, NEW result \in BOOLEAN, Running, pc[c] # "ended",
             Call(c, result), \A d \in Calls : d # c => pc'[d] = pc[d]
      PROVE  EndedAnswered'
  <2>1. answer[c] = <<>> /\ answer' = [answer EXCEPT ![c] = Append(answer[c], result)]
    BY <1>1 DEF Answered, Call
  <2>2. Len(answer'[c]) = 1
    BY <1>0, <2>1
  <2> QED BY <1>0, <1>1, <2>1, <2>2 DEF EndedAnswered
<1>2. ASSUME answer' = answer, Running, \A d \in Calls : pc'[d] = "ended" => pc[d] = "ended"
      PROVE  EndedAnswered'
  BY <1>2 DEF EndedAnswered
<1>3. ASSUME NEW c \in Calls, OnStrand(c) PROVE EndedAnswered'
  <2>0. Running
    BY <1>3 DEF OnStrand, NotFound, UpdateWithoutList, Reject, AnswerRejected,
                StartTransaction, DeliverEvent, EventWithFreedId, Closing,
                ListDevices, Runs
  <2>1. CASE NotFound(c) \/ AnswerRejected(c)
    BY <1>0, <1>1, <2>0, <2>1 DEF NotFound, AnswerRejected, Move
  <2>2. CASE UpdateWithoutList(c)
    BY <2>2 DEF UpdateWithoutList, EndedAnswered, Running
  <2>3. CASE Closing(c)
    <3>1. pc[c] = "closing"
      BY <2>3, HeadOfQueue DEF Closing, Awaits
    <3>2. (c \in success) \in BOOLEAN
      OBVIOUS
    <3>3. PICK result \in BOOLEAN : Close(c, result)
      BY <2>3, <3>2 DEF Closing
    <3>4. Call(c, result) /\ \A d \in Calls : d # c => pc'[d] = pc[d]
      BY <1>0, <3>3 DEF Close
    <3> QED BY <1>1, <2>0, <3>1, <3>4
  <2>4. CASE Reject(c) \/ StartTransaction(c) \/ ListDevices(c)
    BY <1>0, <1>2, <2>0, <2>4 DEF Reject, StartTransaction, ListDevices, Move
  <2>5. CASE DeliverEvent(c) \/ EventWithFreedId(c)
    BY <1>2, <2>0, <2>5 DEF DeliverEvent, EventWithFreedId
  <2> QED BY <1>3, <2>1, <2>2, <2>3, <2>4, <2>5 DEF OnStrand
<1>4. ASSUME NEW c \in Calls, Request(c) \/ Signal(c) \/ TransactionEnds(c) \/ DevicesListed(c)
      PROVE  EndedAnswered'
  BY <1>0, <1>2, <1>4 DEF Request, Signal, TransactionEnds, DevicesListed, Move
<1>5. ASSUME NEW c \in Calls, NEW r \in Resources, DeletionAnswered(c, r)
      PROVE  EndedAnswered'
  <2>1. CASE LastReply(c)
    <3>1. pc[c] = "cleaning" /\ Close(c, TRUE) /\ Running
      BY <1>5, <2>1 DEF DeletionAnswered, Counted
    <3>2. Call(c, TRUE) /\ \A d \in Calls : d # c => pc'[d] = pc[d]
      BY <1>0, <3>1 DEF Close
    <3> QED BY <1>1, <3>1, <3>2
  <2>2. CASE ~LastReply(c)
    BY <1>2, <1>5, <2>2 DEF DeletionAnswered
  <2> QED BY <2>1, <2>2
<1>6. ASSUME NEW a \in AppIds,
             \/ SetupTransactionEventChannel(a) \/ Listen(a) \/ Cancel(a)
             \/ \E r \in Resources : PermissionStored(a, r)
      PROVE EndedAnswered'
  BY <1>2, <1>6 DEF SetupTransactionEventChannel, Listen, Cancel, PermissionStored
<1>7. CASE UNCHANGED vars
  BY <1>7 DEF vars, EndedAnswered, Running
<1> QED BY <1>3, <1>4, <1>5, <1>6, <1>7, <1>1 DEF Next, OnReply

\* No call is forgotten, in whatever order rejections, transactions and the replies
\* of the store come: one without an answer has a handler posted, a transaction
\* running, or a reply to come (flatpak_shim.cc, ApplicationUninstall and
\* ApplicationUpdate; permissions_portal.cc:466-479).
THEOREM NoCallIsLost == Spec => []NoCallLost
<1>1. Init => WellServed(strandq, pc) /\ EndedAnswered
  BY DEF Init, WellServed, EndedAnswered, HandlerAt
<1>2. IInv /\ WellServed(strandq, pc) /\ EndedAnswered /\ [Next]_vars
          => WellServed(strandq, pc)' /\ EndedAnswered'
  <2> SUFFICES ASSUME IInv, WellServed(strandq, pc), EndedAnswered, [Next]_vars
               PROVE  WellServed(strandq', pc') /\ EndedAnswered'
    BY DEF WellServed
  <2> QED BY ServedStep, EndedStep DEF IInv
<1>3. IInv /\ WellServed(strandq, pc) /\ EndedAnswered => NoCallLost
  <2> SUFFICES ASSUME IInv, WellServed(strandq, pc), EndedAnswered, Running,
                      NEW c \in Calls, pc[c] \notin {"idle", "transacting", "listing"}
               PROVE  \/ Len(answer[c]) = 1
                      \/ pc[c] \in DOMAIN HandlerAt
                           /\ \E i \in 1..Len(strandq) :
                                 strandq[i] = Handler(c, HandlerAt[pc[c]])
                      \/ pc[c] = "cleaning" /\ deleting[c] # {}
    BY DEF NoCallLost
  <2>1. pc[c] \in {"ended", "cleaning"} \/ pc[c] \in DOMAIN HandlerAt
    BY DEF IInv, TypeOK, Locations, HandlerAt
  <2> QED BY <2>1 DEF IInv, Counted, EndedAnswered, WellServed
<1> QED BY <1>1, <1>2, <1>3, Invariant, PTL DEF Spec

=============================================================================
