------------------------- MODULE InstallQueueProofs -------------------------
(* Theorems about InstallQueue, for any calls, applications and disk. *)
EXTENDS InstallQueue, FiniteSetTheorems, TLAPS

USE InstallAssumption, MaxBytesAssumption

-----------------------------------------------------------------------------
(* The two queues. *)

LEMMA HandlerTypes ==
    ASSUME NEW a \in AppIds, NEW n \in 0..MaxBytes
    PROVE  /\ TrackOperationStart(a) \in Handler
           /\ SetOperationSize(a, n) \in Handler
           /\ SendOperationFinish(a) \in Handler
           /\ ClearOperation(a) \in Handler
BY DEF TrackOperationStart, SetOperationSize, SendOperationFinish,
       ClearOperation, Handler, HandlerNames

LEMMA StrandHandlerTypes ==
    ASSUME NEW c \in Calls, NEW f \in BOOLEAN,
           NEW r \in {"ok", "error", "setup2_error"}
    PROVE  /\ StartHandler(c) \in StrandHandler
           /\ ClosingHandler(c, f, r) \in StrandHandler
BY DEF StartHandler, ClosingHandler, StrandHandler, Closings, NoClosing

Answers == {"ok", "error", "setup2_error"}

\* The two ways a closing handler is posted.
LEMMA ReturnType ==
    ASSUME TypeOK, NEW c \in Calls, NEW f \in BOOLEAN, NEW r \in Answers,
           StartsOnStrand(c), Return(c, f, r)
    PROVE  pc' \in [Calls -> Locations] /\ strandq' \in Seq(StrandHandler)
<1>1. ClosingHandler(c, f, r) \in StrandHandler
  BY StrandHandlerTypes DEF Answers
<1>2. Tail(strandq) \in Seq(StrandHandler)
  BY DEF TypeOK, StartsOnStrand
<1>3. strandq' \in Seq(StrandHandler)
  BY <1>1, <1>2 DEF Return
<1> QED BY <1>3 DEF Return, TypeOK, Locations

LEMMA PostClosingType ==
    ASSUME TypeOK, NEW c \in Calls, NEW f \in BOOLEAN, NEW r \in Answers,
           PostClosing(c, f, r)
    PROVE  pc' \in [Calls -> Locations] /\ strandq' \in Seq(StrandHandler)
<1>1. ClosingHandler(c, f, r) \in StrandHandler
  BY StrandHandlerTypes DEF Answers
<1>2. strandq' \in Seq(StrandHandler)
  BY <1>1 DEF PostClosing, TypeOK
<1> QED BY <1>2 DEF PostClosing, TypeOK, Locations

LEMMA FetchType ==
    ASSUME TypeOK, NEW c \in Calls, NEW n \in Nat, NEW r \in 0..MaxBytes,
           Fetch(c, n, r)
    PROVE  free' \in Nat /\ left' \in [Calls -> 0..MaxBytes]
BY DEF Fetch, TypeOK

\* What running the handler at the head of the io_context's queue keeps.
LEMMA RunHandlerType ==
    ASSUME TrackerTypeOK, RunHandler
    PROVE  TrackerTypeOK'
<1> DEFINE h == Head(posted)
<1>1. h \in Handler /\ posted' \in Seq(Handler)
  BY DEF TrackerTypeOK, RunHandler
<1>2. CASE RunTrackOperationStart(h)
  BY <1>1, <1>2 DEF TrackerTypeOK, RunTrackOperationStart, Assign, Tracked, Handler
<1>3. CASE RunSetOperationSize(h)
  BY <1>1, <1>3 DEF TrackerTypeOK, RunSetOperationSize, Assign, Tracked, Handler
<1>4. CASE RunRemoval(h)
  BY <1>1, <1>4 DEF TrackerTypeOK, RunRemoval, Erase, Tracked, Handler
<1>5. CASE RunIgnored(h)
  BY <1>1, <1>5 DEF TrackerTypeOK, RunIgnored, Tracked, tracked
<1> QED BY <1>2, <1>3, <1>4, <1>5 DEF RunHandler

-----------------------------------------------------------------------------
(* Type correctness. *)

LEMMA TypeInit == Init => TypeOK
BY DEF Init, TypeOK, TrackerInit, TrackerTypeOK, Tracked, Locations

LEMMA TypeStep == TypeOK /\ [Next]_vars => TypeOK'
<1> SUFFICES ASSUME TypeOK, [Next]_vars PROVE TypeOK'
  OBVIOUS
<1>1. CASE RunPosted
  BY <1>1, RunHandlerType DEF TypeOK, RunPosted, callVars, diskVars
<1>2. ASSUME NEW c \in Calls, OnStrand(c) PROVE TypeOK'
  <2> USE <1>2 DEF TypeOK, TrackerTypeOK, Tracked, trackerVars, tracked, diskVars
  <2>0. AppOf[c] \in AppIds
    OBVIOUS
  <2>1. CASE InstallRejected(c)
    <3>1. pc' \in [Calls -> Locations] /\ strandq' \in Seq(StrandHandler)
      BY <2>1, ReturnType DEF InstallRejected, Answers
    <3> QED BY <2>1, <3>1 DEF InstallRejected
  <2>2. CASE AlreadyInstalled(c)
    <3>1. pc' \in [Calls -> Locations] /\ strandq' \in Seq(StrandHandler)
      BY <2>2, ReturnType DEF AlreadyInstalled, Answers
    <3> QED BY <2>2, <3>1 DEF AlreadyInstalled
  <2>3. CASE Phase1SetupFails(c)
    <3>1. pc' \in [Calls -> Locations] /\ strandq' \in Seq(StrandHandler)
      BY <2>3, ReturnType DEF Phase1SetupFails, Answers
    <3>2. TrackOperationStart(AppOf[c]) \in Handler
      BY <2>0, HandlerTypes
    <3> QED BY <2>3, <3>1, <3>2 DEF Phase1SetupFails
  <2>4. CASE Phase1Starts(c)
    <3>1. TrackOperationStart(AppOf[c]) \in Handler
      BY <2>0, HandlerTypes
    <3>2. strandq' \in Seq(StrandHandler)
      BY <2>4 DEF Phase1Starts, StartsOnStrand
    <3>3. pc' \in [Calls -> Locations]
      BY <2>4 DEF Phase1Starts, Locations
    <3>4. posted' \in Seq(Handler)
      BY <2>4, <3>1 DEF Phase1Starts
    <3> QED BY <2>4, <3>2, <3>3, <3>4 DEF Phase1Starts
  <2>5. CASE Close(c)
    <3>1. Head(strandq) \in StrandHandler
      BY <2>5 DEF Close
    <3>2. Head(strandq).closing.answer \in {"ok", "error", "setup2_error"}
      BY <3>1 DEF StrandHandler, Closings
    <3>3. posted' \in Seq(Handler)
      BY <2>0, <2>5, HandlerTypes DEF Close
    <3>4. reply' \in [Calls -> {"none", "ok", "error", "setup2_error"}]
      BY <2>5, <3>2 DEF Close
    <3>5. callbacks' \in [Calls -> Nat]
      <4>1. callbacks \in [Calls -> Nat]
        OBVIOUS
      <4>2. callbacks' = [callbacks EXCEPT ![c] = callbacks[c] + 1]
        BY <2>5, <4>1, Zenon DEF Close
      <4>3. callbacks[c] + 1 \in Nat
        BY <4>1
      <4> QED BY <4>1, <4>2, <4>3
    <3>6. strandq' \in Seq(StrandHandler)
      BY <2>5 DEF Close
    <3> QED BY <2>5, <3>3, <3>4, <3>5, <3>6 DEF Close
  <2> QED BY <1>2, <2>1, <2>2, <2>3, <2>4, <2>5 DEF OnStrand, ApplicationInstall
<1>3. ASSUME NEW c \in Calls, Request(c) PROVE TypeOK'
  <2>1. StartHandler(c) \in StrandHandler
    BY StrandHandlerTypes
  <2>2. pc' \in [Calls -> Locations]
    BY <1>3 DEF TypeOK, Request, Move, Locations
  <2>3. strandq' \in Seq(StrandHandler)
    BY <1>3, <2>1 DEF TypeOK, Request
  <2> QED
    BY <1>3, <2>2, <2>3
    DEF TypeOK, TrackerTypeOK, Tracked, Request, trackerVars, tracked, diskVars
<1>4. ASSUME NEW c \in Calls, Thread(c) PROVE TypeOK'
  <2> USE <1>4 DEF TypeOK, TrackerTypeOK, Tracked, trackerVars, tracked, diskVars
  <2>0. AppOf[c] \in AppIds /\ Size[c] \in 0..MaxBytes /\ left[c] \in 0..MaxBytes
    OBVIOUS
  <2>z. /\ 0 \in 0..MaxBytes /\ 0 \in 0..left[c] /\ left[c] \in 0..left[c]
        /\ \A n \in 0..left[c] : n \in Nat /\ n \in 0..MaxBytes
    BY <2>0
  <2>a. ASSUME NEW to \in Locations, pc' = [pc EXCEPT ![c] = to]
        PROVE  pc' \in [Calls -> Locations]
    BY <2>a
  <2>1. CASE MeasureDisk(c)
    BY <2>1, <2>a DEF MeasureDisk, Move, Locations
  <2>2. CASE MeasureFails(c)
    BY <2>2, <2>a DEF MeasureFails, Move, Locations
  <2>3. CASE Admit(c)
    <3>1. SetOperationSize(AppOf[c], Size[c]) \in Handler
      BY <2>0, HandlerTypes
    <3>2. posted' \in Seq(Handler) /\ left' \in [Calls -> 0..MaxBytes]
      BY <2>0, <2>3, <3>1 DEF Admit
    <3>3. pc' \in [Calls -> Locations]
      BY <2>3, <2>a DEF Admit, Move, Locations
    <3> QED BY <2>3, <3>2, <3>3 DEF Admit
  <2>4. CASE Refuse(c)
    <3>1. ClearOperation(AppOf[c]) \in Handler
      BY <2>0, HandlerTypes
    <3>2. posted' \in Seq(Handler)
      BY <2>4, <3>1 DEF Refuse
    <3>3. pc' \in [Calls -> Locations]
      BY <2>4, <2>a DEF Refuse, Move, Locations
    <3> QED BY <2>4, <3>2, <3>3 DEF Refuse
  <2>5. CASE Phase1Fails(c)
    <3>1. PICK n \in 0..left[c] : Fetch(c, n, 0)
      BY <2>5 DEF Phase1Fails
    <3>2. free' \in Nat /\ left' \in [Calls -> 0..MaxBytes]
      BY <2>z, <3>1, FetchType
    <3>3. pc' \in [Calls -> Locations] /\ strandq' \in Seq(StrandHandler)
      BY <2>5, PostClosingType DEF Phase1Fails, Answers
    <3> QED BY <2>5, <3>2, <3>3 DEF Phase1Fails
  <2>6. CASE Phase1Succeeds(c)
    <3>1. PICK n \in 0..left[c], r \in 0..left[c] : Fetch(c, n, r)
      <4>1. CASE Fetch(c, left[c], 0)
        BY <2>z, <4>1
      <4>2. CASE \E n \in 0..left[c] : Fetch(c, n, left[c] - n)
        <5>1. PICK n \in 0..left[c] : Fetch(c, n, left[c] - n)
          BY <4>2
        <5>2. left[c] - n \in 0..left[c]
          BY <2>0
        <5> QED BY <5>1, <5>2
      <4> QED BY <2>6, <4>1, <4>2 DEF Phase1Succeeds
    <3>2. free' \in Nat /\ left' \in [Calls -> 0..MaxBytes]
      BY <2>z, <3>1, FetchType
    <3>3. installed' \subseteq AppIds
      BY <2>0, <2>6 DEF Phase1Succeeds
    <3>4. pc' \in [Calls -> Locations]
      BY <2>6, <2>a DEF Phase1Succeeds, Move, Locations
    <3> QED BY <2>6, <3>2, <3>3, <3>4 DEF Phase1Succeeds
  <2>7. CASE FoundAfterPhase1(c)
    <3>1. pc' \in [Calls -> Locations] /\ strandq' \in Seq(StrandHandler)
      BY <2>7, PostClosingType DEF FoundAfterPhase1, Answers
    <3>2. left' \in [Calls -> 0..MaxBytes]
      BY <2>7, <2>z DEF FoundAfterPhase1
    <3> QED BY <2>7, <3>1, <3>2 DEF FoundAfterPhase1
  <2>8. CASE NotFoundAfterPhase1(c)
    BY <2>8, <2>a DEF NotFoundAfterPhase1, Move, Locations
  <2>9. CASE Phase2SetupFails(c)
    <3>1. pc' \in [Calls -> Locations] /\ strandq' \in Seq(StrandHandler)
      BY <2>9, PostClosingType DEF Phase2SetupFails, Answers
    <3>2. left' \in [Calls -> 0..MaxBytes]
      BY <2>9, <2>z DEF Phase2SetupFails
    <3> QED BY <2>9, <3>1, <3>2 DEF Phase2SetupFails
  <2>10. CASE Phase2Starts(c)
    BY <2>10, <2>a DEF Phase2Starts, Move, Locations
  <2>11. CASE Phase2Fails(c)
    <3>1. PICK n \in 0..left[c] : Fetch(c, n, 0)
      BY <2>11 DEF Phase2Fails
    <3>2. free' \in Nat /\ left' \in [Calls -> 0..MaxBytes]
      BY <2>z, <3>1, FetchType
    <3>3. pc' \in [Calls -> Locations] /\ strandq' \in Seq(StrandHandler)
      BY <2>11, PostClosingType DEF Phase2Fails, Answers
    <3> QED BY <2>11, <3>2, <3>3 DEF Phase2Fails
  <2>12. CASE Phase2Succeeds(c)
    <3>1. PICK n \in 0..left[c] : Fetch(c, n, 0)
      BY <2>z, <2>12 DEF Phase2Succeeds
    <3>2. free' \in Nat /\ left' \in [Calls -> 0..MaxBytes]
      BY <2>z, <3>1, FetchType
    <3>3. installed' \subseteq AppIds
      BY <2>0, <2>12 DEF Phase2Succeeds
    <3>4. pc' \in [Calls -> Locations]
      BY <2>12, <2>a DEF Phase2Succeeds, Move, Locations
    <3> QED BY <2>12, <3>2, <3>3, <3>4 DEF Phase2Succeeds
  <2>13. CASE Verify(c)
    <3>1. pc' \in [Calls -> Locations] /\ strandq' \in Seq(StrandHandler)
      BY <2>13, PostClosingType DEF Verify, Answers
    <3> QED BY <2>13, <3>1 DEF Verify
  <2> QED
    BY <1>4, <2>1, <2>2, <2>3, <2>4, <2>5, <2>6, <2>7, <2>8, <2>9, <2>10,
       <2>11, <2>12, <2>13 DEF Thread
<1>5. ASSUME NEW a \in AppIds, Uninstalled(a) PROVE TypeOK'
  BY <1>5 DEF TypeOK, TrackerTypeOK, Tracked, Uninstalled, trackerVars, callVars
<1>6. CASE UNCHANGED vars
  BY <1>6 DEF TypeOK, TrackerTypeOK, Tracked, vars, trackerVars, callVars, diskVars
<1> QED BY <1>1, <1>2, <1>3, <1>4, <1>5, <1>6 DEF Next

\* Every variable keeps its type; in particular the free space never goes below
\* zero, whatever the transactions fetch.
THEOREM TypeCorrect == Spec => []TypeOK
BY TypeInit, TypeStep, PTL DEF Spec
-----------------------------------------------------------------------------
(* The pending total. *)

\* The pairs of ReservedBytes that an entry of n bytes for a contributes.
Reserves(a, n) == {a} \X (1..n)

LEMMA ReservesCardinality ==
    ASSUME NEW a, NEW n \in Nat
    PROVE  IsFiniteSet(Reserves(a, n)) /\ Cardinality(Reserves(a, n)) = n
<1>1. IsFiniteSet({a}) /\ Cardinality({a}) = 1
  BY FS_Singleton
<1>2. IsFiniteSet(1..n) /\ Cardinality(1..n) = n
  BY FS_Interval
<1>3. /\ IsFiniteSet({a} \X (1..n))
      /\ Cardinality({a} \X (1..n)) = Cardinality({a}) * Cardinality(1..n)
  BY <1>1, <1>2, FS_Product
<1> QED BY <1>1, <1>2, <1>3 DEF Reserves

LEMMA ReservedFinite ==
    ASSUME TrackerTypeOK, IsFiniteSet(Tracked)
    PROVE  IsFiniteSet(ReservedBytes)
<1>1. IsFiniteSet(1..MaxBytes)
  BY FS_Interval
<1>2. IsFiniteSet(Tracked \X (1..MaxBytes))
  BY <1>1, FS_Product
<1>3. ReservedBytes \in SUBSET (Tracked \X (1..MaxBytes))
  BY DEF ReservedBytes, TrackerTypeOK
<1> QED BY <1>2, <1>3, FS_Subset

\* An entry's share of the reserved bytes.
LEMMA EntryShare ==
    ASSUME TrackerTypeOK, NEW a \in Tracked
    PROVE  Reserves(a, active_ops[a]) \subseteq ReservedBytes
BY DEF TrackerTypeOK, Reserves, ReservedBytes

\* Binding a tracked application to n bytes replaces its share.
LEMMA AssignShare ==
    ASSUME TrackerTypeOK, IsFiniteSet(Tracked), NEW a \in Tracked,
           NEW n \in 0..MaxBytes, active_ops' = Assign(a, n)
    PROVE  /\ IsFiniteSet(ReservedBytes')
           /\ Cardinality(ReservedBytes') =
                    Cardinality(ReservedBytes) - active_ops[a] + n
<1> DEFINE Old == Reserves(a, active_ops[a])
           Rest == ReservedBytes \ Old
           New == Reserves(a, n)
<1>1. active_ops[a] \in Nat
  BY DEF TrackerTypeOK
<1>2. ReservedBytes' = Rest \cup New
  <2>1. Tracked' = Tracked
    BY DEF Assign, Tracked
  <2>2. \A x \in Tracked : active_ops'[x] = IF x = a THEN n ELSE active_ops[x]
    BY DEF Assign, Tracked
  <2>3. a \in AppIds
    BY DEF TrackerTypeOK
  <2> QED BY <2>1, <2>2, <2>3 DEF ReservedBytes, Reserves, TrackerTypeOK
<1>3. IsFiniteSet(Rest) /\ Cardinality(Rest) = Cardinality(ReservedBytes) - active_ops[a]
  <2>1. ReservedBytes \cap Old = Old
    BY EntryShare
  <2>2. Cardinality(Old) = active_ops[a]
    BY <1>1, ReservesCardinality
  <2>3. IsFiniteSet(ReservedBytes)
    BY ReservedFinite
  <2>4. /\ IsFiniteSet(ReservedBytes \ Old)
        /\ Cardinality(ReservedBytes \ Old) =
                Cardinality(ReservedBytes) - Cardinality(ReservedBytes \cap Old)
    BY <2>3, FS_Difference
  <2> QED BY <2>1, <2>2, <2>4
<1>4. Rest \cap New = {}
  BY <1>1 DEF Reserves, ReservedBytes, TrackerTypeOK
<1>5. IsFiniteSet(New) /\ Cardinality(New) = n
  BY ReservesCardinality
<1>6. /\ IsFiniteSet(Rest \cup New)
      /\ Cardinality(Rest \cup New) =
            Cardinality(Rest) + Cardinality(New) - Cardinality(Rest \cap New)
  BY <1>3, <1>5, FS_Union
<1>7. Cardinality(ReservedBytes) \in Nat
  BY ReservedFinite, FS_CardinalityType
<1>8. Cardinality(Rest \cap New) = 0
  BY <1>4, FS_EmptySet
<1> HIDE DEF Rest, New
<1> QED BY <1>1, <1>2, <1>3, <1>5, <1>6, <1>7, <1>8

\* Erasing an entry removes its share.
LEMMA EraseShare ==
    ASSUME TrackerTypeOK, IsFiniteSet(Tracked), NEW a \in Tracked,
           active_ops' = Erase(a)
    PROVE  Cardinality(ReservedBytes') = Cardinality(ReservedBytes) - active_ops[a]
<1> DEFINE Old == Reserves(a, active_ops[a])
<1>1. active_ops[a] \in Nat
  BY DEF TrackerTypeOK
<1>2. ReservedBytes' = ReservedBytes \ Old
  <2>1. Tracked' = Tracked \ {a}
    BY DEF Erase, Tracked
  <2>2. \A x \in Tracked' : active_ops'[x] = active_ops[x]
    BY DEF Erase, Tracked
  <2> QED BY <2>1, <2>2 DEF ReservedBytes, Reserves, TrackerTypeOK
<1>3. ReservedBytes \cap Old = Old
  BY EntryShare
<1>4. Cardinality(Old) = active_ops[a]
  BY <1>1, ReservesCardinality
<1>5. IsFiniteSet(ReservedBytes)
  BY ReservedFinite
<1>6. Cardinality(ReservedBytes \ Old) =
            Cardinality(ReservedBytes) - Cardinality(ReservedBytes \cap Old)
  BY <1>5, FS_Difference
<1> QED BY <1>2, <1>3, <1>4, <1>6

\* A fresh entry reserves nothing.
LEMMA StartShare ==
    ASSUME TrackerTypeOK, NEW a \in AppIds, a \notin Tracked,
           active_ops' = Assign(a, 0)
    PROVE  ReservedBytes' = ReservedBytes
<1>1. Tracked' = Tracked \cup {a}
  BY DEF Assign, Tracked
<1>2. \A x \in Tracked' : active_ops'[x] = IF x = a THEN 0 ELSE active_ops[x]
  BY DEF Assign, Tracked
<1> QED BY <1>1, <1>2 DEF ReservedBytes, TrackerTypeOK

-----------------------------------------------------------------------------
(* What posted starts find, as long as an application is installed once.    *)

\* The application of no started call is neither tracked nor posted for.
NoneStarted(a) == \A c \in Calls : AppOf[c] = a => ~Started(c)

Untouched ==
    \A a \in AppIds :
        NoneStarted(a) =>
            /\ a \notin Tracked
            /\ \A i \in 1..Len(posted) : posted[i].app # a

\* A posted start finds no entry and no earlier handler of its application.
StartsLead ==
    \A i \in 1..Len(posted) :
        posted[i].fn = "TrackOperationStart" /\ Alone(posted[i].app) =>
            /\ posted[i].app \notin Tracked
            /\ \A j \in 1..(i - 1) : posted[j].app # posted[i].app

\* Only calls that have started are closed.
ClosedHaveStarted ==
    \A i \in 1..Len(strandq) :
        ~strandq[i].start => Started(strandq[i].call)

\* The inductive invariant behind TotalIsSumOfEntries.
Accounting ==
    /\ TypeOK
    /\ IsFiniteSet(Tracked)
    /\ Untouched
    /\ StartsLead
    /\ ClosedHaveStarted
    /\ TotalIsSumOfEntries

\* As calls only go on to start, none had started before if none has now, and
\* no second one had.
LEMMA FewerStarted ==
    ASSUME \A c \in Calls : Started(c) => Started(c)', NEW a
    PROVE  /\ NoneStarted(a)' => NoneStarted(a)
           /\ Alone(a)' => Alone(a)
BY DEF NoneStarted, Alone

\* A step that posts nothing to the io_context and starts no call anew.
LEMMA QuietStep ==
    ASSUME Untouched, StartsLead, UNCHANGED trackerVars,
           \A c \in Calls : Started(c) => Started(c)'
    PROVE  Untouched' /\ StartsLead'
<1>1. /\ posted' = posted /\ Tracked' = Tracked
      /\ \A a : (NoneStarted(a)' => NoneStarted(a)) /\ (Alone(a)' => Alone(a))
  BY FewerStarted DEF trackerVars, Tracked
<1>2. Untouched'
  BY <1>1 DEF Untouched
<1>3. StartsLead'
  BY <1>1 DEF StartsLead
<1> QED BY <1>2, <1>3

\* A step of c that posts h, which is the first handler for its application or
\* no TrackOperationStart.
LEMMA PostStep ==
    ASSUME TypeOK, Untouched, StartsLead,
           NEW c \in Calls, NEW h \in Handler,
           posted' = Append(posted, h), h.app = AppOf[c],
           UNCHANGED active_ops,
           \A d \in Calls : Started(d) => Started(d)',
           Started(c)',
           h.fn = "TrackOperationStart" => ~Started(c)
    PROVE  Untouched' /\ StartsLead'
<1>1. /\ posted \in Seq(Handler) /\ Len(posted') = Len(posted) + 1
      /\ Len(posted) \in Nat
      /\ \A i \in 1..Len(posted) : posted'[i] = posted[i]
      /\ posted'[Len(posted) + 1] = h
  BY DEF TypeOK, TrackerTypeOK
<1>2. Tracked' = Tracked
  BY DEF Tracked
<1>3. Untouched'
  <2> SUFFICES ASSUME NEW a \in AppIds, NoneStarted(a)'
               PROVE  /\ a \notin Tracked
                      /\ \A i \in 1..Len(posted') : posted'[i].app # a
    BY <1>2 DEF Untouched
  <2>1. NoneStarted(a)
    BY FewerStarted
  <2>2. h.app # a
    BY DEF NoneStarted
  <2> QED BY <1>1, <2>1, <2>2 DEF Untouched
<1>4. StartsLead'
  <2> SUFFICES ASSUME NEW i \in 1..Len(posted'),
                      posted'[i].fn = "TrackOperationStart", Alone(posted[i].app)'
               PROVE  /\ posted'[i].app \notin Tracked
                      /\ \A j \in 1..(i - 1) : posted'[j].app # posted'[i].app
    BY <1>2 DEF StartsLead
  <2>0. PICK a : a = posted'[i].app
    OBVIOUS
  <2>1. CASE i \in 1..Len(posted)
    <3>1. Alone(a)
      <4>1. Alone(a)'
        BY <2>0 DEF Alone
      <4> QED BY <4>1, FewerStarted
    <3> QED BY <1>1, <2>0, <2>1, <3>1 DEF StartsLead
  <2>2. CASE i = Len(posted) + 1
    <3>1. a = AppOf[c] /\ ~Started(c)
      BY <1>1, <2>0, <2>2
    <3>2. NoneStarted(a)
      <4>1. Alone(a)'
        BY <2>0 DEF Alone
      <4> QED BY <3>1, <4>1 DEF NoneStarted, Alone
    <3>3. a \in AppIds
      BY <3>1
    <3> QED BY <1>1, <2>0, <2>2, <3>2, <3>3 DEF Untouched
  <2> QED BY <1>1, <2>1, <2>2
<1> QED BY <1>3, <1>4

\* Running the handler at the head of the io_context's queue.
LEMMA RunStep ==
    ASSUME Accounting, RunPosted
    PROVE  Accounting'
<1> DEFINE h == Head(posted)
<1>1. /\ h \in Handler /\ h = posted[1] /\ Len(posted) >= 1
      /\ posted \in Seq(Handler) /\ Len(posted') = Len(posted) - 1
      /\ \A i \in 1..Len(posted') : posted'[i] = posted[i + 1]
  BY DEF Accounting, TypeOK, TrackerTypeOK, RunPosted, RunHandler
<1>2. Tracked' \subseteq Tracked \cup {h.app}
  BY DEF RunPosted, RunHandler, RunTrackOperationStart, RunSetOperationSize,
         RunRemoval, RunIgnored, Assign, Erase, Tracked, tracked
<1>3. h.fn # "TrackOperationStart" => Tracked' \subseteq Tracked
  BY DEF RunPosted, RunHandler, RunTrackOperationStart, RunSetOperationSize,
         RunRemoval, RunIgnored, Assign, Erase, Tracked, tracked
<1>4. TypeOK'
  BY RunHandlerType DEF Accounting, TypeOK, RunPosted, callVars, diskVars
<1>s. \A a : (NoneStarted(a)' <=> NoneStarted(a)) /\ (Alone(a)' <=> Alone(a))
  BY DEF RunPosted, callVars, NoneStarted, Alone, Started
<1>5. Untouched'
  <2> SUFFICES ASSUME NEW a \in AppIds, NoneStarted(a)
               PROVE  /\ a \notin Tracked'
                      /\ \A i \in 1..Len(posted') : posted'[i].app # a
    BY <1>s DEF Untouched
  <2>1. /\ a \notin Tracked
        /\ \A i \in 1..Len(posted) : posted[i].app # a
    BY DEF Accounting, Untouched
  <2>2. a # h.app
    BY <1>1, <2>1
  <2>3. a \notin Tracked'
    BY <1>2, <2>1, <2>2
  <2>4. ASSUME NEW i \in 1..Len(posted') PROVE posted'[i].app # a
    <3>1. i + 1 \in 1..Len(posted)
      BY <1>1
    <3> QED BY <1>1, <2>1, <3>1
  <2> QED BY <2>3, <2>4
<1>6. StartsLead'
  <2> SUFFICES ASSUME NEW i \in 1..Len(posted'),
                      posted'[i].fn = "TrackOperationStart", Alone(posted[i].app)'
               PROVE  /\ posted'[i].app \notin Tracked'
                      /\ \A j \in 1..(i - 1) : posted'[j].app # posted'[i].app
    BY DEF StartsLead
  <2>3. posted'[i] = posted[i + 1] /\ i + 1 \in 1..Len(posted)
    BY <1>1
  <2>0. Alone(posted[i + 1].app)
    <3>1. PICK a : a = posted'[i].app
      OBVIOUS
    <3>2. Alone(a)'
      BY <3>1 DEF Alone
    <3> QED BY <1>s, <2>3, <3>1, <3>2
  <2>1. /\ posted[i + 1].app \notin Tracked
        /\ \A j \in 1..i : posted[j].app # posted[i + 1].app
    BY <1>1, <2>0, <2>3 DEF Accounting, StartsLead
  <2>2. posted[1].app # posted[i + 1].app
    BY <2>1
  <2>4. posted'[i].app \notin Tracked'
    BY <1>1, <1>2, <2>1, <2>2, <2>3
  <2>5. ASSUME NEW j \in 1..(i - 1) PROVE posted'[j].app # posted'[i].app
    <3>1. j \in 1..Len(posted') /\ j + 1 \in 1..i
      BY <1>1
    <3>2. posted'[j] = posted[j + 1]
      BY <1>1, <3>1
    <3> QED BY <2>1, <2>3, <3>1, <3>2
  <2> QED BY <2>4, <2>5
<1>7. ClosedHaveStarted'
  BY DEF Accounting, RunPosted, callVars, ClosedHaveStarted, Started
<1>8. IsFiniteSet(Tracked')
  <2>1. IsFiniteSet(Tracked \cup {h.app})
    BY FS_AddElement DEF Accounting
  <2> QED BY <1>2, <2>1, FS_Subset
<1>9. /\ total_pending_bytes' = Cardinality(ReservedBytes') + lost'
      /\ replaced' = {} => lost' = 0
      /\ \A a \in replaced' : ~Alone(a)
  <2>0. /\ TrackerTypeOK /\ IsFiniteSet(Tracked)
        /\ total_pending_bytes = Cardinality(ReservedBytes) + lost
        /\ replaced = {} => lost = 0
        /\ \A a \in replaced : ~Alone(a)
    BY DEF Accounting, TypeOK, TotalIsSumOfEntries
  <2>n. /\ Cardinality(ReservedBytes) \in Nat /\ lost \in Nat
        /\ \A a \in Tracked : active_ops[a] \in Nat
        /\ h.app \in AppIds /\ h.bytes \in 0..MaxBytes
    BY <1>1, <2>0, ReservedFinite, FS_CardinalityType DEF TrackerTypeOK, Handler
  <2>1. CASE RunTrackOperationStart(h)
    <3>1. CASE h.app \in Tracked
      <4>1. Cardinality(ReservedBytes') = Cardinality(ReservedBytes) - active_ops[h.app] + 0
        BY <2>0, <2>1, <3>1, AssignShare DEF RunTrackOperationStart
      <4>2. ~Alone(h.app)
        BY <1>1, <2>1, <3>1 DEF Accounting, StartsLead, RunTrackOperationStart
      <4>3. /\ total_pending_bytes' = total_pending_bytes
            /\ lost' = lost + active_ops[h.app]
            /\ replaced' = replaced \cup {h.app}
        BY <2>1, <3>1 DEF RunTrackOperationStart
      <4> QED BY <2>0, <2>n, <3>1, <4>1, <4>2, <4>3
    <3>2. CASE h.app \notin Tracked
      <4>1. ReservedBytes' = ReservedBytes
        BY <2>0, <2>1, <2>n, <3>2, StartShare DEF RunTrackOperationStart
      <4> QED BY <2>0, <2>1, <3>2, <4>1 DEF RunTrackOperationStart
    <3> QED BY <3>1, <3>2
  <2>2. CASE RunSetOperationSize(h)
    <3>1. Cardinality(ReservedBytes') =
             Cardinality(ReservedBytes) - active_ops[h.app] + h.bytes
      BY <2>0, <2>2, <2>n, AssignShare DEF RunSetOperationSize
    <3>2. /\ total_pending_bytes' = total_pending_bytes - active_ops[h.app] + h.bytes
          /\ UNCHANGED <<lost, replaced>> /\ active_ops[h.app] \in Nat /\ h.bytes \in Nat
      BY <2>2, <2>n DEF RunSetOperationSize
    <3> QED BY <2>0, <2>n, <3>1, <3>2
  <2>3. CASE RunRemoval(h)
    <3>1. Cardinality(ReservedBytes') =
             Cardinality(ReservedBytes) - active_ops[h.app]
      BY <2>0, <2>3, EraseShare DEF RunRemoval
    <3>2. /\ total_pending_bytes' = total_pending_bytes - active_ops[h.app]
          /\ UNCHANGED <<lost, replaced>> /\ active_ops[h.app] \in Nat
      BY <2>3, <2>n DEF RunRemoval
    <3> QED BY <2>0, <2>n, <3>1, <3>2
  <2>4. CASE RunIgnored(h)
    BY <2>0, <2>4 DEF RunIgnored, tracked, ReservedBytes, Tracked
  <2> QED BY <2>1, <2>2, <2>3, <2>4 DEF RunPosted, RunHandler
<1>10. TotalIsSumOfEntries'
  BY <1>9, <1>s DEF TotalIsSumOfEntries
<1> QED BY <1>4, <1>5, <1>6, <1>7, <1>8, <1>10 DEF Accounting

\* What a step other than the io_context's leaves of Accounting, given what
\* posted starts find.
LEMMA AccountingKept ==
    ASSUME Accounting, TypeOK', UNCHANGED tracked,
           \A c \in Calls : Started(c) => Started(c)',
           Untouched', StartsLead', ClosedHaveStarted'
    PROVE  Accounting'
<1>1. Tracked' = Tracked /\ ReservedBytes' = ReservedBytes
  BY DEF Tracked, ReservedBytes, tracked
<1>2. \A a : Alone(a)' => Alone(a)
  BY FewerStarted
<1>3. TotalIsSumOfEntries'
  BY <1>1, <1>2 DEF Accounting, TotalIsSumOfEntries, tracked
<1> QED BY <1>1, <1>3 DEF Accounting

\* Handlers of the strand belong to calls.
LEMMA StrandCalls ==
    ASSUME strandq \in Seq(StrandHandler), NEW i \in 1..Len(strandq)
    PROVE  strandq[i].call \in Calls
<1>1. strandq[i] \in StrandHandler
  OBVIOUS
<1> QED BY <1>1 DEF StrandHandler

\* The strand's queue after one of its ends has changed: every handler left is
\* an old one, or h.
LEMMA StrandStep ==
    ASSUME ClosedHaveStarted, strandq \in Seq(StrandHandler),
           NEW h \in StrandHandler, h.start \/ Started(h.call)',
           \A c \in Calls : Started(c) => Started(c)',
           \A i \in 1..Len(strandq') :
              \/ strandq'[i] = h
              \/ \E j \in 1..Len(strandq) : strandq'[i] = strandq[j]
    PROVE  ClosedHaveStarted'
<1> SUFFICES ASSUME NEW i \in 1..Len(strandq'), ~strandq'[i].start
             PROVE  pc'[strandq'[i].call] \notin {"idle", "dispatched"}
  BY DEF ClosedHaveStarted, Started
<1>1. CASE strandq'[i] = h
  BY <1>1 DEF Started
<1>2. CASE \E j \in 1..Len(strandq) : strandq'[i] = strandq[j]
  <2>1. PICK j \in 1..Len(strandq) : strandq'[i] = strandq[j]
    BY <1>2
  <2>2. Started(strandq[j].call) /\ strandq[j].call \in Calls
    BY <2>1, StrandCalls DEF ClosedHaveStarted
  <2> QED BY <2>1, <2>2 DEF Started
<1> QED BY <1>1, <1>2

LEMMA StrandSame ==
    ASSUME ClosedHaveStarted, strandq \in Seq(StrandHandler),
           \A c \in Calls : Started(c) => Started(c)', UNCHANGED strandq
    PROVE  ClosedHaveStarted'
BY StrandCalls DEF ClosedHaveStarted, Started

LEMMA AppendIndex ==
    ASSUME NEW S, NEW s \in Seq(S), NEW h \in S, NEW i \in 1..Len(Append(s, h))
    PROVE  \/ Append(s, h)[i] = h
           \/ i \in 1..Len(s) /\ Append(s, h)[i] = s[i]
OBVIOUS

LEMMA AppendElements ==
    ASSUME strandq \in Seq(StrandHandler), NEW h \in StrandHandler,
           \/ strandq' = strandq
           \/ strandq' = Append(strandq, h)
           \/ strandq # <<>> /\ strandq' = Tail(strandq)
           \/ strandq # <<>> /\ strandq' = Append(Tail(strandq), h)
    PROVE  \A i \in 1..Len(strandq') :
              \/ strandq'[i] = h
              \/ \E j \in 1..Len(strandq) : strandq'[i] = strandq[j]
<1> SUFFICES ASSUME NEW i \in 1..Len(strandq')
             PROVE  \/ strandq'[i] = h
                    \/ \E j \in 1..Len(strandq) : strandq'[i] = strandq[j]
  OBVIOUS
<1>1. CASE strandq' = strandq
  BY <1>1
<1>2. CASE strandq' = Append(strandq, h)
  BY <1>2
<1>3. CASE strandq # <<>> /\ strandq' = Tail(strandq)
  <2>1. i + 1 \in 1..Len(strandq) /\ strandq'[i] = strandq[i + 1]
    BY <1>3
  <2> QED BY <2>1
<1>4. CASE strandq # <<>> /\ strandq' = Append(Tail(strandq), h)
  <2>1. /\ Tail(strandq) \in Seq(StrandHandler)
        /\ Len(Tail(strandq)) = Len(strandq) - 1
        /\ \A k \in 1..Len(Tail(strandq)) : Tail(strandq)[k] = strandq[k + 1]
    BY <1>4
  <2>2. \/ strandq'[i] = h
        \/ i \in 1..Len(Tail(strandq)) /\ strandq'[i] = Tail(strandq)[i]
    <3> DEFINE t == Tail(strandq)
    <3>1. t \in Seq(StrandHandler) /\ strandq' = Append(t, h)
      BY <1>4, <2>1
    <3> HIDE DEF t
    <3>2. \/ strandq'[i] = h
          \/ i \in 1..Len(t) /\ strandq'[i] = t[i]
      BY <3>1, AppendIndex
    <3> QED BY <3>2 DEF t
  <2>3. CASE i \in 1..Len(Tail(strandq)) /\ strandq'[i] = Tail(strandq)[i]
    <3>1. strandq'[i] = strandq[i + 1] /\ i + 1 \in 1..Len(strandq)
      BY <2>1, <2>3
    <3> QED BY <3>1
  <2> QED BY <2>2, <2>3
<1> QED BY <1>1, <1>2, <1>3, <1>4

-----------------------------------------------------------------------------
(* Accounting is inductive. *)

LEMMA AccountingInit == Init => Accounting
<1> SUFFICES ASSUME Init PROVE Accounting
  OBVIOUS
<1>1. TypeOK
  BY TypeInit
<1>2. Tracked = {} /\ posted = <<>> /\ strandq = <<>>
  BY DEF Init, TrackerInit, Tracked
<1>3. IsFiniteSet(Tracked)
  BY <1>2, FS_EmptySet
<1>4. Untouched /\ StartsLead /\ ClosedHaveStarted
  BY <1>2 DEF Untouched, StartsLead, ClosedHaveStarted
<1>5. ReservedBytes = {}
  BY <1>2 DEF ReservedBytes
<1>6. TotalIsSumOfEntries
  BY <1>5, FS_EmptySet DEF Init, TrackerInit, TotalIsSumOfEntries
<1> QED BY <1>1, <1>3, <1>4, <1>6 DEF Accounting

\* No step takes a call back to before its start.
LEMMA StartedStays ==
    ASSUME TypeOK, [Next]_vars, NEW c \in Calls, Started(c)
    PROVE  Started(c)'
<1>1. CASE RunPosted
  BY <1>1 DEF RunPosted, callVars, Started
<1>2. ASSUME NEW d \in Calls, Request(d) PROVE Started(c)'
  BY <1>2 DEF Request, Move, Started, TypeOK
<1>3. ASSUME NEW d \in Calls, OnStrand(d) PROVE Started(c)'
  BY <1>3
  DEF OnStrand, ApplicationInstall, InstallRejected, AlreadyInstalled,
      Phase1SetupFails, Phase1Starts, Return, Close, Started, TypeOK
<1>4. ASSUME NEW d \in Calls, Thread(d) PROVE Started(c)'
  BY <1>4
  DEF Thread, MeasureDisk, MeasureFails, Admit, Refuse, Phase1Fails,
      Phase1Succeeds, FoundAfterPhase1, NotFoundAfterPhase1, Phase2SetupFails,
      Phase2Starts, Phase2Fails, Phase2Succeeds, Verify, PostClosing, Move,
      Started, TypeOK
<1>5. ASSUME NEW a \in AppIds, Uninstalled(a) PROVE Started(c)'
  BY <1>5 DEF Uninstalled, callVars, Started
<1>6. CASE UNCHANGED vars
  BY <1>6 DEF vars, callVars, Started
<1> QED BY <1>1, <1>2, <1>3, <1>4, <1>5, <1>6 DEF Next

LEMMA AccountingStep ==
    ASSUME Accounting, [Next]_vars
    PROVE  Accounting'
<1>1. TypeOK /\ TypeOK' /\ strandq \in Seq(StrandHandler)
  BY TypeStep DEF Accounting, TypeOK
<1>2. Untouched /\ StartsLead /\ ClosedHaveStarted
  BY DEF Accounting
<1>3. \A c \in Calls : Started(c) => Started(c)'
  BY <1>1, StartedStays
\* The strand's half, for a step whose new strand handler is h.
<1>4. ASSUME NEW h \in StrandHandler, h.start \/ Started(h.call)',
             \/ strandq' = strandq
             \/ strandq' = Append(strandq, h)
             \/ strandq # <<>> /\ strandq' = Tail(strandq)
             \/ strandq # <<>> /\ strandq' = Append(Tail(strandq), h)
      PROVE  ClosedHaveStarted'
  <2>1. \A i \in 1..Len(strandq') :
              \/ strandq'[i] = h
              \/ \E j \in 1..Len(strandq) : strandq'[i] = strandq[j]
    BY <1>1, <1>4, AppendElements
  <2> QED BY <1>1, <1>2, <1>3, <1>4, <2>1, StrandStep
\* Steps that leave the tracker's variables alone.
<1>5. ASSUME UNCHANGED trackerVars, ClosedHaveStarted'
      PROVE  Accounting'
  <2>1. Untouched' /\ StartsLead'
    BY <1>2, <1>3, <1>5, QuietStep
  <2> QED BY <1>1, <1>3, <1>5, <2>1, AccountingKept DEF trackerVars, tracked
\* Steps that post a handler for the application of a call.
<1>6. ASSUME NEW c \in Calls, NEW h \in Handler,
             posted' = Append(posted, h), h.app = AppOf[c],
             UNCHANGED tracked, Started(c)',
             h.fn = "TrackOperationStart" => ~Started(c),
             ClosedHaveStarted'
      PROVE  Accounting'
  <2>1. Untouched' /\ StartsLead'
    BY <1>1, <1>2, <1>3, <1>6, PostStep DEF tracked
  <2> QED BY <1>1, <1>3, <1>6, <2>1, AccountingKept
<1>7. CASE RunPosted
  BY <1>7, RunStep
<1>8. ASSUME NEW c \in Calls, Request(c) PROVE Accounting'
  <2>1. StartHandler(c) \in StrandHandler /\ StartHandler(c).start
    BY StrandHandlerTypes DEF StartHandler
  <2>2. ClosedHaveStarted'
    BY <1>4, <1>8, <2>1 DEF Request
  <2> QED BY <1>5, <1>8, <2>2 DEF Request
<1>9. ASSUME NEW c \in Calls, OnStrand(c) PROVE Accounting'
  <2> DEFINE Closing(f, r) == ClosingHandler(c, f, r)
  <2>1. ASSUME NEW f \in BOOLEAN, NEW r \in Answers,
               StartsOnStrand(c), Return(c, f, r)
        PROVE  ClosedHaveStarted' /\ Started(c)'
    <3>1. Closing(f, r) \in StrandHandler /\ Closing(f, r).call = c
      BY StrandHandlerTypes DEF ClosingHandler, Answers
    <3>2. Started(c)'
      BY <1>1, <2>1 DEF Return, Started, TypeOK
    <3>3. strandq # <<>> /\ strandq' = Append(Tail(strandq), Closing(f, r))
      BY <2>1 DEF Return, StartsOnStrand
    <3>4. Started(Closing(f, r).call)'
      BY <3>1, <3>2 DEF Started, ClosingHandler
    <3> HIDE DEF Closing
    <3> QED BY <1>4, <3>1, <3>2, <3>3, <3>4
  <2>2. CASE InstallRejected(c)
    BY <1>5, <2>1, <2>2 DEF InstallRejected, Answers
  <2>3. CASE AlreadyInstalled(c)
    BY <1>5, <2>1, <2>3 DEF AlreadyInstalled, Answers
  <2> DEFINE First == TrackOperationStart(AppOf[c])
  <2>4. First \in Handler /\ First.app = AppOf[c]
    BY HandlerTypes DEF TrackOperationStart
  <2>5. CASE Phase1SetupFails(c)
    <3>1. ClosedHaveStarted' /\ Started(c)' /\ ~Started(c)
      BY <2>1, <2>5 DEF Phase1SetupFails, StartsOnStrand, Answers, Started
    <3> QED BY <1>6, <2>4, <2>5, <3>1 DEF Phase1SetupFails
  <2>6. CASE Phase1Starts(c)
    <3>1. Started(c)' /\ ~Started(c)
      BY <1>1, <2>6 DEF Phase1Starts, StartsOnStrand, Started, TypeOK
    <3>2. strandq # <<>> /\ strandq' = Tail(strandq)
      BY <2>6 DEF Phase1Starts, StartsOnStrand
    <3>3. StartHandler(c) \in StrandHandler /\ StartHandler(c).start
      BY StrandHandlerTypes DEF StartHandler
    <3>4. ClosedHaveStarted'
      BY <1>4, <3>2, <3>3
    <3> QED BY <1>6, <2>4, <2>6, <3>1, <3>4 DEF Phase1Starts
  <2>7. CASE Close(c)
    <3>1. strandq # <<>> /\ strandq' = Tail(strandq)
      BY <2>7 DEF Close
    <3>2. StartHandler(c) \in StrandHandler /\ StartHandler(c).start
      BY StrandHandlerTypes DEF StartHandler
    <3>3. ClosedHaveStarted'
      BY <1>4, <3>1, <3>2
    <3>4. Started(c)
      BY <1>1, <1>2, <2>7 DEF Close, ClosedHaveStarted
    <3>5. SendOperationFinish(AppOf[c]) \in Handler
          /\ SendOperationFinish(AppOf[c]).app = AppOf[c]
          /\ SendOperationFinish(AppOf[c]).fn # "TrackOperationStart"
      BY HandlerTypes DEF SendOperationFinish
    <3>6. CASE posted' = posted
      BY <1>5, <2>7, <3>3, <3>6 DEF Close, trackerVars, tracked
    <3>7. CASE posted' = Append(posted, SendOperationFinish(AppOf[c]))
      BY <1>3, <1>6, <2>7, <3>3, <3>4, <3>5, <3>7 DEF Close
    <3> QED BY <2>7, <3>6, <3>7 DEF Close
  <2> QED BY <1>9, <2>2, <2>3, <2>5, <2>6, <2>7 DEF OnStrand, ApplicationInstall
<1>10. ASSUME NEW c \in Calls, Thread(c) PROVE Accounting'
  \* A thread's step that leaves both queues alone, and one that closes.
  <2>1. ASSUME UNCHANGED trackerVars, UNCHANGED strandq PROVE Accounting'
    <3>1. StartHandler(c) \in StrandHandler /\ StartHandler(c).start
      BY StrandHandlerTypes DEF StartHandler
    <3>2. ClosedHaveStarted'
      BY <1>4, <2>1, <3>1
    <3> QED BY <1>5, <2>1, <3>2
  <2>2. ASSUME NEW f \in BOOLEAN, NEW r \in Answers,
               UNCHANGED trackerVars, PostClosing(c, f, r)
        PROVE  Accounting'
    <3> DEFINE h == ClosingHandler(c, f, r)
    <3>1. h \in StrandHandler /\ h.call = c
      BY StrandHandlerTypes DEF ClosingHandler, Answers
    <3>2. pc'[h.call] = "ended"
      BY <1>1, <2>2, <3>1 DEF PostClosing, TypeOK
    <3>3. Started(h.call)'
      BY <3>2 DEF Started, ClosingHandler
    <3>4. strandq' = Append(strandq, h)
      BY <2>2 DEF PostClosing
    <3> HIDE DEF h
    <3>5. ClosedHaveStarted'
      BY <1>4, <3>1, <3>3, <3>4
    <3> QED BY <1>5, <2>2, <3>5
  \* A thread's step that posts h to the tracker.
  <2>3. ASSUME NEW h \in Handler, h.app = AppOf[c],
               h.fn # "TrackOperationStart", posted' = Append(posted, h),
               UNCHANGED <<tracked, strandq>>, Started(c)
        PROVE  Accounting'
    <3>1. StartHandler(c) \in StrandHandler /\ StartHandler(c).start
      BY StrandHandlerTypes DEF StartHandler
    <3>2. ClosedHaveStarted'
      BY <1>4, <2>3, <3>1
    <3> QED BY <1>3, <1>6, <2>3, <3>2
  <2>4. CASE MeasureDisk(c)
    BY <2>1, <2>4 DEF MeasureDisk
  <2>5. CASE MeasureFails(c)
    BY <2>1, <2>5 DEF MeasureFails
  <2>6. CASE Phase1Succeeds(c)
    BY <2>1, <2>6 DEF Phase1Succeeds
  <2>7. CASE NotFoundAfterPhase1(c)
    BY <2>1, <2>7 DEF NotFoundAfterPhase1
  <2>8. CASE Phase2Starts(c)
    BY <2>1, <2>8 DEF Phase2Starts
  <2>9. CASE Phase2Succeeds(c)
    BY <2>1, <2>9 DEF Phase2Succeeds
  <2>10. CASE Phase1Fails(c)
    BY <2>2, <2>10 DEF Phase1Fails, Answers
  <2>11. CASE FoundAfterPhase1(c)
    BY <2>2, <2>11 DEF FoundAfterPhase1, Answers
  <2>12. CASE Phase2SetupFails(c)
    BY <2>2, <2>12 DEF Phase2SetupFails, Answers
  <2>13. CASE Phase2Fails(c)
    BY <2>2, <2>13 DEF Phase2Fails, Answers
  <2>14. CASE Verify(c)
    BY <2>2, <2>14 DEF Verify, Answers
  <2>15. CASE Admit(c)
    <3>1. /\ SetOperationSize(AppOf[c], Size[c]) \in Handler
          /\ SetOperationSize(AppOf[c], Size[c]).app = AppOf[c]
          /\ SetOperationSize(AppOf[c], Size[c]).fn # "TrackOperationStart"
      BY HandlerTypes DEF SetOperationSize
    <3> QED BY <2>3, <2>15, <3>1 DEF Admit, Move, Started
  <2>16. CASE Refuse(c)
    <3>1. /\ ClearOperation(AppOf[c]) \in Handler
          /\ ClearOperation(AppOf[c]).app = AppOf[c]
          /\ ClearOperation(AppOf[c]).fn # "TrackOperationStart"
      BY HandlerTypes DEF ClearOperation
    <3> QED BY <2>3, <2>16, <3>1 DEF Refuse, Move, Started
  <2> QED
    BY <1>10, <2>4, <2>5, <2>6, <2>7, <2>8, <2>9, <2>10,
       <2>11, <2>12, <2>13, <2>14, <2>15, <2>16 DEF Thread
<1>11. ASSUME NEW a \in AppIds, Uninstalled(a) PROVE Accounting'
  <2>1. ClosedHaveStarted'
    BY <1>1, <1>2, <1>3, <1>11, StrandSame DEF Uninstalled, callVars
  <2> QED BY <1>5, <1>11, <2>1 DEF Uninstalled
<1>12. CASE UNCHANGED vars
  <2>1. ClosedHaveStarted'
    BY <1>1, <1>2, <1>3, <1>12, StrandSame DEF vars, callVars
  <2> QED BY <1>5, <1>12, <2>1 DEF vars
<1> QED BY <1>7, <1>8, <1>9, <1>10, <1>11, <1>12 DEF Next

\* However many installs run at once, of whatever applications, the atomic that
\* check_disk_usage reads is the sum of the tracked entries and of the bytes whose
\* entry a second install of an application has replaced (operation_tracker.h:86).
THEOREM TotalCorrect == Spec => []TotalIsSumOfEntries
<1>1. Accounting /\ [Next]_vars => Accounting'
  BY AccountingStep
<1>2. Accounting => TotalIsSumOfEntries
  BY DEF Accounting
<1> QED BY AccountingInit, <1>1, <1>2, PTL DEF Spec

\* The atomic never wraps below zero (operation_tracker.h:86 is unsigned), also
\* when several calls name one application and a start replaces an entry.
THEOREM TotalNeverWraps == Spec => [](total_pending_bytes \in Nat)
<1>1. Accounting => total_pending_bytes \in Nat
  <2> SUFFICES ASSUME Accounting PROVE total_pending_bytes \in Nat
    OBVIOUS
  <2>1. Cardinality(ReservedBytes) \in Nat /\ lost \in Nat
    BY ReservedFinite, FS_CardinalityType DEF Accounting, TypeOK, TrackerTypeOK
  <2> QED BY <2>1 DEF Accounting, TotalIsSumOfEntries
<1>2. Accounting /\ [Next]_vars => Accounting'
  BY AccountingStep
<1> QED BY AccountingInit, <1>1, <1>2, PTL DEF Spec

-----------------------------------------------------------------------------
(* One handler of the strand per call, and one callback. *)

\* No two handlers of q are for the same call, and none is for c.
OnePerCall(q) == \A i, j \in 1..Len(q) : q[i].call = q[j].call => i = j
NoneFor(q, c) == \A i \in 1..Len(q) : q[i].call # c

\* The handler of a call that waits on the strand tells where the call is, and
\* that its caller has not been told.
WaitingFits ==
    \A i \in 1..Len(strandq) :
        /\ pc[strandq[i].call] = IF strandq[i].start THEN "dispatched" ELSE "ended"
        /\ callbacks[strandq[i].call] = 0

\* A call is told once, when it has ended, and until then its closing handler
\* waits.
ToldOnce ==
    \A c \in Calls :
        /\ \/ callbacks[c] = 0 /\ reply[c] = "none"
           \/ callbacks[c] = 1 /\ reply[c] # "none" /\ pc[c] = "ended"
        /\ pc[c] = "ended" /\ callbacks[c] = 0 =>
              \E i \in 1..Len(strandq) : strandq[i].call = c

\* The inductive invariant of the callbacks.
Closing == TypeOK /\ OnePerCall(strandq) /\ WaitingFits /\ ToldOnce

\* Taking the head off leaves none for its call.
LEMMA TakeHead ==
    ASSUME NEW q \in Seq(StrandHandler), OnePerCall(q), q # <<>>
    PROVE  /\ Tail(q) \in Seq(StrandHandler)
           /\ OnePerCall(Tail(q)) /\ NoneFor(Tail(q), Head(q).call)
           /\ \A i \in 1..Len(Tail(q)) : \E j \in 1..Len(q) : Tail(q)[i] = q[j]
           /\ \A j \in 1..Len(q) : q[j].call # Head(q).call =>
                 \E i \in 1..Len(Tail(q)) : Tail(q)[i] = q[j]
<1> DEFINE t == Tail(q)
<1>1. /\ t \in Seq(StrandHandler) /\ Len(t) = Len(q) - 1
      /\ \A i \in 1..Len(t) : i + 1 \in 1..Len(q) /\ t[i] = q[i + 1]
      /\ Head(q) = q[1] /\ 1 \in 1..Len(q) /\ Len(q) \in Nat
  OBVIOUS
<1> HIDE DEF t
<1>2. OnePerCall(t)
  <2> SUFFICES ASSUME NEW i \in 1..Len(t), NEW j \in 1..Len(t), t[i].call = t[j].call
               PROVE  i = j
    BY DEF OnePerCall
  <2>1. i + 1 = j + 1
    BY <1>1 DEF OnePerCall
  <2> QED BY <1>1, <2>1
<1>5. NoneFor(t, Head(q).call)
  <2> SUFFICES ASSUME NEW i \in 1..Len(t), t[i].call = Head(q).call PROVE FALSE
    BY DEF NoneFor
  <2>1. i + 1 = 1
    BY <1>1 DEF OnePerCall
  <2> QED BY <1>1, <2>1
<1>3. \A i \in 1..Len(t) : \E j \in 1..Len(q) : t[i] = q[j]
  BY <1>1
<1>4. ASSUME NEW j \in 1..Len(q), q[j].call # Head(q).call
      PROVE  \E i \in 1..Len(t) : t[i] = q[j]
  <2>1. j # 1
    BY <1>1, <1>4
  <2>2. j - 1 \in 1..Len(t) /\ (j - 1) + 1 = j
    BY <1>1, <2>1
  <2>3. t[j - 1] = q[j]
    BY <1>1, <2>2
  <2> QED BY <2>2, <2>3
<1> QED BY <1>1, <1>2, <1>3, <1>4, <1>5 DEF t

\* A step of call c that leaves of the strand's queue q, without a handler of
\* c, and perhaps posts one.
LEMMA ClosingKept ==
    ASSUME Closing, TypeOK', NEW c \in Calls,
           NEW q \in Seq(StrandHandler), OnePerCall(q), NoneFor(q, c),
           \A i \in 1..Len(q) : \E j \in 1..Len(strandq) : q[i] = strandq[j],
           \A j \in 1..Len(strandq) : strandq[j].call # c =>
              \E i \in 1..Len(q) : q[i] = strandq[j],
           \A d \in Calls \ {c} :
              pc'[d] = pc[d] /\ callbacks'[d] = callbacks[d] /\ reply'[d] = reply[d],
           \/ /\ strandq' = q
              /\ \/ pc'[c] # "ended" /\ callbacks'[c] = 0 /\ reply'[c] = "none"
                 \/ pc'[c] = "ended" /\ callbacks'[c] = 1 /\ reply'[c] # "none"
           \/ \E h \in StrandHandler :
                /\ strandq' = Append(q, h)
                /\ h.call = c
                /\ pc'[c] = IF h.start THEN "dispatched" ELSE "ended"
                /\ callbacks'[c] = 0 /\ reply'[c] = "none"
    PROVE  Closing'
<1>1. \A i \in 1..Len(q) : q[i] \in StrandHandler /\ q[i].call \in Calls \ {c}
  <2> SUFFICES ASSUME NEW i \in 1..Len(q)
               PROVE  q[i] \in StrandHandler /\ q[i].call \in Calls \ {c}
    OBVIOUS
  <2>1. q[i] \in StrandHandler
    OBVIOUS
  <2> QED BY <2>1 DEF NoneFor, StrandHandler
<1>2. \A i \in 1..Len(q) :
        /\ pc[q[i].call] = IF q[i].start THEN "dispatched" ELSE "ended"
        /\ callbacks[q[i].call] = 0
  <2> SUFFICES ASSUME NEW i \in 1..Len(q)
               PROVE  /\ pc[q[i].call] = IF q[i].start THEN "dispatched" ELSE "ended"
                      /\ callbacks[q[i].call] = 0
    OBVIOUS
  <2>1. PICK j \in 1..Len(strandq) : q[i] = strandq[j]
    OBVIOUS
  <2> QED BY <2>1 DEF Closing, WaitingFits
<1>3. ASSUME NEW d \in Calls \ {c}, pc[d] = "ended", callbacks[d] = 0
      PROVE  \E i \in 1..Len(q) : q[i].call = d
  <2>1. PICK j \in 1..Len(strandq) : strandq[j].call = d
    BY <1>3 DEF Closing, ToldOnce
  <2>2. PICK i \in 1..Len(q) : q[i] = strandq[j]
    BY <2>1
  <2> QED BY <2>1, <2>2
<1>4. \A d \in Calls \ {c} :
        \/ callbacks'[d] = 0 /\ reply'[d] = "none"
        \/ callbacks'[d] = 1 /\ reply'[d] # "none" /\ pc'[d] = "ended"
  BY DEF Closing, ToldOnce
<1>5. CASE strandq' = q /\ \/ pc'[c] # "ended" /\ callbacks'[c] = 0 /\ reply'[c] = "none"
                           \/ pc'[c] = "ended" /\ callbacks'[c] = 1 /\ reply'[c] # "none"
  <2>1. OnePerCall(strandq)'
    BY <1>5 DEF OnePerCall
  <2>2. WaitingFits'
    BY <1>1, <1>2, <1>5 DEF WaitingFits
  <2>3. ToldOnce'
    BY <1>3, <1>4, <1>5 DEF ToldOnce
  <2> QED BY <2>1, <2>2, <2>3 DEF Closing
<1>6. ASSUME NEW h \in StrandHandler,
             strandq' = Append(q, h), h.call = c,
             pc'[c] = IF h.start THEN "dispatched" ELSE "ended",
             callbacks'[c] = 0, reply'[c] = "none"
      PROVE  Closing'
  <2>1. /\ Len(strandq') = Len(q) + 1 /\ Len(q) \in Nat
        /\ \A i \in 1..Len(q) : strandq'[i] = q[i]
        /\ strandq'[Len(q) + 1] = h
    BY <1>6
  <2>2. \A i \in 1..Len(strandq') : i \in 1..Len(q) \/ i = Len(q) + 1
    BY <2>1
  <2>3. OnePerCall(strandq)'
    BY <1>1, <1>6, <2>1, <2>2 DEF OnePerCall
  <2>4. WaitingFits'
    <3> SUFFICES ASSUME NEW i \in 1..Len(strandq')
                 PROVE  /\ pc'[strandq'[i].call] =
                              IF strandq'[i].start THEN "dispatched" ELSE "ended"
                        /\ callbacks'[strandq'[i].call] = 0
      BY DEF WaitingFits
    <3>1. CASE i \in 1..Len(q)
      <4>1. strandq'[i] = q[i] /\ q[i].call \in Calls \ {c}
        BY <1>1, <2>1, <3>1
      <4>2. /\ pc'[q[i].call] = pc[q[i].call]
            /\ callbacks'[q[i].call] = callbacks[q[i].call]
        BY <4>1
      <4> QED BY <1>2, <3>1, <4>1, <4>2
    <3>2. CASE i = Len(q) + 1
      BY <1>6, <2>1, <3>2
    <3> QED BY <2>2, <3>1, <3>2
  <2>5. ASSUME NEW d \in Calls, pc'[d] = "ended", callbacks'[d] = 0
        PROVE  \E i \in 1..Len(strandq') : strandq'[i].call = d
    <3>1. CASE d = c
      BY <1>6, <2>1, <3>1
    <3>2. CASE d # c
      <4>1. PICK i \in 1..Len(q) : q[i].call = d
        BY <1>3, <2>5, <3>2
      <4> QED BY <2>1, <4>1
    <3> QED BY <3>1, <3>2
  <2>6. ToldOnce'
    BY <1>4, <1>6, <2>5 DEF ToldOnce
  <2> QED BY <2>3, <2>4, <2>6 DEF Closing
<1> QED BY <1>5, <1>6

LEMMA ClosingInit == Init => Closing
BY TypeInit DEF Init, Closing, OnePerCall, WaitingFits, ToldOnce

\* A call that is neither on the strand nor told has no handler there.
LEMMA RunningHasNone ==
    ASSUME Closing, NEW c \in Calls, pc[c] \notin {"dispatched", "ended"}
    PROVE  /\ NoneFor(strandq, c) /\ OnePerCall(strandq)
           /\ strandq \in Seq(StrandHandler)
           /\ callbacks[c] = 0 /\ reply[c] = "none"
BY DEF Closing, NoneFor, WaitingFits, ToldOnce, TypeOK

\* The steps of a call that runs: it moves on, or it closes.
LEMMA RunningMoves ==
    ASSUME Closing, TypeOK', NEW c \in Calls,
           pc[c] \notin {"dispatched", "ended"},
           UNCHANGED <<reply, callbacks>>,
           NEW to, pc' = [pc EXCEPT ![c] = to],
           \/ strandq' = strandq /\ to \notin {"dispatched", "ended"}
           \/ \E h \in StrandHandler :
                /\ strandq' = Append(strandq, h) /\ h.call = c
                /\ to = IF h.start THEN "dispatched" ELSE "ended"
    PROVE  Closing'
<1>1. /\ NoneFor(strandq, c) /\ OnePerCall(strandq)
      /\ strandq \in Seq(StrandHandler) /\ callbacks[c] = 0 /\ reply[c] = "none"
  BY RunningHasNone
<1>2. pc'[c] = to /\ \A d \in Calls \ {c} : pc'[d] = pc[d]
  BY DEF Closing, TypeOK
<1>3. CASE strandq' = strandq /\ to \notin {"dispatched", "ended"}
  BY <1>1, <1>2, <1>3, ClosingKept
<1>4. ASSUME NEW h \in StrandHandler, strandq' = Append(strandq, h), h.call = c,
             to = IF h.start THEN "dispatched" ELSE "ended"
      PROVE  Closing'
  <2> DEFINE q == strandq
  <2>1. /\ q \in Seq(StrandHandler) /\ NoneFor(q, c) /\ OnePerCall(q)
        /\ \A i \in 1..Len(q) : \E j \in 1..Len(strandq) : q[i] = strandq[j]
        /\ \A j \in 1..Len(strandq) : \E i \in 1..Len(q) : q[i] = strandq[j]
    BY <1>1
  <2>2. \E g \in StrandHandler :
                /\ strandq' = Append(q, g)
                /\ g.call = c
                /\ pc'[c] = IF g.start THEN "dispatched" ELSE "ended"
                /\ callbacks'[c] = 0 /\ reply'[c] = "none"
    BY <1>1, <1>2, <1>4
  <2> HIDE DEF q
  <2> QED BY <1>2, <2>1, <2>2, ClosingKept
<1> QED BY <1>3, <1>4

\* The strand's step of the call at its head: the call starts, or returns.
LEMMA HeadMoves ==
    ASSUME Closing, TypeOK', NEW c \in Calls, StartsOnStrand(c),
           UNCHANGED <<reply, callbacks>>,
           NEW to, pc' = [pc EXCEPT ![c] = to],
           \/ strandq' = Tail(strandq) /\ to # "ended"
           \/ \E h \in StrandHandler :
                /\ strandq' = Append(Tail(strandq), h) /\ h.call = c
                /\ ~h.start /\ to = "ended"
    PROVE  Closing'
<1> DEFINE q == Tail(strandq)
<1>1. Head(strandq).call = c /\ strandq # <<>> /\ strandq \in Seq(StrandHandler)
  BY DEF StartsOnStrand, StartHandler, Closing, TypeOK
<1>2. /\ q \in Seq(StrandHandler) /\ NoneFor(q, c) /\ OnePerCall(q)
      /\ \A i \in 1..Len(q) : \E j \in 1..Len(strandq) : q[i] = strandq[j]
      /\ \A j \in 1..Len(strandq) : strandq[j].call # c =>
            \E i \in 1..Len(q) : q[i] = strandq[j]
  BY <1>1, TakeHead DEF Closing
<1>3. callbacks[c] = 0 /\ reply[c] = "none"
  BY DEF StartsOnStrand, Closing, ToldOnce
<1>4. pc'[c] = to /\ \A d \in Calls \ {c} : pc'[d] = pc[d]
  BY DEF Closing, TypeOK
<1> HIDE DEF q
<1>5. \/ strandq' = q /\ pc'[c] # "ended" /\ callbacks'[c] = 0 /\ reply'[c] = "none"
      \/ \E h \in StrandHandler :
            /\ strandq' = Append(q, h) /\ h.call = c
            /\ pc'[c] = IF h.start THEN "dispatched" ELSE "ended"
            /\ callbacks'[c] = 0 /\ reply'[c] = "none"
  BY <1>3, <1>4 DEF q
<1> QED BY <1>2, <1>4, <1>5, ClosingKept

LEMMA CloseStep ==
    ASSUME Closing, TypeOK', NEW c \in Calls, Close(c)
    PROVE  Closing'
<1> DEFINE q == Tail(strandq)
<1>1. /\ Head(strandq).call = c /\ ~Head(strandq).start
      /\ strandq # <<>> /\ strandq \in Seq(StrandHandler)
      /\ Head(strandq) = strandq[1] /\ 1 \in 1..Len(strandq)
  BY DEF Close, Closing, TypeOK
<1>2. /\ q \in Seq(StrandHandler) /\ NoneFor(q, c) /\ OnePerCall(q)
      /\ \A i \in 1..Len(q) : \E j \in 1..Len(strandq) : q[i] = strandq[j]
      /\ \A j \in 1..Len(strandq) : strandq[j].call # c =>
            \E i \in 1..Len(q) : q[i] = strandq[j]
  BY <1>1, TakeHead DEF Closing
<1>3. pc[c] = "ended" /\ callbacks[c] = 0 /\ reply[c] = "none"
  BY <1>1 DEF Closing, WaitingFits, ToldOnce
<1>4. Head(strandq).closing.answer # "none"
  <2>1. Head(strandq) \in StrandHandler
    BY <1>1
  <2> QED BY <2>1 DEF StrandHandler, Closings
<1>5. callbacks'[c] = 1 /\ \A d \in Calls \ {c} : callbacks'[d] = callbacks[d]
  <2>1. callbacks \in [Calls -> Nat]
    BY DEF Closing, TypeOK
  <2>2. callbacks' = [callbacks EXCEPT ![c] = callbacks[c] + 1]
    BY <2>1, Zenon DEF Close
  <2> QED BY <1>3, <2>1, <2>2
<1>6. reply'[c] # "none" /\ \A d \in Calls \ {c} : reply'[d] = reply[d]
  BY <1>3, <1>4 DEF Close, Closing, TypeOK
<1>7. strandq' = q /\ pc' = pc
  BY DEF Close
<1> HIDE DEF q
<1> QED BY <1>2, <1>3, <1>5, <1>6, <1>7, ClosingKept

LEMMA ClosingSame ==
    ASSUME Closing, TypeOK', UNCHANGED callVars
    PROVE  Closing'
BY DEF Closing, callVars, OnePerCall, WaitingFits, ToldOnce

LEMMA ClosingStep == Closing /\ [Next]_vars => Closing'
<1> SUFFICES ASSUME Closing, [Next]_vars PROVE Closing'
  OBVIOUS
<1>1. TypeOK /\ TypeOK'
  BY TypeStep DEF Closing
<1>2. CASE RunPosted
  BY <1>1, <1>2, ClosingSame DEF RunPosted
<1>3. ASSUME NEW c \in Calls, Request(c) PROVE Closing'
  <2>1. StartHandler(c) \in StrandHandler /\ StartHandler(c).call = c /\ StartHandler(c).start
    BY StrandHandlerTypes DEF StartHandler
  <2>2. \E h \in StrandHandler :
            /\ strandq' = Append(strandq, h) /\ h.call = c
            /\ "dispatched" = IF h.start THEN "dispatched" ELSE "ended"
    BY <1>3, <2>1 DEF Request
  <2>3. /\ pc[c] \notin {"dispatched", "ended"}
        /\ pc' = [pc EXCEPT ![c] = "dispatched"]
        /\ UNCHANGED <<reply, callbacks>>
    BY <1>3 DEF Request, Move
  <2> QED BY <1>1, <2>2, <2>3, RunningMoves
\* The two ways a closing handler is posted.
<1>4. ASSUME NEW c \in Calls, NEW f \in BOOLEAN, NEW r \in Answers
      PROVE  /\ ClosingHandler(c, f, r) \in StrandHandler
             /\ ClosingHandler(c, f, r).call = c /\ ~ClosingHandler(c, f, r).start
  BY StrandHandlerTypes DEF ClosingHandler, Answers
<1>5. ASSUME NEW c \in Calls, NEW f \in BOOLEAN, NEW r \in Answers,
             StartsOnStrand(c), Return(c, f, r), UNCHANGED <<reply, callbacks>>
      PROVE  Closing'
  <2>1. \E h \in StrandHandler :
            /\ strandq' = Append(Tail(strandq), h) /\ h.call = c
            /\ ~h.start /\ "ended" = "ended"
    BY <1>4, <1>5 DEF Return
  <2>2. pc' = [pc EXCEPT ![c] = "ended"]
    BY <1>5 DEF Return
  <2> QED BY <1>1, <1>5, <2>1, <2>2, HeadMoves
<1>6. ASSUME NEW c \in Calls, NEW f \in BOOLEAN, NEW r \in Answers,
             pc[c] \notin {"dispatched", "ended"}, PostClosing(c, f, r),
             UNCHANGED <<reply, callbacks>>
      PROVE  Closing'
  <2>1. \E h \in StrandHandler :
            /\ strandq' = Append(strandq, h) /\ h.call = c
            /\ "ended" = IF h.start THEN "dispatched" ELSE "ended"
    BY <1>4, <1>6 DEF PostClosing
  <2>2. pc' = [pc EXCEPT ![c] = "ended"]
    BY <1>6 DEF PostClosing
  <2> QED BY <1>1, <1>6, <2>1, <2>2, RunningMoves
\* A step of a thread that goes on.
<1>7. ASSUME NEW c \in Calls, NEW from, NEW to, Move(c, from, to),
             from \notin {"dispatched", "ended"}, to \notin {"dispatched", "ended"},
             UNCHANGED <<strandq, reply, callbacks>>
      PROVE  Closing'
  BY <1>1, <1>7, RunningMoves DEF Move
<1>8. ASSUME NEW c \in Calls, OnStrand(c) PROVE Closing'
  <2>1. CASE InstallRejected(c)
    BY <1>5, <2>1 DEF InstallRejected, Answers
  <2>2. CASE AlreadyInstalled(c)
    BY <1>5, <2>2 DEF AlreadyInstalled, Answers
  <2>3. CASE Phase1SetupFails(c)
    BY <1>5, <2>3 DEF Phase1SetupFails, Answers
  <2>4. CASE Phase1Starts(c)
    BY <1>1, <2>4, HeadMoves DEF Phase1Starts
  <2>5. CASE Close(c)
    BY <1>1, <2>5, CloseStep
  <2> QED BY <1>8, <2>1, <2>2, <2>3, <2>4, <2>5 DEF OnStrand, ApplicationInstall
<1>9. ASSUME NEW c \in Calls, Thread(c) PROVE Closing'
  <2>1. CASE MeasureDisk(c) \/ MeasureFails(c) \/ Admit(c) \/ Refuse(c)
    BY <1>7, <2>1 DEF MeasureDisk, MeasureFails, Admit, Refuse
  <2>2. CASE Phase1Succeeds(c) \/ NotFoundAfterPhase1(c) \/ Phase2Starts(c)
             \/ Phase2Succeeds(c)
    BY <1>7, <2>2 DEF Phase1Succeeds, NotFoundAfterPhase1, Phase2Starts,
                      Phase2Succeeds
  <2>3. CASE Phase1Fails(c) \/ Phase2Fails(c)
    BY <1>6, <2>3 DEF Phase1Fails, Phase2Fails, Answers
  <2>4. CASE FoundAfterPhase1(c) \/ Phase2SetupFails(c) \/ Verify(c)
    BY <1>6, <2>4 DEF FoundAfterPhase1, Phase2SetupFails, Verify, Answers
  <2> QED BY <1>9, <2>1, <2>2, <2>3, <2>4 DEF Thread
<1>10. ASSUME NEW a \in AppIds, Uninstalled(a) PROVE Closing'
  BY <1>1, <1>10, ClosingSame DEF Uninstalled
<1>11. CASE UNCHANGED vars
  BY <1>1, <1>11, ClosingSame DEF vars
<1> QED BY <1>2, <1>3, <1>8, <1>9, <1>10, <1>11 DEF Next

\* The shim invokes the callback of a call at most once, whichever of the
\* eleven paths of ApplicationInstall the call takes and however many calls
\* there are, of the same application or not.
THEOREM CallbackOnce == Spec => []CallbackAtMostOnce
<1>1. Closing => CallbackAtMostOnce
  BY DEF Closing, ToldOnce, CallbackAtMostOnce
<1> QED BY ClosingInit, ClosingStep, <1>1, PTL DEF Spec

-----------------------------------------------------------------------------
(* The safety half of the promise to the caller. *)

\* A closing handler for "ok" waits for call c.
OkWaits(c) ==
    \E i \in 1..Len(strandq) :
        /\ strandq[i].call = c /\ ~strandq[i].start
        /\ strandq[i].closing.answer = "ok"

\* The phases, by what decides them.
LEMMA PhaseCases ==
    ASSUME NEW c \in Calls
    PROVE  /\ reply[c] = "ok" => PhaseOf(c) = "ok"
           /\ reply[c] \notin {"none", "ok"} => PhaseOf(c) = "error"
           /\ reply[c] = "none" /\ pc[c] = "idle" => PhaseOf(c) = "idle"
           /\ reply[c] = "none" /\ pc[c] = "ended" =>
                 PhaseOf(c) = IF OkWaits(c) THEN "ok_decided" ELSE "error_decided"
           /\ reply[c] = "none" /\ pc[c] \notin {"idle", "ended"} =>
                 PhaseOf(c) = "waiting"
<1>1. "ok" \in Decided(c) <=> OkWaits(c)
  BY DEF Decided, OkWaits
<1> HIDE DEF OkWaits
<1> QED BY <1>1 DEF PhaseOf

LEMMA PhaseCasesNext ==
    ASSUME NEW c \in Calls
    PROVE  /\ reply'[c] = "ok" => PhaseOf(c)' = "ok"
           /\ reply'[c] \notin {"none", "ok"} => PhaseOf(c)' = "error"
           /\ reply'[c] = "none" /\ pc'[c] = "idle" => PhaseOf(c)' = "idle"
           /\ reply'[c] = "none" /\ pc'[c] = "ended" =>
                 PhaseOf(c)' = IF OkWaits(c)' THEN "ok_decided" ELSE "error_decided"
           /\ reply'[c] = "none" /\ pc'[c] \notin {"idle", "ended"} =>
                 PhaseOf(c)' = "waiting"
<1>1. ("ok" \in Decided(c))' <=> OkWaits(c)'
  BY DEF Decided, OkWaits
<1> HIDE DEF OkWaits
<1> QED BY <1>1 DEF PhaseOf

\* A call keeps its phase when its place, its answer and the closing handlers
\* that wait for it stay.
LEMMA PhaseKept ==
    ASSUME NEW d \in Calls, pc'[d] = pc[d], reply'[d] = reply[d],
           OkWaits(d)' <=> OkWaits(d)
    PROVE  PhaseOf(d)' = PhaseOf(d)
BY PhaseCases, PhaseCasesNext

\* What waits after the strand has lost the handlers of call c and perhaps got a
\* new one of it.
LEMMA OkWaitsWithout ==
    ASSUME NEW c \in Calls, NEW q \in Seq(StrandHandler), NoneFor(q, c),
           \A i \in 1..Len(q) : \E j \in 1..Len(strandq) : q[i] = strandq[j],
           \A j \in 1..Len(strandq) : strandq[j].call # c =>
              \E i \in 1..Len(q) : q[i] = strandq[j],
           strandq' = q
    PROVE  /\ \A d \in Calls \ {c} : OkWaits(d)' <=> OkWaits(d)
           /\ ~OkWaits(c)'
<1>1. ~OkWaits(c)'
  BY DEF OkWaits, NoneFor
<1>2. ASSUME NEW d \in Calls \ {c}, OkWaits(d) PROVE OkWaits(d)'
  <2>1. PICK j \in 1..Len(strandq) :
            /\ strandq[j].call = d /\ ~strandq[j].start
            /\ strandq[j].closing.answer = "ok"
    BY <1>2 DEF OkWaits
  <2>2. PICK i \in 1..Len(q) : q[i] = strandq[j]
    BY <2>1
  <2> QED BY <2>1, <2>2 DEF OkWaits
<1>3. ASSUME NEW d \in Calls \ {c}, OkWaits(d)' PROVE OkWaits(d)
  <2>1. PICK i \in 1..Len(q) :
            q[i].call = d /\ ~q[i].start /\ q[i].closing.answer = "ok"
    BY <1>3 DEF OkWaits
  <2>2. PICK j \in 1..Len(strandq) : q[i] = strandq[j]
    BY <2>1
  <2> QED BY <2>1, <2>2 DEF OkWaits
<1> QED BY <1>1, <1>2, <1>3

LEMMA OkWaitsWith ==
    ASSUME NEW c \in Calls, NEW q \in Seq(StrandHandler), NoneFor(q, c),
           \A i \in 1..Len(q) : \E j \in 1..Len(strandq) : q[i] = strandq[j],
           \A j \in 1..Len(strandq) : strandq[j].call # c =>
              \E i \in 1..Len(q) : q[i] = strandq[j],
           NEW h \in StrandHandler, h.call = c, strandq' = Append(q, h)
    PROVE  /\ \A d \in Calls \ {c} : OkWaits(d)' <=> OkWaits(d)
           /\ OkWaits(c)' <=> (~h.start /\ h.closing.answer = "ok")
<1>1. /\ Len(strandq') = Len(q) + 1 /\ Len(q) \in Nat
      /\ \A i \in 1..Len(q) : i \in 1..Len(strandq') /\ strandq'[i] = q[i]
      /\ Len(q) + 1 \in 1..Len(strandq') /\ strandq'[Len(q) + 1] = h
      /\ \A i \in 1..Len(strandq') : i \in 1..Len(q) \/ i = Len(q) + 1
  OBVIOUS
<1>2. OkWaits(c)' <=> (~h.start /\ h.closing.answer = "ok")
  <2>1. ASSUME OkWaits(c)' PROVE ~h.start /\ h.closing.answer = "ok"
    <3>1. PICK i \in 1..Len(strandq') :
            /\ strandq'[i].call = c /\ ~strandq'[i].start
            /\ strandq'[i].closing.answer = "ok"
      BY <2>1 DEF OkWaits
    <3>2. i = Len(q) + 1
      BY <1>1, <3>1 DEF NoneFor
    <3> QED BY <1>1, <3>1, <3>2
  <2>2. ASSUME ~h.start, h.closing.answer = "ok" PROVE OkWaits(c)'
    BY <1>1, <2>2 DEF OkWaits
  <2> QED BY <2>1, <2>2
<1>3. ASSUME NEW d \in Calls \ {c}, OkWaits(d) PROVE OkWaits(d)'
  <2>1. PICK j \in 1..Len(strandq) :
            /\ strandq[j].call = d /\ ~strandq[j].start
            /\ strandq[j].closing.answer = "ok"
    BY <1>3 DEF OkWaits
  <2>2. PICK i \in 1..Len(q) : q[i] = strandq[j]
    BY <2>1
  <2> QED BY <1>1, <2>1, <2>2 DEF OkWaits
<1>4. ASSUME NEW d \in Calls \ {c}, OkWaits(d)' PROVE OkWaits(d)
  <2>1. PICK i \in 1..Len(strandq') :
            /\ strandq'[i].call = d /\ ~strandq'[i].start
            /\ strandq'[i].closing.answer = "ok"
    BY <1>4 DEF OkWaits
  <2>2. i \in 1..Len(q) /\ strandq'[i] = q[i]
    BY <1>1, <2>1
  <2>3. PICK j \in 1..Len(strandq) : q[i] = strandq[j]
    BY <2>2
  <2> QED BY <2>1, <2>2, <2>3 DEF OkWaits
<1> QED BY <1>2, <1>3, <1>4

\* A step of the phases of one call.
LEMMA ServiceMove ==
    ASSUME NEW c \in Calls, NEW from, NEW to,
           PhaseOf(c) = from, PhaseOf(c)' = to,
           \A d \in Calls \ {c} : PhaseOf(d)' = PhaseOf(d)
    PROVE  Service!Move(c, from, to)
BY DEF Service!Move

LEMMA ServiceStutters ==
    ASSUME \A d \in Calls : PhaseOf(d)' = PhaseOf(d), installed' \subseteq AppIds
    PROVE  Service!AppsChange
<1>1. [c \in Calls |-> PhaseOf(c)]' = [c \in Calls |-> PhaseOf(c)]
  BY Zenon
<1> HIDE DEF PhaseOf
<1> QED BY <1>1 DEF Service!AppsChange

LEMMA ServiceInit == Init => Service!Init
<1> SUFFICES ASSUME Init PROVE Service!Init
  OBVIOUS
<1>1. \A c \in Calls : PhaseOf(c) = "idle"
  BY PhaseCases DEF Init
<1> QED BY <1>1 DEF Service!Init, Init

\* A call that runs moves on without being decided.
LEMMA ServiceWaits ==
    ASSUME Closing, TypeOK', NEW c \in Calls, NEW from, NEW to, Move(c, from, to),
           from \notin {"idle", "dispatched", "ended"},
           to \notin {"idle", "dispatched", "ended"},
           UNCHANGED <<strandq, reply>>
    PROVE  Service!AppsChange
<1>1. \A d \in Calls : OkWaits(d)' <=> OkWaits(d)
  BY DEF OkWaits
<1>2. \A d \in Calls \ {c} : PhaseOf(d)' = PhaseOf(d)
  BY <1>1, PhaseKept DEF Move, Closing, TypeOK
<1>3. PhaseOf(c)' = PhaseOf(c)
  <2>1. reply[c] = "none" /\ reply'[c] = "none"
    BY DEF Move, Closing, ToldOnce
  <2>2. pc[c] = from /\ pc'[c] = to
    BY DEF Move, Closing, TypeOK
  <2> QED BY <2>1, <2>2, PhaseCases, PhaseCasesNext
<1>4. \A d \in Calls : PhaseOf(d)' = PhaseOf(d)
  BY <1>2, <1>3
<1>5. installed' \subseteq AppIds
  BY DEF TypeOK
<1> QED BY <1>4, <1>5, ServiceStutters

\* A call is decided: by its thread, or on the strand, where q is what is left.
LEMMA ServiceDecides ==
    ASSUME Closing, NEW c \in Calls, pc[c] \notin {"idle", "ended"},
           NEW q \in Seq(StrandHandler), NoneFor(q, c),
           \A i \in 1..Len(q) : \E j \in 1..Len(strandq) : q[i] = strandq[j],
           \A j \in 1..Len(strandq) : strandq[j].call # c =>
              \E i \in 1..Len(q) : q[i] = strandq[j],
           NEW f \in BOOLEAN, NEW r \in Answers,
           strandq' = Append(q, ClosingHandler(c, f, r)),
           pc' = [pc EXCEPT ![c] = "ended"], UNCHANGED <<reply, installed>>,
           r = "ok" => AppOf[c] \in installed
    PROVE  Service!DecideOk(c) \/ Service!DecideError(c)
<1> DEFINE h == ClosingHandler(c, f, r)
<1>1. /\ h \in StrandHandler /\ h.call = c /\ ~h.start /\ h.closing.answer = r
      /\ strandq' = Append(q, h)
  BY StrandHandlerTypes DEF ClosingHandler, Answers
<1> HIDE DEF h
<1>2. /\ \A d \in Calls \ {c} : OkWaits(d)' <=> OkWaits(d)
      /\ OkWaits(c)' <=> r = "ok"
  <2>1. /\ \A d \in Calls \ {c} : OkWaits(d)' <=> OkWaits(d)
        /\ OkWaits(c)' <=> (~h.start /\ h.closing.answer = "ok")
    <3>1. h \in StrandHandler /\ h.call = c /\ strandq' = Append(q, h)
      BY <1>1
    <3> HIDE DEF OkWaits
    <3> QED BY <3>1, OkWaitsWith
  <2> QED BY <1>1, <2>1
<1>3. pc'[c] = "ended" /\ \A d \in Calls \ {c} : pc'[d] = pc[d]
  BY DEF Closing, TypeOK
<1>4. \A d \in Calls \ {c} : PhaseOf(d)' = PhaseOf(d)
  BY <1>2, <1>3, PhaseKept
<1>5. reply[c] = "none" /\ reply'[c] = "none"
  BY DEF Closing, ToldOnce
<1>6. PhaseOf(c) = "waiting"
  BY <1>5, PhaseCases
<1>7. PhaseOf(c)' = IF r = "ok" THEN "ok_decided" ELSE "error_decided"
  BY <1>2, <1>3, <1>5, PhaseCasesNext
<1>8. CASE r = "ok"
  BY <1>4, <1>6, <1>7, <1>8, ServiceMove DEF Service!DecideOk
<1>9. CASE r # "ok"
  BY <1>4, <1>6, <1>7, <1>9, ServiceMove DEF Service!DecideError
<1> QED BY <1>8, <1>9

\* What is left of the strand's queue when a thread posts, and when the strand
\* takes the handler of c.
LEMMA LeftByThread ==
    ASSUME Closing, NEW c \in Calls, pc[c] \notin {"dispatched", "ended"}
    PROVE  /\ strandq \in Seq(StrandHandler) /\ NoneFor(strandq, c)
           /\ \A i \in 1..Len(strandq) :
                 \E j \in 1..Len(strandq) : strandq[i] = strandq[j]
BY RunningHasNone

LEMMA LeftByHead ==
    ASSUME Closing, NEW c \in Calls, strandq # <<>>, Head(strandq).call = c
    PROVE  /\ Tail(strandq) \in Seq(StrandHandler) /\ NoneFor(Tail(strandq), c)
           /\ \A i \in 1..Len(Tail(strandq)) :
                 \E j \in 1..Len(strandq) : Tail(strandq)[i] = strandq[j]
           /\ \A j \in 1..Len(strandq) : strandq[j].call # c =>
                 \E i \in 1..Len(Tail(strandq)) : Tail(strandq)[i] = strandq[j]
<1>1. strandq \in Seq(StrandHandler) /\ OnePerCall(strandq)
  BY DEF Closing, TypeOK
<1> QED BY <1>1, TakeHead

\* A thread, and an early return, decide.
LEMMA ThreadDecides ==
    ASSUME Closing, NEW c \in Calls,
           pc[c] \notin {"idle", "dispatched", "ended"},
           NEW f \in BOOLEAN, NEW r \in Answers, PostClosing(c, f, r),
           UNCHANGED <<reply, installed>>, r = "ok" => AppOf[c] \in installed
    PROVE  Service!DecideOk(c) \/ Service!DecideError(c)
<1> DEFINE q == strandq
<1>1. /\ q \in Seq(StrandHandler) /\ NoneFor(q, c)
      /\ \A i \in 1..Len(q) : \E j \in 1..Len(strandq) : q[i] = strandq[j]
      /\ \A j \in 1..Len(strandq) : strandq[j].call # c =>
            \E i \in 1..Len(q) : q[i] = strandq[j]
  BY LeftByThread
<1>2. /\ strandq' = Append(q, ClosingHandler(c, f, r))
      /\ pc' = [pc EXCEPT ![c] = "ended"]
  BY DEF PostClosing
<1> HIDE DEF q
<1> QED BY <1>1, <1>2, ServiceDecides

LEMMA ReturnDecides ==
    ASSUME Closing, NEW c \in Calls, StartsOnStrand(c),
           NEW f \in BOOLEAN, NEW r \in Answers, Return(c, f, r),
           UNCHANGED <<reply, installed>>, r = "ok" => AppOf[c] \in installed
    PROVE  Service!DecideOk(c) \/ Service!DecideError(c)
<1> DEFINE q == Tail(strandq)
<1>1. strandq # <<>> /\ Head(strandq).call = c /\ pc[c] = "dispatched"
  BY DEF StartsOnStrand, StartHandler
<1>2. /\ q \in Seq(StrandHandler) /\ NoneFor(q, c)
      /\ \A i \in 1..Len(q) : \E j \in 1..Len(strandq) : q[i] = strandq[j]
      /\ \A j \in 1..Len(strandq) : strandq[j].call # c =>
            \E i \in 1..Len(q) : q[i] = strandq[j]
  BY <1>1, LeftByHead
<1>3. /\ strandq' = Append(q, ClosingHandler(c, f, r))
      /\ pc' = [pc EXCEPT ![c] = "ended"]
  BY DEF Return
<1> HIDE DEF q
<1> QED BY <1>1, <1>2, <1>3, ServiceDecides

\* The caller hears what was decided.
LEMMA CloseAnswers ==
    ASSUME Closing, NEW c \in Calls, Close(c)
    PROVE  Service!Answer(c)
<1> DEFINE q == Tail(strandq)
           answer == Head(strandq).closing.answer
<1>1. /\ strandq # <<>> /\ Head(strandq).call = c /\ ~Head(strandq).start
      /\ Head(strandq) = strandq[1] /\ 1 \in 1..Len(strandq)
      /\ strandq \in Seq(StrandHandler)
  BY DEF Close, Closing, TypeOK
<1>2. answer \in Answers
  <2>1. Head(strandq) \in StrandHandler
    BY <1>1
  <2> QED BY <2>1 DEF StrandHandler, Closings, Answers
<1>3. pc[c] = "ended" /\ reply[c] = "none"
  BY <1>1 DEF Closing, WaitingFits, ToldOnce
<1>4. pc' = pc /\ installed' = installed /\ strandq' = q
  BY DEF Close, diskVars
<1>5. reply'[c] = answer /\ \A d \in Calls \ {c} : reply'[d] = reply[d]
  BY <1>3 DEF Close, Closing, TypeOK
<1>6. OkWaits(c) <=> answer = "ok"
  <2>1. ASSUME answer = "ok" PROVE OkWaits(c)
    BY <1>1, <2>1 DEF OkWaits
  <2>2. ASSUME OkWaits(c) PROVE answer = "ok"
    <3>1. PICK i \in 1..Len(strandq) :
              strandq[i].call = c /\ strandq[i].closing.answer = "ok"
      BY <2>2 DEF OkWaits
    <3>2. i = 1
      BY <1>1, <3>1 DEF Closing, OnePerCall
    <3> QED BY <1>1, <3>1, <3>2
  <2> QED BY <2>1, <2>2
<1>7. /\ q \in Seq(StrandHandler) /\ NoneFor(q, c)
      /\ \A i \in 1..Len(q) : \E j \in 1..Len(strandq) : q[i] = strandq[j]
      /\ \A j \in 1..Len(strandq) : strandq[j].call # c =>
            \E i \in 1..Len(q) : q[i] = strandq[j]
  BY <1>1, LeftByHead
<1> HIDE DEF q, answer
<1>8. \A d \in Calls \ {c} : OkWaits(d)' <=> OkWaits(d)
  BY <1>4, <1>7, OkWaitsWithout
<1>9. \A d \in Calls \ {c} : PhaseOf(d)' = PhaseOf(d)
  BY <1>4, <1>5, <1>8, PhaseKept
<1>10. CASE answer = "ok"
  <2>1. PhaseOf(c) = "ok_decided" /\ PhaseOf(c)' = "ok"
    BY <1>3, <1>5, <1>6, <1>10, PhaseCases, PhaseCasesNext
  <2> QED BY <1>4, <1>9, <2>1, ServiceMove DEF Service!Answer
<1>11. CASE answer # "ok"
  <2>1. reply'[c] \notin {"none", "ok"}
    BY <1>2, <1>5, <1>11 DEF Answers
  <2>2. PhaseOf(c) = "error_decided" /\ PhaseOf(c)' = "error"
    BY <1>3, <1>6, <1>11, <2>1, PhaseCases, PhaseCasesNext
  <2> QED BY <1>4, <1>9, <2>2, ServiceMove DEF Service!Answer
<1> QED BY <1>10, <1>11

\* The strand starts the thread of a call, which then waits.
LEMMA StartWaits ==
    ASSUME Closing, TypeOK', NEW c \in Calls, Phase1Starts(c)
    PROVE  Service!AppsChange
<1> DEFINE q == Tail(strandq)
<1>1. strandq # <<>> /\ Head(strandq).call = c /\ pc[c] = "dispatched"
  BY DEF Phase1Starts, StartsOnStrand, StartHandler
<1>2. /\ q \in Seq(StrandHandler) /\ NoneFor(q, c)
      /\ \A i \in 1..Len(q) : \E j \in 1..Len(strandq) : q[i] = strandq[j]
      /\ \A j \in 1..Len(strandq) : strandq[j].call # c =>
            \E i \in 1..Len(q) : q[i] = strandq[j]
  BY <1>1, LeftByHead
<1>3. strandq' = q /\ reply' = reply
  BY DEF Phase1Starts
<1> HIDE DEF q
<1>4. \A d \in Calls \ {c} : OkWaits(d)' <=> OkWaits(d)
  BY <1>2, <1>3, OkWaitsWithout
<1>5. pc'[c] = "phase1" /\ \A d \in Calls \ {c} : pc'[d] = pc[d]
  BY DEF Phase1Starts, Closing, TypeOK
<1>6. \A d \in Calls \ {c} : PhaseOf(d)' = PhaseOf(d)
  BY <1>3, <1>4, <1>5, PhaseKept
<1>7. reply[c] = "none" /\ reply'[c] = "none"
  BY <1>1, <1>3 DEF Closing, ToldOnce
<1>8. PhaseOf(c)' = PhaseOf(c)
  BY <1>1, <1>5, <1>7, PhaseCases, PhaseCasesNext
<1>9. \A d \in Calls : PhaseOf(d)' = PhaseOf(d)
  BY <1>6, <1>8
<1> QED BY <1>9, ServiceStutters DEF TypeOK

LEMMA RequestRequests ==
    ASSUME Closing, NEW c \in Calls, Request(c)
    PROVE  Service!Request(c)
<1> DEFINE q == strandq
           h == StartHandler(c)
<1>1. pc[c] = "idle" /\ reply' = reply /\ installed' = installed
  BY DEF Request, Move, diskVars
<1>2. /\ q \in Seq(StrandHandler) /\ NoneFor(q, c)
      /\ \A i \in 1..Len(q) : \E j \in 1..Len(strandq) : q[i] = strandq[j]
      /\ \A j \in 1..Len(strandq) : strandq[j].call # c =>
            \E i \in 1..Len(q) : q[i] = strandq[j]
  BY <1>1, LeftByThread
<1>3. h \in StrandHandler /\ h.call = c /\ strandq' = Append(q, h)
  BY StrandHandlerTypes DEF Request, StartHandler
<1> HIDE DEF q, h
<1>4. \A d \in Calls \ {c} : OkWaits(d)' <=> OkWaits(d)
  BY <1>2, <1>3, OkWaitsWith
<1>5. pc'[c] = "dispatched" /\ \A d \in Calls \ {c} : pc'[d] = pc[d]
  BY DEF Request, Move, Closing, TypeOK
<1>6. \A d \in Calls \ {c} : PhaseOf(d)' = PhaseOf(d)
  BY <1>1, <1>4, <1>5, PhaseKept
<1>7. reply[c] = "none" /\ reply'[c] = "none"
  BY <1>1 DEF Closing, ToldOnce
<1>8. PhaseOf(c) = "idle" /\ PhaseOf(c)' = "waiting"
  BY <1>1, <1>5, <1>7, PhaseCases, PhaseCasesNext
<1> QED BY <1>1, <1>6, <1>8, ServiceMove DEF Service!Request

LEMMA ServiceSame ==
    ASSUME UNCHANGED callVars, TypeOK'
    PROVE  Service!AppsChange
<1>1. \A d \in Calls : PhaseOf(d)' = PhaseOf(d)
  BY DEF callVars, PhaseOf, Decided
<1> QED BY <1>1, ServiceStutters DEF TypeOK

LEMMA ServiceStep == Closing /\ [Next]_vars => [Service!Next]_(Service!vars)
<1> SUFFICES ASSUME Closing, [Next]_vars PROVE Service!Next
  OBVIOUS
<1>1. TypeOK /\ TypeOK'
  BY TypeStep DEF Closing
<1>2. Service!AppsChange => Service!Next
  BY DEF Service!Next
<1>3. \A c \in Calls :
        Service!Request(c) \/ Service!DecideOk(c) \/ Service!DecideError(c)
            \/ Service!Answer(c) => Service!Next
  BY DEF Service!Next
<1>4. CASE RunPosted
  BY <1>1, <1>2, <1>4, ServiceSame DEF RunPosted
<1>5. ASSUME NEW c \in Calls, Request(c) PROVE Service!Next
  BY <1>3, <1>5, RequestRequests
<1>6. ASSUME NEW c \in Calls, OnStrand(c) PROVE Service!Next
  <2>1. CASE InstallRejected(c)
    BY <1>3, <2>1, ReturnDecides DEF InstallRejected, Answers, diskVars
  <2>2. CASE AlreadyInstalled(c)
    BY <1>3, <2>2, ReturnDecides DEF AlreadyInstalled, Answers, diskVars
  <2>3. CASE Phase1SetupFails(c)
    BY <1>3, <2>3, ReturnDecides DEF Phase1SetupFails, Answers, diskVars
  <2>4. CASE Phase1Starts(c)
    BY <1>1, <1>2, <2>4, StartWaits
  <2>5. CASE Close(c)
    BY <1>3, <2>5, CloseAnswers
  <2> QED BY <1>6, <2>1, <2>2, <2>3, <2>4, <2>5 DEF OnStrand, ApplicationInstall
<1>7. ASSUME NEW c \in Calls, Thread(c) PROVE Service!Next
  <2>1. CASE MeasureDisk(c) \/ MeasureFails(c) \/ Admit(c) \/ Refuse(c)
    BY <1>1, <1>2, <2>1, ServiceWaits DEF MeasureDisk, MeasureFails, Admit, Refuse
  <2>2. CASE Phase1Succeeds(c) \/ NotFoundAfterPhase1(c) \/ Phase2Starts(c)
             \/ Phase2Succeeds(c)
    BY <1>1, <1>2, <2>2, ServiceWaits
    DEF Phase1Succeeds, NotFoundAfterPhase1, Phase2Starts, Phase2Succeeds
  <2>3. CASE Phase1Fails(c) \/ Phase2Fails(c)
    BY <1>3, <2>3, ThreadDecides DEF Phase1Fails, Phase2Fails, Answers
  <2>4. CASE FoundAfterPhase1(c) \/ Phase2SetupFails(c) \/ Verify(c)
    BY <1>3, <2>4, ThreadDecides
    DEF FoundAfterPhase1, Phase2SetupFails, Verify, Answers, diskVars
  <2> QED BY <1>7, <2>1, <2>2, <2>3, <2>4 DEF Thread
<1>8. ASSUME NEW a \in AppIds, Uninstalled(a) PROVE Service!Next
  BY <1>1, <1>2, <1>8, ServiceSame DEF Uninstalled
<1>9. CASE UNCHANGED vars
  BY <1>1, <1>2, <1>9, ServiceSame DEF vars
<1> QED BY <1>4, <1>5, <1>6, <1>7, <1>8, <1>9 DEF Next

\* ApplicationInstall with its threads, its strand and its tracker keeps the
\* promise to the caller: a call is decided once, "ok" only while the
\* application is installed, and answered with what was decided.
THEOREM InstallKeepsPromise == Spec => Service!Spec
BY ClosingInit, ClosingStep, ServiceInit, ServiceStep, PTL DEF Spec, Service!Spec
=============================================================================
