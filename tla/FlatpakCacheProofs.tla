-------------------------- MODULE FlatpakCacheProofs --------------------------
(***************************************************************************)
(* Proofs about FlatpakCache, for any number of keys and callers.  The      *)
(* bound on the staleness of a hit needs an invariant that relates the      *)
(* expiry of an entry to the time its data changed (EntriesBounded), and    *)
(* for that one about results on their way to the database (FetchedNow).    *)
(* A forced refresh needs one about what a query could still find           *)
(* (NothingOlder).                                                          *)
(***************************************************************************)
EXTENDS FlatpakCache, TLAPS

\* What an entry holds was replaced, if at all, at most TTL before it expires.
EntriesBounded ==
    \A k \in Keys :
        db[k] # NoEntry =>
            /\ db[k].expiry <= clock + TTL
            /\ db[k].value <= Version(k)
            /\ db[k].value < Version(k)
                 => db[k].expiry <= changed[k][db[k].value + 1] + TTL

\* A fetched result that is not stored yet can only have been replaced now.
FetchedNow ==
    \A c \in Callers :
        LET k == call[c].key
            v == call[c].value
        IN  call[c].pc = "store" =>
                /\ v <= Version(k)
                /\ v < Version(k) => changed[k][v + 1] = clock

IInv == TypeOK /\ EntriesBounded /\ FetchedNow

-----------------------------------------------------------------------------
(* What the steps do to the data. *)

CallRecord == [pc : Locations, key : Keys, since : Nat, value : Nat,
               spoilt : SUBSET Spoilers]

\* NoCall is a call.
LEMMA NoCallType ==
    NoCall \in CallRecord
BY CacheAssumption DEF NoCall, Locations, CallRecord

\* A clean-up keeps entries or drops them.
LEMMA UnexpiredDrops ==
    ASSUME NEW k \in Keys
    PROVE  Unexpired[k] = db[k] \/ Unexpired[k] = NoEntry
BY DEF Unexpired

\* Versions are numbers.
LEMMA VersionType ==
    ASSUME TypeOK, NEW k \in Keys
    PROVE  Version(k) \in Nat
<1>1. changed[k] \in Seq(Nat)
  BY DEF TypeOK
<1> QED BY <1>1 DEF Version

\* TypeOK holds in the beginning.
LEMMA InitType == Init => IInv
<1> SUFFICES ASSUME Init PROVE IInv
  OBVIOUS
<1>1. TypeOK
  <2>1. <<>> \in Seq(Nat)
    OBVIOUS
  <2>2. call \in [Callers -> CallRecord]
    BY NoCallType DEF Init
  <2> QED BY <2>1, <2>2 DEF Init, TypeOK, Policies, CallRecord
<1>2. EntriesBounded
  BY DEF Init, EntriesBounded
<1>3. FetchedNow
  BY DEF Init, FetchedNow, NoCall
<1> QED BY <1>1, <1>2, <1>3 DEF IInv

\* A store ends the query of its caller and may spoil the others.
LEMMA StoreCalls ==
    ASSUME TypeOK, NEW c \in Callers, Store(c)
    PROVE  /\ call' \in [Callers -> CallRecord]
           /\ call[c].pc = "store"
           /\ call'[c] = [call[c] EXCEPT !.pc = "fresh"]
           /\ \A d \in Callers \ {c} :
                /\ \/ call'[d] = call[d]
                   \/ call'[d] = [call[d] EXCEPT !.spoilt = @ \cup {"overtaken"}]
                /\ d \in Overtaken(c) => \/ db' = db
                                         \/ call'[d].spoilt # {}
<1> USE DEF TypeOK, CallRecord
<1>0. /\ "fresh" \in Locations /\ "overtaken" \in Spoilers
  BY DEF Locations, Spoilers
<1>1. CASE Move(c, "store", "fresh") /\ UNCHANGED db
  BY <1>0, <1>1 DEF Move
<1>2. CASE call' = [d \in Callers |->
                      IF d = c THEN [call[c] EXCEPT !.pc = "fresh"]
                      ELSE IF d \in Overtaken(c)
                        THEN [call[d] EXCEPT !.spoilt = @ \cup {"overtaken"}]
                        ELSE call[d]]
  <2>1. /\ call'[c] = [call[c] EXCEPT !.pc = "fresh"]
        /\ \A d \in Callers \ {c} :
              call'[d] = IF d \in Overtaken(c)
                           THEN [call[d] EXCEPT !.spoilt = @ \cup {"overtaken"}]
                           ELSE call[d]
    BY <1>2
  <2>2. \A d \in Callers : call'[d] \in CallRecord
    <3>1. call'[c] \in CallRecord
      BY <1>0, <2>1
    <3>2. ASSUME NEW d \in Callers \ {c} PROVE call'[d] \in CallRecord
      <4>1. call[d] \in CallRecord
        OBVIOUS
      <4>2. call[d].spoilt \cup {"overtaken"} \in SUBSET Spoilers
        BY <1>0
      <4>3. [call[d] EXCEPT !.spoilt = @ \cup {"overtaken"}] \in CallRecord
        BY <4>1, <4>2
      <4> QED BY <2>1, <4>1, <4>3
    <3> QED BY <3>1, <3>2
  <2>3. call' \in [Callers -> CallRecord]
    BY <1>2, <2>2
  <2>4. call[c].pc = "store"
    BY DEF Store
  <2>5. ASSUME NEW d \in Callers \ {c}, d \in Overtaken(c) PROVE call'[d].spoilt # {}
    <3>1. call[d] \in CallRecord
      OBVIOUS
    <3>2. call'[d] = [call[d] EXCEPT !.spoilt = @ \cup {"overtaken"}]
      BY <2>1, <2>5
    <3> QED BY <3>1, <3>2
  <2> HIDE DEF TypeOK, CallRecord
  <2> QED BY <2>1, <2>3, <2>4, <2>5
<1> QED BY <1>1, <1>2 DEF Store

\* A step of one query leaves the others where they are.
LEMMA OthersStay ==
    ASSUME TypeOK, NEW c \in Callers, Caller(c), NEW d \in Callers \ {c}
    PROVE  \/ call'[d] = call[d]
           \/ call'[d] = [call[d] EXCEPT !.spoilt = @ \cup {"overtaken"}]
<1>1. CASE Store(c)
  BY <1>1, StoreCalls
<1>2. ASSUME ~Store(c) PROVE call'[d] = call[d]
  BY <1>2 DEF TypeOK, Caller, Query, QueryForced, LookUp, Fetch, FetchFails, FallBack,
              Return, Hit, Miss, Move
<1> QED BY <1>1, <1>2

\* The queries keep the types.
LEMMA CallerType ==
    ASSUME TypeOK, NEW c \in Callers, Caller(c) PROVE TypeOK'
<1>0. clock \in Nat /\ call[c].value \in Nat /\ clock + TTL \in Nat
  <2>1. clock \in Nat /\ call[c].value \in Nat
    BY DEF TypeOK
  <2> QED BY <2>1, CacheAssumption
<1> USE DEF TypeOK, CallRecord, world, cleanup
<1>1. ASSUME NEW k \in Keys, Query(c, k) PROVE TypeOK'
  <2>1. [NoCall EXCEPT !.pc = "perform", !.key = k]
            \in CallRecord
    BY NoCallType DEF Locations
  <2> QED BY <1>1, <2>1 DEF Query
<1>2. ASSUME NEW k \in Keys, QueryForced(c, k) PROVE TypeOK'
  <2>1. Version(k) \in Nat
    BY VersionType
  <2>2. /\ [NoCall EXCEPT !.pc = "perform", !.key = k, !.since = Version(k)]
              \in CallRecord
        /\ [NoCall EXCEPT !.pc = "perform", !.key = k, !.since = Version(k),
                          !.spoilt = {"undeleted"}]
              \in CallRecord
    BY NoCallType, <2>1 DEF Locations, Spoilers
  <2>3. InvalidateKey(k) \in [Keys -> Entry \cup {NoEntry}]
    BY DEF InvalidateKey
  <2> QED BY <1>2, <2>2, <2>3 DEF QueryForced
<1>3. ASSUME NEW from \in Locations, Hit(c, from)
      PROVE  call' \in [Callers -> CallRecord]
  <2>1. db[call[c].key].value \in Nat
    BY <1>3 DEF Hit, Entry
  <2>2. "hit" \in Locations
    BY DEF Locations
  <2>3. call[c] \in CallRecord
    OBVIOUS
  <2>4. [call[c] EXCEPT !.pc = "hit", !.value = db[call[c].key].value] \in CallRecord
    BY <2>1, <2>2, <2>3
  <2>5. call' = [call EXCEPT ![c] = [call[c] EXCEPT !.pc = "hit",
                                         !.value = db[call[c].key].value]]
    BY <1>3 DEF Hit
  <2>6. call \in [Callers -> CallRecord]
    OBVIOUS
  <2> HIDE DEF TypeOK, CallRecord
  <2> QED BY <2>4, <2>5, <2>6
<1>4. ASSUME NEW from, NEW to \in Locations, Move(c, from, to)
      PROVE  call' \in [Callers -> CallRecord]
  BY <1>4 DEF Move
<1>5. CASE LookUp(c)
  <2>1. call' \in [Callers -> CallRecord]
    BY <1>3, <1>4, <1>5 DEF LookUp, Miss, Locations
  <2> QED BY <1>5, <2>1 DEF LookUp
<1>6. CASE Fetch(c)
  <2>1. Version(call[c].key) \in Nat
    BY VersionType
  <2>2. (IF call[c].pc = "fetch and store" THEN "store" ELSE "fresh") \in Locations
    BY DEF Locations
  <2>3. call' \in [Callers -> CallRecord]
    BY <1>6, <2>1, <2>2 DEF Fetch
  <2> QED BY <1>6, <2>3 DEF Fetch
<1>7. CASE FetchFails(c)
  BY <1>7 DEF FetchFails, Locations
<1>8. CASE FallBack(c)
  <2>1. call' \in [Callers -> CallRecord]
    BY <1>3, <1>4, <1>8 DEF FallBack, Miss, Locations
  <2> QED BY <1>8, <2>1 DEF FallBack
<1>9. CASE Store(c)
  <2>1. call' \in [Callers -> CallRecord]
    BY <1>9, StoreCalls
  <2>2. [value |-> call[c].value, expiry |-> clock + TTL] \in Entry
    BY <1>0 DEF Entry
  <2>3. db' \in [Keys -> Entry \cup {NoEntry}]
    BY <1>9, <2>2 DEF Store, Stored
  <2> QED BY <1>9, <2>1, <2>3 DEF Store
<1>10. CASE Return(c)
  BY <1>10, NoCallType DEF Return
<1> QED BY <1>1, <1>2, <1>5, <1>6, <1>7, <1>8, <1>9, <1>10 DEF Caller

\* So do all the other steps.
LEMMA NextType == TypeOK /\ [Next]_vars => TypeOK'
<1> SUFFICES ASSUME TypeOK, [Next]_vars PROVE TypeOK'
  OBVIOUS
<1>0. clock + 1 \in Nat /\ \A k \in Keys : Append(changed[k], clock) \in Seq(Nat)
  <2>1. clock \in Nat /\ \A k \in Keys : changed[k] \in Seq(Nat)
    BY DEF TypeOK
  <2> QED BY <2>1
<1> USE DEF TypeOK, CallRecord, world, cleanup
<1>a. Unexpired \in [Keys -> Entry \cup {NoEntry}]
  BY DEF Unexpired
<1>1. ASSUME NEW c \in Callers, Caller(c) PROVE TypeOK'
  BY <1>1, CallerType
<1>2. ASSUME NEW p \in Policies, SetCachePolicy(p) PROVE TypeOK'
  BY <1>2 DEF SetCachePolicy
<1>3. CASE InvalidateAll
  BY <1>3 DEF InvalidateAll
<1>4. CASE ForceCleanup
  BY <1>4, <1>a DEF ForceCleanup, CleanupExpired
<1>5. CASE Worker
  BY <1>5, <1>a DEF Worker, WorkerTests, WorkerSleeps, WorkerTimesOut, WorkerCleans,
                    CleanupExpired
<1>6. CASE Destroy \/ NotifyAll \/ Join
  BY <1>6 DEF Destroy, NotifyAll, Join
<1>7. CASE Restart
  BY <1>7, NoCallType DEF Restart, Fresh, Policies
<1>8. ASSUME NEW k \in Keys, Change(k) PROVE TypeOK'
  <2>2. changed' \in [Keys -> Seq(Nat)]
    BY <1>0, <1>8 DEF Change
  <2> QED BY <1>8, <2>2 DEF Change
<1>9. CASE Tick
  BY <1>0, <1>9 DEF Tick
<1>10. CASE UNCHANGED vars
  BY <1>10 DEF vars
<1> QED BY <1>1, <1>2, <1>3, <1>4, <1>5, <1>6, <1>7, <1>8, <1>9, <1>10 DEF Next

-----------------------------------------------------------------------------
(* The age of entries. *)

\* A change extends the history and leaves what it holds.
LEMMA ChangeExtends ==
    ASSUME TypeOK, NEW k \in Keys, Change(k), NEW j \in Keys,
           NEW v \in Nat, v <= Version(j)
    PROVE  /\ v <= Len(changed'[j])
           /\ v < Len(changed'[j]) =>
                IF v < Version(j) THEN changed'[j][v + 1] = changed[j][v + 1]
                                  ELSE changed'[j][v + 1] = clock
<1>1. changed[j] \in Seq(Nat) /\ clock \in Nat
  BY DEF TypeOK
<1>2. changed'[j] = IF j = k THEN Append(changed[j], clock) ELSE changed[j]
  BY DEF Change, TypeOK
<1>3. CASE j = k
  <2>1. changed'[j] = Append(changed[j], clock)
    BY <1>2, <1>3
  <2>2. /\ Len(Append(changed[j], clock)) = Len(changed[j]) + 1
        /\ \A i \in 1..Len(changed[j]) : Append(changed[j], clock)[i] = changed[j][i]
        /\ Append(changed[j], clock)[Len(changed[j]) + 1] = clock
    BY <1>1
  <2>3. Len(changed[j]) \in Nat
    BY <1>1
  <2> QED BY <2>1, <2>2, <2>3 DEF Version
<1>4. CASE j # k
  <2>1. changed'[j] = changed[j]
    BY <1>2, <1>4
  <2>2. Len(changed[j]) \in Nat
    BY <1>1
  <2> QED BY <2>1, <2>2 DEF Version
<1> QED BY <1>3, <1>4

\* Entries stay bounded when the history does not change and the database only
\* loses entries.
LEMMA DropsKeepBound ==
    ASSUME TypeOK, EntriesBounded, UNCHANGED changed, clock' \in {clock, clock + 1},
           \A k \in Keys : db'[k] = db[k] \/ db'[k] = NoEntry
    PROVE  EntriesBounded'
<1>1. clock \in Nat /\ \A k \in Keys : db[k] # NoEntry => db[k].expiry \in Nat
  BY DEF TypeOK, Entry
<1>2. ASSUME NEW k \in Keys, db[k] # NoEntry PROVE db[k].expiry <= clock' + TTL
  BY <1>1, <1>2, CacheAssumption DEF EntriesBounded
<1> QED BY <1>2 DEF EntriesBounded, Version

\* A step of a query preserves the two bounds.
LEMMA CallerBound ==
    ASSUME IInv, NEW c \in Callers, Caller(c)
    PROVE  EntriesBounded' /\ FetchedNow'
<1>1. TypeOK /\ EntriesBounded /\ FetchedNow
  BY DEF IInv
<1>2. UNCHANGED world
  BY DEF Caller, Query, QueryForced, LookUp, Fetch, FetchFails, FallBack, Store, Return
<1>3. \A d \in Callers : d # c => /\ call'[d].pc = call[d].pc
                                  /\ call'[d].key = call[d].key
                                  /\ call'[d].value = call[d].value
  <2> SUFFICES ASSUME NEW d \in Callers, d # c
               PROVE  /\ call'[d].pc = call[d].pc
                      /\ call'[d].key = call[d].key
                      /\ call'[d].value = call[d].value
    OBVIOUS
  <2>1. call[d] \in CallRecord
    BY <1>1 DEF TypeOK, CallRecord
  <2>2. \/ call'[d] = call[d]
        \/ call'[d] = [call[d] EXCEPT !.spoilt = @ \cup {"overtaken"}]
    BY <1>1, OthersStay
  <2> QED BY <2>1, <2>2 DEF CallRecord
<1>4. ASSUME call'[c].pc # "store" PROVE FetchedNow'
  BY <1>1, <1>2, <1>3, <1>4 DEF FetchedNow, Version, world
<1>5. ASSUME UNCHANGED db PROVE EntriesBounded'
  BY <1>1, <1>2, <1>5, DropsKeepBound DEF world
<1>6. ASSUME NEW k \in Keys, Query(c, k) PROVE EntriesBounded' /\ FetchedNow'
  <2>1. call'[c].pc # "store"
    BY <1>1, <1>6 DEF Query, TypeOK, NoCall
  <2> QED BY <1>4, <1>5, <1>6, <2>1 DEF Query
<1>7. ASSUME NEW k \in Keys, QueryForced(c, k) PROVE EntriesBounded' /\ FetchedNow'
  <2>1. call'[c].pc # "store"
    BY <1>1, <1>7 DEF QueryForced, TypeOK, NoCall
  <2>2. \A j \in Keys : db'[j] = db[j] \/ db'[j] = NoEntry
    BY <1>1, <1>7 DEF QueryForced, InvalidateKey, TypeOK
  <2> QED BY <1>1, <1>2, <1>4, <2>1, <2>2, DropsKeepBound DEF world
<1>8. CASE LookUp(c)
  <2>1. call'[c].pc # "store"
    BY <1>1, <1>8 DEF LookUp, Hit, Miss, Move, TypeOK
  <2> QED BY <1>4, <1>5, <1>8, <2>1 DEF LookUp
<1>9. CASE Fetch(c)
  <2>1. /\ call'[c].key = call[c].key
        /\ call'[c].value = Version(call[c].key)
    BY <1>1, <1>9 DEF Fetch, TypeOK
  <2>2. Version(call[c].key) \in Nat
    BY <1>1, VersionType DEF TypeOK
  <2>3. FetchedNow'
    BY <1>1, <1>2, <1>3, <2>1, <2>2 DEF FetchedNow, Version, world
  <2> QED BY <1>5, <1>9, <2>3 DEF Fetch
<1>10. CASE FetchFails(c)
  <2>1. call'[c].pc # "store"
    BY <1>1, <1>10 DEF FetchFails, TypeOK
  <2> QED BY <1>4, <1>5, <1>10, <2>1 DEF FetchFails
<1>11. CASE FallBack(c)
  <2>1. call'[c].pc # "store"
    BY <1>1, <1>11 DEF FallBack, Hit, Miss, Move, TypeOK
  <2> QED BY <1>4, <1>5, <1>11, <2>1 DEF FallBack
<1>12. CASE Store(c)
  <2>1. call'[c].pc # "store"
    <3>1. call[c] \in CallRecord /\ call'[c] = [call[c] EXCEPT !.pc = "fresh"]
      BY <1>1, <1>12, StoreCalls DEF TypeOK, CallRecord
    <3> QED BY <3>1 DEF CallRecord
  <2> DEFINE k == call[c].key
             e == [value |-> call[c].value, expiry |-> clock + TTL]
  <2>2. k \in Keys
    BY <1>1 DEF TypeOK
  <2>3. CASE db' = [db EXCEPT ![k] = e]
    <3>1. \A j \in Keys : db'[j] = IF j = k THEN e ELSE db[j]
      BY <1>1, <2>3 DEF TypeOK
    <3>2. /\ e.value <= Version(k)
          /\ e.value < Version(k) => changed[k][e.value + 1] = clock
      BY <1>1, <1>12 DEF FetchedNow, Store, Move
    <3>3. clock + TTL <= clock + TTL
      <4>1. clock \in Nat
        BY <1>1 DEF TypeOK
      <4> QED BY <4>1, CacheAssumption
    <3> QED BY <1>1, <1>2, <1>4, <2>1, <3>1, <3>2, <3>3 DEF EntriesBounded, Version, world
  <2>4. CASE UNCHANGED db
    BY <1>4, <1>5, <2>1, <2>4
  <2> QED BY <1>12, <2>3, <2>4 DEF Store, Stored
<1>13. CASE Return(c)
  <2>1. call'[c].pc # "store"
    BY <1>1, <1>13 DEF Return, TypeOK, NoCall
  <2> QED BY <1>4, <1>5, <1>13, <2>1 DEF Return
<1> QED BY <1>6, <1>7, <1>8, <1>9, <1>10, <1>11, <1>12, <1>13 DEF Caller

\* Every step preserves the invariant.
LEMMA NextBound == IInv /\ [Next]_vars => IInv'
<1> SUFFICES ASSUME IInv, [Next]_vars PROVE EntriesBounded' /\ FetchedNow'
  BY NextType DEF IInv
<1>0. TypeOK /\ EntriesBounded /\ FetchedNow
  BY DEF IInv
<1>1. ASSUME NEW c \in Callers, Caller(c) PROVE EntriesBounded' /\ FetchedNow'
  BY <1>1, CallerBound
<1>2. ASSUME UNCHANGED changed, clock' \in {clock, clock + 1},
             \A k \in Keys : db'[k] = db[k] \/ db'[k] = NoEntry
      PROVE  EntriesBounded'
  BY <1>0, <1>2, DropsKeepBound
<1>3. ASSUME UNCHANGED <<changed, clock, call>> PROVE FetchedNow'
  BY <1>0, <1>3 DEF FetchedNow, Version
<1>4. ASSUME NEW p \in Policies, SetCachePolicy(p) PROVE EntriesBounded' /\ FetchedNow'
  BY <1>2, <1>3, <1>4 DEF SetCachePolicy, world
<1>5. CASE InvalidateAll
  BY <1>2, <1>3, <1>5 DEF InvalidateAll, world
<1>6. ASSUME CleanupExpired, UNCHANGED <<world, call>>
      PROVE  EntriesBounded' /\ FetchedNow'
  <2>1. \A k \in Keys : db'[k] = db[k] \/ db'[k] = NoEntry
    BY <1>6, UnexpiredDrops DEF CleanupExpired
  <2> QED BY <1>2, <1>3, <1>6, <2>1 DEF world
<1>7. CASE ForceCleanup
  BY <1>6, <1>7 DEF ForceCleanup
<1>8. CASE Worker
  <2>1. ASSUME UNCHANGED <<world, db, call>> PROVE EntriesBounded' /\ FetchedNow'
    BY <1>2, <1>3, <2>1 DEF world
  <2> QED BY <1>6, <1>8, <2>1 DEF Worker, WorkerTests, WorkerSleeps, WorkerTimesOut,
                                   WorkerCleans
<1>9. CASE Destroy \/ NotifyAll \/ Join
  BY <1>2, <1>3, <1>9 DEF Destroy, NotifyAll, Join, world
<1>10. CASE Restart
  <2>1. FetchedNow'
    BY <1>10 DEF Restart, Fresh, NoCall, FetchedNow
  <2> QED BY <1>2, <1>10, <2>1 DEF Restart, world
<1>11. ASSUME NEW k \in Keys, Change(k) PROVE EntriesBounded' /\ FetchedNow'
  <2>1. UNCHANGED <<db, call, clock>>
    BY <1>11 DEF Change
  <2>2. ASSUME NEW j \in Keys, db[j] # NoEntry
        PROVE  /\ db[j].expiry <= clock + TTL
               /\ db[j].value <= Len(changed'[j])
               /\ db[j].value < Len(changed'[j])
                    => db[j].expiry <= changed'[j][db[j].value + 1] + TTL
    <3>1. db[j].value \in Nat
      BY <1>0, <2>2 DEF TypeOK, Entry
    <3>2. /\ db[j].expiry <= clock + TTL
          /\ db[j].value <= Version(j)
          /\ db[j].value < Version(j) => db[j].expiry <= changed[j][db[j].value + 1] + TTL
      BY <1>0, <2>2 DEF EntriesBounded
    <3> QED BY <1>0, <1>11, <3>1, <3>2, ChangeExtends
  <2>3. ASSUME NEW c \in Callers, call[c].pc = "store"
        PROVE  /\ call[c].value <= Len(changed'[call[c].key])
               /\ call[c].value < Len(changed'[call[c].key])
                    => changed'[call[c].key][call[c].value + 1] = clock
    <3>1. call[c].key \in Keys /\ call[c].value \in Nat
      BY <1>0 DEF TypeOK
    <3>2. /\ call[c].value <= Version(call[c].key)
          /\ call[c].value < Version(call[c].key)
               => changed[call[c].key][call[c].value + 1] = clock
      BY <1>0, <2>3 DEF FetchedNow
    <3> QED BY <1>0, <1>11, <3>1, <3>2, ChangeExtends
  <2> QED BY <2>1, <2>2, <2>3 DEF EntriesBounded, FetchedNow, Version
<1>12. CASE Tick
  <2>1. /\ UNCHANGED <<changed, db, call>> /\ clock' = clock + 1
        /\ \A c \in Callers : call[c].pc # "store"
    BY <1>12 DEF Tick
  <2> QED BY <1>2, <2>1 DEF FetchedNow
<1>13. CASE UNCHANGED vars
  BY <1>2, <1>3, <1>13 DEF vars, world
<1> QED BY <1>1, <1>4, <1>5, <1>7, <1>8, <1>9, <1>10, <1>11, <1>12, <1>13 DEF Next

-----------------------------------------------------------------------------
(* The theorems. *)

LEMMA Invariant == Spec => []IInv
BY InitType, NextBound, PTL DEF Spec

\* The variables stay in their types.
THEOREM TypeCorrect == Spec => []TypeOK
<1>1. IInv => TypeOK
  BY DEF IInv
<1> QED BY <1>1, Invariant, PTL

\* However many threads query the cache, and across restarts, the data that a
\* hit returns was replaced less than default_ttl ago.
THEOREM HitsAreRecent == Spec => HitsWithinTTL
<1> DEFINE A == \A c \in Callers :
                  LET k == call'[c].key
                      v == call'[c].value
                  IN  call'[c].pc = "hit" /\ call[c].pc # "hit" /\ v < Version(k)
                        => clock - changed[k][v + 1] < TTL
<1>1. IInv /\ [Next]_vars => [A]_vars
  <2> SUFFICES ASSUME IInv, Next, NEW c \in Callers,
                      call'[c].pc = "hit", call[c].pc # "hit",
                      call'[c].value < Version(call'[c].key)
               PROVE  clock - changed[call'[c].key][call'[c].value + 1] < TTL
    OBVIOUS
  <2>0. TypeOK /\ EntriesBounded
    BY DEF IInv
  <2>1. ASSUME NEW d \in Callers, Caller(d) PROVE d = c /\ (LookUp(c) \/ FallBack(c))
    <3>1. d = c
      <4> SUFFICES ASSUME d # c PROVE FALSE
        OBVIOUS
      <4>1. call[c] \in CallRecord
        BY <2>0 DEF TypeOK, CallRecord
      <4>2. \/ call'[c] = call[c]
            \/ call'[c] = [call[c] EXCEPT !.spoilt = @ \cup {"overtaken"}]
        BY <2>0, <2>1, OthersStay
      <4>3. call'[c].pc = call[c].pc
        BY <4>1, <4>2 DEF CallRecord
      <4> QED BY <4>3
    <3>2. ~(\E k \in Keys : Query(d, k) \/ QueryForced(d, k))
      <4>1. ~(\E k \in Keys : Query(d, k))
        BY <2>0, <3>1 DEF TypeOK, Query, NoCall
      <4>2. ~(\E k \in Keys : QueryForced(d, k))
        <5> SUFFICES ASSUME NEW k \in Keys, QueryForced(d, k) PROVE FALSE
          OBVIOUS
        <5>1. CASE call' = [call EXCEPT ![c] = [NoCall EXCEPT !.pc = "perform", !.key = k,
                                                     !.since = Version(k)]]
          BY <2>0, <5>1 DEF TypeOK, NoCall
        <5>2. CASE call' = [call EXCEPT ![c] = [NoCall EXCEPT !.pc = "perform", !.key = k,
                                                     !.since = Version(k),
                                                     !.spoilt = {"undeleted"}]]
          BY <2>0, <5>2 DEF TypeOK, NoCall
        <5> QED BY <3>1, <5>1, <5>2 DEF QueryForced
      <4> QED BY <4>1, <4>2
    <3>3. ASSUME NEW r, NEW p, call' = [call EXCEPT ![c] = r], r.pc = p
          PROVE  p = "hit"
      BY <2>0, <3>3 DEF TypeOK
    <3>4. ASSUME NEW p, NEW v, \/ call' = [call EXCEPT ![c].pc = p]
                               \/ call' = [call EXCEPT ![c].pc = p, ![c].value = v]
          PROVE  p = "hit"
      BY <2>0, <3>4 DEF TypeOK
    <3>5. ~Fetch(d)
      <4> SUFFICES ASSUME Fetch(d) PROVE FALSE
        OBVIOUS
      <4> DEFINE p == IF call[c].pc = "fetch and store" THEN "store" ELSE "fresh"
      <4>1. call' = [call EXCEPT ![c].pc = p, ![c].value = Version(call[c].key)]
        BY <3>1 DEF Fetch
      <4>2. p # "hit"
        OBVIOUS
      <4> HIDE DEF p
      <4> QED BY <3>4, <4>1, <4>2
    <3>6. ~FetchFails(d)
      BY <3>1, <3>4 DEF FetchFails
    <3>7. ~Store(d)
      BY <2>0, <3>1, StoreCalls DEF TypeOK
    <3>8. ~Return(d)
      BY <3>1, <3>3 DEF Return, NoCall
    <3> QED BY <2>1, <3>1, <3>2, <3>5, <3>6, <3>7, <3>8 DEF Caller
  <2>2. call' # call
    OBVIOUS
  <2>3. ~Restart
    BY DEF Restart, Fresh, NoCall
  <2>4. LookUp(c) \/ FallBack(c)
    BY <2>1, <2>2, <2>3 DEF Next, SetCachePolicy, InvalidateAll, ForceCleanup, Worker,
         WorkerTests, WorkerSleeps, WorkerTimesOut, WorkerCleans, Destroy, NotifyAll,
         Join, Change, Tick
  <2>5. PICK from : Hit(c, from)
    BY <2>0, <2>4 DEF LookUp, FallBack, Miss, Move, TypeOK
  <2> DEFINE k == call[c].key
  <2>6. /\ k \in Keys /\ db[k] # NoEntry /\ clock < db[k].expiry
        /\ call'[c].key = k /\ call'[c].value = db[k].value
    BY <2>0, <2>5 DEF Hit, Live, TypeOK
  <2>7. db[k].expiry <= changed[k][db[k].value + 1] + TTL
    BY <2>0, <2>6 DEF EntriesBounded
  <2>8. /\ clock \in Nat /\ TTL \in Nat /\ db[k].expiry \in Nat
        /\ changed[k][db[k].value + 1] \in Nat
    <3>1. changed[k] \in Seq(Nat) /\ db[k].value \in Nat /\ db[k].expiry \in Nat
      BY <2>0, <2>6 DEF TypeOK, Entry
    <3>2. db[k].value + 1 \in 1..Len(changed[k])
      BY <2>6, <3>1 DEF Version
    <3>3. changed[k][db[k].value + 1] \in Nat
      <4>1. \A s \in Seq(Nat) : \A i \in 1..Len(s) : s[i] \in Nat
        OBVIOUS
      <4> QED BY <3>1, <3>2, <4>1
    <3>4. clock \in Nat
      BY <2>0 DEF TypeOK
    <3> QED BY <3>1, <3>3, <3>4, CacheAssumption
  <2> QED BY <2>6, <2>7, <2>8
<1>2. Spec => [][A]_vars
  BY <1>1, Invariant, PTL DEF Spec
<1> QED BY <1>2 DEF HitsWithinTTL

-----------------------------------------------------------------------------
(* Forced refreshes. *)

\* What a query has fetched is not older than its forced refresh, nor is what it
\* has found or could still find, unless it is spoilt.
NothingOlder(c) ==
    LET k == call[c].key
    IN  /\ call[c].since <= Version(k)
        /\ call[c].pc \in {"store", "fresh"} => call[c].value >= call[c].since
        /\ \/ call[c].spoilt # {}
           \/ /\ call[c].pc = "hit" => call[c].value >= call[c].since
              /\ call[c].pc \in Fetching \cup {"perform", "fall back"} /\ db[k] # NoEntry
                    => db[k].value >= call[c].since

ForcedInv(c) == TypeOK /\ NothingOlder(c)

\* A call in hand keeps the invariant when versions only grow and its key's
\* entry stays or goes.
LEMMA OthersKeep ==
    ASSUME NEW c \in Callers, ForcedInv(c), TypeOK', call'[c] = call[c],
           NEW k, k = call[c].key, Len(changed'[k]) >= Len(changed[k]),
           db'[k] = db[k] \/ db'[k] = NoEntry
    PROVE  ForcedInv(c)'
<1>1. k \in Keys /\ call[c].since \in Nat /\ k = call'[c].key
  BY DEF ForcedInv, TypeOK
<1>2. Len(changed[k]) \in Nat /\ Len(changed'[k]) \in Nat
  <2>1. changed[k] \in Seq(Nat) /\ changed'[k] \in Seq(Nat)
    BY <1>1 DEF ForcedInv, TypeOK
  <2> QED BY <2>1
<1>3. call[c].since <= Len(changed'[k])
  <2>1. NothingOlder(c)
    BY DEF ForcedInv
  <2>2. call[c].since <= Len(changed[k])
    BY <2>1 DEF NothingOlder, Version
  <2> QED BY <1>1, <1>2, <2>2
<1> QED BY <1>1, <1>3 DEF ForcedInv, NothingOlder, Version

\* The store of another query: it brings no older entry, or spoils the call.
LEMMA OtherStores ==
    ASSUME NEW c \in Callers, ForcedInv(c), TypeOK', NEW d \in Callers \ {c}, Store(d)
    PROVE  ForcedInv(c)'
<1> DEFINE k == call[c].key
<1>0. TypeOK
  BY DEF ForcedInv
<1>1. /\ k \in Keys /\ call[c].since \in Nat /\ call[d].value \in Nat
      /\ call[c].spoilt \subseteq Spoilers /\ call[d].key \in Keys
  BY <1>0 DEF TypeOK
<1>2. /\ \/ call'[c] = call[c]
         \/ call'[c] = [call[c] EXCEPT !.spoilt = @ \cup {"overtaken"}]
      /\ c \in Overtaken(d) => db' = db \/ call'[c].spoilt # {}
  BY <1>0, StoreCalls
<1>3. /\ call'[c].pc = call[c].pc /\ call'[c].key = k
      /\ call'[c].since = call[c].since /\ call'[c].value = call[c].value
      /\ call[c].spoilt \subseteq call'[c].spoilt
  BY <1>0, <1>2 DEF TypeOK
<1>4. changed' = changed
  BY DEF Store, world
<1>5. Version(call[c].key)' = Version(k)
  BY <1>3, <1>4 DEF Version
<1>6. \/ db'[k] = db[k]
      \/ call'[c].spoilt # {}
      \/ db'[k] # NoEntry /\ db'[k].value >= call[c].since
  <2>1. CASE db' = db
    BY <2>1
  <2>2. CASE db' = Stored(d) /\ call[d].key # k
    BY <1>0, <1>1, <2>2 DEF Stored, TypeOK
  <2>3. CASE db' = Stored(d) /\ call[d].key = k
    <3>1. db'[k] = [value |-> call[d].value, expiry |-> clock + TTL]
      BY <1>0, <1>1, <2>3 DEF Stored, TypeOK
    <3>2. db'[k] # NoEntry
      <4>1. clock \in Nat /\ TTL \in Nat
        BY <1>0, CacheAssumption DEF TypeOK
      <4>2. [value |-> call[d].value, expiry |-> clock + TTL]
                \in [value : Nat, expiry : Nat]
        BY <1>1, <4>1
      <4> QED BY <3>1, <4>2, CacheAssumption
    <3>3. db'[k].value = call[d].value
      BY <3>1
    <3>4. CASE call[d].value >= call[c].since
      BY <3>2, <3>3, <3>4
    <3>5. CASE ~(call[d].value >= call[c].since)
      <4>1. c \in Overtaken(d)
        BY <1>1, <2>3, <3>5 DEF Overtaken
      <4> QED BY <1>2, <4>1
    <3> QED BY <3>4, <3>5
  <2> QED BY <2>1, <2>2, <2>3 DEF Store
<1>7. NothingOlder(c)
  BY DEF ForcedInv
<1> HIDE DEF k
<1>8. NothingOlder(c)'
  BY <1>3, <1>5, <1>6, <1>7 DEF NothingOlder, k
<1> QED BY <1>8 DEF ForcedInv

\* A query begins with nothing forced, with an invalidated entry, or spoilt.
LEMMA QueryBegins ==
    ASSUME NEW c \in Callers, TypeOK, TypeOK', NEW k \in Keys,
           Query(c, k) \/ QueryForced(c, k)
    PROVE  ForcedInv(c)'
<1>1. Version(k) \in Nat /\ Version(k)' = Version(k)
  BY VersionType DEF Query, QueryForced, world, Version
<1>2. db'[k] = NoEntry \/ db'[k].value \in Nat
  BY DEF TypeOK, Entry
<1>3. call'[c].key = k /\ call'[c].pc = "perform"
  BY DEF Query, QueryForced, TypeOK, NoCall
<1>4. \/ call'[c].since = 0
      \/ call'[c].since = Version(k) /\ db'[k] = NoEntry
      \/ call'[c].since = Version(k) /\ call'[c].spoilt # {}
  <2>1. CASE Query(c, k)
    BY <2>1 DEF Query, TypeOK, NoCall
  <2>2. CASE QueryForced(c, k)
    <3>1. CASE db' = InvalidateKey(k)
               /\ call' = [call EXCEPT ![c] = [NoCall EXCEPT !.pc = "perform", !.key = k,
                                                            !.since = Version(k)]]
      <4>1. db'[k] = NoEntry
        BY <3>1 DEF InvalidateKey, TypeOK
      <4>2. call'[c].since = Version(k)
        BY <3>1 DEF NoCall, TypeOK
      <4> QED BY <4>1, <4>2
    <3>2. CASE call' = [call EXCEPT ![c] = [NoCall EXCEPT !.pc = "perform", !.key = k,
                                                         !.since = Version(k),
                                                         !.spoilt = {"undeleted"}]]
      BY <3>2 DEF NoCall, TypeOK
    <3> QED BY <2>2, <3>1, <3>2 DEF QueryForced
  <2> QED BY <2>1, <2>2
<1>5. Version(call[c].key)' = Version(k)
  BY <1>1, <1>3 DEF Version
<1> QED BY <1>1, <1>2, <1>3, <1>4, <1>5 DEF ForcedInv, NothingOlder

\* A caller without a query.
LEMMA IdleForced ==
    ASSUME NEW c \in Callers, TypeOK', call'[c] = NoCall
    PROVE  ForcedInv(c)'
<1>1. PICK k : k = call'[c].key
  OBVIOUS
<1>2. call'[c].pc = "idle" /\ call'[c].since = 0
  BY DEF NoCall
<1>3. Len(changed'[k]) \in Nat
  <2>1. changed'[k] \in Seq(Nat)
    BY <1>1 DEF TypeOK
  <2> QED BY <2>1
<1> QED BY <1>1, <1>2, <1>3 DEF ForcedInv, NothingOlder, Fetching, Version

\* The other steps of the query.
LEMMA QueryGoesOn ==
    ASSUME NEW c \in Callers, ForcedInv(c), TypeOK',
           \/ LookUp(c) \/ Fetch(c) \/ FetchFails(c) \/ FallBack(c) \/ Store(c)
           \/ Return(c)
    PROVE  ForcedInv(c)'
<1> DEFINE k == call[c].key
<1>1. /\ TypeOK /\ k \in Keys /\ call[c].since \in Nat /\ Version(k) \in Nat
  BY VersionType DEF ForcedInv, TypeOK
<1>2. changed' = changed
  BY DEF LookUp, Fetch, FetchFails, FallBack, Store, Return, world
<1>3. ASSUME call'[c].key = k, call'[c].since = call[c].since,
             call'[c].spoilt = call[c].spoilt,
             call'[c].pc \in {"store", "fresh"} => call'[c].value >= call[c].since,
             \/ call[c].spoilt # {}
             \/ /\ call'[c].pc = "hit" => call'[c].value >= call[c].since
                /\ call'[c].pc \in Fetching \cup {"perform", "fall back"}
                       /\ db'[k] # NoEntry => db'[k].value >= call[c].since
      PROVE  ForcedInv(c)'
  <2>1. call[c].since <= Version(k)
    BY DEF ForcedInv, NothingOlder
  <2>2. Version(call[c].key)' = Version(k)
    BY <1>2, <1>3 DEF Version
  <2> QED BY <1>3, <2>1, <2>2 DEF ForcedInv, NothingOlder
<1>4. ASSUME NEW from \in Fetching \cup {"perform", "fall back"}, Hit(c, from),
             UNCHANGED db
      PROVE  ForcedInv(c)'
  <2>1. /\ call'[c].pc = "hit" /\ call'[c].key = k
        /\ call'[c].since = call[c].since /\ call'[c].value = db[k].value
        /\ call'[c].spoilt = call[c].spoilt
    BY <1>1, <1>4 DEF Hit, TypeOK
  <2>2. db[k].value >= call[c].since \/ call[c].spoilt # {}
    BY <1>4 DEF Hit, ForcedInv, NothingOlder
  <2> QED BY <1>3, <2>1, <2>2 DEF Fetching
<1>5. ASSUME NEW from \in Fetching \cup {"perform", "fall back"},
             NEW to \in Fetching \cup {"fall back", "nothing"},
             Move(c, from, to), UNCHANGED db
      PROVE  ForcedInv(c)'
  <2>1. /\ call'[c].pc = to /\ call'[c].key = k /\ call'[c].since = call[c].since
        /\ call[c].pc = from /\ call'[c].spoilt = call[c].spoilt
    BY <1>1, <1>5 DEF Move, TypeOK
  <2> QED BY <1>3, <1>5, <2>1 DEF ForcedInv, NothingOlder, Fetching
<1>6. CASE LookUp(c)
  BY <1>4, <1>5, <1>6 DEF LookUp, Miss, Fetching
<1>7. CASE Fetch(c)
  <2>1. /\ call'[c].pc \in {"store", "fresh"} /\ call'[c].key = k
        /\ call'[c].since = call[c].since /\ call'[c].value = Version(k)
        /\ call'[c].spoilt = call[c].spoilt
    BY <1>1, <1>7 DEF Fetch, TypeOK
  <2>2. call[c].since <= Version(k)
    BY DEF ForcedInv, NothingOlder
  <2> QED BY <1>1, <1>3, <2>1, <2>2 DEF Fetching
<1>8. CASE FetchFails(c)
  <2> DEFINE to == IF call[c].pc = "fetch or cache" THEN "fall back" ELSE "nothing"
  <2>1. Move(c, call[c].pc, to) /\ UNCHANGED db /\ call[c].pc \in Fetching
    BY <1>8 DEF FetchFails, Move
  <2>2. to \in {"fall back", "nothing"}
    OBVIOUS
  <2> HIDE DEF to
  <2> QED BY <1>5, <2>1, <2>2
<1>9. CASE FallBack(c)
  BY <1>4, <1>5, <1>9 DEF FallBack, Miss
<1>10. CASE Store(c)
  <2>1. /\ call'[c].pc = "fresh" /\ call'[c].key = k
        /\ call'[c].since = call[c].since /\ call'[c].value = call[c].value
        /\ call[c].pc = "store" /\ call'[c].spoilt = call[c].spoilt
    <3>1. /\ call[c] \in CallRecord /\ call[c].pc = "store"
          /\ call'[c] = [call[c] EXCEPT !.pc = "fresh"]
      BY <1>1, <1>10, StoreCalls DEF TypeOK, CallRecord
    <3> QED BY <3>1 DEF CallRecord
  <2> QED BY <1>3, <2>1 DEF ForcedInv, NothingOlder, Fetching
<1>11. CASE Return(c)
  BY <1>1, <1>11, IdleForced DEF Return, TypeOK
<1> QED BY <1>6, <1>7, <1>8, <1>9, <1>10, <1>11

LEMMA ForcedStep ==
    ASSUME NEW c \in Callers, ForcedInv(c), [Next]_vars
    PROVE  ForcedInv(c)'
<1>1. TypeOK /\ TypeOK' /\ c \in Callers
  BY NextType DEF ForcedInv
<1> DEFINE k == call[c].key
<1>2. k \in Keys /\ Version(k) \in Nat
  BY <1>1, VersionType DEF TypeOK
<1>3. ASSUME UNCHANGED <<call, changed>>, \A j \in Keys : db'[j] = db[j] \/ db'[j] = NoEntry
      PROVE  ForcedInv(c)'
  <2>1. Len(changed'[k]) >= Len(changed[k])
    BY <1>2, <1>3 DEF Version
  <2>2. PICK j : j = k
    OBVIOUS
  <2> QED BY <1>1, <1>2, <1>3, <2>1, <2>2, OthersKeep
<1>4. CASE Caller(c)
  BY <1>1, <1>4, QueryBegins, QueryGoesOn DEF Caller
<1>d. ASSUME NEW d \in Callers \ {c}, Caller(d) PROVE ForcedInv(c)'
  <2>1. CASE Store(d)
    BY <1>1, <1>d, <2>1, OtherStores
  <2>2. CASE ~Store(d)
    <3>1. call'[c] = call[c] /\ UNCHANGED changed
      BY <1>1, <1>d, <2>2
      DEF TypeOK, Caller, Query, QueryForced, LookUp, Fetch, FetchFails, FallBack,
          Return, Hit, Miss, Move, world
    <3>2. db'[k] = db[k] \/ db'[k] = NoEntry
      BY <1>1, <1>2, <1>d, <2>2
      DEF TypeOK, Caller, Query, QueryForced, InvalidateKey, LookUp, Fetch,
          FetchFails, FallBack, Return
    <3>3. Len(changed'[k]) >= Len(changed[k])
      BY <1>2, <3>1 DEF Version
    <3>4. PICK j : j = k
      OBVIOUS
    <3> QED BY <1>1, <3>1, <3>2, <3>3, <3>4, OthersKeep
  <2> QED BY <2>1, <2>2
<1>5. ASSUME NEW p \in Policies, SetCachePolicy(p) PROVE ForcedInv(c)'
  BY <1>3, <1>5 DEF SetCachePolicy, world
<1>6. CASE InvalidateAll
  BY <1>3, <1>6 DEF InvalidateAll, world
<1>7. CASE ForceCleanup \/ WorkerCleans
  <2>1. \A j \in Keys : db'[j] = db[j] \/ db'[j] = NoEntry
    BY <1>7, UnexpiredDrops DEF ForceCleanup, WorkerCleans, CleanupExpired
  <2> QED BY <1>3, <1>7, <2>1 DEF ForceCleanup, WorkerCleans, world
<1>8. CASE WorkerTests \/ WorkerSleeps \/ WorkerTimesOut \/ Destroy \/ NotifyAll \/ Join
  BY <1>3, <1>8 DEF WorkerTests, WorkerSleeps, WorkerTimesOut, Destroy, NotifyAll,
                    Join, world
<1>9. CASE Restart
  BY <1>1, <1>9, IdleForced DEF Restart, Fresh
<1>10. ASSUME NEW j \in Keys, Change(j) PROVE ForcedInv(c)'
  <2>1. changed[k] \in Seq(Nat) /\ clock \in Nat
    BY <1>1, <1>2 DEF TypeOK
  <2>2. changed'[k] = changed[k] \/ changed'[k] = Append(changed[k], clock)
    BY <1>1, <1>2, <1>10 DEF Change, TypeOK
  <2>3. Len(changed'[k]) >= Len(changed[k])
    BY <2>1, <2>2
  <2>4. UNCHANGED <<call, db>>
    BY <1>10 DEF Change
  <2>5. PICK i : i = k
    OBVIOUS
  <2> QED BY <1>1, <2>3, <2>4, <2>5, OthersKeep
<1>11. CASE Tick
  BY <1>3, <1>11 DEF Tick
<1>12. CASE UNCHANGED vars
  BY <1>3, <1>12 DEF vars, world
<1> QED
  BY <1>1, <1>4, <1>d, <1>5, <1>6, <1>7, <1>8, <1>9, <1>10, <1>11, <1>12
  DEF Next, Worker

\* However many threads query, a forced refresh answers with nothing older than
\* the call, through every policy, fall-back, failing store and restart, but for a
\* cache hit after its DELETE has failed or another query's older result has been
\* stored since.
THEOREM ForcedRefreshes == Spec => []ForcedIsFresh
<1> DEFINE AllForced == TypeOK /\ \A c \in Callers : ForcedInv(c)
<1>1. Init => AllForced
  <2> SUFFICES ASSUME Init, NEW c \in Callers PROVE ForcedInv(c)
    BY InitType DEF IInv
  <2>1. TypeOK
    BY InitType DEF IInv
  <2>2. call[c].pc = "idle" /\ call[c].since = 0 /\ call[c].key \in Keys
    BY CacheAssumption DEF Init, NoCall
  <2>3. Version(call[c].key) \in Nat
    BY <2>1, <2>2, VersionType
  <2> QED BY <2>1, <2>2, <2>3 DEF ForcedInv, NothingOlder, Fetching
<1>2. AllForced /\ [Next]_vars => AllForced'
  BY NextType, ForcedStep
<1>3. AllForced => ForcedIsFresh
  <2> SUFFICES ASSUME TypeOK, NEW c \in Callers, ForcedInv(c),
                      call[c].pc \in {"hit", "fresh"}, call[c].value < call[c].since
               PROVE  call[c].pc = "hit" /\ call[c].spoilt # {}
    BY DEF ForcedIsFresh
  <2>1. call[c].value \in Nat /\ call[c].since \in Nat
    BY DEF TypeOK
  <2>2. ~(call[c].value >= call[c].since)
    BY <2>1
  <2>3. NothingOlder(c)
    BY DEF ForcedInv
  <2>4. call[c].pc = "hit"
    BY <2>2, <2>3 DEF NothingOlder
  <2> QED BY <2>2, <2>3, <2>4 DEF NothingOlder
<1> QED BY <1>1, <1>2, <1>3, PTL DEF Spec
-----------------------------------------------------------------------------
(* The cleanup thread and the destructor. *)

\* The thread ends only for a destructor, which begins when no query is under way
\* and returns after the thread.
Owned ==
    /\ stop = (destructor # "none")
    /\ worker = "ended" => stop
    /\ destructor # "none" => \A c \in Callers : call[c].pc = "idle"
    /\ destructor = "returned" => worker = "ended"

LEMMA OwnedStep == Owned /\ [Next]_vars => Owned'
<1> SUFFICES ASSUME Owned, [Next]_vars PROVE Owned'
  OBVIOUS
<1> USE DEF Owned, world, cleanup
<1>1. ASSUME NEW c \in Callers, Caller(c) PROVE Owned'
  <2>1. UNCHANGED cleanup
    BY <1>1 DEF Caller, Query, QueryForced, LookUp, Fetch, FetchFails, FallBack, Store, Return
  <2>2. destructor = "none"
    <3>1. ASSUME NEW k \in Keys, Query(c, k) \/ QueryForced(c, k) PROVE destructor = "none"
      BY <3>1 DEF Query, QueryForced
    <3>2. CASE LookUp(c)
      BY <3>2 DEF LookUp, Hit, Miss, Move
    <3>3. CASE Fetch(c) \/ FetchFails(c)
      BY <3>3 DEF Fetch, FetchFails, Fetching
    <3>4. CASE FallBack(c)
      BY <3>4 DEF FallBack, Hit, Miss, Move
    <3>5. CASE Store(c) \/ Return(c)
      BY <3>5 DEF Store, Return, Move
    <3> QED BY <1>1, <3>1, <3>2, <3>3, <3>4, <3>5 DEF Caller
  <2> QED BY <2>1, <2>2
<1>2. ASSUME UNCHANGED <<call, cleanup>> PROVE Owned'
  BY <1>2
<1>3. CASE (\E p \in Policies : SetCachePolicy(p)) \/ InvalidateAll \/ ForceCleanup
  BY <1>2, <1>3 DEF SetCachePolicy, InvalidateAll, ForceCleanup
<1>4. CASE WorkerTests \/ WorkerSleeps \/ WorkerTimesOut \/ WorkerCleans
  BY <1>4 DEF WorkerTests, WorkerSleeps, WorkerTimesOut, WorkerCleans
<1>5. CASE Destroy
  BY <1>5 DEF Destroy
<1>6. CASE NotifyAll \/ Join
  BY <1>6 DEF NotifyAll, Join
<1>7. CASE Restart
  BY <1>7 DEF Restart, Fresh
<1>8. CASE (\E k \in Keys : Change(k)) \/ Tick
  BY <1>2, <1>8 DEF Change, Tick
<1>9. CASE UNCHANGED vars
  BY <1>2, <1>9 DEF vars
<1> QED BY <1>1, <1>3, <1>4, <1>5, <1>6, <1>7, <1>8, <1>9 DEF Next, Worker

LEMMA OwnedAlways == Spec => []Owned
<1>1. Init => Owned
  BY DEF Init, Owned, NoCall
<1> QED BY <1>1, OwnedStep, PTL DEF Spec

\* The cleanup thread ends for the destructor alone, whatever the notification
\* of ~CacheManager finds it doing, and the destructor returns after it
\* (cache_manager.cc:59-65).  So the database is not touched between the end of
\* the destructor and the next process.
THEOREM NothingAfterDestructor ==
    Spec => /\ [](/\ worker = "ended" => destructor # "none"
                  /\ destructor = "returned" => worker = "ended")
            /\ [][destructor = "returned" /\ destructor' = "returned" => db' = db]_vars
<1> DEFINE A == destructor = "returned" /\ destructor' = "returned" => db' = db
<1>1. Owned /\ [Next]_vars => [A]_vars
  <2> SUFFICES ASSUME Owned, Next, destructor = "returned", destructor' = "returned"
               PROVE  db' = db
    OBVIOUS
  <2>1. ASSUME NEW c \in Callers, Caller(c) PROVE FALSE
    <3>1. call[c].pc = "idle"
      BY DEF Owned
    <3> QED BY <2>1, <3>1
          DEF Caller, Query, QueryForced, LookUp, Fetch, FetchFails, FallBack,
              Store, Return, Hit, Miss, Move, Fetching
  <2>2. CASE Worker
    BY <2>2 DEF Owned, Worker, WorkerTests, WorkerSleeps, WorkerTimesOut, WorkerCleans
  <2>3. CASE (\E p \in Policies : SetCachePolicy(p)) \/ InvalidateAll \/ ForceCleanup
    BY <2>3 DEF SetCachePolicy, InvalidateAll, ForceCleanup
  <2>4. CASE Destroy \/ NotifyAll \/ Join \/ Restart
    BY <2>4 DEF Destroy, NotifyAll, Join, Restart
  <2>5. CASE (\E k \in Keys : Change(k)) \/ Tick
    BY <2>5 DEF Change, Tick
  <2> QED BY <2>1, <2>2, <2>3, <2>4, <2>5 DEF Next
<1>2. Owned => /\ worker = "ended" => destructor # "none"
               /\ destructor = "returned" => worker = "ended"
  BY DEF Owned
<1> QED BY <1>1, <1>2, OwnedAlways, PTL DEF Spec

=============================================================================
