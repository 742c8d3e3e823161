----------------------------- MODULE FlatpakCache -----------------------------
(***************************************************************************)
(* The cache in front of libflatpak's queries: CacheManager                 *)
(* (cache/cache_manager.cc) over SQLiteCacheStorage, whose database survives *)
(* the process, with the thread that removes expired entries.               *)
(*                                                                         *)
(* What is cached is abstracted to its version: changed[k][v] is the time   *)
(* at which version v of the data behind key k replaced version v-1.        *)
(* The unit of time is one in which a thread hands a fetched result over to *)
(* the database (Tick); default_ttl is TTL of them.                        *)
(*                                                                         *)
(* flatpak_mutex_ serialises the queries only while they run: the moment a  *)
(* query reads the installation is one step here, and what happens between  *)
(* it and the store is open to the other threads.  storage_mutex_ and       *)
(* db_mutex_ are the atomicity of the steps on the database.  The size the   *)
(* storage reports decides nothing and is left out.                         *)
(***************************************************************************)
EXTENDS Integers, Sequences, FiniteSets

CONSTANTS
    Keys,       \* results of GenerateKey
    Callers,    \* threads that query the cache
    TTL,
    MaxVersion, \* bound on the changes of the data
    MaxClock,   \* bound on the time
    NoEntry

ASSUME CacheAssumption ==
    /\ Keys # {}
    /\ TTL \in Nat \ {0}
    /\ MaxVersion \in Nat
    /\ MaxClock \in Nat
    /\ NoEntry \notin [value : Nat, expiry : Nat]

VARIABLES
    changed,    \* when the data behind each key changed
    clock,
    policy,     \* config_.policy
    db,         \* table cache_entries
    call,       \* the query each caller is in
    worker,     \* the cleanup thread
    stop,       \* stop_cleanup_
    destructor  \* ~CacheManager

world == <<changed, clock>>
cleanup == <<worker, stop, destructor>>
vars == <<world, policy, db, call, cleanup>>

Policies == {"CACHE_FIRST", "NETWORK_FIRST", "CACHE_ONLY", "NETWORK_ONLY"}
Entry == [value : Nat, expiry : Nat]

Version(k) == Len(changed[k])

\* What can bring an old entry before a forced refresh: its own DELETE failed,
\* or another query stored an older result after it.
Spoilers == {"undeleted", "overtaken"}

\* since: the version a forced refresh must not fall behind; spoilt: history,
\* what has spoilt it.
NoCall == [pc |-> "idle", key |-> CHOOSE k \in Keys : TRUE, since |-> 0, value |-> 0,
           spoilt |-> {}]
Move(c, from, to) == call[c].pc = from /\ call' = [call EXCEPT ![c].pc = to]

-----------------------------------------------------------------------------
(* The queries: GetApplicationsInstalled, GetRemotes and the like. *)

Query(c, k) ==
    /\ destructor = "none"
    /\ call[c].pc = "idle"
    /\ call' = [call EXCEPT ![c] = [NoCall EXCEPT !.pc = "perform", !.key = k]]
    /\ UNCHANGED <<world, policy, db, cleanup>>

\* Mutant: only what has expired is deleted.
InvalidateExpired(k) ==
    IF db[k] # NoEntry /\ db[k].expiry <= clock THEN [db EXCEPT ![k] = NoEntry] ELSE db

InvalidateKey(k) == [db EXCEPT ![k] = NoEntry]

\* With force_refresh the entry is deleted first; a failing DELETE is ignored.
QueryForced(c, k) ==
    /\ destructor = "none"
    /\ call[c].pc = "idle"
    /\ \/ /\ db' = InvalidateKey(k)
          /\ call' = [call EXCEPT ![c] = [NoCall EXCEPT !.pc = "perform", !.key = k,
                                                        !.since = Version(k)]]
       \/ /\ call' = [call EXCEPT ![c] = [NoCall EXCEPT !.pc = "perform", !.key = k,
                                                        !.since = Version(k),
                                                        !.spoilt = {"undeleted"}]]
          /\ UNCHANGED db
    /\ UNCHANGED <<world, policy, cleanup>>

\* Mutant: an entry is served in the second it expires.
LiveToTheEnd(e) == clock <= e.expiry

Live(e) == clock < e.expiry

Hit(c, from) ==
    LET e == db[call[c].key]
    IN  /\ call[c].pc = from
        /\ e # NoEntry /\ Live(e)
        /\ call' = [call EXCEPT ![c].pc = "hit", ![c].value = e.value]

\* Nothing there, or nothing that SQLite or the decoder can read.
Miss(c, from, to) == Move(c, from, to)

\* PerformCacheOperation reads the policy and looks the key up, or does not.
LookUp(c) ==
    /\ \/ policy \in {"CACHE_FIRST", "CACHE_ONLY"} /\ Hit(c, "perform")
       \/ policy = "CACHE_ONLY" /\ Miss(c, "perform", "nothing")
       \/ policy = "CACHE_FIRST" /\ Miss(c, "perform", "fetch and store")
       \/ policy = "NETWORK_ONLY" /\ Move(c, "perform", "fetch")
       \/ policy = "NETWORK_FIRST" /\ Move(c, "perform", "fetch or cache")
    /\ UNCHANGED <<world, policy, db, cleanup>>

Fetching == {"fetch", "fetch and store", "fetch or cache"}

\* libflatpak answers.
Fetch(c) ==
    /\ call[c].pc \in Fetching
    /\ call' = [call EXCEPT ![c].pc = IF @ = "fetch and store" THEN "store" ELSE "fresh",
                            ![c].value = Version(call[c].key)]
    /\ UNCHANGED <<world, policy, db, cleanup>>

\* libflatpak fails; NETWORK_FIRST falls back on the cache.
FetchFails(c) ==
    /\ call[c].pc \in Fetching
    /\ call' = [call EXCEPT ![c].pc = IF @ = "fetch or cache" THEN "fall back" ELSE "nothing"]
    /\ UNCHANGED <<world, policy, db, cleanup>>

FallBack(c) ==
    /\ Hit(c, "fall back") \/ Miss(c, "fall back", "nothing")
    /\ UNCHANGED <<world, policy, db, cleanup>>

\* Mutant: the sign of default_ttl.
StoredExpired(c) ==
    [db EXCEPT ![call[c].key] = [value |-> call[c].value, expiry |-> clock - TTL]]

\* INSERT OR REPLACE.
Stored(c) ==
    [db EXCEPT ![call[c].key] = [value |-> call[c].value, expiry |-> clock + TTL]]

\* The forced refreshes for which the result of c is too old.
Overtaken(c) == {d \in Callers \ {c} : /\ call[d].key = call[c].key
                                       /\ call[c].value < call[d].since}

\* CacheData, without storage_mutex_; a failure is only logged.
Store(c) ==
    /\ call[c].pc = "store"
    /\ \/ /\ db' = Stored(c)
          /\ call' = [d \in Callers |->
                        IF d = c THEN [call[c] EXCEPT !.pc = "fresh"]
                        ELSE IF d \in Overtaken(c)
                          THEN [call[d] EXCEPT !.spoilt = @ \cup {"overtaken"}]
                          ELSE call[d]]
       \/ /\ Move(c, "store", "fresh")
          /\ UNCHANGED db
    /\ UNCHANGED <<world, policy, cleanup>>

Return(c) ==
    /\ call[c].pc \in {"hit", "fresh", "nothing"}
    /\ call' = [call EXCEPT ![c] = NoCall]
    /\ UNCHANGED <<world, policy, db, cleanup>>

InvalidateAll ==
    /\ destructor = "none"
    /\ db' = [k \in Keys |-> NoEntry]
    /\ UNCHANGED <<world, policy, call, cleanup>>

SetCachePolicy(p) ==
    /\ destructor = "none"
    /\ policy' = p
    /\ UNCHANGED <<world, db, call, cleanup>>

-----------------------------------------------------------------------------
(* CleanupWorker and the destructor. *)

Unexpired == [k \in Keys |->
                IF db[k] # NoEntry /\ db[k].expiry <= clock THEN NoEntry ELSE db[k]]

\* The DELETE may fail, which is only logged.
CleanupExpired == db' = Unexpired \/ UNCHANGED db

\* ForceCleanup does the same from a caller's thread.
ForceCleanup ==
    /\ destructor = "none"
    /\ CleanupExpired
    /\ UNCHANGED <<world, policy, call, cleanup>>

\* The predicate of wait_for is false: the thread is about to sleep.
WorkerTests ==
    /\ worker = "testing"
    /\ worker' = IF stop THEN "ended" ELSE "falling asleep"
    /\ UNCHANGED <<world, policy, db, call, stop, destructor>>

WorkerSleeps ==
    /\ worker = "falling asleep"
    /\ worker' = "asleep"
    /\ UNCHANGED <<world, policy, db, call, stop, destructor>>

\* Mutant: wait, not wait_for.
WorkerSleepsOn == worker = "asleep" /\ UNCHANGED vars

\* cleanup_interval is over.
WorkerTimesOut ==
    /\ worker = "asleep"
    /\ worker' = IF stop THEN "ended" ELSE "cleaning"
    /\ UNCHANGED <<world, policy, db, call, stop, destructor>>

WorkerCleans ==
    /\ worker = "cleaning"
    /\ CleanupExpired
    /\ worker' = "testing"
    /\ UNCHANGED <<world, policy, call, stop, destructor>>

Destroy ==
    /\ destructor = "none"
    /\ \A c \in Callers : call[c].pc = "idle"
    /\ stop' = TRUE
    /\ destructor' = "notifying"
    /\ UNCHANGED <<world, policy, db, call, worker>>

\* Without cleanup_mutex_: a thread that is about to sleep is not woken.
NotifyAll ==
    /\ destructor = "notifying"
    /\ worker' = IF worker = "asleep" THEN "ended" ELSE worker
    /\ destructor' = "joining"
    /\ UNCHANGED <<world, policy, db, call, stop>>

Join ==
    /\ destructor = "joining" /\ worker = "ended"
    /\ destructor' = "returned"
    /\ UNCHANGED <<world, policy, db, call, worker, stop>>

Fresh ==
    /\ call' = [c \in Callers |-> NoCall]
    /\ worker' = "testing" /\ stop' = FALSE /\ destructor' = "none"
    /\ policy' = "CACHE_FIRST"

\* The process ends, at any moment, and another one opens the database.
Restart ==
    /\ destructor \in {"none", "returned"}
    /\ Fresh
    /\ UNCHANGED <<world, db>>

-----------------------------------------------------------------------------
(* External: the installation changes, also by the plugin's own installs and  *)
(* uninstalls, which invalidate nothing; and time passes.                     *)

Change(k) ==
    /\ Version(k) < MaxVersion
    /\ changed' = [changed EXCEPT ![k] = Append(@, clock)]
    /\ UNCHANGED <<clock, policy, db, call, cleanup>>

Tick ==
    /\ clock < MaxClock
    /\ \A c \in Callers : call[c].pc # "store"
    /\ clock' = clock + 1
    /\ UNCHANGED <<changed, policy, db, call, cleanup>>

Init ==
    /\ changed = [k \in Keys |-> <<>>]
    /\ clock = 0
    /\ policy = "CACHE_FIRST"
    /\ db = [k \in Keys |-> NoEntry]
    /\ call = [c \in Callers |-> NoCall]
    /\ worker = "testing" /\ stop = FALSE /\ destructor = "none"

Caller(c) ==
    \/ \E k \in Keys : Query(c, k) \/ QueryForced(c, k)
    \/ LookUp(c) \/ Fetch(c) \/ FetchFails(c) \/ FallBack(c) \/ Store(c) \/ Return(c)

Worker == WorkerTests \/ WorkerSleeps \/ WorkerTimesOut \/ WorkerCleans

Next ==
    \/ \E c \in Callers : Caller(c)
    \/ \E p \in Policies : SetCachePolicy(p)
    \/ InvalidateAll \/ ForceCleanup
    \/ Worker
    \/ Destroy \/ NotifyAll \/ Join \/ Restart
    \/ \E k \in Keys : Change(k)
    \/ Tick

Spec == Init /\ [][Next]_vars

\* The cleanup thread and the destructor are scheduled; sleeping is bounded.
FairSpec == Spec /\ WF_vars(Worker) /\ WF_vars(NotifyAll) /\ WF_vars(Join)

-----------------------------------------------------------------------------
(* Properties. *)

Locations == {"idle", "perform", "fetch", "fetch and store", "fetch or cache",
              "store", "fall back", "hit", "fresh", "nothing"}

TypeOK ==
    /\ changed \in [Keys -> Seq(Nat)]
    /\ clock \in Nat
    /\ policy \in Policies
    /\ db \in [Keys -> Entry \cup {NoEntry}]
    /\ call \in [Callers -> [pc : Locations, key : Keys, since : Nat, value : Nat,
                             spoilt : SUBSET Spoilers]]
    /\ worker \in {"testing", "falling asleep", "asleep", "cleaning", "ended"}
    /\ stop \in BOOLEAN
    /\ destructor \in {"none", "notifying", "joining", "returned"}

\* Installs and uninstalls do not invalidate, yet what a hit returns was
\* replaced less than default_ttl ago, whatever fetches, clean-ups, restarts and
\* failures came between (sqlite_cache_storage.cc:150-156).
HitsWithinTTL ==
    [][\A c \in Callers :
          LET k == call'[c].key
              v == call'[c].value
          IN  call'[c].pc = "hit" /\ call[c].pc # "hit" /\ v < Version(k)
                => clock - changed[k][v + 1] < TTL]_vars

\* "force_refresh If true, forces a refresh" (cache_manager.h:72): an answer older
\* than the call comes from the cache, and only if the DELETE of the call failed
\* (sqlite_cache_storage.cc:256-259) or the late store of another thread's query
\* came between it and the look-up.  What is fetched is never older, whatever
\* policies, fall-backs, clean-ups and other callers do.
ForcedIsFresh ==
    \A c \in Callers :
        call[c].pc \in {"hit", "fresh"} /\ call[c].value < call[c].since
            => call[c].pc = "hit" /\ call[c].spoilt # {}

\* ~CacheManager returns although its notification can come too early: the
\* cleanup thread then finds out at the end of its interval.
DestructorReturns == destructor # "none" ~> destructor = "returned"
=============================================================================
