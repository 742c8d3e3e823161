--------------------------- MODULE CloudFirestore ---------------------------
(***************************************************************************)
(* cloud_firestore_plugin.cc, all but transactions: the calls on one        *)
(* Firestore instance and the streams of snapshots and of bundle loads.     *)
(*                                                                         *)
(* A stream lives on an event channel of its own, whose name ends in a      *)
(* fresh uuid and which is never taken out of event_channels_.  OnListen    *)
(* registers a callback with the SDK, which calls it on a thread of its own *)
(* through the handler's one event sink; OnCancel removes the registration  *)
(* and ends the stream.  A bundle load cannot be removed.                   *)
(*                                                                         *)
(* External, and therefore free: how and when an operation of the SDK ends, *)
(* when there is a snapshot, an error or progress to tell.                  *)
(***************************************************************************)
EXTENDS SdkCalls

CONSTANT MaxStreams         \* bound: the streams set up

StreamIds == 1..MaxStreams
StreamKinds == {"inSync", "query", "document", "bundle"}

VARIABLES
    instance,   \* firestoreInstances_[app]: what is cached, and its state
    stream,     \* Dart's end of each stream
    kind,       \* what it streams
    registered, \* the callbacks of the SDK: <<stream, n>>, n a listen of it
    current,    \* the registration in listener_, 0: none yet
    ended       \* the streams of which the last thing sent was EndOfStream

firestoreVars == <<instance, stream, kind, registered, current, ended>>
streamVars == <<stream, kind, registered, current, ended>>
vars == <<call, firestoreVars>>

Listening(i) == stream[i] = "listening"

TypeOK ==
    /\ call \in [Calls -> Call]
    /\ instance \in {"none", "live", "terminated"}
    /\ stream \in [StreamIds -> {"none", "set up", "listening", "cancelled"}]
    /\ kind \in [StreamIds -> StreamKinds]
    /\ registered \subseteq StreamIds \X (1..2)
    /\ current \in [StreamIds -> 0..2]
    /\ ended \subseteq StreamIds

StateInit ==
    /\ instance = "none"
    /\ stream = [i \in StreamIds |-> "none"]
    /\ kind = [i \in StreamIds |-> "query"]
    /\ registered = {}
    /\ current = [i \in StreamIds |-> 0]
    /\ ended = {}

Init == CallsInit /\ StateInit

\* GetFirestoreFromPigeon: made with the settings of the first call, and kept,
\* terminated or not.
GetFirestore == instance' = IF instance = "none" THEN "live" ELSE instance

-----------------------------------------------------------------------------
(* The calls. *)

Ask(c) == Forward(c) /\ GetFirestore /\ UNCHANGED streamVars

\* The calls after which the SDK treats the instance differently.
AskAs(c, k) == ForwardFor(c, k, NoUser) /\ GetFirestore /\ UNCHANGED streamVars

ClearPersistence(c)        == AskAs(c, "clear")
Terminate(c)               == AskAs(c, "terminate")
NamedQueryGet(c)           == AskAs(c, "named")
DisableNetwork(c)          == Ask(c)
EnableNetwork(c)           == Ask(c)
WaitForPendingWrites(c)    == Ask(c)
DocumentReferenceSet(c)    == Ask(c)
DocumentReferenceUpdate(c) == Ask(c)
DocumentReferenceGet(c)    == Ask(c)
DocumentReferenceDelete(c) == Ask(c)
QueryGet(c)                == Ask(c)
AggregateQuery(c)          == Ask(c)

\* An exception while the batch is put together is the answer.
WriteBatchCommit(c) ==
    \/ Ask(c)
    \/ Unimplemented(c) /\ GetFirestore /\ UNCHANGED streamVars

SetIndexConfiguration(c) == Unimplemented(c) /\ UNCHANGED firestoreVars
SetLoggingEnabled(c)     == AnswerNow(c) /\ UNCHANGED firestoreVars

\* The calls that answer with the name of a new channel for a stream.
SetUp(c, k) ==
    /\ AnswerNow(c)
    /\ GetFirestore
    /\ \E i \in StreamIds :
          /\ stream[i] = "none"
          /\ \A j \in 1..(i - 1) : stream[j] # "none"
          /\ stream' = [stream EXCEPT ![i] = "set up"]
          /\ kind' = [kind EXCEPT ![i] = k]
    /\ UNCHANGED <<registered, current, ended>>

LoadBundle(c)                == SetUp(c, "bundle")
SnapshotsInSyncSetup(c)      == SetUp(c, "inSync")
QuerySnapshot(c)             == SetUp(c, "query")
DocumentReferenceSnapshot(c) == SetUp(c, "document")

FirestoreCall ==
    \E c \in Calls :
        \/ ClearPersistence(c)
        \/ Terminate(c)
        \/ NamedQueryGet(c)
        \/ DisableNetwork(c)
        \/ EnableNetwork(c)
        \/ WaitForPendingWrites(c)
        \/ DocumentReferenceSet(c)
        \/ DocumentReferenceUpdate(c)
        \/ DocumentReferenceGet(c)
        \/ DocumentReferenceDelete(c)
        \/ QueryGet(c)
        \/ AggregateQuery(c)
        \/ WriteBatchCommit(c)
        \/ SetIndexConfiguration(c)
        \/ SetLoggingEnabled(c)
        \/ LoadBundle(c)
        \/ SnapshotsInSyncSetup(c)
        \/ QuerySnapshot(c)
        \/ DocumentReferenceSnapshot(c)

\* The SDK refuses what a terminated instance is asked, clearing aside.
FutureSucceeds(c) ==
    /\ PlainFutureSucceeds(c)
    /\ instance = "live" \/ call[c].kind = "clear"
    /\ instance' = IF call[c].kind = "terminate" THEN "terminated" ELSE instance
    /\ UNCHANGED streamVars

\* NamedQueryGet's first callback: no such query, or the query's own future.
NamedQuery(c) ==
    /\ call[c].state = "done" /\ call[c].kind = "named"
    /\ \/ call' = [call EXCEPT ![c].state = "refused"]
       \/ call' = [call EXCEPT ![c].state = "running", ![c].kind = "plain"]
    /\ UNCHANGED firestoreVars

Callback(c) ==
    /\ call[c].kind # "named"
    /\ PlainAnswer(c)
    /\ UNCHANGED firestoreVars

FutureEnds(c) ==
    \/ (FutureFails(c) \/ AnswerError(c)) /\ UNCHANGED firestoreVars
    \/ FutureSucceeds(c)
    \/ NamedQuery(c)
    \/ Callback(c)

-----------------------------------------------------------------------------
(* The streams. *)

\* What is left registered when a stream is cancelled.
WithoutListener(i) == registered \ {<<i, current[i]>>}

\* Mutant: the registration is left to the destructor of the handler.
StillRegistered(i) == registered

\* listener_.Remove() in OnCancelInternal; LoadBundle's has nothing to remove.
RemoveListener(i) ==
    IF kind[i] = "bundle" THEN registered ELSE WithoutListener(i)

\* The event channel cancels before it listens a second time.
Listen(i) ==
    /\ stream[i] # "none"
    /\ current[i] < 2
    /\ stream' = [stream EXCEPT ![i] = "listening"]
    /\ current' = [current EXCEPT ![i] = @ + 1]
    /\ registered' = (IF Listening(i) THEN RemoveListener(i) ELSE registered)
                        \cup {<<i, current[i] + 1>>}
    /\ ended' = ended \ {i}
    /\ UNCHANGED <<call, instance, kind>>

Cancel(i) ==
    /\ Listening(i)
    /\ stream' = [stream EXCEPT ![i] = "cancelled"]
    /\ registered' = RemoveListener(i)
    /\ ended' = ended \cup {i}
    /\ UNCHANGED <<call, instance, kind, current>>

\* The callback has a snapshot, or progress, to tell.
SendSuccess(r) ==
    /\ instance = "live"
    /\ ended' = ended \ {r[1]}
    /\ UNCHANGED <<call, instance, stream, kind, registered, current>>

\* The last of a callback: an error, or the end of a bundle.
SendLast(r) ==
    /\ kind[r[1]] # "inSync"
    /\ ended' = ended \cup {r[1]}
    /\ registered' = registered \ {r}
    /\ UNCHANGED <<call, instance, stream, kind, current>>

SdkStep ==
    \/ \E c \in Calls : FutureEnds(c)
    \/ \E r \in registered : SendSuccess(r) \/ SendLast(r)

Next ==
    \/ FirestoreCall
    \/ SdkStep
    \/ \E i \in StreamIds : Listen(i) \/ Cancel(i)

Spec == Init /\ [][Next]_vars

-----------------------------------------------------------------------------
(* Properties. *)

\* A stream of snapshots that Dart has cancelled stays ended: nothing of an
\* earlier listen is left with the SDK to speak on the handler's sink.
CancelledStaysEnded ==
    \A i \in StreamIds :
        stream[i] = "cancelled" /\ kind[i] # "bundle" => i \in ended
=============================================================================
