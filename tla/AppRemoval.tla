------------------------------ MODULE AppRemoval ------------------------------
(***************************************************************************)
(* Uninstalling and updating applications in the flatpak plugin:           *)
(* ApplicationUninstall and ApplicationUpdate of flatpak_shim.cc, the       *)
(* transaction events Flutter listens to while they run, and               *)
(* RemoveAllAppPermissions of portals/permissions_portal.                  *)
(*                                                                         *)
(* A call runs on the strand until its transaction is prepared, on a thread *)
(* of its own while libflatpak runs the transaction, and again on the       *)
(* strand.  The thread posts an event per signal of the transaction; then   *)
(* it frees the transaction and posts the closing handler.  The events      *)
(* carry a pointer to the id that the transaction owns.                     *)
(*                                                                         *)
(* A successful uninstall deletes the application's entries in the          *)
(* permission store, over D-Bus and all at once, before its callback is     *)
(* called.  Sinks are kept by application id, so all operations on one      *)
(* application share one, and the first of them to end removes it.         *)
(*                                                                         *)
(* External, and therefore free: libflatpak, the permission store, and      *)
(* when Flutter listens.                                                   *)
(***************************************************************************)
EXTENDS Integers, Sequences, FiniteSets

CONSTANTS
    AppIds,
    Calls,      \* of ApplicationUninstall and ApplicationUpdate
    AppOf,      \* the application each call names
    Uninstalls, \* the calls that are uninstalls
    ByRef,      \* those that name it by its full ref (app/name/arch/branch)
    Fixed,      \* notifications, location and background
    Devices,    \* resources of the table "devices"
    MaxEvents   \* bound on the events a transaction posts

ASSUME RemovalAssumption ==
    /\ AppOf \in [Calls -> AppIds]
    /\ Uninstalls \subseteq Calls
    /\ ByRef \subseteq Calls
    /\ IsFiniteSet(Fixed) /\ IsFiniteSet(Devices)
    /\ Fixed # {} /\ Fixed \cap Devices = {}
    /\ MaxEvents \in Nat

VARIABLES
    plugin,   \* "running", or in "undefined" behaviour
    pc,       \* where each call is
    answer,   \* what its callback has been given, in order
    strandq,  \* handlers posted to the strand
    posted,   \* how many events each transaction has posted
    success,  \* the transactions that have succeeded
    setup,    \* applications with a stream handler on their event channel
    sinks,    \* transactions_event_sinks_
    heard,    \* the events of each call that reached Flutter
    witness,  \* has Flutter listened since the call's first event?
    entries,  \* permission store: pairs of an application and a resource
    deleting, \* resources whose deletion has no reply yet
    total, counter, any_error, \* of RemoveAllAppPermissions
    listed,   \* the calls whose list of devices could be read
    owed      \* entries an uninstall found and nobody has written since

callVars == <<plugin, pc, answer, strandq, posted, success>>
eventVars == <<setup, sinks, heard, witness>>
cleanupVars == <<deleting, total, counter, any_error, listed>>
storeVars == <<entries, owed>>
vars == <<callVars, eventVars, cleanupVars, storeVars>>

Resources == Fixed \cup Devices
Locations == {"idle", "called", "rejected", "transacting", "closing",
              "listing", "cleaning", "ended"}

Handler(c, what) == [call |-> c, what |-> what]
Running == plugin = "running"

\* The strand runs the handler at its head.
Runs(c, what) == Running /\ strandq # <<>> /\ Head(strandq) = Handler(c, what)

InProgress(c) == pc[c] \in {"transacting", "closing", "listing", "cleaning"}
Others(c) == {d \in Calls \ {c} : AppOf[d] = AppOf[c] /\ InProgress(d)}

Move(c, from, to) == pc[c] = from /\ pc' = [pc EXCEPT ![c] = to]
Call(c, result) == answer' = [answer EXCEPT ![c] = Append(@, result)]

\* An event of c gets to Flutter if a sink is connected under its id.
SendTransactionEvent(c, event) ==
    heard' = IF AppOf[c] \in sinks THEN [heard EXCEPT ![c] = Append(@, event)] ELSE heard

-----------------------------------------------------------------------------
(* Flutter: the event channel, on the platform thread. *)

\* EventChannel leaves its stream handler with the messenger when it is
\* destroyed, so one that was set up once can be listened to ever after.
SetupTransactionEventChannel(a) ==
    /\ Running
    /\ setup' = setup \cup {a}
    /\ UNCHANGED <<callVars, sinks, heard, witness, cleanupVars, storeVars>>

Listen(a) ==
    /\ Running
    /\ a \in setup
    /\ sinks' = sinks \cup {a}
    /\ UNCHANGED <<callVars, setup, heard, witness, cleanupVars, storeVars>>

Cancel(a) ==
    /\ Running
    /\ a \in sinks
    /\ sinks' = sinks \ {a}
    /\ witness' = [c \in Calls |-> IF AppOf[c] = a THEN "none" ELSE witness[c]]
    /\ UNCHANGED <<callVars, setup, heard, cleanupVars, storeVars>>

-----------------------------------------------------------------------------
(* From the call to its transaction, on the strand. *)

Request(c) ==
    /\ Running
    /\ Move(c, "idle", "called")
    /\ strandq' = Append(strandq, Handler(c, "request"))
    /\ UNCHANGED <<plugin, answer, posted, success, eventVars, cleanupVars, storeVars>>

\* The application is not found; for an uninstall also: no installation.
NotFound(c) ==
    /\ Runs(c, "request")
    /\ Move(c, "called", "ended")
    /\ Call(c, FALSE)
    /\ strandq' = Tail(strandq)
    /\ UNCHANGED <<plugin, posted, success, eventVars, cleanupVars, storeVars>>

\* An update calls back when the installation cannot be opened or read, and
\* goes on to read the list it did not get.
UpdateWithoutList(c) ==
    /\ Runs(c, "request")
    /\ c \notin Uninstalls
    /\ Call(c, FALSE)
    /\ plugin' = "undefined"
    /\ UNCHANGED <<pc, strandq, posted, success, eventVars, cleanupVars, storeVars>>

\* No id, or the transaction cannot be prepared: the answer is posted.
Reject(c) ==
    /\ Runs(c, "request")
    /\ Move(c, "called", "rejected")
    /\ strandq' = Append(Tail(strandq), Handler(c, "rejected"))
    /\ UNCHANGED <<plugin, answer, posted, success, eventVars, cleanupVars, storeVars>>

AnswerRejected(c) ==
    /\ Runs(c, "rejected")
    /\ Move(c, "rejected", "ended")
    /\ Call(c, FALSE)
    /\ strandq' = Tail(strandq)
    /\ UNCHANGED <<plugin, posted, success, eventVars, cleanupVars, storeVars>>

\* The first event is sent and the thread started.
StartTransaction(c) ==
    /\ Runs(c, "request")
    /\ Move(c, "called", "transacting")
    /\ SendTransactionEvent(c, "started")
    /\ witness' = [witness EXCEPT ![c] = IF AppOf[c] \in sinks THEN "listening" ELSE "none"]
    /\ strandq' = Tail(strandq)
    /\ UNCHANGED <<plugin, answer, posted, success, setup, sinks, cleanupVars, storeVars>>

-----------------------------------------------------------------------------
(* The transaction, on a thread of its own. *)

\* OnNewOperation, OnProgressChanged, OnOperationComplete, OnOperationError.
Signal(c) ==
    /\ Running
    /\ pc[c] = "transacting"
    /\ posted[c] < MaxEvents
    /\ posted' = [posted EXCEPT ![c] = @ + 1]
    /\ strandq' = Append(strandq, Handler(c, "event"))
    /\ UNCHANGED <<plugin, pc, answer, success, eventVars, cleanupVars, storeVars>>

\* Mutant: the thread runs the closing handler ahead of the posted events.
TransactionEndsAhead(c) ==
    /\ Running
    /\ Move(c, "transacting", "closing")
    /\ success' \in {success, success \cup {c}}
    /\ strandq' = <<Handler(c, "closing")>> \o strandq
    /\ UNCHANGED <<plugin, answer, posted, eventVars, cleanupVars, storeVars>>

\* The transaction is freed, and with it the id its events point to.
TransactionEnds(c) ==
    /\ Running
    /\ Move(c, "transacting", "closing")
    /\ success' \in {success, success \cup {c}}
    /\ strandq' = Append(strandq, Handler(c, "closing"))
    /\ UNCHANGED <<plugin, answer, posted, eventVars, cleanupVars, storeVars>>

-----------------------------------------------------------------------------
(* Events and the end of a call, on the strand. *)

\* The id is valid, or still where it was when it was freed.
DeliverEvent(c) ==
    /\ Runs(c, "event")
    /\ SendTransactionEvent(c, "event")
    /\ strandq' = Tail(strandq)
    /\ UNCHANGED <<plugin, pc, answer, posted, success, setup, sinks, witness,
                   cleanupVars, storeVars>>

\* The id has been freed: no sink has the name that is there now, or reading it
\* is fatal.
EventWithFreedId(c) ==
    /\ Runs(c, "event")
    /\ pc[c] # "transacting"
    /\ plugin' \in {"running", "undefined"}
    /\ strandq' = Tail(strandq)
    /\ UNCHANGED <<pc, answer, posted, success, eventVars, cleanupVars, storeVars>>

\* Mutant: the channel is removed before the last event is sent.
CloseRemovesFirst(c, result) ==
    /\ pc' = [pc EXCEPT ![c] = "ended"]
    /\ heard' = heard
    /\ sinks' = sinks \ {AppOf[c]}
    /\ witness' = [d \in Calls |-> IF d \in Others(c) THEN "disturbed" ELSE witness[d]]
    /\ Call(c, result)

\* The last event, RemoveTransactionEvent and the callback.
Close(c, result) ==
    /\ pc' = [pc EXCEPT ![c] = "ended"]
    /\ SendTransactionEvent(c, "final")
    /\ sinks' = sinks \ {AppOf[c]}
    /\ witness' = [d \in Calls |-> IF d \in Others(c) THEN "disturbed" ELSE witness[d]]
    /\ Call(c, result)

\* An update has ended, or an uninstall has failed.
Closing(c) ==
    /\ Runs(c, "closing")
    /\ c \notin Uninstalls \/ c \notin success
    /\ Close(c, c \in success)
    /\ strandq' = Tail(strandq)
    /\ UNCHANGED <<plugin, posted, success, setup, cleanupVars, storeVars>>

\* RemoveAllAppPermissions asks for the list of devices.
ListDevices(c) ==
    /\ Runs(c, "closing")
    /\ c \in Uninstalls /\ c \in success
    /\ Move(c, "closing", "listing")
    /\ owed' = [owed EXCEPT ![c] = {r \in Resources : <<AppOf[c], r>> \in entries}]
    /\ strandq' = Tail(strandq)
    /\ UNCHANGED <<plugin, answer, posted, success, eventVars, cleanupVars, entries>>

-----------------------------------------------------------------------------
(* RemoveAllAppPermissions: the replies of the store, on the io_context. *)

InUse == {r \in Devices : \E a \in AppIds : <<a, r>> \in entries}

\* Mutant: the fixed entries alone are counted.
DevicesListedShort(c) ==
    /\ Running
    /\ Move(c, "listing", "cleaning")
    /\ \E devices \in SUBSET Devices :
          /\ InUse \subseteq devices
          /\ deleting' = [deleting EXCEPT ![c] = Fixed \cup devices]
    /\ total' = [total EXCEPT ![c] = Cardinality(Fixed)]
    /\ listed' = listed \cup {c}
    /\ UNCHANGED <<plugin, answer, strandq, posted, success, eventVars, counter,
                   any_error, storeVars>>

\* The list holds every device an application has an entry for.  An error
\* is ignored: only the fixed entries are deleted then.
DevicesListed(c) ==
    /\ Running
    /\ Move(c, "listing", "cleaning")
    /\ \/ /\ deleting' = [deleting EXCEPT ![c] = Fixed]
          /\ listed' = listed
       \/ /\ \E devices \in SUBSET Devices :
                /\ InUse \subseteq devices
                /\ deleting' = [deleting EXCEPT ![c] = Fixed \cup devices]
          /\ listed' = listed \cup {c}
    /\ total' = [total EXCEPT ![c] = Cardinality(deleting'[c])]
    /\ UNCHANGED <<plugin, answer, strandq, posted, success, eventVars, counter,
                   any_error, storeVars>>

\* Deletions are for the id the call was given.  ApplicationStart stores
\* permissions under the application's name, so no entry has a full ref's.
Deleted(c, r) == IF c \in ByRef THEN {} ELSE {<<AppOf[c], r>>}

\* Mutant: fetch_add returns the value before the addition.
LastReplyBefore(c) == counter[c] = total[c]

LastReply(c) == counter[c] + 1 = total[c]

\* Mutant: a failed deletion is not recorded.
DeletionFailsUnnoticed(c) ==
    /\ entries' = entries
    /\ any_error' = any_error

DeletionFails(c) ==
    /\ entries' = entries
    /\ any_error' = any_error \cup {c}

\* The store answers a deletion, in any order; "no entry" counts as deleted.
\* An application that is uninstalled is reported so whatever is left.
DeletionAnswered(c, r) ==
    /\ Running
    /\ r \in deleting[c]
    /\ deleting' = [deleting EXCEPT ![c] = @ \ {r}]
    /\ \/ entries' = entries \ Deleted(c, r) /\ any_error' = any_error
       \/ DeletionFails(c)
    /\ counter' = [counter EXCEPT ![c] = @ + 1]
    /\ IF LastReply(c) THEN Close(c, TRUE)
                       ELSE UNCHANGED <<pc, answer, sinks, heard, witness>>
    /\ UNCHANGED <<plugin, strandq, posted, success, setup, total, listed, owed>>

\* A dialog's answer is stored meanwhile (SetPermission).
PermissionStored(a, r) ==
    /\ Running
    /\ entries' = entries \cup {<<a, r>>}
    /\ owed' = [c \in Calls |-> IF AppOf[c] = a THEN owed[c] \ {r} ELSE owed[c]]
    /\ UNCHANGED <<callVars, eventVars, cleanupVars>>

-----------------------------------------------------------------------------
Init ==
    /\ plugin = "running"
    /\ pc = [c \in Calls |-> "idle"]
    /\ answer = [c \in Calls |-> <<>>]
    /\ strandq = <<>>
    /\ posted = [c \in Calls |-> 0]
    /\ success = {}
    /\ setup = {}
    /\ sinks = {}
    /\ heard = [c \in Calls |-> <<>>]
    /\ witness = [c \in Calls |-> "none"]
    /\ entries \in SUBSET (AppIds \X Resources)
    /\ deleting = [c \in Calls |-> {}]
    /\ total = [c \in Calls |-> 0]
    /\ counter = [c \in Calls |-> 0]
    /\ any_error = {}
    /\ listed = {}
    /\ owed = [c \in Calls |-> {}]

OnStrand(c) ==
    \/ NotFound(c) \/ UpdateWithoutList(c) \/ Reject(c) \/ AnswerRejected(c)
    \/ StartTransaction(c) \/ DeliverEvent(c) \/ EventWithFreedId(c)
    \/ Closing(c) \/ ListDevices(c)

OnReply(c) == DevicesListed(c) \/ \E r \in Resources : DeletionAnswered(c, r)

Next ==
    \/ \E c \in Calls :
          Request(c) \/ OnStrand(c) \/ Signal(c) \/ TransactionEnds(c) \/ OnReply(c)
    \/ \E a \in AppIds :
          \/ SetupTransactionEventChannel(a) \/ Listen(a) \/ Cancel(a)
          \/ \E r \in Resources : PermissionStored(a, r)

Spec == Init /\ [][Next]_vars

\* The io_context runs what is posted to it, libflatpak ends every transaction,
\* and the store answers, or sdbus does for it after its timeout.
Fairness ==
    /\ WF_vars(\E c \in Calls : OnStrand(c))
    /\ \A c \in Calls : WF_vars(TransactionEnds(c)) /\ WF_vars(OnReply(c))

FairSpec == Spec /\ Fairness

-----------------------------------------------------------------------------
(* Properties. *)

TypeOK ==
    /\ plugin \in {"running", "undefined"}
    /\ pc \in [Calls -> Locations]
    /\ answer \in [Calls -> Seq(BOOLEAN)]
    /\ strandq \in Seq([call : Calls, what : {"request", "rejected", "event", "closing"}])
    /\ posted \in [Calls -> 0..MaxEvents]
    /\ success \subseteq Calls
    /\ setup \subseteq AppIds
    /\ sinks \subseteq setup
    /\ heard \in [Calls -> Seq({"started", "event", "final"})]
    /\ witness \in [Calls -> {"none", "listening", "disturbed"}]
    /\ entries \subseteq AppIds \X Resources
    /\ deleting \in [Calls -> SUBSET Resources]
    /\ total \in [Calls -> Nat] /\ counter \in [Calls -> Nat]
    /\ any_error \subseteq Calls
    /\ listed \subseteq Calls
    /\ owed \in [Calls -> SUBSET Resources]

\* The callback of an uninstall comes after the last reply of the store, and no
\* callback comes twice (permissions_portal.cc:466-479).
AnsweredOnceAndLast ==
    \A c \in Calls :
        /\ Len(answer[c]) <= 1
        /\ pc[c] = "ended" => deleting[c] = {}

\* When the store failed nothing, an uninstall by name that has answered has left
\* no entry it found but those written again meanwhile, whatever the order of the
\* replies and the other operations on the application.
CleanRemoval ==
    \A c \in Uninstalls \ ByRef :
        pc[c] = "ended" /\ c \in listed /\ c \notin any_error =>
            \A r \in owed[c] : <<AppOf[c], r>> \notin entries

\* Flutter, if it has listened since the first event of an operation, hears its
\* last one, unless another operation on the application has ended meanwhile.
FinalEventHeard ==
    \A c \in Calls :
        pc[c] = "ended" /\ witness[c] = "listening" =>
            heard[c] # <<>> /\ heard[c][Len(heard[c])] = "final"

\* No event of an operation is heard after its last one: what its thread posts
\* is behind it on the strand.
FinalEventIsLast ==
    \A c \in Calls :
        \A i \in DOMAIN heard[c] : heard[c][i] = "final" => i = Len(heard[c])

\* Every call is answered (test_flatpak.cc:381 waits for it), unless reading a
\* freed id or a missing list takes the plugin down.
EveryCallAnswered ==
    \A c \in Calls : pc[c] = "called" ~> answer[c] # <<>> \/ ~Running

=============================================================================
