-------------------------- MODULE PermissionDialogs --------------------------
(***************************************************************************)
(* The permissions an application is asked for before it is launched        *)
(* (flatpak_shim.cc, portals/permissions_portal).                          *)
(*                                                                         *)
(* RequestAppLaunchPermission looks every permission up in the permission   *)
(* store, over D-Bus and all at once; those without a decision are shown to *)
(* the user one dialog after the other.  An answer is put into the request  *)
(* and written to the store, and only the reply of the store shows the next *)
(* dialog, or ends the request by its callback.                            *)
(*                                                                         *)
(* Requests live in active_permissions_, under an id that is made from the  *)
(* time in milliseconds.  Nothing keeps two requests from having one id:     *)
(* they may be made within a millisecond, and the clock may be set back.    *)
(* Three threads touch them: the platform thread connects and disconnects   *)
(* the event sink, the io thread starts requests and takes answers, the     *)
(* D-Bus thread takes the store's replies.                                 *)
(*                                                                         *)
(* External, and therefore free: the store's replies and their order, the   *)
(* clock, and the user, who answers a dialog, or not, or twice.              *)
(***************************************************************************)
EXTENDS Integers, Sequences, FiniteSets, Functions

CONSTANTS
    Calls,          \* the calls of RequestAppLaunchPermission
    AppIds,
    AppOf,          \* the application of each call
    Permissions,
    Needs,          \* the permissions each application asks for, in order
    AskedBefore,    \* applications that were started in earlier sessions
    Ids,            \* request ids: milliseconds
    Hasty,          \* bound: the answers that may be given twice
    NoRequest

ASSUME DialogAssumption ==
    /\ AppOf \in [Calls -> AppIds]
    /\ Needs \in [AppIds -> Seq(Permissions)]
    /\ AskedBefore \subseteq AppIds
    /\ Ids \subseteq Nat
    /\ Hasty \subseteq Calls \X Permissions \X {"yes", "no"}

VARIABLES
    pc,         \* where each call is
    found,      \* what the store has answered to each call's look-ups
    active,     \* active_permissions_
    askers,     \* history: the calls that have asked under each id
    mixed,      \* history: ids under which one answer may be taken for another
    sink,       \* is access_sink_ connected?
    dialogs,    \* dialogs the user has in front of him
    responses,  \* permissionResponse calls posted to the strand
    storing,    \* calls of SetPermission without a reply
    giveup,     \* requests whose event could not be sent: still to be erased
    store,      \* the decisions in the permission store
    granted,    \* what the user has said yes to
    outcome     \* the arguments each call's callback was called with

history == <<askers, mixed>>
flow == <<pc, found, history>>
vars == <<flow, active, sink, dialogs, responses, storing, giveup, store,
          granted, outcome>>

Needed(c) == Range(Needs[AppOf[c]])

\* A map from permissions to "yes" and "no"; "none" stands for no entry.
Results == [Permissions -> {"none", "yes", "no"}]
NoResults == [p \in Permissions |-> "none"]

Request == [call : Calls, requests : Seq(Permissions), result : Results, index : Nat]

\* A request is never taken for the absence of one.
ASSUME NoRequestAssumption == NoRequest \notin Request

-----------------------------------------------------------------------------
(* RequestAppLaunchPermission and CheckAllPermissions. *)

\* The application needs none: the callback gets an empty map at once.
NothingNeeded(c) ==
    /\ pc[c] = "idle"
    /\ Needed(c) = {}
    /\ pc' = [pc EXCEPT ![c] = "called"]
    /\ outcome' = [outcome EXCEPT ![c] = Append(@, NoResults)]
    /\ UNCHANGED <<found, history, active, sink, dialogs, responses, storing,
                   giveup, store, granted>>

LookUp(c) ==
    /\ pc[c] = "idle"
    /\ Needed(c) # {}
    /\ pc' = [pc EXCEPT ![c] = "checking"]
    /\ UNCHANGED <<found, history, active, sink, dialogs, responses, storing,
                   giveup, store, granted, outcome>>

\* A look-up is answered; an error counts as not set.  The counter is that of
\* the answered look-ups.
LookUpAnswered(c, p) ==
    /\ pc[c] = "checking"
    /\ p \in Needed(c)
    /\ found[c][p] = "pending"
    /\ \E status \in {store[AppOf[c]][p], "none"} :
          found' = [found EXCEPT ![c][p] = status]
    /\ UNCHANGED <<pc, history, active, sink, dialogs, responses, storing,
                   giveup, store, granted, outcome>>

AllFound(c) == pc[c] = "checking" /\ \A p \in Needed(c) : found[c][p] # "pending"
Known(c) == [p \in Permissions |->
                IF p \in Needed(c) THEN found[c][p] ELSE "none"]

\* The permissions without a decision, in the order they are needed: the n-th of
\* their positions is the one that n of them do not come after.
Undecided(c) ==
    {j \in DOMAIN Needs[AppOf[c]] : found[c][Needs[AppOf[c]][j]] = "none"}
Rank(S, j) == Cardinality({k \in S : k <= j})
Nth(S, n) == CHOOSE j \in S : Rank(S, j) = n
ToAsk(c) == [n \in 1..Cardinality(Undecided(c)) |->
                Needs[AppOf[c]][Nth(Undecided(c), n)]]

NothingToAsk(c) ==
    /\ AllFound(c)
    /\ ToAsk(c) = <<>>
    /\ pc' = [pc EXCEPT ![c] = "called"]
    /\ outcome' = [outcome EXCEPT ![c] = Append(@, Known(c))]
    /\ UNCHANGED <<found, history, active, sink, dialogs, responses, storing,
                   giveup, store, granted>>

-----------------------------------------------------------------------------
(* ShowNextDialog, and the event it sends.  It is called with the map m and   *)
(* the SetPermission calls s that its caller leaves.                          *)

Dialog(i, r) == [id |-> i, perm |-> r.requests[r.index + 1], call |-> r.call]
SetPermission(i, r, p, answer) ==
    [id |-> i, call |-> r.call, perm |-> p, answer |-> answer, index |-> r.index]
Answered(r, p, answer) ==
    [r EXCEPT !.result[p] = answer, !.index = @ + 1]

\* Mutant: off by one.
ProcessedEarly(r) == r.index + 1 >= Len(r.requests)

AllProcessed(r) == r.index >= Len(r.requests)

\* The request is not there any more.
ShowNothing(i, m, s) ==
    /\ m[i] = NoRequest
    /\ active' = m /\ storing' = s
    /\ UNCHANGED <<dialogs, giveup, outcome>>

Complete(i, m, s) ==
    /\ m[i] # NoRequest
    /\ AllProcessed(m[i])
    /\ active' = [m EXCEPT ![i] = NoRequest]
    /\ outcome' = [outcome EXCEPT ![m[i].call] = Append(@, m[i].result)]
    /\ storing' = s
    /\ UNCHANGED <<dialogs, giveup>>

ShowDialog(i, m, s) ==
    /\ m[i] # NoRequest
    /\ ~AllProcessed(m[i])
    /\ sink
    /\ dialogs' = dialogs \cup {Dialog(i, m[i])}
    /\ active' = m /\ storing' = s
    /\ UNCHANGED <<giveup, outcome>>

\* Nobody listens: the permission is denied, in the store too, and the request
\* will be given up.
DenyUnshown(i, m, s) ==
    /\ m[i] # NoRequest
    /\ ~AllProcessed(m[i])
    /\ ~sink
    /\ LET p == Dialog(i, m[i]).perm
       IN  /\ active' = [m EXCEPT ![i] = Answered(@, p, "no")]
           /\ storing' = s \cup {SetPermission(i, m[i], p, "no")}
    /\ giveup' = giveup \cup {i}
    /\ UNCHANGED <<dialogs, outcome>>

ShowNextDialog(i, m, s) ==
    \/ ShowNothing(i, m, s) \/ Complete(i, m, s)
    \/ ShowDialog(i, m, s) \/ DenyUnshown(i, m, s)

\* The callback of SendPermissionEvent with false: the request is erased, if
\* the store's reply has not ended it meanwhile, and its callback gets nothing.
GiveUp(i) ==
    /\ i \in giveup
    /\ giveup' = giveup \ {i}
    /\ active' = [active EXCEPT ![i] = NoRequest]
    /\ outcome' = IF active[i] = NoRequest THEN outcome
                    ELSE [outcome EXCEPT ![active[i].call] = Append(@, NoResults)]
    /\ UNCHANGED <<flow, sink, dialogs, responses, storing, store, granted>>

\* Something is under way for an id.
Busy(i) ==
    \/ active[i] # NoRequest
    \/ i \in giveup
    \/ \E x \in dialogs \cup Range(responses) \cup storing : x.id = i

NewRequest(c) ==
    [call |-> c, requests |-> ToAsk(c), result |-> Known(c), index |-> 0]

\* A new request.  GenerateRequestId reads the clock: only whether two requests
\* read the same value matters, so a value not read before is the least of them.
\* The request replaces the one that has the same id, if there is one.  It is put
\* into the map and looked up again under two locks: nobody else knows its id
\* meanwhile, unless it is another's.
Ask(c) ==
    /\ AllFound(c)
    /\ ToAsk(c) # <<>>
    /\ \E i \in Ids :
          /\ \A j \in Ids : j < i => askers[j] # {}
          /\ ShowNextDialog(i, [active EXCEPT ![i] = NewRequest(c)], storing)
          /\ askers' = [askers EXCEPT ![i] = @ \cup {c}]
          /\ mixed' = IF Busy(i) THEN mixed \cup {i} ELSE mixed
    /\ pc' = [pc EXCEPT ![c] = "called"]
    /\ UNCHANGED <<found, sink, responses, store, granted>>

-----------------------------------------------------------------------------
(* The user, the answers and the store. *)

\* The user answers, and the dialog is closed.
Grant(d, answer) ==
    /\ d \in dialogs
    /\ dialogs' = dialogs \ {d}
    /\ granted' = IF answer = "yes"
                    THEN granted \cup {[app |-> AppOf[d.call], perm |-> d.perm]}
                    ELSE granted
    /\ UNCHANGED <<pc, found, askers, active, sink, storing, giveup, store, outcome>>

Response(d, answer) == [id |-> d.id, perm |-> d.perm, answer |-> answer]

\* External: the call of permissionResponse is posted to the strand.
UserAnswers(d, answer) ==
    /\ Grant(d, answer)
    /\ responses' = Append(responses, Response(d, answer))
    /\ UNCHANGED mixed

\* External: it is posted twice, by a user who is faster than the dialog.
UserAnswersTwice(d, answer) ==
    /\ Grant(d, answer)
    /\ <<d.call, d.perm, answer>> \in Hasty
    /\ responses' = responses \o <<Response(d, answer), Response(d, answer)>>
    /\ mixed' = mixed \cup {d.id}

\* Mutant: the answer is stored as yes whatever it is.
HandlePermissionResponseYes ==
    /\ responses # <<>>
    /\ responses' = Tail(responses)
    /\ LET a == Head(responses)
           r == active[a.id]
       IN  /\ r # NoRequest
           /\ active' = [active EXCEPT ![a.id] = Answered(@, a.perm, a.answer)]
           /\ storing' = storing \cup {SetPermission(a.id, r, a.perm, "yes")}
    /\ UNCHANGED <<flow, sink, dialogs, giveup, store, granted, outcome>>

\* The answer is put into whatever request has the id, whether or not it is the
\* permission that request waits for; and the store is told.
HandlePermissionResponse ==
    /\ responses # <<>>
    /\ responses' = Tail(responses)
    /\ LET a == Head(responses)
           r == active[a.id]
       IN  IF r = NoRequest
             THEN UNCHANGED <<active, storing>>
             ELSE /\ active' = [active EXCEPT ![a.id] = Answered(@, a.perm, a.answer)]
                  /\ storing' = storing \cup {SetPermission(a.id, r, a.perm, a.answer)}
    /\ UNCHANGED <<flow, sink, dialogs, giveup, store, granted, outcome>>

\* Mutant: a failure of the store is not followed by the next dialog.
PermissionStoredOnly(w) ==
    /\ w \in storing
    /\ \/ /\ store' = [store EXCEPT ![AppOf[w.call]][w.perm] = w.answer]
          /\ ShowNextDialog(w.id, active, storing \ {w})
       \/ /\ storing' = storing \ {w}
          /\ UNCHANGED <<store, active, dialogs, giveup, outcome>>
    /\ UNCHANGED <<flow, sink, responses, granted>>

\* The store has written the decision, or failed to; either way the next
\* dialog follows, on the D-Bus thread.
PermissionStored(w) ==
    /\ w \in storing
    /\ \/ store' = [store EXCEPT ![AppOf[w.call]][w.perm] = w.answer]
       \/ UNCHANGED store
    /\ ShowNextDialog(w.id, active, storing \ {w})
    /\ UNCHANGED <<flow, sink, responses, granted>>

\* Flutter listens to the event channel or stops listening.
ListenOrCancel ==
    /\ sink' = ~sink
    /\ UNCHANGED <<flow, active, dialogs, responses, storing, giveup, store,
                   granted, outcome>>

\* The store keeps what was decided in earlier sessions.
Init ==
    /\ pc = [c \in Calls |-> "idle"]
    /\ found = [c \in Calls |-> [p \in Permissions |-> "pending"]]
    /\ active = [i \in Ids |-> NoRequest]
    /\ askers = [i \in Ids |-> {}]
    /\ mixed = {}
    /\ sink \in BOOLEAN
    /\ dialogs = {}
    /\ responses = <<>>
    /\ storing = {}
    /\ giveup = {}
    /\ store \in [AppIds -> Results]
    /\ \A a \in AppIds, p \in Permissions :
          store[a][p] # "none" => a \in AskedBefore /\ p \in Range(Needs[a])
    /\ granted = {g \in [app : AppIds, perm : Permissions] :
                      store[g.app][g.perm] = "yes"}
    /\ outcome = [c \in Calls |-> <<>>]

Io(c) ==
    \/ NothingNeeded(c) \/ LookUp(c) \/ NothingToAsk(c) \/ Ask(c)
    \/ \E p \in Permissions : LookUpAnswered(c, p)

User == \E d \in dialogs, answer \in {"yes", "no"} : UserAnswers(d, answer)

Double == \E d \in dialogs, answer \in {"yes", "no"} : UserAnswersTwice(d, answer)

Next ==
    \/ \E c \in Calls : Io(c)
    \/ \E i \in Ids : GiveUp(i)
    \/ User \/ Double \/ HandlePermissionResponse \/ ListenOrCancel
    \/ \E w \in storing : PermissionStored(w)

Spec == Init /\ [][Next]_vars

\* Posted handlers run and the store replies.  The liveness property holds for
\* a user who answers every dialog; ApplicationStart itself waits for ever for
\* one who does not, as there is no timeout.
Fairness ==
    /\ WF_vars(\E c \in Calls : Io(c))
    /\ WF_vars(\E i \in Ids : GiveUp(i))
    /\ WF_vars(HandlePermissionResponse)
    /\ WF_vars(\E w \in storing : PermissionStored(w))
    /\ WF_vars(User)

FairSpec == Spec /\ Fairness

-----------------------------------------------------------------------------
(* Properties. *)

TypeOK ==
    /\ pc \in [Calls -> {"idle", "checking", "called"}]
    /\ found \in [Calls -> [Permissions -> {"pending", "none", "yes", "no"}]]
    /\ active \in [Ids -> Request \cup {NoRequest}]
    /\ askers \in [Ids -> SUBSET Calls]
    /\ mixed \subseteq Ids
    /\ sink \in BOOLEAN
    /\ \A d \in dialogs : d \in [id : Ids, perm : Permissions, call : Calls]
    /\ responses \in Seq([id : Ids, perm : Permissions, answer : {"yes", "no"}])
    /\ \A w \in storing : w \in [id : Ids, call : Calls, perm : Permissions,
                                 answer : {"yes", "no"}, index : Nat]
    /\ giveup \subseteq Ids
    /\ store \in [AppIds -> Results]
    /\ granted \subseteq [app : AppIds, perm : Permissions]
    /\ outcome \in [Calls -> Seq(Results)]

\* The calls that may get an answer meant for another dialog: they have asked
\* under an id that was in use, or whose dialogs were answered out of turn.
Confused == UNION {askers[i] : i \in mixed}

\* What the user has granted to an application, or to one that asked under the
\* same mixed id.
Shared(i) ==
    {[app |-> AppOf[c], perm |-> g.perm] :
        c \in askers[i], g \in {h \in granted : \E d \in askers[i] : AppOf[d] = h.app}}
Claimed == granted \cup UNION {Shared(i) : i \in mixed}

\* "Check if all permissions processed" (flatpak_shim.cc:4572): a callback that
\* gets decisions gets one for every permission the application needs.  The
\* code does not look which permission an answer is for, so this is not claimed
\* of a call that is confused with another or answered out of turn.
ProcessedMeansDecided ==
    \A c \in Calls \ Confused : \A k \in 1..Len(outcome[c]) :
        outcome[c][k] # NoResults => \A p \in Needed(c) : outcome[c][k][p] # "none"

\* The store grants an application only what the user has granted to it, even
\* when several applications are asked about at once and answers come out of
\* turn.  Applications that ask under one id may get each other's answers, and
\* only they.
GrantsAreUsers ==
    \A a \in AppIds, p \in Permissions :
        store[a][p] = "yes" => [app |-> a, perm |-> p] \in Claimed

\* The call a given-up request is about, and what the caller has been told.
GivenUp == {active[i].call : i \in {j \in giveup : active[j] # NoRequest}}

Phase ==
    [c \in Calls |->
        IF pc[c] = "idle" THEN "idle"
        ELSE IF outcome[c] # <<>> THEN "answered"
        ELSE IF c \in Confused THEN "confused"
        ELSE IF c \in GivenUp THEN "unheard" ELSE "waiting"]

Service == INSTANCE PermissionService
               WITH phase <- Phase, listening <- sink, granted <- Claimed,
                    NeededBy <- [a \in AppIds |-> Range(Needs[a])],
                    decisions <- [c \in Calls |->
                                     IF outcome[c] = <<>> THEN NoResults
                                                          ELSE outcome[c][1]]

\* With its dialogs, ids, store and three threads, and whether the store succeeds
\* or fails, the code keeps the promise of PermissionService: when the user
\* answers, every start that asked for permissions goes on, once, with decisions
\* that are complete and the user's, or with nothing if Flutter did not listen.
\* A start whose answers were confused may wait for ever or go on with any
\* decisions, but goes on once at most, and harms no start under another id.
ImplementsService == Service!FairSpec
=============================================================================
