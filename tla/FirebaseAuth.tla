---------------------------- MODULE FirebaseAuth ----------------------------
(***************************************************************************)
(* firebase_auth_plugin.cc: the calls on one Auth object, and its two       *)
(* streams, of id tokens and of the authentication state.                  *)
(*                                                                         *)
(* A stream handler owns a listener with an event sink and adds it to the   *)
(* SDK, which tells every listener of a change while it holds its mutex of  *)
(* listeners; adding and removing take the same mutex, and adding tells the *)
(* new listener at once.  A listener reads current_user() when it is told.  *)
(*                                                                         *)
(* External, and therefore free: when an operation of the SDK ends and how, *)
(* which account signs in, in which order the SDK tells.                    *)
(***************************************************************************)
EXTENDS SdkCalls, Sequences

CONSTANT MaxListens         \* bound: the listeners made

Streams == {"id-token", "auth-state"}
Listeners == 1..MaxListens

VARIABLES
    user,       \* auth->current_user()
    due,        \* the streams whose listeners the SDK has yet to tell
    telling,    \* the SDK, holding its mutex: listeners to tell, the one told
    attached,   \* the listeners added to the SDK
    sink,       \* the listeners whose event_sink_ is set
    streamOf,   \* the stream each listener was made for
    made,       \* how many were made
    listener,   \* listener_ of each stream's handler, 0: null
    listening,  \* is_listening of each stream's event channel
    platform,   \* the steps the platform thread has yet to take, and where
    heard       \* the last user each stream's subscriber was told, at most one

authVars == <<user, due, telling, attached, sink, streamOf, made, listener,
              listening, platform, heard>>
listenVars == <<telling, attached, sink, streamOf, made, listener, listening,
                platform, heard>>
vars == <<call, authVars>>

Quiet == [todo |-> {}, told |-> 0, seen |-> NoUser, add |-> FALSE]
MutexFree == telling.todo = {} /\ telling.told = 0

Idle == platform.steps = <<>> /\ ~telling.add

TypeOK ==
    /\ call \in [Calls -> Call]
    /\ user \in Users \cup {NoUser}
    /\ due \subseteq Streams
    /\ telling.todo \subseteq attached /\ telling.told \in attached \cup {0}
    /\ attached \cup sink \subseteq 1..made
    /\ listener \in [Streams -> 0..made]
    /\ \A s \in Streams : listener[s] # 0 => streamOf[listener[s]] = s
    /\ \A s \in Streams : Cardinality(heard[s]) <= 1

StateInit ==
    /\ user = NoUser
    /\ due = {}
    /\ telling = Quiet
    /\ attached = {} /\ sink = {} /\ made = 0
    /\ streamOf = [n \in Listeners |-> "id-token"]
    /\ listener = [s \in Streams |-> 0]
    /\ listening = [s \in Streams |-> FALSE]
    /\ platform = [steps |-> <<>>, stream |-> "id-token"]
    /\ heard = [s \in Streams |-> {}]

Init == CallsInit /\ StateInit

-----------------------------------------------------------------------------
(* The calls, on the platform thread. *)

ForUser(c, k) == ForwardFor(c, k, user) /\ UNCHANGED authVars
Refuse(c)     == Unimplemented(c) /\ UNCHANGED authVars

UseEmulator(c)     == AnswerNow(c) /\ UNCHANGED authVars
SetLanguageCode(c) == AnswerNow(c) /\ UNCHANGED authVars

ApplyActionCode(c)                  == Refuse(c)
CheckActionCode(c)                  == Refuse(c)
ConfirmPasswordReset(c)             == Refuse(c)
SignInWithEmailLink(c)              == Refuse(c)
SendSignInLinkToEmail(c)            == Refuse(c)
SetSettings(c)                      == Refuse(c)
VerifyPasswordResetCode(c)          == Refuse(c)
VerifyPhoneNumber(c)                == Refuse(c)
VerifyBeforeUpdateEmail(c)          == Refuse(c)
RevokeTokenWithAuthorizationCode(c) == Refuse(c)

CreateUserWithEmailAndPassword(c) == ForUser(c, "signIn")
SignInAnonymously(c)              == ForUser(c, "signIn")
SignInWithCredential(c)           == ForUser(c, "signIn")
SignInWithCustomToken(c)          == ForUser(c, "signIn")
SignInWithEmailAndPassword(c)     == ForUser(c, "signIn")
SignInWithProvider(c)             == ForUser(c, "signIn")

LinkWithCredential(c)         == ForUser(c, "link")
LinkWithProvider(c)           == ForUser(c, "link")
ReauthenticateWithProvider(c) == ForUser(c, "link")
Unlink(c)                     == ForUser(c, "link")
UpdatePhoneNumber(c)          == ForUser(c, "link")

FetchSignInMethodsForEmail(c)   == ForUser(c, "plain")
SendPasswordResetEmail(c)       == ForUser(c, "plain")
SendEmailVerification(c)        == ForUser(c, "own")
GetIdToken(c)                   == ForUser(c, "token")
Delete(c)                       == ForUser(c, "delete")
ReauthenticateWithCredential(c) == ForUser(c, "silent")

Reload(c)         == ForUser(c, "fresh")
UpdateEmail(c)    == ForUser(c, "fresh")
UpdatePassword(c) == ForUser(c, "fresh")
UpdateProfile(c)  == ForUser(c, "fresh")

\* The SDK tells the listeners of both streams when the user changes.
SetUser(u) ==
    /\ user' = u
    /\ due' = IF u = user THEN due ELSE Streams

SignOut(c) ==
    /\ AnswerNow(c)
    /\ SetUser(NoUser)
    /\ UNCHANGED listenVars

CallsOfUser(c) ==
    \/ CreateUserWithEmailAndPassword(c)
    \/ SignInAnonymously(c)
    \/ SignInWithCredential(c)
    \/ SignInWithCustomToken(c)
    \/ SignInWithEmailAndPassword(c)
    \/ SignInWithProvider(c)
    \/ LinkWithCredential(c)
    \/ LinkWithProvider(c)
    \/ ReauthenticateWithCredential(c)
    \/ ReauthenticateWithProvider(c)
    \/ Unlink(c)
    \/ UpdatePhoneNumber(c)
    \/ Reload(c)
    \/ UpdateEmail(c)
    \/ UpdatePassword(c)
    \/ UpdateProfile(c)
    \/ SendEmailVerification(c)
    \/ GetIdToken(c)
    \/ Delete(c)
    \/ SignOut(c)

OtherCalls(c) ==
    \/ UseEmulator(c)
    \/ SetLanguageCode(c)
    \/ FetchSignInMethodsForEmail(c)
    \/ SendPasswordResetEmail(c)
    \/ ApplyActionCode(c)
    \/ CheckActionCode(c)
    \/ ConfirmPasswordReset(c)
    \/ SignInWithEmailLink(c)
    \/ SendSignInLinkToEmail(c)
    \/ SetSettings(c)
    \/ VerifyPasswordResetCode(c)
    \/ VerifyPhoneNumber(c)
    \/ VerifyBeforeUpdateEmail(c)
    \/ RevokeTokenWithAuthorizationCode(c)

AuthCall == Idle /\ \E c \in Calls : CallsOfUser(c) \/ OtherCalls(c)

-----------------------------------------------------------------------------
(* The SDK. *)

\* Only a sign-in and the calls about an address need nobody signed in.
MaySucceed(c) == call[c].kind \in {"signIn", "plain"} \/ call[c].user # NoUser

Finish(c, u) == call' = [call EXCEPT ![c].state = "done", ![c].user = u]

SignInSucceeds(c, u) ==
    /\ call[c].state = "running" /\ call[c].kind = "signIn"
    /\ Finish(c, u)
    /\ SetUser(u)
    /\ UNCHANGED listenVars

FutureSucceeds(c) ==
    /\ call[c].state = "running" /\ call[c].kind # "signIn" /\ MaySucceed(c)
    /\ Finish(c, call[c].user)
    /\ CASE call[c].kind = "delete" /\ user = call[c].user -> SetUser(NoUser)
         [] call[c].kind = "token" ->
                due' = due \cup {"id-token"} /\ UNCHANGED user
         [] OTHER -> UNCHANGED <<user, due>>
    /\ UNCHANGED listenVars

\* The user the callback of OnCompletion answers with.
AnswerOf(c) ==
    CASE call[c].kind = "fresh" -> user
      [] call[c].kind \in {"signIn", "link"} -> call[c].user
      [] OTHER -> NoUser

Callback(c) ==
    /\ call[c].state = "done"
    /\ call' = [call EXCEPT
           ![c].state = IF call[c].kind = "silent" THEN "lost" ELSE "answered",
           ![c].answer = AnswerOf(c)]
    /\ UNCHANGED authVars

FutureEnds(c) ==
    \/ (FutureFails(c) \/ AnswerError(c)) /\ UNCHANGED authVars
    \/ FutureSucceeds(c)
    \/ Callback(c)
    \/ \E u \in Users : SignInSucceeds(c, u)

\* NotifyAuthStateListeners and NotifyIdTokenListeners, under their mutex.
Notify(s) ==
    /\ MutexFree
    /\ s \in due
    /\ due' = due \ {s}
    /\ telling' = [Quiet EXCEPT !.todo = {n \in attached : streamOf[n] = s}]
    /\ UNCHANGED <<call, user, attached, sink, streamOf, made, listener,
                   listening, platform, heard>>

\* OnIdTokenChanged, OnAuthStateChanged: the user is read, the sink tested ...
OnChanged(n) ==
    /\ n \in telling.todo /\ telling.told = 0
    /\ telling' = IF n \in sink
                  THEN [telling EXCEPT !.todo = @ \ {n}, !.told = n, !.seen = user]
                  ELSE [telling EXCEPT !.todo = @ \ {n},
                                       !.add = @ /\ telling.todo # {n}]
    /\ UNCHANGED <<call, user, due, attached, sink, streamOf, made, listener,
                   listening, platform, heard>>

\* ... and used.
SendUser ==
    /\ telling.told # 0
    /\ heard' = [heard EXCEPT ![streamOf[telling.told]] = {telling.seen}]
    /\ telling' = [telling EXCEPT !.told = 0, !.add = @ /\ telling.todo # {}]
    /\ UNCHANGED <<call, user, due, attached, sink, streamOf, made, listener,
                   listening, platform>>

SdkStep ==
    \/ \E c \in Calls : FutureEnds(c)
    \/ \E s \in Streams : Notify(s)
    \/ \E n \in telling.todo : OnChanged(n)
    \/ SendUser

-----------------------------------------------------------------------------
(* The streams, on the platform thread. *)

\* Mutant: the listener is added before it has its sink.
AddFirst == <<"create", "add", "arm">>

\* OnListenInternal: new listener, SetEventSink, Add...Listener.
OnListenInternal == <<"create", "arm", "add">>

\* Mutant: the sink is reset before the listener is removed.
DisarmFirst == <<"disarm", "remove", "drop">>

\* OnCancelInternal: Remove...Listener, SetEventSink(nullptr), listener_ = nullptr.
OnCancelInternal == <<"remove", "disarm", "drop">>

\* The event channel cancels before it listens a second time.
Listen(s) ==
    /\ Idle
    /\ made < MaxListens
    /\ platform' = [steps |-> (IF listening[s] THEN OnCancelInternal ELSE <<>>)
                                  \o OnListenInternal,
                    stream |-> s]
    /\ listening' = [listening EXCEPT ![s] = TRUE]
    /\ heard' = [heard EXCEPT ![s] = {}]
    /\ UNCHANGED <<call, user, due, telling, attached, sink, streamOf, made,
                   listener>>

Cancel(s) ==
    /\ Idle
    /\ listening[s]
    /\ platform' = [steps |-> OnCancelInternal, stream |-> s]
    /\ listening' = [listening EXCEPT ![s] = FALSE]
    /\ UNCHANGED <<call, user, due, telling, attached, sink, streamOf, made,
                   listener, heard>>

\* Register...Listener again: a new handler and channel state; the listener of
\* the old handler stays with the SDK.
RegisterListener(s) ==
    /\ Idle
    /\ listener' = [listener EXCEPT ![s] = 0]
    /\ listening' = [listening EXCEPT ![s] = FALSE]
    /\ UNCHANGED <<call, user, due, telling, attached, sink, streamOf, made,
                   platform, heard>>

Step(what) ==
    /\ platform.steps # <<>> /\ ~telling.add
    /\ Head(platform.steps) = what
    /\ platform' = [platform EXCEPT !.steps = Tail(@)]
    /\ UNCHANGED <<call, user, due, listening, heard>>

Mine == listener[platform.stream]

Create ==
    /\ Step("create")
    /\ made' = made + 1
    /\ listener' = [listener EXCEPT ![platform.stream] = made']
    /\ streamOf' = [streamOf EXCEPT ![made'] = platform.stream]
    /\ UNCHANGED <<telling, attached, sink>>

Drop ==
    /\ Step("drop")
    /\ listener' = [listener EXCEPT ![platform.stream] = 0]
    /\ UNCHANGED <<telling, attached, sink, streamOf, made>>

\* SetEventSink(events), SetEventSink(nullptr).
Arm ==
    /\ Step("arm")
    /\ sink' = sink \cup {Mine}
    /\ UNCHANGED <<telling, attached, streamOf, made, listener>>

Disarm ==
    /\ Step("disarm")
    /\ sink' = sink \ {Mine}
    /\ UNCHANGED <<telling, attached, streamOf, made, listener>>

\* The SDK tells the new listener while it adds it.
Add ==
    /\ Step("add")
    /\ MutexFree
    /\ attached' = attached \cup {Mine}
    /\ telling' = [Quiet EXCEPT !.todo = {Mine}, !.add = TRUE]
    /\ UNCHANGED <<sink, streamOf, made, listener>>

Remove ==
    /\ Step("remove")
    /\ MutexFree
    /\ attached' = attached \ {Mine}
    /\ UNCHANGED <<telling, sink, streamOf, made, listener>>

PlatformStep ==
    \/ Create \/ Drop \/ Arm \/ Disarm \/ Add \/ Remove
    \/ \E s \in Streams : Listen(s) \/ Cancel(s) \/ RegisterListener(s)

Next == AuthCall \/ SdkStep \/ PlatformStep

Spec == Init /\ [][Next]_vars

-----------------------------------------------------------------------------
(* Properties. *)

\* The sink of a listener is not reset while OnIdTokenChanged or
\* OnAuthStateChanged is between its test of event_sink_ and its use.
SinkInUseIsSet == telling.told # 0 => telling.told \in sink

\* A subscriber is up to date: when nothing is on its way to a stream that is
\* listened to, the last user it heard of is the one signed in, whatever signed
\* in or out while its listener was being added or told.
StreamIsCurrent ==
    \A s \in Streams :
        listening[s] /\ Idle /\ MutexFree /\ s \notin due => heard[s] = {user}

=============================================================================
