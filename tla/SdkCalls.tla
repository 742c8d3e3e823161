------------------------------ MODULE SdkCalls ------------------------------
(***************************************************************************)
(* The calls Dart makes on the plugins that wrap a Firebase SDK.            *)
(*                                                                         *)
(* Every method gets a reply callback.  It answers at once, hands the reply *)
(* to the future of an SDK operation (Future::OnCompletion, which runs it   *)
(* on a thread of the SDK), or loses it.  The plugins' modules extend this  *)
(* one and give each method its line.                                      *)
(*                                                                         *)
(* A future completes in the SDK and is answered in a step of its own: what *)
(* the callback reads besides the future may have changed in between.      *)
(***************************************************************************)
EXTENDS Integers, FiniteSets

CONSTANTS
    Calls,      \* the calls Dart makes
    Users,      \* the accounts that can sign in
    NoUser      \* nobody is signed in

VARIABLE call   \* what became of each call

\* What a forwarded operation answers from, and what it does to the user.
Kinds == {"plain",      \* the result of the future
          "signIn",     \* ... which is a new user
          "link",       \* ... which is the user it was asked for
          "own",        \* nothing; it is for the user signed in
          "token",      \* a token of that user
          "fresh",      \* the user signed in when the callback runs
          "delete",     \* nothing; that user is gone
          "silent",     \* an error of the future, and nothing on success
          "named",      \* the result of a second future, if the first has one
          "clear",      \* nothing; the instance must not be in use
          "terminate"}  \* nothing; the instance is terminated

\* "done" and "failed": the future has completed, its callback has not run.
\* "lost": nobody will ever answer.
States == {"unasked", "running", "done", "failed", "answered", "refused", "lost"}

Call == [state : States, kind : Kinds, user : Users \cup {NoUser},
         answer : Users \cup {NoUser}]

Unasked == [state |-> "unasked", kind |-> "plain", user |-> NoUser,
            answer |-> NoUser]

CallsInit == call = [c \in Calls |-> Unasked]

\* A method that runs result(...) with a value before it returns.
AnswerNow(c) ==
    /\ call[c].state = "unasked"
    /\ call' = [call EXCEPT ![c].state = "answered"]

\* A method that answers "unimplemented".
Unimplemented(c) ==
    /\ call[c].state = "unasked"
    /\ call' = [call EXCEPT ![c].state = "refused"]

\* A method whose reply is dropped: nobody will ever answer.
LoseReply(c) ==
    /\ call[c].state = "unasked"
    /\ call' = [call EXCEPT ![c].state = "lost"]

\* A method that starts an operation of the SDK for user u.
ForwardFor(c, k, u) ==
    /\ call[c].state = "unasked"
    /\ call' = [call EXCEPT ![c] =
                   [@ EXCEPT !.state = "running", !.kind = k, !.user = u]]

Forward(c) == ForwardFor(c, "plain", NoUser)

\* The SDK: an operation ends with an error.
FutureFails(c) ==
    /\ call[c].state = "running"
    /\ call' = [call EXCEPT ![c].state = "failed"]

\* OnCompletion's callback with an error.
AnswerError(c) ==
    /\ call[c].state = "failed"
    /\ call' = [call EXCEPT ![c].state = "refused"]

\* The same for the plugins that keep no user.
PlainFutureSucceeds(c) ==
    /\ call[c].state = "running"
    /\ call' = [call EXCEPT ![c].state = "done"]

PlainAnswer(c) ==
    /\ call[c].state = "done"
    /\ call' = [call EXCEPT ![c].state = "answered"]

=============================================================================
