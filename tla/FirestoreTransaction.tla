------------------------ MODULE FirestoreTransaction ------------------------
(***************************************************************************)
(* One transaction of cloud_firestore (cloud_firestore_plugin.cc).          *)
(*                                                                         *)
(* The Firestore SDK runs the lambda of OnListenInternal once per attempt,  *)
(* on a thread of its own.  The lambda asks Dart over the event channel and *)
(* waits on a condition variable, with a timeout; Dart runs its handler,    *)
(* may read through TransactionGet and answers with TransactionStoreResult, *)
(* both on the platform thread.  The lambda applies the answer; the SDK     *)
(* then commits, tries again or gives up, and OnCompletion tells Dart.      *)
(*                                                                         *)
(* The wait has no predicate and its mutex is not the one under which the   *)
(* answer is stored: an answer before the wait wakes nobody.                *)
(*                                                                         *)
(* External, and therefore free: whether the SDK commits, retries or gives  *)
(* up, and what Dart does and when.  The condition variable may wake up on  *)
(* its own, as C++ allows.                                                 *)
(***************************************************************************)
EXTENDS Integers, Sequences

CONSTANT MaxAttempts        \* max_attempts of TransactionCreate

ASSUME AttemptsAssumption == MaxAttempts \in Nat \ {0}

VARIABLES
    sdk,            \* where the SDK's thread is
    attempt,        \* the attempt it is in, from 1
    transactions,   \* the attempt transactions_[id] points into, 0: null
    commands,       \* commands_: the attempt they were the answer to, 0: empty
    applied,        \* the commands this attempt has applied
    channel,        \* events on their way to Dart
    handlers,       \* the attempts whose handler Dart is running
    dart,           \* Dart's end of the stream
    got,            \* the last TransactionGet
    orderly         \* so far each attempt was woken by a stored result

vars == <<sdk, attempt, transactions, commands, applied, channel, handlers,
          dart, got, orderly>>

sdkVars == <<sdk, attempt, transactions, applied>>
dartVars == <<handlers, dart, got>>

Attempts == 1..MaxAttempts

\* The lambda is running, and with it the Transaction& it was given.
InLambda == sdk \in {"registered", "asked", "waiting", "awake"}

\* mtx_ belongs to the lambda from its wake-up to its return.
MtxFree == sdk # "awake"

Ask(n)   == [kind |-> "ask", attempt |-> n]
Complete == [kind |-> "complete"]
Error    == [kind |-> "error"]
End      == [kind |-> "end"]

Send(events) == channel' = channel \o events

\* cv_.notify_one: without a waiter it is lost.
NotifyOne == sdk' = IF sdk = "waiting" THEN "awake" ELSE sdk

-----------------------------------------------------------------------------
(* The platform thread. *)

\* TransactionCreate registers the handler and answers with the id.
TransactionCreate ==
    /\ dart = "idle"
    /\ dart' = "created"
    /\ UNCHANGED <<sdkVars, commands, channel, handlers, got, orderly>>

\* OnListenInternal hands the lambda to the SDK.
OnListen ==
    /\ dart = "created"
    /\ dart' = "listening"
    /\ sdk' = "between"
    /\ UNCHANGED <<attempt, transactions, commands, applied, channel, handlers,
                   got, orderly>>

\* OnCancelInternal.
OnCancel ==
    /\ dart = "listening"
    /\ MtxFree
    /\ NotifyOne
    /\ Send(<<End>>)
    /\ dart' = "cancelled"
    /\ orderly' = FALSE
    /\ UNCHANGED <<attempt, transactions, commands, applied, handlers, got>>

\* Mutant: a result is kept until it has been used, and never replaced.
StoreFirstResult(n) ==
    /\ n \in handlers
    /\ handlers' = handlers \ {n}
    /\ commands' = IF commands = 0 THEN n ELSE commands
    /\ NotifyOne
    /\ UNCHANGED <<attempt, transactions, applied, channel, dart, got, orderly>>

\* Dart's handler for attempt n is done: TransactionStoreResult, which calls
\* ReceiveTransactionResponse.  The type of the result is stored and not read.
TransactionStoreResult(n) ==
    /\ n \in handlers
    /\ handlers' = handlers \ {n}
    /\ commands' = n
    /\ NotifyOne
    /\ UNCHANGED <<attempt, transactions, applied, channel, dart, got, orderly>>

\* Dart's handler for attempt n reads.  The pointer of an attempt that is over
\* dangles, and a read of it is undefined: Dart has it from attempt 0.
TransactionGet(n) ==
    /\ n \in handlers
    /\ got' = [by |-> n,
               from |-> IF transactions = attempt /\ InLambda
                          THEN transactions ELSE 0,
               during |-> IF InLambda THEN attempt ELSE 0]
    /\ UNCHANGED <<sdkVars, commands, channel, handlers, dart, orderly>>

-----------------------------------------------------------------------------
(* The lambda, on the SDK's thread. *)

\* Mutant: emplace, which leaves the entry of an earlier attempt.
EmplaceTransaction ==
    /\ sdk = "between"
    /\ attempt < MaxAttempts
    /\ sdk' = "registered"
    /\ attempt' = attempt + 1
    /\ transactions' = IF transactions = 0 THEN attempt + 1 ELSE transactions
    /\ applied' = 0
    /\ UNCHANGED <<commands, channel, dartVars, orderly>>

\* An attempt begins: the lambda stores the transaction it was given.
RegisterTransaction ==
    /\ sdk = "between"
    /\ attempt < MaxAttempts
    /\ sdk' = "registered"
    /\ attempt' = attempt + 1
    /\ transactions' = attempt + 1
    /\ applied' = 0
    /\ UNCHANGED <<commands, channel, dartVars, orderly>>

\* It tells Dart to run its handler ...
AskDart ==
    /\ sdk = "registered"
    /\ sdk' = "asked"
    /\ Send(<<Ask(attempt)>>)
    /\ UNCHANGED <<attempt, transactions, applied, commands, dartVars, orderly>>

\* ... and only then waits.
Wait ==
    /\ sdk = "asked"
    /\ sdk' = "waiting"
    /\ UNCHANGED <<attempt, transactions, applied, commands, channel, dartVars,
                   orderly>>

SpuriousWakeUp ==
    /\ sdk = "waiting"
    /\ sdk' = "awake"
    /\ orderly' = FALSE
    /\ UNCHANGED <<attempt, transactions, applied, commands, channel, dartVars>>

\* Mutant: wait instead of wait_for.
WaitForEver == FALSE /\ UNCHANGED vars

\* wait_for returns timeout: the stream ends and the attempt fails.
TimeOut ==
    /\ sdk = "waiting"
    /\ sdk' = "failed"
    /\ Send(<<Error, End>>)
    /\ orderly' = FALSE
    /\ UNCHANGED <<attempt, transactions, applied, commands, dartVars>>

\* wait_for returned otherwise: whatever commands_ holds is applied.
ApplyCommands ==
    /\ sdk = "awake"
    /\ sdk' = "applied"
    /\ applied' = commands
    /\ UNCHANGED <<attempt, transactions, commands, channel, dartVars, orderly>>

-----------------------------------------------------------------------------
(* The SDK, external, and the completion callback it runs. *)

\* The commit fails on a conflict, or the lambda failed: another attempt.
Retry ==
    /\ sdk \in {"applied", "failed"}
    /\ attempt < MaxAttempts
    /\ sdk' = "between"
    /\ UNCHANGED <<attempt, transactions, applied, commands, channel, dartVars,
                   orderly>>

Commit ==
    /\ sdk = "applied"
    /\ sdk' = "committed"
    /\ UNCHANGED <<attempt, transactions, applied, commands, channel, dartVars,
                   orderly>>

GiveUp ==
    /\ sdk \in {"applied", "failed"}
    /\ sdk' = "given_up"
    /\ UNCHANGED <<attempt, transactions, applied, commands, channel, dartVars,
                   orderly>>

OnCompletion ==
    /\ sdk \in {"committed", "given_up"}
    /\ Send(IF sdk = "committed" THEN <<Complete, End>> ELSE <<Error, End>>)
    /\ sdk' = "completed"
    /\ UNCHANGED <<attempt, transactions, applied, commands, dartVars, orderly>>

-----------------------------------------------------------------------------
(* Dart's end of the channel. *)

\* Dart takes the next event; after its end the stream delivers nothing.
DartHears ==
    /\ channel # <<>>
    /\ LET e == Head(channel)
       IN  /\ handlers' = IF e.kind = "ask" /\ dart = "listening"
                            THEN handlers \cup {e.attempt} ELSE handlers
           /\ dart' = IF e.kind = "end" /\ dart = "listening"
                        THEN "ended" ELSE dart
    /\ channel' = Tail(channel)
    /\ UNCHANGED <<sdkVars, commands, got, orderly>>

Init ==
    /\ sdk = "unstarted"
    /\ attempt = 0
    /\ transactions = 0
    /\ commands = 0
    /\ applied = 0
    /\ channel = <<>>
    /\ handlers = {}
    /\ dart = "idle"
    /\ got = [by |-> 0, from |-> 0, during |-> 0]
    /\ orderly = TRUE

Lambda == RegisterTransaction \/ AskDart \/ Wait \/ TimeOut \/ ApplyCommands

Sdk == Retry \/ Commit \/ GiveUp \/ OnCompletion

Next ==
    \/ TransactionCreate \/ OnListen \/ OnCancel
    \/ \E n \in Attempts : TransactionStoreResult(n) \/ TransactionGet(n)
    \/ Lambda \/ SpuriousWakeUp \/ Sdk \/ DartHears

Spec == Init /\ [][Next]_vars

\* The SDK's thread runs, the timer of wait_for expires and the engine delivers
\* events.  Nothing obliges Dart to answer, to listen or to cancel.
Fairness == WF_vars(Lambda) /\ WF_vars(Sdk) /\ WF_vars(DartHears)

FairSpec == Spec /\ Fairness

-----------------------------------------------------------------------------
(* Properties. *)

Events == {Ask(n) : n \in Attempts} \cup {Complete, Error, End}

TypeOK ==
    /\ sdk \in {"unstarted", "between", "registered", "asked", "waiting",
                "awake", "applied", "failed", "committed", "given_up",
                "completed"}
    /\ attempt \in 0..MaxAttempts
    /\ transactions \in 0..MaxAttempts
    /\ commands \in 0..MaxAttempts
    /\ applied \in 0..MaxAttempts
    /\ channel \in Seq(Events)
    /\ handlers \subseteq Attempts
    /\ dart \in {"idle", "created", "listening", "ended", "cancelled"}
    /\ got \in [by : 0..MaxAttempts, from : 0..MaxAttempts,
                during : 0..MaxAttempts]
    /\ orderly \in BOOLEAN

\* What the SDK commits is what Dart's handler decided for that very attempt,
\* from what it read in that attempt -- as long as every attempt was woken by a
\* stored result.  A timeout, a cancel or a spurious wake-up lets an answer to
\* one attempt, or none, be committed in another (lines 848-858).
CommitsOwnAnswer ==
    orderly /\ sdk \in {"applied", "committed"} => applied = attempt

\* A handler that reads while its attempt is waiting for it reads through that
\* attempt's transaction (lines 838-846): transactions_[id] is replaced before
\* Dart is asked.
GetReadsOwnAttempt == got.by # 0 /\ got.by = got.during => got.from = got.by

\* A transaction that has begun ends for Dart, whether or not Dart answers and
\* whichever wake-up is lost: the timeout of line 850 sees to it.
TransactionEnds == dart = "listening" ~> dart \in {"ended", "cancelled"}

=============================================================================
