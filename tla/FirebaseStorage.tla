-------------------------- MODULE FirebaseStorage ---------------------------
(***************************************************************************)
(* firebase_storage_plugin.cc: the calls on a bucket and the upload and     *)
(* download tasks.                                                         *)
(*                                                                         *)
(* A call on an object starts an operation of the SDK, sleeps for a second  *)
(* on the platform thread, and only then hangs its callback on the future.  *)
(* A task is set up under a handle with a Controller of its own; its        *)
(* operation starts when Dart listens to its channel, and reports to a      *)
(* listener on the stack of OnListenInternal, which is gone once that has   *)
(* slept and returned.                                                     *)
(*                                                                         *)
(* External, and therefore free: how and when an operation ends, how much   *)
(* of a transfer there is to report.                                       *)
(***************************************************************************)
EXTENDS SdkCalls

CONSTANT Handles            \* the handles Dart gives its tasks

VARIABLES
    sleeper,    \* whom the platform thread sleeps for: calls, handles, or none
    task,       \* each handle's task
    dangling    \* the SDK has used a listener that was gone

storageVars == <<sleeper, task, dangling>>
taskVars == <<task, dangling>>
vars == <<call, storageVars>>

TypeOK ==
    /\ call \in [Calls -> Call]
    /\ sleeper \subseteq Calls \cup Handles /\ Cardinality(sleeper) <= 1
    /\ task \in [Handles -> {"none", "set up", "running", "paused",
                             "done", "failed", "reported"}]
    /\ dangling \in BOOLEAN

StateInit ==
    /\ sleeper = {}
    /\ task = [h \in Handles |-> "none"]
    /\ dangling = FALSE

Init == CallsInit /\ StateInit

Awake == sleeper = {}

-----------------------------------------------------------------------------
(* The calls, on the platform thread. *)

GetReferencebyPath(c) == AnswerNow(c) /\ UNCHANGED storageVars
ReferenceList(c)      == AnswerNow(c) /\ UNCHANGED storageVars
ReferenceListAll(c)   == AnswerNow(c) /\ UNCHANGED storageVars

SetMaxOperationRetryTime(c) == LoseReply(c) /\ UNCHANGED storageVars
SetMaxUploadRetryTime(c)    == LoseReply(c) /\ UNCHANGED storageVars
SetMaxDownloadRetryTime(c)  == LoseReply(c) /\ UNCHANGED storageVars
UseStorageEmulator(c)       == LoseReply(c) /\ UNCHANGED storageVars

\* The operation has started; sleep_for before OnCompletion.
StartAndSleep(c) ==
    /\ Forward(c)
    /\ sleeper' = {c}
    /\ UNCHANGED taskVars

ReferenceDelete(c)         == StartAndSleep(c)
ReferenceGetDownloadURL(c) == StartAndSleep(c)
ReferenceGetMetaData(c)    == StartAndSleep(c)
ReferenceGetData(c)        == StartAndSleep(c)
ReferenceUpdateMetadata(c) == StartAndSleep(c)

WakeUp == ~Awake /\ sleeper' = {} /\ UNCHANGED <<call, taskVars>>

\* A task is set up under a new handle and answered with its channel.
SetUp(c) ==
    /\ AnswerNow(c)
    /\ \E h \in Handles : /\ task[h] = "none"
                          /\ task' = [task EXCEPT ![h] = "set up"]
    /\ UNCHANGED <<sleeper, dangling>>

ReferencePutData(c)      == SetUp(c)
ReferencePutString(c)    == SetUp(c)
ReferencePutFile(c)      == SetUp(c)
ReferenceDownloadFile(c) == SetUp(c)

\* The controller's answer is the call's answer, also when it refuses.
Control(c, from, to) ==
    /\ AnswerNow(c)
    /\ \E h \in Handles :
          /\ task[h] # "none"
          /\ \/ task[h] = from /\ task' = [task EXCEPT ![h] = to]
             \/ UNCHANGED task
    /\ UNCHANGED <<sleeper, dangling>>

TaskPause(c)  == Control(c, "running", "paused")
TaskResume(c) == Control(c, "paused", "running")
TaskCancel(c) == Control(c, "running", "failed") \/ Control(c, "paused", "failed")

StorageCall ==
    /\ Awake
    /\ \E c \in Calls :
        \/ GetReferencebyPath(c)
        \/ ReferenceList(c)
        \/ ReferenceListAll(c)
        \/ SetMaxOperationRetryTime(c)
        \/ SetMaxUploadRetryTime(c)
        \/ SetMaxDownloadRetryTime(c)
        \/ UseStorageEmulator(c)
        \/ ReferenceDelete(c)
        \/ ReferenceGetDownloadURL(c)
        \/ ReferenceGetMetaData(c)
        \/ ReferenceGetData(c)
        \/ ReferenceUpdateMetadata(c)
        \/ ReferencePutData(c)
        \/ ReferencePutString(c)
        \/ ReferencePutFile(c)
        \/ ReferenceDownloadFile(c)
        \/ TaskPause(c)
        \/ TaskResume(c)
        \/ TaskCancel(c)

\* OnListenInternal of the three handlers, up to its sleep.
OnListenInternal(h) ==
    /\ Awake
    /\ task[h] = "set up"
    /\ task' = [task EXCEPT ![h] = "running"]
    /\ sleeper' = {h}
    /\ UNCHANGED <<call, dangling>>

-----------------------------------------------------------------------------
(* The SDK. *)

\* No callback runs before it has been hung on its future.
Hung(x) == x \notin sleeper

FutureEnds(c) ==
    /\ \/ FutureFails(c)
       \/ PlainFutureSucceeds(c)
       \/ Hung(c) /\ (AnswerError(c) \/ PlainAnswer(c))
    /\ UNCHANGED storageVars

TransferEnds(h) ==
    /\ task[h] = "running"
    /\ \E e \in {"done", "failed"} : task' = [task EXCEPT ![h] = e]
    /\ UNCHANGED <<call, sleeper, dangling>>

\* TaskStateListener's OnProgress and OnPaused, through events_.
TellProgress(h) ==
    /\ task[h] \in {"running", "paused"}
    /\ dangling' = (dangling \/ h \notin sleeper)
    /\ UNCHANGED <<call, sleeper, task>>

\* The callback of OnCompletion.
TellEnd(h) ==
    /\ task[h] \in {"done", "failed"}
    /\ Hung(h)
    /\ task' = [task EXCEPT ![h] = "reported"]
    /\ UNCHANGED <<call, sleeper, dangling>>

SdkStep ==
    \/ \E c \in Calls : FutureEnds(c)
    \/ \E h \in Handles : TransferEnds(h) \/ TellProgress(h) \/ TellEnd(h)

Next ==
    \/ StorageCall
    \/ WakeUp
    \/ \E h \in Handles : OnListenInternal(h)
    \/ SdkStep

Spec == Init /\ [][Next]_vars
=============================================================================
