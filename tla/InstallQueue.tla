---------------------------- MODULE InstallQueue ----------------------------
(***************************************************************************)
(* ApplicationInstall of the flatpak plugin (flatpak_shim.cc) together with *)
(* the operation tracker it keeps up to date.                              *)
(*                                                                         *)
(* A call of Dart is dispatched to the strand.  There the shim looks the    *)
(* application up, posts TrackOperationStart and starts a detached thread,  *)
(* which runs up to two libflatpak transactions and posts one closing       *)
(* handler to the strand; that handler answers Dart.  Inside the first      *)
(* transaction libflatpak emits "ready", where the thread compares the free *)
(* disk space with the tracker's total and refuses or reserves.             *)
(*                                                                         *)
(* The strand and the raw posts to the io_context share one thread.  asio   *)
(* promises an order within the strand, and one poster's raw posts run in   *)
(* turn; between the two the model promises nothing.                       *)
(*                                                                         *)
(* External, and therefore free: what libflatpak answers, and uninstalls.  *)
(***************************************************************************)
EXTENDS OperationTracker

CONSTANTS
    Calls,      \* the calls of ApplicationInstall
    AppOf,      \* the application each call names
    Size,       \* download_size each call's first transaction will report
    MinFree,    \* flatpak_installation_get_min_free_space_bytes
    DiskFree,   \* the most bytes free on the file system at the beginning
    MaxCalls    \* bound on the calls that are made

ASSUME InstallAssumption ==
    /\ AppOf \in [Calls -> AppIds]
    /\ Size \in [Calls -> 0..MaxBytes]
    /\ MinFree \in Nat
    /\ DiskFree \in Nat
    /\ MaxCalls \in Nat

VARIABLES
    pc,         \* where each call is
    strandq,    \* handlers posted to the strand, oldest first
    reply,      \* what PromiseGuard has passed to Dart for each call
    callbacks,  \* how often the shim has invoked the callback of each call
    installed,  \* applications libflatpak finds installed
    free,       \* free bytes on the file system
    seenFree,   \* the free bytes the call's "ready" handler has read
    left        \* bytes the call was admitted for and has not fetched yet

callVars == <<pc, strandq, reply, callbacks>>
diskVars == <<installed, free, seenFree, left>>
vars == <<trackerVars, callVars, diskVars>>

Locations ==
    {"idle", "dispatched",    \* before and on the strand
     "phase1",                \* first transaction, before "ready"
     "measured", "refused",   \* in check_disk_usage, and after it said no
     "admitted",              \* first transaction, after "ready"
     "check",                 \* is the application there already?
     "setup2", "phase2",      \* second transaction
     "verify",                \* is the application there now?
     "ended"}                 \* the thread has posted its closing handler

\* What a strand handler does for its call.  The closing handlers differ in
\* whether they finish the tracker's operation and in what they answer.
Closings ==
    [finish : BOOLEAN, answer : {"ok", "error", "setup2_error"}]
StrandHandler == [call : Calls, start : BOOLEAN, closing : Closings]

NoClosing == [finish |-> FALSE, answer |-> "error"]
StartHandler(c) == [call |-> c, start |-> TRUE, closing |-> NoClosing]
ClosingHandler(c, finish, answer) ==
    [call |-> c, start |-> FALSE,
     closing |-> [finish |-> finish, answer |-> answer]]

Move(c, from, to) == pc[c] = from /\ pc' = [pc EXCEPT ![c] = to]

\* The thread of c posts its closing handler.
PostClosing(c, finish, answer) ==
    /\ pc' = [pc EXCEPT ![c] = "ended"]
    /\ strandq' = Append(strandq, ClosingHandler(c, finish, answer))

-----------------------------------------------------------------------------
(* The platform thread and the strand. *)

Requested == {c \in Calls : pc[c] # "idle"}

\* Dart calls; the plugin dispatches to the strand.
Request(c) ==
    /\ Cardinality(Requested) < MaxCalls
    /\ Move(c, "idle", "dispatched")
    /\ strandq' = Append(strandq, StartHandler(c))
    /\ UNCHANGED <<trackerVars, reply, callbacks, diskVars>>

\* The body of ApplicationInstall up to the start of its thread, in four
\* outcomes.  The strand runs it for the call at the head.
StartsOnStrand(c) ==
    /\ pc[c] = "dispatched"
    /\ strandq # <<>>
    /\ Head(strandq) = StartHandler(c)

\* An early return posts its closing handler to the strand.
Return(c, finish, answer) ==
    /\ pc' = [pc EXCEPT ![c] = "ended"]
    /\ strandq' = Append(Tail(strandq), ClosingHandler(c, finish, answer))

\* No id, no installation, or no remote has the application.
InstallRejected(c) ==
    /\ StartsOnStrand(c)
    /\ Return(c, FALSE, "error")
    /\ UNCHANGED <<trackerVars, reply, callbacks, diskVars>>

AlreadyInstalled(c) ==
    /\ StartsOnStrand(c)
    /\ AppOf[c] \in installed
    /\ Return(c, FALSE, "ok")
    /\ UNCHANGED <<trackerVars, reply, callbacks, diskVars>>

\* The tracker knows of the install, but the transaction cannot be created or
\* the application cannot be added to it.
Phase1SetupFails(c) ==
    /\ StartsOnStrand(c)
    /\ AppOf[c] \notin installed
    /\ posted' = Append(posted, TrackOperationStart(AppOf[c]))
    /\ Return(c, TRUE, "error")
    /\ UNCHANGED <<tracked, reply, callbacks, diskVars>>

Phase1Starts(c) ==
    /\ StartsOnStrand(c)
    /\ AppOf[c] \notin installed
    /\ posted' = Append(posted, TrackOperationStart(AppOf[c]))
    /\ pc' = [pc EXCEPT ![c] = "phase1"]
    /\ strandq' = Tail(strandq)
    /\ UNCHANGED <<tracked, reply, callbacks, diskVars>>

\* The closing handler: SendOperationFinish where the code calls it, then the
\* callback, of which PromiseGuard lets only the first through.
Close(c) ==
    /\ strandq # <<>>
    /\ LET h == Head(strandq)
       IN  /\ h.call = c
           /\ ~h.start
           /\ posted' = IF h.closing.finish
                          THEN Append(posted, SendOperationFinish(AppOf[c]))
                          ELSE posted
           /\ callbacks' = [callbacks EXCEPT ![c] = @ + 1]
           /\ reply' = [reply EXCEPT ![c] =
                            IF @ = "none" THEN h.closing.answer ELSE @]
    /\ strandq' = Tail(strandq)
    /\ UNCHANGED <<tracked, pc, diskVars>>

-----------------------------------------------------------------------------
(* OnTransactionReady and check_disk_usage, on the thread of the call. *)

\* The free space is read first ...
MeasureDisk(c) ==
    /\ Move(c, "phase1", "measured")
    /\ seenFree' = [seenFree EXCEPT ![c] = free]
    /\ UNCHANGED <<trackerVars, strandq, reply, callbacks, installed, free, left>>

\* ... unless libflatpak or GIO reports an error, which aborts.
MeasureFails(c) ==
    /\ Move(c, "phase1", "refused")
    /\ UNCHANGED <<trackerVars, strandq, reply, callbacks, diskVars>>

\* What is left of the free space after the queue and this install.
EffectiveFree(c) ==
    LET claimed == total_pending_bytes + Size[c]
    IN  IF seenFree[c] > claimed THEN seenFree[c] - claimed ELSE 0

Fits(c) == EffectiveFree(c) >= MinFree + Size[c]

\* ... then the tracker's total, and the two are compared.
Admit(c) ==
    /\ Move(c, "measured", "admitted")
    /\ Fits(c)
    /\ posted' = Append(posted, SetOperationSize(AppOf[c], Size[c]))
    /\ left' = [left EXCEPT ![c] = Size[c]]
    /\ UNCHANGED <<tracked, strandq, reply, callbacks,
                   installed, free, seenFree>>

Refuse(c) ==
    /\ Move(c, "measured", "refused")
    /\ ~Fits(c)
    /\ posted' = Append(posted, ClearOperation(AppOf[c]))
    /\ UNCHANGED <<tracked, strandq, reply, callbacks,
                   diskVars>>

-----------------------------------------------------------------------------
(* The two transactions, on the thread of the call. *)

\* A transaction fetches n of the bytes it was admitted for.
Fetch(c, n, rest) ==
    /\ n <= left[c]
    /\ n <= free
    /\ free' = free - n
    /\ left' = [left EXCEPT ![c] = rest]

\* The first transaction fails, at any time or because "ready" said no.
Phase1Fails(c) ==
    /\ pc[c] \in {"phase1", "refused", "admitted"}
    /\ PostClosing(c, TRUE, "error")
    /\ \E n \in 0..left[c] : Fetch(c, n, 0)
    /\ UNCHANGED <<trackerVars, reply, callbacks, installed, seenFree>>

\* It succeeds.  The application need not be there: OnOperationError lets the
\* transaction go on after the error of one operation.
Phase1Succeeds(c) ==
    /\ Move(c, "admitted", "check")
    /\ \/ /\ installed' = installed \cup {AppOf[c]}
          /\ Fetch(c, left[c], 0)
       \/ /\ \E n \in 0..left[c] : Fetch(c, n, left[c] - n)
          /\ UNCHANGED installed
    /\ UNCHANGED <<trackerVars, strandq, reply, callbacks, seenFree>>

\* Two seconds later the thread looks for the application; the look-up itself
\* may fail, which counts as not found.
FoundAfterPhase1(c) ==
    /\ pc[c] = "check"
    /\ AppOf[c] \in installed
    /\ PostClosing(c, TRUE, "ok")
    /\ left' = [left EXCEPT ![c] = 0]
    /\ UNCHANGED <<trackerVars, reply, callbacks, installed, free, seenFree>>

NotFoundAfterPhase1(c) ==
    /\ Move(c, "check", "setup2")
    /\ UNCHANGED <<trackerVars, strandq, reply, callbacks, diskVars>>

\* Mutant: the early return is missing.
Phase2SetupGoesOn(c) ==
    /\ Move(c, "setup2", "phase2")
    /\ strandq' = Append(strandq, ClosingHandler(c, FALSE, "setup2_error"))
    /\ UNCHANGED <<trackerVars, reply, callbacks, diskVars>>

\* The second transaction cannot be created, or libflatpak refuses to add the
\* application to it.  The closing handler does not finish the operation.
Phase2SetupFails(c) ==
    /\ pc[c] = "setup2"
    /\ PostClosing(c, FALSE, "setup2_error")
    /\ left' = [left EXCEPT ![c] = 0]
    /\ UNCHANGED <<trackerVars, reply, callbacks, installed, free, seenFree>>

\* libflatpak adds only an application that is not installed.
Phase2Starts(c) ==
    /\ Move(c, "setup2", "phase2")
    /\ AppOf[c] \notin installed
    /\ UNCHANGED <<trackerVars, strandq, reply, callbacks, diskVars>>

Phase2Fails(c) ==
    /\ pc[c] = "phase2"
    /\ PostClosing(c, TRUE, "error")
    /\ \E n \in 0..left[c] : Fetch(c, n, 0)
    /\ UNCHANGED <<trackerVars, reply, callbacks, installed, seenFree>>

Phase2Succeeds(c) ==
    /\ Move(c, "phase2", "verify")
    /\ \/ /\ installed' = installed \cup {AppOf[c]}
          /\ Fetch(c, left[c], 0)
       \/ /\ \E n \in 0..left[c] : Fetch(c, n, 0)
          /\ UNCHANGED installed
    /\ UNCHANGED <<trackerVars, strandq, reply, callbacks, seenFree>>

\* Mutant: the answer does not depend on the look-up.
VerifyTrusts(c) ==
    /\ pc[c] = "verify"
    /\ PostClosing(c, TRUE, "ok")
    /\ UNCHANGED <<trackerVars, reply, callbacks, diskVars>>

\* The final look-up, which may fail too.
Verify(c) ==
    /\ pc[c] = "verify"
    /\ \/ AppOf[c] \in installed /\ PostClosing(c, TRUE, "ok")
       \/ PostClosing(c, TRUE, "error")
    /\ UNCHANGED <<trackerVars, reply, callbacks, diskVars>>

-----------------------------------------------------------------------------
\* The io_context's thread runs a raw handler.
RunPosted == RunHandler /\ UNCHANGED <<callVars, diskVars>>

\* External: an uninstall removes an application (the space it gives back can
\* only help, and is not counted).
Uninstalled(a) ==
    /\ a \in installed
    /\ installed' = installed \ {a}
    /\ UNCHANGED <<trackerVars, callVars, free, seenFree, left>>

Init ==
    /\ TrackerInit
    /\ pc = [c \in Calls |-> "idle"]
    /\ strandq = <<>>
    /\ reply = [c \in Calls |-> "none"]
    /\ callbacks = [c \in Calls |-> 0]
    /\ installed = {}
    /\ free \in 0..DiskFree
    /\ seenFree = [c \in Calls |-> 0]
    /\ left = [c \in Calls |-> 0]

ApplicationInstall(c) ==
    \/ InstallRejected(c) \/ AlreadyInstalled(c)
    \/ Phase1SetupFails(c) \/ Phase1Starts(c)

OnStrand(c) == ApplicationInstall(c) \/ Close(c)

Thread(c) ==
    \/ MeasureDisk(c) \/ MeasureFails(c) \/ Admit(c) \/ Refuse(c)
    \/ Phase1Fails(c) \/ Phase1Succeeds(c)
    \/ FoundAfterPhase1(c) \/ NotFoundAfterPhase1(c)
    \/ Phase2SetupFails(c) \/ Phase2Starts(c)
    \/ Phase2Fails(c) \/ Phase2Succeeds(c) \/ Verify(c)

Next ==
    \/ RunPosted
    \/ \E c \in Calls : Request(c) \/ OnStrand(c) \/ Thread(c)
    \/ \E a \in AppIds : Uninstalled(a)

Spec == Init /\ [][Next]_vars

\* The io_context's thread keeps running handlers and every libflatpak call
\* returns.  Nothing obliges Dart to call or anyone to uninstall.
Fairness ==
    /\ WF_vars(RunPosted)
    /\ WF_vars(\E c \in Calls : OnStrand(c))
    /\ \A c \in Calls : WF_vars(Thread(c))

FairSpec == Spec /\ Fairness

-----------------------------------------------------------------------------
(* Properties. *)

TypeOK ==
    /\ TrackerTypeOK
    /\ pc \in [Calls -> Locations]
    /\ strandq \in Seq(StrandHandler)
    /\ reply \in [Calls -> {"none", "ok", "error", "setup2_error"}]
    /\ callbacks \in [Calls -> Nat]
    /\ installed \subseteq AppIds
    /\ free \in Nat
    /\ seenFree \in [Calls -> Nat]
    /\ left \in [Calls -> 0..MaxBytes]

\* The call has got past the strand's first handler.
Started(c) == pc[c] \notin {"idle", "dispatched"}

\* No two calls of the application have started.
Alone(a) ==
    \A c, d \in Calls :
        AppOf[c] = a /\ AppOf[d] = a /\ Started(c) /\ Started(d) => c = d

\* operation_tracker.h:86 calls total_pending_bytes_ the "queue total": it is the
\* sum of the bytes of the entries, and of those whose entry the start of another
\* install of the same application has replaced, which nobody gives back.  An
\* application that is installed once loses nothing, in whatever order starts,
\* sizes and removals are posted and run.
TotalIsSumOfEntries ==
    /\ total_pending_bytes = Cardinality(ReservedBytes) + lost
    /\ replaced = {} => lost = 0
    /\ \A a \in replaced : ~Alone(a)

\* The shim invokes the callback of a call at most once, on whichever of the
\* eleven paths of ApplicationInstall it takes: the call_once of PromiseGuard
\* (flatpak_plugin.cc:193-209) never has anything to drop.
CallbackAtMostOnce == \A c \in Calls : callbacks[c] <= 1

PostedFor(a, fn) == \E i \in 1..Len(posted) : posted[i].app = a /\ posted[i].fn = fn

\* An install holds its place in the queue while its thread or its closing
\* handler is still to run.
InProgress(c) == Started(c) /\ reply[c] = "none"

\* "Clear the operation from the tracker if it fails so it doesn't get stuck in
\* the queue" (flatpak_shim.cc:4501): an entry belongs to an install that is in
\* progress or whose finish is on its way.
FinishedLeavesQueue ==
    \A a \in Tracked :
        \/ PostedFor(a, "SendOperationFinish")
        \/ \E c \in Calls : AppOf[c] = a /\ InProgress(c)

\* The bytes the admitted installs have still to fetch, one pair per byte.
OutstandingBytes == {u \in Calls \X (1..MaxBytes) : u[2] <= left[u[1]]}
Outstanding == Cardinality(OutstandingBytes)

\* "Available free space (adjusted for queue)" (flatpak_shim.cc:4472): the
\* installs check_disk_usage has admitted can all be completed without going
\* below the reserve libflatpak keeps.  The code does not keep to it: installs that
\* check while the sizes of others are still posted do not see them.
AdmittedFitOnDisk == Outstanding > 0 => free - Outstanding >= MinFree

-----------------------------------------------------------------------------
(* The promise to the caller, and how a call's state shows it. *)

Decided(c) == {strandq[i].closing.answer : i \in {j \in 1..Len(strandq) :
                    strandq[j].call = c /\ ~strandq[j].start}}

PhaseOf(c) ==
    CASE reply[c] = "ok"                  -> "ok"
      [] reply[c] \notin {"none", "ok"}   -> "error"
      [] reply[c] = "none" /\ pc[c] = "idle" -> "idle"
      [] reply[c] = "none" /\ pc[c] = "ended" ->
            IF "ok" \in Decided(c) THEN "ok_decided" ELSE "error_decided"
      [] OTHER -> "waiting"

Service == INSTANCE InstallService WITH phase <- [c \in Calls |-> PhaseOf(c)]

\* ApplicationInstall, its threads and its posted handlers implement the
\* promise, safety and fairness.
ImplementsService == Service!FairSpec

=============================================================================
