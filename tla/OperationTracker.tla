-------------------------- MODULE OperationTracker --------------------------
(***************************************************************************)
(* The flatpak plugin's operation tracker (operation_tracker.{h,cc}): the   *)
(* map of installs in progress, each with the bytes it has reserved, and    *)
(* the running total of those bytes.                                        *)
(*                                                                         *)
(* Every mutator posts a handler to the plugin's io_context, whose one      *)
(* thread runs the handlers in the order they were posted.  The total is    *)
(* an atomic that the install threads read without going through the       *)
(* io_context, so what they read may be older than what they have posted.  *)
(*                                                                         *)
(* The counters of an entry (total_ops, completed_ops, completed_ref,       *)
(* is_app) only fill the events sent to Dart; no step of the program reads *)
(* them to decide anything, so they are left out.                          *)
(***************************************************************************)
EXTENDS Integers, Sequences, FiniteSets

CONSTANTS
    AppIds,     \* application ids, the keys of active_ops_
    MaxBytes    \* an upper bound on the download size of one install

ASSUME MaxBytesAssumption == MaxBytes \in Nat

VARIABLES
    active_ops,           \* app id -> required_bytes, for the tracked installs
    total_pending_bytes,  \* the atomic sum; negative would mean it has wrapped
    posted,               \* handlers posted to the io_context, oldest first
    lost,                 \* history: bytes of entries that were replaced
    replaced              \* history: applications of which one was replaced

trackerVars == <<active_ops, total_pending_bytes, posted, lost, replaced>>
tracked == <<active_ops, total_pending_bytes, lost, replaced>>

HandlerNames ==
    {"TrackOperationStart", "SetOperationSize",
     "SendOperationFinish", "ClearOperation"}

\* A posted handler and what its lambda has captured.
Handler == [fn : HandlerNames, app : AppIds, bytes : 0..MaxBytes]

TrackOperationStart(a) == [fn |-> "TrackOperationStart", app |-> a, bytes |-> 0]
SetOperationSize(a, n) == [fn |-> "SetOperationSize", app |-> a, bytes |-> n]
SendOperationFinish(a) == [fn |-> "SendOperationFinish", app |-> a, bytes |-> 0]
ClearOperation(a)      == [fn |-> "ClearOperation", app |-> a, bytes |-> 0]

Tracked == DOMAIN active_ops

\* The map with key a bound to n, and the map without key a.
Assign(a, n) == [x \in Tracked \cup {a} |-> IF x = a THEN n ELSE active_ops[x]]
Erase(a)     == [x \in Tracked \ {a} |-> active_ops[x]]

-----------------------------------------------------------------------------
(* The handlers, as the io_context's thread runs them. *)

\* A fresh entry replaces whatever the map held for the application; the total
\* is not touched.
RunTrackOperationStart(h) ==
    /\ h.fn = "TrackOperationStart"
    /\ active_ops' = Assign(h.app, 0)
    /\ IF h.app \in Tracked
         THEN lost' = lost + active_ops[h.app] /\ replaced' = replaced \cup {h.app}
         ELSE UNCHANGED <<lost, replaced>>
    /\ UNCHANGED total_pending_bytes

RunSetOperationSize(h) ==
    /\ h.fn = "SetOperationSize"
    /\ h.app \in Tracked
    /\ total_pending_bytes' =
            total_pending_bytes - active_ops[h.app] + h.bytes
    /\ active_ops' = Assign(h.app, h.bytes)
    /\ UNCHANGED <<lost, replaced>>

\* Mutant: the bytes are not given back.
RunRemovalKeepsBytes(h) ==
    /\ h.fn \in {"SendOperationFinish", "ClearOperation"}
    /\ h.app \in Tracked
    /\ active_ops' = Erase(h.app)
    /\ UNCHANGED <<total_pending_bytes, lost, replaced>>

\* Both SendOperationFinish and ClearOperation give the bytes back and erase
\* the entry; the former also sends the operation_summary event.
RunRemoval(h) ==
    /\ h.fn \in {"SendOperationFinish", "ClearOperation"}
    /\ h.app \in Tracked
    /\ total_pending_bytes' = total_pending_bytes - active_ops[h.app]
    /\ active_ops' = Erase(h.app)
    /\ UNCHANGED <<lost, replaced>>

\* Every handler but TrackOperationStart ignores an application without entry.
RunIgnored(h) ==
    /\ h.fn # "TrackOperationStart"
    /\ h.app \notin Tracked
    /\ UNCHANGED tracked

RunHandler ==
    /\ posted # <<>>
    /\ posted' = Tail(posted)
    /\ LET h == Head(posted)
       IN  \/ RunTrackOperationStart(h)
           \/ RunSetOperationSize(h)
           \/ RunRemoval(h)
           \/ RunIgnored(h)

TrackerInit ==
    /\ active_ops = [x \in {} |-> 0]
    /\ total_pending_bytes = 0
    /\ posted = <<>>
    /\ lost = 0
    /\ replaced = {}

-----------------------------------------------------------------------------
TrackerTypeOK ==
    /\ Tracked \subseteq AppIds
    /\ active_ops \in [Tracked -> 0..MaxBytes]
    /\ total_pending_bytes \in Int
    /\ posted \in Seq(Handler)
    /\ lost \in Nat
    /\ replaced \subseteq AppIds

\* The bytes the tracked installs have reserved, one pair per byte, so that
\* their number is the sum of the entries.
ReservedBytes ==
    {u \in AppIds \X (1..MaxBytes) :
        u[1] \in Tracked /\ u[2] <= active_ops[u[1]]}
=============================================================================
