--------------------------- MODULE InstallService ---------------------------
(***************************************************************************)
(* What ApplicationInstall promises its caller, with nothing of how it is   *)
(* done: every call is decided once and then answered with that decision,   *)
(* and "ok" is decided only at a moment when the application is installed.  *)
(* Applications come and go on their own.                                  *)
(***************************************************************************)
CONSTANTS Calls, AppIds, AppOf

VARIABLES
    phase,      \* what the caller could know of each call
    installed   \* the applications that are installed

vars == <<phase, installed>>

Phases == {"idle", "waiting", "ok_decided", "error_decided", "ok", "error"}

Move(c, from, to) == phase[c] = from /\ phase' = [phase EXCEPT ![c] = to]

Request(c) == Move(c, "idle", "waiting") /\ UNCHANGED installed

DecideOk(c) ==
    /\ Move(c, "waiting", "ok_decided")
    /\ AppOf[c] \in installed
    /\ UNCHANGED installed

DecideError(c) == Move(c, "waiting", "error_decided") /\ UNCHANGED installed

Answer(c) ==
    /\ Move(c, "ok_decided", "ok") \/ Move(c, "error_decided", "error")
    /\ UNCHANGED installed

AppsChange ==
    /\ installed' \in SUBSET AppIds
    /\ UNCHANGED phase

Init ==
    /\ phase = [c \in Calls |-> "idle"]
    /\ installed = {}

Next ==
    \/ AppsChange
    \/ \E c \in Calls : Request(c) \/ DecideOk(c) \/ DecideError(c) \/ Answer(c)

Spec == Init /\ [][Next]_vars

\* Every call is decided and every decision reaches the caller.
Fairness ==
    \A c \in Calls : WF_vars(DecideOk(c) \/ DecideError(c)) /\ WF_vars(Answer(c))

FairSpec == Spec /\ Fairness
=============================================================================
