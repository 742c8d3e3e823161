-------------------------- MODULE PermissionService --------------------------
(***************************************************************************)
(* What RequestAppLaunchPermission promises its caller, with nothing of how *)
(* it is done: every call is called back once, with nothing or with a       *)
(* decision for each permission its application needs.  A yes is one the    *)
(* user has given to that application, and an application that needs        *)
(* something gets nothing only if Flutter did not listen while it waited.   *)
(* Flutter listens and the user grants as they like.                       *)
(*                                                                         *)
(* Of a call that is confused, with another or by answers out of turn,      *)
(* nothing is promised but that it is called back once at most.             *)
(***************************************************************************)
CONSTANTS Calls, AppIds, AppOf, Permissions, NeededBy

VARIABLES
    phase,      \* what the caller could know of each call
    listening,  \* does Flutter listen?
    granted,    \* what counts as granted by the user
    decisions   \* what each call was called back with

vars == <<phase, listening, granted, decisions>>

Phases == {"idle", "waiting", "unheard", "confused", "answered"}

Nothing == [p \in Permissions |-> "none"]

\* The yes and no that a call may be called back with.
Decided(c) ==
    {r \in [Permissions -> {"none", "yes", "no"}] :
        \A p \in Permissions :
            /\ p \in NeededBy[AppOf[c]] <=> r[p] # "none"
            /\ r[p] = "yes" => [app |-> AppOf[c], perm |-> p] \in granted}

Move(c, from, to) == phase[c] = from /\ phase' = [phase EXCEPT ![c] = to]

CallBack(c, r) == decisions' = [decisions EXCEPT ![c] = r]

Request(c) ==
    /\ Move(c, "idle", "waiting")
    /\ UNCHANGED <<listening, granted, decisions>>

NothingNeeded(c) ==
    /\ Move(c, "idle", "answered")
    /\ NeededBy[AppOf[c]] = {}
    /\ CallBack(c, Nothing)
    /\ UNCHANGED <<listening, granted>>

\* Somebody should have been asked and was not there.
Unheard(c) ==
    /\ Move(c, "waiting", "unheard")
    /\ ~listening
    /\ UNCHANGED <<listening, granted, decisions>>

GiveUp(c) ==
    /\ Move(c, "unheard", "answered")
    /\ CallBack(c, Nothing)
    /\ UNCHANGED <<listening, granted>>

Answer(c) ==
    /\ \E from \in {"waiting", "unheard"} : Move(c, from, "answered")
    /\ \E r \in Decided(c) : CallBack(c, r)
    /\ UNCHANGED <<listening, granted>>

ListenOrCancel ==
    /\ listening' = ~listening
    /\ UNCHANGED <<phase, granted, decisions>>

MoreGranted ==
    /\ granted' \in SUBSET [app : AppIds, perm : Permissions]
    /\ granted \subseteq granted'

Grant ==
    /\ MoreGranted
    /\ UNCHANGED <<phase, listening, decisions>>

\* Some calls are confused, and with them what was granted to whom.
Confuse ==
    /\ phase' \in [Calls -> Phases]
    /\ \A c \in Calls :
          \/ phase'[c] = phase[c]
          \/ phase[c] \in {"waiting", "unheard"} /\ phase'[c] = "confused"
    /\ MoreGranted
    /\ UNCHANGED <<listening, decisions>>

AnswerConfused(c) ==
    /\ Move(c, "confused", "answered")
    /\ \E r \in [Permissions -> {"none", "yes", "no"}] : CallBack(c, r)
    /\ UNCHANGED <<listening, granted>>

Init ==
    /\ phase = [c \in Calls |-> "idle"]
    /\ listening \in BOOLEAN
    /\ granted \in SUBSET [app : AppIds, perm : Permissions]
    /\ decisions = [c \in Calls |-> Nothing]

Next ==
    \/ \E c \in Calls :
          \/ Request(c) \/ NothingNeeded(c) \/ Unheard(c) \/ GiveUp(c)
          \/ Answer(c) \/ AnswerConfused(c)
    \/ ListenOrCancel \/ Grant \/ Confuse

Spec == Init /\ [][Next]_vars

\* Every call is called back, unless it is confused.
Fairness == \A c \in Calls : WF_vars(GiveUp(c) \/ Answer(c))

FairSpec == Spec /\ Fairness
=============================================================================
