---------------------------- MODULE FirebaseCore ----------------------------
(***************************************************************************)
(* firebase_core_plugin.cc: the apps of the Firebase SDK.  Everything is    *)
(* answered on the platform thread; what the SDK has no method for is       *)
(* answered as if it had been done.                                        *)
(***************************************************************************)
EXTENDS SdkCalls

CONSTANT Apps               \* the names of the apps

VARIABLES
    apps,       \* the apps the SDK has
    deleted     \* the apps Dart has been told are deleted

coreVars == <<apps, deleted>>
vars == <<call, coreVars>>

TypeOK ==
    /\ call \in [Calls -> Call]
    /\ apps \subseteq Apps
    /\ deleted \subseteq Apps

StateInit == apps = {} /\ deleted = {}

Init == CallsInit /\ StateInit

InitializeApp(c, a) ==
    /\ AnswerNow(c)
    /\ apps' = apps \cup {a}
    /\ deleted' = deleted \ {a}

\* Answers with what App::GetApps lists.
InitializeCore(c) == AnswerNow(c) /\ UNCHANGED coreVars

OptionsFromResource(c) == LoseReply(c) /\ UNCHANGED coreVars

SetAutomaticDataCollectionEnabled(c)     == AnswerNow(c) /\ UNCHANGED coreVars
SetAutomaticResourceManagementEnabled(c) == AnswerNow(c) /\ UNCHANGED coreVars

\* The app is looked up and kept.
Delete(c, a) ==
    /\ AnswerNow(c)
    /\ deleted' = deleted \cup {a}
    /\ UNCHANGED apps

Next ==
    \E c \in Calls :
        \/ InitializeCore(c)
        \/ OptionsFromResource(c)
        \/ SetAutomaticDataCollectionEnabled(c)
        \/ SetAutomaticResourceManagementEnabled(c)
        \/ \E a \in Apps : InitializeApp(c, a) \/ Delete(c, a)

Spec == Init /\ [][Next]_vars
=============================================================================
