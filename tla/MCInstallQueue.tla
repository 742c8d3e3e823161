--------------------------- MODULE MCInstallQueue ---------------------------
(* Instances of InstallQueue for TLC. *)
EXTENDS InstallQueue, TLC

\* Each call names an application of its own.
DistinctApps == (1 :> "a1") @@ (2 :> "a2") @@ (3 :> "a3")
MCAppOf == [c \in Calls |-> DistinctApps[c]]

\* Two of the three calls name the same application.
MCRepeat == (1 :> "a1") @@ (2 :> "a1") @@ (3 :> "a2")

MCSize == [c \in Calls |-> IF c = 1 THEN 2 ELSE 1]
MCUnitSize == [c \in Calls |-> 1]
=============================================================================
