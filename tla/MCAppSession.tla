---------------------------- MODULE MCAppSession ----------------------------
(* Instances of AppSession for TLC. *)
EXTENDS AppSession, TLC

\* Two starts of one application and one of another, with a portal in common.
MCAppOf == [s \in Starts |-> IF s = 3 THEN "a2" ELSE "a1"]
MCInterfaces == ("a1" :> {"access", "usb"}) @@ ("a2" :> {"access"})
=============================================================================
