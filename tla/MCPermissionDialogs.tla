------------------------- MODULE MCPermissionDialogs -------------------------
(* Instances of PermissionDialogs for TLC. *)
EXTENDS PermissionDialogs, TLC

\* Three applications: one needs two permissions, one of them also needed by
\* another, and the third needs nothing.
MCAppOf == [c \in Calls |-> IF c = 1 THEN "a1" ELSE IF c = 2 THEN "a2" ELSE "a3"]
MCNeeds == ("a1" :> <<"camera", "usb">>) @@ ("a2" :> <<"usb">>) @@ ("a3" :> <<>>)

\* A yes to the first dialog of an application that will be shown another.
MCHasty == {<<1, "camera", "yes">>}
=============================================================================
