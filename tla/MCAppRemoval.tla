----------------------------- MODULE MCAppRemoval -----------------------------
EXTENDS AppRemoval, TLC

MCAppOf == 1 :> "a1" @@ 2 :> "a1"
=============================================================================
