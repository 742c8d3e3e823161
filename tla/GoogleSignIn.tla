---------------------------- MODULE GoogleSignIn ----------------------------
(***************************************************************************)
(* google_sign_in_plugin.cc.  Only Init and IsSignedIn answer; every other  *)
(* method logs its call and drops the reply.                               *)
(***************************************************************************)
EXTENDS SdkCalls

\* Called Init in the code, as the module's own Init has that name.
InitPlugin(c) == AnswerNow(c)
IsSignedIn(c) == AnswerNow(c)

SignInSilently(c) == LoseReply(c)
SignIn(c)         == LoseReply(c)
GetAccessToken(c) == LoseReply(c)
SignOut(c)        == LoseReply(c)
Disconnect(c)     == LoseReply(c)
ClearAuthCache(c) == LoseReply(c)
RequestScopes(c)  == LoseReply(c)

Init == CallsInit

Next ==
    \E c \in Calls :
        \/ InitPlugin(c)
        \/ IsSignedIn(c)
        \/ SignInSilently(c)
        \/ SignIn(c)
        \/ GetAccessToken(c)
        \/ SignOut(c)
        \/ Disconnect(c)
        \/ ClearAuthCache(c)
        \/ RequestScopes(c)

Spec == Init /\ [][Next]_call
=============================================================================
