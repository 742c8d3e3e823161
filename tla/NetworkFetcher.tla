--------------------------- MODULE NetworkFetcher ---------------------------
(***************************************************************************)
(* The network fetcher of flatpak's cache (curl_network_fetcher.cc): an     *)
(* operation is a Get or a Post that PerformWithRetry repeats, judging by   *)
(* the code of the last response of the fetcher.                           *)
(*                                                                         *)
(* The code is shared with IsNetworkAvailable, which IsHealthy of the cache *)
(* asks, on whichever thread.  An empty url makes no request and leaves the *)
(* code of the request before.                                             *)
(*                                                                         *)
(* External, and therefore free: the code of a response.  Two threads in    *)
(* the one CurlClient at a time are undefined and not modelled: here their  *)
(* requests take turns, and an operation stores and tests the code in one   *)
(* step.                                                                   *)
(***************************************************************************)
EXTENDS Integers

CONSTANTS
    MaxRetries,     \* max_retries_
    MaxRequests     \* bound: the requests counted

\* No response at all, 2xx, another code, and 408, 429 or 5xx.
Codes == {"none", "success", "other", "retryable"}

VARIABLES
    thread,     \* where the thread of the operation is
    attempts,   \* attempts of PerformWithRetry
    requests,   \* the requests made for this operation
    code,       \* last_response_code_
    token,      \* the client has a bearer token
    result,     \* what the last operation returned
    transient   \* every code judged for this operation was one that may pass

vars == <<thread, attempts, requests, code, token, result, transient>>

TypeOK ==
    /\ thread \in {"idle", "asking", "judging", "sleeping"}
    /\ attempts \in 0..(MaxRetries + 1)
    /\ requests \in 0..MaxRequests
    /\ code \in Codes
    /\ token \in BOOLEAN
    /\ result \in {"none", "content", "nothing"}
    /\ transient \in BOOLEAN

Init ==
    /\ thread = "idle"
    /\ attempts = 0 /\ requests = 0
    /\ code = "none"
    /\ token = FALSE
    /\ result = "none"
    /\ transient = TRUE

SetBearerToken(set) ==
    /\ token' = set
    /\ UNCHANGED <<thread, attempts, requests, code, result, transient>>

\* Fetch and Post.
Fetch ==
    /\ thread = "idle"
    /\ thread' = "asking"
    /\ attempts' = 0 /\ requests' = 0 /\ transient' = TRUE
    /\ UNCHANGED <<code, token, result>>

Return(r) == thread' = "idle" /\ result' = r /\ UNCHANGED attempts

\* The code of the client goes to last_response_code_: 2xx is the end of it.  A
\* header of the call may bring a token, which stays.
PerformRequest ==
    /\ thread = "asking"
    /\ \/ requests < MaxRequests /\ requests' = requests + 1 /\ code' \in Codes
       \/ UNCHANGED <<requests, code>>
    /\ token' \in {token, TRUE}
    /\ \/ code' = "success" /\ Return("content")
       \/ code' # "success" /\ thread' = "judging" /\ UNCHANGED <<attempts, result>>
    /\ UNCHANGED transient

\* A mutant of PerformWithRetry that tests the attempts before it counts one.
CountAfterTest ==
    /\ thread = "judging"
    /\ CASE code = "success" -> Return("nothing")
         [] code = "retryable" /\ attempts <= MaxRetries ->
                thread' = "sleeping" /\ attempts' = attempts + 1 /\ UNCHANGED result
         [] code = "retryable" /\ attempts > MaxRetries -> Return("nothing")
         [] OTHER -> thread' = "asking" /\ UNCHANGED <<attempts, result>>
    /\ transient' = (transient /\ code = "retryable")
    /\ UNCHANGED <<requests, code, token>>

\* Without a value PerformWithRetry reads the code again: it counts an attempt
\* if the code is one that may pass, and otherwise loops at once.
PerformWithRetry ==
    /\ thread = "judging"
    /\ CASE code = "success" -> Return("nothing")
         [] code = "retryable" /\ attempts < MaxRetries ->
                thread' = "sleeping" /\ attempts' = attempts + 1 /\ UNCHANGED result
         [] code = "retryable" /\ attempts >= MaxRetries -> Return("nothing")
         [] OTHER -> thread' = "asking" /\ UNCHANGED <<attempts, result>>
    /\ transient' = (transient /\ code = "retryable")
    /\ UNCHANGED <<requests, code, token>>

\* The exponential backoff is over.
BackOff ==
    /\ thread = "sleeping"
    /\ thread' = "asking"
    /\ UNCHANGED <<attempts, requests, code, token, result, transient>>

\* Asked by IsHealthy of the cache.
IsNetworkAvailable ==
    /\ code' \in Codes
    /\ UNCHANGED <<thread, attempts, requests, token, result, transient>>

Next ==
    \/ \E set \in BOOLEAN : SetBearerToken(set)
    \/ Fetch
    \/ PerformRequest
    \/ PerformWithRetry
    \/ BackOff
    \/ IsNetworkAvailable

Spec == Init /\ [][Next]_vars

-----------------------------------------------------------------------------
(* Properties. *)

\* An operation makes no more than one request and max_retries more, however
\* IsNetworkAvailable overwrites the code between its requests, as long as every
\* code it judges is one that may pass.  (Another code is not counted: the loop
\* then goes on for as long as the server gives it.)
RetriesAreBounded == transient => requests <= MaxRetries + 1
=============================================================================
