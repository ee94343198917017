------------------------------ MODULE ApiClient ------------------------------
(***************************************************************************)
(* Calls to the osu! API: the token bucket a call waits for                 *)
(* (rate_limiter.rs), the access token all calls share (api/oauth.rs), and  *)
(* the two loops of retries around a request (api/http.rs).  The access     *)
(* token is read without the refresh lock, and again with it; whoever finds *)
(* none still holds the lock while it asks for one.  A reload replaces the  *)
(* credentials.  Of a token what counts is whose it is: a token that has    *)
(* run out is as good as none.                                              *)
(***************************************************************************)
EXTENDS Naturals, Sequences, SequencesExt

CONSTANTS
    Requests,        \* the calls made, each once
    Burst,           \* capacity of the bucket
    MaxRetries,      \* of retry_on_transient: 4
    MaxRefreshes,    \* of retry_on_401: 5
    MaxUpdates,      \* bound: times the credentials change
    Nobody           \* no owner, no token

VARIABLES
    bucket,          \* whole tokens of the rate limiter
    permit,          \* Notify: a notification nobody was waiting for
    waiters,         \* Notify: who waits, the longest first
    client,          \* client_id and client_secret, by number
    cached,          \* the credentials whose token is cached and good, or Nobody
    lock,            \* who holds refresh_lock
    req              \* the calls
vars == <<bucket, permit, waiters, client, cached, lock, req>>

NewRequest == [pc |-> "idle", retries |-> 0, refreshes |-> 0, asked |-> Nobody, result |-> "none"]

Init ==
    /\ bucket = Burst /\ permit = FALSE /\ waiters = <<>>
    /\ client = 0 /\ cached = Nobody /\ lock = Nobody
    /\ req = [r \in Requests |-> NewRequest]

limiter == <<bucket, permit, waiters>>
oauth   == <<client, cached, lock>>

At(r, pc)     == req[r].pc = pc
Goto(r, pc)   == req' = [req EXCEPT ![r].pc = pc]
End(r, what)  == req' = [req EXCEPT ![r] = [NewRequest EXCEPT !.pc = "done", !.result = what]]

------------------------------------------------------------------------------
(* RateLimiter.  Acquire takes a token, or goes to wait for a notification; *)
(* Listen is the moment its future is polled, after the lock is gone.  A    *)
(* call that was woken takes its chance with everyone else's.               *)
Begin(r) == At(r, "idle") /\ Goto(r, "acquire") /\ UNCHANGED <<limiter, oauth>>

Acquire(r) ==
    /\ At(r, "acquire")
    /\ IF bucket >= 1
       THEN bucket' = bucket - 1 /\ Goto(r, "token")
       ELSE UNCHANGED bucket /\ Goto(r, "listen")
    /\ UNCHANGED <<permit, waiters, oauth>>

Listen(r) ==
    /\ At(r, "listen")
    /\ IF permit
       THEN permit' = FALSE /\ Goto(r, "acquire") /\ UNCHANGED waiters
       ELSE waiters' = Append(waiters, r) /\ Goto(r, "waiting") /\ UNCHANGED permit
    /\ UNCHANGED <<bucket, oauth>>

(* 10 seconds without a notification.                                       *)
AcquireTimesOut(r) ==
    /\ At(r, "waiting") /\ waiters' = SelectSeq(waiters, LAMBDA w : w # r)
    /\ End(r, "ClientRateLimited")
    /\ UNCHANGED <<bucket, permit, oauth>>

(* The refill task: a whole token more notifies one, and a full bucket      *)
(* nobody.                                                                  *)
Refill ==
    /\ bucket < Burst /\ bucket' = bucket + 1
    /\ IF waiters = <<>>
       THEN permit' = TRUE /\ UNCHANGED <<waiters, req>>
       ELSE waiters' = Tail(waiters) /\ Goto(Head(waiters), "acquire") /\ UNCHANGED permit
    /\ UNCHANGED oauth

------------------------------------------------------------------------------
(* OauthTokenCache.                                                         *)
GetToken(r) ==
    /\ At(r, "token")
    /\ Goto(r, IF cached # Nobody THEN "send" ELSE "refresh")
    /\ UNCHANGED <<limiter, oauth>>

(* The request carries the credentials of the moment.                       *)
Ask(r) == req' = [req EXCEPT ![r].pc = "post", ![r].asked = client]

(* With the lock: someone else's token will do, or the request goes out.    *)
Refresh(r) ==
    /\ At(r, "refresh") /\ lock = Nobody
    /\ IF cached # Nobody
       THEN Goto(r, "send") /\ UNCHANGED lock
       ELSE Ask(r) /\ lock' = r
    /\ UNCHANGED <<limiter, client, cached>>

Granted(r) ==
    /\ At(r, "post")
    /\ cached' = req[r].asked /\ lock' = Nobody
    /\ req' = [req EXCEPT ![r].pc = "send", ![r].asked = Nobody]
    /\ UNCHANGED <<limiter, client>>

(* Runs out: the time of its expiry, less a margin, has come.               *)
TokenExpires == cached # Nobody /\ cached' = Nobody /\ UNCHANGED <<limiter, client, lock, req>>

(* Slip: the new credentials do not wait for a request under way.           *)
UpdateAtOnce ==
    /\ client < MaxUpdates /\ client' = client + 1
    /\ cached' = Nobody /\ UNCHANGED <<limiter, lock, req>>

UpdateCredentials ==
    /\ lock = Nobody /\ client < MaxUpdates /\ client' = client + 1
    /\ cached' = Nobody /\ UNCHANGED <<limiter, lock, req>>

Invalidate(r) ==
    /\ At(r, "invalidate") /\ lock = Nobody
    /\ cached' = Nobody /\ Goto(r, "token")
    /\ UNCHANGED <<limiter, client, lock>>

------------------------------------------------------------------------------
(* The end of one attempt.  retry_on_401 is inside: it deals with the       *)
(* errors of the token endpoint, and only those, and its count starts anew  *)
(* with each attempt of retry_on_transient, which deals with errors that    *)
(* may pass (is_transient).                                                 *)
Transient == {"Http", "ServerError", "RateLimitedWithRetryAfter"}
Final     == {"Ok", "NotFound", "InvalidResponse"}

(* Slip: an attempt that fails is not counted.                              *)
FailedUncounted(r, error) ==
    CASE error = "OAuthError" /\ req[r].refreshes < MaxRefreshes ->
            req' = [req EXCEPT ![r].pc = "invalidate"]
      [] error \in Transient /\ req[r].retries < MaxRetries ->
            req' = [req EXCEPT ![r].pc = "token"]
      [] OTHER -> End(r, error)

Failed(r, error) ==
    CASE error = "OAuthError" /\ req[r].refreshes < MaxRefreshes ->
            req' = [req EXCEPT ![r].pc = "invalidate", ![r].refreshes = @ + 1, ![r].asked = Nobody]
      [] error \in Transient /\ req[r].retries < MaxRetries ->
            req' = [req EXCEPT ![r].pc = "token", ![r].retries = @ + 1, ![r].refreshes = 0,
                               ![r].asked = Nobody]
      [] OTHER -> End(r, error)

(* The token endpoint refuses, cannot be reached, or answers nonsense.      *)
Refused(r) ==
    /\ At(r, "post") /\ lock' = Nobody
    /\ \E error \in {"OAuthError", "Http", "Deserialization"} : Failed(r, error)
    /\ UNCHANGED <<limiter, client, cached>>

(* classify_http_error: any status without a meaning of its own, 401 too,   *)
(* is an invalid response.                                                  *)
Answered(r) ==
    /\ At(r, "send")
    /\ \E what \in Transient \union Final : Failed(r, what)
    /\ UNCHANGED <<limiter, oauth>>

Step(r) ==
    \/ Begin(r) \/ Acquire(r) \/ Listen(r) \/ AcquireTimesOut(r)
    \/ GetToken(r) \/ Refresh(r) \/ Granted(r) \/ Refused(r) \/ Invalidate(r) \/ Answered(r)

Next ==
    \/ \E r \in Requests : Step(r)
    \/ Refill \/ TokenExpires \/ UpdateCredentials

Spec == Init /\ [][Next]_vars /\ \A r \in Requests : WF_vars(Step(r))

------------------------------------------------------------------------------
(* The token that is shared was granted to the credentials of now: a        *)
(* request under way when they change never leaves a token of the old ones  *)
(* behind.                                                                  *)
TokenIsOfTheClient == cached # Nobody => cached = client

(* A token is asked for by one call at a time, and never while a good one   *)
(* is in the cache.                                                         *)
OneRefreshAtATime ==
    \A r \in Requests : At(r, "post") => lock = r /\ cached = Nobody

(* Every call returns: no call waits for the lock, for a token or for a     *)
(* notification forever, and it does not retry forever.                     *)
EveryCallReturns ==
    \A r \in Requests : At(r, "acquire") ~> At(r, "done")

(* However calls, refreshes and changed credentials interleave, the token   *)
(* that is shared is good, and nobody asks for another beside it.           *)
TokensAreShared == TokenIsOfTheClient /\ OneRefreshAtATime
==============================================================================
