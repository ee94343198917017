--------------------------- MODULE NetworkProofs ---------------------------
(***************************************************************************)
(* Proofs about the parts of Network, for any number of calls, requests,   *)
(* handlers and users, and any limits.                                     *)
(***************************************************************************)
EXTENDS Network, NumberLemmas

(* Each part moves alone.                                                   *)
LEMMA OnePartMoves ==
    ASSUME [Next]_vars
    PROVE  /\ C!Next \/ UNCHANGED connectionVars
           /\ D!Next \/ UNCHANGED dispatchVars
           /\ A!Next \/ UNCHANGED apiVars
BY DEF Next, vars

------------------------------------------------------------------------------
(* The osu! API client: one call at a time holds the refresh lock over its  *)
(* request for a token, and meanwhile the cache stays empty and the         *)
(* credentials it asked with stay those of the client.                      *)
Phases  == {"idle", "acquire", "listen", "waiting", "token", "refresh", "post", "send",
            "invalidate", "done"}
Results == {"none", "ClientRateLimited", "OAuthError", "Deserialization", "Http", "ServerError",
            "RateLimitedWithRetryAfter", "Ok", "NotFound", "InvalidResponse"}
Request == [pc: Phases, retries: Nat, refreshes: Nat, asked: Nat \union {Nobody},
            result: Results]

ApiTypeOK == client \in Nat /\ req \in [Requests -> Request]
LockIsHeld ==
    \A r \in Requests :
       req[r].pc = "post" => lock = r /\ cached = Nobody /\ req[r].asked = client
ApiInv == ApiTypeOK /\ LockIsHeld /\ A!TokenIsOfTheClient

(* A step in which one call moves, but not to its request for a token.      *)
LEMMA ApiKept ==
    ASSUME ApiInv, client' = client, lock' = lock, cached' = cached \/ cached' = Nobody,
           req' \in [Requests -> Request],
           \A r \in Requests : req'[r].pc = "post" => req'[r] = req[r]
    PROVE  ApiInv'
BY DEF ApiInv, ApiTypeOK, LockIsHeld, A!TokenIsOfTheClient

LEMMA GotoType ==
    ASSUME ApiTypeOK, NEW r, NEW p \in Phases, p # "post", A!Goto(r, p)
    PROVE  /\ req' \in [Requests -> Request]
           /\ \A q \in Requests : req'[q].pc = "post" => req'[q] = req[q]
BY DEF ApiTypeOK, A!Goto, Request

LEMMA EndType ==
    ASSUME ApiTypeOK, NEW r, NEW what \in Results, A!End(r, what)
    PROVE  /\ req' \in [Requests -> Request]
           /\ \A q \in Requests : req'[q].pc = "post" => req'[q] = req[q]
BY DEF ApiTypeOK, A!End, A!NewRequest, Request, Phases

LEMMA FailedType ==
    ASSUME ApiTypeOK, NEW r \in Requests, NEW what \in Results, A!Failed(r, what)
    PROVE  /\ req' \in [Requests -> Request]
           /\ \A q \in Requests : req'[q].pc = "post" => req'[q] = req[q]
           /\ req'[r].pc # "post"
<1> USE DEF ApiTypeOK, A!Failed, Request, Phases
<1>1. req[r].retries + 1 \in Nat /\ req[r].refreshes + 1 \in Nat
  OBVIOUS
<1>2. CASE what = "OAuthError" /\ req[r].refreshes < MaxRefreshes
  BY <1>1, <1>2
<1>3. CASE ~(what = "OAuthError" /\ req[r].refreshes < MaxRefreshes)
           /\ what \in A!Transient /\ req[r].retries < MaxRetries
  BY <1>1, <1>3
<1>4. CASE ~(what = "OAuthError" /\ req[r].refreshes < MaxRefreshes)
           /\ ~(what \in A!Transient /\ req[r].retries < MaxRetries)
  <2>1. A!End(r, what)
    BY <1>4
  <2>2. req'[r].pc = "done"
    BY <2>1 DEF A!End, A!NewRequest
  <2>3. QED
    BY <2>1, <2>2, EndType
<1>5. QED
  BY <1>2, <1>3, <1>4

LEMMA ApiNext == ASSUME ApiInv, A!Next PROVE ApiInv'
<1> USE DEF A!limiter, A!oauth, A!At, Phases, Results
<1>1. ApiTypeOK
  BY DEF ApiInv
<1>2. ASSUME NEW r \in Requests, A!Begin(r) PROVE ApiInv'
  BY <1>1, <1>2, GotoType, ApiKept DEF A!Begin
<1>3. ASSUME NEW r \in Requests, A!Acquire(r) PROVE ApiInv'
  BY <1>1, <1>3, GotoType, ApiKept DEF A!Acquire
<1>4. ASSUME NEW r \in Requests, A!Listen(r) PROVE ApiInv'
  BY <1>1, <1>4, GotoType, ApiKept DEF A!Listen
<1>5. ASSUME NEW r \in Requests, A!AcquireTimesOut(r) PROVE ApiInv'
  BY <1>1, <1>5, EndType, ApiKept DEF A!AcquireTimesOut
<1>6. ASSUME NEW r \in Requests, A!GetToken(r) PROVE ApiInv'
  BY <1>1, <1>6, GotoType, ApiKept DEF A!GetToken
<1>7. ASSUME NEW r \in Requests, A!Refresh(r) PROVE ApiInv'
  <2>1. CASE cached # Nobody
    BY <1>1, <1>7, <2>1, GotoType, ApiKept DEF A!Refresh
  <2>2. CASE cached = Nobody
    <3>1. A!Ask(r) /\ lock = Nobody /\ lock' = r /\ UNCHANGED <<client, cached>>
      BY <1>7, <2>2 DEF A!Refresh
    <3>2. req' \in [Requests -> Request] /\ req'[r].asked = client
          /\ \A q \in Requests \ {r} : req'[q] = req[q]
      BY <1>1, <3>1 DEF A!Ask, ApiTypeOK, Request
    <3>3. \A q \in Requests : req[q].pc # "post"
      BY <3>1, CallersAssumption DEF ApiInv, LockIsHeld
    <3>4. QED
      BY <1>1, <2>2, <3>1, <3>2, <3>3 DEF ApiInv, ApiTypeOK, LockIsHeld, A!TokenIsOfTheClient
  <2>3. QED
    BY <2>1, <2>2
<1>8. ASSUME NEW r \in Requests, A!Granted(r) PROVE ApiInv'
  <2>1. req[r].pc = "post" /\ lock = r /\ cached' = req[r].asked /\ req[r].asked = client
        /\ UNCHANGED client
    BY <1>8 DEF A!Granted, ApiInv, LockIsHeld
  <2>2. req' \in [Requests -> Request] /\ req'[r].pc = "send"
        /\ \A q \in Requests \ {r} : req'[q] = req[q]
    <3>1. req[r] \in Request
      BY <1>1 DEF ApiTypeOK
    <3>2. [req[r] EXCEPT !.pc = "send", !.asked = Nobody] \in Request
      BY <3>1 DEF Request
    <3>3. QED
      BY <1>1, <1>8, <3>1, <3>2 DEF A!Granted, ApiTypeOK, Request
  <2>3. \A q \in Requests \ {r} : req[q].pc # "post"
    BY <2>1 DEF ApiInv, LockIsHeld
  <2>4. QED
    BY <1>1, <2>1, <2>2, <2>3 DEF ApiInv, ApiTypeOK, LockIsHeld, A!TokenIsOfTheClient
<1>9. ASSUME NEW r \in Requests, A!Refused(r) PROVE ApiInv'
  <2>1. req[r].pc = "post" /\ lock = r /\ UNCHANGED <<client, cached>>
    BY <1>9 DEF A!Refused, ApiInv, LockIsHeld
  <2>2. PICK error \in {"OAuthError", "Http", "Deserialization"} : A!Failed(r, error)
    BY <1>9 DEF A!Refused
  <2>3. /\ req' \in [Requests -> Request] /\ req'[r].pc # "post"
        /\ \A q \in Requests : req'[q].pc = "post" => req'[q] = req[q]
    BY <1>1, <2>2, FailedType
  <2>4. \A q \in Requests : req'[q].pc # "post"
    BY <2>1, <2>3 DEF ApiInv, LockIsHeld
  <2>5. QED
    BY <1>1, <2>1, <2>3, <2>4 DEF ApiInv, ApiTypeOK, LockIsHeld, A!TokenIsOfTheClient
<1>10. ASSUME NEW r \in Requests, A!Invalidate(r) PROVE ApiInv'
  BY <1>1, <1>10, GotoType, ApiKept DEF A!Invalidate
<1>11. ASSUME NEW r \in Requests, A!Answered(r) PROVE ApiInv'
  <2>1. PICK what \in A!Transient \union A!Final : A!Failed(r, what)
    BY <1>11 DEF A!Answered
  <2>2. what \in Results
    BY DEF A!Transient, A!Final, Results
  <2>3. QED
    BY <1>1, <1>11, <2>1, <2>2, FailedType, ApiKept DEF A!Answered
<1>12. CASE A!Refill
  <2>1. CASE waiters = <<>>
    BY <1>1, <1>12, <2>1, ApiKept DEF A!Refill, ApiTypeOK
  <2>2. CASE waiters # <<>>
    BY <1>1, <1>12, <2>2, GotoType, ApiKept DEF A!Refill
  <2>3. QED
    BY <2>1, <2>2
<1>13. CASE A!TokenExpires
  BY <1>1, <1>13, ApiKept DEF A!TokenExpires, ApiTypeOK
<1>14. CASE A!UpdateCredentials
  <2>1. lock = Nobody /\ client' = client + 1 /\ cached' = Nobody /\ UNCHANGED <<lock, req>>
    BY <1>14 DEF A!UpdateCredentials
  <2>2. \A q \in Requests : req[q].pc # "post"
    BY <2>1, CallersAssumption DEF ApiInv, LockIsHeld
  <2>3. QED
    BY <1>1, <2>1, <2>2 DEF ApiInv, ApiTypeOK, LockIsHeld, A!TokenIsOfTheClient
<1>15. QED
  BY <1>2, <1>3, <1>4, <1>5, <1>6, <1>7, <1>8, <1>9, <1>10, <1>11, <1>12, <1>13, <1>14
  DEF A!Next, A!Step

LEMMA ApiInit == A!Init => ApiInv
BY DEF A!Init, A!NewRequest, ApiInv, ApiTypeOK, Request, Phases, Results, LockIsHeld, A!TokenIsOfTheClient

(* However calls, refreshes, expiries and changed credentials interleave:   *)
(* the token that is shared was granted to the credentials of now, and only *)
(* one call at a time asks for one, none while a good one is cached.        *)
THEOREM OneTokenIsShared == Spec => []TokensAreShared
<1>1. Init => ApiInv
  BY ApiInit DEF Init
<1>2. ApiInv /\ [Next]_vars => ApiInv'
  <2> SUFFICES ASSUME ApiInv, [Next]_vars PROVE ApiInv'
    OBVIOUS
  <2>1. CASE UNCHANGED apiVars
    BY <2>1 DEF apiVars, ApiInv, ApiTypeOK, LockIsHeld, A!TokenIsOfTheClient
  <2>2. QED
    BY <2>1, OnePartMoves, ApiNext
<1>3. ApiInv => TokensAreShared
  BY DEF ApiInv, LockIsHeld, TokensAreShared, A!TokensAreShared, A!OneRefreshAtATime, A!At
<1>4. QED
  BY <1>1, <1>2, <1>3, PTL DEF Spec

------------------------------------------------------------------------------
(* The OneBot connection: a caller that waits is not yet overdue, so the    *)
(* sweep, which comes a margin after the timeout, only wakes callers that   *)
(* spent the margin sending or whose timeout was longer.                    *)
Call == [pc: {"idle", "sending", "waiting", "done"}, on: Nat, age: Nat, sentAt: Nat, limit: Nat,
         result: {"none", "send_failed", "answered", "timeout", "abandoned", "cancelled"}]

ConnTypeOK == timeout \in Timeouts /\ conn \in Nat /\ call \in [Calls -> Call]
NotOverdue ==
    \A c \in Calls : call[c].pc = "waiting" => call[c].age <= call[c].sentAt + call[c].limit
ConnInv == ConnTypeOK /\ NotOverdue

LEMMA MaxAgeType == ASSUME timeout \in Timeouts PROVE C!MaxAge \in Nat
<1>1. \E t \in Timeouts : \A u \in Timeouts : u <= t
  BY TimeAssumption, LargestOf
<1>2. (CHOOSE t \in Timeouts : \A u \in Timeouts : u <= t) \in Nat
  BY <1>1, TimeAssumption
<1>3. QED
  BY <1>2, TimeAssumption DEF C!MaxAge, C!Larger

LEMMA EndedType ==
    ASSUME NEW c, NEW result \in {"send_failed", "answered", "timeout", "cancelled"}
    PROVE  C!Ended(c, result) \in Call /\ C!Ended(c, result).pc = "done"
BY DEF C!Ended, C!NewCall, Call

(* A step in which one call moves.                                          *)
LEMMA CallKept ==
    ASSUME ConnInv, NEW c \in Calls, NEW new \in Call, call' = [call EXCEPT ![c] = new],
           new.pc = "waiting" => new.age <= new.sentAt + new.limit,
           conn' \in Nat, timeout' \in Timeouts
    PROVE  ConnInv'
BY DEF ConnInv, ConnTypeOK, NotOverdue

LEMMA CallsUnmoved ==
    ASSUME ConnInv, call' = call, conn' \in Nat, timeout' \in Timeouts
    PROVE  ConnInv'
BY DEF ConnInv, ConnTypeOK, NotOverdue

LEMMA ConnTick == ASSUME ConnInv, C!Tick PROVE ConnInv'
<1>1. UNCHANGED <<conn, timeout>>
  BY DEF C!Tick
<1>2. C!MaxAge \in Nat
  BY MaxAgeType DEF ConnInv, ConnTypeOK
<1>3. ASSUME NEW c \in Calls
      PROVE  /\ call'[c] \in Call
             /\ call'[c].pc = "waiting" => call'[c].age <= call'[c].sentAt + call'[c].limit
  <2>1. call[c] \in Call
    BY DEF ConnInv, ConnTypeOK
  <2>2. C!Smaller(call[c].age + 1, C!MaxAge) \in Nat /\ call[c].age + 1 \in Nat
    BY <1>2, <2>1 DEF C!Smaller, Call
  <2>3. CASE call[c].pc = "waiting"
    <3>1. call'[c] = [call[c] EXCEPT !.age = @ + 1] /\ call[c].age < call[c].sentAt + call[c].limit
      BY <2>1, <2>3 DEF C!Tick, C!Due, Call
    <3>2. QED
      BY <2>1, <2>2, <3>1 DEF Call
  <2>4. CASE call[c].pc # "waiting"
    <3>1. \/ call'[c] = [call[c] EXCEPT !.age = C!Smaller(@ + 1, C!MaxAge)]
          \/ call'[c] = call[c]
      BY <2>4 DEF C!Tick
    <3>2. QED
      BY <2>1, <2>2, <2>4, <3>1 DEF Call
  <2>5. QED
    BY <2>3, <2>4
<1>4. call' \in [Calls -> Call]
  BY <1>3 DEF C!Tick
<1>5. QED
  BY <1>1, <1>3, <1>4 DEF ConnInv, ConnTypeOK, NotOverdue

LEMMA ConnCleanup == ASSUME ConnInv, C!Cleanup PROVE ConnInv'
<1>1. UNCHANGED <<conn, timeout>>
  BY DEF C!Cleanup, C!Sweep, C!link
<1>2. ASSUME NEW c \in Calls
      PROVE  call'[c] = call[c] \/ call'[c] = C!Ended(c, "cancelled")
  <2>1. CASE c \in pending /\ C!Stale(c) /\ call[c].pc = "waiting"
    <3>1. call[c] \in Call /\ timeout \in Nat /\ Margin \in Nat
      BY TimeAssumption DEF ConnInv, ConnTypeOK
    <3>2. call[c].age >= timeout + Margin
      BY <2>1, <3>1, TimeAssumption DEF C!Stale, C!Retention, C!Larger, Call
    <3>3. call[c].age <= call[c].sentAt + call[c].limit
      BY <2>1 DEF ConnInv, NotOverdue
    <3>4. call[c].sentAt >= Margin \/ timeout < call[c].limit
      BY <3>1, <3>2, <3>3 DEF Call
    <3>5. QED
      BY <2>1, <3>4 DEF C!Cleanup, C!Sweep
  <2>2. CASE ~(c \in pending /\ C!Stale(c) /\ call[c].pc = "waiting")
    BY <2>2 DEF C!Cleanup, C!Sweep
  <2>3. QED
    BY <2>1, <2>2
<1>3. \A c \in Calls : call[c] \in Call
  BY DEF ConnInv, ConnTypeOK
<1>4. \A c \in Calls : call'[c] \in Call
  BY <1>2, <1>3, EndedType
<1>5. call' \in [Calls -> Call]
  BY <1>4 DEF C!Cleanup, C!Sweep
<1>6. NotOverdue'
  BY <1>2, EndedType DEF ConnInv, NotOverdue
<1>7. QED
  BY <1>1, <1>5, <1>6 DEF ConnInv, ConnTypeOK

LEMMA ConnNext == ASSUME ConnInv, C!Next PROVE ConnInv'
<1> USE DEF C!link, C!callsV
<1>1. conn \in Nat /\ timeout \in Timeouts /\ timeout \in Nat /\ \A c \in Calls : call[c] \in Call
  BY TimeAssumption DEF ConnInv, ConnTypeOK
<1>2. CASE C!Connected \/ C!ConnectFails \/ C!CloseFrame \/ C!StreamFails \/ C!ForcedReconnect
           \/ C!ConnectAgain \/ C!OtherFrame \/ \E t \in Timeouts : C!Reload(t)
  BY <1>1, <1>2, CallsUnmoved
  DEF C!Connected, C!ConnectFails, C!CloseFrame, C!StreamFails, C!ForcedReconnect, C!Break,
      C!ConnectAgain, C!OtherFrame, C!Reload
<1>3. ASSUME NEW c \in Calls, C!Begin(c) PROVE ConnInv'
  <2> DEFINE new == [call[c] EXCEPT !.pc = "sending", !.on = conn]
  <2>1. new \in Call /\ new.pc = "sending"
    BY <1>1 DEF Call
  <2>2. call' = [call EXCEPT ![c] = new]
    BY <1>3 DEF C!Begin
  <2>3. QED
    BY <1>1, <1>3, <2>1, <2>2, CallKept DEF C!Begin
<1>4. ASSUME NEW c \in Calls, C!Sent(c) PROVE ConnInv'
  <2>1. CASE c \in pending
    <3> DEFINE new == [call[c] EXCEPT !.pc = "waiting", !.sentAt = call[c].age, !.limit = timeout]
    <3>1. new \in Call /\ new.age = new.sentAt /\ new.limit = timeout
      BY <1>1 DEF Call
    <3>2. new.age <= new.sentAt + new.limit
      BY <1>1, <3>1 DEF Call
    <3>3. call' = [call EXCEPT ![c] = new]
      BY <1>4, <2>1 DEF C!Sent
    <3> HIDE DEF new
    <3>4. QED
      BY <1>1, <1>4, <3>1, <3>2, <3>3, CallKept DEF C!Sent
  <2>2. CASE c \notin pending
    BY <1>1, <1>4, <2>2, EndedType, CallKept DEF C!Sent, C!End
  <2>3. QED
    BY <2>1, <2>2
<1>5. ASSUME NEW c \in Calls, C!SendFails(c) \/ C!TimesOut(c) PROVE ConnInv'
  BY <1>1, <1>5, EndedType, CallKept DEF C!SendFails, C!TimesOut, C!End
<1>6. ASSUME NEW c \in Calls, C!Executes(c) PROVE ConnInv'
  BY <1>1, <1>6, CallsUnmoved DEF C!Executes
<1>7. ASSUME NEW c \in Calls, C!Answered(c) PROVE ConnInv'
  <2>1. UNCHANGED call \/ C!End(c, "answered")
    BY <1>7 DEF C!Answered
  <2>2. QED
    BY <1>1, <1>7, <2>1, EndedType, CallKept, CallsUnmoved DEF C!Answered, C!End
<1>8. ASSUME NEW c \in Calls, C!Abandon(c) PROVE ConnInv'
  <2> DEFINE new == [call[c] EXCEPT !.pc = "done", !.result = "abandoned"]
  <2>1. new \in Call /\ new.pc = "done"
    BY <1>1 DEF Call
  <2>2. call' = [call EXCEPT ![c] = new]
    BY <1>8 DEF C!Abandon
  <2>3. QED
    BY <1>1, <1>8, <2>1, <2>2, CallKept DEF C!Abandon
<1>9. QED
  BY <1>2, <1>3, <1>4, <1>5, <1>6, <1>7, <1>8, ConnTick, ConnCleanup DEF C!Next, C!CallStep

LEMMA ConnInit == C!Init => ConnInv
BY DEF C!Init, C!NewCall, ConnInv, ConnTypeOK, Call, NotOverdue

(* The sweep of the pending calls never takes the answer from a caller that *)
(* is in time: whatever is configured, reconfigured, lost or late.          *)
THEOREM CallersInTimeAreSpared == Spec => []SweepSparesCallers
<1>1. Init => ConnInv
  BY ConnInit DEF Init
<1>2. ConnInv /\ [Next]_vars => ConnInv'
  <2> SUFFICES ASSUME ConnInv, [Next]_vars PROVE ConnInv'
    OBVIOUS
  <2>1. CASE UNCHANGED connectionVars
    BY <2>1 DEF connectionVars, ConnInv, ConnTypeOK, NotOverdue
  <2>2. QED
    BY <2>1, OnePartMoves, ConnNext
<1>3. ConnInv => SweepSparesCallers
  BY DEF ConnInv, ConnTypeOK, Call, SweepSparesCallers, C!SweepSparesCallers
<1>4. QED
  BY <1>1, <1>2, <1>3, PTL DEF Spec

------------------------------------------------------------------------------
(* The delay of a reconnect.                                                *)
DelayInv ==
    /\ failures \in Nat
    /\ C!DelayCountsFailures
    /\ loop \in {"read", "sleep"} => failures = 0

LEMMA DelayValue == ASSUME DelayInv PROVE delay \in Nat /\ (failures = 0 => delay = 1)
<1>1. 2^failures \in Nat /\ 2^0 = 1 /\ MaxDelay \in Nat /\ MaxDelay >= 1
  BY PowersOfTwo, TimeAssumption DEF DelayInv
<1>2. delay \in Nat
  BY <1>1 DEF DelayInv, C!DelayCountsFailures, C!Smaller
<1>3. failures = 0 => delay = C!Smaller(1, MaxDelay)
  BY <1>1 DEF DelayInv, C!DelayCountsFailures
<1>4. QED
  BY <1>1, <1>2, <1>3 DEF C!Smaller

LEMMA FirstDelay == ASSUME failures' = 0, delay' = 1 PROVE DelayInv'
<1>1. 2^0 = 1 /\ MaxDelay \in Nat /\ MaxDelay >= 1
  BY PowersOfTwo, TimeAssumption
<1>2. C!Smaller(1, MaxDelay) = 1
  BY <1>1 DEF C!Smaller
<1>3. QED
  BY <1>1, <1>2 DEF DelayInv, C!DelayCountsFailures

LEMMA DelayNext == ASSUME DelayInv, C!Next PROVE DelayInv'
<1>1. CASE UNCHANGED <<loop, delay, failures>>
  BY <1>1 DEF DelayInv, C!DelayCountsFailures
<1>2. CASE C!Connected
  BY <1>2, FirstDelay DEF C!Connected
<1>3. CASE C!ConnectFails
  <2> DEFINE power == 2^failures
  <2>1. power \in Nat /\ MaxDelay \in Nat /\ failures \in Nat
    BY PowersOfTwo, TimeAssumption DEF DelayInv
  <2>2. 2^(failures + 1) = 2 * power
    BY PowersOfTwo DEF DelayInv
  <2>3. delay = C!Smaller(power, MaxDelay)
    BY DEF DelayInv, C!DelayCountsFailures
  <2>4. delay' = C!Smaller(delay * 2, MaxDelay) /\ failures' = failures + 1 /\ loop' = "connect"
    BY <1>3 DEF C!ConnectFails
  <2> HIDE DEF power
  <2>5. delay' = C!Smaller(2 * power, MaxDelay)
    BY <2>1, <2>3, <2>4 DEF C!Smaller
  <2>6. C!DelayCountsFailures'
    BY <2>2, <2>4, <2>5 DEF C!DelayCountsFailures
  <2>7. QED
    BY <2>1, <2>4, <2>6 DEF DelayInv
<1>4. CASE C!CloseFrame \/ C!StreamFails \/ C!ForcedReconnect
  <2>1. failures = 0 /\ failures' = failures /\ delay' \in {1, delay}
    BY <1>4 DEF C!CloseFrame, C!StreamFails, C!ForcedReconnect, C!Break, DelayInv
  <2>2. QED
    BY <2>1, DelayValue, FirstDelay
<1>5. CASE C!ConnectAgain
  <2>1. failures = 0 /\ failures' = failures /\ delay' = C!NextReconnectDelay(delay)
    BY <1>5 DEF C!ConnectAgain, DelayInv
  <2>2. delay' = 1
    BY <2>1, DelayValue DEF C!NextReconnectDelay
  <2>3. QED
    BY <2>1, <2>2, FirstDelay
<1>6. QED
  BY <1>1, <1>2, <1>3, <1>4, <1>5
  DEF C!Next, C!CallStep, C!OtherFrame, C!Begin, C!Sent, C!SendFails, C!TimesOut, C!Executes,
      C!Answered, C!Abandon, C!Cleanup, C!Sweep, C!Tick, C!Reload, C!link

(* The delay of a reconnect doubles with each failed attempt in a row up to *)
(* its maximum, whatever that is, and nothing else ever doubles it.         *)
THEOREM DelayIsCounted == Spec => []DelayCountsFailures
<1>1. Init => DelayInv
  <2>1. C!Init => failures = 0 /\ delay = 1
    BY DEF C!Init
  <2>2. failures = 0 /\ delay = 1 => DelayInv
    <3>1. 2^0 = 1 /\ MaxDelay \in Nat /\ MaxDelay >= 1
      BY PowersOfTwo, TimeAssumption
    <3>2. C!Smaller(1, MaxDelay) = 1
      BY <3>1 DEF C!Smaller
    <3>3. QED
      BY <3>1, <3>2 DEF DelayInv, C!DelayCountsFailures
  <2>3. QED
    BY <2>1, <2>2 DEF Init
<1>2. DelayInv /\ [Next]_vars => DelayInv'
  <2> SUFFICES ASSUME DelayInv, [Next]_vars PROVE DelayInv'
    OBVIOUS
  <2>1. CASE UNCHANGED connectionVars
    BY <2>1 DEF connectionVars, DelayInv, C!DelayCountsFailures
  <2>2. QED
    BY <2>1, OnePartMoves, DelayNext
<1>3. DelayInv => DelayCountsFailures
  BY DEF DelayInv, DelayCountsFailures
<1>4. QED
  BY <1>1, <1>2, <1>3, PTL DEF Spec

------------------------------------------------------------------------------
(* The rate limit of commands.  Timestamps are in order, so what leaves the *)
(* window is a prefix.                                                      *)
Ordered(s) == \A i, j \in DOMAIN s : i <= j => s[j] <= s[i]

LEMMA SameCardinality == \A set : D!Cardinality(set) = Cardinality(set)
BY DEF D!Cardinality, Cardinality

LEMMA WindowIsSuffix ==
    ASSUME NEW s \in Seq(Nat), Ordered(s)
    PROVE  \E k \in 0..Len(s) :
              /\ D!InWindow(s) \in Seq(Nat) /\ Len(D!InWindow(s)) = Len(s) - k
              /\ \A i \in 1..(Len(s) - k) : D!InWindow(s)[i] = s[k + i]
              /\ \A i \in 1..Len(s) : s[i] >= Window <=> i <= k
<1> DEFINE T == {k \in Nat : \A i \in 1..Len(s) : k < i => s[i] < Window}
<1>1. Len(s) \in T /\ DOMAIN s = 1..Len(s) /\ Window \in Nat
  BY TimeAssumption
<1>2. PICK k \in T : \A l \in T : k <= l
  BY <1>1, SmallestOf
<1>3. k \in 0..Len(s)
  BY <1>1, <1>2
<1>4. ASSUME NEW i \in 1..Len(s) PROVE s[i] >= Window <=> i <= k
  <2>1. CASE k < i
    BY <1>1, <2>1
  <2>2. CASE i <= k /\ s[i] < Window
    <3>1. \A j \in 1..Len(s) : i - 1 < j => s[j] < Window
      BY <1>1, <2>2 DEF Ordered
    <3>2. i - 1 \in T
      BY <3>1
    <3>3. QED
      BY <1>2, <2>2, <3>2
  <2>3. QED
    BY <1>1, <2>1, <2>2
<1>5. D!Expired(s) = 1..k
  BY <1>1, <1>3, <1>4 DEF D!Expired
<1>6. D!InWindow(s) = SubSeq(s, k + 1, Len(s))
  <2>1. Cardinality(1..k) = k
    BY FS_Interval
  <2>2. D!Cardinality(D!Expired(s)) = k
    BY <1>5, <2>1, SameCardinality
  <2>3. QED
    BY <2>2 DEF D!InWindow
<1>7. QED
  BY <1>3, <1>4, <1>6

Entry == [idle: Nat, ages: Seq(Nat)]
Pending(u) ==
    {h \in Handlers : handler[h].pc \in {"message", "command"} /\ handler[h].user = u}

EndOf(t, s) ==
    /\ Len(t) <= Len(s)
    /\ \A i \in 1..Len(t) : t[i] = s[Len(s) - Len(t) + i]

(* Of a user with entry e, whose last commands have the ages s, and who has *)
(* p handlers between check and count.  A command that was not counted is   *)
(* one that found no entry: its handler passed the check before the sweep   *)
(* took the entry, and by then nobody had run a command for a window.       *)
UserInv(e, s, p) ==
    /\ Ordered(s) /\ \A i \in 1..Len(s) : s[i] < Window
    /\ e = D!Absent => Len(s) + p <= Cardinality(Handlers)
    /\ e # D!Absent =>
          /\ e.idle <= Idle
          /\ \A i \in 1..Len(s) : e.idle <= s[i]
          /\ EndOf(e.ages, s)
          /\ Len(s) <= Len(e.ages) + Cardinality(Handlers)
          /\ Len(e.ages) + p <= Limit + Cardinality(Handlers)

LEMMA DispatchNumbers ==
    /\ Cardinality(Handlers) \in Nat /\ Window \in Nat /\ Idle \in Nat /\ Limit \in Nat
    /\ 1 <= Window /\ Window <= Idle
    /\ D!Absent \in Entry /\ D!Absent.idle = Idle + 1
    /\ D!Fresh \in Entry /\ D!Fresh.idle = 0 /\ D!Fresh.ages = <<>> /\ D!Fresh # D!Absent
<1>1. Cardinality(Handlers) \in Nat
  BY CallersAssumption, FS_CardinalityType
<1>2. Window \in Nat /\ Idle \in Nat /\ Limit \in Nat /\ 1 <= Window /\ Window <= Idle
  BY TimeAssumption
<1>3. D!Absent.idle # D!Fresh.idle
  BY <1>2 DEF D!Absent, D!Fresh
<1>4. QED
  BY <1>1, <1>2, <1>3 DEF D!Absent, D!Fresh, Entry

(* The ages of a user's entry and of the commands that ran.                 *)
LEMMA AppendBoth ==
    ASSUME NEW e \in Entry, NEW s \in Seq(Nat), NEW p \in Nat, UserInv(e, s, p), p >= 1,
           NEW f, f = IF e = D!Absent THEN e ELSE [idle |-> 0, ages |-> Append(e.ages, 0)]
    PROVE  f \in Entry /\ Append(s, 0) \in Seq(Nat) /\ UserInv(f, Append(s, 0), p - 1)
<1> DEFINE r == Append(s, 0)
<1>1. r \in Seq(Nat) /\ Len(r) = Len(s) + 1 /\ r[Len(r)] = 0 /\ \A i \in 1..Len(s) : r[i] = s[i]
  OBVIOUS
<1>2. Ordered(r) /\ \A i \in 1..Len(r) : r[i] < Window
  <2> HIDE DEF r
  <2>1. DOMAIN r = 1..Len(r) /\ DOMAIN s = 1..Len(s) /\ \A i \in 1..Len(s) : s[i] \in Nat
    BY <1>1
  <2>2. \A i \in 1..Len(r) : i = Len(r) \/ i \in 1..Len(s)
    BY <1>1
  <2>3. Ordered(s) /\ \A i \in 1..Len(s) : s[i] < Window
    BY DEF UserInv
  <2>4. \A i \in 1..Len(r) : r[i] < Window /\ 0 <= r[i]
    <3>1. r[Len(r)] < Window /\ 0 <= r[Len(r)]
      BY <1>1, DispatchNumbers
    <3>2. \A i \in 1..Len(s) : r[i] < Window /\ 0 <= r[i]
      BY <1>1, <2>1, <2>3
    <3>3. QED
      BY <2>2, <3>1, <3>2
  <2>5. ASSUME NEW i \in 1..Len(r), NEW j \in 1..Len(r), i <= j PROVE r[j] <= r[i]
    <3>1. CASE j = Len(r)
      BY <1>1, <2>4, <3>1
    <3>2. CASE j # Len(r)
      <4>1. i \in 1..Len(s) /\ j \in 1..Len(s)
        BY <1>1, <2>5, <3>2
      <4>2. QED
        BY <1>1, <2>1, <2>3, <2>5, <4>1 DEF Ordered
    <3>3. QED
      BY <3>1, <3>2
  <2>6. QED
    BY <2>1, <2>4, <2>5 DEF Ordered
<1>3. CASE e = D!Absent
  <2> HIDE DEF r
  <2>1. Len(s) + p <= Cardinality(Handlers)
    BY <1>3 DEF UserInv
  <2>2. Len(r) + (p - 1) <= Cardinality(Handlers)
    BY <1>1, <2>1, DispatchNumbers
  <2>3. UserInv(f, r, p - 1)
    BY <1>2, <1>3, <2>2 DEF UserInv
  <2>4. QED
    BY <1>1, <1>3, <2>3 DEF r
<1>4. CASE e # D!Absent
  <2> DEFINE t == Append(e.ages, 0)
  <2>1. e.ages \in Seq(Nat)
    BY DEF Entry
  <2>2. t \in Seq(Nat) /\ Len(t) = Len(e.ages) + 1 /\ t[Len(t)] = 0
        /\ \A i \in 1..Len(e.ages) : t[i] = e.ages[i]
    BY <2>1
  <2>3. f.idle = 0 /\ f.ages = t /\ f \in Entry
    BY <1>4, <2>2 DEF Entry
  <2> HIDE DEF r, t
  <2>4. EndOf(t, r)
    <3>1. \A i \in 1..Len(t) : i = Len(t) \/ i \in 1..Len(e.ages)
      BY <2>1, <2>2
    <3>2. Len(r) - Len(t) = Len(s) - Len(e.ages) /\ Len(e.ages) <= Len(s)
      BY <1>1, <1>4, <2>1, <2>2 DEF UserInv, EndOf
    <3>3. ASSUME NEW i \in 1..Len(e.ages) PROVE t[i] = r[Len(r) - Len(t) + i]
      <4>1. Len(s) - Len(e.ages) + i \in 1..Len(s)
        BY <2>1, <3>2
      <4>2. e.ages[i] = s[Len(s) - Len(e.ages) + i]
        BY <1>4 DEF UserInv, EndOf
      <4>3. QED
        BY <1>1, <2>2, <3>2, <4>1, <4>2
    <3>4. t[Len(t)] = r[Len(r) - Len(t) + Len(t)] /\ Len(t) <= Len(r)
      <4>1. Len(r) \in Nat /\ Len(t) \in Nat
        BY <1>1, <2>1, <2>2
      <4>2. Len(t) <= Len(r) /\ Len(r) - Len(t) + Len(t) = Len(r)
        <5>1. Len(e.ages) \in Nat /\ Len(s) \in Nat
          BY <2>1
        <5>2. QED
          BY <3>2, <4>1, <5>1
      <4>3. QED
        BY <1>1, <2>2, <4>2
    <3>5. QED
      BY <3>1, <3>3, <3>4 DEF EndOf
  <2>5. f # D!Absent
    BY <2>3, DispatchNumbers
  <2>6. \A i \in 1..Len(r) : 0 <= r[i]
    BY <1>1
  <2>7. Len(r) <= Len(t) + Cardinality(Handlers)
        /\ Len(t) + (p - 1) <= Limit + Cardinality(Handlers)
    <3>1. Len(s) <= Len(e.ages) + Cardinality(Handlers)
          /\ Len(e.ages) + p <= Limit + Cardinality(Handlers)
      BY <1>4 DEF UserInv
    <3>2. QED
      BY <1>1, <2>1, <2>2, <3>1, DispatchNumbers
  <2>8. f.idle <= Idle
    BY <2>3, DispatchNumbers
  <2>9. UserInv(f, r, p - 1)
    BY <1>2, <2>3, <2>4, <2>5, <2>6, <2>7, <2>8 DEF UserInv
  <2>10. QED
    BY <1>1, <2>3, <2>9 DEF r
<1>5. QED
  BY <1>3, <1>4

(* The sweep only takes the entry of a user whose commands all left the     *)
(* window.                                                                  *)
LEMMA SweptUser ==
    ASSUME NEW e \in Entry, NEW s \in Seq(Nat), NEW p \in Nat, UserInv(e, s, p),
           p <= Cardinality(Handlers), e.idle >= Idle
    PROVE  UserInv(D!Absent, s, p)
<1>1. CASE e = D!Absent
  BY <1>1
<1>2. CASE e # D!Absent
  <2>1. e.idle \in Nat /\ \A i \in 1..Len(s) : s[i] \in Nat /\ e.idle <= s[i] /\ s[i] < Window
    BY <1>2 DEF UserInv, Entry
  <2>2. \A i \in 1..Len(s) : FALSE
    BY <2>1, DispatchNumbers
  <2>3. Len(s) = 0
    BY <2>2
  <2>4. QED
    BY <2>3, DispatchNumbers DEF UserInv
<1>3. QED
  BY <1>1, <1>2

LEMMA CheckedUser ==
    ASSUME NEW e \in Entry, NEW s \in Seq(Nat), NEW p \in Nat, UserInv(e, s, p),
           NEW q \in Nat, q <= Cardinality(Handlers),
           NEW f, f = IF e = D!Absent THEN D!Fresh ELSE e, Len(f.ages) <= Limit
    PROVE  UserInv(f, s, q)
<1>1. CASE e = D!Absent
  <2>1. f = D!Fresh /\ Len(f.ages) = 0
    BY <1>1, DispatchNumbers
  <2>2. Len(s) <= Cardinality(Handlers) /\ \A i \in 1..Len(s) : 0 <= s[i]
    BY <1>1, DispatchNumbers DEF UserInv
  <2>3. Ordered(s) /\ \A i \in 1..Len(s) : s[i] < Window
    BY DEF UserInv
  <2>4. EndOf(f.ages, s)
    <3>1. Len(f.ages) <= Len(s) /\ \A i \in 1..Len(f.ages) : FALSE
      BY <2>1
    <3>2. QED
      BY <3>1 DEF EndOf
  <2>5. f # D!Absent /\ f.idle = 0 /\ f.idle <= Idle
    BY <2>1, DispatchNumbers
  <2>6. Len(s) <= Len(f.ages) + Cardinality(Handlers)
        /\ Len(f.ages) + q <= Limit + Cardinality(Handlers)
    BY <2>1, <2>2, DispatchNumbers
  <2>7. QED
    BY <2>2, <2>3, <2>4, <2>5, <2>6 DEF UserInv
<1>2. CASE e # D!Absent
  <2>1. f = e /\ e.ages \in Seq(Nat)
    BY <1>2 DEF Entry
  <2>2. Len(e.ages) + q <= Limit + Cardinality(Handlers)
    BY <2>1, DispatchNumbers
  <2>3. QED
    BY <1>2, <2>1, <2>2 DEF UserInv
<1>3. QED
  BY <1>1, <1>2

LEMMA LeftUser ==
    ASSUME NEW e \in Entry, NEW s \in Seq(Nat), NEW p \in Nat, NEW q \in Nat, UserInv(e, s, p),
           q <= p
    PROVE  UserInv(e, s, q)
<1>1. e.ages \in Seq(Nat)
  BY DEF Entry
<1>2. QED
  BY <1>1, DispatchNumbers DEF UserInv

LEMMA OlderSeq ==
    ASSUME NEW s \in Seq(Nat), Ordered(s)
    PROVE  /\ D!Older(s) \in Seq(Nat) /\ Len(D!Older(s)) = Len(s) /\ Ordered(D!Older(s))
           /\ \A i \in 1..Len(s) : D!Older(s)[i] = s[i] + 1
BY DEF D!Older, Ordered

(* A tick keeps a suffix a suffix: what leaves the window of the entry      *)
(* leaves that of the user.                                                 *)
LEMMA OlderEnd ==
    ASSUME NEW s \in Seq(Nat), NEW t \in Seq(Nat), Ordered(s), EndOf(t, s), NEW n \in Nat,
           Len(s) <= Len(t) + n
    PROVE  LET s2 == D!InWindow(D!Older(s))  t2 == D!InWindow(D!Older(t))
           IN  /\ t2 \in Seq(Nat) /\ EndOf(t2, s2) /\ Len(t2) <= Len(t) /\ Len(s2) <= Len(t2) + n
<1> DEFINE so == D!Older(s)
           to == D!Older(t)
           s2 == D!InWindow(so)
           t2 == D!InWindow(to)
           d  == Len(s) - Len(t)
<1>1. Len(s) \in Nat /\ Len(t) \in Nat /\ d \in Nat /\ d <= n /\ Len(s) = d + Len(t)
  BY DEF EndOf
<1>2. \A i \in 1..Len(t) : t[i] = s[d + i] /\ d + i \in 1..Len(s)
  <2>1. \A i \in 1..Len(t) : t[i] = s[d + i]
    BY DEF EndOf
  <2> HIDE DEF d
  <2>2. ASSUME NEW i \in 1..Len(t) PROVE d + i \in 1..Len(s)
    BY <1>1
  <2>3. QED
    BY <2>1, <2>2
<1>3. Ordered(t)
  <2>1. DOMAIN t = 1..Len(t) /\ DOMAIN s = 1..Len(s)
    OBVIOUS
  <2>2. ASSUME NEW i \in 1..Len(t), NEW j \in 1..Len(t), i <= j PROVE t[j] <= t[i]
    <3>1. d + i <= d + j
      BY <1>1, <2>2
    <3> HIDE DEF d
    <3>2. s[d + j] <= s[d + i]
      BY <1>2, <2>1, <3>1 DEF Ordered
    <3>3. QED
      BY <1>2, <3>2
  <2>3. QED
    BY <2>1, <2>2 DEF Ordered
<1>4. /\ so \in Seq(Nat) /\ Len(so) = Len(s) /\ Ordered(so)
      /\ to \in Seq(Nat) /\ Len(to) = Len(t) /\ Ordered(to)
  BY <1>3, OlderSeq
<1>5. ASSUME NEW i \in 1..Len(t) PROVE to[i] = so[d + i]
  <2>1. t[i] = s[d + i] /\ d + i \in 1..Len(s)
    BY <1>2
  <2>2. to[i] = t[i] + 1
    BY <1>3, OlderSeq
  <2> HIDE DEF d
  <2>3. so[d + i] = s[d + i] + 1
    BY <2>1, OlderSeq
  <2>4. QED
    BY <2>1, <2>2, <2>3
<1> HIDE DEF so, to
<1>6. PICK k \in 0..Len(s) :
         /\ s2 \in Seq(Nat) /\ Len(s2) = Len(s) - k
         /\ \A i \in 1..(Len(s) - k) : s2[i] = so[k + i]
         /\ \A i \in 1..Len(s) : so[i] >= Window <=> i <= k
  BY <1>4, WindowIsSuffix
<1>7. PICK l \in 0..Len(t) :
         /\ t2 \in Seq(Nat) /\ Len(t2) = Len(t) - l
         /\ \A i \in 1..(Len(t) - l) : t2[i] = to[l + i]
         /\ \A i \in 1..Len(t) : to[i] >= Window <=> i <= l
  BY <1>4, WindowIsSuffix
<1> HIDE DEF s2, t2, d
<1>8. l <= k /\ k <= d + l
  <2>1. CASE l = 0 /\ k <= d
    BY <1>1, <1>6, <2>1
  <2>2. CASE l > 0
    <3>1. l \in 1..Len(t)
      BY <1>1, <1>7, <2>2
    <3>2. to[l] >= Window /\ to[l] = so[d + l] /\ d + l \in 1..Len(s)
      BY <1>2, <1>5, <1>7, <3>1
    <3>3. d + l <= k
      BY <1>6, <3>2
    <3>4. ~(k > d + l)
      <4>1. SUFFICES ASSUME k > d + l PROVE FALSE
        OBVIOUS
      <4>2. k - d \in 1..Len(t) /\ d + (k - d) = k /\ k \in 1..Len(s) /\ k - d > l
        <5>1. k \in Nat /\ l \in Nat /\ k <= Len(s)
          BY <1>1, <1>6, <1>7
        <5>2. QED
          BY <1>1, <4>1, <5>1
      <4>3. so[k] >= Window /\ to[k - d] = so[k]
        BY <1>5, <1>6, <4>2
      <4>4. QED
        BY <1>7, <4>2, <4>3
    <3>5. QED
      BY <1>1, <1>6, <1>7, <3>3, <3>4
  <2>3. CASE l = 0 /\ k > d
    <3>1. k - d \in 1..Len(t) /\ d + (k - d) = k /\ k \in 1..Len(s) /\ k - d > l
      BY <1>1, <1>6, <1>7, <2>3 DEF d
    <3>2. so[k] >= Window /\ to[k - d] = so[k]
      BY <1>5, <1>6, <3>1
    <3>3. QED
      BY <1>7, <3>1, <3>2
  <2>4. QED
    BY <1>1, <1>6, <1>7, <2>1, <2>2, <2>3
<1>9. Len(t2) <= Len(s2) /\ Len(t2) <= Len(t) /\ Len(s2) <= Len(t2) + n
  BY <1>1, <1>6, <1>7, <1>8 DEF d
<1>10. ASSUME NEW i \in 1..Len(t2) PROVE t2[i] = s2[Len(s2) - Len(t2) + i]
  <2>1. i \in 1..(Len(t) - l) /\ l + i \in 1..Len(t)
    BY <1>1, <1>7
  <2>2. t2[i] = so[d + (l + i)]
    BY <1>5, <1>7, <2>1
  <2> DEFINE j == Len(s2) - Len(t2) + i
  <2>3. j \in 1..(Len(s) - k) /\ k + j = d + (l + i)
    <3>1. Len(s2) = Len(s) - k /\ Len(t2) = Len(t) - l /\ k \in Nat /\ l \in Nat
      BY <1>1, <1>6, <1>7
    <3>2. k <= Len(s) /\ l <= Len(t) /\ i \in Nat /\ 1 <= i /\ i <= Len(t) - l
      BY <1>1, <1>6, <1>7, <2>1
    <3>3. QED
      BY <1>1, <1>8, <3>1, <3>2
  <2> HIDE DEF j
  <2>4. s2[j] = so[k + j]
    BY <1>6, <2>3
  <2>5. QED
    BY <2>2, <2>3, <2>4 DEF j
<1>11. EndOf(t2, s2)
  BY <1>9, <1>10 DEF EndOf
<1>12. QED
  BY <1>7, <1>9, <1>11 DEF s2, t2, so, to

(* A window that ages keeps its order, and its ages stay within it.         *)
LEMMA OlderWindow ==
    ASSUME NEW s \in Seq(Nat), Ordered(s), NEW n \in Nat, \A i \in 1..Len(s) : n <= s[i]
    PROVE  LET s2 == D!InWindow(D!Older(s))
           IN  /\ s2 \in Seq(Nat) /\ Ordered(s2) /\ Len(s2) <= Len(s)
               /\ \A i \in 1..Len(s2) : s2[i] < Window /\ n + 1 <= s2[i]
<1> DEFINE so == D!Older(s)
           s2 == D!InWindow(so)
<1>1. so \in Seq(Nat) /\ Len(so) = Len(s) /\ Ordered(so) /\ \A i \in 1..Len(s) : n + 1 <= so[i]
  BY OlderSeq
<1> HIDE DEF so
<1>2. PICK k \in 0..Len(s) :
         /\ s2 \in Seq(Nat) /\ Len(s2) = Len(s) - k
         /\ \A i \in 1..(Len(s) - k) : s2[i] = so[k + i]
         /\ \A i \in 1..Len(s) : so[i] >= Window <=> i <= k
  BY <1>1, WindowIsSuffix
<1> HIDE DEF s2
<1>3. Len(s) \in Nat /\ DOMAIN so = 1..Len(s) /\ \A i \in 1..Len(s) : so[i] \in Nat
  BY <1>1
<1>4. DOMAIN s2 = 1..Len(s2) /\ Len(s2) <= Len(s)
  BY <1>2, <1>3
<1>5. \A i \in 1..Len(s2) : k + i \in 1..Len(s) /\ s2[i] = so[k + i] /\ ~(k + i <= k)
  BY <1>2, <1>3
<1>6. ASSUME NEW i \in 1..Len(s2) PROVE s2[i] < Window /\ n + 1 <= s2[i]
  <2>1. k + i \in 1..Len(s) /\ s2[i] = so[k + i] /\ ~(k + i <= k) /\ so[k + i] \in Nat
    BY <1>3, <1>5
  <2>2. ~(so[k + i] >= Window) /\ n + 1 <= so[k + i]
    BY <1>1, <1>2, <2>1
  <2>3. QED
    BY <2>1, <2>2, DispatchNumbers
<1>7. ASSUME NEW i \in 1..Len(s2), NEW j \in 1..Len(s2), i <= j PROVE s2[j] <= s2[i]
  <2>1. k + i <= k + j
    BY <1>2, <1>4, <1>7
  <2>2. QED
    BY <1>1, <1>3, <1>5, <2>1 DEF Ordered
<1>8. QED
  BY <1>2, <1>4, <1>6, <1>7 DEF Ordered, s2, so

(* The ages of an entry are those of the last commands, so the check finds  *)
(* none that the tick has left.                                             *)
LEMMA UnchangedWindow ==
    ASSUME NEW e \in Entry, NEW s \in Seq(Nat), NEW p, UserInv(e, s, p), e # D!Absent
    PROVE  D!InWindow(e.ages) = e.ages
<1> DEFINE t == e.ages
<1>1. t \in Seq(Nat) /\ Len(t) \in Nat /\ Len(s) \in Nat
  BY DEF Entry
<1>2. EndOf(t, s) /\ \A i \in 1..Len(s) : s[i] < Window
  BY DEF UserInv
<1> HIDE DEF t
<1>3. ASSUME NEW i \in 1..Len(t) PROVE t[i] < Window
  <2>1. Len(s) - Len(t) + i \in 1..Len(s)
    BY <1>1, <1>2 DEF EndOf
  <2>2. t[i] = s[Len(s) - Len(t) + i]
    BY <1>2 DEF EndOf
  <2>3. QED
    BY <1>2, <2>1, <2>2
<1>4. D!Expired(t) = {}
  <2>1. \A i \in 1..Len(t) : ~(t[i] >= Window)
    BY <1>1, <1>3, DispatchNumbers
  <2>2. QED
    BY <1>1, <2>1 DEF D!Expired
<1>5. D!Cardinality(D!Expired(t)) = 0
  BY <1>4, SameCardinality, FS_EmptySet
<1>6. SubSeq(t, 1, Len(t)) = t
  BY <1>1
<1>7. QED
  BY <1>5, <1>6 DEF D!InWindow, t

LEMMA TickedUser ==
    ASSUME NEW e \in Entry, NEW s \in Seq(Nat), NEW p \in Nat, UserInv(e, s, p),
           NEW f,
           f = IF e = D!Absent THEN D!Absent
               ELSE [idle |-> IF e.idle < Idle THEN e.idle + 1 ELSE Idle,
                     ages |-> D!InWindow(D!Older(e.ages))]
    PROVE  /\ f \in Entry /\ D!InWindow(D!Older(s)) \in Seq(Nat)
           /\ UserInv(f, D!InWindow(D!Older(s)), p)
<1> DEFINE s2 == D!InWindow(D!Older(s))
           t2 == D!InWindow(D!Older(e.ages))
           N  == Cardinality(Handlers)
<1>1. Ordered(s) /\ \A i \in 1..Len(s) : 0 <= s[i]
  BY DEF UserInv
<1>2. s2 \in Seq(Nat) /\ Ordered(s2) /\ Len(s2) <= Len(s) /\ \A i \in 1..Len(s2) : s2[i] < Window
  BY <1>1, OlderWindow
<1>3. N \in Nat
  BY DispatchNumbers
<1>4. CASE e = D!Absent
  <2>1. Len(s) + p <= N
    BY <1>4 DEF UserInv
  <2>2. f = D!Absent /\ f \in Entry
    BY <1>4, DispatchNumbers
  <2> HIDE DEF s2, t2, N
  <2>3. Len(s2) + p <= N
    BY <1>2, <1>3, <2>1
  <2>4. UserInv(D!Absent, s2, p)
    BY <1>2, <2>3 DEF UserInv, N
  <2>5. QED
    BY <1>2, <2>2, <2>4 DEF s2
<1>5. CASE e # D!Absent
  <2>1. /\ e.idle \in Nat /\ e.idle <= Idle /\ \A i \in 1..Len(s) : e.idle <= s[i]
        /\ e.ages \in Seq(Nat) /\ EndOf(e.ages, s) /\ Len(s) <= Len(e.ages) + N
        /\ Len(e.ages) + p <= Limit + N
    BY <1>5 DEF UserInv, Entry
  <2>2. t2 \in Seq(Nat) /\ EndOf(t2, s2) /\ Len(t2) <= Len(e.ages) /\ Len(s2) <= Len(t2) + N
    BY <1>1, <1>3, <2>1, OlderEnd
  <2>3. \A i \in 1..Len(s2) : e.idle + 1 <= s2[i]
    BY <1>1, <2>1, OlderWindow
  <2> HIDE DEF s2, t2, N
  <2>4. f.ages = t2 /\ f.idle = (IF e.idle < Idle THEN e.idle + 1 ELSE Idle)
    BY <1>5 DEF t2
  <2>5. f.idle \in Nat /\ f.idle <= Idle /\ f.idle <= e.idle + 1
    BY <2>1, <2>4, DispatchNumbers
  <2>6. f \in Entry
    BY <1>5, <2>2, <2>4, <2>5 DEF Entry, t2
  <2>7. f # D!Absent
    BY <2>5, DispatchNumbers
  <2>8. \A i \in 1..Len(s2) : f.idle <= s2[i]
    <3>1. \A i \in 1..Len(s2) : s2[i] \in Nat
      BY <1>2
    <3>2. QED
      BY <2>1, <2>3, <2>5, <3>1
  <2>9. Len(t2) + p <= Limit + N
    BY <1>3, <2>1, <2>2, DispatchNumbers
  <2>10. UserInv(f, s2, p)
    BY <1>2, <2>2, <2>4, <2>5, <2>7, <2>8, <2>9 DEF UserInv, N
  <2>11. QED
    BY <1>2, <2>6, <2>10 DEF s2
<1>6. QED
  BY <1>4, <1>5

Handler == [pc: {"free"}] \union [pc: {"message", "command", "native"}, user: Users]
DispatchTypeOK ==
    /\ entry \in [Users -> Entry] /\ ran \in [Users -> Seq(Nat)]
    /\ handler \in [Handlers -> Handler]
DispatchInv ==
    DispatchTypeOK /\ \A u \in Users : UserInv(entry[u], ran[u], Cardinality(Pending(u)))

LEMMA PendingCount ==
    ASSUME NEW P \in SUBSET Handlers
    PROVE  /\ IsFiniteSet(P) /\ Cardinality(P) \in Nat /\ Cardinality(P) <= Cardinality(Handlers)
           /\ \A h \in P : Cardinality(P \ {h}) = Cardinality(P) - 1
BY CallersAssumption, FS_Subset, FS_CardinalityType, FS_RemoveElement

LEMMA PendingType ==
    ASSUME NEW u
    PROVE  Pending(u) \in SUBSET Handlers /\ Pending(u)' \in SUBSET Handlers
BY DEF Pending

(* A handler that ends, or waits on, without a count.                       *)
LEMMA HandlerLeaves ==
    ASSUME DispatchInv, UNCHANGED <<entry, ran>>, handler' \in [Handlers -> Handler],
           \A u \in Users : Pending(u)' \subseteq Pending(u)
    PROVE  DispatchInv'
<1>1. ASSUME NEW u \in Users PROVE UserInv(entry[u], ran[u], Cardinality(Pending(u)'))
  <2>1. Cardinality(Pending(u)') <= Cardinality(Pending(u))
        /\ Cardinality(Pending(u)') \in Nat /\ Cardinality(Pending(u)) \in Nat
    BY PendingType, PendingCount, CallersAssumption, FS_Subset
  <2>2. QED
    BY <2>1, LeftUser DEF DispatchInv, DispatchTypeOK
<1>2. QED
  BY <1>1 DEF DispatchInv, DispatchTypeOK, UserInv, EndOf, Ordered

(* A handler that counts its command.                                       *)
LEMMA HandlerRecords ==
    ASSUME DispatchInv, NEW h \in Handlers, handler[h].pc \in {"message", "command"},
           D!Record(h), handler' \in [Handlers -> Handler],
           \A u \in Users : Pending(u)' = Pending(u) \ {h}
    PROVE  DispatchInv'
<1>0. PICK u \in Users : u = handler[h].user
  BY DEF DispatchInv, DispatchTypeOK, Handler
<1>1. h \in Pending(u) /\ \A v \in Users \ {u} : h \notin Pending(v)
  BY <1>0 DEF Pending
<1>2. /\ entry' = IF entry[u] = D!Absent THEN entry
                  ELSE [entry EXCEPT ![u] = [idle |-> 0, ages |-> Append(@.ages, 0)]]
      /\ ran' = [ran EXCEPT ![u] = Append(@, 0)]
  BY <1>0 DEF D!Record
<1>3. entry \in [Users -> Entry] /\ ran \in [Users -> Seq(Nat)]
  BY DEF DispatchInv, DispatchTypeOK
<1>4. /\ entry'[u] = IF entry[u] = D!Absent THEN entry[u]
                     ELSE [idle |-> 0, ages |-> Append(entry[u].ages, 0)]
      /\ ran'[u] = Append(ran[u], 0)
      /\ \A v \in Users \ {u} : entry'[v] = entry[v] /\ ran'[v] = ran[v]
      /\ DOMAIN entry' = Users /\ DOMAIN ran' = Users
      /\ entry' = [v \in Users |-> entry'[v]] /\ ran' = [v \in Users |-> ran'[v]]
  BY <1>1, <1>2, <1>3
<1>5. /\ Cardinality(Pending(u)) \in Nat /\ Cardinality(Pending(u)) >= 1
      /\ Cardinality(Pending(u)') = Cardinality(Pending(u)) - 1
  <2>1. Cardinality(Pending(u)') = Cardinality(Pending(u)) - 1 /\ Cardinality(Pending(u)) \in Nat
        /\ Cardinality(Pending(u)') \in Nat
    <3>1. Pending(u)' = Pending(u) \ {h}
      BY <1>1, Zenon
    <3>2. Cardinality(Pending(u) \ {h}) = Cardinality(Pending(u)) - 1
      BY <1>1, PendingType, PendingCount
    <3>3. QED
      BY <3>1, <3>2, PendingType, PendingCount
  <2>2. QED
    BY <2>1
<1>6. /\ entry'[u] \in Entry /\ ran'[u] \in Seq(Nat)
      /\ UserInv(entry'[u], ran'[u], Cardinality(Pending(u)'))
  <2>1. UserInv(entry[u], ran[u], Cardinality(Pending(u))) /\ entry[u] \in Entry /\ ran[u] \in Seq(Nat)
    BY <1>1, <1>3 DEF DispatchInv
  <2>2. QED
    BY <1>4, <1>5, <2>1, AppendBoth
<1>7. ASSUME NEW v \in Users \ {u}
      PROVE  /\ entry'[v] \in Entry /\ ran'[v] \in Seq(Nat)
             /\ UserInv(entry'[v], ran'[v], Cardinality(Pending(v)'))
  <2>1. Pending(v)' = Pending(v)
    BY <1>1
  <2>2. QED
    BY <1>3, <1>4, <2>1 DEF DispatchInv
<1>8. \A v \in Users : /\ entry'[v] \in Entry /\ ran'[v] \in Seq(Nat)
                       /\ UserInv(entry'[v], ran'[v], Cardinality(Pending(v)'))
  <2>1. ASSUME NEW v \in Users, v = u
        PROVE  /\ entry'[v] \in Entry /\ ran'[v] \in Seq(Nat)
               /\ UserInv(entry'[v], ran'[v], Cardinality(Pending(v)'))
    BY <1>6, <2>1, Zenon
  <2>2. \A v \in Users : v = u \/ v \in Users \ {u}
    OBVIOUS
  <2>3. QED
    BY <1>7, <2>1, <2>2, Zenon
<1>9. entry' \in [Users -> Entry] /\ ran' \in [Users -> Seq(Nat)]
  BY <1>4, <1>8
<1>10. QED
  BY <1>8, <1>9 DEF DispatchInv, DispatchTypeOK, UserInv, EndOf, Ordered

LEMMA DispatchCheck ==
    ASSUME DispatchInv, NEW h \in Handlers, NEW u \in Users, D!Check(h, u)
    PROVE  DispatchInv'
<1> DEFINE mine  == IF entry[u] = D!Absent THEN D!Fresh
                    ELSE [entry[u] EXCEPT !.ages = D!InWindow(@)]
           known == [entry EXCEPT ![u] = mine]
<1>1. handler[h].pc = "free" /\ UNCHANGED ran
  BY DEF D!Check
<1>2. entry \in [Users -> Entry] /\ ran \in [Users -> Seq(Nat)] /\ handler \in [Handlers -> Handler]
  BY DEF DispatchInv, DispatchTypeOK
<1>3. mine = IF entry[u] = D!Absent THEN D!Fresh ELSE entry[u]
  <2>1. CASE entry[u] = D!Absent
    BY <2>1
  <2>2. CASE entry[u] # D!Absent
    <3> DEFINE t == entry[u].ages
    <3>1. t \in Seq(Nat) /\ entry[u] \in Entry
      BY <1>2 DEF Entry
    <3>2. UserInv(entry[u], ran[u], Cardinality(Pending(u))) /\ ran[u] \in Seq(Nat)
      BY <1>2 DEF DispatchInv
    <3>3. D!InWindow(t) = t
      BY <2>2, <3>1, <3>2, UnchangedWindow
    <3>4. QED
      BY <2>2, <3>1, <3>3 DEF Entry
  <2>3. QED
    BY <2>1, <2>2
<1> HIDE DEF mine
<1>4. mine \in Entry /\ known \in [Users -> Entry] /\ known[u] = mine
      /\ \A v \in Users \ {u} : known[v] = entry[v]
  BY <1>2, <1>3, DispatchNumbers
<1>5. CASE Len(mine.ages) > Limit
  <2>1. entry' = known /\ UNCHANGED handler
    BY <1>5 DEF D!Check, mine
  <2>2. entry[u] # D!Absent
    BY <1>3, <1>5, DispatchNumbers
  <2>3. known = entry
    BY <1>2, <1>3, <1>4, <2>2
  <2>4. \A v \in Users : Pending(v)' = Pending(v)
    BY <2>1 DEF Pending
  <2>5. QED
    BY <1>1, <1>2, <2>1, <2>3, <2>4, HandlerLeaves
<1>6. CASE ~(Len(mine.ages) > Limit)
  <2>1. /\ entry' = D!Swept(known)
        /\ handler' = [handler EXCEPT ![h] = [pc |-> "message", user |-> u]]
    BY <1>6 DEF D!Check, mine
  <2>2. handler' \in [Handlers -> Handler]
    BY <1>2, <2>1 DEF Handler
  <2>3. \A v \in Users \ {u} : Pending(v)' = Pending(v)
    BY <1>1, <1>2, <2>1 DEF Pending
  <2>4. \A v \in Users : /\ Cardinality(Pending(v)') \in Nat
                         /\ Cardinality(Pending(v)') <= Cardinality(Handlers)
                         /\ Cardinality(Pending(v)) \in Nat
    BY PendingType, PendingCount
  <2>5. ASSUME NEW v \in Users
        PROVE  UserInv(known[v], ran[v], Cardinality(Pending(v)')) /\ known[v] \in Entry
    <3>1. UserInv(entry[v], ran[v], Cardinality(Pending(v))) /\ entry[v] \in Entry
          /\ ran[v] \in Seq(Nat)
      BY <1>2 DEF DispatchInv
    <3>2. CASE v = u
      <4>1. Len(mine.ages) <= Limit
        <5>1. Len(mine.ages) \in Nat
          BY <1>4 DEF Entry
        <5>2. QED
          BY <1>6, <5>1, DispatchNumbers
      <4>2. UserInv(mine, ran[u], Cardinality(Pending(u)'))
        BY <1>3, <2>4, <3>1, <3>2, <4>1, CheckedUser
      <4>3. QED
        BY <1>4, <3>2, <4>2
    <3>3. CASE v # u
      BY <1>4, <2>3, <3>1, <3>3
    <3>4. QED
      BY <3>2, <3>3
  <2> HIDE DEF known
  <2>6. /\ entry' \in [Users -> Entry]
        /\ \A v \in Users : \/ entry'[v] = known[v]
                            \/ entry'[v] = D!Absent /\ ~(known[v].idle < Idle)
    BY <1>4, <2>1, DispatchNumbers DEF D!Swept
  <2>7. ASSUME NEW v \in Users PROVE UserInv(entry'[v], ran[v], Cardinality(Pending(v)'))
    <3>1. CASE entry'[v] = known[v]
      BY <2>5, <3>1
    <3>2. CASE entry'[v] = D!Absent /\ ~(known[v].idle < Idle)
      <4>1. known[v].idle >= Idle
        BY <2>5, <3>2, DispatchNumbers DEF Entry
      <4>2. ran[v] \in Seq(Nat)
        BY <1>2
      <4>3. UserInv(D!Absent, ran[v], Cardinality(Pending(v)'))
        BY <2>4, <2>5, <4>1, <4>2, SweptUser
      <4>4. QED
        BY <3>2, <4>3
    <3>3. QED
      BY <2>6, <3>1, <3>2
  <2>8. QED
    BY <1>1, <1>2, <2>2, <2>6, <2>7 DEF DispatchInv, DispatchTypeOK, UserInv, EndOf, Ordered
<1>7. QED
  BY <1>5, <1>6

LEMMA DispatchTick == ASSUME DispatchInv, D!Tick PROVE DispatchInv'
<1>1. entry \in [Users -> Entry] /\ ran \in [Users -> Seq(Nat)] /\ handler \in [Handlers -> Handler]
  BY DEF DispatchInv, DispatchTypeOK
<1>2. /\ entry' = [u \in Users |->
                     IF entry[u] = D!Absent THEN D!Absent
                     ELSE [idle |-> IF entry[u].idle < Idle THEN entry[u].idle + 1 ELSE Idle,
                           ages |-> D!InWindow(D!Older(entry[u].ages))]]
      /\ ran' = [u \in Users |-> D!InWindow(D!Older(ran[u]))]
      /\ UNCHANGED handler
  BY DEF D!Tick
<1>3. ASSUME NEW u \in Users
      PROVE  /\ entry'[u] \in Entry /\ ran'[u] \in Seq(Nat)
             /\ UserInv(entry'[u], ran'[u], Cardinality(Pending(u)))
  <2>1. UserInv(entry[u], ran[u], Cardinality(Pending(u))) /\ Cardinality(Pending(u)) \in Nat
    BY PendingType, PendingCount DEF DispatchInv
  <2>2. /\ entry'[u] = IF entry[u] = D!Absent THEN D!Absent
                       ELSE [idle |-> IF entry[u].idle < Idle THEN entry[u].idle + 1 ELSE Idle,
                             ages |-> D!InWindow(D!Older(entry[u].ages))]
        /\ ran'[u] = D!InWindow(D!Older(ran[u]))
    BY <1>2
  <2>3. QED
    BY <1>1, <2>1, <2>2, TickedUser
<1>4. entry' \in [Users -> Entry] /\ ran' \in [Users -> Seq(Nat)]
  <2>1. DOMAIN entry' = Users /\ DOMAIN ran' = Users
        /\ entry' = [u \in Users |-> entry'[u]] /\ ran' = [u \in Users |-> ran'[u]]
    BY <1>2
  <2>2. QED
    BY <1>3, <2>1
<1>5. \A u \in Users : Pending(u)' = Pending(u)
  BY <1>2 DEF Pending
<1>6. QED
  BY <1>1, <1>2, <1>3, <1>4, <1>5 DEF DispatchInv, DispatchTypeOK, UserInv, EndOf, Ordered

LEMMA DispatchNext == ASSUME DispatchInv, D!Next PROVE DispatchInv'
<1>1. handler \in [Handlers -> Handler]
  BY DEF DispatchInv, DispatchTypeOK
<1>2. ASSUME NEW h \in Handlers, D!Free(h)
      PROVE  handler' \in [Handlers -> Handler] /\ \A u \in Users : Pending(u)' = Pending(u) \ {h}
  BY <1>1, <1>2 DEF D!Free, Handler, Pending
<1>3. ASSUME NEW h \in Handlers, D!Leave(h) PROVE DispatchInv'
  BY <1>2, <1>3, HandlerLeaves DEF D!Leave
<1>4. ASSUME NEW h \in Handlers, handler[h].pc \in {"message", "command"}, D!Record(h), D!Free(h)
      PROVE  DispatchInv'
  BY <1>2, <1>4, HandlerRecords
<1>5. ASSUME NEW h \in Handlers, D!OnMessage(h) PROVE DispatchInv'
  <2>1. CASE D!Goto(h, "command") /\ UNCHANGED <<entry, sweepAge, ran>>
    <3>1. handler[h].pc = "message"
      BY <1>5 DEF D!OnMessage
    <3>2. handler' \in [Handlers -> Handler] /\ \A u \in Users : Pending(u)' = Pending(u)
      BY <1>1, <2>1, <3>1 DEF D!Goto, Handler, Pending
    <3>3. QED
      BY <2>1, <3>2, HandlerLeaves
  <2>2. QED
    BY <1>3, <1>4, <1>5, <2>1 DEF D!OnMessage
<1>6. ASSUME NEW h \in Handlers, D!OnCommand(h) PROVE DispatchInv'
  <2>1. CASE D!Record(h) /\ D!Goto(h, "native")
    <3>1. handler[h].pc = "command"
      BY <1>6 DEF D!OnCommand
    <3>2. handler' \in [Handlers -> Handler] /\ \A u \in Users : Pending(u)' = Pending(u) \ {h}
      BY <1>1, <2>1, <3>1 DEF D!Goto, Handler, Pending
    <3>3. QED
      BY <2>1, <3>1, <3>2, HandlerRecords
  <2>2. QED
    BY <1>3, <1>4, <1>6, <2>1 DEF D!OnCommand
<1>7. QED
  BY <1>3, <1>5, <1>6, DispatchCheck, DispatchTick DEF D!Next, D!Finish

LEMMA DispatchInit == D!Init => DispatchInv
<1> SUFFICES ASSUME D!Init PROVE DispatchInv
  OBVIOUS
<1>1. DispatchTypeOK
  BY DispatchNumbers DEF D!Init, DispatchTypeOK, Handler
<1>2. ASSUME NEW u \in Users PROVE UserInv(entry[u], ran[u], Cardinality(Pending(u)))
  <2>1. Pending(u) = {} /\ Cardinality(Pending(u)) = 0
    BY FS_EmptySet DEF D!Init, Pending
  <2>2. entry[u] = D!Absent /\ ran[u] = <<>>
    BY DEF D!Init
  <2>3. Len(ran[u]) = 0 /\ \A i \in 1..Len(ran[u]) : FALSE
    BY <2>2
  <2>4. QED
    BY <2>1, <2>2, <2>3, DispatchNumbers DEF UserInv, Ordered
<1>3. QED
  BY <1>1, <1>2 DEF DispatchInv

(* However many handlers of one user run at once, and whatever the sweep    *)
(* takes between the check and the count, in a window a user runs no more   *)
(* commands than the limit and two for each handler.                        *)
THEOREM BurstsAreBounded == Spec => []BurstIsBounded
<1>1. Init => DispatchInv
  BY DispatchInit DEF Init
<1>2. DispatchInv /\ [Next]_vars => DispatchInv'
  <2> SUFFICES ASSUME DispatchInv, [Next]_vars PROVE DispatchInv'
    OBVIOUS
  <2>1. CASE UNCHANGED dispatchVars
    BY <2>1 DEF dispatchVars, DispatchInv, DispatchTypeOK, UserInv, EndOf, Ordered, Pending
  <2>2. QED
    BY <2>1, OnePartMoves, DispatchNext
<1>3. DispatchInv => BurstIsBounded
  <2> SUFFICES ASSUME DispatchInv, NEW u \in Users
               PROVE  Len(ran[u]) <= Limit + 2 * Cardinality(Handlers)
    BY SameCardinality DEF BurstIsBounded, D!BurstIsBounded
  <2>1. /\ UserInv(entry[u], ran[u], Cardinality(Pending(u))) /\ Cardinality(Pending(u)) \in Nat
        /\ ran[u] \in Seq(Nat) /\ entry[u] \in Entry
    BY PendingType, PendingCount DEF DispatchInv, DispatchTypeOK
  <2>2. Len(ran[u]) \in Nat /\ Len(entry[u].ages) \in Nat
    BY <2>1 DEF Entry
  <2>3. CASE entry[u] = D!Absent
    <3> DEFINE l == Len(ran[u])  p == Cardinality(Pending(u))  N == Cardinality(Handlers)
    <3>1. l + p <= N /\ l \in Nat /\ p \in Nat /\ N \in Nat /\ Limit \in Nat
      BY <2>1, <2>2, <2>3, DispatchNumbers DEF UserInv
    <3> HIDE DEF l, p, N
    <3>2. l <= Limit + 2 * N
      BY <3>1
    <3>3. QED
      BY <3>2 DEF l, N
  <2>4. CASE entry[u] # D!Absent
    <3>1. /\ Len(ran[u]) <= Len(entry[u].ages) + Cardinality(Handlers)
          /\ Len(entry[u].ages) + Cardinality(Pending(u)) <= Limit + Cardinality(Handlers)
      BY <2>1, <2>4 DEF UserInv
    <3> DEFINE l == Len(ran[u])  p == Cardinality(Pending(u))  N == Cardinality(Handlers)
               a == Len(entry[u].ages)
    <3>2. /\ l <= a + N /\ a + p <= Limit + N
          /\ l \in Nat /\ p \in Nat /\ N \in Nat /\ a \in Nat /\ Limit \in Nat
      BY <2>1, <2>2, <3>1, DispatchNumbers
    <3> HIDE DEF l, p, N, a
    <3>3. l <= Limit + 2 * N
      BY <3>2
    <3>4. QED
      BY <3>3 DEF l, N
  <2>5. QED
    BY <2>3, <2>4
<1>4. QED
  BY <1>1, <1>2, <1>3, PTL DEF Spec
==============================================================================
