----------------------------- MODULE Connection -----------------------------
(***************************************************************************)
(* The OneBot connection: the loop of ws_loop.rs that connects, reads       *)
(* frames and connects again, and the API calls of onebot.rs that handlers, *)
(* poller and bridge make over it.  A call leaves an entry in `pending`,    *)
(* sends, then waits for its answer for at most the configured time; the    *)
(* answer is a frame like any other.  A background task sweeps entries      *)
(* whose caller is gone.  Ages are counted in units of time; a timer fires  *)
(* when it is due, never early and never late.                              *)
(***************************************************************************)
EXTENDS Naturals, FiniteSets

CONSTANTS
    Calls,           \* the calls ever made; each has an echo of its own
    Timeouts,        \* values of onebot_api_timeout_secs, in units
    Floor, Margin,   \* MIN_CLEANUP_RETENTION_SECS, CLEANUP_RETENTION_MARGIN_SECS
    MaxTokens,       \* frames per unit of time
    MaxDelay,        \* longest delay of a reconnect
    MaxConns,        \* bound: connections ever made
    MaxFailures      \* bound: attempts that fail in a row

VARIABLES
    loop,            \* phase of run_ws_reconnect_loop
    conn,            \* number of the connection being read, or last read
    open,            \* connections whose socket still takes what is written
    delay,           \* reconnect_delay
    failures,        \* attempts that failed since the last connection
    tokens,          \* of the limiter of incoming frames
    timeout,         \* OneBotApi::timeout
    pending,         \* calls with an entry in OneBotApi::pending
    call,            \* the calls as their callers see them
    answer           \* OneBot's side of each call
vars == <<loop, conn, open, delay, failures, tokens, timeout, pending, call, answer>>

Smaller(a, b) == IF a < b THEN a ELSE b
Larger(a, b)  == IF a < b THEN b ELSE a

Retention == Larger(timeout + Margin, Floor)
MaxAge == LET longest == CHOOSE t \in Timeouts : \A u \in Timeouts : u <= t
          IN  Larger(longest + Margin, Floor)

NewCall == [pc |-> "idle", on |-> 0, age |-> 0, sentAt |-> 0, limit |-> 0, result |-> "none"]

Init ==
    /\ loop = "connect" /\ conn = 0 /\ open = {}
    /\ delay = 1 /\ failures = 0 /\ tokens = MaxTokens
    /\ timeout \in Timeouts
    /\ pending = {} /\ call = [c \in Calls |-> NewCall]
    /\ answer = [c \in Calls |-> "none"]

link   == <<loop, conn, open, delay, failures, tokens>>
callsV == <<pending, call, answer>>

------------------------------------------------------------------------------
(* Slip: a connection does not reset the delay.                             *)
ConnectedKeepsDelay ==
    /\ loop = "connect" /\ conn < MaxConns
    /\ loop' = "read" /\ conn' = conn + 1 /\ open' = open \union {conn + 1}
    /\ failures' = 0 /\ tokens' = MaxTokens
    /\ UNCHANGED <<delay, timeout, pending, call, answer>>

(* connect_ws succeeds; run_message_loop starts with a limiter of its own.  *)
Connected ==
    /\ loop = "connect" /\ conn < MaxConns
    /\ loop' = "read" /\ conn' = conn + 1 /\ open' = open \union {conn + 1}
    /\ delay' = 1 /\ failures' = 0 /\ tokens' = MaxTokens
    /\ UNCHANGED <<timeout, pending, call, answer>>

(* connect_ws fails, sleeps for the delay, and doubles it.                  *)
ConnectFails ==
    /\ loop = "connect" /\ failures < MaxFailures
    /\ failures' = failures + 1
    /\ delay' = Smaller(delay * 2, MaxDelay)
    /\ UNCHANGED <<loop, conn, open, tokens, timeout, callsV>>

(* The loop over the frames ends.  A Close frame, an error and the end of   *)
(* the stream close the socket; a changed URL leaves it to whoever still    *)
(* holds its write half.                                                    *)
Break(closed) ==
    /\ loop = "read"
    /\ loop' = "sleep"
    /\ open' = IF closed THEN open \ {conn} ELSE open
    /\ UNCHANGED <<conn, failures, tokens, timeout, callsV>>

CloseFrame      == Break(TRUE)  /\ delay' = 1
StreamFails     == Break(TRUE)  /\ UNCHANGED delay
ForcedReconnect == Break(FALSE) /\ UNCHANGED delay

NextReconnectDelay(d) == IF d <= 1 THEN 1 ELSE Smaller(d * 2, MaxDelay)

(* The end of an iteration: current_write is cleared, then the sleep.       *)
ConnectAgain ==
    /\ loop = "sleep"
    /\ loop' = "connect" /\ delay' = NextReconnectDelay(delay)
    /\ UNCHANGED <<conn, open, failures, tokens, timeout, callsV>>

(* A message, event or heartbeat: it costs a token, or is dropped.          *)
OtherFrame ==
    /\ loop = "read" /\ tokens > 0
    /\ tokens' = tokens - 1
    /\ UNCHANGED <<loop, conn, open, delay, failures, timeout, callsV>>

------------------------------------------------------------------------------
(* A caller holds the write half of its own connection, or takes the one    *)
(* that is current.                                                         *)
Begin(c) ==
    /\ call[c].pc = "idle" /\ conn > 0
    /\ call' = [call EXCEPT ![c].pc = "sending", ![c].on = conn]
    /\ pending' = pending \union {c}
    /\ UNCHANGED <<link, timeout, answer>>

Ended(c, result) == [NewCall EXCEPT !.pc = "done", !.result = result]
End(c, result)   == call' = [call EXCEPT ![c] = Ended(c, result)]

(* The sink takes the payload: the wait starts now, for the time that is    *)
(* configured now, and is over at once when the entry has been swept.       *)
Sent(c) ==
    /\ call[c].pc = "sending" /\ call[c].on \in open
    /\ IF c \in pending
       THEN call' = [call EXCEPT ![c].pc = "waiting", ![c].sentAt = call[c].age,
                                 ![c].limit = timeout]
       ELSE End(c, "cancelled")
    /\ answer' = [answer EXCEPT ![c] = "asked"]
    /\ UNCHANGED <<link, timeout, pending>>

SendFails(c) ==
    /\ call[c].pc = "sending" /\ call[c].on \notin open
    /\ End(c, "send_failed")
    /\ pending' = pending \ {c}
    /\ UNCHANGED <<link, timeout, answer>>

(* OneBot does what it is asked, and answers on the same connection.        *)
Executes(c) ==
    /\ answer[c] = "asked" /\ call[c].on \in open
    /\ answer' = [answer EXCEPT ![c] = "due"]
    /\ UNCHANGED <<link, timeout, pending, call>>

(* The frame of the answer: dropped without a token, ignored without an     *)
(* entry, given to the caller otherwise, with whatever it says.  One of     *)
(* more than 4 MiB is dropped with its token spent: to its caller that is   *)
(* an answer that does not come, beside an OtherFrame.                      *)
Answered(c) ==
    /\ answer[c] = "due" /\ loop = "read" /\ call[c].on = conn
    /\ answer' = [answer EXCEPT ![c] = "told"]
    /\ tokens' = IF tokens > 0 THEN tokens - 1 ELSE tokens
    /\ IF tokens > 0 /\ c \in pending
       THEN /\ pending' = pending \ {c}
            /\ IF call[c].pc = "waiting" THEN End(c, "answered") ELSE UNCHANGED call
       ELSE UNCHANGED <<pending, call>>
    /\ UNCHANGED <<loop, conn, open, delay, failures, timeout>>

Due(c) == call[c].pc = "waiting" /\ call[c].age >= call[c].sentAt + call[c].limit

TimesOut(c) ==
    /\ Due(c)
    /\ End(c, "timeout")
    /\ pending' = pending \ {c}
    /\ UNCHANGED <<link, timeout, answer>>

(* command_timeout_secs drops the handler with the call it waits for.       *)
Abandon(c) ==
    /\ call[c].pc \in {"sending", "waiting"}
    /\ call' = [call EXCEPT ![c].pc = "done", ![c].result = "abandoned"]
    /\ UNCHANGED <<link, timeout, pending, answer>>

------------------------------------------------------------------------------
(* Slip: an entry is only swept while somebody waits.                       *)
StaleIfAwaited(c) == call[c].pc = "waiting" /\ call[c].age >= Retention

Stale(c) == call[c].age >= Retention

(* Slip: the retention is the timeout itself.                               *)
StaleWithoutMargin(c) == call[c].age >= timeout

(* The sweep of spawn_onebot_cleanup.  A sender it drops wakes its caller.  *)
Sweep(Old(_)) ==
    LET old == {c \in pending : Old(c)}
    IN  /\ old # {}
        /\ pending' = pending \ old
        /\ call' = [c \in Calls |->
                      IF c \in old /\ call[c].pc = "waiting"
                      THEN Ended(c, IF call[c].sentAt >= Margin \/ timeout < call[c].limit
                                    THEN "cancelled" ELSE "cancelled_in_time")
                      ELSE call[c]]
        /\ UNCHANGED <<link, timeout, answer>>

(* Slip: see StaleWithoutMargin.                                            *)
CleanupWithoutMargin == Sweep(StaleWithoutMargin)

Cleanup == Sweep(Stale)

(* A reload stores a new timeout.                                           *)
Reload(t) ==
    /\ timeout' = t /\ t # timeout
    /\ UNCHANGED <<link, callsV>>

Tick ==
    /\ \A c \in Calls : ~Due(c)
    /\ call' = [c \in Calls |->
                  CASE call[c].pc = "waiting" -> [call[c] EXCEPT !.age = @ + 1]
                    [] call[c].pc = "sending" \/ (call[c].pc = "done" /\ c \in pending)
                         -> [call[c] EXCEPT !.age = Smaller(@ + 1, MaxAge)]
                    [] OTHER -> call[c]]
    /\ tokens' = MaxTokens
    /\ UNCHANGED <<loop, conn, open, delay, failures, timeout, pending, answer>>

CallStep(c) == Sent(c) \/ SendFails(c) \/ TimesOut(c)

Next ==
    \/ Connected \/ ConnectFails \/ CloseFrame \/ StreamFails \/ ForcedReconnect
    \/ ConnectAgain \/ OtherFrame
    \/ \E c \in Calls :
          Begin(c) \/ CallStep(c) \/ Executes(c) \/ Answered(c) \/ Abandon(c)
    \/ Cleanup \/ Tick
    \/ \E t \in Timeouts : Reload(t)

(* Time passes, sends end (TCP gives up on a dead peer) and the sweep       *)
(* comes back.  No connection has to be made and no answer has to come.     *)
Fairness ==
    /\ WF_vars(Tick) /\ WF_vars(Cleanup)
    /\ \A c \in Calls : WF_vars(CallStep(c))

Spec == Init /\ [][Next]_vars /\ Fairness
------------------------------------------------------------------------------
(* The comment on MIN_CLEANUP_RETENTION_SECS: the sweep does not cancel a   *)
(* call whose caller still waits.  That is so unless the send itself used   *)
(* up the margin, or a reload has shortened the timeout since.              *)
SweepSparesCallers == \A c \in Calls : call[c].result # "cancelled_in_time"

(* reconnect_delay doubles with each failed attempt in a row, up to its     *)
(* maximum, and is back at one after a connection, however that ends:       *)
(* next_reconnect_delay never doubles anything.                             *)
DelayCountsFailures == delay = Smaller(2^failures, MaxDelay)

(* Whatever is lost, dropped or cut off, a call ends, and no entry stays    *)
(* behind: not of a caller that was cut off, nor of an answer that comes    *)
(* when nobody waits.                                                       *)
NoCallHangs ==
    \A c \in Calls : /\ c \in pending ~> c \notin pending
                     /\ call[c].pc = "sending" ~> call[c].pc = "done"
=============================================================================
