---------------------------- MODULE MatchListener ----------------------------
(***************************************************************************)
(* The match listener of osubot: the !ml commands, the match_listeners     *)
(* table and the background poller that turns the event log of an osu!     *)
(* multiplayer match into chat messages.                                   *)
(*                                                                         *)
(* A listener is a row of the table, keyed by match and chat (the group    *)
(* id, or minus the user id for a private chat).  Three kinds of actors    *)
(* share the rows, with an await between any two of their steps: command   *)
(* handlers, the poller's jobs (one per due row, at most MaxConcurrent at  *)
(* a time) and the poll loop itself.  The osu! API, OneBot and the clock   *)
(* are the environment.                                                    *)
(***************************************************************************)
EXTENDS MatchEvents

CONSTANTS
    Matches, Chats,    \* the listeners' keys
    Cmds,              \* command handlers that may run at once
    MaxPerGroup,       \* match_listen.max_per_group
    MaxConcurrent,     \* MAX_CONCURRENT_LISTENERS
    PageLimit,         \* events in a page fetched by the poller
    StartWindow,       \* events in the page fetched by a start command
    Lifetime,          \* MAX_LISTENER_LIFETIME_HOURS, in clock units
    MuteChoices,       \* image phases the configuration may switch off
    MaxSkip,           \* largest #N of a start command
    \* bounds of the exploration
    MaxEvents, MaxTime, MaxCrashes, MaxResets, MaxGhosts, MaxDbErrors

ASSUME KeysAssumption == Matches # {} /\ Chats # {} /\ IsFiniteSet(Cmds)
ASSUME LimitsAssumption ==
    /\ {MaxPerGroup, MaxConcurrent, PageLimit, StartWindow} \subseteq Nat \ {0}
    /\ {Lifetime, MaxSkip, MaxEvents, MaxTime, MaxCrashes, MaxResets,
        MaxGhosts, MaxDbErrors} \subseteq Nat
    /\ MuteChoices \subseteq SUBSET {"start", "end"}

VARIABLES
    log,       \* [Matches -> Seq(Kinds)] the events osu! has published
    ended,     \* [Matches -> set of ids] the games that have an end_time
    now,       \* the clock
    rows,      \* [Keys -> Row] the table match_listeners
    cycle,     \* where the poll loop is
    jobs,      \* [Keys -> Job] the poller's work of this cycle
    cmd,       \* [Cmds -> Command] the handlers of !ml start
    \* what has happened, for the properties
    seen,      \* [Keys -> notifications the chat has received]
    hushed,    \* [Keys -> notifications the configuration switched off]
    floor,     \* [Keys -> the furthest a start has set the cursor]
    base,      \* [Keys -> where the last start set the cursor]
    clean,     \* [Keys -> no failure or restart excuses a repeated message]
    repeated,  \* [Keys -> some notification was received twice]
    faults     \* crashes, resets, ghosts and database errors so far

env      == <<log, ended, now>>
history  == <<seen, hushed, floor, base, clean, repeated, faults>>
vars     == <<log, ended, now, rows, cycle, jobs, cmd,
              seen, hushed, floor, base, clean, repeated, faults>>

Keys == Matches \X Chats
MatchOf(k) == k[1]
ChatOf(k)  == k[2]

(* A row that was never inserted behaves as an inactive one: every query   *)
(* and update of the code selects active rows or is preceded by an insert. *)
Row == [active: BOOLEAN, expires: Int, cur: Cursor]
NoRow == [active |-> FALSE, expires |-> -1, cur |-> StartCursor(0)]

Job == [pc: {"none", "queued", "fetch", "send", "fallback", "write", "stop"},
        cur: Cursor,             \* the row's cursor when the cycle listed it
        ack: Cursor,             \* acknowledged_cursor
        out: Cursor,             \* the output's cursor, then final_cursor
        todo: SUBSET Nat,        \* notifications still to be sent
        muted: SUBSET {"start", "end"},    \* the configuration, read once per job
        disband: BOOLEAN]        \* stop_reason, kept only when fully handled
NoJob == [pc |-> "none", cur |-> StartCursor(0), ack |-> StartCursor(0),
          out |-> StartCursor(0), todo |-> {}, muted |-> {}, disband |-> FALSE]

Command == [pc: {"idle", "count", "fetch", "insert"}, key: Keys, last: Nat]
NoCommand == [pc |-> "idle", key |-> CHOOSE k \in Keys : TRUE, last |-> 0]

EffectivelyActive(k) == rows[k].active /\ rows[k].expires >= now

Faults == [crash: Nat, reset: Nat, ghost: Nat, db: Nat]

ActiveIn(chat) == {k \in Keys : ChatOf(k) = chat /\ EffectivelyActive(k)}

Ids(k) == 1..Len(log[MatchOf(k)])

------------------------------------------------------------------------------
NothingYet ==
    /\ log      = [m \in Matches |-> <<"text">>]     \* match-created
    /\ ended    = [m \in Matches |-> {}]
    /\ rows     = [k \in Keys |-> NoRow]
    /\ cycle    = "sleep"
    /\ jobs     = [k \in Keys |-> NoJob]
    /\ cmd      = [c \in Cmds |-> NoCommand]
    /\ seen     = [k \in Keys |-> {}]
    /\ hushed   = [k \in Keys |-> {}]
    /\ floor    = [k \in Keys |-> 0]
    /\ base     = [k \in Keys |-> 0]
    /\ clean    = [k \in Keys |-> TRUE]
    /\ repeated = [k \in Keys |-> FALSE]

Init ==
    /\ NothingYet
    /\ now    = 0
    /\ faults = [crash |-> 0, reset |-> 0, ghost |-> 0, db |-> 0]

------------------------------------------------------------------------------
(* Environment: osu! and the clock.                                        *)

Publish(m, kind) ==
    /\ Len(log[m]) < MaxEvents
    /\ \A i \in DOMAIN log[m] : log[m][i] # "disband"
    /\ kind = "game" => Games(log[m]) \subseteq ended[m]
    /\ log' = [log EXCEPT ![m] = Append(@, kind)]
    /\ UNCHANGED <<ended, now, rows, cycle, jobs, cmd, history>>

CompleteGame(m, i) ==
    /\ i \in Games(log[m]) \ ended[m]
    /\ ended' = [ended EXCEPT ![m] = @ \union {i}]
    /\ UNCHANGED <<log, now, rows, cycle, jobs, cmd, history>>

Tick ==
    /\ now < MaxTime
    /\ now' = now + 1
    /\ UNCHANGED <<log, ended, rows, cycle, jobs, cmd, history>>

------------------------------------------------------------------------------
(* A statement of the database fails.                                      *)
DbError == /\ faults.db < MaxDbErrors
           /\ faults' = [faults EXCEPT !.db = @ + 1]
           /\ UNCHANGED <<seen, hushed, floor, base, repeated>>

(* !ml <match>: a check of the row, a count, a fetch and an upsert, each   *)
(* behind an await of its own.  A listener that is found in effect is      *)
(* answered "started" at once; a row that cannot be read is not found.     *)
StartCheck(c, k) ==
    /\ cmd[c].pc = "idle"
    /\ \/ ~EffectivelyActive(k) /\ UNCHANGED history
       \/ EffectivelyActive(k) /\ DbError /\ UNCHANGED clean
    /\ cmd' = [cmd EXCEPT ![c] = [pc |-> "count", key |-> k, last |-> 0]]
    /\ UNCHANGED <<env, rows, cycle, jobs>>

(* Slip: the limit admits one listener too many.                           *)
BelowLimitOffByOne(k) == Cardinality(ActiveIn(ChatOf(k))) <= MaxPerGroup

BelowLimit(k) == Cardinality(ActiveIn(ChatOf(k))) < MaxPerGroup

StartCount(c) ==
    /\ cmd[c].pc = "count"
    /\ cmd' = [cmd EXCEPT ![c] = IF BelowLimit(cmd[c].key)
                                 THEN [@ EXCEPT !.pc = "fetch"] ELSE NoCommand]
    /\ UNCHANGED <<env, rows, cycle, jobs, history>>

StartFetch(c) ==
    /\ cmd[c].pc = "fetch"
    /\ LET m    == MatchOf(cmd[c].key)
           from == IF Len(log[m]) > StartWindow THEN Len(log[m]) - StartWindow ELSE 0
       IN  \E skip \in 0..MaxSkip, n \in 0..Len(log[m]) :
             /\ StartsAt(log[m], ended[m], from, skip, n)
             /\ cmd' = [cmd EXCEPT ![c].pc = "insert", ![c].last = n]
    /\ UNCHANGED <<env, rows, cycle, jobs, history>>

(* The upsert keeps the cursor of a listener that is still in effect.      *)
KeepsCursor(k) == EffectivelyActive(k)

(* Slip: a restart resets the event ids but not the pending game.          *)
UpsertedKeepsPending(k, n) ==
    IF KeepsCursor(k) THEN rows[k].cur
                      ELSE [rows[k].cur EXCEPT !.last = n, !.notified = n]

Upserted(k, n) == IF KeepsCursor(k) THEN rows[k].cur ELSE StartCursor(n)

StartInsert(c) ==
    LET k == cmd[c].key
        n == cmd[c].last
    IN  /\ cmd[c].pc = "insert"
        /\ rows' = [rows EXCEPT ![k] =
                      [active |-> TRUE, expires |-> now + Lifetime, cur |-> Upserted(k, n)]]
        /\ IF KeepsCursor(k)
           THEN UNCHANGED <<floor, base, clean, faults>>
           ELSE /\ floor' = [floor EXCEPT ![k] = IF n > @ THEN n ELSE @]
                /\ base'  = [base EXCEPT ![k] = n]
                /\ IF rows[k] = NoRow
                   THEN UNCHANGED <<clean, faults>>
                   ELSE /\ faults.reset < MaxResets
                        /\ clean'  = [clean EXCEPT ![k] = FALSE]
                        /\ faults' = [faults EXCEPT !.reset = @ + 1]
        /\ cmd' = [cmd EXCEPT ![c] = NoCommand]
        /\ UNCHANGED <<env, cycle, jobs, seen, hushed, repeated>>

(* A failed fetch or insert, or the command timeout, ends the handler.     *)
StartAbort(c) ==
    /\ cmd[c].pc # "idle"
    /\ cmd' = [cmd EXCEPT ![c] = NoCommand]
    /\ UNCHANGED <<env, rows, cycle, jobs, history>>

(* !ml stop <match>, and !ml stop all: one UPDATE each.                    *)
Stop(k) ==
    /\ rows[k].active
    /\ rows' = [rows EXCEPT ![k].active = FALSE]
    /\ UNCHANGED <<env, cycle, jobs, cmd, history>>

StopAll(chat) ==
    /\ \E k \in Keys : ChatOf(k) = chat /\ rows[k].active
    /\ rows' = [k \in Keys |-> IF ChatOf(k) = chat
                               THEN [rows[k] EXCEPT !.active = FALSE] ELSE rows[k]]
    /\ UNCHANGED <<env, cycle, jobs, cmd, history>>
------------------------------------------------------------------------------
(* The poll loop: expire, list the due rows, run a job for each, wait for  *)
(* all of them.                                                            *)

PollExpire ==
    /\ cycle = "sleep"
    /\ cycle' = "list"
    /\ rows' = [k \in Keys |-> IF rows[k].expires < now
                               THEN [rows[k] EXCEPT !.active = FALSE] ELSE rows[k]]
    /\ UNCHANGED <<env, jobs, cmd, history>>

PollList ==
    /\ cycle = "list"
    /\ cycle' = "run"
    /\ jobs' = [k \in Keys |-> IF EffectivelyActive(k)
                               THEN [NoJob EXCEPT !.pc = "queued", !.cur = rows[k].cur]
                               ELSE NoJob]
    /\ UNCHANGED <<env, rows, cmd, history>>

PollEnd ==
    /\ cycle = "run"
    /\ \A k \in Keys : jobs[k].pc = "none"
    /\ cycle' = "sleep"
    /\ UNCHANGED <<env, rows, jobs, cmd, history>>

(* A database error: the expiry is skipped, the cycle is given up.         *)
PollExpireFails ==
    /\ cycle = "sleep"
    /\ DbError
    /\ cycle' = "list"
    /\ UNCHANGED <<env, rows, jobs, cmd, clean>>

PollListFails ==
    /\ cycle = "list"
    /\ DbError
    /\ cycle' = "sleep"
    /\ UNCHANGED <<env, rows, jobs, cmd, clean>>

------------------------------------------------------------------------------
(* One job: process_one.                                                   *)

Running == {k \in Keys : jobs[k].pc \notin {"none", "queued"}}

JobStart(k) ==
    /\ jobs[k].pc = "queued"
    /\ Cardinality(Running) < MaxConcurrent
    /\ jobs' = [jobs EXCEPT ![k].pc = "fetch"]
    /\ UNCHANGED <<env, rows, cycle, cmd, history>>

(* The page is fetched and processed, and the configuration read, in one   *)
(* stretch: nothing the stretch reads is shared with the other actors.     *)
JobFetch(k) ==
    LET m  == MatchOf(k)
        c  == jobs[k].cur
        hi == IF Len(log[m]) > c.last + PageLimit THEN c.last + PageLimit ELSE Len(log[m])
    IN  /\ jobs[k].pc = "fetch"
        /\ \E n \in c.last..hi, muted \in MuteChoices :
             /\ ProcessedUpTo(c, log[m], ended[m], hi, n)
             /\ LET todo == Notifications(c, log[m], ended[m], n) IN
                jobs' = [jobs EXCEPT ![k] =
                           [pc      |-> IF todo = {} THEN "write" ELSE "send",
                            cur     |-> c,
                            ack     |-> c,
                            out     |-> NewCursor(c, log[m], ended[m], n),
                            todo    |-> todo,
                            muted   |-> muted,
                            disband |-> StopReason(c, log[m], n)]]
        /\ UNCHANGED <<env, rows, cycle, cmd, history>>

JobFetchFails(k) ==
    /\ jobs[k].pc = "fetch"
    /\ jobs' = [jobs EXCEPT ![k] = NoJob]
    /\ UNCHANGED <<env, rows, cycle, cmd, history>>

(* What notification i of job k is: the output's pending game is one that  *)
(* started, any other game has ended.                                      *)
PhaseOf(k, i) == IF i = jobs[k].out.pending THEN "start"
                 ELSE IF log[MatchOf(k)][i] = "game" THEN "end" ELSE "text"

(* Slip: notifications are sent in any order.                              *)
IsNextInAnyOrder(k, i) == i \in jobs[k].todo

IsNext(k, i) == i \in jobs[k].todo /\ \A j \in jobs[k].todo : i <= j

(* Slip: after a failed delivery the acknowledgements before it are lost.  *)
GiveUpForgets(j) == [j EXCEPT !.pc = "write", !.out = j.cur, !.todo = {}, !.disband = FALSE]

(* Delivery failed: the loop ends, the acknowledged cursor is the final    *)
(* one and the stop reason is disregarded.                                 *)
GiveUp(j) == [j EXCEPT !.pc = "write", !.out = j.ack, !.todo = {}, !.disband = FALSE]

(* Notification i is acknowledged: the loop goes on to the next one.       *)
Ack(j, i, phase) ==
    [j EXCEPT !.ack  = Acknowledged(@, i, phase),
              !.todo = @ \ {i},
              !.pc   = IF j.todo = {i} THEN "write" ELSE "send"]

JobMuted(k) ==
    /\ jobs[k].pc = "send"
    /\ \E i \in jobs[k].todo :
         LET phase == PhaseOf(k, i) IN
         /\ IsNext(k, i)
         /\ phase \in jobs[k].muted
         /\ jobs'   = [jobs EXCEPT ![k] = Ack(@, i, phase)]
         /\ hushed' = [hushed EXCEPT ![k] = @ \union {<<i, phase>>}]
    /\ UNCHANGED <<env, rows, cycle, cmd, seen, floor, base, clean, repeated, faults>>

(* The chat of k receives notification i.                                  *)
Receive(k, i, phase) ==
    /\ seen'     = [seen EXCEPT ![k] = @ \union {<<i, phase>>}]
    /\ repeated' = [repeated EXCEPT ![k] = @ \/ <<i, phase>> \in seen[k]]

(* An attempt to send: a lobby text, an image card, or the text that       *)
(* replaces a card that could not be sent.                                 *)
Attempt(k, i) ==
    /\ jobs[k].pc \in {"send", "fallback"}
    /\ IsNext(k, i)
    /\ PhaseOf(k, i) \notin jobs[k].muted

Delivered(k, i) ==
    /\ Attempt(k, i)
    /\ Receive(k, i, PhaseOf(k, i))
    /\ jobs' = [jobs EXCEPT ![k] = Ack(@, i, PhaseOf(k, i))]
    /\ UNCHANGED <<env, rows, cycle, cmd, hushed, floor, base, clean, faults>>

(* After a failed attempt: a card is replaced by a text, a text is given   *)
(* up.                                                                     *)
AfterFailure(k, i) ==
    jobs' = [jobs EXCEPT ![k] =
               IF @.pc = "send" /\ PhaseOf(k, i) # "text"
               THEN [@ EXCEPT !.pc = "fallback"] ELSE GiveUp(@)]

(* There is no connection to send on: a card is not replaced either.       *)
NoSink(k, i) ==
    /\ jobs[k].pc = "send"
    /\ Attempt(k, i)
    /\ jobs' = [jobs EXCEPT ![k] = GiveUp(@)]
    /\ UNCHANGED <<env, rows, cycle, cmd, history>>

(* A render error, a refusal, a connection that breaks: nothing arrives.   *)
NotDelivered(k, i) ==
    /\ Attempt(k, i)
    /\ AfterFailure(k, i)
    /\ UNCHANGED <<env, rows, cycle, cmd, history>>

(* The message arrives but its confirmation does not, before the timeout.  *)
DeliveredUnconfirmed(k, i) ==
    /\ faults.ghost < MaxGhosts
    /\ Attempt(k, i)
    /\ Receive(k, i, PhaseOf(k, i))
    /\ AfterFailure(k, i)
    /\ clean'  = [clean EXCEPT ![k] = FALSE]
    /\ faults' = [faults EXCEPT !.ghost = @ + 1]
    /\ UNCHANGED <<env, rows, cycle, cmd, hushed, floor, base>>

NextPc(j) == IF j.disband THEN [j EXCEPT !.pc = "stop"] ELSE NoJob

(* update_match_listener_progress writes the row whether or not the        *)
(* listener was stopped or restarted in between.                           *)
WriteProgress(k) ==
    /\ jobs[k].pc = "write"
    /\ rows' = [rows EXCEPT ![k].cur = jobs[k].out]
    /\ jobs' = [jobs EXCEPT ![k] = NextPc(@)]
    /\ UNCHANGED <<env, cycle, cmd, history>>

WriteProgressFails(k) ==
    /\ jobs[k].pc = "write"
    /\ DbError
    /\ clean' = [clean EXCEPT ![k] = FALSE]
    /\ jobs'  = [jobs EXCEPT ![k] = NextPc(@)]
    /\ UNCHANGED <<env, rows, cycle, cmd>>

StopDisbanded(k) ==
    /\ jobs[k].pc = "stop"
    /\ rows' = [rows EXCEPT ![k].active = FALSE]
    /\ jobs' = [jobs EXCEPT ![k] = NoJob]
    /\ UNCHANGED <<env, cycle, cmd, history>>

StopDisbandedFails(k) ==
    /\ jobs[k].pc = "stop"
    /\ DbError
    /\ jobs' = [jobs EXCEPT ![k] = NoJob]
    /\ UNCHANGED <<env, rows, cycle, cmd, clean>>

(* The process dies and starts again: only the rows survive.               *)
Crash ==
    /\ faults.crash < MaxCrashes
    /\ faults' = [faults EXCEPT !.crash = @ + 1]
    /\ clean'  = [k \in Keys |-> clean[k] /\ jobs[k].pc = "none"]
    /\ cycle'  = "sleep"
    /\ jobs'   = [k \in Keys |-> NoJob]
    /\ cmd'    = [c \in Cmds |-> NoCommand]
    /\ UNCHANGED <<env, rows, seen, hushed, floor, base, repeated>>
------------------------------------------------------------------------------
Environment ==
    \/ \E m \in Matches : \/ \E kind \in Kinds : Publish(m, kind)
                           \/ \E i \in Games(log[m]) : CompleteGame(m, i)
    \/ Tick

Commands ==
    \/ \E c \in Cmds : \/ \E k \in Keys : StartCheck(c, k)
                        \/ StartCount(c)
                        \/ StartFetch(c)
                        \/ StartInsert(c)
                        \/ StartAbort(c)
    \/ \E k \in Keys : Stop(k)
    \/ \E chat \in Chats : StopAll(chat)

JobStep(k) ==
    \/ JobStart(k) \/ JobFetch(k) \/ JobFetchFails(k) \/ JobMuted(k)
    \/ \E i \in Ids(k) : \/ Delivered(k, i) \/ DeliveredUnconfirmed(k, i)
                         \/ NotDelivered(k, i) \/ NoSink(k, i)
    \/ WriteProgress(k) \/ WriteProgressFails(k)
    \/ StopDisbanded(k) \/ StopDisbandedFails(k)

Poller ==
    \/ PollExpire \/ PollExpireFails \/ PollList \/ PollListFails \/ PollEnd
    \/ \E k \in Keys : JobStep(k)

Next == Environment \/ Commands \/ Poller \/ Crash

Spec == Init /\ [][Next]_vars

(* The runtime keeps polling: every step of the poll loop and of a job     *)
(* that can be taken is taken.  Of the outside world: a fetch that is      *)
(* retried succeeds in the end, and so does a delivery; a game does not    *)
(* last for ever.  Users, the clock and crashes owe nothing.               *)
Fairness ==
    /\ WF_vars(PollExpire \/ PollExpireFails)
    /\ WF_vars(PollList \/ PollListFails)
    /\ WF_vars(PollEnd)
    /\ \A k \in Keys :
         /\ WF_vars(JobStep(k))
         /\ SF_vars(JobFetch(k))
         /\ SF_vars(\E i \in Ids(k) : Delivered(k, i))
    /\ \A m \in Matches : WF_vars(\E i \in Games(log[m]) : CompleteGame(m, i))

FairSpec == Spec /\ Fairness

------------------------------------------------------------------------------
(* Types: the database rows, the jobs and the handlers hold what the       *)
(* structs of storage.rs, poller.rs and match_listen.rs can hold.          *)
TypeOK ==
    /\ log \in [Matches -> Seq(Kinds)]
    /\ ended \in [Matches -> SUBSET Nat]
    /\ now \in Nat
    /\ rows \in [Keys -> Row]
    /\ cycle \in {"sleep", "list", "run"}
    /\ jobs \in [Keys -> Job]
    /\ cmd \in [Cmds -> Command]
    /\ seen \in [Keys -> SUBSET (Nat \X Phases)]
    /\ hushed \in [Keys -> SUBSET (Nat \X Phases)]
    /\ floor \in [Keys -> Nat]
    /\ base \in [Keys -> Nat]
    /\ clean \in [Keys -> BOOLEAN]
    /\ repeated \in [Keys -> BOOLEAN]
    /\ faults \in Faults

(* Event i of this kind needs no further message: it is never announced,   *)
(* its message arrived, or its card is switched off.                       *)
Settles(kind, i, told, off) ==
    CASE kind = "quiet" -> TRUE
      [] kind = "game"  -> <<i, "end">> \in told \union off
      [] OTHER          -> <<i, "text">> \in told

Settled(k, i) == Settles(log[MatchOf(k)][i], i, seen[k], hushed[k])

(* No event is lost: whatever fails, crashes or restarts, a row's cursor   *)
(* stands behind an event only if its chat has the message (or a start     *)
(* command asked to begin after it).  A delivery reported as failed leaves *)
(* its event in front of the cursor.                                       *)
NothingSkipped ==
    \A k \in Keys : \A i \in (floor[k] + 1)..rows[k].cur.last : Settled(k, i)

(* As long as nothing went wrong (no crash during a job, no unconfirmed    *)
(* delivery, no failed write, no restart), no message arrives twice, even  *)
(* if deliveries fail in the middle of a page and games end between polls. *)
NoRepeatWhenClean == \A k \in Keys : clean[k] => ~repeated[k]

(* The pending marker of a row is the game right after the cursor, and its *)
(* start was announced or switched off.                                    *)
PendingIsAnnounced ==
    \A k \in Keys : LET p == rows[k].cur.pending IN
        p # None => /\ p = rows[k].cur.last + 1
                    /\ p \in Games(log[MatchOf(k)])
                    /\ <<p, "start">> \in seen[k] \union hushed[k]

(* The poller stops a listener only after its chat was told that the match *)
(* is disbanded, that being the last event of the match.                   *)
StopIsAnnounced ==
    \A k \in Keys : jobs[k].pc = "stop" =>
        LET n == Len(log[MatchOf(k)]) IN
        log[MatchOf(k)][n] = "disband" /\ <<n, "text">> \in seen[k]

(* What a chat is told: no message twice without a fault that excuses it,   *)
(* and the end of the match before its listener stops.                      *)
ChatIsTold == NoRepeatWhenClean /\ StopIsAnnounced

(* Handlers that have passed the limit check for a chat.                   *)
Passed(chat) == {c \in Cmds : cmd[c].pc \in {"fetch", "insert"} /\ ChatOf(cmd[c].key) = chat}

(* The check and the insert are not atomic, so the limit can be exceeded,  *)
(* but by no more than the handlers that run at once minus one.            *)
QuotaOvershootBounded ==
    \A chat \in Chats :
        Cardinality(ActiveIn(chat)) + Cardinality(Passed(chat))
            <= MaxPerGroup + Cardinality(Cmds) - 1

(* A (re)started listener works from the cursor its start command computed *)
(* (storage.rs:2119): its cursor is never behind it.                       *)
RestartResetsCursor ==
    \A k \in Keys : rows[k].active => rows[k].cur.last >= base[k]

(* Every event of a match with an active listener is dealt with: the       *)
(* cursor moves past it or the listener is stopped.                        *)
EventsAreConsumed ==
    \A k \in Keys : \A i \in 1..MaxEvents :
        (rows[k].active /\ i <= Len(log[MatchOf(k)]))
            ~> (rows[k].cur.last >= i \/ ~rows[k].active)

(* The feed each chat is promised, and that the listener implements it.    *)
Promise == INSTANCE ChatFeed
    WITH Readers <- Keys, Feed <- Matches, FeedOf <- MatchOf,
         events <- log, position <- [k \in Keys |-> rows[k].cur.last],
         told <- seen, off <- hushed
ImplementsChatFeed == Promise!Spec
==============================================================================
