----------------------------- MODULE MatchEvents -----------------------------
(***************************************************************************)
(* The pure part of the match listener of osubot: what one page of match   *)
(* events does to a listener cursor, which notifications it asks for, what *)
(* acknowledging a notification does to the cursor, and where a new        *)
(* listener starts.                                                        *)
(*                                                                         *)
(* A match is the sequence "log" of the kinds of its events; the id of an  *)
(* event is its position, so ids are dense here where the osu! API leaves  *)
(* gaps (the code compares ids and subtracts one, nothing else).  The set  *)
(* "ended" holds the ids of the games that have an end_time: a game event  *)
(* is published when the game starts and is completed in place later.      *)
(***************************************************************************)
EXTENDS Integers, Sequences, FiniteSets

(* An absent event id (Option::None).  Real ids start at 1.                *)
None == 0

(* "quiet" stands for the lobby event types that are never announced       *)
(* (player-joined, player-left, host-changed), "text" for all others.      *)
Kinds == {"quiet", "text", "game", "disband"}

(* The three columns of a row of match_listeners that make its cursor.     *)
Cursor == [last: Nat, notified: Nat, pending: Nat]

StartCursor(n) == [last |-> n, notified |-> n, pending |-> None]

(* A notification is a lobby text, the image card of a game that started   *)
(* or the image card of a game that ended.                                 *)
Phases == {"text", "start", "end"}

IsRunningGame(log, ended, i) == log[i] = "game" /\ i \notin ended

(* The loop breaks after a running game and after the disband event.       *)
Halts(log, ended, i) == IsRunningGame(log, ended, i) \/ log[i] = "disband"

(* The pending game of cursor c is completed in the page (c.last, hi].     *)
PendingCompleted(c, log, ended, hi) ==
    /\ c.pending > c.last
    /\ c.pending <= hi
    /\ log[c.pending] = "game"
    /\ c.pending \in ended

(* The loop breaks before event i: it lies behind a game still pending.    *)
HeldBack(c, log, ended, hi, i) ==
    /\ c.pending # None
    /\ i > c.pending
    /\ ~PendingCompleted(c, log, ended, hi)

(* The page (c.last, hi] is processed up to and including event n.         *)
ProcessedUpTo(c, log, ended, hi, n) ==
    /\ n \in c.last..hi
    /\ \A i \in (c.last + 1)..n :
          /\ ~HeldBack(c, log, ended, hi, i)
          /\ i < n => ~Halts(log, ended, i)
    /\ \/ n = hi
       \/ n > c.last /\ Halts(log, ended, n)
       \/ HeldBack(c, log, ended, hi, n + 1)

(* Processing stopped at a game that still runs: the cursor stays before   *)
(* it.                                                                     *)
Holding(c, log, ended, n) == n > c.last /\ IsRunningGame(log, ended, n)

(* Slip: the cursor moves past a running game.                             *)
AdvancedPastGame(c, log, ended, n) == n

(* The last event that counts as consumed when processing stops at n.      *)
Advanced(c, log, ended, n) == IF Holding(c, log, ended, n) THEN n - 1 ELSE n

(* The cursor fields of StateMachineOutput.                                *)
NewCursor(c, log, ended, n) ==
    LET done == Advanced(c, log, ended, n) IN
    [last     |-> done,
     notified |-> IF Holding(c, log, ended, n) /\ n # c.pending THEN n
                  ELSE IF done > c.last THEN done ELSE c.notified,
     pending  |-> IF Holding(c, log, ended, n) THEN n
                  ELSE IF c.pending \in (c.last + 1)..n THEN None
                  ELSE c.pending]

(* Slip: the start of a pending game is announced on every poll.           *)
NotificationsRepeatStart(c, log, ended, n) ==
    {i \in (c.last + 1)..n : log[i] # "quiet"}

(* The events that yield a notification, in the order of their ids: all    *)
(* but the quiet ones and the start of the game already pending.           *)
Notifications(c, log, ended, n) ==
    {i \in (c.last + 1)..n :
        /\ log[i] # "quiet"
        /\ ~(i = n /\ n = c.pending /\ Holding(c, log, ended, n))}

(* The match was disbanded within the processed events.                    *)
StopReason(c, log, n) == n > c.last /\ log[n] = "disband"

(* apply_acknowledged_notification.                                        *)
Acknowledged(c, i, phase) ==
    CASE phase = "text"  -> [c EXCEPT !.last = i, !.notified = i]
      [] phase = "start" -> [c EXCEPT !.notified = i, !.pending = i]
      [] phase = "end"   -> [last |-> i, notified |-> i, pending |-> None]

Games(log) == {i \in DOMAIN log : log[i] = "game"}

(* Where a new listener starts, from the events after "from" (the API      *)
(* returns a window of the latest ones): at the skip-th game, else just    *)
(* before the latest running game, else at the latest event.               *)
StartsAt(log, ended, from, skip, n) ==
    LET games   == {i \in Games(log) : i > from}
        running == games \ ended
    IN  IF skip > 0 /\ Cardinality(games) >= skip
        THEN n \in games /\ Cardinality({h \in games : h <= n}) = skip
        ELSE IF running # {}
        THEN n + 1 \in running /\ \A h \in running : h <= n + 1
        ELSE n = Len(log)
==============================================================================
