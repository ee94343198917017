------------------------- MODULE MatchListenerProofs -------------------------
(***************************************************************************)
(* Proofs about MatchListener, for every set of matches, chats and         *)
(* handlers, every page size and every bound.                              *)
(***************************************************************************)
EXTENDS MatchListener, FiniteSetTheorems, TLAPS

(* The cursor operators stay within the type of cursors.                   *)
LEMMA CursorTypes ==
    ASSUME NEW c \in Cursor, NEW i \in Nat, NEW phase \in Phases
    PROVE  Acknowledged(c, i, phase) \in Cursor
BY DEF Acknowledged, Cursor, Phases, None

LEMMA StartCursorType == \A n \in Nat : StartCursor(n) \in Cursor
BY DEF StartCursor, Cursor, None

LEMMA NewCursorType ==
    ASSUME NEW c \in Cursor, NEW l, NEW e, NEW n \in Nat, n >= c.last
    PROVE  NewCursor(c, l, e, n) \in Cursor
BY DEF NewCursor, Advanced, Holding, Cursor, None

LEMMA NullTypes == /\ NoRow \in Row
                   /\ NoJob \in Job
                   /\ NoCommand \in Command
<1>1. PICK m \in Matches, chat \in Chats : TRUE
  BY KeysAssumption
<1>2. <<m, chat>> \in Keys
  BY DEF Keys
<1>3. QED
  BY <1>2 DEF NoRow, NoJob, NoCommand, Row, Job, Command, StartCursor, Cursor, Phases, None

(* Giving up and acknowledging turn a job into a job.                      *)
LEMMA JobTypes ==
    ASSUME NEW j \in Job
    PROVE  /\ GiveUp(j) \in Job
           /\ NextPc(j) \in Job
           /\ [j EXCEPT !.pc = "fetch"] \in Job
           /\ [j EXCEPT !.pc = "fallback"] \in Job
           /\ \A i \in Nat, phase \in Phases : Ack(j, i, phase) \in Job
<1>1. \A i \in Nat, phase \in Phases : Acknowledged(j.ack, i, phase) \in Cursor
  BY CursorTypes DEF Job
<1>2. QED
  BY <1>1, NullTypes DEF GiveUp, NextPc, Ack, Job

LEMMA FaultTypes ==
    ASSUME NEW f \in Faults
    PROVE  /\ [f EXCEPT !.crash = @ + 1] \in Faults
           /\ [f EXCEPT !.reset = @ + 1] \in Faults
           /\ [f EXCEPT !.ghost = @ + 1] \in Faults
           /\ [f EXCEPT !.db = @ + 1] \in Faults
BY DEF Faults

LEMMA PhaseType == \A k, i : PhaseOf(k, i) \in Phases
BY DEF PhaseOf, Phases

(* A job's fetch: the page, the cursor and the notifications it computes.  *)
LEMMA FetchType ==
    ASSUME TypeOK, NEW k \in Keys, JobFetch(k)
    PROVE  jobs' \in [Keys -> Job]
<1> DEFINE m  == MatchOf(k)
           c  == jobs[k].cur
           hi == IF Len(log[m]) > c.last + PageLimit THEN c.last + PageLimit ELSE Len(log[m])
<1> HIDE DEF m, c, hi
<1>0. m \in Matches /\ c \in Cursor /\ c.last \in Nat
  BY DEF TypeOK, Keys, MatchOf, Job, Cursor, m, c
<1>1. hi \in Int
  BY <1>0, LimitsAssumption DEF TypeOK, hi
<1>2. PICK n \in c.last..hi, muted \in MuteChoices :
         LET todo == Notifications(c, log[m], ended[m], n) IN
         jobs' = [jobs EXCEPT ![k] =
                    [pc      |-> IF todo = {} THEN "write" ELSE "send",
                     cur     |-> c,
                     ack     |-> c,
                     out     |-> NewCursor(c, log[m], ended[m], n),
                     todo    |-> todo,
                     muted   |-> muted,
                     disband |-> StopReason(c, log[m], n)]]
  BY DEF JobFetch, m, c, hi
<1>3. n \in Nat /\ n >= c.last
  BY <1>0, <1>1
<1>4. NewCursor(c, log[m], ended[m], n) \in Cursor
  BY <1>0, <1>3, NewCursorType
<1>5. Notifications(c, log[m], ended[m], n) \in SUBSET Nat
  BY <1>0, <1>3 DEF Notifications
<1>6. muted \in SUBSET {"start", "end"}
  BY <1>2, LimitsAssumption
<1>7. StopReason(c, log[m], n) \in BOOLEAN
  BY DEF StopReason
<1>8. QED
  BY <1>0, <1>2, <1>4, <1>5, <1>6, <1>7 DEF TypeOK, Job

LEMMA TypeInit == Init => TypeOK
BY NullTypes, KeysAssumption DEF Init, NothingYet, TypeOK, Kinds, Row, Cursor, Faults

LEMMA TypeEnvironment == TypeOK /\ Environment => TypeOK'
<1> SUFFICES ASSUME TypeOK, Environment PROVE TypeOK'
  OBVIOUS
<1>1. ASSUME NEW m \in Matches, NEW kind \in Kinds, Publish(m, kind) PROVE TypeOK'
  BY <1>1 DEF Publish, TypeOK, history
<1>2. ASSUME NEW m \in Matches, NEW i \in Games(log[m]), CompleteGame(m, i) PROVE TypeOK'
  BY <1>2 DEF CompleteGame, TypeOK, history, Games
<1>3. ASSUME Tick PROVE TypeOK'
  BY <1>3 DEF Tick, TypeOK, history
<1>4. QED
  BY <1>1, <1>2, <1>3 DEF Environment

LEMMA TypeCommands == TypeOK /\ Commands => TypeOK'
<1> SUFFICES ASSUME TypeOK, Commands PROVE TypeOK'
  OBVIOUS
<1> USE DEF TypeOK, history, env
<1>1. ASSUME NEW c \in Cmds, NEW k \in Keys, StartCheck(c, k) PROVE TypeOK'
  BY <1>1, FaultTypes DEF StartCheck, Command, DbError
<1>2. ASSUME NEW c \in Cmds, StartCount(c) PROVE TypeOK'
  BY <1>2, NullTypes DEF StartCount, Command
<1>3. ASSUME NEW c \in Cmds, StartFetch(c) PROVE TypeOK'
  <2>1. cmd[c] \in Command /\ MatchOf(cmd[c].key) \in Matches
    BY DEF Command, Keys, MatchOf
  <2>2. PICK n \in 0..Len(log[MatchOf(cmd[c].key)]) :
           cmd' = [cmd EXCEPT ![c].pc = "insert", ![c].last = n]
    BY <1>3 DEF StartFetch
  <2>3. n \in Nat
    OBVIOUS
  <2>4. [cmd[c] EXCEPT !.pc = "insert", !.last = n] \in Command
    BY <2>1, <2>3 DEF Command
  <2>5. cmd' \in [Cmds -> Command]
    BY <2>2, <2>4
  <2>6. QED
    BY <1>3, <2>5 DEF StartFetch
<1>4. ASSUME NEW c \in Cmds, StartInsert(c) PROVE TypeOK'
  <2> DEFINE k == cmd[c].key
             n == cmd[c].last
  <2>1. k \in Keys /\ n \in Nat /\ cmd[c] \in Command
    BY DEF Command
  <2>2. Upserted(k, n) \in Cursor
    BY <2>1, StartCursorType DEF Upserted, Row
  <2>3. [active |-> TRUE, expires |-> now + Lifetime, cur |-> Upserted(k, n)] \in Row
    BY <2>2, LimitsAssumption DEF Row
  <2>4. rows' \in [Keys -> Row]
    BY <1>4, <2>1, <2>3 DEF StartInsert
  <2>5. floor' \in [Keys -> Nat] /\ base' \in [Keys -> Nat]
    <3>1. CASE KeepsCursor(k)
      BY <1>4, <3>1 DEF StartInsert
    <3>2. CASE ~KeepsCursor(k)
      BY <1>4, <2>1, <3>2 DEF StartInsert
    <3>3. QED
      BY <3>1, <3>2
  <2>6. clean' \in [Keys -> BOOLEAN] /\ faults' \in Faults
    <3>1. CASE KeepsCursor(k) \/ rows[k] = NoRow
      BY <1>4, <3>1 DEF StartInsert
    <3>2. CASE ~KeepsCursor(k) /\ rows[k] # NoRow
      BY <1>4, <2>1, <3>2, FaultTypes DEF StartInsert
    <3>3. QED
      BY <3>1, <3>2
  <2>7. QED
    BY <1>4, <2>1, <2>4, <2>5, <2>6, NullTypes DEF StartInsert
<1>5. ASSUME NEW c \in Cmds, StartAbort(c) PROVE TypeOK'
  BY <1>5, NullTypes DEF StartAbort
<1>6. ASSUME NEW k \in Keys, Stop(k) PROVE TypeOK'
  BY <1>6 DEF Stop, Row
<1>7. ASSUME NEW chat \in Chats, StopAll(chat) PROVE TypeOK'
  BY <1>7 DEF StopAll, Row
<1>8. QED
  BY <1>1, <1>2, <1>3, <1>4, <1>5, <1>6, <1>7 DEF Commands

LEMMA TypePoller == TypeOK /\ Poller => TypeOK'
<1> SUFFICES ASSUME TypeOK, Poller PROVE TypeOK'
  OBVIOUS
<1> USE DEF TypeOK, history, env
<1>1. ASSUME PollExpire PROVE TypeOK'
  BY <1>1 DEF PollExpire, Row
<1>2. ASSUME PollExpireFails PROVE TypeOK'
  BY <1>2, FaultTypes DEF PollExpireFails, DbError
<1>3. ASSUME PollList PROVE TypeOK'
  <2>1. \A k \in Keys : [NoJob EXCEPT !.pc = "queued", !.cur = rows[k].cur] \in Job
    BY NullTypes DEF Job, Row
  <2>2. QED
    BY <1>3, <2>1, NullTypes DEF PollList
<1>4. ASSUME PollListFails PROVE TypeOK'
  BY <1>4, FaultTypes DEF PollListFails, DbError
<1>5. ASSUME PollEnd PROVE TypeOK'
  BY <1>5 DEF PollEnd
<1>6. ASSUME NEW k \in Keys, JobStart(k) PROVE TypeOK'
  BY <1>6, JobTypes DEF JobStart
<1>7. ASSUME NEW k \in Keys, JobFetch(k) PROVE TypeOK'
  BY <1>7, FetchType DEF JobFetch
<1>8. ASSUME NEW k \in Keys, JobFetchFails(k) PROVE TypeOK'
  BY <1>8, NullTypes DEF JobFetchFails
<1>9. ASSUME NEW k \in Keys, JobMuted(k) PROVE TypeOK'
  <2>1. PICK i \in jobs[k].todo :
           /\ jobs' = [jobs EXCEPT ![k] = Ack(@, i, PhaseOf(k, i))]
           /\ hushed' = [hushed EXCEPT ![k] = @ \union {<<i, PhaseOf(k, i)>>}]
    BY <1>9 DEF JobMuted
  <2>2. i \in Nat /\ PhaseOf(k, i) \in Phases
    BY PhaseType DEF Job
  <2>3. Ack(jobs[k], i, PhaseOf(k, i)) \in Job
    BY <2>2, JobTypes
  <2>4. QED
    BY <1>9, <2>1, <2>2, <2>3 DEF JobMuted
<1>10. ASSUME NEW k \in Keys, NEW i \in Ids(k), Delivered(k, i) PROVE TypeOK'
  <2>1. i \in Nat /\ PhaseOf(k, i) \in Phases
    BY PhaseType DEF Ids
  <2>2. Ack(jobs[k], i, PhaseOf(k, i)) \in Job
    BY <2>1, JobTypes
  <2>3. QED
    BY <1>10, <2>1, <2>2 DEF Delivered, Receive
<1>11. ASSUME NEW k \in Keys, NEW i \in Ids(k), NotDelivered(k, i) PROVE TypeOK'
  BY <1>11, JobTypes DEF NotDelivered, AfterFailure
<1>12. ASSUME NEW k \in Keys, NEW i \in Ids(k), NoSink(k, i) PROVE TypeOK'
  BY <1>12, JobTypes DEF NoSink
<1>13. ASSUME NEW k \in Keys, NEW i \in Ids(k), DeliveredUnconfirmed(k, i) PROVE TypeOK'
  <2>1. i \in Nat /\ PhaseOf(k, i) \in Phases
    BY PhaseType DEF Ids
  <2>2. jobs' \in [Keys -> Job]
    BY <1>13, JobTypes DEF DeliveredUnconfirmed, AfterFailure
  <2>3. seen' \in [Keys -> SUBSET (Nat \X Phases)] /\ repeated' \in [Keys -> BOOLEAN]
    BY <1>13, <2>1 DEF DeliveredUnconfirmed, Receive
  <2>4. clean' \in [Keys -> BOOLEAN] /\ faults' \in Faults
    BY <1>13, FaultTypes DEF DeliveredUnconfirmed
  <2>5. QED
    BY <1>13, <2>2, <2>3, <2>4 DEF DeliveredUnconfirmed
<1>14. ASSUME NEW k \in Keys, WriteProgress(k) PROVE TypeOK'
  <2>1. jobs[k].out \in Cursor
    BY DEF Job
  <2>2. [rows[k] EXCEPT !.cur = jobs[k].out] \in Row
    BY <2>1 DEF Row
  <2>3. QED
    BY <1>14, <2>2, JobTypes DEF WriteProgress
<1>15. ASSUME NEW k \in Keys, WriteProgressFails(k) PROVE TypeOK'
  BY <1>15, JobTypes, FaultTypes DEF WriteProgressFails, DbError
<1>16. ASSUME NEW k \in Keys, StopDisbanded(k) PROVE TypeOK'
  BY <1>16, NullTypes DEF StopDisbanded, Row
<1>17. ASSUME NEW k \in Keys, StopDisbandedFails(k) PROVE TypeOK'
  BY <1>17, NullTypes, FaultTypes DEF StopDisbandedFails, DbError
<1>18. QED
  BY <1>1, <1>2, <1>3, <1>4, <1>5, <1>6, <1>7, <1>8, <1>9, <1>10, <1>11, <1>13,
     <1>14, <1>15, <1>16, <1>17, <1>12 DEF Poller, JobStep

LEMMA TypeCrash == TypeOK /\ Crash => TypeOK'
<1> SUFFICES ASSUME TypeOK, Crash PROVE TypeOK'
  OBVIOUS
<1>1. clean' \in [Keys -> BOOLEAN]
  BY DEF Crash
<1>2. faults' \in Faults
  BY FaultTypes DEF Crash, TypeOK
<1>3. QED
  BY <1>1, <1>2, NullTypes DEF TypeOK, Crash, env

LEMMA TypeNext == TypeOK /\ [Next]_vars => TypeOK'
<1>1. TypeOK /\ UNCHANGED vars => TypeOK'
  BY DEF TypeOK, vars
<1>2. QED
  BY <1>1, TypeEnvironment, TypeCommands, TypePoller, TypeCrash DEF Next

(* Every reachable state is well typed: the rows hold a cursor, jobs and   *)
(* handlers are in one of their stages, whatever the page size and however *)
(* many matches, chats and handlers there are.                             *)
THEOREM TypeCorrect == Spec => []TypeOK
<1>1. QED
  BY TypeInit, TypeNext, PTL DEF Spec

------------------------------------------------------------------------------
(* The inductive invariant behind NothingSkipped.                          *)

(* The operators below take the values a key's state is made of: its log   *)
(* of events, its floor, what its chat was told and what was switched off. *)

(* Every event up to n is in the log and settled, or exempt.               *)
Safe(events, from, told, off, n) ==
    /\ n \in Nat
    /\ n <= Len(events)
    /\ \A i \in (from + 1)..n : Settles(events[i], i, told, off)

(* A job that is sending: up to the cursor of the output every event is    *)
(* settled or on the list; what is on the list is within that cursor,      *)
(* except the start of the game the output holds at.                       *)
SendingIsSafe(events, from, told, off, j) ==
    /\ Safe(events, from, told, off, j.ack.last)
    /\ j.out.last <= Len(events)
    /\ j.todo \subseteq 1..Len(events)
    /\ \A i \in (from + 1)..j.out.last : Settles(events[i], i, told, off) \/ i \in j.todo
    /\ \A i \in j.todo : i <= j.out.last <=> i # j.out.pending

JobIsSafe(events, from, told, off, j) ==
    /\ j.pc # "none" => Safe(events, from, told, off, j.cur.last)
    /\ j.pc \in {"send", "fallback"} => SendingIsSafe(events, from, told, off, j)
    /\ j.pc \in {"write", "stop"} => Safe(events, from, told, off, j.out.last)

SafetyInv ==
    /\ \A k \in Keys :
         /\ Safe(log[MatchOf(k)], floor[k], seen[k], hushed[k], rows[k].cur.last)
         /\ JobIsSafe(log[MatchOf(k)], floor[k], seen[k], hushed[k], jobs[k])
    /\ \A c \in Cmds : cmd[c].pc = "insert" =>
         cmd[c].last <= Len(log[MatchOf(cmd[c].key)])

(* What is settled stays settled when more is told or switched off.        *)
LEMMA SettlesGrows ==
    ASSUME NEW kind, NEW i, NEW t1, NEW t2, NEW o1, NEW o2,
           t1 \subseteq t2, o1 \subseteq o2, Settles(kind, i, t1, o1)
    PROVE  Settles(kind, i, t2, o2)
<1>1. CASE kind = "quiet"
  BY <1>1 DEF Settles
<1>2. CASE kind = "game"
  BY <1>2 DEF Settles
<1>3. CASE kind # "quiet" /\ kind # "game"
  BY <1>3 DEF Settles
<1>4. QED
  BY <1>1, <1>2, <1>3

(* The later state of a key: its log is an extension, the rest has grown.  *)
Extends(e1, f1, t1, o1, e2, f2, t2, o2) ==
    /\ e1 \in Seq(Kinds) /\ e2 \in Seq(Kinds)
    /\ Len(e1) <= Len(e2)
    /\ \A i \in 1..Len(e1) : e2[i] = e1[i]
    /\ f1 \in Nat /\ f2 \in Nat /\ f1 <= f2
    /\ t1 \subseteq t2
    /\ o1 \subseteq o2

LEMMA SafeGrows ==
    ASSUME NEW e1, NEW f1, NEW t1, NEW o1, NEW e2, NEW f2, NEW t2, NEW o2,
           Extends(e1, f1, t1, o1, e2, f2, t2, o2), NEW n,
           Safe(e1, f1, t1, o1, n)
    PROVE  Safe(e2, f2, t2, o2, n)
<1>1. n \in Nat /\ n <= Len(e2)
  BY DEF Safe, Extends
<1>2. ASSUME NEW i \in (f2 + 1)..n PROVE Settles(e2[i], i, t2, o2)
  <2>1. i \in (f1 + 1)..n /\ i \in 1..Len(e1)
    BY DEF Safe, Extends
  <2>2. Settles(e1[i], i, t1, o1) /\ e1[i] = e2[i]
    BY <2>1 DEF Safe, Extends
  <2>3. QED
    BY <2>2, SettlesGrows DEF Extends
<1>3. QED
  BY <1>1, <1>2 DEF Safe

LEMMA JobGrows ==
    ASSUME NEW e1, NEW f1, NEW t1, NEW o1, NEW e2, NEW f2, NEW t2, NEW o2,
           Extends(e1, f1, t1, o1, e2, f2, t2, o2), NEW j \in Job,
           JobIsSafe(e1, f1, t1, o1, j)
    PROVE  JobIsSafe(e2, f2, t2, o2, j)
<1>1. ASSUME j.pc \in {"send", "fallback"} PROVE SendingIsSafe(e2, f2, t2, o2, j)
  <2>1. SendingIsSafe(e1, f1, t1, o1, j)
    BY <1>1 DEF JobIsSafe
  <2>2. Safe(e2, f2, t2, o2, j.ack.last)
    BY <2>1, SafeGrows DEF SendingIsSafe
  <2>3. j.out.last \in Nat /\ j.out.last <= Len(e2) /\ j.todo \subseteq 1..Len(e2)
    BY <2>1 DEF SendingIsSafe, Extends, Job, Cursor
  <2>4. ASSUME NEW i \in (f2 + 1)..j.out.last, i \notin j.todo
        PROVE  Settles(e2[i], i, t2, o2)
    <3>1. i \in (f1 + 1)..j.out.last /\ i \in 1..Len(e1)
      BY <2>1, <2>3 DEF SendingIsSafe, Extends
    <3>2. Settles(e1[i], i, t1, o1) /\ e1[i] = e2[i]
      BY <2>1, <2>4, <3>1 DEF SendingIsSafe, Extends
    <3>3. QED
      BY <3>2, SettlesGrows DEF Extends
  <2>5. QED
    BY <2>1, <2>2, <2>3, <2>4 DEF SendingIsSafe
<1>2. QED
  BY <1>1, SafeGrows DEF JobIsSafe

(* What a fetch computes from a safe cursor is a safe job: each event of   *)
(* the page that counts as consumed is quiet or on the list.               *)
LEMMA FetchIsSafe ==
    ASSUME NEW e \in Seq(Kinds), NEW d, NEW f \in Nat, NEW t, NEW o, NEW c \in Cursor,
           Safe(e, f, t, o, c.last),
           NEW n \in Nat, c.last <= n, n <= Len(e),
           NEW muted, NEW disband
    PROVE  LET todo == Notifications(c, e, d, n) IN
           JobIsSafe(e, f, t, o,
              [pc |-> IF todo = {} THEN "write" ELSE "send", cur |-> c, ack |-> c,
               out |-> NewCursor(c, e, d, n), todo |-> todo,
               muted |-> muted, disband |-> disband])
<1> DEFINE todo == Notifications(c, e, d, n)
           out  == NewCursor(c, e, d, n)
           done == Advanced(c, e, d, n)
<1>1. c.last \in Nat /\ c.pending \in Nat
  BY DEF Cursor
<1>2. done \in Nat /\ done <= n /\ c.last <= done
  BY <1>1 DEF Advanced, Holding
<1>3. out.last = done
  BY DEF NewCursor
<1>4. \A i \in (f + 1)..done : Settles(e[i], i, t, o) \/ i \in todo
  <2> SUFFICES ASSUME NEW i \in (f + 1)..done, i \notin todo
               PROVE  Settles(e[i], i, t, o)
    OBVIOUS
  <2>1. CASE i <= c.last
    BY <2>1, <1>1 DEF Safe
  <2>2. CASE i > c.last
    <3>1. i \in (c.last + 1)..n
      BY <2>2, <1>1, <1>2
    <3>2. ~(i = n /\ Holding(c, e, d, n))
      BY <1>1 DEF Advanced
    <3>3. e[i] = "quiet"
      BY <3>1, <3>2 DEF Notifications
    <3>4. QED
      BY <3>3 DEF Settles
  <2>3. QED
    BY <2>1, <2>2, <1>1
<1>5. todo \subseteq 1..Len(e)
  BY <1>1 DEF Notifications
<1>6. \A i \in todo : i <= out.last <=> i # out.pending
  <2> SUFFICES ASSUME NEW i \in todo PROVE i <= done <=> i # out.pending
    BY <1>3
  <2>1. i \in (c.last + 1)..n
    BY DEF Notifications
  <2>2. CASE Holding(c, e, d, n)
    BY <2>1, <2>2, <1>1 DEF Advanced, NewCursor
  <2>3. CASE ~Holding(c, e, d, n)
    BY <2>1, <2>3, <1>1 DEF Advanced, NewCursor, None
  <2>4. QED
    BY <2>2, <2>3
<1>7. Safe(e, f, t, o, done) \/ todo # {}
  BY <1>2, <1>4 DEF Safe
<1> HIDE DEF todo, out, done
<1>8. SendingIsSafe(e, f, t, o,
        [pc |-> "send", cur |-> c, ack |-> c, out |-> out, todo |-> todo,
         muted |-> muted, disband |-> disband])
  BY <1>2, <1>3, <1>4, <1>5, <1>6 DEF SendingIsSafe
<1>9. QED
  BY <1>3, <1>7, <1>8 DEF JobIsSafe, SendingIsSafe, todo, out

(* Acknowledging the next notification of a safe job, once it is told or   *)
(* switched off, leaves a safe job.                                        *)
LEMMA AckIsSafe ==
    ASSUME NEW e \in Seq(Kinds), NEW f \in Nat, NEW t, NEW o, NEW j \in Job,
           JobIsSafe(e, f, t, o, j), j.pc \in {"send", "fallback"},
           NEW i \in j.todo, \A h \in j.todo : i <= h,
           NEW phase,
           phase = IF i = j.out.pending THEN "start"
                   ELSE IF e[i] = "game" THEN "end" ELSE "text",
           <<i, phase>> \in t \/ (<<i, phase>> \in o /\ phase # "text")
    PROVE  JobIsSafe(e, f, t, o, Ack(j, i, phase))
<1> DEFINE a == Ack(j, i, phase)
<1>1. SendingIsSafe(e, f, t, o, j) /\ Safe(e, f, t, o, j.cur.last)
  BY DEF JobIsSafe
<1>2. /\ j.out.last \in Nat /\ j.ack.last \in Nat /\ j.ack \in Cursor /\ i \in Nat
      /\ j.todo \subseteq Nat
  BY DEF Job, Cursor
<1>3. phase \in Phases /\ (phase # "start" => Settles(e[i], i, t, o))
  BY DEF Phases, Settles
<1>4. /\ a.cur = j.cur /\ a.out = j.out /\ a.todo = j.todo \ {i}
      /\ a.ack = Acknowledged(j.ack, i, phase)
      /\ a.pc = IF j.todo = {i} THEN "write" ELSE "send"
  BY DEF Ack, Job
<1>5. \A h \in (f + 1)..j.out.last : Settles(e[h], h, t, o) \/ h \in a.todo
  <2> SUFFICES ASSUME NEW h \in (f + 1)..j.out.last, h \notin a.todo
               PROVE  Settles(e[h], h, t, o)
    OBVIOUS
  <2>1. CASE h = i
    <3>1. phase # "start"
      BY <2>1, <1>1, <1>2 DEF SendingIsSafe
    <3>2. QED
      BY <2>1, <3>1, <1>3
  <2>2. CASE h # i
    BY <2>2, <1>1, <1>4 DEF SendingIsSafe
  <2>3. QED
    BY <2>1, <2>2
<1>6. Safe(e, f, t, o, a.ack.last)
  <2>1. CASE phase = "start"
    <3>1. Acknowledged(j.ack, i, phase) = [j.ack EXCEPT !.notified = i, !.pending = i]
      BY <2>1 DEF Acknowledged
    <3>2. Acknowledged(j.ack, i, phase).last = j.ack.last
      BY <3>1, <1>2 DEF Cursor
    <3>3. QED
      BY <3>2, <1>1, <1>4 DEF SendingIsSafe
  <2>2. CASE phase # "start"
    <3>1. a.ack.last = i
      <4>1. CASE phase = "text"
        BY <4>1, <1>2, <1>4 DEF Acknowledged, Cursor
      <4>2. CASE phase = "end"
        BY <4>2, <1>2, <1>4 DEF Acknowledged, Cursor
      <4>3. QED
        BY <4>1, <4>2, <2>2, <1>3 DEF Phases
    <3>2. i <= j.out.last /\ i <= Len(e)
      BY <2>2, <1>1 DEF SendingIsSafe
    <3>3. \A h \in (f + 1)..i : Settles(e[h], h, t, o)
      <4> SUFFICES ASSUME NEW h \in (f + 1)..i PROVE Settles(e[h], h, t, o)
        OBVIOUS
      <4>1. CASE h = i
        BY <4>1, <2>2, <1>3
      <4>2. CASE h # i
        BY <4>2, <3>2, <1>1, <1>2 DEF SendingIsSafe
      <4>3. QED
        BY <4>1, <4>2
    <3>4. QED
      BY <3>1, <3>2, <3>3, <1>2 DEF Safe
  <2>3. QED
    BY <2>1, <2>2
<1>7. SendingIsSafe(e, f, t, o, a)
  BY <1>1, <1>4, <1>5, <1>6 DEF SendingIsSafe
<1>8. a.pc = "write" => Safe(e, f, t, o, a.out.last)
  BY <1>1, <1>2, <1>4, <1>5 DEF SendingIsSafe, Safe
<1>9. QED
  BY <1>1, <1>4, <1>7, <1>8 DEF JobIsSafe

(* So do giving up, falling back to a text, and the end of a job.          *)
LEMMA OtherJobsAreSafe ==
    ASSUME NEW e \in Seq(Kinds), NEW f \in Nat, NEW t, NEW o, NEW j \in Job,
           JobIsSafe(e, f, t, o, j)
    PROVE  /\ j.pc \in {"send", "fallback"} =>
                /\ JobIsSafe(e, f, t, o, GiveUp(j))
                /\ JobIsSafe(e, f, t, o, [j EXCEPT !.pc = "fallback"])
           /\ j.pc \in {"write", "stop"} => JobIsSafe(e, f, t, o, NextPc(j))
           /\ j.pc = "queued" => JobIsSafe(e, f, t, o, [j EXCEPT !.pc = "fetch"])
           /\ JobIsSafe(e, f, t, o, NoJob)
<1>1. j.pc \in {"send", "fallback"} =>
         /\ JobIsSafe(e, f, t, o, GiveUp(j))
         /\ JobIsSafe(e, f, t, o, [j EXCEPT !.pc = "fallback"])
  BY DEF JobIsSafe, SendingIsSafe, GiveUp, Job
<1>2. j.pc \in {"write", "stop"} => JobIsSafe(e, f, t, o, NextPc(j))
  BY DEF JobIsSafe, NextPc, NoJob, Job
<1>3. j.pc = "queued" => JobIsSafe(e, f, t, o, [j EXCEPT !.pc = "fetch"])
  BY DEF JobIsSafe, Job
<1>4. JobIsSafe(e, f, t, o, NoJob)
  BY DEF JobIsSafe, NoJob
<1>5. QED
  BY <1>1, <1>2, <1>3, <1>4

(* A key's log, floor and announcements only grow.                         *)
Grows(k) == Extends(log[MatchOf(k)], floor[k], seen[k], hushed[k],
                    log'[MatchOf(k)], floor'[k], seen'[k], hushed'[k])

LEMMA UnchangedGrows ==
    ASSUME TypeOK, NEW k \in Keys, log' = log, floor' = floor, seen' = seen, hushed' = hushed
    PROVE  Grows(k)
<1>1. MatchOf(k) \in Matches
  BY DEF Keys, MatchOf
<1>2. QED
  BY <1>1 DEF TypeOK, Grows, Extends

LEMMA PublishGrows ==
    ASSUME TypeOK, TypeOK', NEW k \in Keys, NEW m \in Matches, NEW kind \in Kinds,
           Publish(m, kind)
    PROVE  Grows(k)
<1>1. MatchOf(k) \in Matches
  BY DEF Keys, MatchOf
<1>2. log[m] \in Seq(Kinds) /\ log[MatchOf(k)] \in Seq(Kinds) /\ log'[MatchOf(k)] \in Seq(Kinds)
  BY <1>1 DEF TypeOK
<1>3. \/ log'[MatchOf(k)] = log[MatchOf(k)]
      \/ log'[MatchOf(k)] = Append(log[MatchOf(k)], kind)
  BY <1>1 DEF TypeOK, Publish
<1>4. /\ Len(log[MatchOf(k)]) <= Len(log'[MatchOf(k)])
      /\ \A i \in 1..Len(log[MatchOf(k)]) : log'[MatchOf(k)][i] = log[MatchOf(k)][i]
  BY <1>2, <1>3
<1>5. QED
  BY <1>2, <1>4 DEF Publish, Grows, Extends, history, TypeOK

LEMMA InsertGrows ==
    ASSUME TypeOK, NEW k \in Keys, NEW c \in Cmds, StartInsert(c)
    PROVE  /\ Grows(k)
           /\ ~KeepsCursor(cmd[c].key) => cmd[c].last <= floor'[cmd[c].key]
<1>1. MatchOf(k) \in Matches /\ cmd[c].last \in Nat /\ cmd[c].key \in Keys
  BY DEF Keys, MatchOf, TypeOK, Command
<1>2. log' = log /\ seen' = seen /\ hushed' = hushed
  BY DEF StartInsert, env
<1>3. CASE KeepsCursor(cmd[c].key)
  BY <1>2, <1>3, UnchangedGrows DEF StartInsert
<1>4. CASE ~KeepsCursor(cmd[c].key)
  <2>1. floor' = [floor EXCEPT ![cmd[c].key] = IF cmd[c].last > @ THEN cmd[c].last ELSE @]
    BY <1>4 DEF StartInsert
  <2>2. /\ floor[k] \in Nat /\ floor'[k] \in Nat /\ floor[k] <= floor'[k]
        /\ cmd[c].last <= floor'[cmd[c].key]
    BY <2>1, <1>1 DEF TypeOK
  <2>3. QED
    BY <1>1, <1>2, <2>2 DEF Grows, Extends, TypeOK
<1>5. QED
  BY <1>3, <1>4

LEMMA ToldGrows ==
    ASSUME TypeOK, NEW k \in Keys, NEW q \in Keys, NEW x,
           log' = log, floor' = floor,
           \/ seen' = [seen EXCEPT ![q] = @ \union {x}] /\ hushed' = hushed
           \/ hushed' = [hushed EXCEPT ![q] = @ \union {x}] /\ seen' = seen
    PROVE  Grows(k)
<1>1. MatchOf(k) \in Matches
  BY DEF Keys, MatchOf
<1>2. seen[k] \subseteq seen'[k] /\ hushed[k] \subseteq hushed'[k]
  BY DEF TypeOK
<1>3. QED
  BY <1>1, <1>2 DEF Grows, Extends, TypeOK

(* The values a key had before a step are still safe after it.             *)
LEMMA StillSafe ==
    ASSUME TypeOK, SafetyInv, NEW k \in Keys, Grows(k)
    PROVE  /\ Safe(log'[MatchOf(k)], floor'[k], seen'[k], hushed'[k], rows[k].cur.last)
           /\ JobIsSafe(log'[MatchOf(k)], floor'[k], seen'[k], hushed'[k], jobs[k])
<1>1. jobs[k] \in Job
  BY DEF TypeOK
<1>2. QED
  BY <1>1, SafeGrows, JobGrows DEF SafetyInv, Grows

(* What a step must leave: every row's cursor safe, every job safe, every  *)
(* handler's cursor within the log.                                        *)
LEMMA SafetyFromParts ==
    ASSUME \A k \in Keys :
              Safe(log'[MatchOf(k)], floor'[k], seen'[k], hushed'[k], rows'[k].cur.last),
           \A k \in Keys :
              JobIsSafe(log'[MatchOf(k)], floor'[k], seen'[k], hushed'[k], jobs'[k]),
           \A c \in Cmds : cmd'[c].pc = "insert" =>
              cmd'[c].last <= Len(log'[MatchOf(cmd'[c].key)])
    PROVE  SafetyInv'
BY DEF SafetyInv, MatchOf

LEMMA CommandsStillSafe ==
    ASSUME TypeOK, SafetyInv, \A k \in Keys : Grows(k), NEW c \in Cmds, cmd'[c] = cmd[c]
    PROVE  cmd'[c].pc = "insert" => cmd'[c].last <= Len(log'[MatchOf(cmd'[c].key)])
<1>1. cmd[c].key \in Keys /\ cmd[c].last \in Nat
  BY DEF TypeOK, Command
<1>2. QED
  BY <1>1 DEF SafetyInv, Grows, Extends

(* A step that leaves rows' cursors, jobs and handlers alone.              *)
LEMMA QuietStep ==
    ASSUME TypeOK, SafetyInv, \A k \in Keys : Grows(k),
           \A k \in Keys : rows'[k].cur = rows[k].cur,
           jobs' = jobs, cmd' = cmd
    PROVE  SafetyInv'
<1>1. \A k \in Keys : Safe(log'[MatchOf(k)], floor'[k], seen'[k], hushed'[k], rows'[k].cur.last)
  BY StillSafe
<1>2. \A k \in Keys : JobIsSafe(log'[MatchOf(k)], floor'[k], seen'[k], hushed'[k], jobs'[k])
  BY StillSafe
<1>3. QED
  BY <1>1, <1>2, CommandsStillSafe, SafetyFromParts

(* A step of the job of one key that leaves rows' cursors and handlers     *)
(* alone.                                                                  *)
LEMMA JobOnlyStep ==
    ASSUME TypeOK, SafetyInv, \A k \in Keys : Grows(k),
           \A k \in Keys : rows'[k].cur = rows[k].cur, cmd' = cmd,
           NEW q \in Keys, NEW j, jobs' = [jobs EXCEPT ![q] = j],
           JobIsSafe(log'[MatchOf(q)], floor'[q], seen'[q], hushed'[q], j)
    PROVE  SafetyInv'
<1>1. \A k \in Keys : Safe(log'[MatchOf(k)], floor'[k], seen'[k], hushed'[k], rows'[k].cur.last)
  BY StillSafe
<1>2. ASSUME NEW k \in Keys
      PROVE  JobIsSafe(log'[MatchOf(k)], floor'[k], seen'[k], hushed'[k], jobs'[k])
  <2>1. CASE k = q
    BY <2>1 DEF TypeOK
  <2>2. CASE k # q
    BY <2>2, StillSafe DEF TypeOK
  <2>3. QED
    BY <2>1, <2>2
<1>3. QED
  BY <1>1, <1>2, CommandsStillSafe, SafetyFromParts

LEMMA EnvironmentSafe == TypeOK /\ TypeOK' /\ SafetyInv /\ Environment => SafetyInv'
<1> SUFFICES ASSUME TypeOK, TypeOK', SafetyInv, Environment PROVE SafetyInv'
  OBVIOUS
<1>1. ASSUME NEW m \in Matches, NEW kind \in Kinds, Publish(m, kind) PROVE SafetyInv'
  BY <1>1, PublishGrows, QuietStep DEF Publish
<1>2. ASSUME NEW m \in Matches, NEW i \in Games(log[m]), CompleteGame(m, i) PROVE SafetyInv'
  BY <1>2, UnchangedGrows, QuietStep DEF CompleteGame, history
<1>3. ASSUME Tick PROVE SafetyInv'
  BY <1>3, UnchangedGrows, QuietStep DEF Tick, history
<1>4. QED
  BY <1>1, <1>2, <1>3 DEF Environment

(* A step that changes handlers only, and may count a fault.               *)
LEMMA HandlerStep ==
    ASSUME TypeOK, SafetyInv, rows' = rows, jobs' = jobs,
           UNCHANGED <<env, seen, hushed, floor, base, clean, repeated>>,
           NEW c \in Cmds, NEW h, cmd' = [cmd EXCEPT ![c] = h],
           h.pc = "insert" => h.last <= Len(log[MatchOf(h.key)])
    PROVE  SafetyInv'
<1>1. \A k \in Keys : Grows(k)
  BY UnchangedGrows DEF env, history
<1>2. ASSUME NEW d \in Cmds
      PROVE  cmd'[d].pc = "insert" => cmd'[d].last <= Len(log'[MatchOf(cmd'[d].key)])
  <2>1. CASE d = c
    BY <2>1 DEF TypeOK, env
  <2>2. CASE d # c
    BY <2>2, <1>1, CommandsStillSafe DEF TypeOK
  <2>3. QED
    BY <2>1, <2>2
<1>3. QED
  BY <1>1, <1>2, StillSafe, SafetyFromParts

LEMMA CommandsSafe == TypeOK /\ TypeOK' /\ SafetyInv /\ Commands => SafetyInv'
<1> SUFFICES ASSUME TypeOK, TypeOK', SafetyInv, Commands PROVE SafetyInv'
  OBVIOUS
<1>1. ASSUME NEW c \in Cmds, NEW k \in Keys, StartCheck(c, k) PROVE SafetyInv'
  BY <1>1, HandlerStep DEF StartCheck, DbError, history
<1>2. ASSUME NEW c \in Cmds, StartCount(c) PROVE SafetyInv'
  <2>1. [cmd[c] EXCEPT !.pc = "fetch"].pc # "insert" /\ NoCommand.pc # "insert"
    BY DEF NoCommand, TypeOK, Command
  <2>2. CASE BelowLimit(cmd[c].key)
    BY <1>2, <2>1, <2>2, HandlerStep DEF StartCount, history
  <2>3. CASE ~BelowLimit(cmd[c].key)
    BY <1>2, <2>1, <2>3, HandlerStep DEF StartCount, history
  <2>4. QED
    BY <2>2, <2>3
<1>3. ASSUME NEW c \in Cmds, StartFetch(c) PROVE SafetyInv'
  <2>1. cmd[c] \in Command /\ MatchOf(cmd[c].key) \in Matches
    BY DEF TypeOK, Command, Keys, MatchOf
  <2>2. PICK n \in 0..Len(log[MatchOf(cmd[c].key)]) :
           cmd' = [cmd EXCEPT ![c].pc = "insert", ![c].last = n]
    BY <1>3 DEF StartFetch
  <2>3. cmd' = [cmd EXCEPT ![c] = [cmd[c] EXCEPT !.pc = "insert", !.last = n]]
    BY <2>2 DEF TypeOK
  <2>4. LET h == [cmd[c] EXCEPT !.pc = "insert", !.last = n] IN
        h.last = n /\ h.key = cmd[c].key
    BY <2>1 DEF Command
  <2>5. n <= Len(log[MatchOf(cmd[c].key)])
    BY <2>1 DEF TypeOK
  <2>6. QED
    BY <1>3, <2>3, <2>4, <2>5, HandlerStep DEF StartFetch, history
<1>4. ASSUME NEW c \in Cmds, StartInsert(c) PROVE SafetyInv'
  <2> DEFINE q == cmd[c].key
             n == cmd[c].last
  <2>1. q \in Keys /\ n \in Nat /\ n <= Len(log[MatchOf(q)])
    BY <1>4 DEF TypeOK, Command, SafetyInv, StartInsert
  <2>2. \A k \in Keys : Grows(k)
    BY <1>4, InsertGrows
  <2>3. log' = log /\ jobs' = jobs /\ cmd' = [cmd EXCEPT ![c] = NoCommand]
    BY <1>4 DEF StartInsert, env
  <2>4. ASSUME NEW k \in Keys
        PROVE  Safe(log'[MatchOf(k)], floor'[k], seen'[k], hushed'[k], rows'[k].cur.last)
    <3>1. CASE rows'[k].cur = rows[k].cur
      BY <3>1, <2>2, StillSafe
    <3>2. CASE rows'[k].cur # rows[k].cur
      <4>1. k = q /\ ~KeepsCursor(q) /\ rows'[k].cur = StartCursor(n)
        BY <1>4, <3>2, <2>1 DEF StartInsert, Upserted, TypeOK
      <4>2. rows'[k].cur.last = n /\ n <= floor'[k] /\ floor'[k] \in Nat
        BY <1>4, <4>1, <2>1, InsertGrows DEF StartCursor, TypeOK
      <4>3. QED
        BY <4>1, <4>2, <2>1, <2>3 DEF Safe
    <3>3. QED
      BY <3>1, <3>2
  <2>5. ASSUME NEW d \in Cmds
        PROVE  cmd'[d].pc = "insert" => cmd'[d].last <= Len(log'[MatchOf(cmd'[d].key)])
    <3>1. CASE d = c
      BY <3>1, <2>3 DEF TypeOK, NoCommand
    <3>2. CASE d # c
      BY <3>2, <2>2, <2>3, CommandsStillSafe DEF TypeOK
    <3>3. QED
      BY <3>1, <3>2
  <2>6. QED
    BY <2>2, <2>3, <2>4, <2>5, StillSafe, SafetyFromParts
<1>5. ASSUME NEW c \in Cmds, StartAbort(c) PROVE SafetyInv'
  BY <1>5, HandlerStep DEF StartAbort, NoCommand, history
<1>6. ASSUME NEW k \in Keys, Stop(k) PROVE SafetyInv'
  <2>1. \A q \in Keys : rows'[q].cur = rows[q].cur
    BY <1>6 DEF Stop, TypeOK, Row
  <2>2. QED
    BY <1>6, <2>1, UnchangedGrows, QuietStep DEF Stop, env, history
<1>7. ASSUME NEW chat \in Chats, StopAll(chat) PROVE SafetyInv'
  <2>1. \A q \in Keys : rows'[q].cur = rows[q].cur
    BY <1>7 DEF StopAll, TypeOK, Row
  <2>2. QED
    BY <1>7, <2>1, UnchangedGrows, QuietStep DEF StopAll, env, history
<1>8. QED
  BY <1>1, <1>2, <1>3, <1>4, <1>5, <1>6, <1>7 DEF Commands

LEMMA LoopSafe ==
    ASSUME TypeOK, SafetyInv,
           PollExpire \/ PollExpireFails \/ PollList \/ PollListFails \/ PollEnd \/ Crash
    PROVE  SafetyInv'
<1> USE DEF env, history
<1>1. CASE PollExpire
  <2>1. \A q \in Keys : rows'[q].cur = rows[q].cur
    BY <1>1 DEF PollExpire, TypeOK, Row
  <2>2. QED
    BY <1>1, <2>1, UnchangedGrows, QuietStep DEF PollExpire
<1>2. CASE PollExpireFails
  BY <1>2, UnchangedGrows, QuietStep DEF PollExpireFails, DbError
<1>3. CASE PollListFails
  BY <1>3, UnchangedGrows, QuietStep DEF PollListFails, DbError
<1>4. CASE PollEnd
  BY <1>4, UnchangedGrows, QuietStep DEF PollEnd
<1>5. CASE PollList
  <2>1. \A k \in Keys : Grows(k)
    BY <1>5, UnchangedGrows DEF PollList
  <2>2. ASSUME NEW k \in Keys
        PROVE  JobIsSafe(log'[MatchOf(k)], floor'[k], seen'[k], hushed'[k], jobs'[k])
    <3>1. Safe(log'[MatchOf(k)], floor'[k], seen'[k], hushed'[k], rows[k].cur.last)
      BY <2>1, StillSafe
    <3>2. \/ jobs'[k] = NoJob
          \/ jobs'[k] = [NoJob EXCEPT !.pc = "queued", !.cur = rows[k].cur]
      BY <1>5 DEF PollList
    <3>3. CASE jobs'[k] = NoJob
      BY <3>3 DEF JobIsSafe, NoJob
    <3>4. CASE jobs'[k] = [NoJob EXCEPT !.pc = "queued", !.cur = rows[k].cur]
      <4>1. jobs'[k].pc = "queued" /\ jobs'[k].cur = rows[k].cur
        BY <3>4 DEF NoJob
      <4>2. QED
        BY <4>1, <3>1 DEF JobIsSafe
    <3>5. QED
      BY <3>2, <3>3, <3>4
  <2>3. QED
    BY <1>5, <2>1, <2>2, StillSafe, CommandsStillSafe, SafetyFromParts DEF PollList
<1>6. CASE Crash
  <2>1. \A k \in Keys : Grows(k)
    BY <1>6, UnchangedGrows DEF Crash
  <2>2. ASSUME NEW k \in Keys
        PROVE  JobIsSafe(log'[MatchOf(k)], floor'[k], seen'[k], hushed'[k], jobs'[k])
    BY <1>6 DEF Crash, JobIsSafe, NoJob
  <2>3. \A c \in Cmds : cmd'[c].pc # "insert"
    BY <1>6 DEF Crash, NoCommand
  <2>4. QED
    BY <1>6, <2>1, <2>2, <2>3, StillSafe, SafetyFromParts DEF Crash
<1>7. QED
  BY <1>1, <1>2, <1>3, <1>4, <1>5, <1>6

(* A page ends within the log.                                             *)
LEMMA PageEnds ==
    ASSUME NEW len \in Nat, NEW from \in Nat
    PROVE  /\ (IF len > from + PageLimit THEN from + PageLimit ELSE len) \in Int
           /\ (IF len > from + PageLimit THEN from + PageLimit ELSE len) <= len
<1>1. CASE len > from + PageLimit
  BY <1>1, LimitsAssumption
<1>2. CASE ~(len > from + PageLimit)
  BY <1>2, LimitsAssumption
<1>3. QED
  BY <1>1, <1>2

LEMMA FetchStepSafe ==
    ASSUME TypeOK, SafetyInv, NEW k \in Keys, JobFetch(k)
    PROVE  SafetyInv'
<1> DEFINE e  == log[MatchOf(k)]
           d  == ended[MatchOf(k)]
           c  == jobs[k].cur
           hi == IF Len(e) > c.last + PageLimit THEN c.last + PageLimit ELSE Len(e)
           J(n, muted) == [pc |-> IF Notifications(c, e, d, n) = {} THEN "write" ELSE "send",
                           cur |-> c, ack |-> c, out |-> NewCursor(c, e, d, n),
                           todo |-> Notifications(c, e, d, n), muted |-> muted,
                           disband |-> StopReason(c, e, n)]
<1>1. \A q \in Keys : Grows(q)
  BY UnchangedGrows DEF JobFetch, env, history
<1>2. PICK n \in c.last..hi, muted \in MuteChoices : jobs' = [jobs EXCEPT ![k] = J(n, muted)]
  BY DEF JobFetch
<1>3. e \in Seq(Kinds) /\ c \in Cursor /\ c.last \in Nat /\ floor[k] \in Nat
  BY DEF TypeOK, Keys, MatchOf, Job, Cursor
<1>4. Safe(e, floor[k], seen[k], hushed[k], c.last)
  BY DEF JobFetch, SafetyInv, JobIsSafe
<1>5. n \in Nat /\ c.last <= n /\ n <= Len(e)
  <2> HIDE DEF e, c
  <2>1. Len(e) \in Nat /\ c.last <= Len(e)
    BY <1>3, <1>4 DEF Safe
  <2>2. hi \in Int /\ hi <= Len(e)
    BY <2>1, <1>3, PageEnds
  <2>3. QED
    BY <1>3, <2>1, <2>2
<1>6. JobIsSafe(e, floor[k], seen[k], hushed[k], J(n, muted))
  BY <1>3, <1>4, <1>5, FetchIsSafe
<1>7. UNCHANGED <<log, floor, seen, hushed, rows, cmd>>
  BY DEF JobFetch, env, history
<1> HIDE DEF J
<1>8. QED
  BY <1>1, <1>2, <1>6, <1>7, JobOnlyStep

(* The next notification of a sending job, told or switched off, is        *)
(* acknowledged.                                                           *)
LEMMA AckStepSafe ==
    ASSUME TypeOK, SafetyInv, NEW k \in Keys, NEW i, IsNext(k, i),
           jobs[k].pc \in {"send", "fallback"},
           \A q \in Keys : Grows(q), log' = log, rows' = rows, cmd' = cmd,
           jobs' = [jobs EXCEPT ![k] = Ack(@, i, PhaseOf(k, i))],
           \/ <<i, PhaseOf(k, i)>> \in seen'[k]
           \/ <<i, PhaseOf(k, i)>> \in hushed'[k] /\ PhaseOf(k, i) # "text"
    PROVE  SafetyInv'
<1> DEFINE e == log'[MatchOf(k)]
           f == floor'[k]
           t == seen'[k]
           o == hushed'[k]
           j == jobs[k]
<1>1. e \in Seq(Kinds) /\ f \in Nat /\ j \in Job
  BY DEF TypeOK, Grows, Extends
<1>2. JobIsSafe(e, f, t, o, j)
  BY StillSafe
<1>3. PhaseOf(k, i) = IF i = j.out.pending THEN "start" ELSE IF e[i] = "game" THEN "end" ELSE "text"
  BY DEF PhaseOf
<1>4. i \in j.todo /\ \A h \in j.todo : i <= h
  BY DEF IsNext
<1>5. JobIsSafe(e, f, t, o, Ack(j, i, PhaseOf(k, i)))
  BY <1>1, <1>2, <1>3, <1>4, AckIsSafe
<1>6. jobs' = [jobs EXCEPT ![k] = Ack(j, i, PhaseOf(k, i))]
  OBVIOUS
<1>7. QED
  BY <1>5, <1>6, JobOnlyStep

(* A failed attempt.                                                       *)
LEMMA FailureStepSafe ==
    ASSUME TypeOK, SafetyInv, NEW k \in Keys, NEW i, AfterFailure(k, i),
           jobs[k].pc \in {"send", "fallback"},
           \A q \in Keys : Grows(q), rows' = rows, cmd' = cmd
    PROVE  SafetyInv'
<1> DEFINE j == IF jobs[k].pc = "send" /\ PhaseOf(k, i) # "text"
                THEN [jobs[k] EXCEPT !.pc = "fallback"] ELSE GiveUp(jobs[k])
<1>1. jobs' = [jobs EXCEPT ![k] = j]
  BY DEF AfterFailure
<1>2. jobs[k] \in Job /\ log'[MatchOf(k)] \in Seq(Kinds) /\ floor'[k] \in Nat
  BY DEF TypeOK, Grows, Extends
<1>3. JobIsSafe(log'[MatchOf(k)], floor'[k], seen'[k], hushed'[k], jobs[k])
  BY StillSafe
<1>4. /\ JobIsSafe(log'[MatchOf(k)], floor'[k], seen'[k], hushed'[k], GiveUp(jobs[k]))
      /\ JobIsSafe(log'[MatchOf(k)], floor'[k], seen'[k], hushed'[k],
                   [jobs[k] EXCEPT !.pc = "fallback"])
  BY <1>2, <1>3, OtherJobsAreSafe
<1>5. JobIsSafe(log'[MatchOf(k)], floor'[k], seen'[k], hushed'[k], j)
  BY <1>4
<1> HIDE DEF j
<1>6. QED
  BY <1>1, <1>5, JobOnlyStep

LEMMA JobStepSafe ==
    ASSUME TypeOK, TypeOK', SafetyInv, NEW k \in Keys, JobStep(k)
    PROVE  SafetyInv'
<1> USE DEF env, history
<1>1. jobs[k] \in Job /\ log[MatchOf(k)] \in Seq(Kinds) /\ floor[k] \in Nat
  BY DEF TypeOK, Keys, MatchOf
<1>2. JobIsSafe(log[MatchOf(k)], floor[k], seen[k], hushed[k], jobs[k])
  BY DEF SafetyInv
<1>3. JobIsSafe(log[MatchOf(k)], floor[k], seen[k], hushed[k], NoJob)
  BY <1>1, <1>2, OtherJobsAreSafe
<1>4. ASSUME JobStart(k) PROVE SafetyInv'
  <2>1. \A q \in Keys : Grows(q)
    BY <1>4, UnchangedGrows DEF JobStart
  <2>2. JobIsSafe(log[MatchOf(k)], floor[k], seen[k], hushed[k], [jobs[k] EXCEPT !.pc = "fetch"])
    BY <1>1, <1>2, <1>4, OtherJobsAreSafe DEF JobStart
  <2>3. jobs' = [jobs EXCEPT ![k] = [jobs[k] EXCEPT !.pc = "fetch"]]
    BY <1>4 DEF JobStart
  <2>4. UNCHANGED <<log, floor, seen, hushed, rows, cmd>>
    BY <1>4 DEF JobStart
  <2>5. QED
    BY <2>1, <2>2, <2>3, <2>4, JobOnlyStep
<1>5. ASSUME JobFetch(k) PROVE SafetyInv'
  BY <1>5, FetchStepSafe
<1>6. ASSUME JobFetchFails(k) PROVE SafetyInv'
  BY <1>6, <1>3, UnchangedGrows, JobOnlyStep DEF JobFetchFails
<1>7. ASSUME JobMuted(k) PROVE SafetyInv'
  <2>1. PICK i \in jobs[k].todo :
           /\ IsNext(k, i)
           /\ PhaseOf(k, i) \in jobs[k].muted
           /\ jobs' = [jobs EXCEPT ![k] = Ack(@, i, PhaseOf(k, i))]
           /\ hushed' = [hushed EXCEPT ![k] = @ \union {<<i, PhaseOf(k, i)>>}]
    BY <1>7 DEF JobMuted
  <2>2. \A q \in Keys : Grows(q)
    BY <1>7, <2>1, ToldGrows DEF JobMuted
  <2>3. PhaseOf(k, i) # "text"
    BY <1>1, <2>1 DEF Job
  <2>4. <<i, PhaseOf(k, i)>> \in hushed'[k]
    BY <2>1 DEF TypeOK
  <2>5. QED
    BY <1>7, <2>1, <2>2, <2>3, <2>4, AckStepSafe DEF JobMuted
<1>8. ASSUME NEW i \in Ids(k), Delivered(k, i) PROVE SafetyInv'
  <2>1. \A q \in Keys : Grows(q)
    BY <1>8, ToldGrows DEF Delivered, Receive
  <2>2. <<i, PhaseOf(k, i)>> \in seen'[k]
    BY <1>8 DEF Delivered, Receive, TypeOK
  <2>3. QED
    BY <1>8, <2>1, <2>2, AckStepSafe DEF Delivered, Attempt
<1>9. ASSUME NEW i \in Ids(k), NotDelivered(k, i) PROVE SafetyInv'
  BY <1>9, UnchangedGrows, FailureStepSafe DEF NotDelivered, Attempt
<1>10. ASSUME NEW i \in Ids(k), NoSink(k, i) PROVE SafetyInv'
  <2>1. \A q \in Keys : Grows(q)
    BY <1>10, UnchangedGrows DEF NoSink
  <2>2. JobIsSafe(log[MatchOf(k)], floor[k], seen[k], hushed[k], GiveUp(jobs[k]))
    BY <1>1, <1>2, <1>10, OtherJobsAreSafe DEF NoSink
  <2>3. /\ jobs' = [jobs EXCEPT ![k] = GiveUp(jobs[k])]
        /\ UNCHANGED <<log, floor, seen, hushed, rows, cmd>>
    BY <1>10 DEF NoSink
  <2>4. QED
    BY <2>1, <2>2, <2>3, JobOnlyStep
<1>11. ASSUME NEW i \in Ids(k), DeliveredUnconfirmed(k, i) PROVE SafetyInv'
  <2>1. \A q \in Keys : Grows(q)
    BY <1>11, ToldGrows DEF DeliveredUnconfirmed, Receive
  <2>2. QED
    BY <1>11, <2>1, FailureStepSafe DEF DeliveredUnconfirmed, Attempt
<1>12. JobIsSafe(log[MatchOf(k)], floor[k], seen[k], hushed[k], NextPc(jobs[k]))
       \/ jobs[k].pc \notin {"write", "stop"}
  BY <1>1, <1>2, OtherJobsAreSafe
<1>13. ASSUME WriteProgress(k) PROVE SafetyInv'
  <2>1. \A q \in Keys : Grows(q)
    BY <1>13, UnchangedGrows DEF WriteProgress
  <2>2. /\ rows' = [rows EXCEPT ![k].cur = jobs[k].out]
        /\ jobs' = [jobs EXCEPT ![k] = NextPc(jobs[k])]
        /\ UNCHANGED <<log, floor, seen, hushed, cmd>>
    BY <1>13 DEF WriteProgress
  <2>3. ASSUME NEW q \in Keys
        PROVE  Safe(log'[MatchOf(q)], floor'[q], seen'[q], hushed'[q], rows'[q].cur.last)
    <3>1. CASE q = k
      <4>1. rows'[q].cur = jobs[k].out
        BY <2>2, <3>1 DEF TypeOK, Row
      <4>2. QED
        BY <1>2, <1>13, <2>2, <3>1, <4>1 DEF JobIsSafe, WriteProgress
    <3>2. CASE q # k
      BY <2>1, <2>2, <3>2, StillSafe DEF TypeOK
    <3>3. QED
      BY <3>1, <3>2
  <2>4. ASSUME NEW q \in Keys
        PROVE  JobIsSafe(log'[MatchOf(q)], floor'[q], seen'[q], hushed'[q], jobs'[q])
    <3>1. CASE q = k
      BY <1>12, <1>13, <2>2, <3>1 DEF WriteProgress, TypeOK
    <3>2. CASE q # k
      BY <2>1, <2>2, <3>2, StillSafe DEF TypeOK
    <3>3. QED
      BY <3>1, <3>2
  <2>5. QED
    BY <2>1, <2>2, <2>3, <2>4, CommandsStillSafe, SafetyFromParts
<1>14. ASSUME WriteProgressFails(k) PROVE SafetyInv'
  <2>1. \A q \in Keys : Grows(q)
    BY <1>14, UnchangedGrows DEF WriteProgressFails, DbError
  <2>2. /\ jobs' = [jobs EXCEPT ![k] = NextPc(jobs[k])]
        /\ UNCHANGED <<log, floor, seen, hushed, rows, cmd>>
    BY <1>14 DEF WriteProgressFails, DbError
  <2>3. JobIsSafe(log'[MatchOf(k)], floor'[k], seen'[k], hushed'[k], NextPc(jobs[k]))
    BY <1>12, <1>14, <2>2 DEF WriteProgressFails
  <2>4. QED
    BY <2>1, <2>2, <2>3, JobOnlyStep
<1>15. ASSUME StopDisbanded(k) PROVE SafetyInv'
  <2>1. \A q \in Keys : Grows(q) /\ rows'[q].cur = rows[q].cur
    BY <1>15, UnchangedGrows DEF StopDisbanded, TypeOK, Row
  <2>2. jobs' = [jobs EXCEPT ![k] = NoJob] /\ UNCHANGED <<log, floor, seen, hushed, cmd>>
    BY <1>15 DEF StopDisbanded
  <2>3. QED
    BY <1>3, <2>1, <2>2, JobOnlyStep
<1>16. ASSUME StopDisbandedFails(k) PROVE SafetyInv'
  <2>1. \A q \in Keys : Grows(q)
    BY <1>16, UnchangedGrows DEF StopDisbandedFails, DbError
  <2>2. /\ jobs' = [jobs EXCEPT ![k] = NoJob]
        /\ UNCHANGED <<log, floor, seen, hushed, rows, cmd>>
    BY <1>16 DEF StopDisbandedFails, DbError
  <2>3. QED
    BY <1>3, <2>1, <2>2, JobOnlyStep
<1>17. QED
  BY <1>4, <1>5, <1>6, <1>7, <1>8, <1>9, <1>11, <1>13, <1>14, <1>15, <1>16,
     <1>10 DEF JobStep

LEMMA SafetyInit == Init => SafetyInv
<1> SUFFICES ASSUME Init PROVE SafetyInv
  OBVIOUS
<1>1. ASSUME NEW k \in Keys
      PROVE  /\ Safe(log[MatchOf(k)], floor[k], seen[k], hushed[k], rows[k].cur.last)
             /\ JobIsSafe(log[MatchOf(k)], floor[k], seen[k], hushed[k], jobs[k])
  <2>1. log[MatchOf(k)] = <<"text">> /\ rows[k].cur.last = 0 /\ jobs[k].pc = "none" /\ floor[k] = 0
    BY DEF Init, NothingYet, Keys, MatchOf, NoRow, NoJob, StartCursor
  <2>2. QED
    BY <2>1 DEF Safe, JobIsSafe
<1>2. \A c \in Cmds : cmd[c].pc # "insert"
  BY DEF Init, NothingYet, NoCommand
<1>3. QED
  BY <1>1, <1>2 DEF SafetyInv

LEMMA SafetyNext == TypeOK /\ TypeOK' /\ SafetyInv /\ [Next]_vars => SafetyInv'
<1> SUFFICES ASSUME TypeOK, TypeOK', SafetyInv, [Next]_vars PROVE SafetyInv'
  OBVIOUS
<1>1. CASE UNCHANGED vars
  BY <1>1, UnchangedGrows, QuietStep DEF vars
<1>2. CASE Poller
  BY <1>2, LoopSafe, JobStepSafe DEF Poller
<1>3. CASE Crash
  BY <1>3, LoopSafe
<1>4. QED
  BY <1>1, <1>2, <1>3, EnvironmentSafe, CommandsSafe DEF Next

LEMMA SafetySkipsNothing == SafetyInv => NothingSkipped
BY DEF SafetyInv, Safe, NothingSkipped, Settled

(* No event is lost: a row's cursor stands behind an event only if its     *)
(* chat got the message, its card is switched off, or a start command      *)
(* asked to begin after it; through failed deliveries, crashes, failed     *)
(* writes, stops, restarts and late writes of the poller.                  *)
THEOREM NothingIsSkipped == Spec => []NothingSkipped
<1>1. Init /\ TypeOK => SafetyInv
  BY SafetyInit
<1>2. QED
  BY <1>1, TypeInit, TypeNext, SafetyNext, SafetySkipsNothing, PTL DEF Spec

------------------------------------------------------------------------------
(* What the match listener tells a chat, on top of these facts: the limit  *)
(* per chat, the pending marker, the repeated messages, the end of a match, *)
(* and that the listener implements ChatFeed.                              *)

(* The pending game of a cursor follows it, and its start was announced.   *)
CursorIsTold(e, t, o, c) ==
    c.pending # None =>
        /\ c.pending = c.last + 1
        /\ c.pending \in Games(e)
        /\ <<c.pending, "start">> \in t \union o

(* A job that is sending: the list begins behind the acknowledged cursor,  *)
(* with the end of the game pending there if there is one; the game the    *)
(* output holds at was announced unless its start is on the list.          *)
SendingIsTold(e, t, o, j) ==
    /\ CursorIsTold(e, t, o, j.ack)
    /\ j.ack.last <= j.out.last
    /\ \A i \in j.todo : i > j.ack.last
    /\ j.ack.pending # None => j.ack.pending \in j.todo /\ j.ack.pending # j.out.pending
    /\ j.out.pending \notin j.todo => CursorIsTold(e, t, o, j.out)
    /\ j.out.pending # None => j.out.pending = j.out.last + 1 /\ j.out.pending \in Games(e)

EndIsTold(e, t)     == \E n \in 1..Len(e) : e[n] = "disband" /\ <<n, "text">> \in t
EndIsListed(e, todo) == \E n \in 1..Len(e) : e[n] = "disband" /\ n \in todo

JobIsTold(e, t, o, j) ==
    /\ j.pc # "none" => CursorIsTold(e, t, o, j.cur)
    /\ j.pc \in {"send", "fallback"} =>
         /\ SendingIsTold(e, t, o, j)
         /\ j.disband => EndIsListed(e, j.todo) \/ EndIsTold(e, t)
    /\ j.pc = "write" =>
         /\ CursorIsTold(e, t, o, j.out)
         /\ j.disband => EndIsTold(e, t)
    /\ j.pc = "stop" => EndIsTold(e, t)

DisbandIsLast(e) == \A i \in 1..Len(e) : e[i] = "disband" => i = Len(e)

TellingInv ==
    /\ \A m \in Matches : DisbandIsLast(log[m])
    /\ \A k \in Keys :
         /\ CursorIsTold(log[MatchOf(k)], seen[k], hushed[k], rows[k].cur)
         /\ JobIsTold(log[MatchOf(k)], seen[k], hushed[k], jobs[k])

(* Nothing in front of the cursor was told but the start of its pending    *)
(* game.                                                                   *)
Behind(t, c) == \A x \in t : x[1] <= c.last \/ (x[2] = "start" /\ x[1] = c.pending)

(* What was told is behind the cursor that the next poll will begin at.    *)
KeepsUp(t, c, j) ==
    /\ j.pc \in {"none", "queued", "fetch", "stop"} => Behind(t, c)
    /\ j.pc \in {"queued", "fetch"} => j.cur = c
    /\ j.pc \in {"send", "fallback"} => Behind(t, j.ack)
    /\ j.pc = "write" => Behind(t, j.out)

RepeatInv ==
    /\ cycle # "run" => \A k \in Keys : jobs[k].pc = "none"
    /\ \A k \in Keys :
         /\ rows[k].expires < 0 => rows[k] = NoRow /\ jobs[k].pc = "none" /\ seen[k] = {}
         /\ clean[k] => ~repeated[k] /\ KeepsUp(seen[k], rows[k].cur, jobs[k])

------------------------------------------------------------------------------
(* What holds of a cursor or a job goes on to hold as the log grows and    *)
(* more is told.                                                           *)
LEMMA CursorStaysTold ==
    ASSUME NEW e1, NEW f1, NEW t1, NEW o1, NEW e2, NEW f2, NEW t2, NEW o2,
           Extends(e1, f1, t1, o1, e2, f2, t2, o2), NEW c,
           CursorIsTold(e1, t1, o1, c)
    PROVE  CursorIsTold(e2, t2, o2, c)
<1>1. \A i \in Games(e1) : i \in Games(e2)
  BY DEF Extends, Games
<1>2. QED
  BY <1>1 DEF Extends, CursorIsTold

LEMMA JobStaysTold ==
    ASSUME NEW e1, NEW f1, NEW t1, NEW o1, NEW e2, NEW f2, NEW t2, NEW o2,
           Extends(e1, f1, t1, o1, e2, f2, t2, o2), NEW j,
           JobIsTold(e1, t1, o1, j)
    PROVE  JobIsTold(e2, t2, o2, j)
<1>1. \A i \in Games(e1) : i \in Games(e2)
  BY DEF Extends, Games
<1>2. \A c : CursorIsTold(e1, t1, o1, c) => CursorIsTold(e2, t2, o2, c)
  BY CursorStaysTold
<1>3. SendingIsTold(e1, t1, o1, j) => SendingIsTold(e2, t2, o2, j)
  BY <1>1, <1>2 DEF SendingIsTold
<1>4. EndIsTold(e1, t1) => EndIsTold(e2, t2)
  <2> SUFFICES ASSUME NEW n \in 1..Len(e1), e1[n] = "disband", <<n, "text">> \in t1
               PROVE  EndIsTold(e2, t2)
    BY DEF EndIsTold
  <2>1. n \in 1..Len(e2) /\ e2[n] = "disband" /\ <<n, "text">> \in t2
    BY DEF Extends
  <2>2. QED
    BY <2>1 DEF EndIsTold
<1>5. EndIsListed(e1, j.todo) => EndIsListed(e2, j.todo)
  BY DEF EndIsListed, Extends
<1>6. QED
  BY <1>2, <1>3, <1>4, <1>5 DEF JobIsTold

(* What a fetch makes of a cursor: the game pending there is the first     *)
(* event of the page; it still runs and ends the page, or it has ended and *)
(* is on the list.                                                         *)
LEMMA PendingIsFirst ==
    ASSUME NEW e \in Seq(Kinds), NEW d, NEW t, NEW o, NEW c \in Cursor,
           CursorIsTold(e, t, o, c), c.pending # None,
           NEW hi, NEW n \in Nat, c.last < n, ProcessedUpTo(c, e, d, hi, n)
    PROVE  \/ /\ n = c.pending
              /\ Holding(c, e, d, n)
              /\ Notifications(c, e, d, n) = {}
              /\ NewCursor(c, e, d, n).pending = c.pending
           \/ /\ c.pending \in Notifications(c, e, d, n)
              /\ NewCursor(c, e, d, n).pending # c.pending
<1>1. /\ c.last \in Nat /\ c.pending = c.last + 1 /\ e[c.pending] = "game"
      /\ c.pending \in (c.last + 1)..n
  BY DEF Cursor, CursorIsTold, Games
<1>2. CASE n = c.pending /\ Holding(c, e, d, n)
  <2>1. \A i \in (c.last + 1)..n : i = n
    BY <1>1, <1>2
  <2>2. Notifications(c, e, d, n) = {}
    BY <2>1, <1>2 DEF Notifications
  <2>3. QED
    BY <1>2, <2>2 DEF NewCursor
<1>3. CASE ~(n = c.pending /\ Holding(c, e, d, n))
  <2>1. c.pending \in Notifications(c, e, d, n)
    BY <1>1, <1>3 DEF Notifications
  <2>2. Holding(c, e, d, n) => n # c.pending
    BY <1>3
  <2>3. NewCursor(c, e, d, n).pending # c.pending
    BY <1>1, <2>2 DEF NewCursor, None
  <2>4. QED
    BY <2>1, <2>3
<1>4. QED
  BY <1>2, <1>3

LEMMA FetchIsTold ==
    ASSUME NEW e \in Seq(Kinds), NEW d, NEW t \in SUBSET (Nat \X Phases), NEW o,
           NEW c \in Cursor, CursorIsTold(e, t, o, c),
           NEW hi, NEW n \in Nat, c.last <= n, n <= Len(e), ProcessedUpTo(c, e, d, hi, n),
           NEW muted, NEW j,
           LET todo == Notifications(c, e, d, n) IN
           j = [pc |-> IF todo = {} THEN "write" ELSE "send", cur |-> c, ack |-> c,
                out |-> NewCursor(c, e, d, n), todo |-> todo,
                muted |-> muted, disband |-> StopReason(c, e, n)]
    PROVE  /\ JobIsTold(e, t, o, j)
           /\ \A r : Behind(t, c) => KeepsUp(t, r, j)
<1> DEFINE todo == Notifications(c, e, d, n)
           out  == NewCursor(c, e, d, n)
<1>1. c.last \in Nat /\ c.pending \in Nat
  BY DEF Cursor
<1>2. /\ j.cur = c /\ j.ack = c /\ j.out = out /\ j.todo = todo
      /\ j.disband = StopReason(c, e, n)
      /\ j.pc = IF todo = {} THEN "write" ELSE "send"
  OBVIOUS
<1>3. /\ out.last = IF Holding(c, e, d, n) THEN n - 1 ELSE n
      /\ out.pending = IF Holding(c, e, d, n) THEN n
                       ELSE IF c.pending \in (c.last + 1)..n THEN None ELSE c.pending
  BY DEF NewCursor, Advanced
<1>4. c.last <= out.last /\ out.last \in Nat
  BY <1>1, <1>3 DEF Holding
<1>5. \A i \in todo : i > c.last
  BY <1>1 DEF Notifications
<1>6. n = c.last => todo = {} /\ out.last = c.last /\ out.pending = c.pending
  BY <1>1, <1>3 DEF Notifications, Holding, None
<1>7. c.pending # None /\ n > c.last =>
        \/ n = c.pending /\ Holding(c, e, d, n) /\ todo = {} /\ out.pending = c.pending
        \/ c.pending \in todo /\ out.pending # c.pending
  BY <1>1, PendingIsFirst
<1>8. out.pending # None => out.pending = out.last + 1 /\ out.pending \in Games(e)
  <2>1. CASE Holding(c, e, d, n)
    BY <2>1, <1>1, <1>3 DEF Holding, IsRunningGame, Games
  <2>2. CASE ~Holding(c, e, d, n)
    BY <2>2, <1>1, <1>3 DEF CursorIsTold
  <2>3. QED
    BY <2>1, <2>2
<1>9. out.pending # None /\ out.pending \notin todo => out.pending = c.pending
  <2>1. CASE Holding(c, e, d, n)
    <3>1. out.pending = n /\ n \in (c.last + 1)..n /\ e[n] = "game"
      BY <2>1, <1>1, <1>3 DEF Holding, IsRunningGame
    <3>2. QED
      BY <2>1, <3>1 DEF Notifications
  <2>2. CASE ~Holding(c, e, d, n)
    BY <2>2, <1>3
  <2>3. QED
    BY <2>1, <2>2
<1>10. out.pending \notin todo => CursorIsTold(e, t, o, out)
  BY <1>8, <1>9 DEF CursorIsTold
<1>11. StopReason(c, e, n) => EndIsListed(e, todo)
  BY <1>1 DEF StopReason, EndIsListed, Notifications, Holding, IsRunningGame
<1>12. Behind(t, c) /\ todo = {} => Behind(t, out)
  <2>1. c.pending # None => c.pending <= out.last \/ c.pending = out.pending
    <3>1. CASE n = c.last
      BY <3>1, <1>6
    <3>2. CASE n > c.last /\ Holding(c, e, d, n)
      BY <3>2, <1>3, <1>7 DEF Notifications, CursorIsTold
    <3>3. CASE n > c.last /\ ~Holding(c, e, d, n)
      BY <3>3, <1>1, <1>3 DEF CursorIsTold
    <3>4. QED
      BY <1>1, <3>1, <3>2, <3>3
  <2>2. SUFFICES ASSUME Behind(t, c), todo = {}, NEW x \in t
                 PROVE  x[1] <= out.last \/ (x[2] = "start" /\ x[1] = out.pending)
    BY DEF Behind
  <2>3. x[1] <= c.last \/ (x[2] = "start" /\ x[1] = c.pending)
    BY <2>2 DEF Behind
  <2>4. x[1] \in Nat
    BY <2>2
  <2>5. CASE x[1] <= c.last
    BY <2>4, <2>5, <1>1, <1>4
  <2>6. CASE x[2] = "start" /\ x[1] = c.pending
    BY <2>1, <2>6, <1>4 DEF None
  <2>7. QED
    BY <2>3, <2>5, <2>6
<1>13. todo # {} => SendingIsTold(e, t, o, j)
  <2>1. todo # {} /\ c.pending # None => c.pending \in todo /\ c.pending # out.pending
    BY <1>1, <1>6, <1>7
  <2>2. QED
    BY <2>1, <1>2, <1>4, <1>5, <1>8, <1>10 DEF SendingIsTold
<1> HIDE DEF todo, out
<1>14. JobIsTold(e, t, o, j)
  BY <1>2, <1>10, <1>11, <1>13 DEF JobIsTold, EndIsListed
<1>15. QED
  BY <1>2, <1>12, <1>14 DEF KeepsUp
(* What acknowledging the next notification makes of a job, once it is     *)
(* told or switched off.                                                   *)
LEMMA AckIsTold ==
    ASSUME NEW e \in Seq(Kinds), NEW f, NEW t, NEW o, NEW j \in Job,
           JobIsSafe(e, f, t, o, j), JobIsTold(e, t, o, j),
           j.pc \in {"send", "fallback"},
           NEW i \in j.todo, \A h \in j.todo : i <= h,
           NEW phase,
           phase = IF i = j.out.pending THEN "start"
                   ELSE IF e[i] = "game" THEN "end" ELSE "text",
           <<i, phase>> \in t \/ (<<i, phase>> \in o /\ phase # "text")
    PROVE  JobIsTold(e, t, o, Ack(j, i, phase))
<1> DEFINE a == Ack(j, i, phase)
<1>1. SendingIsSafe(e, f, t, o, j) /\ SendingIsTold(e, t, o, j)
  BY DEF JobIsSafe, JobIsTold
<1>2. /\ j.ack \in Cursor /\ j.ack.last \in Nat /\ j.ack.pending \in Nat
      /\ j.out.last \in Nat /\ j.out.pending \in Nat
      /\ i \in Nat /\ j.todo \subseteq Nat /\ i \in 1..Len(e) /\ j.todo \subseteq 1..Len(e)
  BY <1>1 DEF Job, Cursor, SendingIsSafe
<1>3. /\ a.cur = j.cur /\ a.out = j.out /\ a.todo = j.todo \ {i} /\ a.disband = j.disband
      /\ a.ack = Acknowledged(j.ack, i, phase)
      /\ a.pc = IF j.todo = {i} THEN "write" ELSE "send"
  BY DEF Ack, Job
<1>4. j.ack.pending # None => i = j.ack.pending /\ phase = "end"
  <2>1. SUFFICES ASSUME j.ack.pending # None PROVE i = j.ack.pending /\ phase = "end"
    OBVIOUS
  <2>2. /\ j.ack.pending \in j.todo /\ j.ack.pending = j.ack.last + 1
        /\ e[j.ack.pending] = "game" /\ j.ack.pending # j.out.pending /\ i > j.ack.last
    BY <2>1, <1>1 DEF SendingIsTold, CursorIsTold, Games
  <2>3. i = j.ack.pending
    BY <2>2, <1>2
  <2>4. QED
    BY <2>2, <2>3
<1>5. phase = "start" => j.todo = {i}
  <2>1. SUFFICES ASSUME phase = "start", NEW h \in j.todo PROVE h = i
    OBVIOUS
  <2>2. i = j.out.pending
    BY <2>1
  <2>3. i = j.out.last + 1
    BY <2>2, <1>1, <1>2 DEF SendingIsTold, None
  <2>4. h # i => h <= j.out.last
    BY <1>1, <2>2 DEF SendingIsSafe
  <2>5. QED
    BY <2>3, <2>4, <1>2
<1>6. phase # "start" => a.ack.last = i /\ a.ack.pending = None /\ i <= j.out.last
  <2>1. phase # "start" => i <= j.out.last
    BY <1>1 DEF SendingIsSafe
  <2>2. CASE phase = "text"
    BY <2>1, <2>2, <1>2, <1>3, <1>4 DEF Acknowledged, Cursor
  <2>3. CASE phase = "end"
    BY <2>1, <2>3, <1>2, <1>3 DEF Acknowledged
  <2>4. QED
    BY <2>2, <2>3
<1>7. a.out.pending \notin a.todo => CursorIsTold(e, t, o, a.out)
  <2>1. CASE i = j.out.pending
    <3>1. <<i, "start">> \in t \union o
      BY <2>1
    <3>2. QED
      BY <2>1, <3>1, <1>1, <1>3 DEF SendingIsTold, CursorIsTold
  <2>2. CASE i # j.out.pending
    BY <2>2, <1>1, <1>3 DEF SendingIsTold
  <2>3. QED
    BY <2>1, <2>2
<1>8. a.pc = "send" => SendingIsTold(e, t, o, a)
  <2>1. SUFFICES ASSUME a.pc = "send" PROVE SendingIsTold(e, t, o, a)
    OBVIOUS
  <2>2. a.ack.last = i /\ a.ack.pending = None /\ i <= j.out.last
    BY <2>1, <1>3, <1>5, <1>6
  <2>3. \A h \in a.todo : h > i
    BY <1>2, <1>3
  <2>4. QED
    BY <2>2, <2>3, <1>1, <1>3, <1>7 DEF SendingIsTold, CursorIsTold
<1>9. j.disband => EndIsListed(e, a.todo) \/ EndIsTold(e, t)
  <2>1. SUFFICES ASSUME j.disband, ~EndIsTold(e, t) PROVE EndIsListed(e, a.todo)
    OBVIOUS
  <2>2. PICK n \in 1..Len(e) : e[n] = "disband" /\ n \in j.todo
    BY <2>1 DEF JobIsTold, EndIsListed
  <2>3. i # n
    <3>1. SUFFICES ASSUME i = n PROVE FALSE
      OBVIOUS
    <3>2. i # j.out.pending
      BY <2>2, <3>1, <1>1, <1>2 DEF SendingIsTold, Games, None
    <3>3. phase = "text"
      BY <2>2, <3>1, <3>2
    <3>4. <<n, "text">> \in t
      BY <3>1, <3>3
    <3>5. QED
      BY <2>1, <2>2, <3>4 DEF EndIsTold
  <2>4. QED
    BY <2>2, <2>3, <1>3 DEF EndIsListed
<1>10. a.pc = "write" => a.todo = {}
  BY <1>3
<1>11. CursorIsTold(e, t, o, a.cur)
  BY <1>3 DEF JobIsTold
<1> HIDE DEF a
<1>12. QED
  BY <1>3, <1>7, <1>8, <1>9, <1>10, <1>11 DEF JobIsTold, EndIsListed, a

(* What was told stays behind the cursor as the next notification is told  *)
(* or switched off, and that notification was not told before.             *)
LEMMA AckKeepsUp ==
    ASSUME NEW e \in Seq(Kinds), NEW f, NEW t \in SUBSET (Nat \X Phases), NEW o, NEW j \in Job,
           NEW t0, NEW o0,
           JobIsSafe(e, f, t0, o0, j), JobIsTold(e, t0, o0, j),
           j.pc \in {"send", "fallback"},
           NEW i \in j.todo, \A h \in j.todo : i <= h,
           NEW phase \in Phases, phase = "start" <=> i = j.out.pending,
           NEW r, Behind(t, j.ack)
    PROVE  /\ <<i, phase>> \notin t
           /\ KeepsUp(t \union {<<i, phase>>}, r, Ack(j, i, phase))
           /\ KeepsUp(t, r, Ack(j, i, phase))
<1> DEFINE a == Ack(j, i, phase)
           u == t \union {<<i, phase>>}
<1>1. SendingIsSafe(e, f, t0, o0, j) /\ SendingIsTold(e, t0, o0, j)
  BY DEF JobIsSafe, JobIsTold
<1>2. /\ j.ack \in Cursor /\ j.ack.last \in Nat /\ j.ack.pending \in Nat
      /\ j.out.last \in Nat /\ j.out.pending \in Nat /\ i \in Nat /\ j.todo \subseteq Nat
      /\ i > j.ack.last /\ j.ack.last <= j.out.last
  BY <1>1 DEF Job, Cursor, SendingIsTold
<1>3. /\ a.out = j.out /\ a.ack = Acknowledged(j.ack, i, phase)
      /\ a.pc = IF j.todo = {i} THEN "write" ELSE "send"
  BY DEF Ack, Job
<1>4. j.ack.pending # None => j.ack.pending = i
  BY <1>1, <1>2 DEF SendingIsTold, CursorIsTold
<1>5. j.ack.pending # None => phase # "start"
  BY <1>1, <1>4 DEF SendingIsTold
<1>6. <<i, phase>> \notin t
  <2>1. SUFFICES ASSUME <<i, phase>> \in t PROVE FALSE
    OBVIOUS
  <2>2. i <= j.ack.last \/ (phase = "start" /\ i = j.ack.pending)
    BY <2>1 DEF Behind
  <2>3. QED
    BY <2>2, <1>2, <1>5 DEF None
<1>7. phase # "start" => Behind(u, a.ack) /\ i <= j.out.last
  <2>1. SUFFICES ASSUME phase # "start" PROVE Behind(u, a.ack) /\ i <= j.out.last
    OBVIOUS
  <2>2. i <= j.out.last
    BY <2>1, <1>1 DEF SendingIsSafe
  <2>3. a.ack.last = i
    <3>1. CASE phase = "text"
      BY <3>1, <1>2, <1>3 DEF Acknowledged, Cursor
    <3>2. CASE phase = "end"
      BY <3>2, <1>2, <1>3 DEF Acknowledged
    <3>3. QED
      BY <2>1, <3>1, <3>2 DEF Phases
  <2>4. ASSUME NEW x \in u PROVE x[1] <= i
    <3>1. CASE x \in t
      <4>1. x[1] \in Nat /\ (x[1] <= j.ack.last \/ x[1] = j.ack.pending)
        BY <3>1 DEF Behind
      <4>2. QED
        BY <4>1, <1>2, <1>4 DEF None
    <3>2. CASE x = <<i, phase>>
      BY <3>2, <1>2
    <3>3. QED
      BY <3>1, <3>2
  <2>5. QED
    BY <2>2, <2>3, <2>4 DEF Behind
<1>8. Behind(u, a.out)  \/ a.pc # "write"
  <2>1. SUFFICES ASSUME a.pc = "write" PROVE Behind(u, j.out)
    BY <1>3
  <2>2. ASSUME NEW x \in u
        PROVE  x[1] <= j.out.last \/ (x[2] = "start" /\ x[1] = j.out.pending)
    <3>1. CASE x = <<i, phase>> /\ phase = "start"
      BY <3>1
    <3>2. CASE x = <<i, phase>> /\ phase # "start"
      BY <3>2, <1>7
    <3>3. CASE x \in t
      <4>1. x[1] \in Nat /\ (x[1] <= j.ack.last \/ x[1] = j.ack.pending)
        BY <3>3 DEF Behind
      <4>2. CASE x[1] <= j.ack.last
        BY <4>1, <4>2, <1>2
      <4>3. CASE x[1] = j.ack.pending
        BY <4>1, <4>3, <1>2, <1>4, <1>5, <1>7 DEF None
      <4>4. QED
        BY <4>1, <4>2, <4>3
    <3>4. QED
      BY <3>1, <3>2, <3>3
  <2>3. QED
    BY <2>2 DEF Behind
<1>9. a.pc = "send" => phase # "start"
  <2>1. SUFFICES ASSUME phase = "start", NEW h \in j.todo PROVE h = i
    BY <1>3
  <2>2. i = j.out.last + 1 /\ (h # i => h <= j.out.last)
    BY <2>1, <1>1, <1>2 DEF SendingIsTold, SendingIsSafe, None
  <2>3. QED
    BY <2>2, <1>2
<1>10. \A c : Behind(u, c) => Behind(t, c)
  BY DEF Behind
<1> HIDE DEF a, u
<1>11. /\ a.pc \in {"send", "write"}
       /\ a.pc = "send" => Behind(u, a.ack)
  BY <1>3, <1>7, <1>9
<1>12. QED
  BY <1>6, <1>8, <1>10, <1>11 DEF KeepsUp, a, u

(* Giving up, falling back to a text, and the end of a job.                *)
LEMMA OtherJobsAreTold ==
    ASSUME NEW e, NEW t, NEW o, NEW j \in Job, JobIsTold(e, t, o, j)
    PROVE  /\ j.pc \in {"send", "fallback"} =>
                /\ JobIsTold(e, t, o, GiveUp(j))
                /\ JobIsTold(e, t, o, [j EXCEPT !.pc = "fallback"])
                /\ \A r, u : KeepsUp(u, r, j) => /\ KeepsUp(u, r, GiveUp(j))
                                                 /\ KeepsUp(u, r, [j EXCEPT !.pc = "fallback"])
           /\ j.pc = "write" => JobIsTold(e, t, o, NextPc(j))
           /\ \A r, u : j.pc = "write" /\ KeepsUp(u, r, j) => KeepsUp(u, j.out, NextPc(j))
           /\ j.pc = "queued" => /\ JobIsTold(e, t, o, [j EXCEPT !.pc = "fetch"])
                                 /\ \A r, u : KeepsUp(u, r, j) =>
                                       KeepsUp(u, r, [j EXCEPT !.pc = "fetch"])
           /\ JobIsTold(e, t, o, NoJob)
           /\ \A r, u : Behind(u, r) => KeepsUp(u, r, NoJob)
<1> USE DEF Job
<1>1. j.pc \in {"send", "fallback"} =>
         /\ JobIsTold(e, t, o, GiveUp(j))
         /\ JobIsTold(e, t, o, [j EXCEPT !.pc = "fallback"])
  BY DEF JobIsTold, SendingIsTold, GiveUp
<1>2. j.pc \in {"send", "fallback"} =>
         \A r, u : KeepsUp(u, r, j) => /\ KeepsUp(u, r, GiveUp(j))
                                       /\ KeepsUp(u, r, [j EXCEPT !.pc = "fallback"])
  BY DEF KeepsUp, GiveUp
<1>3. j.pc = "write" => JobIsTold(e, t, o, NextPc(j))
  BY DEF JobIsTold, NextPc, NoJob
<1>4. \A r, u : j.pc = "write" /\ KeepsUp(u, r, j) => KeepsUp(u, j.out, NextPc(j))
  BY DEF KeepsUp, NextPc, NoJob
<1>5. j.pc = "queued" => /\ JobIsTold(e, t, o, [j EXCEPT !.pc = "fetch"])
                         /\ \A r, u : KeepsUp(u, r, j) => KeepsUp(u, r, [j EXCEPT !.pc = "fetch"])
  BY DEF JobIsTold, KeepsUp
<1>6. JobIsTold(e, t, o, NoJob) /\ \A r, u : Behind(u, r) => KeepsUp(u, r, NoJob)
  BY DEF JobIsTold, KeepsUp, NoJob
<1>7. QED
  BY <1>1, <1>2, <1>3, <1>4, <1>5, <1>6
------------------------------------------------------------------------------
(* The steps.                                                              *)

LEMMA NoRowIsInactive == [NoRow EXCEPT !.active = FALSE] = NoRow
<1>1. \A r \in Row : ~r.active => [r EXCEPT !.active = FALSE] = r
  BY DEF Row
<1>2. NoRow \in Row /\ ~NoRow.active
  BY NullTypes DEF NoRow
<1>3. QED
  BY <1>1, <1>2

LEMMA StillTold ==
    ASSUME TellingInv, NEW k \in Keys, Grows(k)
    PROVE  /\ CursorIsTold(log'[MatchOf(k)], seen'[k], hushed'[k], rows[k].cur)
           /\ JobIsTold(log'[MatchOf(k)], seen'[k], hushed'[k], jobs[k])
BY CursorStaysTold, JobStaysTold DEF TellingInv, Grows

LEMMA TellingFromParts ==
    ASSUME \A m \in Matches : DisbandIsLast(log'[m]),
           \A k \in Keys :
             /\ CursorIsTold(log'[MatchOf(k)], seen'[k], hushed'[k], rows'[k].cur)
             /\ JobIsTold(log'[MatchOf(k)], seen'[k], hushed'[k], jobs'[k])
    PROVE  TellingInv'
BY DEF TellingInv, MatchOf

LEMMA RepeatFromParts ==
    ASSUME cycle' # "run" => \A k \in Keys : jobs'[k].pc = "none",
           \A k \in Keys :
             /\ rows'[k].expires < 0 => rows'[k] = NoRow /\ jobs'[k].pc = "none" /\ seen'[k] = {}
             /\ clean'[k] => ~repeated'[k] /\ KeepsUp(seen'[k], rows'[k].cur, jobs'[k])
    PROVE  RepeatInv'
BY DEF RepeatInv

(* A step that leaves the jobs, the cursors and what was told alone.       *)
LEMMA NothingNewIsTold ==
    ASSUME TellingInv, RepeatInv, \A k \in Keys : Grows(k),
           \A m \in Matches : DisbandIsLast(log'[m]),
           UNCHANGED <<jobs, seen, clean, repeated>>,
           cycle' # "run" => \A k \in Keys : jobs[k].pc = "none",
           \A k \in Keys : /\ rows'[k].cur = rows[k].cur
                           /\ rows'[k].expires = rows[k].expires
                           /\ rows[k] = NoRow => rows'[k] = NoRow
    PROVE  TellingInv' /\ RepeatInv'
<1>1. TellingInv'
  BY StillTold, TellingFromParts
<1>2. ASSUME NEW k \in Keys
      PROVE  /\ rows'[k].expires < 0 => rows'[k] = NoRow /\ jobs'[k].pc = "none" /\ seen'[k] = {}
             /\ clean'[k] => ~repeated'[k] /\ KeepsUp(seen'[k], rows'[k].cur, jobs'[k])
  BY DEF RepeatInv
<1>3. QED
  BY <1>1, <1>2, RepeatFromParts

(* A step of one key's job.                                                *)
LEMMA OneJobTells ==
    ASSUME TypeOK, TellingInv, RepeatInv, \A k \in Keys : Grows(k), log' = log, cycle' = cycle,
           NEW q \in Keys, jobs[q].pc # "none", NEW j, jobs' = [jobs EXCEPT ![q] = j],
           \A k \in Keys \ {q} :
              rows'[k] = rows[k] /\ seen'[k] = seen[k] /\ repeated'[k] = repeated[k],
           rows'[q].expires = rows[q].expires,
           \A k \in Keys : clean'[k] => clean[k],
           CursorIsTold(log'[MatchOf(q)], seen'[q], hushed'[q], rows'[q].cur),
           JobIsTold(log'[MatchOf(q)], seen'[q], hushed'[q], j),
           clean'[q] => ~repeated'[q] /\ KeepsUp(seen'[q], rows'[q].cur, j)
    PROVE  TellingInv' /\ RepeatInv'
<1>1. jobs'[q] = j /\ \A k \in Keys \ {q} : jobs'[k] = jobs[k]
  BY DEF TypeOK
<1>2. ASSUME NEW k \in Keys
      PROVE  /\ CursorIsTold(log'[MatchOf(k)], seen'[k], hushed'[k], rows'[k].cur)
             /\ JobIsTold(log'[MatchOf(k)], seen'[k], hushed'[k], jobs'[k])
  <2>1. CASE k = q
    BY <2>1, <1>1
  <2>2. CASE k # q
    BY <2>2, <1>1, StillTold
  <2>3. QED
    BY <2>1, <2>2
<1>3. TellingInv'
  BY <1>2, TellingFromParts DEF TellingInv
<1>4. cycle = "run"
  BY DEF RepeatInv
<1>5. ASSUME NEW k \in Keys
      PROVE  /\ rows'[k].expires < 0 => rows'[k] = NoRow /\ jobs'[k].pc = "none" /\ seen'[k] = {}
             /\ clean'[k] => ~repeated'[k] /\ KeepsUp(seen'[k], rows'[k].cur, jobs'[k])
  <2>1. CASE k = q
    BY <2>1, <1>1 DEF RepeatInv
  <2>2. CASE k # q
    BY <2>2, <1>1 DEF RepeatInv
  <2>3. QED
    BY <2>1, <2>2
<1>6. QED
  BY <1>3, <1>4, <1>5, RepeatFromParts

LEMMA EnvironmentTells ==
    ASSUME TypeOK, TypeOK', TellingInv, RepeatInv, Environment
    PROVE  TellingInv' /\ RepeatInv'
<1>1. cycle # "run" => \A k \in Keys : jobs[k].pc = "none"
  BY DEF RepeatInv
<1>2. ASSUME NEW m \in Matches, NEW kind \in Kinds, Publish(m, kind)
      PROVE  TellingInv' /\ RepeatInv'
  <2>1. ASSUME NEW n \in Matches PROVE DisbandIsLast(log'[n])
    <3>1. log[n] \in Seq(Kinds) /\ log[m] \in Seq(Kinds)
      BY DEF TypeOK
    <3>2. CASE n = m
      <4>1. log'[n] = Append(log[m], kind) /\ \A i \in 1..Len(log[m]) : log[m][i] # "disband"
        BY <1>2, <3>1, <3>2 DEF Publish, TypeOK
      <4>2. QED
        BY <3>1, <4>1 DEF DisbandIsLast
    <3>3. CASE n # m
      BY <1>2, <3>3 DEF Publish, TypeOK, TellingInv
    <3>4. QED
      BY <3>2, <3>3
  <2>2. \A k \in Keys : Grows(k)
    BY <1>2, PublishGrows
  <2>3. QED
    BY <1>1, <1>2, <2>1, <2>2, NothingNewIsTold DEF Publish, history
<1>3. ASSUME (\E m \in Matches : \E i \in Games(log[m]) : CompleteGame(m, i)) \/ Tick
      PROVE  TellingInv' /\ RepeatInv'
  <2>1. log' = log /\ floor' = floor /\ seen' = seen /\ hushed' = hushed
    BY <1>3 DEF CompleteGame, Tick, history
  <2>2. \A k \in Keys : Grows(k)
    BY <2>1, UnchangedGrows
  <2>3. \A m \in Matches : DisbandIsLast(log'[m])
    BY <2>1 DEF TellingInv
  <2>4. QED
    BY <1>1, <1>3, <2>2, <2>3, NothingNewIsTold DEF CompleteGame, Tick, history
<1>4. QED
  BY <1>2, <1>3 DEF Environment

(* A handler's steps, but the insert.                                      *)
LEMMA HandlersTell ==
    ASSUME TypeOK, TellingInv, RepeatInv,
           \/ \E c \in Cmds : \/ \E k \in Keys : StartCheck(c, k)
                              \/ StartCount(c) \/ StartFetch(c) \/ StartAbort(c)
           \/ \E k \in Keys : Stop(k)
           \/ \E chat \in Chats : StopAll(chat)
    PROVE  TellingInv' /\ RepeatInv'
<1>1. UNCHANGED <<log, floor, seen, hushed, cycle, jobs, clean, repeated>>
  BY DEF StartCheck, StartCount, StartFetch, StartAbort, Stop, StopAll, DbError, env, history
<1>2. ASSUME NEW k \in Keys
      PROVE  /\ rows'[k].cur = rows[k].cur
             /\ rows'[k].expires = rows[k].expires
             /\ rows[k] = NoRow => rows'[k] = NoRow
  <2>1. CASE rows' = rows
    BY <2>1
  <2>2. ASSUME NEW q \in Keys, Stop(q)
        PROVE  rows'[k] = rows[k] \/ rows'[k] = [rows[k] EXCEPT !.active = FALSE]
    BY <2>2 DEF Stop, TypeOK
  <2>3. ASSUME NEW chat \in Chats, StopAll(chat)
        PROVE  rows'[k] = rows[k] \/ rows'[k] = [rows[k] EXCEPT !.active = FALSE]
    BY <2>3 DEF StopAll
  <2>4. rows'[k] = rows[k] \/ rows'[k] = [rows[k] EXCEPT !.active = FALSE]
    BY <2>2, <2>3 DEF StartCheck, StartCount, StartFetch, StartAbort
  <2>5. rows[k] \in Row
    BY DEF TypeOK
  <2>6. rows'[k].cur = rows[k].cur /\ rows'[k].expires = rows[k].expires
    BY <2>4, <2>5 DEF Row
  <2>7. [NoRow EXCEPT !.active = FALSE] = NoRow
    BY NoRowIsInactive
  <2>8. QED
    BY <2>4, <2>6, <2>7
<1>3. cycle # "run" => \A k \in Keys : jobs[k].pc = "none"
  BY DEF RepeatInv
<1>4. \A k \in Keys : Grows(k)
  BY <1>1, UnchangedGrows
<1>5. \A m \in Matches : DisbandIsLast(log'[m])
  BY <1>1 DEF TellingInv
<1>6. QED
  BY <1>1, <1>2, <1>3, <1>4, <1>5, NothingNewIsTold

(* The insert of a start command: a cursor with nothing pending; unless    *)
(* the row is new, and its chat was told nothing, it is no longer clean.   *)
LEMMA InsertTells ==
    ASSUME TypeOK, TellingInv, RepeatInv, NEW c \in Cmds, StartInsert(c)
    PROVE  TellingInv' /\ RepeatInv'
<1> DEFINE q == cmd[c].key
           n == cmd[c].last
<1>1. q \in Keys /\ n \in Nat /\ now + Lifetime \in Nat
  BY LimitsAssumption DEF TypeOK, Command
<1>2. UNCHANGED <<log, seen, hushed, cycle, jobs, repeated>>
  BY DEF StartInsert, env
<1>3. \A k \in Keys : Grows(k)
  BY InsertGrows
<1>4. rows' = [rows EXCEPT ![q] = [active |-> TRUE, expires |-> now + Lifetime,
                                    cur |-> Upserted(q, n)]]
  BY DEF StartInsert
<1>5. /\ rows'[q].expires = now + Lifetime /\ rows'[q].cur = Upserted(q, n)
      /\ \A k \in Keys \ {q} : rows'[k] = rows[k]
  BY <1>1, <1>4 DEF TypeOK
<1>6. ASSUME NEW k \in Keys
      PROVE  /\ CursorIsTold(log'[MatchOf(k)], seen'[k], hushed'[k], rows'[k].cur)
             /\ JobIsTold(log'[MatchOf(k)], seen'[k], hushed'[k], jobs'[k])
  <2>1. CASE rows'[k].cur = rows[k].cur
    BY <1>2, <1>3, <2>1, StillTold
  <2>2. CASE rows'[k].cur # rows[k].cur
    <3>1. rows'[k].cur = StartCursor(n)
      BY <1>5, <2>2 DEF Upserted
    <3>2. CursorIsTold(log'[MatchOf(k)], seen'[k], hushed'[k], rows'[k].cur)
      BY <3>1 DEF StartCursor, CursorIsTold
    <3>3. QED
      BY <1>2, <1>3, <3>2, StillTold
  <2>3. QED
    BY <2>1, <2>2
<1>7. TellingInv'
  BY <1>2, <1>6, TellingFromParts DEF TellingInv
<1>8. ASSUME NEW k \in Keys
      PROVE  /\ rows'[k].expires < 0 => rows'[k] = NoRow /\ jobs'[k].pc = "none" /\ seen'[k] = {}
             /\ clean'[k] => ~repeated'[k] /\ KeepsUp(seen'[k], rows'[k].cur, jobs'[k])
  <2>1. CASE k # q
    <3>1. clean'[k] = clean[k]
      BY <2>1 DEF StartInsert, TypeOK
    <3>2. QED
      BY <2>1, <3>1, <1>2, <1>5 DEF RepeatInv
  <2>2. CASE k = q /\ KeepsCursor(q)
    <3>1. clean' = clean /\ rows'[q].cur = rows[q].cur
      BY <2>2, <1>5 DEF StartInsert, Upserted
    <3>2. ~(rows'[q].expires < 0)
      BY <1>1, <1>5 DEF TypeOK
    <3>3. QED
      BY <2>2, <3>1, <3>2, <1>2 DEF RepeatInv
  <2>3. CASE k = q /\ ~KeepsCursor(q)
    <3>1. ~(rows'[q].expires < 0)
      BY <1>1, <1>5 DEF TypeOK
    <3>2. CASE rows[q] # NoRow
      BY <2>3, <3>1, <3>2, <1>1 DEF StartInsert, TypeOK
    <3>3. CASE rows[q] = NoRow
      <4>1. rows[q].expires < 0
        BY <3>3 DEF NoRow
      <4>2. jobs[q].pc = "none" /\ seen[q] = {} /\ clean' = clean
        BY <2>3, <3>3, <4>1, <1>1 DEF RepeatInv, StartInsert
      <4>3. KeepsUp(seen'[q], rows'[q].cur, jobs'[q])
        BY <4>2, <1>2 DEF KeepsUp, Behind
      <4>4. QED
        BY <2>3, <3>1, <4>2, <4>3, <1>1, <1>2 DEF RepeatInv
    <3>4. QED
      BY <3>2, <3>3
  <2>4. QED
    BY <2>1, <2>2, <2>3
<1>9. QED
  BY <1>2, <1>7, <1>8, RepeatFromParts DEF RepeatInv
(* The poll loop and a crash: jobs begin where the rows are, and only when *)
(* there are none; they are dropped with the process, and a row whose job  *)
(* was dropped is no longer clean.                                         *)
LEMMA LoopTells ==
    ASSUME TypeOK, TellingInv, RepeatInv,
           PollExpire \/ PollExpireFails \/ PollList \/ PollListFails \/ PollEnd \/ Crash
    PROVE  TellingInv' /\ RepeatInv'
<1>1. UNCHANGED <<log, floor, seen, hushed, repeated>>
  BY DEF PollExpire, PollExpireFails, PollList, PollListFails, PollEnd, Crash, DbError, env, history
<1>2. \A k \in Keys : Grows(k)
  BY <1>1, UnchangedGrows
<1>3. \A m \in Matches : DisbandIsLast(log'[m])
  BY <1>1 DEF TellingInv
<1>4. CASE PollExpire
  <2>1. ASSUME NEW k \in Keys
        PROVE  /\ rows'[k].cur = rows[k].cur
               /\ rows'[k].expires = rows[k].expires
               /\ rows[k] = NoRow => rows'[k] = NoRow
    <3>1. rows'[k] = rows[k] \/ rows'[k] = [rows[k] EXCEPT !.active = FALSE]
      BY <1>4 DEF PollExpire
    <3>2. rows[k] \in Row /\ [NoRow EXCEPT !.active = FALSE] = NoRow
      BY NoRowIsInactive DEF TypeOK
    <3>3. rows'[k].cur = rows[k].cur /\ rows'[k].expires = rows[k].expires
      BY <3>1, <3>2 DEF Row
    <3>4. QED
      BY <3>1, <3>2, <3>3
  <2>2. \A k \in Keys : jobs[k].pc = "none"
    BY <1>4 DEF PollExpire, RepeatInv
  <2>3. QED
    BY <1>2, <1>3, <1>4, <2>1, <2>2, NothingNewIsTold DEF PollExpire, history
<1>5. CASE PollExpireFails \/ PollListFails \/ PollEnd
  <2>1. \A k \in Keys : jobs[k].pc = "none"
    BY <1>5 DEF PollExpireFails, PollListFails, PollEnd, RepeatInv
  <2>2. UNCHANGED <<rows, jobs, clean>>
    BY <1>5 DEF PollExpireFails, PollListFails, PollEnd, DbError, history
  <2>3. QED
    BY <1>1, <1>2, <1>3, <2>1, <2>2, NothingNewIsTold
<1>6. CASE PollList
  <2>1. UNCHANGED <<rows, clean>> /\ cycle' = "run" /\ \A k \in Keys : jobs[k].pc = "none"
    BY <1>6 DEF PollList, history, RepeatInv
  <2>2. ASSUME NEW k \in Keys
        PROVE  /\ JobIsTold(log'[MatchOf(k)], seen'[k], hushed'[k], jobs'[k])
               /\ rows'[k].expires < 0 => rows'[k] = NoRow /\ jobs'[k].pc = "none" /\ seen'[k] = {}
               /\ clean'[k] => ~repeated'[k] /\ KeepsUp(seen'[k], rows'[k].cur, jobs'[k])
    <3>1. CursorIsTold(log'[MatchOf(k)], seen'[k], hushed'[k], rows[k].cur)
      BY <1>2, StillTold
    <3>2. clean[k] => ~repeated[k] /\ Behind(seen[k], rows[k].cur)
      BY <2>1 DEF RepeatInv, KeepsUp
    <3>3. CASE EffectivelyActive(k)
      <4>1. jobs'[k] = [NoJob EXCEPT !.pc = "queued", !.cur = rows[k].cur]
        BY <1>6, <3>3 DEF PollList
      <4>2. jobs'[k].pc = "queued" /\ jobs'[k].cur = rows[k].cur
        BY <4>1 DEF NoJob
      <4>3. rows[k].expires \in Int /\ now \in Nat /\ rows[k].expires >= now
        BY <3>3 DEF EffectivelyActive, TypeOK, Row
      <4>4. ~(rows[k].expires < 0)
        BY <4>3
      <4>5. QED
        BY <1>1, <2>1, <3>1, <3>2, <4>2, <4>4 DEF JobIsTold, KeepsUp
    <3>4. CASE ~EffectivelyActive(k)
      <4>1. jobs'[k].pc = "none"
        BY <1>6, <3>4 DEF PollList, NoJob
      <4>2. QED
        BY <1>1, <2>1, <3>2, <4>1 DEF JobIsTold, KeepsUp, RepeatInv
    <3>5. QED
      BY <3>3, <3>4
  <2>3. QED
    BY <1>2, <1>3, <2>1, <2>2, StillTold, TellingFromParts, RepeatFromParts
<1>7. CASE Crash
  <2>1. /\ rows' = rows /\ \A k \in Keys : jobs'[k] = NoJob /\ jobs'[k].pc = "none"
        /\ \A k \in Keys : clean'[k] => clean[k] /\ jobs[k].pc = "none"
    BY <1>7 DEF Crash, NoJob
  <2>2. ASSUME NEW k \in Keys
        PROVE  /\ JobIsTold(log'[MatchOf(k)], seen'[k], hushed'[k], jobs'[k])
               /\ rows'[k].expires < 0 => rows'[k] = NoRow /\ jobs'[k].pc = "none" /\ seen'[k] = {}
               /\ clean'[k] => ~repeated'[k] /\ KeepsUp(seen'[k], rows'[k].cur, jobs'[k])
    BY <1>1, <2>1 DEF JobIsTold, KeepsUp, RepeatInv
  <2>3. QED
    BY <1>2, <1>3, <2>1, <2>2, StillTold, TellingFromParts, RepeatFromParts
<1>8. QED
  BY <1>4, <1>5, <1>6, <1>7

LEMMA FetchTells ==
    ASSUME TypeOK, SafetyInv, TellingInv, RepeatInv, NEW k \in Keys, JobFetch(k)
    PROVE  TellingInv' /\ RepeatInv'
<1> DEFINE e  == log[MatchOf(k)]
           d  == ended[MatchOf(k)]
           c  == jobs[k].cur
           hi == IF Len(e) > c.last + PageLimit THEN c.last + PageLimit ELSE Len(e)
           J(n, muted) == [pc |-> IF Notifications(c, e, d, n) = {} THEN "write" ELSE "send",
                           cur |-> c, ack |-> c, out |-> NewCursor(c, e, d, n),
                           todo |-> Notifications(c, e, d, n), muted |-> muted,
                           disband |-> StopReason(c, e, n)]
<1>1. \A q \in Keys : Grows(q)
  BY UnchangedGrows DEF JobFetch, env, history
<1>2. PICK n \in c.last..hi, muted \in MuteChoices :
         ProcessedUpTo(c, e, d, hi, n) /\ jobs' = [jobs EXCEPT ![k] = J(n, muted)]
  BY DEF JobFetch
<1>3. e \in Seq(Kinds) /\ c \in Cursor /\ c.last \in Nat /\ seen[k] \in SUBSET (Nat \X Phases)
  BY DEF TypeOK, Keys, MatchOf, Job, Cursor
<1>4. Safe(e, floor[k], seen[k], hushed[k], c.last) /\ CursorIsTold(e, seen[k], hushed[k], c)
  BY DEF JobFetch, SafetyInv, JobIsSafe, TellingInv, JobIsTold
<1>5. n \in Nat /\ c.last <= n /\ n <= Len(e)
  <2> HIDE DEF e, c
  <2>1. Len(e) \in Nat /\ c.last <= Len(e)
    BY <1>3, <1>4 DEF Safe
  <2>2. hi \in Int /\ hi <= Len(e)
    BY <2>1, <1>3, PageEnds
  <2>3. QED
    BY <1>3, <2>1, <2>2
<1>6. UNCHANGED <<log, floor, seen, hushed, rows, cycle, clean, repeated>>
  BY DEF JobFetch, env, history
<1>7. /\ JobIsTold(e, seen[k], hushed[k], J(n, muted))
      /\ \A r : Behind(seen[k], c) => KeepsUp(seen[k], r, J(n, muted))
  <2> DEFINE j == J(n, muted)
  <2>1. /\ JobIsTold(e, seen[k], hushed[k], j)
        /\ \A r : Behind(seen[k], c) => KeepsUp(seen[k], r, j)
    <3>1. j = J(n, muted)
      OBVIOUS
    <3> HIDE DEF j, e, d, c, hi
    <3>2. QED
      BY <1>2, <1>3, <1>4, <1>5, <3>1, FetchIsTold
  <2>2. QED
    BY <2>1
<1>8. clean[k] => ~repeated[k] /\ Behind(seen[k], c)
  BY DEF RepeatInv, KeepsUp, JobFetch
<1>9. CursorIsTold(e, seen[k], hushed[k], rows[k].cur) /\ jobs[k].pc # "none"
  BY DEF TellingInv, JobFetch
<1>10. jobs' = [jobs EXCEPT ![k] = J(n, muted)]
  BY <1>2
<1> HIDE DEF J
<1>11. clean'[k] => ~repeated'[k] /\ KeepsUp(seen'[k], rows'[k].cur, J(n, muted))
  BY <1>6, <1>7, <1>8
<1>12. QED
  BY <1>1, <1>6, <1>7, <1>9, <1>10, <1>11, OneJobTells
(* The next notification is acknowledged, told or switched off.            *)
LEMMA AckTells ==
    ASSUME TypeOK, SafetyInv, TellingInv, RepeatInv, NEW k \in Keys, NEW i, IsNext(k, i),
           jobs[k].pc \in {"send", "fallback"},
           UNCHANGED <<log, floor, rows, cycle, clean>>,
           jobs' = [jobs EXCEPT ![k] = Ack(@, i, PhaseOf(k, i))],
           \/ /\ hushed' = [hushed EXCEPT ![k] = @ \union {<<i, PhaseOf(k, i)>>}]
              /\ PhaseOf(k, i) # "text"
              /\ UNCHANGED <<seen, repeated>>
           \/ Receive(k, i, PhaseOf(k, i)) /\ UNCHANGED hushed
    PROVE  TellingInv' /\ RepeatInv'
<1> DEFINE e == log[MatchOf(k)]
           j == jobs[k]
           phase == PhaseOf(k, i)
<1>1. /\ e \in Seq(Kinds) /\ j \in Job /\ seen[k] \in SUBSET (Nat \X Phases)
      /\ i \in j.todo /\ \A h \in j.todo : i <= h
  BY DEF TypeOK, IsNext, Keys, MatchOf
<1>2. /\ phase \in Phases
      /\ phase = IF i = j.out.pending THEN "start" ELSE IF e[i] = "game" THEN "end" ELSE "text"
      /\ phase = "start" <=> i = j.out.pending
  BY DEF PhaseOf, Phases
<1>3. \A q \in Keys : Grows(q)
  BY ToldGrows DEF Receive
<1>4. /\ JobIsSafe(e, floor[k], seen[k], hushed[k], j)
      /\ JobIsTold(e, seen[k], hushed[k], j)
      /\ CursorIsTold(e, seen[k], hushed[k], rows[k].cur)
  BY DEF SafetyInv, TellingInv
<1>5. /\ JobIsSafe(e, floor[k], seen'[k], hushed'[k], j)
      /\ JobIsTold(e, seen'[k], hushed'[k], j)
      /\ CursorIsTold(e, seen'[k], hushed'[k], rows[k].cur)
  BY <1>3, StillSafe, StillTold
<1>6. <<i, phase>> \in seen'[k] \/ (<<i, phase>> \in hushed'[k] /\ phase # "text")
  BY DEF TypeOK, Receive
<1> HIDE DEF e, j, phase
<1>7. JobIsTold(e, seen'[k], hushed'[k], Ack(j, i, phase))
  <2>1. j.pc \in {"send", "fallback"}
    BY DEF j
  <2>2. QED
    BY <1>1, <1>2, <1>5, <1>6, <2>1, AckIsTold
<1>8. clean[k] => /\ <<i, phase>> \notin seen[k]
                  /\ KeepsUp(seen[k] \union {<<i, phase>>}, rows[k].cur, Ack(j, i, phase))
                  /\ KeepsUp(seen[k], rows[k].cur, Ack(j, i, phase))
  <2>1. SUFFICES ASSUME clean[k]
                 PROVE  /\ <<i, phase>> \notin seen[k]
                        /\ KeepsUp(seen[k] \union {<<i, phase>>}, rows[k].cur, Ack(j, i, phase))
                        /\ KeepsUp(seen[k], rows[k].cur, Ack(j, i, phase))
    OBVIOUS
  <2>2. j.pc \in {"send", "fallback"} /\ Behind(seen[k], j.ack)
    BY <2>1 DEF RepeatInv, KeepsUp, j
  <2>3. QED
    BY <1>1, <1>2, <1>4, <2>2, AckKeepsUp
<1>9. clean'[k] => ~repeated'[k] /\ KeepsUp(seen'[k], rows'[k].cur, Ack(j, i, phase))
  <2>1. clean[k] => ~repeated[k]
    BY DEF RepeatInv
  <2>2. CASE UNCHANGED <<seen, repeated>>
    BY <2>1, <2>2, <1>8
  <2>3. CASE Receive(k, i, phase)
    <3>1. seen'[k] = seen[k] \union {<<i, phase>>}
      BY <2>3 DEF Receive, TypeOK
    <3>2. repeated'[k] = (repeated[k] \/ <<i, phase>> \in seen[k])
      BY <2>3 DEF Receive, TypeOK
    <3>3. QED
      BY <2>1, <3>1, <3>2, <1>8
  <2>4. QED
    BY <2>2, <2>3 DEF phase
<1>10. \A q \in Keys \ {k} : rows'[q] = rows[q] /\ seen'[q] = seen[q] /\ repeated'[q] = repeated[q]
  BY DEF Receive, TypeOK
<1>11. jobs' = [jobs EXCEPT ![k] = Ack(j, i, phase)] /\ jobs[k].pc # "none"
  BY DEF j, phase
<1>12. QED
  BY <1>3, <1>5, <1>7, <1>9, <1>10, <1>11, OneJobTells DEF e

(* A step of a job that tells nothing new, or nothing that counts for a    *)
(* clean row.                                                              *)
LEMMA OtherStepTells ==
    ASSUME TypeOK, TellingInv, RepeatInv, NEW k \in Keys, jobs[k].pc # "none",
           \A q \in Keys : Grows(q), UNCHANGED <<log, rows, cycle>>,
           NEW j, jobs' = [jobs EXCEPT ![k] = j],
           JobIsTold(log'[MatchOf(k)], seen'[k], hushed'[k], j),
           \/ UNCHANGED <<seen, repeated, clean>> /\
              (clean[k] => KeepsUp(seen[k], rows[k].cur, j))
           \/ /\ clean' = [clean EXCEPT ![k] = FALSE]
              /\ \A q \in Keys \ {k} : seen'[q] = seen[q] /\ repeated'[q] = repeated[q]
    PROVE  TellingInv' /\ RepeatInv'
<1>1. \A q \in Keys \ {k} : rows'[q] = rows[q] /\ seen'[q] = seen[q] /\ repeated'[q] = repeated[q]
  OBVIOUS
<1>2. \A q \in Keys : clean'[q] => clean[q]
  BY DEF TypeOK
<1>3. clean'[k] => ~repeated'[k] /\ KeepsUp(seen'[k], rows'[k].cur, j)
  BY DEF TypeOK, RepeatInv
<1>4. CursorIsTold(log'[MatchOf(k)], seen'[k], hushed'[k], rows'[k].cur)
  BY StillTold
<1>5. QED
  BY <1>1, <1>2, <1>3, <1>4, OneJobTells

(* A failed attempt: a text instead of a card, or giving up.               *)
LEMMA FailureTells ==
    ASSUME TypeOK, TellingInv, RepeatInv, NEW k \in Keys, NEW i, AfterFailure(k, i),
           jobs[k].pc \in {"send", "fallback"},
           \A q \in Keys : Grows(q), UNCHANGED <<log, rows, cycle>>,
           \/ UNCHANGED <<seen, repeated, clean>>
           \/ clean' = [clean EXCEPT ![k] = FALSE] /\ Receive(k, i, PhaseOf(k, i))
    PROVE  TellingInv' /\ RepeatInv'
<1> DEFINE j == IF jobs[k].pc = "send" /\ PhaseOf(k, i) # "text"
                THEN [jobs[k] EXCEPT !.pc = "fallback"] ELSE GiveUp(jobs[k])
<1>1. jobs' = [jobs EXCEPT ![k] = j]
  BY DEF AfterFailure
<1>2. jobs[k] \in Job /\ JobIsTold(log'[MatchOf(k)], seen'[k], hushed'[k], jobs[k])
  BY StillTold DEF TypeOK
<1>3. JobIsTold(log'[MatchOf(k)], seen'[k], hushed'[k], j)
  BY <1>2, OtherJobsAreTold
<1>4. clean[k] => KeepsUp(seen[k], rows[k].cur, j)
  <2>1. SUFFICES ASSUME clean[k] PROVE KeepsUp(seen[k], rows[k].cur, j)
    OBVIOUS
  <2>2. KeepsUp(seen[k], rows[k].cur, jobs[k])
    BY <2>1 DEF RepeatInv
  <2>3. QED
    BY <1>2, <2>2, OtherJobsAreTold
<1>5. Receive(k, i, PhaseOf(k, i)) =>
         \A q \in Keys \ {k} : seen'[q] = seen[q] /\ repeated'[q] = repeated[q]
  BY DEF Receive, TypeOK
<1> HIDE DEF j
<1>6. QED
  BY <1>1, <1>3, <1>4, <1>5, OtherStepTells
(* A job's end: the cursor is written, the listener of a disbanded match   *)
(* is stopped.                                                             *)
LEMMA EndTells ==
    ASSUME TypeOK, TellingInv, RepeatInv, NEW k \in Keys,
           \/ WriteProgress(k) \/ WriteProgressFails(k)
           \/ StopDisbanded(k) \/ StopDisbandedFails(k) \/ JobFetchFails(k)
    PROVE  TellingInv' /\ RepeatInv'
<1>1. UNCHANGED <<log, floor, seen, hushed, repeated, cycle>> /\ jobs[k].pc # "none"
  BY DEF WriteProgress, WriteProgressFails, StopDisbanded, StopDisbandedFails, JobFetchFails,
         DbError, env, history
<1>2. \A q \in Keys : Grows(q)
  BY <1>1, UnchangedGrows
<1>3. jobs[k] \in Job /\ rows[k] \in Row
  BY DEF TypeOK
<1>4. /\ CursorIsTold(log[MatchOf(k)], seen[k], hushed[k], rows[k].cur)
      /\ JobIsTold(log[MatchOf(k)], seen[k], hushed[k], jobs[k])
      /\ clean[k] => ~repeated[k] /\ KeepsUp(seen[k], rows[k].cur, jobs[k])
  BY DEF TellingInv, RepeatInv
<1>5. /\ JobIsTold(log[MatchOf(k)], seen[k], hushed[k], NoJob)
      /\ \A r, u : Behind(u, r) => KeepsUp(u, r, NoJob)
  BY <1>3, <1>4, OtherJobsAreTold
<1>6. CASE WriteProgress(k)
  <2>1. /\ rows' = [rows EXCEPT ![k].cur = jobs[k].out]
        /\ jobs' = [jobs EXCEPT ![k] = NextPc(jobs[k])]
        /\ UNCHANGED clean /\ jobs[k].pc = "write"
    BY <1>6 DEF WriteProgress, history
  <2>2. /\ rows'[k].cur = jobs[k].out /\ rows'[k].expires = rows[k].expires
        /\ \A q \in Keys \ {k} : rows'[q] = rows[q]
    BY <2>1, <1>3 DEF TypeOK, Row
  <2>3. CursorIsTold(log[MatchOf(k)], seen[k], hushed[k], jobs[k].out)
    BY <1>4, <2>1 DEF JobIsTold
  <2>4. /\ JobIsTold(log[MatchOf(k)], seen[k], hushed[k], NextPc(jobs[k]))
        /\ clean[k] => KeepsUp(seen[k], jobs[k].out, NextPc(jobs[k]))
    BY <1>3, <1>4, <2>1, OtherJobsAreTold
  <2>5. QED
    BY <1>1, <1>2, <1>4, <2>1, <2>2, <2>3, <2>4, OneJobTells
<1>7. CASE WriteProgressFails(k)
  <2>1. /\ UNCHANGED rows /\ jobs' = [jobs EXCEPT ![k] = NextPc(jobs[k])]
        /\ clean' = [clean EXCEPT ![k] = FALSE] /\ jobs[k].pc = "write"
    BY <1>7 DEF WriteProgressFails
  <2>2. JobIsTold(log[MatchOf(k)], seen[k], hushed[k], NextPc(jobs[k]))
    BY <1>3, <1>4, <2>1, OtherJobsAreTold
  <2>3. QED
    BY <1>1, <1>2, <2>1, <2>2, OtherStepTells
<1>8. CASE StopDisbanded(k)
  <2>1. /\ rows' = [rows EXCEPT ![k].active = FALSE]
        /\ jobs' = [jobs EXCEPT ![k] = NoJob]
        /\ UNCHANGED clean /\ jobs[k].pc = "stop"
    BY <1>8 DEF StopDisbanded, history
  <2>2. /\ rows'[k].cur = rows[k].cur /\ rows'[k].expires = rows[k].expires
        /\ \A q \in Keys \ {k} : rows'[q] = rows[q]
    BY <2>1, <1>3 DEF TypeOK, Row
  <2>3. clean[k] => ~repeated[k] /\ KeepsUp(seen[k], rows[k].cur, NoJob)
    BY <1>4, <1>5, <2>1 DEF KeepsUp
  <2>4. QED
    BY <1>1, <1>2, <1>4, <1>5, <2>1, <2>2, <2>3, OneJobTells
<1>9. CASE StopDisbandedFails(k) \/ JobFetchFails(k)
  <2>1. /\ UNCHANGED <<rows, clean>> /\ jobs' = [jobs EXCEPT ![k] = NoJob]
        /\ jobs[k].pc \in {"fetch", "stop"}
    BY <1>9 DEF StopDisbandedFails, JobFetchFails, history
  <2>2. clean[k] => KeepsUp(seen[k], rows[k].cur, NoJob)
    BY <1>4, <1>5, <2>1 DEF KeepsUp
  <2>3. QED
    BY <1>1, <1>2, <1>5, <2>1, <2>2, OtherStepTells
<1>10. QED
  BY <1>6, <1>7, <1>8, <1>9

LEMMA JobTells ==
    ASSUME TypeOK, SafetyInv, TellingInv, RepeatInv, NEW k \in Keys, JobStep(k)
    PROVE  TellingInv' /\ RepeatInv'
<1> USE DEF env, history
<1>1. jobs[k] \in Job /\ JobIsTold(log[MatchOf(k)], seen[k], hushed[k], jobs[k])
  BY DEF TypeOK, TellingInv
<1>2. ASSUME JobStart(k) PROVE TellingInv' /\ RepeatInv'
  <2>1. /\ UNCHANGED <<log, floor, rows, seen, hushed, repeated, clean, cycle>>
        /\ jobs[k].pc = "queued" /\ jobs' = [jobs EXCEPT ![k] = [jobs[k] EXCEPT !.pc = "fetch"]]
    BY <1>2 DEF JobStart
  <2>2. \A q \in Keys : Grows(q)
    BY <2>1, UnchangedGrows
  <2>3. /\ JobIsTold(log[MatchOf(k)], seen[k], hushed[k], [jobs[k] EXCEPT !.pc = "fetch"])
        /\ \A r, u : KeepsUp(u, r, jobs[k]) => KeepsUp(u, r, [jobs[k] EXCEPT !.pc = "fetch"])
    BY <1>1, <2>1, OtherJobsAreTold
  <2>4. clean[k] => KeepsUp(seen[k], rows[k].cur, [jobs[k] EXCEPT !.pc = "fetch"])
    BY <2>3 DEF RepeatInv
  <2>5. QED
    BY <2>1, <2>2, <2>3, <2>4, OtherStepTells
<1>3. ASSUME JobMuted(k) PROVE TellingInv' /\ RepeatInv'
  <2>1. PICK i \in jobs[k].todo :
           /\ IsNext(k, i)
           /\ PhaseOf(k, i) \in jobs[k].muted
           /\ jobs' = [jobs EXCEPT ![k] = Ack(@, i, PhaseOf(k, i))]
           /\ hushed' = [hushed EXCEPT ![k] = @ \union {<<i, PhaseOf(k, i)>>}]
    BY <1>3 DEF JobMuted
  <2>2. PhaseOf(k, i) # "text"
    BY <1>1, <2>1 DEF Job
  <2>3. UNCHANGED <<log, floor, rows, cycle, clean, seen, repeated>> /\ jobs[k].pc = "send"
    BY <1>3 DEF JobMuted
  <2>4. QED
    BY <2>1, <2>2, <2>3, AckTells
<1>4. ASSUME NEW i \in Ids(k), Delivered(k, i) PROVE TellingInv' /\ RepeatInv'
  BY <1>4, AckTells DEF Delivered, Attempt
<1>5. ASSUME NEW i \in Ids(k), NotDelivered(k, i) PROVE TellingInv' /\ RepeatInv'
  BY <1>5, UnchangedGrows, FailureTells DEF NotDelivered, Attempt
<1>6. ASSUME NEW i \in Ids(k), NoSink(k, i) PROVE TellingInv' /\ RepeatInv'
  <2>1. /\ UNCHANGED <<log, floor, rows, seen, hushed, repeated, clean, cycle>>
        /\ jobs[k].pc = "send" /\ jobs' = [jobs EXCEPT ![k] = GiveUp(jobs[k])]
    BY <1>6 DEF NoSink
  <2>2. \A q \in Keys : Grows(q)
    BY <2>1, UnchangedGrows
  <2>3. /\ JobIsTold(log[MatchOf(k)], seen[k], hushed[k], GiveUp(jobs[k]))
        /\ \A r, u : KeepsUp(u, r, jobs[k]) => KeepsUp(u, r, GiveUp(jobs[k]))
    BY <1>1, <2>1, OtherJobsAreTold
  <2>4. clean[k] => KeepsUp(seen[k], rows[k].cur, GiveUp(jobs[k]))
    BY <2>3 DEF RepeatInv
  <2>5. QED
    BY <2>1, <2>2, <2>3, <2>4, OtherStepTells
<1>7. ASSUME NEW i \in Ids(k), DeliveredUnconfirmed(k, i) PROVE TellingInv' /\ RepeatInv'
  <2>1. /\ Receive(k, i, PhaseOf(k, i)) /\ AfterFailure(k, i)
        /\ UNCHANGED <<log, floor, rows, cycle, hushed>>
        /\ clean' = [clean EXCEPT ![k] = FALSE] /\ jobs[k].pc \in {"send", "fallback"}
    BY <1>7 DEF DeliveredUnconfirmed, Attempt
  <2>2. \A q \in Keys : Grows(q)
    BY <2>1, ToldGrows DEF Receive
  <2>3. QED
    BY <2>1, <2>2, FailureTells
<1>8. QED
  BY <1>2, <1>3, <1>4, <1>5, <1>6, <1>7, FetchTells, EndTells DEF JobStep

LEMMA TellingInit == Init => TellingInv /\ RepeatInv
<1> SUFFICES ASSUME Init PROVE TellingInv /\ RepeatInv
  OBVIOUS
<1>1. ASSUME NEW m \in Matches PROVE DisbandIsLast(log[m])
  BY DEF Init, NothingYet, DisbandIsLast
<1>2. ASSUME NEW k \in Keys
      PROVE  /\ CursorIsTold(log[MatchOf(k)], seen[k], hushed[k], rows[k].cur)
             /\ JobIsTold(log[MatchOf(k)], seen[k], hushed[k], jobs[k])
             /\ rows[k] = NoRow /\ jobs[k].pc = "none" /\ seen[k] = {} /\ ~repeated[k]
             /\ KeepsUp(seen[k], rows[k].cur, jobs[k])
  BY DEF Init, NothingYet, NoRow, NoJob, StartCursor, CursorIsTold, JobIsTold, KeepsUp, Behind
<1>3. QED
  BY <1>1, <1>2 DEF TellingInv, RepeatInv

LEMMA TellingNext ==
    TypeOK /\ TypeOK' /\ SafetyInv /\ TellingInv /\ RepeatInv /\ [Next]_vars
        => TellingInv' /\ RepeatInv'
<1> SUFFICES ASSUME TypeOK, TypeOK', SafetyInv, TellingInv, RepeatInv, [Next]_vars
             PROVE  TellingInv' /\ RepeatInv'
  OBVIOUS
<1>1. CASE UNCHANGED vars
  <2>1. \A k \in Keys : Grows(k)
    BY <1>1, UnchangedGrows DEF vars
  <2>2. (\A m \in Matches : DisbandIsLast(log'[m])) /\
        (cycle' # "run" => \A k \in Keys : jobs[k].pc = "none")
    BY <1>1 DEF vars, TellingInv, RepeatInv
  <2>3. QED
    BY <1>1, <2>1, <2>2, NothingNewIsTold DEF vars
<1>2. CASE Commands
  BY <1>2, HandlersTell, InsertTells DEF Commands
<1>3. CASE Poller
  BY <1>3, LoopTells, JobTells DEF Poller
<1>4. CASE Crash
  BY <1>4, LoopTells
<1>5. QED
  BY <1>1, <1>2, <1>3, <1>4, EnvironmentTells DEF Next

LEMMA FeedInvariant == Spec => [](TypeOK /\ SafetyInv /\ TellingInv /\ RepeatInv)
<1>1. Init => TypeOK /\ SafetyInv /\ TellingInv /\ RepeatInv
  BY TypeInit, SafetyInit, TellingInit
<1>2. TypeOK /\ SafetyInv /\ TellingInv /\ RepeatInv /\ [Next]_vars
        => (TypeOK /\ SafetyInv /\ TellingInv /\ RepeatInv)'
  BY TypeNext, SafetyNext, TellingNext
<1>3. QED
  BY <1>1, <1>2, PTL DEF Spec

(* The pending marker of a row is the game right after its cursor, and the *)
(* start of that game was announced to the chat or is switched off: no     *)
(* poll announces a start twice or forgets an end, wherever a delivery     *)
(* fails, the process dies or a restart falls between two steps.           *)
THEOREM PendingGamesAreAnnounced == Spec => []PendingIsAnnounced
<1>1. TellingInv => PendingIsAnnounced
  BY DEF TellingInv, CursorIsTold, PendingIsAnnounced
<1>2. QED
  BY <1>1, FeedInvariant, PTL

(* No chat is told a thing twice unless a fault excuses it, and no listener*)
(* is stopped before its chat was told that the match is over.             *)
THEOREM ChatsAreTold == Spec => []ChatIsTold
<1>1. TypeOK /\ TellingInv /\ RepeatInv => ChatIsTold
  <2>1. SUFFICES ASSUME TypeOK, TellingInv, RepeatInv PROVE ChatIsTold
    OBVIOUS
  <2>2. NoRepeatWhenClean
    BY <2>1 DEF RepeatInv, NoRepeatWhenClean
  <2>3. ASSUME NEW k \in Keys, jobs[k].pc = "stop"
        PROVE  LET n == Len(log[MatchOf(k)]) IN
               log[MatchOf(k)][n] = "disband" /\ <<n, "text">> \in seen[k]
    <3>1. EndIsTold(log[MatchOf(k)], seen[k])
      BY <2>1, <2>3 DEF TellingInv, JobIsTold
    <3>2. DisbandIsLast(log[MatchOf(k)])
      BY <2>1 DEF TellingInv, Keys, MatchOf
    <3>3. QED
      BY <3>1, <3>2 DEF EndIsTold, DisbandIsLast
  <2>4. QED
    BY <2>2, <2>3 DEF ChatIsTold, StopIsAnnounced
<1>2. QED
  BY <1>1, FeedInvariant, PTL
------------------------------------------------------------------------------
(* The listener implements ChatFeed: its position is the row's cursor.     *)

LEMMA FeedInit == Init => Promise!Init
BY DEF Init, NothingYet, Promise!Init, NoRow, StartCursor

(* A step that leaves the log, the floors, the cursors and what was told   *)
(* alone is none of the feed's.                                            *)
LEMMA FeedStutters ==
    ASSUME UNCHANGED <<log, floor, seen, hushed>>,
           \A k \in Keys : rows'[k].cur = rows[k].cur
    PROVE  UNCHANGED Promise!vars
BY DEF Promise!vars

(* In front of the next notification of a job everything is settled.       *)
LEMMA NextIsDue ==
    ASSUME TypeOK, SafetyInv, TellingInv, NEW k \in Keys, NEW i, IsNext(k, i),
           jobs[k].pc \in {"send", "fallback"}
    PROVE  i \in 1..Len(log[MatchOf(k)]) /\ Promise!SettledBefore(k, i)
<1> DEFINE j == jobs[k]
           e == log[MatchOf(k)]
<1>1. SendingIsSafe(e, floor[k], seen[k], hushed[k], j) /\ SendingIsTold(e, seen[k], hushed[k], j)
  BY DEF SafetyInv, JobIsSafe, TellingInv, JobIsTold
<1>2. /\ j.out.last \in Nat /\ floor[k] \in Nat /\ j.todo \subseteq Nat
      /\ i \in j.todo /\ \A h \in j.todo : i <= h
  BY DEF TypeOK, Job, Cursor, IsNext
<1>3. i \in 1..Len(e) /\ i <= j.out.last + 1
  BY <1>1, <1>2 DEF SendingIsSafe, SendingIsTold, None
<1>4. ASSUME NEW h \in (floor[k] + 1)..(i - 1) PROVE Settles(e[h], h, seen[k], hushed[k])
  <2>1. h \in (floor[k] + 1)..j.out.last /\ h \notin j.todo
    BY <1>2, <1>3
  <2>2. QED
    BY <2>1, <1>1 DEF SendingIsSafe
<1>5. QED
  BY <1>3, <1>4 DEF Promise!SettledBefore, Promise!Settled

LEMMA FeedJobStep ==
    ASSUME TypeOK, SafetyInv, TellingInv, NEW k \in Keys, JobStep(k)
    PROVE  [Promise!Next]_Promise!vars
<1> USE DEF env, history
<1>1. jobs[k] \in Job /\ log[MatchOf(k)] \in Seq(Kinds)
  BY DEF TypeOK, Keys, MatchOf
<1>2. CASE \/ JobStart(k) \/ JobFetch(k) \/ JobFetchFails(k)
           \/ \E i \in Ids(k) : NotDelivered(k, i) \/ NoSink(k, i)
           \/ WriteProgressFails(k) \/ StopDisbandedFails(k)
  <2>1. UNCHANGED <<log, floor, seen, hushed, rows>>
    BY <1>2 DEF JobStart, JobFetch, JobFetchFails, NotDelivered, NoSink, WriteProgressFails,
                StopDisbandedFails, DbError
  <2>2. QED
    BY <2>1, FeedStutters
<1>3. CASE StopDisbanded(k)
  BY <1>3, FeedStutters DEF StopDisbanded, TypeOK, Row
<1>4. CASE JobMuted(k)
  <2>1. PICK i \in jobs[k].todo :
           /\ IsNext(k, i)
           /\ PhaseOf(k, i) \in jobs[k].muted
           /\ hushed' = [hushed EXCEPT ![k] = @ \union {<<i, PhaseOf(k, i)>>}]
    BY <1>4 DEF JobMuted
  <2>2. PhaseOf(k, i) \in {"start", "end"}
    BY <1>1, <2>1 DEF Job
  <2>3. i \in 1..Len(log[MatchOf(k)]) /\ Promise!SettledBefore(k, i)
    BY <1>4, <2>1, NextIsDue DEF JobMuted
  <2>4. UNCHANGED <<log, floor, seen, rows>>
    BY <1>4 DEF JobMuted
  <2>5. Promise!SwitchOff(k)
    BY <2>1, <2>2, <2>3, <2>4 DEF Promise!SwitchOff
  <2>6. QED
    BY <2>5 DEF Promise!Next
<1>5. CASE \E i \in Ids(k) : Delivered(k, i) \/ DeliveredUnconfirmed(k, i)
  <2>1. PICK i \in Ids(k) : Delivered(k, i) \/ DeliveredUnconfirmed(k, i)
    BY <1>5
  <2>2. /\ IsNext(k, i) /\ jobs[k].pc \in {"send", "fallback"}
        /\ seen' = [seen EXCEPT ![k] = @ \union {<<i, PhaseOf(k, i)>>}]
        /\ UNCHANGED <<log, floor, hushed, rows>>
    BY <2>1 DEF Delivered, DeliveredUnconfirmed, Attempt, Receive
  <2>3. i \in 1..Len(log[MatchOf(k)]) /\ Promise!SettledBefore(k, i)
    BY <2>2, NextIsDue
  <2>4. PhaseOf(k, i) \in {"text", "start", "end"}
    BY DEF PhaseOf
  <2>5. Promise!Announce(k)
    BY <2>2, <2>3, <2>4 DEF Promise!Announce
  <2>6. QED
    BY <2>5 DEF Promise!Next
<1>6. CASE WriteProgress(k)
  <2> DEFINE n == jobs[k].out.last
  <2>1. /\ jobs[k].pc = "write" /\ rows' = [rows EXCEPT ![k].cur = jobs[k].out]
        /\ UNCHANGED <<log, floor, seen, hushed>>
    BY <1>6 DEF WriteProgress
  <2>2. Safe(log[MatchOf(k)], floor[k], seen[k], hushed[k], n) /\ floor[k] \in Nat
    BY <2>1 DEF SafetyInv, JobIsSafe, TypeOK
  <2>3. n \in 0..Len(log[MatchOf(k)]) /\ Promise!SettledBefore(k, n + 1)
    <3> HIDE DEF n
    <3>1. n \in Nat /\ n <= Len(log[MatchOf(k)]) /\ (n + 1) - 1 = n
      BY <2>2 DEF Safe
    <3>2. QED
      BY <1>1, <2>2, <3>1 DEF Safe, Promise!SettledBefore, Promise!Settled
  <2>4. /\ rows'[k].cur.last = n
        /\ \A q \in Keys \ {k} : rows'[q] = rows[q]
    BY <2>1 DEF TypeOK, Row
  <2>5. [q \in Keys |-> rows'[q].cur.last] = [[q \in Keys |-> rows[q].cur.last] EXCEPT ![k] = n]
    BY <2>4
  <2>6. Promise!Move(k)
    BY <2>1, <2>3, <2>5 DEF Promise!Move
  <2>7. QED
    BY <2>6 DEF Promise!Next
<1>7. QED
  BY <1>2, <1>3, <1>4, <1>5, <1>6 DEF JobStep

LEMMA FeedNext ==
    ASSUME TypeOK, SafetyInv, TellingInv, [Next]_vars
    PROVE  [Promise!Next]_Promise!vars
<1> USE DEF env, history
<1>1. CASE UNCHANGED vars
  BY <1>1, FeedStutters DEF vars
<1>2. ASSUME NEW m \in Matches, NEW kind \in Kinds, Publish(m, kind)
      PROVE  [Promise!Next]_Promise!vars
  <2>1. Promise!Publish(m)
    BY <1>2 DEF Publish, Promise!Publish, Kinds
  <2>2. QED
    BY <2>1 DEF Promise!Next
<1>3. CASE Tick \/ \E m \in Matches : \E i \in Games(log[m]) : CompleteGame(m, i)
  BY <1>3, FeedStutters DEF Tick, CompleteGame
<1>4. ASSUME NEW c \in Cmds, StartInsert(c) PROVE [Promise!Next]_Promise!vars
  <2>0. PICK q \in Keys, n \in Nat : q = cmd[c].key /\ n = cmd[c].last
    BY DEF TypeOK, Command
  <2>1. /\ n \in Nat /\ log[MatchOf(q)] \in Seq(Kinds)
        /\ n <= Len(log[MatchOf(q)])
    BY <1>4, <2>0 DEF TypeOK, Keys, MatchOf, StartInsert, SafetyInv
  <2>2. UNCHANGED <<log, seen, hushed>>
    BY <1>4 DEF StartInsert
  <2>3. /\ rows'[q].cur = Upserted(q, n) /\ \A k \in Keys \ {q} : rows'[k] = rows[k]
    BY <1>4, <2>0 DEF StartInsert, TypeOK
  <2>4. CASE KeepsCursor(q)
    <3>1. floor' = floor /\ \A k \in Keys : rows'[k].cur = rows[k].cur
      BY <1>4, <2>0, <2>3, <2>4 DEF StartInsert, Upserted
    <3>2. QED
      BY <3>1, <2>2, FeedStutters
  <2>5. CASE ~KeepsCursor(q)
    <3>1. floor' = [floor EXCEPT ![q] = IF n > @ THEN n ELSE @]
      BY <1>4, <2>0, <2>5 DEF StartInsert
    <3>2. rows'[q].cur.last = n
      BY <2>3, <2>5 DEF Upserted, StartCursor
    <3>3. [k \in Keys |-> rows'[k].cur.last] = [[k \in Keys |-> rows[k].cur.last] EXCEPT ![q] = n]
      BY <2>3, <3>2
    <3>4. n \in 0..Len(log[MatchOf(q)])
      BY <2>1
    <3>5. Promise!Subscribe(q)
      BY <2>2, <3>1, <3>3, <3>4 DEF Promise!Subscribe
    <3>6. QED
      BY <3>5 DEF Promise!Next
  <2>6. QED
    BY <2>4, <2>5
<1>5. CASE \/ \E c \in Cmds : \/ \E k \in Keys : StartCheck(c, k)
                              \/ StartCount(c) \/ StartFetch(c) \/ StartAbort(c)
           \/ PollExpireFails \/ PollList \/ PollListFails \/ PollEnd \/ Crash
  BY <1>5, FeedStutters DEF StartCheck, StartCount, StartFetch, StartAbort, PollExpireFails,
                            PollList, PollListFails, PollEnd, Crash, DbError
<1>6. CASE \/ \E k \in Keys : Stop(k)
           \/ \E chat \in Chats : StopAll(chat)
           \/ PollExpire
  <2>1. \A k \in Keys : rows'[k] = rows[k] \/ rows'[k] = [rows[k] EXCEPT !.active = FALSE]
    <3>1. CASE \E k \in Keys : Stop(k)
      BY <3>1 DEF Stop, TypeOK
    <3>2. CASE \E chat \in Chats : StopAll(chat)
      BY <3>2 DEF StopAll
    <3>3. CASE PollExpire
      BY <3>3 DEF PollExpire
    <3>4. QED
      BY <1>6, <3>1, <3>2, <3>3
  <2>2. \A k \in Keys : rows'[k].cur = rows[k].cur
    BY <2>1 DEF TypeOK, Row
  <2>3. QED
    BY <1>6, <2>2, FeedStutters DEF Stop, StopAll, PollExpire
<1>7. QED
  BY <1>1, <1>2, <1>3, <1>4, <1>5, <1>6, FeedJobStep DEF Next, Environment, Commands, Poller

(* Every chat gets an ordered, at-least-once feed of its match: each step  *)
(* of the commands, the poller, its failures and its crashes is a step of  *)
(* ChatFeed, or changes nothing the feed shows.                            *)
THEOREM ListenerImplementsFeed == Spec => ImplementsChatFeed
<1>1. TypeOK /\ SafetyInv /\ TellingInv /\ [Next]_vars => [Promise!Next]_Promise!vars
  BY FeedNext
<1>2. QED
  BY <1>1, FeedInit, FeedInvariant, PTL DEF Spec, ImplementsChatFeed, Promise!Spec

------------------------------------------------------------------------------
(* The limit per chat.                                                     *)

QuotaInv ==
    \A chat \in Chats :
        /\ IsFiniteSet(ActiveIn(chat))
        /\ Cardinality(ActiveIn(chat)) + Cardinality(Passed(chat))
              <= MaxPerGroup + Cardinality(Cmds) - 1

LEMMA PassedIsFinite ==
    \A chat : /\ IsFiniteSet(Passed(chat)) /\ Cardinality(Passed(chat)) \in Nat
              /\ Cardinality(Cmds) \in Nat /\ Cardinality(Passed(chat)) <= Cardinality(Cmds)
<1>1. \A chat : Passed(chat) \subseteq Cmds
  BY DEF Passed
<1>2. QED
  BY <1>1, KeysAssumption, FS_Subset, FS_CardinalityType

(* Nobody becomes active and nobody passes the check.                      *)
LEMMA QuotaShrinks ==
    ASSUME QuotaInv,
           \A chat \in Chats : ActiveIn(chat)' \subseteq ActiveIn(chat)
                            /\ Passed(chat)' \subseteq Passed(chat)
    PROVE  QuotaInv'
<1> SUFFICES ASSUME NEW chat \in Chats
             PROVE  /\ IsFiniteSet(ActiveIn(chat)')
                    /\ Cardinality(ActiveIn(chat)') + Cardinality(Passed(chat)')
                          <= MaxPerGroup + Cardinality(Cmds) - 1
  BY DEF QuotaInv
<1>1. /\ IsFiniteSet(ActiveIn(chat)') /\ Cardinality(ActiveIn(chat)') <= Cardinality(ActiveIn(chat))
      /\ Cardinality(ActiveIn(chat)') \in Nat /\ Cardinality(ActiveIn(chat)) \in Nat
  BY FS_Subset, FS_CardinalityType DEF QuotaInv
<1>2. /\ Cardinality(Passed(chat)') <= Cardinality(Passed(chat))
      /\ Cardinality(Passed(chat)') \in Nat /\ Cardinality(Passed(chat)) \in Nat
  BY PassedIsFinite, FS_Subset, FS_CardinalityType
<1>3. Cardinality(ActiveIn(chat)) + Cardinality(Passed(chat)) <= MaxPerGroup + Cardinality(Cmds) - 1
  BY DEF QuotaInv
<1>4. MaxPerGroup \in Nat /\ Cardinality(Cmds) \in Nat
  BY LimitsAssumption, PassedIsFinite
<1>5. QED
  BY <1>1, <1>2, <1>3, <1>4
(* A handler passes the check: there is room for one listener, and no more *)
(* handlers than there are.                                                *)
LEMMA QuotaAtCount ==
    ASSUME TypeOK, QuotaInv, NEW c \in Cmds, StartCount(c)
    PROVE  QuotaInv'
<1>1. rows' = rows /\ now' = now /\ cmd[c].key \in Keys
  BY DEF StartCount, env, TypeOK, Command
<1>2. \A chat : ActiveIn(chat)' = ActiveIn(chat)
  BY <1>1 DEF ActiveIn, EffectivelyActive
<1>3. CASE BelowLimit(cmd[c].key)
  <2>1. \A d \in Cmds \ {c} : cmd'[d] = cmd[d]
    BY DEF StartCount, TypeOK
  <2>2. cmd'[c].key = cmd[c].key
    BY <1>3 DEF StartCount, TypeOK, Command
  <2> SUFFICES ASSUME NEW chat \in Chats
               PROVE  /\ IsFiniteSet(ActiveIn(chat)')
                      /\ Cardinality(ActiveIn(chat)') + Cardinality(Passed(chat)')
                            <= MaxPerGroup + Cardinality(Cmds) - 1
    BY DEF QuotaInv
  <2>3. CASE chat = ChatOf(cmd[c].key)
    <3>1. Cardinality(ActiveIn(chat)) < MaxPerGroup
      BY <1>3, <2>3 DEF BelowLimit
    <3>2. /\ IsFiniteSet(ActiveIn(chat)) /\ Cardinality(ActiveIn(chat)) \in Nat
          /\ MaxPerGroup \in Nat
      BY FS_CardinalityType, LimitsAssumption DEF QuotaInv
    <3>3. /\ Cardinality(Passed(chat)') <= Cardinality(Cmds)
          /\ Cardinality(Passed(chat)') \in Nat /\ Cardinality(Cmds) \in Nat
      <4>1. Passed(chat)' \subseteq Cmds
        BY DEF Passed
      <4>2. QED
        BY <4>1, KeysAssumption, FS_Subset, FS_CardinalityType
    <3>4. QED
      BY <1>2, <3>1, <3>2, <3>3
  <2>4. CASE chat # ChatOf(cmd[c].key)
    <3>1. Passed(chat)' = Passed(chat)
      BY <2>1, <2>2, <2>4 DEF Passed, ChatOf
    <3>2. QED
      BY <1>2, <3>1 DEF QuotaInv
  <2>5. QED
    BY <2>3, <2>4
<1>4. CASE ~BelowLimit(cmd[c].key)
  <2>1. cmd' = [cmd EXCEPT ![c] = NoCommand]
    BY <1>4 DEF StartCount
  <2>2. \A chat : Passed(chat)' \subseteq Passed(chat)
    BY <2>1 DEF Passed, NoCommand, TypeOK
  <2>3. QED
    BY <1>2, <2>2, QuotaShrinks
<1>5. QED
  BY <1>3, <1>4

(* A handler inserts its row: at most one more listener, one handler less. *)
LEMMA QuotaAtInsert ==
    ASSUME TypeOK, QuotaInv, NEW c \in Cmds, StartInsert(c)
    PROVE  QuotaInv'
<1>0. PICK q \in Keys : q = cmd[c].key
  BY DEF TypeOK, Command
<1>1. now' = now /\ cmd' = [cmd EXCEPT ![c] = NoCommand]
  BY DEF StartInsert, env
<1>2. \A k \in Keys \ {q} : rows'[k] = rows[k]
  BY <1>0 DEF StartInsert, TypeOK
<1>3. \A chat : Passed(chat)' = Passed(chat) \ {c}
  BY <1>1 DEF Passed, NoCommand, TypeOK
<1> SUFFICES ASSUME NEW chat \in Chats
             PROVE  /\ IsFiniteSet(ActiveIn(chat)')
                    /\ Cardinality(ActiveIn(chat)') + Cardinality(Passed(chat)')
                          <= MaxPerGroup + Cardinality(Cmds) - 1
  BY DEF QuotaInv
<1>4. /\ IsFiniteSet(ActiveIn(chat)) /\ Cardinality(ActiveIn(chat)) \in Nat
      /\ IsFiniteSet(Passed(chat)) /\ Cardinality(Passed(chat)) \in Nat
      /\ MaxPerGroup \in Nat /\ Cardinality(Cmds) \in Nat
  BY PassedIsFinite, LimitsAssumption, FS_CardinalityType DEF QuotaInv
<1>5. Cardinality(ActiveIn(chat)) + Cardinality(Passed(chat)) <= MaxPerGroup + Cardinality(Cmds) - 1
  BY DEF QuotaInv
<1>6. CASE chat = ChatOf(q)
  <2>1. ActiveIn(chat)' \subseteq ActiveIn(chat) \union {q}
    BY <1>1, <1>2 DEF ActiveIn, EffectivelyActive, ChatOf
  <2>2. /\ IsFiniteSet(ActiveIn(chat) \union {q})
        /\ Cardinality(ActiveIn(chat) \union {q}) <= Cardinality(ActiveIn(chat)) + 1
        /\ Cardinality(ActiveIn(chat) \union {q}) \in Nat
    <3>1. CASE q \in ActiveIn(chat)
      <4>1. ActiveIn(chat) \union {q} = ActiveIn(chat)
        BY <3>1
      <4>2. /\ Cardinality(ActiveIn(chat) \union {q}) = Cardinality(ActiveIn(chat))
            /\ IsFiniteSet(ActiveIn(chat) \union {q})
        BY <4>1, <1>4, Zenon
      <4>3. QED
        BY <4>2, <1>4
    <3>2. CASE q \notin ActiveIn(chat)
      BY <3>2, <1>4, FS_AddElement
    <3>3. QED
      BY <3>1, <3>2
  <2>3. /\ IsFiniteSet(ActiveIn(chat)') /\ Cardinality(ActiveIn(chat)') \in Nat
        /\ Cardinality(ActiveIn(chat)') <= Cardinality(ActiveIn(chat) \union {q})
    BY <2>1, <2>2, FS_Subset, FS_CardinalityType
  <2>4. Cardinality(Passed(chat)') = Cardinality(Passed(chat)) - 1
    <3>1. c \in Passed(chat)
      BY <1>0, <1>6 DEF Passed, StartInsert
    <3>2. QED
      BY <1>3, <1>4, <3>1, FS_RemoveElement
  <2>5. QED
    BY <1>4, <1>5, <2>2, <2>3, <2>4
<1>7. CASE chat # ChatOf(q)
  <2>1. ActiveIn(chat)' = ActiveIn(chat)
    BY <1>1, <1>2, <1>7 DEF ActiveIn, EffectivelyActive, ChatOf
  <2>2. Cardinality(Passed(chat)') <= Cardinality(Passed(chat)) /\ Cardinality(Passed(chat)') \in Nat
    BY <1>3, <1>4, FS_Subset, FS_CardinalityType
  <2>3. QED
    BY <1>4, <1>5, <2>1, <2>2
<1>8. QED
  BY <1>6, <1>7

LEMMA QuotaNext == TypeOK /\ QuotaInv /\ [Next]_vars => QuotaInv'
<1> SUFFICES ASSUME TypeOK, QuotaInv, [Next]_vars PROVE QuotaInv'
  OBVIOUS
<1> USE DEF env, history
<1>1. CASE \E c \in Cmds : StartCount(c) \/ StartInsert(c)
  BY <1>1, QuotaAtCount, QuotaAtInsert
<1>2. CASE ~\E c \in Cmds : StartCount(c) \/ StartInsert(c)
  <2>1. \A chat : Passed(chat)' \subseteq Passed(chat)
    <3>1. ASSUME NEW c \in Cmds, NEW k \in Keys, StartCheck(c, k)
          PROVE  \A chat : Passed(chat)' \subseteq Passed(chat)
      BY <3>1 DEF StartCheck, Passed, TypeOK
    <3>2. ASSUME NEW c \in Cmds, StartFetch(c)
          PROVE  \A chat : Passed(chat)' \subseteq Passed(chat)
      <4>1. PICK n : cmd' = [cmd EXCEPT ![c].pc = "insert", ![c].last = n]
        BY <3>2 DEF StartFetch
      <4>2. /\ cmd[c] \in Command /\ cmd[c].pc = "fetch" /\ cmd'[c].key = cmd[c].key
            /\ \A d \in Cmds \ {c} : cmd'[d] = cmd[d]
        BY <3>2, <4>1 DEF StartFetch, TypeOK, Command
      <4>3. QED
        BY <4>2 DEF Passed
    <3>3. ASSUME NEW c \in Cmds, StartAbort(c)
          PROVE  \A chat : Passed(chat)' \subseteq Passed(chat)
      BY <3>3 DEF StartAbort, Passed, NoCommand, TypeOK
    <3>4. CASE Crash
      BY <3>4 DEF Crash, Passed, NoCommand
    <3>5. CASE UNCHANGED cmd
      BY <3>5 DEF Passed
    <3>6. CASE Environment
      BY <3>6, <3>5 DEF Environment, Publish, CompleteGame, Tick
    <3>7. CASE Poller
      <4>1. CASE \E k \in Keys : JobStep(k)
        BY <4>1, <3>5 DEF JobStep, JobStart, JobFetch, JobFetchFails, JobMuted, Delivered,
           DeliveredUnconfirmed, NotDelivered, NoSink, WriteProgress, WriteProgressFails,
           StopDisbanded, StopDisbandedFails
      <4>2. CASE PollExpire \/ PollExpireFails \/ PollList \/ PollListFails \/ PollEnd
        BY <4>2, <3>5 DEF PollExpire, PollExpireFails, PollList, PollListFails, PollEnd
      <4>3. QED
        BY <3>7, <4>1, <4>2 DEF Poller
    <3>8. CASE (\E k \in Keys : Stop(k)) \/ \E chat \in Chats : StopAll(chat)
      BY <3>8, <3>5 DEF Stop, StopAll
    <3>9. QED
      BY <1>2, <3>1, <3>2, <3>3, <3>4, <3>5, <3>6, <3>7, <3>8 DEF Next, Commands, vars
  <2>2. ASSUME NEW k \in Keys
        PROVE  /\ rows'[k].active => rows[k].active
               /\ rows'[k].expires = rows[k].expires
    <3>1. rows[k] \in Row
      BY DEF TypeOK
    <3>2. CASE UNCHANGED rows
      BY <3>2
    <3>3. CASE rows'[k] = [rows[k] EXCEPT !.active = FALSE] \/ rows'[k] = rows[k]
      BY <3>1, <3>3 DEF Row
    <3>4. CASE Environment
      BY <3>2, <3>4 DEF Environment, Publish, CompleteGame, Tick
    <3>5. CASE Commands
      <4>1. CASE \E c \in Cmds : \/ \E q \in Keys : StartCheck(c, q)
                                 \/ StartFetch(c) \/ StartAbort(c)
        BY <4>1, <3>2 DEF StartCheck, StartFetch, StartAbort, DbError
      <4>2. CASE \E q \in Keys : Stop(q)
        BY <4>2, <3>3 DEF Stop, TypeOK
      <4>3. CASE \E chat \in Chats : StopAll(chat)
        BY <4>3, <3>3 DEF StopAll
      <4>4. QED
        BY <1>2, <3>5, <4>1, <4>2, <4>3 DEF Commands
    <3>6. CASE \E q \in Keys : JobStep(q)
      <4>1. PICK q \in Keys : JobStep(q)
        BY <3>6
      <4>2. CASE WriteProgress(q)
        BY <4>2, <3>1 DEF WriteProgress, TypeOK, Row
      <4>3. CASE StopDisbanded(q)
        BY <4>3, <3>3 DEF StopDisbanded, TypeOK
      <4>4. CASE ~WriteProgress(q) /\ ~StopDisbanded(q)
        BY <4>1, <4>4, <3>2 DEF JobStep, JobStart, JobFetch, JobFetchFails, JobMuted, Delivered,
           DeliveredUnconfirmed, NotDelivered, NoSink, WriteProgressFails, StopDisbandedFails
      <4>5. QED
        BY <4>2, <4>3, <4>4
    <3>7. CASE PollExpire
      BY <3>3, <3>7 DEF PollExpire
    <3>8. CASE PollExpireFails \/ PollList \/ PollListFails \/ PollEnd \/ Crash \/ UNCHANGED vars
      BY <3>2, <3>8 DEF PollExpireFails, PollList, PollListFails, PollEnd, Crash, vars
    <3>9. QED
      BY <3>4, <3>5, <3>6, <3>7, <3>8 DEF Next, Poller
  <2>3. now' \in Nat /\ now \in Nat /\ now <= now'
    <3>1. now' = now \/ now' = now + 1
      <4>1. CASE UNCHANGED now
        BY <4>1
      <4>2. CASE Environment
        BY <4>2 DEF Environment, Publish, CompleteGame, Tick
      <4>3. CASE Commands
        BY <4>1, <4>3 DEF Commands, StartCheck, StartCount, StartFetch, StartInsert, StartAbort,
           Stop, StopAll, DbError
      <4>4. CASE \E q \in Keys : JobStep(q)
        BY <4>1, <4>4 DEF JobStep, JobStart, JobFetch, JobFetchFails, JobMuted, Delivered,
           DeliveredUnconfirmed, NotDelivered, NoSink, WriteProgress, WriteProgressFails,
           StopDisbanded, StopDisbandedFails
      <4>5. CASE PollExpire \/ PollExpireFails \/ PollList \/ PollListFails \/ PollEnd \/ Crash
                 \/ UNCHANGED vars
        BY <4>1, <4>5 DEF PollExpire, PollExpireFails, PollList, PollListFails, PollEnd, Crash, vars
      <4>6. QED
        BY <4>2, <4>3, <4>4, <4>5 DEF Next, Poller
    <3>2. QED
      BY <3>1 DEF TypeOK
  <2>4. \A chat : ActiveIn(chat)' \subseteq ActiveIn(chat)
    <3>1. \A k \in Keys : EffectivelyActive(k)' => EffectivelyActive(k)
      BY <2>2, <2>3 DEF EffectivelyActive, TypeOK, Row
    <3>2. QED
      BY <3>1 DEF ActiveIn, ChatOf
  <2>5. QED
    BY <2>1, <2>4, QuotaShrinks
<1>3. QED
  BY <1>1, <1>2

LEMMA QuotaInit == Init => QuotaInv
<1> SUFFICES ASSUME Init, NEW chat \in Chats
             PROVE  /\ IsFiniteSet(ActiveIn(chat))
                    /\ Cardinality(ActiveIn(chat)) + Cardinality(Passed(chat))
                          <= MaxPerGroup + Cardinality(Cmds) - 1
  BY DEF QuotaInv
<1>1. ActiveIn(chat) = {} /\ Passed(chat) = {}
  BY DEF Init, NothingYet, ActiveIn, EffectivelyActive, Passed, NoRow, NoCommand
<1>2. Cardinality({}) = 0 /\ IsFiniteSet({})
  BY FS_EmptySet
<1>3. MaxPerGroup \in Nat \ {0} /\ Cardinality(Cmds) \in Nat
  BY LimitsAssumption, PassedIsFinite
<1>4. QED
  BY <1>1, <1>2, <1>3

(* The limit of listeners per chat is checked and then acted on behind two *)
(* awaits; however many handlers run at once, it is exceeded by no more    *)
(* than all of them but one.                                               *)
THEOREM OvershootIsBounded == Spec => []QuotaOvershootBounded
<1>1. QuotaInv => QuotaOvershootBounded
  BY DEF QuotaInv, QuotaOvershootBounded
<1>2. QED
  BY <1>1, TypeInit, TypeNext, QuotaInit, QuotaNext, PTL DEF Spec
==============================================================================
