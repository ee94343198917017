------------------------------- MODULE Accounts -------------------------------
(***************************************************************************)
(* Who is bound to whom, and who is updated when.  Commands and IRC        *)
(* messages are handled concurrently, each database statement (or          *)
(* transaction) at a time and on any of the connections; the scheduler     *)
(* reads the due users, evaluates them, and writes their next times.       *)
(* A name and the user it belongs to are one value; a name of nobody       *)
(* behaves like an API call that fails.                                    *)
(***************************************************************************)
EXTENDS Naturals, FiniteSets

CONSTANTS
    Qqs, Users, Codes, Nil,
    Databases,      \* what earlier runs may have left
    Tasks,          \* handlers of commands, queries and IRC messages
    MaxCommands     \* bound: commands, messages, config edits, restarts
ASSUME NilAssumption == Nil \notin Qqs /\ Nil \notin Users /\ Nil \notin Codes

Request == [qq: Qqs, user: Users, fresh: BOOLEAN]
Confirmation == {"none", "fresh", "expired"}
Time == {"none", "due", "later"}
Database == [bindings: [Qqs -> Users \union {Nil}], codes: [Codes -> Request \union {Nil}],
             unbinding: [Qqs -> Confirmation], schedule: [Users -> Time]]
Injective(b) == \A q, r \in Qqs : b[q] = b[r] => q = r \/ b[q] = Nil
ASSUME DatabaseAssumption == Databases \subseteq {d \in Database : Injective(d.bindings)}

VARIABLES
    bindings,       \* user_bindings: [Qqs -> Users or Nil]
    codes,          \* pending_binds: [Codes -> Request or Nil]
    unbinding,      \* pending_unbind: [Qqs -> State]
    schedule,       \* user_next_update: [Users -> Due]
    irc,            \* does the configuration ask for verification over IRC?
    task,           \* [Tasks -> Task]
    sched,          \* the scheduler's loop
    commands,       \* commands so far
    granted         \* history: <<qq, user>> that may be bound
vars == <<bindings, codes, unbinding, schedule, irc, task, sched, commands, granted>>
tables == <<bindings, codes, unbinding, schedule>>

BindSteps   == {"check", "pending", "issue", "bind", "verify", "adopt"}
QuerySteps  == {"resolve", "upstream"}
UnbindSteps == {"asked", "select", "delete", "count", "drop", "clear", "confirm", "set"}
IrcSteps    == {"read", "verify", "answer"}
Task == [pc: {"idle"} \union BindSteps \union QuerySteps \union UnbindSteps \union IrcSteps,
         qq: Qqs \union {Nil}, user: Users \union {Nil}, code: Codes \union {Nil}]
Idle == [pc |-> "idle", qq |-> Nil, user |-> Nil, code |-> Nil]
Asleep == [pc |-> "sleep", todo |-> {}]

Bound(u) == \E q \in Qqs : bindings[q] = u
Pairs == {<<q, bindings[q]>> : q \in {q \in Qqs : bindings[q] # Nil}}

Init ==
    /\ \E d \in Databases :
         /\ bindings = d.bindings /\ codes = d.codes
         /\ unbinding = d.unbinding /\ schedule = d.schedule
    /\ irc \in BOOLEAN
    /\ task = [t \in Tasks |-> Idle]
    /\ sched = Asleep
    /\ commands = 0
    /\ granted = Pairs

------------------------------------------------------------------------------
At(t, pc)   == task[t].pc = pc
Goto(t, pc) == task' = [task EXCEPT ![t].pc = pc]
End(t)      == task' = [task EXCEPT ![t] = Idle]
Keep        == UNCHANGED <<irc, sched, commands>>
Inputs      == UNCHANGED <<tables, irc, sched, granted>>

Start(t, new) ==
    /\ At(t, "idle") /\ commands < MaxCommands
    /\ commands' = commands + 1
    /\ task' = [task EXCEPT ![t] = new]
    /\ Inputs

BindCommand(t, q, u) == Start(t, [Idle EXCEPT !.pc = "check", !.qq = q, !.user = u])
QueryCommand(t, q)   == Start(t, [Idle EXCEPT !.pc = "resolve", !.qq = q])
UnbindCommand(t, q)  == Start(t, [Idle EXCEPT !.pc = "asked", !.qq = q])
IrcMessage(t, u, c)  == Start(t, [Idle EXCEPT !.pc = "read", !.user = u, !.code = c])

(* A statement or a call fails: the handler says so and ends.  On the way   *)
(* to a verified binding it first answers.                                  *)
Fails(t) ==
    /\ ~At(t, "idle")
    /\ IF At(t, "verify") THEN Goto(t, "answer") ELSE End(t)
    /\ UNCHANGED <<tables, granted>> /\ Keep

------------------------------------------------------------------------------
(* Bind.  Without IRC the command itself is the permission.                 *)

Check(t) ==
    /\ At(t, "check")
    /\ IF bindings[task[t].qq] # Nil
       THEN End(t) /\ UNCHANGED granted
       ELSE IF irc
       THEN Goto(t, "pending") /\ UNCHANGED granted
       ELSE Goto(t, "bind") /\ granted' = granted \union {<<task[t].qq, task[t].user>>}
    /\ UNCHANGED tables /\ Keep

HasPending(q) == \E c \in Codes : codes[c] # Nil /\ codes[c].qq = q /\ codes[c].fresh

LookForPending(t) ==
    /\ At(t, "pending")
    /\ IF HasPending(task[t].qq) THEN End(t) ELSE Goto(t, "issue")
    /\ UNCHANGED <<tables, granted>> /\ Keep

(* Any code may come up, also one in use: its row is replaced.              *)
Issue(t) ==
    /\ At(t, "issue")
    /\ \E c \in Codes :
         codes' = [codes EXCEPT ![c] = [qq |-> task[t].qq, user |-> task[t].user, fresh |-> TRUE]]
    /\ End(t)
    /\ UNCHANGED <<bindings, unbinding, schedule, granted>> /\ Keep

(* Slip: the user's other binding is not looked for.                        *)
BoundToUnchecked(q, u) == [bindings EXCEPT ![q] = u]

(* Storage::bind, one transaction: nothing if u is bound to another QQ; a   *)
(* binding that q had is replaced.                                          *)
BoundTo(q, u) ==
    IF \E r \in Qqs \ {q} : bindings[r] = u THEN bindings ELSE [bindings EXCEPT ![q] = u]

Bind(t) ==
    /\ At(t, "bind") \/ At(t, "verify") \/ At(t, "adopt")
    /\ bindings' = BoundTo(task[t].qq, task[t].user)
    /\ IF At(t, "verify") THEN Goto(t, "answer") ELSE End(t)
    /\ UNCHANGED <<codes, unbinding, schedule, granted>> /\ Keep

(* resolve_binding, before a query about a QQ: without a binding another    *)
(* bot is asked, and what it answers is bound.  The binding is not looked   *)
(* at again.  No answer ends the query.                                     *)
Resolve(t) ==
    /\ At(t, "resolve")
    /\ IF bindings[task[t].qq] # Nil THEN End(t) ELSE Goto(t, "upstream")
    /\ UNCHANGED <<tables, granted>> /\ Keep

AskUpstream(t) ==
    /\ At(t, "upstream")
    /\ \E u \in Users :
         /\ task' = [task EXCEPT ![t].pc = "adopt", ![t].user = u]
         /\ granted' = granted \union {<<task[t].qq, u>>}
    /\ UNCHANGED tables /\ Keep

(* A private message over IRC that holds a code.  The request is read, then *)
(* osu! is asked for the user's id.                                         *)

Reads(t, r) == task' = [task EXCEPT ![t].pc = "verify", ![t].qq = r.qq, ![t].user = r.user]

(* Slip: any sender may verify.                                             *)
ReadFromAnyone(t) ==
    /\ At(t, "read")
    /\ LET r == codes[task[t].code]
       IN  IF r = Nil \/ ~r.fresh THEN End(t) ELSE Reads(t, r)
    /\ UNCHANGED <<tables, granted>> /\ Keep

Read(t) ==
    /\ At(t, "read")
    /\ LET r == codes[task[t].code]
       IN  IF r = Nil \/ ~r.fresh
           THEN End(t) /\ UNCHANGED granted
           ELSE IF r.user # task[t].user
           THEN Goto(t, "answer") /\ UNCHANGED granted
           ELSE Reads(t, r) /\ granted' = granted \union {<<r.qq, r.user>>}
    /\ UNCHANGED tables /\ Keep

(* The request goes when the answer arrived.                                *)
Answer(t) ==
    /\ At(t, "answer")
    /\ codes' = [codes EXCEPT ![task[t].code] = Nil]
    /\ End(t)
    /\ UNCHANGED <<bindings, unbinding, schedule, granted>> /\ Keep

------------------------------------------------------------------------------
(* Unbind: the first command asks, a second within the window removes.      *)

LookForConfirmation(t) ==
    /\ At(t, "asked")
    /\ Goto(t, IF unbinding[task[t].qq] = "fresh" THEN "select" ELSE "confirm")
    /\ UNCHANGED <<tables, granted>> /\ Keep

(* Storage::unbind, four statements.                                        *)
SelectUser(t) ==
    /\ At(t, "select")
    /\ task' = [task EXCEPT ![t].pc = "delete", ![t].user = bindings[task[t].qq]]
    /\ UNCHANGED <<tables, granted>> /\ Keep

Delete(t) ==
    /\ At(t, "delete")
    /\ bindings' = [bindings EXCEPT ![task[t].qq] = Nil]
    /\ Goto(t, IF task[t].user = Nil THEN "clear" ELSE "count")
    /\ UNCHANGED <<codes, unbinding, schedule, granted>> /\ Keep

Count(t) ==
    /\ At(t, "count")
    /\ Goto(t, IF Bound(task[t].user) THEN "clear" ELSE "drop")
    /\ UNCHANGED <<tables, granted>> /\ Keep

Drop(t) ==
    /\ At(t, "drop")
    /\ schedule' = [schedule EXCEPT ![task[t].user] = "none"]
    /\ Goto(t, "clear")
    /\ UNCHANGED <<bindings, codes, unbinding, granted>> /\ Keep

Clear(t) ==
    /\ At(t, "clear")
    /\ unbinding' = [unbinding EXCEPT ![task[t].qq] = "none"]
    /\ End(t)
    /\ UNCHANGED <<bindings, codes, schedule, granted>> /\ Keep

Confirm(t) ==
    /\ At(t, "confirm")
    /\ IF bindings[task[t].qq] = Nil THEN End(t) ELSE Goto(t, "set")
    /\ UNCHANGED <<tables, granted>> /\ Keep

Set(t) ==
    /\ At(t, "set")
    /\ unbinding' = [unbinding EXCEPT ![task[t].qq] = "fresh"]
    /\ End(t)
    /\ UNCHANGED <<bindings, codes, schedule, granted>> /\ Keep

Handle(t) ==
    \/ Check(t) \/ LookForPending(t) \/ Issue(t) \/ Bind(t) \/ Read(t) \/ Answer(t)
    \/ Resolve(t) \/ AskUpstream(t)
    \/ LookForConfirmation(t) \/ SelectUser(t) \/ Delete(t) \/ Count(t) \/ Drop(t) \/ Clear(t)
    \/ Confirm(t) \/ Set(t)

------------------------------------------------------------------------------
(* The scheduler: one pass over the due users, then perhaps the cleanup.    *)

DueUsers == {u \in Users : schedule[u] = "due" \/ (schedule[u] = "none" /\ Bound(u))}

GetDueUsers ==
    /\ sched.pc = "sleep"
    /\ \E found \in {DueUsers, {}} :       \* the query may fail
         sched' = [pc |-> IF found = {} THEN "clean" ELSE "write", todo |-> found]
    /\ UNCHANGED <<tables, irc, task, commands, granted>>

Evaluated(u) ==
    sched' = [sched EXCEPT !.todo = @ \ {u}, !.pc = IF sched.todo = {u} THEN "clean" ELSE @]

(* After all evaluations: the next time of each user; now, after a failure. *)
SetNextUpdate(u, time) ==
    /\ sched.pc = "write" /\ u \in sched.todo
    /\ schedule' = [schedule EXCEPT ![u] = time]
    /\ Evaluated(u)
    /\ UNCHANGED <<bindings, codes, unbinding, irc, task, commands, granted>>

WriteFails(u) ==
    /\ sched.pc = "write" /\ u \in sched.todo
    /\ Evaluated(u)
    /\ UNCHANGED <<tables, irc, task, commands, granted>>

(* Slip: rows of unbound users stay.                                        *)
KeptSchedule == schedule

Pruned == [u \in Users |-> IF Bound(u) THEN schedule[u] ELSE "none"]

(* try_cleanup, once a day: rows of unbound users, expired requests.  Each  *)
(* of the three may fail.                                                   *)
Cleanup(parts) ==
    /\ sched.pc = "clean"
    /\ sched' = Asleep
    /\ schedule' = IF "schedule" \in parts THEN Pruned ELSE schedule
    /\ codes' = IF "codes" \in parts
                THEN [c \in Codes |-> IF codes[c] # Nil /\ ~codes[c].fresh THEN Nil ELSE codes[c]]
                ELSE codes
    /\ unbinding' = IF "unbinding" \in parts
                    THEN [q \in Qqs |-> IF unbinding[q] = "expired" THEN "none" ELSE unbinding[q]]
                    ELSE unbinding
    /\ UNCHANGED <<bindings, irc, task, commands, granted>>
Parts == {"schedule", "codes", "unbinding"}

------------------------------------------------------------------------------
(* Time passes for each row by itself.                                      *)
BecomesDue(u) ==
    /\ schedule[u] = "later"
    /\ schedule' = [schedule EXCEPT ![u] = "due"]
    /\ UNCHANGED <<bindings, codes, unbinding, irc, task, sched, commands, granted>>
CodeExpires(c) ==
    /\ codes[c] # Nil /\ codes[c].fresh
    /\ codes' = [codes EXCEPT ![c].fresh = FALSE]
    /\ UNCHANGED <<bindings, unbinding, schedule, irc, task, sched, commands, granted>>
ConfirmationExpires(q) ==
    /\ unbinding[q] = "fresh"
    /\ unbinding' = [unbinding EXCEPT ![q] = "expired"]
    /\ UNCHANGED <<bindings, codes, schedule, irc, task, sched, commands, granted>>

Spend == commands < MaxCommands /\ commands' = commands + 1

(* trigger_update by a query of anybody, if not in cooldown.                *)
TriggerUpdate(u) ==
    /\ Spend
    /\ schedule' = [schedule EXCEPT ![u] = "due"]
    /\ UNCHANGED <<bindings, codes, unbinding, irc, task, sched, granted>>

(* A reload of the configuration resets the schedule.                       *)
Reconfigure(on) ==
    /\ Spend
    /\ irc' = on
    /\ schedule' = [u \in Users |-> IF schedule[u] = "none" THEN "none" ELSE "due"]
    /\ UNCHANGED <<bindings, codes, unbinding, task, sched, granted>>

(* The program stops anywhere and starts again on its database.             *)
Restart ==
    /\ Spend
    /\ task' = [t \in Tasks |-> Idle]
    /\ sched' = Asleep
    /\ UNCHANGED <<tables, irc, granted>>

Scheduler ==
    \/ GetDueUsers
    \/ \E u \in Users : SetNextUpdate(u, "later") \/ SetNextUpdate(u, "due") \/ WriteFails(u)
    \/ \E parts \in SUBSET Parts : Cleanup(parts)

Next ==
    \/ \E t \in Tasks, q \in Qqs, u \in Users : BindCommand(t, q, u)
    \/ \E t \in Tasks, q \in Qqs : UnbindCommand(t, q) \/ QueryCommand(t, q)
    \/ \E t \in Tasks, u \in Users, c \in Codes : IrcMessage(t, u, c)
    \/ \E t \in Tasks : Handle(t) \/ Fails(t)
    \/ Scheduler
    \/ \E u \in Users : BecomesDue(u) \/ TriggerUpdate(u)
    \/ \E c \in Codes : CodeExpires(c)
    \/ \E q \in Qqs : ConfirmationExpires(q)
    \/ \E on \in BOOLEAN : Reconfigure(on)
    \/ Restart

Spec == Init /\ [][Next]_vars

(* Handlers end, the scheduler's loop goes on, time passes; queries of the  *)
(* due users and full cleanups succeed now and then.                        *)
Fairness ==
    /\ \A t \in Tasks : WF_vars(Handle(t) \/ Fails(t))
    /\ WF_vars(Scheduler)
    /\ SF_vars(GetDueUsers /\ sched'.todo = DueUsers)
    /\ SF_vars(Cleanup(Parts))
    /\ \A u \in Users : WF_vars(BecomesDue(u))
FairSpec == Spec /\ Fairness

------------------------------------------------------------------------------
TypeOK ==
    /\ bindings \in [Qqs -> Users \union {Nil}]
    /\ codes \in [Codes -> Request \union {Nil}]
    /\ unbinding \in [Qqs -> Confirmation]
    /\ schedule \in [Users -> Time]
    /\ irc \in BOOLEAN
    /\ task \in [Tasks -> Task]
    /\ \A t \in Tasks :
         /\ task[t].pc \in BindSteps \union QuerySteps \union UnbindSteps => task[t].qq # Nil
         /\ task[t].pc \in BindSteps \union {"count", "drop"} => task[t].user # Nil
         /\ task[t].pc \in IrcSteps => task[t].code # Nil
    /\ sched \in [pc: {"sleep", "write", "clean"}, todo: SUBSET Users]
    /\ granted \subseteq Qqs \X Users

(* No osu! user is bound to two QQs, whichever handlers bind at once.  No   *)
(* index of the table says so, only the transaction of Storage::bind.       *)
OneQqPerUser == Injective(bindings)

(* A binding has a source: its command, while no verification was asked     *)
(* for; its user, who sent a code issued to this QQ for this user; or a bot *)
(* that was asked about a QQ found unbound.  None of the three writers      *)
(* mixes up the QQs and users of two requests, whatever expired, was        *)
(* replaced or was asked for since.                                         *)
GrantedOnly == Pairs \subseteq granted

(* A QQ keeps its user until it unbinds: the bind command answers so when   *)
(* there is a binding, but it, the code and the query of another bot bind   *)
(* long after they looked.                                                  *)
BindingIsKept ==
    [][\A q \in Qqs : bindings[q] # Nil => bindings'[q] \in {bindings[q], Nil}]_vars

(* Once triggers and restarts cease, the rows of a user who stays unbound   *)
(* disappear in the end, whether the unbind, a replaced binding, the        *)
(* scheduler's late write or a trigger left them.                           *)
UnboundLeaveSchedule ==
    \A u \in Users : <>[](~Bound(u)) => <>[](schedule[u] = "none")

(* A user who stays bound is evaluated again and again (restarts ceasing),  *)
(* also after an unbind that ran at the same time has deleted the new rows. *)
BoundAreEvaluated ==
    \A u \in Users : []<>(Bound(u) => u \in sched.todo)

(* The schedule follows the bindings in both directions.                    *)
ScheduleFollowsBindings == UnboundLeaveSchedule /\ BoundAreEvaluated
==============================================================================
