---------------------------- MODULE AccountsProofs ----------------------------
(***************************************************************************)
(* The bindings, for any QQs, users, codes and handlers: one QQ per user,  *)
(* and no binding that was not permitted.  A handler that is about to bind *)
(* has the permission already, which is the part the invariants lack.      *)
(***************************************************************************)
EXTENDS Accounts, TLAPS

Permitted ==
    \A t \in Tasks : task[t].pc \in {"bind", "verify", "adopt"} => <<task[t].qq, task[t].user>> \in granted

Tables == /\ bindings \in [Qqs -> Users \union {Nil}]
          /\ codes \in [Codes -> Request \union {Nil}]
          /\ unbinding \in [Qqs -> Confirmation]
          /\ schedule \in [Users -> Time]

(* A task with a new step, QQ, user and code is a task.                     *)
Sound(x) ==
    /\ x \in Task
    /\ x.pc \in BindSteps \union QuerySteps \union UnbindSteps => x.qq # Nil
    /\ x.pc \in BindSteps \union {"count", "drop"} => x.user # Nil
    /\ x.pc \in IrcSteps => x.code # Nil

TasksOK == task \in [Tasks -> Task] /\ (\A t \in Tasks : Sound(task[t])) /\ Permitted

Steps == {"idle"} \union BindSteps \union QuerySteps \union UnbindSteps \union IrcSteps

LEMMA IdleSound == Sound(Idle)
BY DEF Sound, Idle, Task, BindSteps, QuerySteps, UnbindSteps, IrcSteps

LEMMA SoundGoto ==
    ASSUME NEW x \in Task, NEW pc \in Steps
    PROVE  /\ [x EXCEPT !.pc = pc] \in Task
           /\ [x EXCEPT !.pc = pc].pc = pc
           /\ [x EXCEPT !.pc = pc].qq = x.qq
           /\ [x EXCEPT !.pc = pc].user = x.user
           /\ [x EXCEPT !.pc = pc].code = x.code
BY DEF Task, Steps

(* One handler moves, and permissions only grow.                           *)
LEMMA TaskStep ==
    ASSUME TasksOK, granted \subseteq granted',
           NEW t \in Tasks, NEW x, Sound(x), task' = [task EXCEPT ![t] = x],
           x.pc \in {"bind", "verify", "adopt"} => <<x.qq, x.user>> \in granted'
    PROVE  TasksOK'
<1>1. x \in Task
  BY DEF Sound
<1>2. task' \in [Tasks -> Task]
  BY <1>1 DEF TasksOK
<1>3. \A s \in Tasks : task'[s] = IF s = t THEN x ELSE task[s]
  BY DEF TasksOK
<1>4. \A s \in Tasks : Sound(task'[s])
  BY <1>3 DEF TasksOK
<1>5. Permitted'
  BY <1>3 DEF TasksOK, Permitted
<1>6. QED
  BY <1>2, <1>4, <1>5 DEF TasksOK, Sound

LEMMA EndStep ==
    ASSUME TasksOK, granted \subseteq granted', NEW t \in Tasks, End(t)
    PROVE  TasksOK'
<1>1. Idle.pc = "idle"
  BY DEF Idle
<1>2. QED
  BY <1>1, IdleSound, TaskStep DEF End

LEMMA GotoStep ==
    ASSUME TasksOK, granted \subseteq granted', NEW t \in Tasks, NEW pc \in Steps, Goto(t, pc),
           pc \in BindSteps \union QuerySteps \union UnbindSteps => task[t].qq # Nil,
           pc \in BindSteps \union {"count", "drop"} => task[t].user # Nil,
           pc \in IrcSteps => task[t].code # Nil,
           pc \in {"bind", "verify", "adopt"} => <<task[t].qq, task[t].user>> \in granted'
    PROVE  TasksOK'
<1> DEFINE x == [task[t] EXCEPT !.pc = pc]
<1>1. task[t] \in Task
  BY DEF TasksOK
<1>2. x \in Task /\ x.pc = pc /\ x.qq = task[t].qq /\ x.user = task[t].user /\ x.code = task[t].code
  BY <1>1, SoundGoto
<1>3. Sound(x)
  BY <1>2 DEF Sound
<1>4. task' = [task EXCEPT ![t] = x]
  BY DEF Goto
<1> HIDE DEF x
<1>5. QED
  BY <1>2, <1>3, <1>4, TaskStep

TypeOfScheduler == sched \in [pc: {"sleep", "write", "clean"}, todo: SUBSET Users]

(* The inductive invariant: every handler holds what its step needs.       *)
IInv == /\ Tables /\ TasksOK /\ TypeOfScheduler
        /\ irc \in BOOLEAN /\ granted \subseteq Qqs \X Users
        /\ OneQqPerUser /\ GrantedOnly

LEMMA IInvImpliesTypeOK == IInv => TypeOK
BY DEF IInv, TypeOK, Tables, TasksOK, Sound, TypeOfScheduler

(* What a handler holds at the steps where it needs it.                    *)
LEMMA Held ==
    ASSUME TasksOK, NEW t \in Tasks
    PROVE  /\ task[t] \in Task
           /\ task[t].pc \in BindSteps \union QuerySteps \union UnbindSteps => task[t].qq \in Qqs
           /\ task[t].pc \in BindSteps \union {"count", "drop"} => task[t].user \in Users
           /\ task[t].pc \in IrcSteps => task[t].code \in Codes
BY DEF TasksOK, Sound, Task

LEMMA CheckTasks ==
    ASSUME TasksOK, granted \subseteq Qqs \X Users, NEW t \in Tasks, Check(t)
    PROVE  TasksOK' /\ granted \subseteq granted' /\ granted' \subseteq Qqs \X Users
<1>1. task[t].pc = "check" /\ task[t].pc \in BindSteps
  BY DEF Check, At, BindSteps
<1>2. task[t].qq \in Qqs /\ task[t].user \in Users
  BY <1>1, Held
<1>3. granted \subseteq granted' /\ granted' \subseteq Qqs \X Users
  BY <1>2 DEF Check
<1>4. task[t].qq # Nil /\ task[t].user # Nil
  BY <1>2, NilAssumption
<1>5. CASE End(t)
  BY <1>3, <1>5, EndStep
<1>6. CASE Goto(t, "pending")
  <2>1. "pending" \in Steps /\ "pending" \notin IrcSteps
    BY DEF Steps, BindSteps, QuerySteps, IrcSteps
  <2>2. QED
    BY <1>3, <1>4, <1>6, <2>1, GotoStep
<1>7. CASE Goto(t, "bind") /\ granted' = granted \union {<<task[t].qq, task[t].user>>}
  <2>1. "bind" \in Steps /\ "bind" \notin IrcSteps
    BY DEF Steps, BindSteps, QuerySteps, IrcSteps
  <2>2. <<task[t].qq, task[t].user>> \in granted'
    BY <1>7
  <2>3. QED
    BY <1>3, <1>4, <1>7, <2>1, <2>2, GotoStep
<1>8. QED
  BY <1>3, <1>5, <1>6, <1>7 DEF Check

LEMMA ReadTasks ==
    ASSUME TasksOK, Tables, granted \subseteq Qqs \X Users, NEW t \in Tasks, Read(t)
    PROVE  TasksOK' /\ granted \subseteq granted' /\ granted' \subseteq Qqs \X Users
<1> DEFINE r == codes[task[t].code]
<1>1. task[t].pc = "read" /\ task[t].pc \in IrcSteps
  BY DEF Read, At, IrcSteps
<1>2. task[t] \in Task /\ task[t].code \in Codes
  BY <1>1, Held
<1>3. r \in Request \union {Nil}
  BY <1>2 DEF Tables
<1>4. CASE End(t) /\ UNCHANGED granted
  BY <1>4, EndStep
<1>5. CASE Goto(t, "answer") /\ UNCHANGED granted
  <2>1. "answer" \in Steps /\ "answer" \notin BindSteps \union QuerySteps \union UnbindSteps
    BY DEF Steps, BindSteps, QuerySteps, UnbindSteps, IrcSteps
  <2>2. task[t].code # Nil
    BY <1>2, NilAssumption
  <2>3. QED
    BY <1>5, <2>1, <2>2, GotoStep
<1>6. CASE r # Nil /\ Reads(t, r) /\ granted' = granted \union {<<r.qq, r.user>>}
  <2>1. r.qq \in Qqs /\ r.user \in Users
    BY <1>3, <1>6 DEF Request
  <2> DEFINE x == [task[t] EXCEPT !.pc = "verify", !.qq = r.qq, !.user = r.user]
  <2>2. /\ x \in Task /\ x.pc = "verify" /\ x.qq = r.qq /\ x.user = r.user
        /\ x.code = task[t].code
    BY <1>2, <2>1 DEF Task, BindSteps
  <2>3. task' = [task EXCEPT ![t] = x]
    BY <1>6 DEF Reads
  <2>4. granted \subseteq granted' /\ granted' \subseteq Qqs \X Users /\ <<x.qq, x.user>> \in granted'
    BY <1>6, <2>1, <2>2
  <2> HIDE DEF x
  <2>5. Sound(x)
    BY <1>2, <2>1, <2>2, NilAssumption DEF Sound
  <2>6. QED
    BY <2>2, <2>3, <2>4, <2>5, TaskStep
<1>7. QED
  BY <1>4, <1>5, <1>6 DEF Read

LEMMA QueryTasks ==
    ASSUME TasksOK, granted \subseteq Qqs \X Users, NEW t \in Tasks, Resolve(t) \/ AskUpstream(t)
    PROVE  TasksOK' /\ granted \subseteq granted' /\ granted' \subseteq Qqs \X Users
<1>1. task[t].pc \in QuerySteps
  BY DEF Resolve, AskUpstream, At, QuerySteps
<1>2. task[t] \in Task /\ task[t].qq \in Qqs /\ task[t].qq # Nil
  BY <1>1, Held, NilAssumption
<1>3. CASE Resolve(t)
  <2>1. granted' = granted
    BY <1>3 DEF Resolve
  <2>2. CASE End(t)
    BY <2>1, <2>2, EndStep
  <2>3. CASE Goto(t, "upstream")
    <3>1. "upstream" \in Steps /\ "upstream" \notin BindSteps /\ "upstream" \notin IrcSteps
      BY DEF Steps, BindSteps, QuerySteps, UnbindSteps, IrcSteps
    <3>2. "upstream" \notin {"count", "drop"}
      OBVIOUS
    <3>3. QED
      BY <1>2, <2>1, <2>3, <3>1, <3>2, GotoStep
  <2>4. QED
    BY <1>3, <2>1, <2>2, <2>3 DEF Resolve
<1>4. ASSUME NEW u \in Users, task' = [task EXCEPT ![t].pc = "adopt", ![t].user = u],
             granted' = granted \union {<<task[t].qq, u>>}
      PROVE  TasksOK' /\ granted \subseteq granted' /\ granted' \subseteq Qqs \X Users
  <2> DEFINE x == [task[t] EXCEPT !.pc = "adopt", !.user = u]
  <2>1. x \in Task /\ x.pc = "adopt" /\ x.qq = task[t].qq /\ x.user = u
    BY <1>2 DEF Task, BindSteps
  <2>2. task' = [task EXCEPT ![t] = x]
    BY <1>4
  <2>3. "adopt" \notin IrcSteps
    BY DEF IrcSteps
  <2>4. granted \subseteq granted' /\ granted' \subseteq Qqs \X Users /\ <<x.qq, x.user>> \in granted'
    BY <1>2, <1>4, <2>1
  <2> HIDE DEF x
  <2>5. Sound(x)
    BY <1>2, <2>1, <2>3, NilAssumption DEF Sound
  <2>6. QED
    BY <2>1, <2>2, <2>4, <2>5, TaskStep
<1>5. QED
  BY <1>3, <1>4 DEF AskUpstream

(* The other steps of a handler leave the permissions alone.               *)
LEMMA BindTasks ==
    ASSUME TasksOK, NEW t \in Tasks, LookForPending(t) \/ Issue(t) \/ Bind(t) \/ Answer(t)
    PROVE  TasksOK' /\ granted' = granted
<1>1. granted' = granted
  BY DEF LookForPending, Issue, Bind, Answer
<1>2. granted \subseteq granted'
  BY <1>1
<1>3. CASE End(t)
  BY <1>1, <1>2, <1>3, EndStep
<1>4. CASE At(t, "pending") /\ Goto(t, "issue")
  <2>1. "issue" \in Steps /\ "issue" \notin IrcSteps /\ task[t].pc \in BindSteps
    BY <1>4 DEF Steps, BindSteps, QuerySteps, IrcSteps, At
  <2>2. task[t].qq # Nil /\ task[t].user # Nil
    BY <2>1, Held, NilAssumption
  <2>3. QED
    BY <1>1, <1>2, <1>4, <2>1, <2>2, GotoStep
<1>5. CASE At(t, "verify") /\ Goto(t, "answer")
  <2>1. /\ "answer" \in Steps /\ "answer" \notin BindSteps \union QuerySteps \union UnbindSteps
        /\ task[t].pc \in IrcSteps
    BY <1>5 DEF Steps, BindSteps, QuerySteps, UnbindSteps, IrcSteps, At
  <2>2. task[t].code # Nil
    BY <2>1, Held, NilAssumption
  <2>3. QED
    BY <1>1, <1>2, <1>5, <2>1, <2>2, GotoStep
<1>6. QED
  BY <1>3, <1>4, <1>5 DEF LookForPending, Issue, Bind, Answer

UnbindHandle(t) ==
    \/ LookForConfirmation(t) \/ SelectUser(t) \/ Delete(t) \/ Count(t) \/ Drop(t) \/ Clear(t)
    \/ Confirm(t) \/ Set(t)

LEMMA UnbindTasks ==
    ASSUME TasksOK, Tables, NEW t \in Tasks, UnbindHandle(t)
    PROVE  TasksOK' /\ granted' = granted
<1> USE DEF UnbindHandle
<1>1. granted' = granted
  BY DEF LookForConfirmation, SelectUser, Delete, Count, Drop, Clear, Confirm, Set
<1>2. granted \subseteq granted'
  BY <1>1
<1>3. task[t].pc \in UnbindSteps
  BY DEF LookForConfirmation, SelectUser, Delete, Count, Drop, Clear, Confirm, Set, At, UnbindSteps
<1>4. task[t] \in Task /\ task[t].qq \in Qqs /\ task[t].qq # Nil
  BY <1>3, Held, NilAssumption
<1>5. CASE End(t)
  BY <1>1, <1>2, <1>5, EndStep
<1>6. ASSUME NEW pc \in {"select", "confirm", "set", "clear"}, Goto(t, pc)
      PROVE  TasksOK'
  <2>1. /\ pc \in Steps /\ pc \notin BindSteps /\ pc \notin IrcSteps
        /\ pc \notin {"count", "drop"}
    BY <1>6 DEF Steps, BindSteps, QuerySteps, UnbindSteps, IrcSteps
  <2>2. QED
    BY <1>2, <1>4, <1>6, <2>1, GotoStep
<1>7. ASSUME NEW pc \in {"count", "drop"}, Goto(t, pc), task[t].user # Nil
      PROVE  TasksOK'
  <2>1. pc \in Steps /\ pc \notin IrcSteps /\ pc \notin {"bind", "verify", "adopt"}
    BY <1>7 DEF Steps, BindSteps, QuerySteps, UnbindSteps, IrcSteps
  <2>2. QED
    BY <1>2, <1>4, <1>7, <2>1, GotoStep
<1>8. CASE SelectUser(t)
  <2> DEFINE x == [task[t] EXCEPT !.pc = "delete", !.user = bindings[task[t].qq]]
  <2>1. bindings[task[t].qq] \in Users \union {Nil}
    BY <1>4 DEF Tables
  <2>2. x \in Task /\ x.pc = "delete" /\ x.qq = task[t].qq
    BY <1>4, <2>1 DEF Task, UnbindSteps
  <2>3. "delete" \notin BindSteps /\ "delete" \notin IrcSteps
    BY DEF BindSteps, IrcSteps
  <2>4. task' = [task EXCEPT ![t] = x]
    BY <1>8 DEF SelectUser
  <2> HIDE DEF x
  <2>5. Sound(x)
    BY <1>4, <2>2, <2>3 DEF Sound
  <2>6. QED
    BY <1>1, <1>2, <2>2, <2>4, <2>5, TaskStep
<1>9. CASE LookForConfirmation(t) \/ Drop(t) \/ Confirm(t)
  BY <1>5, <1>6, <1>9 DEF LookForConfirmation, Drop, Confirm
<1>10. CASE Delete(t)
  BY <1>6, <1>7, <1>10 DEF Delete
<1>11. CASE Count(t)
  <2>1. task[t].pc = "count"
    BY <1>11 DEF Count, At
  <2>2. task[t].user # Nil
    BY <2>1, Held, NilAssumption
  <2>3. QED
    BY <1>6, <1>7, <1>11, <2>2 DEF Count
<1>12. CASE Clear(t) \/ Set(t)
  BY <1>5, <1>12 DEF Clear, Set
<1>13. QED
  BY <1>1, <1>8, <1>9, <1>10, <1>11, <1>12

(* The tables under a step of a handler.                                   *)
LEMMA BoundToKeeps ==
    ASSUME bindings \in [Qqs -> Users \union {Nil}], OneQqPerUser, NEW q \in Qqs, NEW u \in Users
    PROVE  /\ BoundTo(q, u) \in [Qqs -> Users \union {Nil}]
           /\ Injective(BoundTo(q, u))
           /\ \A r \in Qqs : BoundTo(q, u)[r] = bindings[r] \/ (r = q /\ BoundTo(q, u)[r] = u)
BY DEF BoundTo, OneQqPerUser, Injective

LEMMA BindKeeps ==
    ASSUME TasksOK, Tables, OneQqPerUser, GrantedOnly, NEW t \in Tasks, Bind(t)
    PROVE  Tables' /\ OneQqPerUser' /\ GrantedOnly'
<1> DEFINE q == task[t].qq
           u == task[t].user
<1>1. task[t].pc \in {"bind", "verify", "adopt"}
  BY DEF Bind, At
<1>2. q \in Qqs /\ u \in Users
  BY <1>1, Held DEF BindSteps
<1>3. <<q, u>> \in granted
  BY <1>1 DEF TasksOK, Permitted
<1>4. bindings' = BoundTo(q, u) /\ UNCHANGED <<codes, unbinding, schedule, granted>>
  BY DEF Bind
<1>5. Tables'
  BY <1>2, <1>4, BoundToKeeps DEF Tables
<1>6. OneQqPerUser'
  BY <1>2, <1>4, BoundToKeeps DEF Tables, OneQqPerUser, Injective
<1>7. \A r \in Qqs : bindings'[r] = bindings[r] \/ (r = q /\ bindings'[r] = u)
  BY <1>2, <1>4, BoundToKeeps DEF Tables
<1>8. GrantedOnly'
  BY <1>3, <1>4, <1>7 DEF GrantedOnly, Pairs
<1>9. QED
  BY <1>5, <1>6, <1>8

LEMMA DeleteKeeps ==
    ASSUME TasksOK, Tables, OneQqPerUser, GrantedOnly, NEW t \in Tasks, Delete(t)
    PROVE  Tables' /\ OneQqPerUser' /\ GrantedOnly'
<1>1. task[t].qq \in Qqs
  BY Held DEF Delete, At, UnbindSteps
<1>2. bindings' = [bindings EXCEPT ![task[t].qq] = Nil] /\ UNCHANGED <<codes, unbinding, schedule, granted>>
  BY DEF Delete
<1>3. Tables'
  BY <1>1, <1>2 DEF Tables
<1>4. \A r \in Qqs : bindings'[r] = bindings[r] \/ bindings'[r] = Nil
  BY <1>1, <1>2 DEF Tables
<1>5. OneQqPerUser'
  BY <1>4 DEF OneQqPerUser, Injective
<1>6. GrantedOnly'
  BY <1>2, <1>4 DEF GrantedOnly, Pairs
<1>7. QED
  BY <1>3, <1>5, <1>6

(* Steps that leave the bindings alone, and may permit more.               *)
LEMMA SameBindings ==
    ASSUME OneQqPerUser, GrantedOnly, bindings' = bindings, granted \subseteq granted'
    PROVE  OneQqPerUser' /\ GrantedOnly'
BY DEF OneQqPerUser, Injective, GrantedOnly, Pairs

LEMMA OtherTables ==
    ASSUME TasksOK, Tables, NEW t \in Tasks,
           \/ Check(t) \/ LookForPending(t) \/ Issue(t) \/ Read(t) \/ Answer(t)
           \/ Resolve(t) \/ AskUpstream(t)
           \/ LookForConfirmation(t) \/ SelectUser(t) \/ Count(t) \/ Drop(t) \/ Clear(t)
           \/ Confirm(t) \/ Set(t)
    PROVE  Tables' /\ bindings' = bindings
<1>1. CASE \/ Check(t) \/ LookForPending(t) \/ Read(t) \/ Resolve(t) \/ AskUpstream(t)
           \/ LookForConfirmation(t) \/ SelectUser(t) \/ Count(t) \/ Confirm(t)
  BY <1>1 DEF Check, LookForPending, Read, Resolve, AskUpstream, LookForConfirmation, SelectUser,
              Count, Confirm, tables, Tables
<1>2. CASE Issue(t)
  <2>1. task[t].qq \in Qqs /\ task[t].user \in Users
    BY <1>2, Held DEF Issue, At, BindSteps
  <2>2. PICK c \in Codes :
           codes' = [codes EXCEPT ![c] = [qq |-> task[t].qq, user |-> task[t].user, fresh |-> TRUE]]
    BY <1>2 DEF Issue
  <2>3. [qq |-> task[t].qq, user |-> task[t].user, fresh |-> TRUE] \in Request
    BY <2>1 DEF Request
  <2>4. codes' \in [Codes -> Request \union {Nil}]
    BY <2>2, <2>3 DEF Tables
  <2>5. QED
    BY <1>2, <2>4 DEF Issue, Tables
<1>3. CASE Answer(t)
  BY <1>3 DEF Answer, Tables
<1>4. CASE Drop(t)
  BY <1>4 DEF Drop, Tables, Time
<1>5. CASE Clear(t) \/ Set(t)
  BY <1>5 DEF Clear, Set, Tables, Confirmation
<1>6. QED
  BY <1>1, <1>2, <1>3, <1>4, <1>5

------------------------------------------------------------------------------
(* The invariant under each kind of step.                                  *)
LEMMA HandleStep ==
    ASSUME IInv, NEW t \in Tasks, Handle(t)
    PROVE  IInv'
<1>1. /\ Tables /\ TasksOK /\ TypeOfScheduler /\ OneQqPerUser /\ GrantedOnly
      /\ irc \in BOOLEAN /\ granted \subseteq Qqs \X Users
  BY DEF IInv
<1>2. irc' = irc /\ sched' = sched
  BY DEF Handle, Check, LookForPending, Issue, Bind, Resolve, AskUpstream, Read, Answer,
         LookForConfirmation, SelectUser, Delete, Count, Drop, Clear, Confirm, Set, Keep
<1>3. TasksOK' /\ granted \subseteq granted' /\ granted' \subseteq Qqs \X Users
  BY <1>1, CheckTasks, QueryTasks, ReadTasks, BindTasks, UnbindTasks DEF Handle, UnbindHandle
<1>4. Tables' /\ OneQqPerUser' /\ GrantedOnly'
  BY <1>1, <1>3, BindKeeps, DeleteKeeps, OtherTables, SameBindings DEF Handle
<1>5. TypeOfScheduler'
  BY <1>1, <1>2 DEF TypeOfScheduler
<1>6. QED
  BY <1>1, <1>2, <1>3, <1>4, <1>5 DEF IInv

(* Only the tasks change: the rest of the invariant stays.                 *)
LEMMA OnlyTasks ==
    ASSUME IInv, TasksOK', UNCHANGED <<bindings, codes, unbinding, schedule, irc, sched, granted>>
    PROVE  IInv'
<1>1. Tables' /\ TypeOfScheduler'
  BY DEF IInv, Tables, TypeOfScheduler
<1>2. OneQqPerUser' /\ GrantedOnly'
  BY SameBindings DEF IInv
<1>3. irc' \in BOOLEAN /\ granted' \subseteq Qqs \X Users
  BY DEF IInv
<1>4. QED
  BY <1>1, <1>2, <1>3 DEF IInv

LEMMA FailsStep ==
    ASSUME IInv, NEW t \in Tasks, Fails(t)
    PROVE  IInv'
<1>1. TasksOK
  BY DEF IInv
<1>2. UNCHANGED <<bindings, codes, unbinding, schedule, irc, sched, granted>>
  BY DEF Fails, Keep, tables
<1>3. granted \subseteq granted'
  BY <1>2
<1>4. ASSUME End(t)
      PROVE  TasksOK'
  BY <1>1, <1>3, <1>4, EndStep
<1>5. ASSUME At(t, "verify"), Goto(t, "answer")
      PROVE  TasksOK'
  <2>1. /\ "answer" \in Steps /\ "answer" \notin BindSteps \union QuerySteps \union UnbindSteps
        /\ task[t].pc \in IrcSteps
    BY <1>5 DEF Steps, BindSteps, QuerySteps, UnbindSteps, IrcSteps, At
  <2>2. task[t].code # Nil
    BY <1>1, <2>1, Held, NilAssumption
  <2>3. QED
    BY <1>1, <1>3, <1>5, <2>1, <2>2, GotoStep
<1>6. TasksOK'
  BY <1>4, <1>5 DEF Fails
<1>7. QED
  BY <1>2, <1>6, OnlyTasks

LEMMA StartStep ==
    ASSUME IInv, NEW t \in Tasks, NEW x, Sound(x), x.pc \notin {"bind", "verify", "adopt"}, Start(t, x)
    PROVE  IInv'
<1>1. UNCHANGED <<bindings, codes, unbinding, schedule, irc, sched, granted>>
  BY DEF Start, Inputs, tables
<1>2. TasksOK /\ granted \subseteq granted' /\ task' = [task EXCEPT ![t] = x]
  BY <1>1 DEF IInv, Start
<1>3. TasksOK'
  BY <1>2, TaskStep
<1>4. QED
  BY <1>1, <1>3, OnlyTasks

LEMMA CommandStep ==
    ASSUME IInv, NEW t \in Tasks,
           \/ \E q \in Qqs, u \in Users : BindCommand(t, q, u)
           \/ \E q \in Qqs : UnbindCommand(t, q) \/ QueryCommand(t, q)
           \/ \E u \in Users, c \in Codes : IrcMessage(t, u, c)
    PROVE  IInv'
<1>1. ASSUME NEW q \in Qqs, NEW u \in Users, BindCommand(t, q, u)
      PROVE  IInv'
  <2> DEFINE x == [Idle EXCEPT !.pc = "check", !.qq = q, !.user = u]
  <2>1. Sound(x) /\ x.pc \notin {"bind", "verify", "adopt"}
    BY NilAssumption DEF Sound, Idle, Task, BindSteps, QuerySteps, UnbindSteps, IrcSteps
  <2>2. Start(t, x)
    BY <1>1 DEF BindCommand
  <2> HIDE DEF x
  <2>3. QED
    BY <2>1, <2>2, StartStep
<1>2. ASSUME NEW q \in Qqs, UnbindCommand(t, q)
      PROVE  IInv'
  <2> DEFINE x == [Idle EXCEPT !.pc = "asked", !.qq = q]
  <2>1. Sound(x) /\ x.pc \notin {"bind", "verify", "adopt"}
    BY NilAssumption DEF Sound, Idle, Task, BindSteps, QuerySteps, UnbindSteps, IrcSteps
  <2>2. Start(t, x)
    BY <1>2 DEF UnbindCommand
  <2> HIDE DEF x
  <2>3. QED
    BY <2>1, <2>2, StartStep
<1>3. ASSUME NEW u \in Users, NEW c \in Codes, IrcMessage(t, u, c)
      PROVE  IInv'
  <2> DEFINE x == [Idle EXCEPT !.pc = "read", !.user = u, !.code = c]
  <2>1. Sound(x) /\ x.pc \notin {"bind", "verify", "adopt"}
    BY NilAssumption DEF Sound, Idle, Task, BindSteps, QuerySteps, UnbindSteps, IrcSteps
  <2>2. Start(t, x)
    BY <1>3 DEF IrcMessage
  <2> HIDE DEF x
  <2>3. QED
    BY <2>1, <2>2, StartStep
<1>4. ASSUME NEW q \in Qqs, QueryCommand(t, q)
      PROVE  IInv'
  <2> DEFINE x == [Idle EXCEPT !.pc = "resolve", !.qq = q]
  <2>1. Sound(x) /\ x.pc \notin {"bind", "verify", "adopt"}
    BY NilAssumption DEF Sound, Idle, Task, BindSteps, QuerySteps, UnbindSteps, IrcSteps
  <2>2. Start(t, x)
    BY <1>4 DEF QueryCommand
  <2> HIDE DEF x
  <2>3. QED
    BY <2>1, <2>2, StartStep
<1>5. QED
  BY <1>1, <1>2, <1>3, <1>4

(* The scheduler and time write rows of other tables only.                 *)
LEMMA OnlyRows ==
    ASSUME IInv, UNCHANGED <<bindings, task, granted>>,
           codes' \in [Codes -> Request \union {Nil}], unbinding' \in [Qqs -> Confirmation],
           schedule' \in [Users -> Time], irc' \in BOOLEAN, TypeOfScheduler'
    PROVE  IInv'
<1>1. Tables'
  BY DEF IInv, Tables
<1>2. TasksOK'
  BY DEF IInv, TasksOK, Permitted
<1>3. OneQqPerUser' /\ GrantedOnly'
  BY SameBindings DEF IInv
<1>4. granted' \subseteq Qqs \X Users
  BY DEF IInv
<1>5. QED
  BY <1>1, <1>2, <1>3, <1>4 DEF IInv

LEMMA SchedulerStep ==
    ASSUME IInv, Scheduler
    PROVE  IInv'
<1>1. Tables /\ irc \in BOOLEAN /\ TypeOfScheduler
  BY DEF IInv
<1>2. UNCHANGED <<bindings, task, granted, irc>>
  BY DEF Scheduler, GetDueUsers, SetNextUpdate, WriteFails, Cleanup, tables
<1>3. CASE GetDueUsers
  <2>1. DueUsers \in SUBSET Users
    BY DEF DueUsers
  <2>2. TypeOfScheduler'
    BY <1>3, <2>1 DEF GetDueUsers, TypeOfScheduler
  <2>3. UNCHANGED <<codes, unbinding, schedule>>
    BY <1>3 DEF GetDueUsers, tables
  <2>4. QED
    BY <1>1, <1>2, <2>2, <2>3, OnlyRows DEF Tables
<1>4. ASSUME NEW u \in Users, NEW time \in Time, SetNextUpdate(u, time)
      PROVE  IInv'
  <2>1. TypeOfScheduler'
    BY <1>1, <1>4 DEF SetNextUpdate, Evaluated, TypeOfScheduler
  <2>2. UNCHANGED <<codes, unbinding>> /\ schedule' \in [Users -> Time]
    BY <1>1, <1>4 DEF SetNextUpdate, Tables
  <2>3. QED
    BY <1>1, <1>2, <2>1, <2>2, OnlyRows DEF Tables
<1>5. ASSUME NEW u \in Users, WriteFails(u)
      PROVE  IInv'
  <2>1. TypeOfScheduler'
    BY <1>1, <1>5 DEF WriteFails, Evaluated, TypeOfScheduler
  <2>2. UNCHANGED <<codes, unbinding, schedule>>
    BY <1>5 DEF WriteFails, tables
  <2>3. QED
    BY <1>1, <1>2, <2>1, <2>2, OnlyRows DEF Tables
<1>6. ASSUME NEW parts \in SUBSET Parts, Cleanup(parts)
      PROVE  IInv'
  <2>1. TypeOfScheduler'
    BY <1>6 DEF Cleanup, Asleep, TypeOfScheduler
  <2>2. schedule' \in [Users -> Time]
    BY <1>1, <1>6 DEF Cleanup, Pruned, Tables, Time
  <2>3. codes' \in [Codes -> Request \union {Nil}]
    BY <1>1, <1>6 DEF Cleanup, Tables
  <2>4. unbinding' \in [Qqs -> Confirmation]
    BY <1>1, <1>6 DEF Cleanup, Tables, Confirmation
  <2>5. QED
    BY <1>1, <1>2, <2>1, <2>2, <2>3, <2>4, OnlyRows
<1>7. "later" \in Time /\ "due" \in Time
  BY DEF Time
<1>8. QED
  BY <1>3, <1>4, <1>5, <1>6, <1>7 DEF Scheduler

LEMMA UserTimeStep ==
    ASSUME IInv, NEW u \in Users, BecomesDue(u) \/ TriggerUpdate(u)
    PROVE  IInv'
<1>1. Tables /\ irc \in BOOLEAN /\ TypeOfScheduler
  BY DEF IInv
<1>2. UNCHANGED <<bindings, codes, unbinding, task, granted, irc, sched>>
  BY DEF BecomesDue, TriggerUpdate
<1>3. TypeOfScheduler'
  BY <1>1, <1>2 DEF TypeOfScheduler
<1>4. schedule' \in [Users -> Time]
  BY <1>1 DEF BecomesDue, TriggerUpdate, Tables, Time
<1>5. QED
  BY <1>1, <1>2, <1>3, <1>4, OnlyRows DEF Tables

LEMMA CodeTimeStep ==
    ASSUME IInv, NEW c \in Codes, CodeExpires(c)
    PROVE  IInv'
<1>1. Tables /\ irc \in BOOLEAN /\ TypeOfScheduler
  BY DEF IInv
<1>2. UNCHANGED <<bindings, unbinding, schedule, task, granted, irc, sched>>
  BY DEF CodeExpires
<1>3. TypeOfScheduler'
  BY <1>1, <1>2 DEF TypeOfScheduler
<1>4. codes[c] \in Request
  BY <1>1 DEF CodeExpires, Tables
<1>5. [codes[c] EXCEPT !.fresh = FALSE] \in Request
  BY <1>4 DEF Request
<1>6. codes' = [codes EXCEPT ![c] = [codes[c] EXCEPT !.fresh = FALSE]]
  BY DEF CodeExpires
<1>7. codes' \in [Codes -> Request \union {Nil}]
  BY <1>1, <1>5, <1>6 DEF Tables
<1>8. QED
  BY <1>1, <1>2, <1>3, <1>7, OnlyRows DEF Tables

LEMMA ConfirmationTimeStep ==
    ASSUME IInv, NEW q \in Qqs, ConfirmationExpires(q)
    PROVE  IInv'
<1>1. Tables /\ irc \in BOOLEAN /\ TypeOfScheduler
  BY DEF IInv
<1>2. UNCHANGED <<bindings, codes, schedule, task, granted, irc, sched>>
  BY DEF ConfirmationExpires
<1>3. TypeOfScheduler'
  BY <1>1, <1>2 DEF TypeOfScheduler
<1>4. unbinding' \in [Qqs -> Confirmation]
  BY <1>1 DEF ConfirmationExpires, Tables, Confirmation
<1>5. QED
  BY <1>1, <1>2, <1>3, <1>4, OnlyRows DEF Tables

LEMMA ReconfigureStep ==
    ASSUME IInv, NEW on \in BOOLEAN, Reconfigure(on)
    PROVE  IInv'
<1>1. Tables /\ TypeOfScheduler
  BY DEF IInv
<1>2. schedule' \in [Users -> Time]
  BY DEF Reconfigure, Time
<1>3. TypeOfScheduler'
  BY <1>1 DEF Reconfigure, TypeOfScheduler
<1>4. UNCHANGED <<bindings, task, granted, codes, unbinding>> /\ irc' \in BOOLEAN
  BY DEF Reconfigure
<1>5. QED
  BY <1>1, <1>2, <1>3, <1>4, OnlyRows DEF Tables

LEMMA RestartStep ==
    ASSUME IInv, Restart
    PROVE  IInv'
<1>1. task' = [t \in Tasks |-> Idle] /\ sched' = Asleep
      /\ UNCHANGED <<bindings, codes, unbinding, schedule, irc, granted>>
  BY DEF Restart, tables
<1>2. Idle.pc = "idle" /\ Idle \in Task
  BY IdleSound DEF Sound, Idle
<1>3. TasksOK'
  BY <1>1, <1>2, IdleSound DEF TasksOK, Permitted, Sound
<1>4. TypeOfScheduler'
  BY <1>1 DEF Asleep, TypeOfScheduler
<1>5. Tables'
  BY <1>1 DEF IInv, Tables
<1>6. OneQqPerUser' /\ GrantedOnly'
  BY <1>1, SameBindings DEF IInv
<1>7. irc' \in BOOLEAN /\ granted' \subseteq Qqs \X Users
  BY <1>1 DEF IInv
<1>8. QED
  BY <1>3, <1>4, <1>5, <1>6, <1>7 DEF IInv

LEMMA InitLemma == Init => IInv
<1> SUFFICES ASSUME Init PROVE IInv
  OBVIOUS
<1>1. PICK d \in Databases : /\ bindings = d.bindings /\ codes = d.codes
                             /\ unbinding = d.unbinding /\ schedule = d.schedule
  BY DEF Init
<1>2. d \in Database /\ Injective(d.bindings)
  BY DatabaseAssumption
<1>3. Tables
  BY <1>1, <1>2 DEF Database, Tables
<1>4. OneQqPerUser
  BY <1>1, <1>2 DEF OneQqPerUser, Injective
<1>5. task = [t \in Tasks |-> Idle] /\ sched = Asleep /\ irc \in BOOLEAN /\ granted = Pairs
  BY DEF Init
<1>6. Idle.pc = "idle" /\ Idle \in Task
  BY IdleSound DEF Sound, Idle
<1>7. TasksOK
  BY <1>5, <1>6, IdleSound DEF TasksOK, Permitted, Sound
<1>8. TypeOfScheduler
  BY <1>5 DEF Asleep, TypeOfScheduler
<1>9. GrantedOnly /\ granted \subseteq Qqs \X Users
  BY <1>3, <1>5 DEF GrantedOnly, Pairs, Tables
<1>10. QED
  BY <1>3, <1>4, <1>5, <1>7, <1>8, <1>9 DEF IInv

LEMMA NextLemma == IInv /\ [Next]_vars => IInv'
<1> SUFFICES ASSUME IInv, [Next]_vars PROVE IInv'
  OBVIOUS
<1>1. CASE UNCHANGED vars
  <2>1. UNCHANGED <<bindings, codes, unbinding, schedule, irc, task, sched, granted>>
    BY <1>1 DEF vars
  <2>2. TasksOK'
    BY <2>1 DEF IInv, TasksOK, Permitted
  <2>3. QED
    BY <2>1, <2>2, OnlyTasks
<1>2. ASSUME NEW t \in Tasks,
             \/ \E q \in Qqs, u \in Users : BindCommand(t, q, u)
             \/ \E q \in Qqs : UnbindCommand(t, q) \/ QueryCommand(t, q)
             \/ \E u \in Users, c \in Codes : IrcMessage(t, u, c)
      PROVE  IInv'
  BY <1>2, CommandStep
<1>3. ASSUME NEW t \in Tasks, Handle(t) \/ Fails(t)
      PROVE  IInv'
  BY <1>3, HandleStep, FailsStep
<1>4. CASE Scheduler
  BY <1>4, SchedulerStep
<1>5. ASSUME NEW u \in Users, BecomesDue(u) \/ TriggerUpdate(u)
      PROVE  IInv'
  BY <1>5, UserTimeStep
<1>6. ASSUME NEW c \in Codes, CodeExpires(c)
      PROVE  IInv'
  BY <1>6, CodeTimeStep
<1>7. ASSUME NEW q \in Qqs, ConfirmationExpires(q)
      PROVE  IInv'
  BY <1>7, ConfirmationTimeStep
<1>8. ASSUME NEW on \in BOOLEAN, Reconfigure(on)
      PROVE  IInv'
  BY <1>8, ReconfigureStep
<1>9. CASE Restart
  BY <1>9, RestartStep
<1>10. QED
  BY <1>1, <1>2, <1>3, <1>4, <1>5, <1>6, <1>7, <1>8, <1>9 DEF Next

------------------------------------------------------------------------------
LEMMA Invariance == Spec => []IInv
<1>1. QED
  BY InitLemma, NextLemma, PTL DEF Spec

(* Tables, handlers and the scheduler keep their types; in particular no    *)
(* step that needs a QQ, a user or a code (Storage::bind, remove_pending)   *)
(* is reached without it.                                                   *)
THEOREM TypeCorrect == Spec => []TypeOK
<1>1. QED
  BY Invariance, IInvImpliesTypeOK, PTL

(* Storage::bind's transaction keeps the users of two QQs apart, however    *)
(* many handlers bind, verify and unbind at once, over restarts.            *)
THEOREM OneQqForEachUser == Spec => []OneQqPerUser
<1>1. IInv => OneQqPerUser
  BY DEF IInv
<1>2. QED
  BY <1>1, Invariance, PTL

(* The bind command, handle_irc_message and resolve_binding: every binding  *)
(* was permitted by one of them, for this very QQ and user.                 *)
THEOREM BindingsArePermitted == Spec => []GrantedOnly
<1>1. IInv => GrantedOnly
  BY DEF IInv
<1>2. QED
  BY <1>1, Invariance, PTL
==============================================================================
