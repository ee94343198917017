--------------------------- MODULE CommandDispatch ---------------------------
(***************************************************************************)
(* handle_command (command/mod.rs): every message of every user starts a    *)
(* handler of its own, which looks at the user's window of recent commands, *)
(* gives the message to the plugins, parses it, gives the command to the    *)
(* plugins and runs it.  The command is counted only when it is clear who   *)
(* runs it, several awaits after the window was looked at.                  *)
(***************************************************************************)
EXTENDS Naturals, Sequences, FiniteSets

CONSTANTS
    Handlers,          \* handlers running at the same time
    Users,
    Limit,             \* the comparison in the check: len() > Limit refuses
    Window,            \* age at which a counted command leaves the window
    Idle, SweepEvery   \* the sweep removes users idle that long, that often

VARIABLES
    entry,     \* command_rate_limits: [user -> entry or Absent]
    sweepAge,  \* time since LAST_CLEANUP
    handler,   \* the handlers
    ran        \* [user -> ages of the commands really run in the last Window]
vars == <<entry, sweepAge, handler, ran>>

Absent == [idle |-> Idle + 1, ages |-> <<>>]
Fresh  == [idle |-> 0, ages |-> <<>>]

Init ==
    /\ entry = [u \in Users |-> Absent]
    /\ sweepAge = 0
    /\ handler = [h \in Handlers |-> [pc |-> "free"]]
    /\ ran = [u \in Users |-> <<>>]

Goto(h, pc) == handler' = [handler EXCEPT ![h].pc = pc]

------------------------------------------------------------------------------
(* The timestamps are in order, so what the retain drops is a prefix.       *)
Expired(ages)  == {i \in DOMAIN ages : ages[i] >= Window}
InWindow(ages) == SubSeq(ages, Cardinality(Expired(ages)) + 1, Len(ages))

(* Slip: the sweep takes every entry.                                       *)
SweptOfAll(e) ==
    IF sweepAge < SweepEvery THEN e ELSE [u \in Users |-> Absent]

(* The sweep, by whichever handler comes first after the interval: it also  *)
(* takes the entry that handler has just looked at.                         *)
Swept(e) ==
    IF sweepAge < SweepEvery THEN e
    ELSE [u \in Users |-> IF e[u].idle < Idle THEN e[u] ELSE Absent]

(* A message of user u: a handler starts, and is refused or goes on.        *)
Check(h, u) ==
    /\ handler[h].pc = "free"
    /\ LET mine  == IF entry[u] = Absent THEN Fresh
                    ELSE [entry[u] EXCEPT !.ages = InWindow(@)]
           known == [entry EXCEPT ![u] = mine]
       IN  IF Len(mine.ages) > Limit
           THEN /\ entry' = known
                /\ UNCHANGED <<handler, sweepAge>>
           ELSE /\ entry' = Swept(known)
                /\ sweepAge' = IF sweepAge < SweepEvery THEN sweepAge ELSE 0
                /\ handler' = [handler EXCEPT ![h] = [pc |-> "message", user |-> u]]
    /\ UNCHANGED ran

(* record_command_invocation: nothing when the entry is gone.               *)
Record(h) ==
    LET u == handler[h].user
    IN  /\ entry' = IF entry[u] = Absent THEN entry
                    ELSE [entry EXCEPT ![u] = [idle |-> 0, ages |-> Append(@.ages, 0)]]
        /\ ran' = [ran EXCEPT ![u] = Append(@, 0)]
        /\ UNCHANGED sweepAge

Free(h) == handler' = [handler EXCEPT ![h] = [pc |-> "free"]]
Leave(h) == Free(h) /\ UNCHANGED <<entry, sweepAge, ran>>

(* dispatch_message: handled, intercepted (not counted), or passed on; the  *)
(* mode of the command is looked up before the next dispatch.               *)
OnMessage(h) ==
    /\ handler[h].pc = "message"
    /\ \/ Record(h) /\ Free(h)
       \/ Leave(h)
       \/ Goto(h, "command") /\ UNCHANGED <<entry, sweepAge, ran>>

(* dispatch_command: handled and intercepted both count.  Otherwise the     *)
(* command runs if the group has it enabled; a text that is no command, or  *)
(* a disabled one, ends here.                                               *)
OnCommand(h) ==
    /\ handler[h].pc = "command"
    /\ \/ Record(h) /\ Free(h)
       \/ Leave(h)
       \/ Record(h) /\ Goto(h, "native")

(* The native handler ends, or command_timeout_secs ends whatever runs.     *)
Finish(h) ==
    /\ handler[h].pc # "free"
    /\ Leave(h)

Older(ages) == [i \in DOMAIN ages |-> ages[i] + 1]

Tick ==
    /\ entry' = [u \in Users |->
                   IF entry[u] = Absent THEN Absent
                   ELSE [idle |-> IF entry[u].idle < Idle THEN entry[u].idle + 1 ELSE Idle,
                         ages |-> InWindow(Older(entry[u].ages))]]
    /\ sweepAge' = IF sweepAge < SweepEvery THEN sweepAge + 1 ELSE sweepAge
    /\ ran' = [u \in Users |-> InWindow(Older(ran[u]))]
    /\ UNCHANGED handler

Next ==
    \/ \E h \in Handlers :
          \/ \E u \in Users : Check(h, u)
          \/ OnMessage(h) \/ OnCommand(h) \/ Finish(h)
    \/ Tick

Spec == Init /\ [][Next]_vars
------------------------------------------------------------------------------
(* What the limit is worth.  The comparison lets Limit + 1 commands         *)
(* through; the handlers that passed the check before the last of them was  *)
(* counted come on top; and when the sweep takes the entry between check    *)
(* and count, as many again are run without being counted at all.           *)
BurstIsBounded ==
    \A u \in Users : Len(ran[u]) <= Limit + 2 * Cardinality(Handlers)
=============================================================================
