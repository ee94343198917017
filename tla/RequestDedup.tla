---------------------------- MODULE RequestDedup ----------------------------
(***************************************************************************)
(* RequestDedup::run_or_wait: concurrent requests with the same key share  *)
(* one execution.  Callers are tasks of a multi-threaded runtime; between  *)
(* two steps of a caller below any other caller may run.  A caller that is *)
(* the creator of an entry spawns the work as a task of its own and waits  *)
(* for it; the others wait for the entry's semaphore "done" to be closed.  *)
(* A caller may be dropped at an await, for example by the timeout of the  *)
(* command it works for (ws_loop.rs:413).                                  *)
(***************************************************************************)
EXTENDS Naturals, FiniteSets

CONSTANTS
    Callers, Keys,
    Entries,     \* addresses of entries, reused once an entry is freed
    NoEntry, NoKey

ASSUME NullAssumption == NoEntry \notin Entries /\ NoKey \notin Keys

VARIABLES
    map,         \* [Keys -> Entries or NoEntry] the field "entries"
    entry,       \* [Entries -> Entry] what was allocated
    caller,      \* [Callers -> Caller]
    orphans      \* entries whose creator was dropped before its task ended
vars == <<map, entry, caller, orphans>>

Outcomes == {"ok", "err", "panicked"}

(* The task is the work spawned by the creator; result is StoredResult.    *)
Entry == [key: Keys \union {NoKey}, claimed: BOOLEAN, closed: BOOLEAN,
          task: {"none", "running"} \union Outcomes,
          result: {"none"} \union Outcomes]
Unused == [key |-> NoKey, claimed |-> FALSE, closed |-> FALSE, task |-> "none",
           result |-> "none"]

(* Creators go through await, close and remove, the others through wait.   *)
Caller == [pc: {"idle", "claim", "wait", "await", "close", "remove"},
           key: Keys \union {NoKey}, entry: Entries \union {NoEntry},
           answer: {"none", "abandoned"} \union Outcomes]
Resting == [pc |-> "idle", key |-> NoKey, entry |-> NoEntry, answer |-> "none"]

Fresh(e) == entry[e].key = NoKey

Init ==
    /\ map     = [k \in Keys |-> NoEntry]
    /\ entry   = [e \in Entries |-> Unused]
    /\ caller  = [c \in Callers |-> Resting]
    /\ orphans = {}

------------------------------------------------------------------------------
Goto(c, pc) == caller' = [caller EXCEPT ![c].pc = pc]

(* or_insert_with under the lock of the map.                               *)
Lookup(c, k) ==
    /\ caller[c].pc = "idle"
    /\ \E e \in Entries :
         /\ \/ map[k] = e /\ UNCHANGED <<map, entry>>
            \/ /\ map[k] = NoEntry /\ Fresh(e)
               /\ map'   = [map EXCEPT ![k] = e]
               /\ entry' = [entry EXCEPT ![e].key = k]
         /\ caller' = [caller EXCEPT ![c] =
                         [pc |-> "claim", key |-> k, entry |-> e, answer |-> "none"]]
    /\ UNCHANGED orphans

(* claimed.swap decides; the creator spawns the task.                      *)
Claim(c) ==
    LET e == caller[c].entry IN
    /\ caller[c].pc = "claim"
    /\ IF entry[e].claimed
       THEN Goto(c, "wait") /\ UNCHANGED entry
       ELSE Goto(c, "await") /\ entry' = [entry EXCEPT ![e].claimed = TRUE,
                                                       ![e].task = "running"]
    /\ UNCHANGED <<map, orphans>>

(* The work finishes or panics, whether or not anyone waits for it.        *)
TaskEnds(e) ==
    /\ entry[e].task = "running"
    /\ \E outcome \in Outcomes : entry' = [entry EXCEPT ![e].task = outcome]
    /\ UNCHANGED <<map, caller, orphans>>

(* Slip: the result is not stored for the waiters.                         *)
ReceiveForgets(c) ==
    LET e == caller[c].entry IN
    /\ caller[c].pc = "await"
    /\ entry[e].task \in Outcomes
    /\ Goto(c, "close")
    /\ UNCHANGED <<map, entry, orphans>>

Receive(c) ==
    LET e == caller[c].entry IN
    /\ caller[c].pc = "await"
    /\ entry[e].task \in Outcomes
    /\ entry' = [entry EXCEPT ![e].result = entry[e].task]
    /\ Goto(c, "close")
    /\ UNCHANGED <<map, orphans>>

(* Slips: a dropped creator's guard does nothing, or does not close.       *)
CancelWithoutGuard(c) ==
    /\ caller[c].pc = "await"
    /\ Goto(c, "idle")
    /\ orphans' = orphans \union {caller[c].entry}
    /\ UNCHANGED <<map, entry>>

CancelRemovesOnly(c) ==
    /\ caller[c].pc = "await"
    /\ Goto(c, "remove")
    /\ orphans' = orphans \union {caller[c].entry}
    /\ UNCHANGED <<map, entry>>

(* The creator's future is dropped.  The JoinHandle was taken out of the   *)
(* guard to be awaited, so the drop does not abort the task; it closes     *)
(* "done" and removes the key like an ordinary return.                     *)
Cancel(c) ==
    /\ caller[c].pc = "await"
    /\ Goto(c, "close")
    /\ orphans' = orphans \union {caller[c].entry}
    /\ UNCHANGED <<map, entry>>

Close(c) ==
    /\ caller[c].pc = "close"
    /\ entry' = [entry EXCEPT ![caller[c].entry].closed = TRUE]
    /\ Goto(c, "remove")
    /\ UNCHANGED <<map, orphans>>

(* CleanupGuard::drop.                                                     *)
Remove(c) ==
    /\ caller[c].pc = "remove"
    /\ map' = [map EXCEPT ![caller[c].key] = NoEntry]
    /\ caller' = [caller EXCEPT ![c].pc = "idle",
                                ![c].answer = entry[caller[c].entry].result]
    /\ UNCHANGED <<entry, orphans>>

Answered(c) ==
    LET result == entry[caller[c].entry].result IN
    /\ caller[c].pc = "wait"
    /\ entry[caller[c].entry].closed
    /\ caller' = [caller EXCEPT ![c].pc = "idle",
                                ![c].answer = IF result = "none" THEN "abandoned" ELSE result]
    /\ UNCHANGED <<entry, orphans>>

(* Slip: a waiter cleans up as well.                                       *)
AnswerRemoves(c) == Answered(c) /\ map' = [map EXCEPT ![caller[c].key] = NoEntry]

Answer(c) == Answered(c) /\ UNCHANGED map

(* A waiter's future is dropped.                                           *)
StopWaiting(c) ==
    /\ caller[c].pc = "wait"
    /\ Goto(c, "idle")
    /\ UNCHANGED <<map, entry, orphans>>

(* The last Arc of an entry is dropped: it is out of the map and no caller *)
(* holds it.                                                               *)
Free(e) ==
    /\ ~Fresh(e) /\ entry[e].task # "running"
    /\ \A k \in Keys : map[k] # e
    /\ \A c \in Callers : caller[c].entry = e => caller[c].pc = "idle"
    /\ entry'   = [entry EXCEPT ![e] = Unused]
    /\ caller'  = [c \in Callers |-> IF caller[c].entry = e THEN Resting ELSE caller[c]]
    /\ orphans' = orphans \ {e}
    /\ UNCHANGED map

------------------------------------------------------------------------------
Step(c) == Claim(c) \/ Receive(c) \/ Close(c) \/ Remove(c) \/ Answer(c)

Next ==
    \/ \E c \in Callers : \/ \E k \in Keys : Lookup(c, k)
                           \/ Step(c) \/ Cancel(c) \/ StopWaiting(c)
    \/ \E e \in Entries : TaskEnds(e) \/ Free(e)

Spec == Init /\ [][Next]_vars

(* The runtime runs every caller, and the work ends (it has timeouts of    *)
(* its own).  Nobody has to be dropped.                                    *)
Fairness == /\ \A c \in Callers : WF_vars(Step(c))
            /\ \A e \in Entries : WF_vars(TaskEnds(e))
FairSpec == Spec /\ Fairness

------------------------------------------------------------------------------
(* Types: the map, the entries and the callers hold what their structs can *)
(* hold, and a caller at work holds an entry of its key.                   *)
TypeOK ==
    /\ map \in [Keys -> Entries \union {NoEntry}]
    /\ entry \in [Entries -> Entry]
    /\ caller \in [Callers -> Caller]
    /\ orphans \subseteq Entries
    /\ \A c \in Callers : caller[c].pc # "idle" =>
          /\ caller[c].key \in Keys /\ caller[c].entry \in Entries
          /\ entry[caller[c].entry].key = caller[c].key

IsCreator(c) == caller[c].pc \in {"await", "close", "remove"}

(* Nothing stays in the map: a mapped entry is about to be claimed, or its *)
(* creator is still there to remove it.  (A stale entry would answer every *)
(* later request with an old result, or with none for ever.)               *)
MapIsLive ==
    \A k \in Keys : map[k] # NoEntry =>
        \E c \in Callers : /\ caller[c].entry = map[k]
                           /\ IF entry[map[k]].claimed THEN IsCreator(c)
                              ELSE caller[c].pc = "claim"

(* No waiter waits for nobody: its entry is closed or a creator is about   *)
(* to close it, also after the creator was dropped.                        *)
NobodyWaitsForNobody ==
    \A c \in Callers : caller[c].pc = "wait" =>
        \/ entry[caller[c].entry].closed
        \/ \E d \in Callers : /\ caller[d].pc \in {"await", "close"}
                              /\ caller[d].entry = caller[c].entry

(* Whatever the map offers to a request, somebody attends to it, and so to  *)
(* everybody who waits at it.                                               *)
MapIsAttended == MapIsLive /\ NobodyWaitsForNobody

(* Whoever gets a result gets the outcome of the one task of its entry,    *)
(* and is told "abandoned" only if the creator was dropped.                *)
AnswersAreShared ==
    \A c \in Callers : caller[c].pc = "idle" =>
        /\ caller[c].answer \in Outcomes => caller[c].answer = entry[caller[c].entry].task
        /\ caller[c].answer = "abandoned" => caller[c].entry \in orphans

Running(k) == {e \in Entries : entry[e].key = k /\ entry[e].task = "running"}

(* Two executions for one key run at once only if the creator of one of    *)
(* them was dropped.                                                       *)
OneRunUnlessAbandoned ==
    \A k \in Keys : \A e, f \in Running(k) \ orphans : e = f

(* dedup.rs:9: concurrent identical requests execute only once.            *)
ExecutesOnce == \A k \in Keys : \A e, f \in Running(k) : e = f

(* Every request is answered.                                              *)
EveryRequestEnds == \A c \in Callers : caller[c].pc # "idle" ~> caller[c].pc = "idle"
==============================================================================
