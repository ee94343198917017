----------------------------- MODULE PluginSlots -----------------------------
(***************************************************************************)
(* The plugin manager at work.  Handlers dispatch messages and commands,   *)
(* the tick loop fires ticks; each takes an instance out of its slot,      *)
(* executes without the lock, and puts it back by number.  The coordinator *)
(* takes the whole manager out of its place while it reloads.  Steps are   *)
(* the scopes of the lock of the manager.                                  *)
(***************************************************************************)
EXTENDS PluginManager

CONSTANTS
    Handlers, Ticker,      \* the command handlers, and the tick loop
    Files, First,          \* the plugin sections considered, and the one at the start
    MaxEvents, MaxIds      \* bounds: what events counts, tick ids
ASSUME TickerAssumption == Ticker \notin Handlers /\ First \in Files /\ Files \subseteq File

Tasks == Handlers \union {Ticker}

VARIABLES
    file,       \* the plugin section, as the next reload will see it
    place,      \* where the manager is: its slot, the coordinator's hands, gone
    m,          \* the manager
    task,       \* [Tasks -> Task]
    adrift,     \* instances whose thread runs on though nobody waits for it
    events,     \* edits, shutdowns and threads left running so far
    slipped,    \* history: a reload or shutdown met an instance at work
    orphans,    \* history: ids of ticks whose slot was empty when removed
    abandoned   \* history: slots whose handler was dropped while it had their instance
vars == <<file, place, m, task, adrift, events, slipped, orphans, abandoned>>

(* A handler's todo is the list of slots it asks, with no tick id (0); the  *)
(* tick loop's the ticks that were due, with who registered them (history). *)
Entry == [idx: Position, id: Nat, owner: Names]
Task == [pc: {"idle", "ask", "exec"}, todo: Seq(Entry), inst: Instance \union {NoInstance}]
Resting == [pc |-> "idle", todo |-> <<>>, inst |-> NoInstance]

Init ==
    /\ file = First
    /\ place = "slot"
    /\ m = NewManager(First)
    /\ task = [t \in Tasks |-> Resting]
    /\ adrift = {}
    /\ events = 0
    /\ slipped = FALSE
    /\ orphans = {}
    /\ abandoned = {}

Outcome == {"ok", "build", "load"}
History == <<events, slipped, orphans, abandoned>>

(* A command is counted in in_flight until it ends, a tick while it runs.   *)
Counted == {t \in Handlers : task[t].pc # "idle"} \union {t \in {Ticker} : task[t].pc = "exec"}

------------------------------------------------------------------------------
(* dispatch_loop and the two phases of the tick loop.                       *)

SlotEntry(i) == [idx |-> i, id |-> 0, owner |-> m.slots[i].name]
Asked(list)  == [k \in DOMAIN list |-> SlotEntry(list[k])]

(* dispatch_command: the slots that declare the command; dispatch_message:  *)
(* those that export on_message by priority, in either order of equals.     *)
Select ==
    {m.cmds[c] : c \in CmdNames} \union
    {s \in SetToSeqs(m.msgs) : \A i, j \in DOMAIN s : i < j => Prio(m, s[i]) >= Prio(m, s[j])}

Dispatch(t) ==
    /\ task[t].pc = "idle" /\ place = "slot"
    /\ \E list \in Select :
         task' = [task EXCEPT ![t] = IF list = <<>> THEN Resting
                    ELSE [Resting EXCEPT !.pc = "ask", !.todo = Asked(list)]]
    /\ UNCHANGED <<file, place, m, adrift, History>>

(* Any of the registered ticks may be due; they fire in the order of the    *)
(* registry, where a reload appends the ticks it restores: in any order.    *)
TickScan ==
    /\ task[Ticker].pc = "idle" /\ place = "slot"
    /\ \E due \in (SUBSET m.ticks) \ {{}} : \E todo \in SetToSeqs(due) :
         task' = [task EXCEPT ![Ticker] = [Resting EXCEPT !.pc = "ask", !.todo = todo]]
    /\ UNCHANGED <<file, place, m, adrift, History>>

(* The drain flag ends the list of due ticks.                               *)
TickBreaks ==
    /\ task[Ticker].pc = "ask"
    /\ task' = [task EXCEPT ![Ticker] = Resting]
    /\ UNCHANGED <<file, place, m, adrift, History>>

Rest(t) == LET todo == Tail(task[t].todo)
           IN  IF todo = <<>> THEN Resting ELSE [Resting EXCEPT !.pc = "ask", !.todo = todo]

(* Slip: the tick is not looked up again.                                   *)
TakeableUnchecked(t) ==
    LET e == Head(task[t].todo) IN place = "slot" /\ e.idx \in Filled(m)

(* An empty slot is passed over.  A tick must still be registered.          *)
Takeable(t) ==
    LET e == Head(task[t].todo)
    IN  /\ place = "slot" /\ e.idx \in Filled(m)
        /\ t = Ticker => \E x \in m.ticks : x.idx = e.idx /\ x.id = e.id

Take(t) ==
    LET i == Head(task[t].todo).idx
    IN  /\ task[t].pc = "ask"
        /\ IF Takeable(t)
           THEN /\ task' = [task EXCEPT ![t].pc = "exec", ![t].inst = m.slots[i].inst]
                /\ m' = [m EXCEPT !.slots[i].inst = NoInstance]
           ELSE /\ task' = [task EXCEPT ![t] = Rest(t)]
                /\ UNCHANGED m
        /\ UNCHANGED <<file, place, adrift, History>>

(* Ids are left for the reload that may come.                               *)
CanRegister == m.next + Cardinality(Names) < MaxIds

(* An executing plugin registers its tick, through the shared registry.     *)
Register(t) ==
    /\ task[t].pc = "exec" /\ place # "gone"
    /\ CanRegister
    /\ m' = Registered(m, task[t].inst)
    /\ m' # m
    /\ UNCHANGED <<file, place, task, adrift, History>>

(* A thread that is no longer waited for is not stopped: it may run on,     *)
(* until the epoch of the engine interrupts its guest code, and its         *)
(* instance is dropped when it ends.                                        *)
RunsOn(t) == adrift' = adrift \union {task[t].inst}

(* complete_exec.  Without a manager the instance is dropped.               *)
Done(t, then, new) ==
    /\ task[t].pc = "exec"
    /\ task' = [task EXCEPT ![t] = then]
    /\ m' = IF place = "slot" THEN new ELSE m
    /\ UNCHANGED <<file, place, slipped, orphans, abandoned>>

Quietly == UNCHANGED <<adrift, events>>
Counts  == events < MaxEvents /\ events' = events + 1

Returned(t) == PutBack(m, Head(task[t].todo).idx, task[t].inst)

(* Handled and Intercepted end the dispatch, Next goes on.                  *)
Handled(t) == t # Ticker /\ Done(t, Resting, Returned(t)) /\ Quietly

Passed(t)  == Done(t, Rest(t), Returned(t)) /\ Quietly

Errs(t) ==
    \E o \in Outcome :
        /\ CanRegister
        /\ Done(t, Rest(t), ErrorCounted(Returned(t), Head(task[t].todo).idx, o))
        /\ Quietly

(* A panic or the plugin's timeout: the instance does not come back.        *)
Vanishes(t) ==
    \E o \in Outcome :
        /\ CanRegister
        /\ Done(t, Rest(t), ErrorCounted(m, Head(task[t].todo).idx, o))
        /\ Quietly \/ (Counts /\ RunsOn(t))

(* command_timeout_secs are over: the handler is dropped where it awaits,   *)
(* with what is left of its list.  If an instance was out, complete_exec is *)
(* never called: the slot stays empty and no error is counted.              *)
CommandTimesOut(t) ==
    /\ t # Ticker /\ task[t].pc # "idle"
    /\ task' = [task EXCEPT ![t] = Resting]
    /\ IF task[t].pc = "exec"
       THEN /\ Counts
            /\ UNCHANGED adrift \/ RunsOn(t)
            /\ abandoned' = abandoned \union {Head(task[t].todo).idx}
       ELSE Quietly /\ UNCHANGED abandoned
    /\ UNCHANGED <<file, place, m, slipped, orphans>>

(* A thread nobody waits for still has the host services of its instance.   *)
AdriftRegisters(x) ==
    /\ place # "gone" /\ CanRegister
    /\ m' = Registered(m, x)
    /\ m' # m
    /\ UNCHANGED <<file, place, task, adrift, History>>

AdriftEnds(x) ==
    /\ adrift' = adrift \ {x}
    /\ UNCHANGED <<file, place, m, task, History>>

------------------------------------------------------------------------------
Edit(f) ==
    /\ events < MaxEvents
    /\ file' = f /\ f # file
    /\ events' = events + 1
    /\ UNCHANGED <<place, m, task, adrift, slipped, orphans, abandoned>>

(* reload_plugins takes the manager; the drain has waited for what is       *)
(* counted, if HotReload's windows were not hit.                            *)
TakeManager ==
    /\ place = "slot"
    /\ m.next + Cardinality(Names) <= MaxIds
    /\ ~slipped                 \* bound: one slip
    /\ place' = "reloading"
    /\ slipped' = (slipped \/ Counted # {} \/ adrift # {})
    /\ UNCHANGED <<file, m, task, adrift, events, orphans, abandoned>>

How == [Names -> {"ok", "path", "build", "load"}]

ReloadAll(how) ==
    /\ place = "reloading"
    /\ m' = ReloadedAll(m, file, how)
    /\ place' = "slot"
    /\ orphans' = orphans \union Orphaned(m)
    /\ abandoned' = {}
    /\ UNCHANGED <<file, task, adrift, events, slipped>>

(* The end of a connection aborts the tick loop and clears everything; the  *)
(* next one builds a new manager, or none if a plugin fails.                *)
Shutdown ==
    /\ place = "slot"
    /\ events < MaxEvents
    /\ events' = events + 1
    /\ place' = "gone"
    /\ m' = Empty
    /\ task' = [task EXCEPT ![Ticker] = Resting]
    /\ slipped' = (slipped \/ Counted \ {Ticker} # {})
    /\ orphans' = {} /\ abandoned' = {}
    /\ adrift' = {}             \* what runs on has the registry of the old manager
    /\ UNCHANGED file

New ==
    /\ place = "gone"
    /\ place' = "slot"
    /\ m' = NewManager(file)
    /\ UNCHANGED <<file, task, adrift, events, slipped, orphans, abandoned>>

Next ==
    \/ \E t \in Handlers : Dispatch(t)
    \/ TickScan \/ TickBreaks
    \/ \E t \in Tasks : \/ Take(t) \/ Register(t)
                        \/ Handled(t) \/ Passed(t) \/ Errs(t) \/ Vanishes(t) \/ CommandTimesOut(t)
    \/ \E x \in adrift : AdriftRegisters(x) \/ AdriftEnds(x)
    \/ \E f \in Files : Edit(f)
    \/ TakeManager
    \/ \E how \in How : ReloadAll(how)
    \/ Shutdown \/ New

Spec == Init /\ [][Next]_vars

------------------------------------------------------------------------------
(* The command map and the message set say of every slot what its setting   *)
(* says, and nothing of slots that do not exist: numbers are never left     *)
(* behind when slots are reloaded, removed or moved (manager.rs, reload.rs).*)
MapsMatchSlots ==
    /\ \A c \in CmdNames :
         /\ ToSet(m.cmds[c]) = {i \in DOMAIN m.slots : c \in m.slots[i].set.cmds}
         /\ IsInjective(m.cmds[c])
    /\ m.msgs = {i \in DOMAIN m.slots : m.slots[i].set.msg}

(* A command is offered to its plugins by descending priority, also after   *)
(* single plugins were reloaded or their priority was changed.              *)
DispatchByPriority ==
    \A c \in CmdNames : \A i, j \in DOMAIN m.cmds[c] :
        i < j => Prio(m, m.cmds[c][i]) >= Prio(m, m.cmds[c][j])

Holders(i) == {t \in Tasks : task[t].pc = "exec" /\ Head(task[t].todo).idx = i}

(* Unless a reload met an instance at work, an instance sits in, or goes    *)
(* back to, the slot of its plugin, and registers its ticks there.          *)
InstanceInOwnSlot ==
    ~slipped =>
        /\ \A i \in Filled(m) : m.slots[i].inst = [name |-> m.slots[i].name, at |-> i]
        /\ \A t \in Tasks : task[t].pc = "exec" =>
             LET i == Head(task[t].todo).idx
             IN  i \in DOMAIN m.slots /\ task[t].inst = [name |-> m.slots[i].name, at |-> i]

(* A slot is empty only while its instance is at work, after an error that  *)
(* was counted, or because the command timeout dropped the handler that had *)
(* its instance: then nothing but a reload of the file fills it.            *)
EmptySlotIsExplained ==
    ~slipped => \A i \in DOMAIN m.slots \ Filled(m) :
                    Cardinality(Holders(i)) = 1 \/ m.slots[i].lost > 0 \/ i \in abandoned

(* No plugin has two slots with an instance (in place or at work).          *)
OneSlotPerPlugin ==
    ~slipped => \A i, j \in DOMAIN m.slots : m.slots[i].name = m.slots[j].name => i = j

(* Every tick entry names the slot of the plugin that registered it, except *)
(* those whose slot was empty when compact removed it.                      *)
TicksPointToOwner ==
    ~slipped => \A t \in m.ticks : \/ t.id \in orphans
                                   \/ /\ t.idx \in DOMAIN m.slots
                                      /\ m.slots[t.idx].name = t.owner

(* Numbers of slots mean the same in the slots, the command map, the        *)
(* message set, the registered ticks and the instances at work, and the map *)
(* stays in the order of dispatch, through reloads, errors and compaction.  *)
SlotsAreConsistent ==
    /\ MapsMatchSlots /\ DispatchByPriority /\ OneSlotPerPlugin /\ InstanceInOwnSlot
    /\ EmptySlotIsExplained /\ TicksPointToOwner

(* The tick loop never runs one plugin with the tick of another, although   *)
(* slots may move between its two phases (plugin_runtime.rs, has_tick).     *)
TickRunsItsOwner ==
    ~slipped /\ task[Ticker].pc = "exec" =>
        \/ Head(task[Ticker].todo).id \in orphans
        \/ Head(task[Ticker].todo).owner = task[Ticker].inst.name

(* A reload in which every plugin loads gives every enabled plugin an       *)
(* instance with its new setting and leaves no other, except for plugins    *)
(* whose reloads failed too often before.                                   *)
Exhausted(n) == \E i \in Filled(m) : m.slots[i].name = n /\ m.slots[i].fails >= ReloadThreshold
Runs(x, n) == {x.slots[i].set : i \in {i \in DOMAIN x.slots : x.slots[i].name = n}}
ReloadRunsTheFile ==
    [][(~slipped /\ ReloadAll([n \in Names |-> "ok"])) =>
          \A n \in Names : Exhausted(n) \/ Runs(m', n) = {file[n]} \ {Off}]_vars
==============================================================================
