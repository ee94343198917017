----------------------------- MODULE HotReload -----------------------------
(***************************************************************************)
(* Hot reload of osubot.toml (reload.rs) beside the WebSocket loop          *)
(* (ws_loop.rs), the plugin tick loop (plugin_runtime.rs) and the command   *)
(* tasks.  They share the live configuration, the slot that holds the       *)
(* plugin manager, the flag "drain", the counter "in_flight" and the flag   *)
(* "force_reconnect".  Each is a task of a multi-threaded runtime; a step   *)
(* below is what one task does between two accesses to shared state.        *)
(*                                                                          *)
(* Two error paths of reload() cannot be taken and are left out: reload_all *)
(* returns Ok on every path, and build_upstream_chain only rejects what     *)
(* Config::validate has rejected before.                                    *)
(***************************************************************************)
EXTENDS Integers, FiniteSets

CONSTANTS
    Versions,    \* contents of osubot.toml
    Valid,       \* those that parse, pass Config::validate and name a plugin
                 \* directory that can be watched
    Urls, UrlOf, \* bot.onebot_url of each version
    First,       \* the version the program was started with
    Commands,    \* command tasks that may be alive at once
    MaxEdits,    \* bound: edits of the file
    MaxConns,    \* bound: connections
    NoManager, NoInstance

ASSUME ConfigAssumption == /\ Valid \subseteq Versions /\ First \in Valid
                           /\ UrlOf \in [Versions -> Urls]
ASSUME TasksAssumption  == IsFiniteSet(Commands)
ASSUME BoundAssumption  == MaxEdits \in Nat /\ MaxConns \in Nat
ASSUME NullAssumption   == /\ NoManager \notin [conn: Nat, gen: Nat, cfg: Versions]
                           /\ NoInstance \notin [conn: Nat, gen: Nat]

VARIABLES
    file, event, edits,  \* osubot.toml, its pending notification, edits so far
    live,                \* the shared configuration
    pm,                  \* the plugin manager's slot
    drain, inFlight,     \* what reload and dispatch coordinate by
    reload,              \* the coordinator
    loop, force,         \* the connection loop and force_reconnect
    cmd, tick            \* command tasks, tick loop
env  == <<file, event, edits>>
vars == <<env, live, pm, drain, inFlight, reload, loop, force, cmd, tick>>

(* A manager belongs to the connection it was made for.  gen counts its     *)
(* reloads: indices of instances are meaningful within one gen only.        *)
Manager  == [conn: Nat, gen: Nat, cfg: Versions]
Instance == [conn: Nat, gen: Nat]
InstanceOf(m) == [conn |-> m.conn, gen |-> m.gen]

(* late: the task was counted while drain was set (history).                *)
Command == [pc: {"none", "run", "exec"}, reply: BOOLEAN, late: BOOLEAN,
            held: Instance \union {NoInstance}]
NoCommand == [pc |-> "none", reply |-> FALSE, late |-> FALSE, held |-> NoInstance]

Tick == [pc: {"off", "idle", "due", "counting", "exec"}, late: BOOLEAN,
         held: Instance \union {NoInstance}]
TickAt(pc) == [pc |-> pc, late |-> FALSE, held |-> NoInstance]

(* drained and new are what the last reload found; seen is the version of   *)
(* the file it read (history).                                              *)
Reload == [pc: {"idle", "waiting", "read", "plugins", "reloading", "swap", "effects",
                "release"},
           drained: BOOLEAN, seen: Versions, old: Versions, new: Versions,
           pm: Manager \union {NoManager}]

Loop == [pc: {"connect", "dial", "init", "install", "check", "frame", "load", "seen",
              "cas", "closing", "aborting", "unload"},
         conn: Nat, url: Urls, cfg: Versions, count: Nat]

Init ==
    /\ file = First /\ event = FALSE /\ edits = 0
    /\ live = First /\ pm = NoManager
    /\ drain = FALSE /\ inFlight = 0
    /\ reload = [pc |-> "idle", drained |-> TRUE, seen |-> First, old |-> First,
                 new |-> First, pm |-> NoManager]
    /\ loop = [pc |-> "connect", conn |-> 0, url |-> UrlOf[First], cfg |-> First,
               count |-> 0]
    /\ force = FALSE
    /\ cmd = [c \in Commands |-> NoCommand]
    /\ tick = TickAt("off")

(* The tick loop holds the manager's lock from taking an instance until it  *)
(* is counted; the other critical sections are single steps.                *)
PmFree == tick.pc # "counting"

------------------------------------------------------------------------------
(* The file changes; the watcher posts to a channel (a full channel drops   *)
(* the message, with others pending).                                       *)
Edit(v) ==
    /\ edits < MaxEdits
    /\ file' = v /\ event' = TRUE /\ edits' = edits + 1
    /\ UNCHANGED <<live, pm, drain, inFlight, reload, loop, force, cmd, tick>>

(* After 500 ms without another event: drain.store(true).                   *)
StartReload ==
    /\ reload.pc = "idle" /\ event
    /\ event' = FALSE
    /\ drain' = TRUE
    /\ reload' = [reload EXCEPT !.pc = "waiting"]
    /\ UNCHANGED <<file, edits, live, pm, inFlight, loop, force, cmd, tick>>

(* Slip: it waits for tasks it never looked at.                             *)
WaitDrainIgnoresCount ==
    /\ reload.pc = "waiting"
    /\ reload' = [reload EXCEPT !.pc = "read", !.drained = TRUE]
    /\ UNCHANGED <<env, live, pm, drain, inFlight, loop, force, cmd, tick>>

(* Slip: no timeout.                                                        *)
WaitDrainForEver ==
    /\ reload.pc = "waiting" /\ inFlight = 0
    /\ reload' = [reload EXCEPT !.pc = "read", !.drained = TRUE]
    /\ UNCHANGED <<env, live, pm, drain, inFlight, loop, force, cmd, tick>>

(* wait_drain: the counter is zero, or 30 s are over.                       *)
WaitDrain ==
    /\ reload.pc = "waiting"
    /\ reload' = [reload EXCEPT !.pc = "read", !.drained = (inFlight = 0)]
    /\ UNCHANGED <<env, live, pm, drain, inFlight, loop, force, cmd, tick>>

(* reload_config.  An invalid file ends the reload and the drain; a valid   *)
(* one after a timed-out drain ends the reload and leaves drain set.        *)
ReadConfig ==
    /\ reload.pc = "read"
    /\ \/ /\ file \notin Valid
          /\ reload' = [reload EXCEPT !.pc = "idle", !.seen = file]
          /\ drain' = FALSE
       \/ /\ file \in Valid
          /\ reload' = [reload EXCEPT !.pc = IF reload.drained THEN "plugins" ELSE "idle",
                                      !.seen = file, !.old = live, !.new = file]
          /\ UNCHANGED drain
    /\ UNCHANGED <<env, live, pm, inFlight, loop, force, cmd, tick>>

(* reload_plugins takes the manager out of the slot, ...                    *)
TakeManager ==
    /\ reload.pc = "plugins" /\ PmFree
    /\ reload' = [reload EXCEPT !.pc = IF pm = NoManager THEN "swap" ELSE "reloading",
                                !.pm = pm]
    /\ pm' = NoManager
    /\ UNCHANGED <<env, live, drain, inFlight, loop, force, cmd, tick>>

(* ... reloads it from the plugin section of the live configuration, which  *)
(* is still the old one, and puts it back.                                  *)
ReplaceManager ==
    /\ reload.pc = "reloading" /\ PmFree
    /\ pm' = [reload.pm EXCEPT !.gen = @ + 1, !.cfg = reload.old]
    /\ reload' = [reload EXCEPT !.pc = "swap", !.pm = NoManager]
    /\ UNCHANGED <<env, live, drain, inFlight, loop, force, cmd, tick>>

Swap ==
    /\ reload.pc = "swap"
    /\ live' = reload.new
    /\ reload' = [reload EXCEPT !.pc = "effects"]
    /\ UNCHANGED <<env, pm, drain, inFlight, loop, force, cmd, tick>>

(* apply_side_effects, as far as the connection is concerned.               *)
SideEffects ==
    /\ reload.pc = "effects"
    /\ force' = (force \/ UrlOf[reload.old] # UrlOf[reload.new])
    /\ reload' = [reload EXCEPT !.pc = "release"]
    /\ UNCHANGED <<env, live, pm, drain, inFlight, loop, cmd, tick>>

(* Slips: events of the meantime are thrown away; drain is left set.        *)
ReleaseClearsEvents ==
    /\ reload.pc = "release"
    /\ drain' = FALSE /\ event' = FALSE
    /\ reload' = [reload EXCEPT !.pc = "idle"]
    /\ UNCHANGED <<file, edits, live, pm, inFlight, loop, force, cmd, tick>>

Release ==
    /\ reload.pc = "release"
    /\ drain' = FALSE
    /\ reload' = [reload EXCEPT !.pc = "idle"]
    /\ UNCHANGED <<env, live, pm, inFlight, loop, force, cmd, tick>>

Coordinator == \/ StartReload \/ WaitDrain \/ ReadConfig \/ TakeManager
               \/ ReplaceManager \/ Swap \/ SideEffects \/ Release

------------------------------------------------------------------------------
(* run_ws_reconnect_loop                                                    *)
LoopAt(pc) == loop.pc = pc
LoopTo(pc) == loop' = [loop EXCEPT !.pc = pc]

ReadUrl ==
    /\ LoopAt("connect") /\ loop.conn < MaxConns
    /\ loop' = [loop EXCEPT !.pc = "dial", !.url = UrlOf[live]]
    /\ UNCHANGED <<env, live, pm, drain, inFlight, reload, force, cmd, tick>>

Dialled ==
    /\ LoopAt("dial")
    /\ loop' = [loop EXCEPT !.pc = "init", !.conn = @ + 1]
    /\ UNCHANGED <<env, live, pm, drain, inFlight, reload, force, cmd, tick>>

DialFails ==
    /\ LoopAt("dial") /\ LoopTo("connect")
    /\ UNCHANGED <<env, live, pm, drain, inFlight, reload, force, cmd, tick>>

(* PluginRuntime::new reads the configuration, builds a manager and puts it *)
(* into the slot (None if no plugin is enabled or one does not load).       *)
ReadPluginConfig ==
    /\ LoopAt("init")
    /\ loop' = [loop EXCEPT !.pc = "install", !.cfg = live]
    /\ UNCHANGED <<env, live, pm, drain, inFlight, reload, force, cmd, tick>>

Installed ==
    /\ LoopAt("install") /\ PmFree
    /\ pm' \in {NoManager, [conn |-> loop.conn, gen |-> 0, cfg |-> loop.cfg]}
    /\ tick' = TickAt("idle")
    /\ LoopTo("check")
    /\ UNCHANGED <<env, live, drain, inFlight, reload, cmd>>

Install == Installed /\ UNCHANGED force

CheckForce ==
    /\ LoopAt("check")
    /\ LoopTo(IF force /\ loop.conn < MaxConns THEN "closing" ELSE "frame")
    /\ UNCHANGED <<env, live, pm, drain, inFlight, reload, force, cmd, tick>>

(* A frame: a message for the dispatcher (bound: Commands tasks at once),   *)
(* any other frame, or the end.                                             *)
Frame ==
    /\ LoopAt("frame")
    /\ \/ (\E c \in Commands : cmd[c] = NoCommand) /\ LoopTo("load")
       \/ LoopTo("check")
       \/ loop.conn < MaxConns /\ LoopTo("closing")
    /\ UNCHANGED <<env, live, pm, drain, inFlight, reload, force, cmd, tick>>

(* in_flight.fetch_update: load, closure, compare-and-swap, repeated.       *)
LoadCount ==
    /\ LoopAt("load")
    /\ loop' = [loop EXCEPT !.pc = "seen", !.count = inFlight]
    /\ UNCHANGED <<env, live, pm, drain, inFlight, reload, force, cmd, tick>>

CheckDrain ==
    /\ LoopAt("seen")
    /\ LoopTo(IF drain THEN "check" ELSE "cas")
    /\ UNCHANGED <<env, live, pm, drain, inFlight, reload, force, cmd, tick>>

SwapFails ==
    /\ LoopAt("cas") /\ inFlight # loop.count
    /\ loop' = [loop EXCEPT !.pc = "seen", !.count = inFlight]
    /\ UNCHANGED <<env, live, pm, drain, inFlight, reload, force, cmd, tick>>

Spawned(c) ==
    /\ cmd[c] = NoCommand
    /\ cmd' = [cmd EXCEPT ![c] = [pc |-> "run", reply |-> TRUE, late |-> drain,
                                  held |-> NoInstance]]
    /\ LoopTo("check")
    /\ UNCHANGED <<env, live, pm, drain, reload, force, tick>>

(* Slip: the new value is stored whatever the counter is by now.            *)
AdmitStores(c) == LoopAt("cas") /\ inFlight' = loop.count + 2 /\ Spawned(c)

(* The counter grows by SPAWN_COUNT: the command task and the reply task.   *)
Admit(c) ==
    /\ LoopAt("cas") /\ inFlight = loop.count
    /\ inFlight' = inFlight + 2
    /\ Spawned(c)

(* Disconnect: clear force_reconnect, give the tick loop 3 s (it only ends  *)
(* at shutdown) and abort it, which drops what it is waiting for; unload.   *)
Close ==
    /\ LoopAt("closing") /\ LoopTo("aborting")
    /\ force' = FALSE
    /\ UNCHANGED <<env, live, pm, drain, inFlight, reload, cmd, tick>>

AbortTick ==
    /\ LoopAt("aborting") /\ PmFree
    /\ inFlight' = IF tick.pc = "exec" THEN inFlight - 1 ELSE inFlight
    /\ tick' = TickAt("off")
    /\ LoopTo("unload")
    /\ UNCHANGED <<env, live, pm, drain, reload, force, cmd>>

Unload ==
    /\ LoopAt("unload") /\ LoopTo("connect")
    /\ pm' = NoManager
    /\ UNCHANGED <<env, live, drain, inFlight, reload, force, cmd, tick>>

Connection == \/ ReadUrl \/ Dialled \/ ReadPluginConfig \/ Install \/ CheckForce
              \/ Frame \/ LoadCount \/ CheckDrain \/ SwapFails
              \/ \E c \in Commands : Admit(c)
              \/ Close \/ AbortTick \/ Unload

------------------------------------------------------------------------------
(* A command task runs plugins through the slot; at a timeout it is dropped *)
(* together with the instance it holds.  Its reply task lives on.           *)
CmdTake(c) ==
    /\ cmd[c].pc = "run" /\ PmFree /\ pm # NoManager
    /\ cmd' = [cmd EXCEPT ![c].pc = "exec", ![c].held = InstanceOf(pm)]
    /\ UNCHANGED <<env, live, pm, drain, inFlight, reload, loop, force, tick>>

CmdPut(c) ==
    /\ cmd[c].pc = "exec" /\ PmFree
    /\ cmd' = [cmd EXCEPT ![c].pc = "run", ![c].held = NoInstance]
    /\ UNCHANGED <<env, live, pm, drain, inFlight, reload, loop, force, tick>>

CmdEnd(c) ==
    /\ cmd[c].pc # "none"
    /\ cmd' = [cmd EXCEPT ![c] = IF cmd[c].reply
                                 THEN [cmd[c] EXCEPT !.pc = "none", !.held = NoInstance]
                                 ELSE NoCommand]
    /\ inFlight' = inFlight - 1
    /\ UNCHANGED <<env, live, pm, drain, reload, loop, force, tick>>

ReplyEnd(c) ==
    /\ cmd[c].reply
    /\ cmd' = [cmd EXCEPT ![c] = IF cmd[c].pc = "none" THEN NoCommand
                                 ELSE [cmd[c] EXCEPT !.reply = FALSE]]
    /\ inFlight' = inFlight - 1
    /\ UNCHANGED <<env, live, pm, drain, reload, loop, force, tick>>

(* One round of the tick loop.  A due tick takes its instance under the     *)
(* lock, looks at drain, and only then counts itself.                       *)
TickDue ==
    /\ tick.pc = "idle" /\ ~drain /\ pm # NoManager
    /\ tick' = TickAt("due")
    /\ UNCHANGED <<env, live, pm, drain, inFlight, reload, loop, force, cmd>>

TickTake ==
    /\ tick.pc = "due"
    /\ tick' = IF drain \/ pm = NoManager THEN TickAt("idle")
               ELSE [pc |-> "counting", late |-> FALSE, held |-> InstanceOf(pm)]
    /\ UNCHANGED <<env, live, pm, drain, inFlight, reload, loop, force, cmd>>

TickCount ==
    /\ tick.pc = "counting"
    /\ inFlight' = inFlight + 1
    /\ tick' = [tick EXCEPT !.pc = "exec", !.late = drain]
    /\ UNCHANGED <<env, live, pm, drain, reload, loop, force, cmd>>

TickPut ==
    /\ tick.pc = "exec"
    /\ inFlight' = inFlight - 1
    /\ tick' \in {TickAt("due"), TickAt("idle")}
    /\ UNCHANGED <<env, live, pm, drain, reload, loop, force, cmd>>

Ticking == TickDue \/ TickTake \/ TickCount \/ TickPut

Next ==
    \/ \E v \in Versions : Edit(v)
    \/ Coordinator
    \/ Connection \/ DialFails
    \/ \E c \in Commands : CmdTake(c) \/ CmdPut(c) \/ CmdEnd(c) \/ ReplyEnd(c)
    \/ Ticking

Spec == Init /\ [][Next]_vars

(* The runtime runs the coordinator and the loop, dialling does not fail    *)
(* for ever and frames keep coming (OneBot sends heartbeats).  No command   *)
(* or tick has to end, but a tick that holds the lock goes on; abort takes  *)
(* effect when the tick loop next waits.                                    *)
FairSpec ==
    /\ Spec
    /\ WF_vars(Coordinator) /\ WF_vars(Connection) /\ SF_vars(Dialled)
    /\ WF_vars(TickCount) /\ SF_vars(AbortTick)

------------------------------------------------------------------------------
(* Types: the shared flags, the slot and the tasks hold what the Rust types *)
(* can hold.                                                                *)
TypeOK ==
    /\ file \in Versions /\ event \in BOOLEAN /\ edits \in 0..MaxEdits
    /\ live \in Versions
    /\ pm \in Manager \union {NoManager}
    /\ drain \in BOOLEAN /\ force \in BOOLEAN
    /\ inFlight \in Nat
    /\ reload \in Reload
    /\ loop \in Loop
    /\ cmd \in [Commands -> Command]
    /\ tick \in Tick

Guards == Cardinality({c \in Commands : cmd[c].pc # "none"})
        + Cardinality({c \in Commands : cmd[c].reply})
        + (IF tick.pc = "exec" THEN 1 ELSE 0)

(* in_flight is the number of guards alive, whatever interleaves with the   *)
(* compare-and-swap loop, timeouts and an aborted tick loop.                *)
InFlightIsExact == inFlight = Guards

Switching == reload.pc \in {"plugins", "reloading", "swap", "effects", "release"}

(* What a switch finds running was dispatched after drain was set: no       *)
(* command or tick from before the reload lives on into the new             *)
(* configuration.                                                           *)
OnlyLateTasksSeeTheSwitch ==
    Switching => /\ \A c \in Commands : cmd[c].pc # "none" \/ cmd[c].reply => cmd[c].late
                 /\ tick.pc = "exec" => tick.late

(* An instance goes back to the manager and the layout it was taken from,   *)
(* unless its task was dispatched during a reload or outlived its           *)
(* connection.                                                              *)
FitsSlot(task) ==
    \/ task.held = NoInstance \/ task.late
    \/ loop.conn # task.held.conn
    \/ pm = NoManager
    \/ InstanceOf(pm) = task.held
InstancesFit == (\A c \in Commands : FitsSlot(cmd[c])) /\ FitsSlot(tick)

(* drain is set exactly during a reload and after one that timed out.       *)
DrainIsAccountedFor ==
    /\ reload.pc # "idle" => drain
    /\ reload.pc = "idle" /\ drain => ~reload.drained /\ reload.seen \in Valid

(* What the shared flags, the counter and the running tasks say of each     *)
(* other holds through every switch.                                        *)
ReloadIsConsistent ==
    TypeOK /\ InFlightIsExact /\ DrainIsAccountedFor /\ InstancesFit

(* No edit is lost: with no event pending the last reload read the file as  *)
(* it is.                                                                   *)
NoEditIsLost ==
    ~event /\ reload.pc \notin {"waiting", "read"} => reload.seen = file

(* Every reload ends, although tasks may never do.                          *)
EveryReloadEnds == reload.pc # "idle" ~> reload.pc = "idle"

(* Again and again the bot is connected to the configured URL (as long as   *)
(* the bound leaves connections to make), provided that no fetch_update     *)
(* loses its compare-and-swap for ever against ticks and ending commands.   *)
ReachesLiveUrl ==
    []<>(loop.pc \notin {"seen", "cas"}) =>
        []<>(\/ loop.pc \in {"check", "frame"} /\ loop.url = UrlOf[live]
             \/ loop.conn = MaxConns)

(* A reload comes to its end, and the connection to what it configured.     *)
ReloadsEnd == EveryReloadEnds /\ ReachesLiveUrl

------------------------------------------------------------------------------
(* reload.rs:20: after the timeout the switch is forced.                    *)
TimeoutForcesSwitch ==
    reload.pc = "idle" /\ drain => live = reload.new

==============================================================================
