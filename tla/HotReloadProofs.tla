--------------------------- MODULE HotReloadProofs ---------------------------
(***************************************************************************)
(* Proofs about HotReload, for any number of command tasks, any versions   *)
(* of the file and any bounds.                                             *)
(***************************************************************************)
EXTENDS HotReload, FiniteSetTheorems, TLAPS

------------------------------------------------------------------------------
(* The inductive invariant, in the parts that need each other.              *)

(* No tick is at work while there is no connection to serve.                *)
TickRests ==
    loop.pc \in {"connect", "dial", "init", "install", "unload"} => tick.pc = "off"

ManagerTaken == reload.pc = "reloading" => reload.pm # NoManager

(* What the counter needs: the tasks it counts.                             *)
CountInv == TypeOK /\ InFlightIsExact /\ TickRests /\ ManagerTaken

Late(task) == (task.pc # "none" \/ task.reply) => task.late
AllLate == (\A c \in Commands : Late(cmd[c])) /\ (tick.pc = "exec" => tick.late)

(* A switch only follows a drain that ended in time, and from the moment    *)
(* the counter was seen at zero every task is one that found drain set.     *)
DrainInv ==
    /\ DrainIsAccountedFor
    /\ Switching => reload.drained
    /\ reload.drained /\ (reload.pc = "read" \/ Switching) => AllLate

(* Made for an earlier connection, or for this one once it has a manager.   *)
MadeBefore(n) ==
    IF loop.pc \in {"init", "install"} THEN n < loop.conn ELSE n <= loop.conn

HeldAtWork ==
    /\ \A c \in Commands : cmd[c].held # NoInstance => cmd[c].pc = "exec"
    /\ tick.held # NoInstance => tick.pc \in {"counting", "exec"}
    /\ tick.late => tick.pc = "exec"

ConnsInOrder ==
    /\ pm # NoManager => MadeBefore(pm.conn)
    /\ reload.pm # NoManager => MadeBefore(reload.pm.conn)
    /\ \A c \in Commands : cmd[c].held # NoInstance => MadeBefore(cmd[c].held.conn)
    /\ tick.held # NoInstance => MadeBefore(tick.held.conn)

(* What makes a returning instance fit: held instances are at work, and     *)
(* managers and instances are numbered by the connection they were made for.*)
FitInv == HeldAtWork /\ ConnsInOrder /\ InstancesFit

IInv == CountInv /\ DrainInv /\ FitInv

------------------------------------------------------------------------------
(* Counting tasks.                                                          *)
Alive    == {c \in Commands : cmd[c].pc # "none"}
Replying == {c \in Commands : cmd[c].reply}
AtWork   == IF tick.pc = "exec" THEN 1 ELSE 0

LEMMA Counts ==
    /\ IsFiniteSet(Alive) /\ Cardinality(Alive) \in Nat
    /\ IsFiniteSet(Replying) /\ Cardinality(Replying) \in Nat
    /\ Guards = Cardinality(Alive) + Cardinality(Replying) + AtWork
<1>1. Alive \in SUBSET Commands /\ Replying \in SUBSET Commands
  BY DEF Alive, Replying
<1>2. IsFiniteSet(Alive) /\ IsFiniteSet(Replying)
  BY <1>1, FS_Subset, TasksAssumption
<1>3. QED
  BY <1>2, FS_CardinalityType DEF Guards, Alive, Replying, AtWork

LEMMA CountsPrime ==
    Guards' = Cardinality(Alive') + Cardinality(Replying') + AtWork'
BY DEF Guards, Alive, Replying, AtWork

(* The counter stays exact when the tasks it counts change by one.          *)
LEMMA CountsKept ==
    ASSUME TypeOK, InFlightIsExact, inFlight' = inFlight,
           \A c \in Commands : (cmd'[c].pc # "none" <=> cmd[c].pc # "none")
                               /\ cmd'[c].reply = cmd[c].reply,
           tick'.pc = "exec" <=> tick.pc = "exec"
    PROVE  inFlight' \in Nat /\ InFlightIsExact'
<1>1. Alive' = Alive /\ Replying' = Replying /\ AtWork' = AtWork
  BY DEF Alive, Replying, AtWork
<1>2. QED
  BY <1>1, Counts, CountsPrime DEF InFlightIsExact, TypeOK

LEMMA TickCounted ==
    ASSUME TypeOK, InFlightIsExact, UNCHANGED cmd,
           \/ tick.pc # "exec" /\ tick'.pc = "exec" /\ inFlight' = inFlight + 1
           \/ tick.pc = "exec" /\ tick'.pc # "exec" /\ inFlight' = inFlight - 1
    PROVE  inFlight' \in Nat /\ InFlightIsExact'
<1>1. Alive' = Alive /\ Replying' = Replying
  BY DEF Alive, Replying
<1>2. QED
  BY <1>1, Counts, CountsPrime DEF InFlightIsExact, AtWork

LEMMA TaskCounted ==
    ASSUME TypeOK, InFlightIsExact, NEW c \in Commands, UNCHANGED tick,
           cmd' \in [Commands -> Command],
           \A d \in Commands \ {c} : cmd'[d] = cmd[d],
           \/ /\ cmd[c].pc = "none" /\ ~cmd[c].reply
              /\ cmd'[c].pc # "none" /\ cmd'[c].reply
              /\ inFlight' = inFlight + 2
           \/ /\ cmd[c].pc # "none" /\ cmd'[c].pc = "none"
              /\ cmd'[c].reply = cmd[c].reply
              /\ inFlight' = inFlight - 1
           \/ /\ cmd[c].reply /\ ~cmd'[c].reply
              /\ cmd'[c].pc # "none" <=> cmd[c].pc # "none"
              /\ inFlight' = inFlight - 1
    PROVE  inFlight' \in Nat /\ InFlightIsExact'
<1>1. AtWork' = AtWork /\ AtWork \in Nat
  BY DEF AtWork
<1>2. CASE /\ cmd[c].pc = "none" /\ ~cmd[c].reply
           /\ cmd'[c].pc # "none" /\ cmd'[c].reply
           /\ inFlight' = inFlight + 2
  <2>1. Alive' = Alive \union {c} /\ c \notin Alive
    BY <1>2 DEF Alive
  <2>2. Replying' = Replying \union {c} /\ c \notin Replying
    BY <1>2 DEF Replying
  <2>3. Cardinality(Alive') = Cardinality(Alive) + 1
    BY <2>1, Counts, FS_AddElement
  <2>4. Cardinality(Replying') = Cardinality(Replying) + 1
    BY <2>2, Counts, FS_AddElement
  <2>5. QED
    BY <1>1, <1>2, <2>3, <2>4, Counts, CountsPrime DEF InFlightIsExact
<1>3. CASE /\ cmd[c].pc # "none" /\ cmd'[c].pc = "none"
           /\ cmd'[c].reply = cmd[c].reply
           /\ inFlight' = inFlight - 1
  <2>1. Alive' = Alive \ {c} /\ c \in Alive
    BY <1>3 DEF Alive
  <2>2. Replying' = Replying
    BY <1>3 DEF Replying
  <2>3. Cardinality(Alive') = Cardinality(Alive) - 1 /\ Cardinality(Alive') \in Nat
    BY <2>1, Counts, FS_RemoveElement, FS_CardinalityType
  <2>4. QED
    BY <1>1, <1>3, <2>2, <2>3, Counts, CountsPrime DEF InFlightIsExact
<1>4. CASE /\ cmd[c].reply /\ ~cmd'[c].reply
           /\ cmd'[c].pc # "none" <=> cmd[c].pc # "none"
           /\ inFlight' = inFlight - 1
  <2>1. Replying' = Replying \ {c} /\ c \in Replying
    BY <1>4 DEF Replying
  <2>2. Alive' = Alive
    BY <1>4 DEF Alive
  <2>3. Cardinality(Replying') = Cardinality(Replying) - 1 /\ Cardinality(Replying') \in Nat
    BY <2>1, Counts, FS_RemoveElement, FS_CardinalityType
  <2>4. QED
    BY <1>1, <1>4, <2>2, <2>3, Counts, CountsPrime DEF InFlightIsExact
<1>5. QED
  BY <1>2, <1>3, <1>4

(* The counter at zero means that no task is left.                          *)
LEMMA ZeroMeansNone ==
    ASSUME TypeOK, InFlightIsExact, inFlight = 0
    PROVE  AllLate
<1>0. AtWork \in Nat
  BY DEF AtWork
<1>1. \A a, b, n \in Nat : a + b + n = 0 => a = 0 /\ b = 0 /\ n = 0
  OBVIOUS
<1>2. Cardinality(Alive) = 0 /\ Cardinality(Replying) = 0 /\ AtWork = 0
  BY <1>0, <1>1, Counts DEF InFlightIsExact
<1>3. Alive = {} /\ Replying = {}
  BY <1>2, Counts, FS_EmptySet
<1>4. QED
  BY <1>2, <1>3 DEF AllLate, Late, Alive, Replying, AtWork

------------------------------------------------------------------------------
(* Types of what the actions put together.                                  *)
LEMMA NullTypes ==
    /\ NoCommand \in Command /\ NoCommand.pc = "none" /\ ~NoCommand.reply
    /\ NoCommand.held = NoInstance
    /\ \A pc \in {"off", "idle", "due"} :
          /\ TickAt(pc) \in Tick /\ TickAt(pc).pc = pc /\ TickAt(pc).held = NoInstance
          /\ ~TickAt(pc).late
BY DEF NoCommand, Command, TickAt, Tick

LEMMA InstanceType ==
    ASSUME NEW x \in Manager
    PROVE  InstanceOf(x) \in Instance /\ InstanceOf(x).conn = x.conn
BY DEF InstanceOf, Instance, Manager

LEMMA ReloadedManager ==
    ASSUME NEW x \in Manager, NEW v \in Versions
    PROVE  [x EXCEPT !.gen = @ + 1, !.cfg = v] \in Manager
<1>1. x.gen + 1 \in Nat
  BY DEF Manager
<1>2. QED
  BY <1>1 DEF Manager

LEMMA LoopType ==
    ASSUME NEW x \in Loop
    PROVE  [x EXCEPT !.pc = "init", !.conn = @ + 1] \in Loop
<1>1. x.conn + 1 \in Nat
  BY DEF Loop
<1>2. QED
  BY <1>1 DEF Loop

(* The actions by what they leave alone.                                    *)
LEMMA CountEdit == ASSUME CountInv, NEW v \in Versions, Edit(v) PROVE CountInv'
<1>1. TypeOK'
  BY BoundAssumption DEF CountInv, TypeOK, Edit
<1>2. InFlightIsExact'
  BY CountsKept DEF CountInv, Edit
<1>3. QED
  BY <1>1, <1>2 DEF CountInv, Edit, TickRests, ManagerTaken

LEMMA CountCoordinator == ASSUME CountInv, Coordinator PROVE CountInv'
<1> USE DEF CountInv, TickRests, env
<1>1. InFlightIsExact'
  BY CountsKept DEF Coordinator, StartReload, WaitDrain, ReadConfig, TakeManager, ReplaceManager,
     Swap, SideEffects, Release
<1>2. TypeOK' /\ ManagerTaken'
  <2> USE DEF TypeOK, Reload, ManagerTaken
  <2>1. CASE StartReload
    BY <2>1 DEF StartReload
  <2>2. CASE WaitDrain
    BY <2>2 DEF WaitDrain
  <2>3. CASE ReadConfig
    BY <2>3 DEF ReadConfig
  <2>4. CASE TakeManager
    BY <2>4 DEF TakeManager
  <2>5. CASE ReplaceManager
    <3>1. reload.pm \in Manager /\ reload.old \in Versions
      BY <2>5 DEF ReplaceManager
    <3>2. pm' \in Manager
      BY <2>5, <3>1, ReloadedManager DEF ReplaceManager
    <3>3. QED
      BY <2>5, <3>2 DEF ReplaceManager
  <2>6. CASE Swap
    BY <2>6 DEF Swap
  <2>7. CASE SideEffects
    BY <2>7 DEF SideEffects
  <2>8. CASE Release
    BY <2>8 DEF Release
  <2>9. QED
    BY <2>1, <2>2, <2>3, <2>4, <2>5, <2>6, <2>7, <2>8 DEF Coordinator
<1>3. TickRests'
  BY DEF Coordinator, StartReload, WaitDrain, ReadConfig, TakeManager, ReplaceManager, Swap,
     SideEffects, Release
<1>4. QED
  BY <1>1, <1>2, <1>3

LEMMA CountConnection == ASSUME CountInv, Connection \/ DialFails PROVE CountInv'
<1> USE DEF CountInv, TypeOK, Loop, TickRests, ManagerTaken, env, LoopAt, LoopTo
<1>1. CASE ReadUrl
  <2>1. UrlOf[live] \in Urls
    BY ConfigAssumption
  <2>2. InFlightIsExact'
    BY <1>1, CountsKept DEF ReadUrl
  <2>3. QED
    BY <1>1, <2>1, <2>2 DEF ReadUrl
<1>2. CASE Dialled
  <2>1. InFlightIsExact'
    BY <1>2, CountsKept DEF Dialled
  <2>2. loop' \in Loop
    BY <1>2, LoopType DEF Dialled
  <2>3. QED
    BY <1>2, <2>1, <2>2 DEF Dialled
<1>3. CASE ReadPluginConfig
  <2>1. InFlightIsExact'
    BY <1>3, CountsKept DEF ReadPluginConfig
  <2>2. QED
    BY <1>3, <2>1 DEF ReadPluginConfig
<1>4. CASE Install
  <2>1. tick.pc = "off" /\ tick' = TickAt("idle")
    BY <1>4 DEF Install, Installed
  <2>2. InFlightIsExact'
    BY <1>4, <2>1, NullTypes, CountsKept DEF Install, Installed
  <2>3. [conn |-> loop.conn, gen |-> 0, cfg |-> loop.cfg] \in Manager
    BY DEF Manager
  <2>4. pm' \in Manager \union {NoManager}
    BY <1>4, <2>3 DEF Install, Installed
  <2>5. QED
    BY <1>4, <2>1, <2>2, <2>4, NullTypes DEF Install, Installed
<1>5. CASE CheckForce
  <2>1. InFlightIsExact'
    BY <1>5, CountsKept DEF CheckForce
  <2>2. QED
    BY <1>5, <2>1 DEF CheckForce
<1>6. CASE Frame
  <2>1. InFlightIsExact'
    BY <1>6, CountsKept DEF Frame
  <2>2. QED
    BY <1>6, <2>1 DEF Frame
<1>7. CASE LoadCount \/ SwapFails
  <2>1. InFlightIsExact'
    BY <1>7, CountsKept DEF LoadCount, SwapFails
  <2>2. QED
    BY <1>7, <2>1 DEF LoadCount, SwapFails
<1>8. CASE CheckDrain
  <2>1. InFlightIsExact'
    BY <1>8, CountsKept DEF CheckDrain
  <2>2. QED
    BY <1>8, <2>1 DEF CheckDrain
<1>9. ASSUME NEW c \in Commands, Admit(c) PROVE CountInv'
  <2> DEFINE task == [pc |-> "run", reply |-> TRUE, late |-> drain, held |-> NoInstance]
  <2>1. task \in Command
    BY DEF Command
  <2>2. cmd' = [cmd EXCEPT ![c] = task] /\ inFlight' = inFlight + 2 /\ cmd[c] = NoCommand
    BY <1>9 DEF Admit, Spawned
  <2>3. /\ cmd' \in [Commands -> Command] /\ cmd'[c].pc # "none" /\ cmd'[c].reply
        /\ \A d \in Commands \ {c} : cmd'[d] = cmd[d]
    BY <2>1, <2>2
  <2>4. inFlight' \in Nat /\ InFlightIsExact'
    <3>1. UNCHANGED tick
      BY <1>9 DEF Admit, Spawned
    <3>2. QED
      BY <2>2, <2>3, <3>1, NullTypes, TaskCounted
  <2>5. QED
    BY <1>9, <2>3, <2>4 DEF Admit, Spawned
<1>10. CASE Close
  <2>1. InFlightIsExact'
    BY <1>10, CountsKept DEF Close
  <2>2. QED
    BY <1>10, <2>1 DEF Close
<1>11. CASE AbortTick
  <2>1. inFlight' \in Nat /\ InFlightIsExact'
    <3>1. tick'.pc = "off"
      BY <1>11, NullTypes DEF AbortTick
    <3>2. CASE tick.pc = "exec"
      BY <1>11, <3>1, <3>2, TickCounted DEF AbortTick
    <3>3. CASE tick.pc # "exec"
      BY <1>11, <3>1, <3>3, CountsKept DEF AbortTick
    <3>4. QED
      BY <3>2, <3>3
  <2>2. QED
    BY <1>11, <2>1, NullTypes DEF AbortTick
<1>12. CASE Unload
  <2>1. InFlightIsExact'
    BY <1>12, CountsKept DEF Unload
  <2>2. QED
    BY <1>12, <2>1 DEF Unload
<1>13. CASE DialFails
  <2>1. InFlightIsExact'
    BY <1>13, CountsKept DEF DialFails
  <2>2. QED
    BY <1>13, <2>1 DEF DialFails
<1>14. QED
  BY <1>1, <1>2, <1>3, <1>4, <1>5, <1>6, <1>7, <1>8, <1>9, <1>10, <1>11, <1>12, <1>13
     DEF Connection

LEMMA CountTasks ==
    ASSUME CountInv, NEW c \in Commands, CmdTake(c) \/ CmdPut(c) \/ CmdEnd(c) \/ ReplyEnd(c)
    PROVE  CountInv'
<1> USE DEF CountInv, TypeOK, TickRests, ManagerTaken, env
<1>1. cmd[c] \in Command
  OBVIOUS
<1>2. cmd' \in [Commands -> Command]
  <2>1. CASE CmdTake(c)
    <3>1. InstanceOf(pm) \in Instance
      BY <2>1, InstanceType DEF CmdTake
    <3>2. [cmd[c] EXCEPT !.pc = "exec", !.held = InstanceOf(pm)] \in Command
      BY <1>1, <3>1 DEF Command
    <3>3. QED
      BY <2>1, <3>2 DEF CmdTake
  <2>2. CASE CmdPut(c)
    <3>1. [cmd[c] EXCEPT !.pc = "run", !.held = NoInstance] \in Command
      BY <1>1 DEF Command
    <3>2. QED
      BY <2>2, <3>1 DEF CmdPut
  <2>3. CASE CmdEnd(c)
    <3>1. [cmd[c] EXCEPT !.pc = "none", !.held = NoInstance] \in Command
      BY <1>1 DEF Command
    <3>2. QED
      BY <2>3, <3>1, NullTypes DEF CmdEnd
  <2>4. CASE ReplyEnd(c)
    <3>1. [cmd[c] EXCEPT !.reply = FALSE] \in Command
      BY <1>1 DEF Command
    <3>2. QED
      BY <2>4, <3>1, NullTypes DEF ReplyEnd
  <2>5. QED
    BY <2>1, <2>2, <2>3, <2>4
<1>3. inFlight' \in Nat /\ InFlightIsExact'
  <2>1. CASE CmdTake(c) \/ CmdPut(c)
    <3>1. \A d \in Commands : (cmd'[d].pc # "none" <=> cmd[d].pc # "none")
                              /\ cmd'[d].reply = cmd[d].reply
      BY <1>1, <2>1 DEF CmdTake, CmdPut, Command
    <3>2. QED
      BY <2>1, <3>1, CountsKept DEF CmdTake, CmdPut
  <2>2. CASE CmdEnd(c)
    <3>1. cmd'[c].pc = "none" /\ cmd'[c].reply = cmd[c].reply
      BY <1>1, <2>2, NullTypes DEF CmdEnd, Command
    <3>2. QED
      BY <1>2, <2>2, <3>1, TaskCounted DEF CmdEnd
  <2>3. CASE ReplyEnd(c)
    <3>1. ~cmd'[c].reply /\ (cmd'[c].pc # "none" <=> cmd[c].pc # "none")
      BY <1>1, <2>3, NullTypes DEF ReplyEnd, Command
    <3>2. QED
      BY <1>2, <2>3, <3>1, TaskCounted DEF ReplyEnd
  <2>4. QED
    BY <2>1, <2>2, <2>3
<1>4. QED
  BY <1>2, <1>3 DEF CmdTake, CmdPut, CmdEnd, ReplyEnd

LEMMA CountTicking == ASSUME CountInv, Ticking PROVE CountInv'
<1> USE DEF CountInv, TypeOK, TickRests, ManagerTaken, env
<1>1. CASE TickDue
  <2>1. InFlightIsExact'
    BY <1>1, NullTypes, CountsKept DEF TickDue
  <2>2. QED
    BY <1>1, <2>1, NullTypes DEF TickDue
<1>2. CASE TickTake
  <2>1. tick' \in Tick /\ tick'.pc \in {"idle", "counting"}
    <3>1. CASE drain \/ pm = NoManager
      BY <1>2, <3>1, NullTypes DEF TickTake
    <3>2. CASE ~drain /\ pm # NoManager
      <4>1. InstanceOf(pm) \in Instance
        BY <3>2, InstanceType
      <4>2. QED
        BY <1>2, <3>2, <4>1 DEF TickTake, Tick
    <3>3. QED
      BY <3>1, <3>2
  <2>2. InFlightIsExact'
    BY <1>2, <2>1, CountsKept DEF TickTake
  <2>3. QED
    BY <1>2, <2>1, <2>2 DEF TickTake
<1>3. CASE TickCount
  <2>1. tick' \in Tick /\ tick'.pc = "exec"
    BY <1>3 DEF TickCount, Tick
  <2>2. inFlight' \in Nat /\ InFlightIsExact'
    BY <1>3, <2>1, TickCounted DEF TickCount
  <2>3. QED
    BY <1>3, <2>1, <2>2 DEF TickCount
<1>4. CASE TickPut
  <2>1. tick' \in Tick /\ tick'.pc \in {"due", "idle"}
    BY <1>4, NullTypes DEF TickPut
  <2>2. inFlight' \in Nat /\ InFlightIsExact'
    BY <1>4, <2>1, TickCounted DEF TickPut
  <2>3. QED
    BY <1>4, <2>1, <2>2 DEF TickPut
<1>5. QED
  BY <1>1, <1>2, <1>3, <1>4 DEF Ticking

LEMMA CountInit == Init => CountInv
<1> SUFFICES ASSUME Init PROVE CountInv
  OBVIOUS
<1>1. TypeOK
  <2>1. First \in Versions /\ UrlOf[First] \in Urls
    BY ConfigAssumption
  <2>2. tick \in Tick /\ cmd \in [Commands -> Command]
    BY NullTypes DEF Init
  <2>3. reload \in Reload
    BY <2>1 DEF Init, Reload
  <2>4. loop \in Loop
    BY <2>1 DEF Init, Loop
  <2>5. 0 \in 0..MaxEdits /\ 0 \in Nat
    BY BoundAssumption
  <2>6. QED
    BY <2>1, <2>2, <2>3, <2>4, <2>5 DEF Init, TypeOK
<1>2. Alive = {} /\ Replying = {} /\ AtWork = 0
  BY NullTypes DEF Init, Alive, Replying, AtWork
<1>3. InFlightIsExact
  BY <1>2, Counts, FS_EmptySet DEF Init, InFlightIsExact
<1>4. QED
  BY <1>1, <1>3, NullTypes DEF CountInv, Init, TickRests, ManagerTaken

LEMMA CountNext == CountInv /\ [Next]_vars => CountInv'
<1> SUFFICES ASSUME CountInv, [Next]_vars PROVE CountInv'
  OBVIOUS
<1>1. CASE UNCHANGED vars
  BY <1>1 DEF vars, env, CountInv, TypeOK, InFlightIsExact, Guards, TickRests, ManagerTaken
<1>2. CASE Next
  BY <1>2, CountEdit, CountCoordinator, CountConnection, CountTasks, CountTicking DEF Next
<1>3. QED
  BY <1>1, <1>2

------------------------------------------------------------------------------
(* The drain.                                                               *)

(* A step that starts no task and lets none forget when it was counted      *)
(* keeps tasks late.                                                        *)
LEMMA StayLate ==
    ASSUME \A c \in Commands : Late(cmd[c]) => Late(cmd'[c]),
           tick'.pc = "exec" => tick.pc = "exec" /\ tick'.late = tick.late
    PROVE  AllLate => AllLate'
BY DEF AllLate

LEMMA DrainCoordinator == ASSUME CountInv, DrainInv, Coordinator PROVE DrainInv'
<1> USE DEF DrainInv, DrainIsAccountedFor, Switching, CountInv, TypeOK, Reload
<1>1. CASE StartReload
  BY <1>1 DEF StartReload
<1>2. CASE WaitDrain
  <2>1. inFlight = 0 => AllLate
    BY ZeroMeansNone
  <2>2. AllLate => AllLate'
    BY <1>2, StayLate DEF WaitDrain
  <2>3. reload'.pc = "read" /\ reload'.drained = (inFlight = 0) /\ drain' = drain /\ drain
    BY <1>2 DEF WaitDrain
  <2>4. QED
    BY <2>1, <2>2, <2>3
<1>3. ASSUME ReadConfig \/ TakeManager \/ ReplaceManager \/ Swap \/ SideEffects \/ Release
      PROVE  DrainInv'
  <2>1. AllLate => AllLate'
    BY <1>3, StayLate DEF ReadConfig, TakeManager, ReplaceManager, Swap, SideEffects, Release
  <2>2. CASE ReadConfig
    BY <2>1, <2>2 DEF ReadConfig
  <2>3. CASE TakeManager
    BY <2>1, <2>3 DEF TakeManager
  <2>4. CASE ReplaceManager
    BY <2>1, <2>4 DEF ReplaceManager
  <2>5. CASE Swap
    BY <2>1, <2>5 DEF Swap
  <2>6. CASE SideEffects
    BY <2>1, <2>6 DEF SideEffects
  <2>7. CASE Release
    BY <2>1, <2>7 DEF Release
  <2>8. QED
    BY <1>3, <2>2, <2>3, <2>4, <2>5, <2>6, <2>7
<1>4. QED
  BY <1>1, <1>2, <1>3 DEF Coordinator

(* Every other task leaves the coordinator and drain alone; what it starts  *)
(* is late while drain is set.                                              *)
LEMMA DrainOthers ==
    ASSUME DrainInv, UNCHANGED <<reload, drain>>, drain /\ AllLate => AllLate'
    PROVE  DrainInv'
BY DEF DrainInv, DrainIsAccountedFor, Switching

LEMMA LateEdit == ASSUME NEW v \in Versions, Edit(v), AllLate PROVE AllLate'
BY DEF Edit, AllLate

LEMMA LateConnection ==
    ASSUME CountInv, Connection \/ DialFails, drain, AllLate PROVE AllLate'
<1> USE DEF CountInv, TypeOK
<1>1. ASSUME NEW c \in Commands, Admit(c) PROVE AllLate'
  <2>1. cmd'[c].late = drain
    BY <1>1 DEF Admit, Spawned
  <2>2. \A d \in Commands \ {c} : cmd'[d] = cmd[d]
    BY <1>1 DEF Admit, Spawned
  <2>3. QED
    BY <1>1, <2>1, <2>2 DEF AllLate, Late, Admit, Spawned
<1>2. CASE Install
  BY <1>2, NullTypes, StayLate DEF Install, Installed, env
<1>3. CASE AbortTick
  BY <1>3, NullTypes, StayLate DEF AbortTick, env
<1>4. ASSUME UNCHANGED <<cmd, tick>> PROVE AllLate'
  BY <1>4 DEF AllLate
<1>5. QED
  BY <1>1, <1>2, <1>3, <1>4 DEF Connection, ReadUrl, Dialled, ReadPluginConfig, CheckForce,
     Frame, LoadCount, CheckDrain, SwapFails, Close, Unload, DialFails

LEMMA LateTasks ==
    ASSUME CountInv, NEW c \in Commands, CmdTake(c) \/ CmdPut(c) \/ CmdEnd(c) \/ ReplyEnd(c),
           AllLate
    PROVE  AllLate'
<1> USE DEF CountInv, TypeOK
<1>1. cmd[c] \in Command /\ \A d \in Commands \ {c} : cmd'[d] = cmd[d]
  BY DEF CmdTake, CmdPut, CmdEnd, ReplyEnd
<1>2. Late(cmd[c]) => Late(cmd'[c])
  <2>1. CASE CmdTake(c)
    BY <1>1, <2>1 DEF Late, CmdTake, Command
  <2>2. CASE CmdPut(c)
    BY <1>1, <2>2 DEF Late, CmdPut, Command
  <2>3. CASE CmdEnd(c)
    BY <1>1, <2>3, NullTypes DEF Late, CmdEnd, Command
  <2>4. CASE ReplyEnd(c)
    BY <1>1, <2>4, NullTypes DEF Late, ReplyEnd, Command
  <2>5. QED
    BY <2>1, <2>2, <2>3, <2>4
<1>3. UNCHANGED tick
  BY DEF CmdTake, CmdPut, CmdEnd, ReplyEnd
<1>4. QED
  BY <1>1, <1>2, <1>3, StayLate

LEMMA LateTicking == ASSUME CountInv, Ticking, drain, AllLate PROVE AllLate'
<1> USE DEF CountInv, TypeOK
<1>1. CASE TickCount
  BY <1>1 DEF TickCount, AllLate, Tick
<1>2. CASE TickDue \/ TickTake \/ TickPut
  BY <1>2, NullTypes, StayLate DEF TickDue, TickTake, TickPut
<1>3. QED
  BY <1>1, <1>2 DEF Ticking

LEMMA DrainNext == CountInv /\ DrainInv /\ [Next]_vars => DrainInv'
<1> SUFFICES ASSUME CountInv, DrainInv, [Next]_vars PROVE DrainInv'
  OBVIOUS
<1>1. CASE UNCHANGED vars
  BY <1>1, DrainOthers DEF vars, AllLate
<1>2. ASSUME NEW v \in Versions, Edit(v) PROVE DrainInv'
  BY <1>2, LateEdit, DrainOthers DEF Edit
<1>3. CASE Coordinator
  BY <1>3, DrainCoordinator
<1>4. CASE Connection \/ DialFails
  <2>1. UNCHANGED <<reload, drain>>
    BY <1>4 DEF Connection, ReadUrl, Dialled, ReadPluginConfig, Install, Installed, CheckForce, Frame,
       LoadCount, CheckDrain, SwapFails, Admit, Spawned, Close, AbortTick, Unload, DialFails
  <2>2. QED
    BY <1>4, <2>1, LateConnection, DrainOthers
<1>5. ASSUME NEW c \in Commands, CmdTake(c) \/ CmdPut(c) \/ CmdEnd(c) \/ ReplyEnd(c)
      PROVE  DrainInv'
  <2>1. UNCHANGED <<reload, drain>>
    BY <1>5 DEF CmdTake, CmdPut, CmdEnd, ReplyEnd
  <2>2. QED
    BY <1>5, <2>1, LateTasks, DrainOthers
<1>6. CASE Ticking
  <2>1. UNCHANGED <<reload, drain>>
    BY <1>6 DEF Ticking, TickDue, TickTake, TickCount, TickPut
  <2>2. QED
    BY <1>6, <2>1, LateTicking, DrainOthers
<1>7. QED
  BY <1>1, <1>2, <1>3, <1>4, <1>5, <1>6 DEF Next

LEMMA DrainInit == Init => DrainInv
BY DEF Init, DrainInv, DrainIsAccountedFor, Switching

------------------------------------------------------------------------------
(* The slot.                                                                *)

LEMMA NoInstanceIsNone == ASSUME NEW x \in Manager PROVE InstanceOf(x) # NoInstance
BY NullAssumption DEF InstanceOf, Manager

(* A held instance of a task t, by the connection it was made for.          *)
HeldBefore(t) == t.held # NoInstance => MadeBefore(t.held.conn)

(* A step that leaves the slot and the connection alone, and holds nothing  *)
(* that was not held, except an instance of the manager in the slot.        *)
Keeps(old, new) ==
    \/ new.held = NoInstance
    \/ /\ new.held = old.held
       /\ old.late => new.late
    \/ pm # NoManager /\ new.held = InstanceOf(pm)

LEMMA FitKept ==
    ASSUME CountInv, ConnsInOrder, InstancesFit,
           UNCHANGED <<pm, reload, loop>>,
           \A c \in Commands : Keeps(cmd[c], cmd'[c]), Keeps(tick, tick')
    PROVE  ConnsInOrder' /\ InstancesFit'
<1>1. pm # NoManager => InstanceOf(pm) # NoInstance /\ InstanceOf(pm).conn = pm.conn
  BY NoInstanceIsNone, InstanceType DEF CountInv, TypeOK
<1>2. ConnsInOrder'
  BY <1>1 DEF ConnsInOrder, MadeBefore, Keeps
<1>3. InstancesFit'
  BY <1>1 DEF InstancesFit, FitsSlot, Keeps, InstanceOf
<1>4. QED
  BY <1>2, <1>3

LEMMA FitTasks ==
    ASSUME CountInv, FitInv, NEW c \in Commands,
           CmdTake(c) \/ CmdPut(c) \/ CmdEnd(c) \/ ReplyEnd(c)
    PROVE  FitInv'
<1> USE DEF FitInv, CountInv, TypeOK
<1>1. /\ cmd[c] \in Command /\ \A d \in Commands \ {c} : cmd'[d] = cmd[d]
      /\ UNCHANGED <<pm, reload, loop, tick>>
  BY DEF CmdTake, CmdPut, CmdEnd, ReplyEnd
<1>2. Keeps(cmd[c], cmd'[c]) /\ (cmd'[c].held # NoInstance => cmd'[c].pc = "exec")
  <2>1. CASE CmdTake(c)
    BY <1>1, <2>1 DEF Keeps, CmdTake, Command
  <2>2. CASE CmdPut(c)
    BY <1>1, <2>2 DEF Keeps, CmdPut, Command
  <2>3. CASE CmdEnd(c)
    BY <1>1, <2>3, NullTypes DEF Keeps, CmdEnd, Command
  <2>4. CASE ReplyEnd(c)
    BY <1>1, <2>4, NullTypes DEF Keeps, ReplyEnd, Command, HeldAtWork
  <2>5. QED
    BY <2>1, <2>2, <2>3, <2>4
<1>3. \A d \in Commands : Keeps(cmd[d], cmd'[d])
  BY <1>1, <1>2 DEF Keeps
<1>4. HeldAtWork'
  BY <1>1, <1>2 DEF HeldAtWork
<1>5. QED
  BY <1>1, <1>3, <1>4, FitKept DEF Keeps

LEMMA FitTicking == ASSUME CountInv, FitInv, Ticking PROVE FitInv'
<1> USE DEF FitInv, CountInv, TypeOK
<1>1. UNCHANGED <<pm, reload, loop, cmd>>
  BY DEF Ticking, TickDue, TickTake, TickCount, TickPut
<1>2. /\ Keeps(tick, tick')
      /\ tick'.held # NoInstance => tick'.pc \in {"counting", "exec"}
      /\ tick'.late => tick'.pc = "exec"
  <2>1. CASE TickDue
    BY <2>1, NullTypes DEF Keeps, TickDue
  <2>2. CASE TickTake
    BY <2>2, NullTypes DEF Keeps, TickTake
  <2>3. CASE TickCount
    BY <2>3 DEF Keeps, TickCount, Tick, HeldAtWork
  <2>4. CASE TickPut
    BY <2>4, NullTypes DEF Keeps, TickPut
  <2>5. QED
    BY <2>1, <2>2, <2>3, <2>4 DEF Ticking
<1>3. HeldAtWork'
  BY <1>1, <1>2 DEF HeldAtWork
<1>4. QED
  BY <1>1, <1>2, <1>3, FitKept DEF Keeps

(* A manager is put into the slot only when no task that could still give   *)
(* an instance back was counted before: all of them are late, or hold       *)
(* instances of an earlier connection.                                      *)
LEMMA FitCoordinator == ASSUME CountInv, DrainInv, FitInv, Coordinator PROVE FitInv'
<1> USE DEF FitInv, CountInv, TypeOK, Reload, env
<1>1. UNCHANGED <<loop, cmd, tick>>
  BY DEF Coordinator, StartReload, WaitDrain, ReadConfig, TakeManager, ReplaceManager, Swap,
     SideEffects, Release
<1>2. HeldAtWork'
  BY <1>1 DEF HeldAtWork
<1>3. ASSUME UNCHANGED pm, reload'.pm = reload.pm PROVE FitInv'
  BY <1>1, <1>2, <1>3 DEF ConnsInOrder, MadeBefore, InstancesFit, FitsSlot
<1>4. CASE TakeManager
  BY <1>1, <1>2, <1>4 DEF TakeManager, ConnsInOrder, MadeBefore, InstancesFit, FitsSlot
<1>5. CASE ReplaceManager
  <2>1. reload.pm \in Manager /\ reload.pm # NoManager /\ MadeBefore(reload.pm.conn)
    BY <1>5 DEF ReplaceManager, ManagerTaken, ConnsInOrder
  <2>2. pm'.conn = reload.pm.conn /\ reload'.pm = NoManager
    BY <1>5, <2>1 DEF ReplaceManager, Manager
  <2>3. ConnsInOrder'
    BY <1>1, <2>1, <2>2 DEF ConnsInOrder, MadeBefore
  <2>4. AllLate
    BY <1>5 DEF ReplaceManager, DrainInv, Switching
  <2>5. \A c \in Commands : cmd[c].held # NoInstance => cmd[c].late
    BY <2>4 DEF AllLate, Late, HeldAtWork
  <2>6. tick.held # NoInstance => tick.late
    BY <1>5, <2>4 DEF AllLate, HeldAtWork, ReplaceManager, PmFree
  <2>7. InstancesFit'
    BY <1>1, <2>5, <2>6 DEF InstancesFit, FitsSlot
  <2>8. QED
    BY <1>2, <2>3, <2>7
<1>6. QED
  BY <1>3, <1>4, <1>5 DEF Coordinator, StartReload, WaitDrain, ReadConfig, Swap, SideEffects, Release

LEMMA FitConnection == ASSUME CountInv, FitInv, Connection \/ DialFails PROVE FitInv'
<1> USE DEF FitInv, CountInv, TypeOK, Loop, LoopAt, LoopTo, env
<1>1. ASSUME UNCHANGED <<pm, reload, cmd, tick>>, loop'.conn = loop.conn,
             loop'.pc \in {"init", "install"} => loop.pc \in {"init", "install"}
      PROVE  FitInv'
  <2>1. HeldAtWork'
    BY <1>1 DEF HeldAtWork
  <2>2. \A n \in Nat : MadeBefore(n) => MadeBefore(n)'
    BY <1>1 DEF MadeBefore
  <2>3. ConnsInOrder'
    BY <1>1, <2>2 DEF ConnsInOrder, Manager, Instance, Command, Tick, Reload
  <2>4. InstancesFit'
    BY <1>1 DEF InstancesFit, FitsSlot
  <2>5. QED
    BY <2>1, <2>3, <2>4
<1>2. CASE Dialled
  <2>1. UNCHANGED <<pm, reload, cmd, tick>> /\ loop'.conn = loop.conn + 1 /\ loop'.pc = "init"
        /\ loop.pc = "dial"
    BY <1>2 DEF Dialled
  <2>2. \A n \in Nat : MadeBefore(n) => MadeBefore(n)' /\ n # loop'.conn
    BY <2>1 DEF MadeBefore
  <2>3. HeldAtWork'
    BY <2>1 DEF HeldAtWork
  <2>4. ConnsInOrder'
    BY <2>1, <2>2 DEF ConnsInOrder, Manager, Instance, Command, Tick, Reload
  <2>5. InstancesFit'
    BY <2>1, <2>2 DEF InstancesFit, FitsSlot, ConnsInOrder, Instance, Command, Tick
  <2>6. QED
    BY <2>3, <2>4, <2>5
<1>3. CASE Install
  <2>1. /\ UNCHANGED <<reload, cmd>> /\ loop'.conn = loop.conn /\ loop'.pc = "check"
        /\ loop.pc = "install" /\ tick'.held = NoInstance /\ ~tick'.late
    BY <1>3, NullTypes DEF Install, Installed
  <2>2. \A n \in Nat : MadeBefore(n) => MadeBefore(n)' /\ n # loop'.conn
    BY <2>1 DEF MadeBefore
  <2>3. HeldAtWork'
    BY <2>1 DEF HeldAtWork
  <2>4. pm' # NoManager => pm'.conn = loop'.conn
    BY <1>3, <2>1 DEF Install, Installed
  <2>5. ConnsInOrder'
    BY <2>1, <2>2, <2>4 DEF ConnsInOrder, MadeBefore, Manager, Instance, Command, Reload
  <2>6. InstancesFit'
    BY <2>1, <2>2 DEF InstancesFit, FitsSlot, ConnsInOrder, Instance, Command
  <2>7. QED
    BY <2>3, <2>5, <2>6
<1>4. ASSUME NEW c \in Commands, Admit(c) PROVE FitInv'
  <2>1. /\ UNCHANGED <<pm, reload, tick>> /\ loop'.conn = loop.conn /\ loop'.pc = "check"
        /\ loop.pc = "cas" /\ cmd'[c].held = NoInstance
        /\ \A d \in Commands \ {c} : cmd'[d] = cmd[d]
    BY <1>4 DEF Admit, Spawned
  <2>2. HeldAtWork' /\ ConnsInOrder' /\ InstancesFit'
    BY <2>1 DEF HeldAtWork, ConnsInOrder, MadeBefore, InstancesFit, FitsSlot
  <2>3. QED
    BY <2>2
<1>5. CASE AbortTick
  <2>1. /\ UNCHANGED <<pm, reload, cmd>> /\ loop'.conn = loop.conn /\ loop'.pc = "unload"
        /\ loop.pc = "aborting" /\ tick'.held = NoInstance /\ ~tick'.late
    BY <1>5, NullTypes DEF AbortTick
  <2>2. HeldAtWork' /\ ConnsInOrder' /\ InstancesFit'
    BY <2>1 DEF HeldAtWork, ConnsInOrder, MadeBefore, InstancesFit, FitsSlot
  <2>3. QED
    BY <2>2
<1>6. CASE Unload
  <2>1. /\ UNCHANGED <<reload, cmd, tick>> /\ loop'.conn = loop.conn /\ loop'.pc = "connect"
        /\ loop.pc = "unload" /\ pm' = NoManager
    BY <1>6 DEF Unload
  <2>2. HeldAtWork' /\ ConnsInOrder' /\ InstancesFit'
    BY <2>1 DEF HeldAtWork, ConnsInOrder, MadeBefore, InstancesFit, FitsSlot
  <2>3. QED
    BY <2>2
<1>7. CASE ReadUrl \/ ReadPluginConfig \/ CheckForce \/ Frame \/ LoadCount \/ CheckDrain
           \/ SwapFails \/ Close \/ DialFails
  <2>1. /\ UNCHANGED <<pm, reload, cmd, tick>> /\ loop'.conn = loop.conn
        /\ loop'.pc \in {"init", "install"} => loop.pc \in {"init", "install"}
    BY <1>7 DEF ReadUrl, ReadPluginConfig, CheckForce, Frame, LoadCount, CheckDrain, SwapFails,
       Close, DialFails
  <2>2. QED
    BY <1>1, <2>1
<1>8. QED
  BY <1>2, <1>3, <1>4, <1>5, <1>6, <1>7 DEF Connection

LEMMA FitInit == Init => FitInv
BY NullTypes DEF Init, FitInv, HeldAtWork, ConnsInOrder, InstancesFit, FitsSlot

LEMMA FitNext == CountInv /\ DrainInv /\ FitInv /\ [Next]_vars => FitInv'
<1> SUFFICES ASSUME CountInv, DrainInv, FitInv, [Next]_vars PROVE FitInv'
  OBVIOUS
<1>1. CASE UNCHANGED vars
  BY <1>1 DEF vars, FitInv, HeldAtWork, ConnsInOrder, MadeBefore, InstancesFit, FitsSlot
<1>2. ASSUME NEW v \in Versions, Edit(v) PROVE FitInv'
  BY <1>2 DEF Edit, FitInv, HeldAtWork, ConnsInOrder, MadeBefore, InstancesFit, FitsSlot
<1>3. QED
  BY <1>1, <1>2, FitCoordinator, FitConnection, FitTasks, FitTicking DEF Next

------------------------------------------------------------------------------
LEMMA InvariantInit == Init => IInv
BY CountInit, DrainInit, FitInit DEF IInv

LEMMA InvariantNext == IInv /\ [Next]_vars => IInv'
BY CountNext, DrainNext, FitNext DEF IInv

LEMMA Invariant == Spec => []IInv
BY InvariantInit, InvariantNext, PTL DEF Spec

(* The counter in_flight is the number of tasks alive through every         *)
(* compare-and-swap, timeout and abort; drain is set exactly during a       *)
(* reload and after one that timed out; an instance goes back to the        *)
(* manager it came from unless its task is late or its connection over.     *)
THEOREM ReloadStaysConsistent == Spec => []ReloadIsConsistent
<1>1. IInv => ReloadIsConsistent
  BY DEF IInv, CountInv, DrainInv, FitInv, ReloadIsConsistent
<1>2. QED
  BY <1>1, Invariant, PTL

(* A switch of the configuration never finds a command or a tick that was   *)
(* counted before drain was set.                                            *)
THEOREM SwitchFindsLateTasksOnly == Spec => []OnlyLateTasksSeeTheSwitch
<1>1. IInv => OnlyLateTasksSeeTheSwitch
  BY DEF IInv, DrainInv, AllLate, Late, OnlyLateTasksSeeTheSwitch
<1>2. QED
  BY <1>1, Invariant, PTL

(* An edit is read by the reload its event starts, or by the next one.      *)
THEOREM EditsAreRead == Spec => []NoEditIsLost
<1>1. Init => NoEditIsLost
  BY DEF Init, NoEditIsLost
<1>2. CountInv /\ NoEditIsLost /\ [Next]_vars => NoEditIsLost'
  <2> SUFFICES ASSUME CountInv, NoEditIsLost, [Next]_vars PROVE NoEditIsLost'
    OBVIOUS
  <2> USE DEF NoEditIsLost, env
  <2>1. CASE Coordinator
    BY <2>1 DEF CountInv, TypeOK, Reload, Coordinator, StartReload, WaitDrain, ReadConfig, TakeManager,
       ReplaceManager, Swap, SideEffects, Release
  <2>2. CASE Connection \/ DialFails
    BY <2>2 DEF Connection, ReadUrl, Dialled, ReadPluginConfig, Install, Installed, CheckForce, Frame,
       LoadCount, CheckDrain, SwapFails, Admit, Spawned, Close, AbortTick, Unload, DialFails
  <2>3. QED
    BY <2>1, <2>2 DEF Next, vars, Edit, CmdTake, CmdPut, CmdEnd, ReplyEnd, Ticking, TickDue,
       TickTake, TickCount, TickPut
<1>3. IInv => CountInv
  BY DEF IInv
<1>4. QED
  BY <1>1, <1>2, <1>3, Invariant, PTL DEF Spec
==============================================================================
