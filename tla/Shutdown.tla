----------------------------- MODULE Shutdown ------------------------------
(***************************************************************************)
(* Shutdown: a signal sets a flag and notifies waiters (background.rs,      *)
(* shutdown.rs); the WebSocket loop ends; main then stops the scheduler,    *)
(* which has a flag of its own but shares the notification, waits a bounded *)
(* time for the background tasks and exits.  Every task is a loop around    *)
(*     select! { event => work, wait_for_shutdown(flag) => break }          *)
(* and wait_for_shutdown is two steps: look at the flag, then wait for a    *)
(* notification.  notify_waiters reaches only those who wait already.       *)
(***************************************************************************)
EXTENDS Naturals, FiniteSets

CONSTANTS
    Tasks,           \* the background tasks
    Loop, Sched,     \* the WebSocket loop (not in Tasks), the scheduler
    Timed            \* those of Tasks whose event is a timer

VARIABLES
    stop,        \* the global flag
    schedStop,   \* the scheduler's own flag
    signal,      \* the signal handler: armed, stored, notified
    task,        \* [All -> position]: top, checked, parked, work, ended
    main         \* loop, notify, join, exited
vars == <<stop, schedStop, signal, task, main>>

All == Tasks \union {Loop}

Init ==
    /\ stop = FALSE /\ schedStop = FALSE
    /\ signal = "armed"
    /\ task = [t \in All |-> "top"]
    /\ main = "loop"

FlagOf(t) == IF t = Sched THEN schedStop ELSE stop

(* notify_waiters: whoever waits leaves its loop.                           *)
NotifyWaiters(w) == [t \in All |-> IF w[t] = "parked" THEN "ended" ELSE w[t]]

------------------------------------------------------------------------------
SetFlag ==
    /\ signal = "armed"
    /\ stop' = TRUE /\ signal' = "stored"
    /\ UNCHANGED <<schedStop, task, main>>

Notify ==
    /\ signal = "stored"
    /\ signal' = "notified"
    /\ task' = NotifyWaiters(task)
    /\ UNCHANGED <<stop, schedStop, main>>

(* The check at the head of the loop (scheduler, poller, WebSocket loop),   *)
(* or the first one in wait_for_shutdown.                                   *)
Check(t) ==
    /\ task[t] = "top"
    /\ task' = [task EXCEPT ![t] = IF FlagOf(t) THEN "ended" ELSE "checked"]
    /\ UNCHANGED <<stop, schedStop, signal, main>>

(* The select starts to wait for its event and for a notification.          *)
Park(t) ==
    /\ task[t] = "checked"
    /\ task' = [task EXCEPT ![t] = "parked"]
    /\ UNCHANGED <<stop, schedStop, signal, main>>

(* The event: a timer, a frame, a message, a change of a file.              *)
Wake(t) ==
    /\ task[t] = "parked"
    /\ task' = [task EXCEPT ![t] = "work"]
    /\ UNCHANGED <<stop, schedStop, signal, main>>

Work(t) ==
    /\ task[t] = "work"
    /\ task' = [task EXCEPT ![t] = "top"]
    /\ UNCHANGED <<stop, schedStop, signal, main>>

(* main, when the WebSocket loop has returned.                              *)
StopScheduler ==
    /\ main = "loop" /\ task[Loop] = "ended"
    /\ schedStop' = TRUE /\ main' = "notify"
    /\ UNCHANGED <<stop, signal, task>>

NotifyAgain ==
    /\ main = "notify"
    /\ task' = NotifyWaiters(task)
    /\ main' = "join"
    /\ UNCHANGED <<stop, schedStop, signal>>

(* Slip: no timeout around the join.                                        *)
JoinWithoutTimeout ==
    /\ main = "join" /\ \A t \in Tasks : task[t] = "ended"
    /\ main' = "exited"
    /\ UNCHANGED <<stop, schedStop, signal, task>>

(* All background tasks ended, or 10 s are over.                            *)
Join ==
    /\ main = "join"
    /\ main' = "exited"
    /\ UNCHANGED <<stop, schedStop, signal, task>>

Step(t) == Check(t) \/ Park(t)

Next ==
    /\ main # "exited"
    /\ \/ SetFlag \/ Notify
       \/ \E t \in All : Step(t) \/ Wake(t) \/ Work(t)
       \/ StopScheduler \/ NotifyAgain \/ Join


(* The runtime runs every task, and timers fire.  Nobody has to finish its  *)
(* work, and no message or file change has to come.                         *)
Fairness ==
    /\ WF_vars(Next /\ Notify)
    /\ \A t \in All : WF_vars(Next /\ Step(t))
    /\ \A t \in Timed : WF_vars(Next /\ Wake(t)) /\ WF_vars(Next /\ Work(t))
    /\ WF_vars(Next /\ (StopScheduler \/ NotifyAgain \/ Join))

Spec == Init /\ [][Next]_vars /\ Fairness

(* Frames come (OneBot sends heartbeats) and are dispatched without waiting *)
(* for anything.                                                            *)
FramesCome == WF_vars(Next /\ Wake(Loop)) /\ WF_vars(Next /\ Work(Loop))
------------------------------------------------------------------------------
(* With frames coming, the signal ends the program, whatever notification   *)
(* is missed and whatever task hangs in its work.  A task with a timer ends *)
(* or is cut off by the end of main also when it missed the notification    *)
(* and no frame ever comes; the scheduler once main has come to its flag.   *)
ShutdownReachesAll ==
    /\ FramesCome => (stop ~> main = "exited")
    /\ \A t \in Timed : FlagOf(t) ~> (task[t] = "ended" \/ main = "exited")

==============================================================================
