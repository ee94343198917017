------------------------------ MODULE IrcClient ------------------------------
(***************************************************************************)
(* The IRC client (osubot-core/src/irc.rs), by which players send back the  *)
(* codes of their binding requests, the bridge that gives them to a handler *)
(* (background.rs), and the restart after an edit (reload.rs).  The server  *)
(* sends lines; the head of the wire may have arrived in part only.  The    *)
(* reader waits for a line for a bounded time, and reading is not a step: a *)
(* wait given up in the middle of a line loses what was read of it.         *)
(***************************************************************************)
EXTENDS Naturals, Sequences, SequencesExt

CONSTANTS
    Codes,      \* each is sent once
    Capacity,   \* of the channel to the bridge
    MaxDelay,   \* of a reconnect, in units of the first
    MaxWire,    \* lines on their way to the reader
    MaxDials    \* dials of a behaviour, of all clients

VARIABLES
    pc,        \* the client: dial, listen, send, sleep
    redial,    \* reconnect_delay
    quiet,     \* consecutive_timeouts
    link,      \* what became of the connection: up, silent, closed
    wire,      \* lines not yet read
    head,      \* what has arrived of the first: all, part; lost when the part was
               \* read in vain, rest when what follows it has arrived
    hand,      \* the line being sent to the bridge
    queue,     \* the channel
    socket,    \* current_write holds a WebSocket
    fate,      \* [Codes -> where a code has got to]
    dials
vars == <<pc, redial, quiet, link, wire, head, hand, queue, socket, fate, dials>>

Lines == Codes \union {"PING", "PONG", "other"}
Becomes(lines, what) == [c \in Codes |-> IF c \in lines THEN what ELSE fate[c]]

Init ==
    /\ pc = "dial" /\ redial = 1 /\ quiet = 0
    /\ link = "closed" /\ wire = <<>> /\ head = "all" /\ hand = <<>>
    /\ queue = <<>> /\ socket = FALSE
    /\ fate = [c \in Codes |-> "unsent"]
    /\ dials = 0

------------------------------------------------------------------------------
(* The server, the network, the WebSocket.                                  *)
Send(l) ==
    /\ link = "up" /\ Len(wire) < MaxWire
    /\ l \in Codes => fate[l] = "unsent"
    /\ wire' = Append(wire, l) /\ fate' = Becomes({l}, "wire")
    /\ head' \in IF wire = <<>> THEN {"all", "part"} ELSE {head}
    /\ UNCHANGED <<pc, redial, quiet, link, hand, queue, socket, dials>>

Arrive ==
    /\ link = "up" /\ wire # <<>> /\ head \in {"part", "lost"}
    /\ head' = IF head = "part" THEN "all" ELSE "rest"
    /\ UNCHANGED <<pc, redial, quiet, link, wire, hand, queue, socket, fate, dials>>

Fail(how) ==
    /\ link = "up"
    /\ link' = how
    /\ UNCHANGED <<pc, redial, quiet, wire, head, hand, queue, socket, fate, dials>>

Switch ==
    /\ socket' = ~socket
    /\ UNCHANGED <<pc, redial, quiet, link, wire, head, hand, queue, fate, dials>>

------------------------------------------------------------------------------
(* connect_and_listen and the loop around it.                               *)
Dial(up) ==
    /\ pc = "dial" /\ dials < MaxDials
    /\ dials' = dials + 1
    /\ IF up THEN pc' = "listen" /\ link' = "up" /\ quiet' = 0
       ELSE pc' = "sleep" /\ UNCHANGED <<link, quiet>>
    /\ UNCHANGED <<redial, wire, head, hand, queue, socket, fate>>

\* Whatever is on the wire is lost with the connection.
Hangup ==
    /\ pc' = "sleep"
    /\ link' = "closed" /\ wire' = <<>> /\ head' = "all"
    /\ fate' = Becomes(ToSet(wire), "cut")
    /\ UNCHANGED <<redial, hand, queue, socket, dials>>

Sleep ==
    /\ pc = "sleep"
    /\ pc' = "dial"
    /\ redial' = IF 2 * redial > MaxDelay THEN MaxDelay ELSE 2 * redial
    /\ UNCHANGED <<quiet, link, wire, head, hand, queue, socket, fate, dials>>

Complete == wire # <<>> /\ (head \in {"all", "rest"} \/ link = "closed")

(* read_line has a line, or the rest of one after a timeout, of which a     *)
(* message remains when only its tags are lost; at the end of the           *)
(* connection also a part of one.  A PING is answered, which may fail.      *)
Read ==
    /\ pc = "listen" /\ Complete
    /\ LET l == Head(wire)
           next(says) == /\ quiet' = 0
                         /\ wire' = Tail(wire)
                         /\ head' \in IF Len(wire) = 2 THEN {"all", "part"} ELSE {"all"}
                         /\ fate' = Becomes({l}, says)
                         /\ UNCHANGED <<redial, link, queue, socket, dials>>
       IN  \/ head \in {"all", "rest"} /\ l \in Codes /\ pc' = "send" /\ hand' = <<l>> /\ next("hand")
           \/ head # "all" /\ UNCHANGED <<pc, hand>> /\ next("torn")
           \/ head = "all" /\ l \notin Codes /\ UNCHANGED <<pc, hand>> /\ next("read")
           \/ l = "PING" /\ link = "closed" /\ quiet' = 0 /\ Hangup

EndOfFile ==
    /\ pc = "listen" /\ link = "closed" /\ wire = <<>>
    /\ Hangup /\ UNCHANGED quiet

\* Slip: the keepalive counts as a sign of life.
KeepaliveResets ==
    /\ quiet' = 0
    /\ head' = IF head = "part" THEN "lost" ELSE head
    /\ UNCHANGED <<pc, redial, link, wire, hand, queue, socket, fate, dials>>

Keepalive ==
    /\ quiet' = quiet + 1
    /\ head' = IF head = "part" THEN "lost" ELSE head
    /\ UNCHANGED <<pc, redial, link, wire, hand, queue, socket, fate, dials>>

(* 120 s without a line: the first sends a keepalive, the second in a row   *)
(* gives the connection up.                                                 *)
Timeout ==
    /\ pc = "listen" /\ ~Complete
    /\ IF quiet + 1 >= 2 THEN Hangup /\ quiet' = quiet + 1
       ELSE \/ Keepalive
            \/ link # "up" /\ quiet' = quiet + 1 /\ Hangup

Deliver ==
    /\ pc = "send" /\ Len(queue) < Capacity
    /\ queue' = queue \o hand /\ hand' = <<>> /\ pc' = "listen"
    /\ fate' = Becomes(ToSet(hand), "queue")
    /\ UNCHANGED <<redial, quiet, link, wire, head, socket, dials>>

(* restart_irc: the old client is stopped wherever it waits.                *)
Restart ==
    /\ dials < MaxDials
    /\ pc' = "dial" /\ redial' = 1 /\ quiet' = 0
    /\ link' = "closed" /\ wire' = <<>> /\ head' = "all" /\ hand' = <<>>
    /\ fate' = Becomes(ToSet(wire) \union ToSet(hand), "cut")
    /\ UNCHANGED <<queue, socket, dials>>

(* spawn_irc_bridge: a code goes to a handler of its own, if one can be     *)
(* answered.                                                                *)
Bridge ==
    /\ queue # <<>>
    /\ queue' = Tail(queue)
    /\ fate' = Becomes({Head(queue)}, IF socket THEN "handled" ELSE "dropped")
    /\ UNCHANGED <<pc, redial, quiet, link, wire, head, hand, socket, dials>>

ClientStep == Sleep \/ Read \/ EndOfFile \/ Timeout \/ Deliver

Next ==
    \/ \E l \in Lines : Send(l)
    \/ Arrive \/ Switch
    \/ \E how \in {"silent", "closed"} : Fail(how)
    \/ \E up \in BOOLEAN : Dial(up)
    \/ ClientStep \/ Restart \/ Bridge

Fairness == WF_vars(Next /\ ClientStep) /\ WF_vars(Next /\ Bridge)

Spec == Init /\ [][Next]_vars /\ Fairness
------------------------------------------------------------------------------
(* The client never listens for good to a connection that has died, with or *)
(* without a sign of it; and whatever becomes of the connection, a code     *)
(* that was on its way reaches a handler, or is lost for one of the reasons *)
(* the code knows: cut off, torn in a wait, or dropped without a WebSocket. *)
Settled == {"unsent", "handled", "cut", "torn", "dropped"}
CodesAreSettled ==
    []<>(/\ link = "up" \/ pc \in {"dial", "sleep"}
         /\ \A c \in Codes : fate[c] \in Settled)
===============================================================================
