------------------------------ MODULE ChatFeed ------------------------------
(***************************************************************************)
(* What the match listener promises each chat: an ordered, at-least-once   *)
(* feed of a match.  A chat reads an append-only log of events through a   *)
(* position that its subscription sets.  An event may be announced any     *)
(* number of times, but the position passes it only when it is settled     *)
(* (announced, switched off by the configuration, or not worth a message), *)
(* and no event is announced before all earlier ones are settled.  Events  *)
(* up to "floor", the furthest point a subscription of this chat asked to  *)
(* start from, are exempt.                                                 *)
(***************************************************************************)
EXTENDS Integers, Sequences

CONSTANTS
    Readers,               \* subscribers
    Feed,                  \* feeds
    FeedOf(_),             \* the feed a reader reads
    Settles(_, _, _, _)    \* Settles(kind, i, told, off): event i of this kind
                           \* needs no further announcement

VARIABLES
    events,    \* [Feed -> Seq] the published events
    position,  \* [Readers -> Nat] how far each reader is
    told,      \* [Readers -> SET <<id, phase>>] what was announced
    off,       \* [Readers -> SET <<id, phase>>] what was switched off
    floor      \* [Readers -> Nat]
vars == <<events, position, told, off, floor>>

Settled(r, i) == Settles(events[FeedOf(r)][i], i, told[r], off[r])

SettledBefore(r, i) == \A j \in (floor[r] + 1)..(i - 1) : Settled(r, j)

Init ==
    /\ \A r \in Readers : position[r] = 0 /\ told[r] = {} /\ off[r] = {} /\ floor[r] = 0

Publish(f) ==
    /\ \E e \in {"quiet", "text", "game", "disband"} :
          events' = [events EXCEPT ![f] = Append(@, e)]
    /\ UNCHANGED <<position, told, off, floor>>

(* The next event is announced, or an earlier one again.                   *)
Announce(r) ==
    /\ \E i \in 1..Len(events[FeedOf(r)]), phase \in {"text", "start", "end"} :
          /\ SettledBefore(r, i)
          /\ told' = [told EXCEPT ![r] = @ \union {<<i, phase>>}]
    /\ UNCHANGED <<events, position, off, floor>>

SwitchOff(r) ==
    /\ \E i \in 1..Len(events[FeedOf(r)]), phase \in {"start", "end"} :
          /\ SettledBefore(r, i)
          /\ off' = [off EXCEPT ![r] = @ \union {<<i, phase>>}]
    /\ UNCHANGED <<events, position, told, floor>>

(* The position moves over settled events only, or back (a crash lost its  *)
(* progress and events will be announced again).                           *)
Move(r) ==
    /\ \E n \in 0..Len(events[FeedOf(r)]) :
          /\ SettledBefore(r, n + 1)
          /\ position' = [position EXCEPT ![r] = n]
    /\ UNCHANGED <<events, told, off, floor>>

Subscribe(r) ==
    /\ \E n \in 0..Len(events[FeedOf(r)]) :
          /\ position' = [position EXCEPT ![r] = n]
          /\ floor' = [floor EXCEPT ![r] = IF n > @ THEN n ELSE @]
    /\ UNCHANGED <<events, told, off>>

Next == \/ \E f \in Feed : Publish(f)
        \/ \E r \in Readers : Announce(r) \/ SwitchOff(r) \/ Move(r) \/ Subscribe(r)

Spec == Init /\ [][Next]_vars
==============================================================================
