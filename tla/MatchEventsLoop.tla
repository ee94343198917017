--------------------------- MODULE MatchEventsLoop ---------------------------
(***************************************************************************)
(* process_events as the loop the code runs, next to the closed form of    *)
(* MatchEvents that the other modules and the proofs use.  The state is a  *)
(* match as the osu! API shows it; every state is an input on which the    *)
(* two are compared, for every cursor a row can hold and every page.       *)
(***************************************************************************)
EXTENDS MatchEvents

CONSTANT MaxEvents       \* longest match explored

VARIABLES log,           \* kinds of the published events, by id
          ended          \* ids of the completed games
vars == <<log, ended>>

------------------------------------------------------------------------------
(* The loop.  s is the StateMachineOutput under construction, with the     *)
(* notifications as a sequence of <<id, phase>> and "broke" for break.     *)

LobbyStep(s, i, kind) ==
    [s EXCEPT !.notes    = IF kind = "quiet" THEN @ ELSE Append(@, <<i, "text">>),
              !.last     = i,
              !.notified = i]

CompletedStep(s, i) ==
    [s EXCEPT !.notes    = Append(@, <<i, "end">>),
              !.last     = i,
              !.notified = i,
              !.pending  = IF @ = i THEN None ELSE @]

RunningStep(s, i) ==
    [s EXCEPT !.notes    = IF s.pending = i THEN @ ELSE Append(@, <<i, "start">>),
              !.notified = IF s.pending = i THEN @ ELSE i,
              !.pending  = i,
              !.broke    = TRUE]

DisbandStep(s, i) ==
    [s EXCEPT !.notes    = Append(@, <<i, "text">>),
              !.last     = i,
              !.notified = i,
              !.stop     = TRUE,
              !.broke    = TRUE]

LoopStep(c, s, i) ==
    CASE s.broke \/ i <= c.last -> s
      [] ~(s.broke \/ i <= c.last) /\ c.pending # None /\ i > c.pending
            /\ s.pending # None -> [s EXCEPT !.broke = TRUE]
      [] OTHER -> CASE log[i] = "disband"              -> DisbandStep(s, i)
                    [] log[i] \in {"text", "quiet"}    -> LobbyStep(s, i, log[i])
                    [] IsRunningGame(log, ended, i)    -> RunningStep(s, i)
                    [] OTHER                           -> CompletedStep(s, i)

(* The page of events 1..hi, already consumed ones included: the code      *)
(* skips them itself.                                                      *)
ProcessLoop(c, hi) ==
    LET after[i \in 0..hi] ==
          IF i = 0
          THEN [last |-> c.last, notified |-> c.notified, pending |-> c.pending,
                notes |-> <<>>, stop |-> FALSE, broke |-> FALSE]
          ELSE LoopStep(c, after[i - 1], i)
    IN  after[hi]

------------------------------------------------------------------------------
Init == log = <<>> /\ ended = {}

(* A match is over once it is disbanded, and plays one game at a time.     *)
Publish(kind) ==
    /\ Len(log) < MaxEvents
    /\ \A i \in DOMAIN log : log[i] # "disband"
    /\ kind = "game" => Games(log) \subseteq ended
    /\ log' = Append(log, kind)
    /\ UNCHANGED ended

Complete(i) ==
    /\ i \in Games(log) \ ended
    /\ ended' = ended \union {i}
    /\ UNCHANGED log

Next == (\E kind \in Kinds : Publish(kind)) \/ (\E i \in Games(log) : Complete(i))

Spec == Init /\ [][Next]_vars

------------------------------------------------------------------------------
(* The cursors a row can hold: pending is absent or a game not consumed.   *)
Cursors == {c \in [last : 0..Len(log), notified : 0..Len(log),
                   pending : {None} \union Games(log)] :
               c.pending = None \/ c.pending > c.last}

PhaseOf(out, i) == IF i = out.pending THEN "start"
                   ELSE IF log[i] = "game" THEN "end" ELSE "text"

(* The closed form is the loop: on every match, cursor and page, exactly   *)
(* one stopping point satisfies ProcessedUpTo, and the cursor, the         *)
(* notifications in order and the stop reason are those of the loop in     *)
(* process_events.                                                         *)
ClosedFormIsLoop ==
    \A c \in Cursors, hi \in 0..Len(log) :
        c.last <= hi =>
        /\ Cardinality({n \in 0..hi : ProcessedUpTo(c, log, ended, hi, n)}) = 1
        /\ \A n \in 0..hi : ProcessedUpTo(c, log, ended, hi, n) =>
             LET loop  == ProcessLoop(c, hi)
                 notes == loop.notes
                 out   == NewCursor(c, log, ended, n)
             IN  /\ out = [last |-> loop.last, notified |-> loop.notified,
                           pending |-> loop.pending]
                 /\ {notes[j][1] : j \in DOMAIN notes} = Notifications(c, log, ended, n)
                 /\ \A j \in DOMAIN notes : notes[j] = <<notes[j][1], PhaseOf(out, notes[j][1])>>
                 /\ \A j, k \in DOMAIN notes : j < k => notes[j][1] < notes[k][1]
                 /\ loop.stop = StopReason(c, log, n)

(* The cursor of a row once the first k notifications are delivered.        *)
AckedUpTo(c, notes, k) ==
    LET acked[i \in 0..Len(notes)] ==
          IF i = 0 THEN c ELSE Acknowledged(acked[i - 1], notes[i][1], notes[i][2])
    IN  acked[k]

(* A poll whose k-th delivery fails resumes exactly there: polling again   *)
(* from the cursor left by the first k acknowledgements yields the         *)
(* remaining notifications, none lost and none repeated.                   *)
ResumesWhereDeliveryFailed ==
    \A c \in Cursors, hi \in 0..Len(log) :
        c.last <= hi /\ (c.pending # None => c.pending = c.last + 1) =>
        LET notes == ProcessLoop(c, hi).notes
        IN  \A k \in 0..Len(notes) :
                ProcessLoop(AckedUpTo(c, notes, k), hi).notes = SubSeq(notes, k + 1, Len(notes))

(* Where !ml <match> [#skip] begins: the first poll of the new listener    *)
(* announces the game that is being played, or, with #skip, every game     *)
(* after the skip-th and none before.                                      *)
StartsWithTheRightGame ==
    \A skip \in 0..2, n \in 0..Len(log) :
        StartsAt(log, ended, 0, skip, n) =>
        LET notes   == ProcessLoop(StartCursor(n), Len(log)).notes
            told    == {notes[j][1] : j \in DOMAIN notes}
            skipped == {g \in Games(log) : g <= n}
        IN  IF skip > 0 /\ Cardinality(Games(log)) >= skip
            THEN /\ Cardinality(skipped) = skip
                 /\ Games(log) \ skipped \subseteq told
            ELSE told = Games(log) \ ended

(* A page is processed as the loop does it, wherever a delivery fails and   *)
(* wherever the listener began.                                             *)
PagesAreProcessed ==
    ClosedFormIsLoop /\ ResumesWhereDeliveryFailed /\ StartsWithTheRightGame
==============================================================================
