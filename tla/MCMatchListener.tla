--------------------------- MODULE MCMatchListener ---------------------------
(***************************************************************************)
(* Instances of MatchListener for TLC, by scenes.  Whole: everything        *)
(* happens.  One: a listener is stopped, expires and is started again while *)
(* the poller works on it.  Many: two handlers start listeners of several   *)
(* matches, of which no more happens.                                       *)
(***************************************************************************)
EXTENDS MatchListener, TLC
CONSTANTS m1, m2, m3, g1, c1, c2

MuteNothing == {{}}
MuteStarts  == {{}, {"start"}}
Symmetry    == Permutations(Cmds)

VARIABLE scene

OneListener ==
    \/ \E kind \in Kinds : Publish(m1, kind)
    \/ \E i \in Games(log[m1]) : CompleteGame(m1, i)
    \/ Tick \/ Poller
    \/ \E c \in Cmds :
         /\ \A d \in Cmds \ {c} : cmd[d].pc = "idle"
         /\ \/ StartCheck(c, <<m1, g1>>) \/ StartCount(c) \/ StartFetch(c)
            \/ StartInsert(c) \/ StartAbort(c)
    \/ Stop(<<m1, g1>>) \/ StopAll(g1)

ManyListeners ==
    /\ Commands \/ Tick \/ Poller
    /\ faults'.db = 0

MCNext ==
    /\ \/ scene = "whole" /\ Next
       \/ scene = "one" /\ OneListener
       \/ scene = "many" /\ ManyListeners
    /\ UNCHANGED scene

------------------------------------------------------------------------------
(* Of the faults the bounds allow, a whole behaviour meets some: a crash    *)
(* and an unconfirmed delivery, or a database error, or the clock that goes *)
(* on.                                                                      *)
Spent(crash, reset, ghost, db) == [crash |-> crash, reset |-> reset, ghost |-> ghost, db |-> db]
SomeFaults ==
    /\ scene = "whole"
    /\ NothingYet
    /\ \/ now = MaxTime /\ faults = Spent(0, 0, 0, MaxDbErrors)
       \/ now = MaxTime /\ faults = Spent(MaxCrashes, 0, MaxGhosts, 0)
       \/ now = 0 /\ faults = Spent(MaxCrashes, 0, MaxGhosts, MaxDbErrors)

WholeInit  == Init /\ scene = "whole"
ScenesInit == Init /\ scene \in {"one", "many"}

MCSpec     == WholeInit /\ [][MCNext]_<<vars, scene>>
MCFairSpec == SomeFaults /\ [][MCNext]_<<vars, scene>> /\ Fairness
ScenesSpec == ScenesInit /\ [][MCNext]_<<vars, scene>>
==============================================================================
