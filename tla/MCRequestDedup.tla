---------------------------- MODULE MCRequestDedup ----------------------------
(* Instances of RequestDedup for TLC.                                      *)
EXTENDS RequestDedup
CONSTANTS c1, c2, c3, k1, k2, e1, e2

(* One caller asks for the first key only.                                 *)
AsksFor(c) == IF c = c3 THEN {k1} ELSE Keys

MCNext ==
    \/ \E c \in Callers : \/ \E k \in AsksFor(c) : Lookup(c, k)
                           \/ Step(c) \/ Cancel(c) \/ StopWaiting(c)
    \/ \E e \in Entries : TaskEnds(e) \/ Free(e)

MCSpec == Init /\ [][MCNext]_vars /\ Fairness
==============================================================================
