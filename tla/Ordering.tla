------------------------------ MODULE Ordering ------------------------------
(***************************************************************************)
(* Members of finite sets in an order, and what a sequence holds at some of *)
(* its positions.                                                          *)
(***************************************************************************)
EXTENDS Naturals, Sequences, FiniteSets

(* The members of a set, one after the other in the order R (pairs).        *)
InOrder(K, R) ==
    [k \in 1..Cardinality(K) |->
        CHOOSE i \in K : Cardinality({j \in K : <<j, i>> \in R}) = k]
Arranged(s, K, R) == LET at == InOrder(K, R) IN [k \in DOMAIN at |-> s[at[k]]]

(* What s holds at the positions K, in the order of s.                     *)
Upward(K)     == {p \in K \X K : p[1] <= p[2]}
Kept(s, K)    == Arranged(s, K, Upward(K))
==============================================================================
