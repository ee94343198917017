------------------------------ MODULE MCAccounts ------------------------------
(* Two QQs that want the same users, over two handlers: from an empty       *)
(* database, and from one where q1 is about to unbind u1 while q2 holds a   *)
(* code for u1.                                                             *)
EXTENDS Accounts, TLC
CONSTANTS q1, q2, u1, u2, c1, t1, t2
MCEmpty == [bindings |-> [q \in Qqs |-> Nil], codes |-> [c \in Codes |-> Nil],
            unbinding |-> [q \in Qqs |-> "none"], schedule |-> [u \in Users |-> "none"]]
MCBusy == [bindings |-> (q1 :> u1) @@ (q2 :> Nil),
           codes |-> (c1 :> [qq |-> q2, user |-> u1, fresh |-> TRUE]),
           unbinding |-> (q1 :> "fresh") @@ (q2 :> "none"),
           schedule |-> (u1 :> "later") @@ (u2 :> "none")]
MCDatabases == {MCEmpty, MCBusy}
==============================================================================
