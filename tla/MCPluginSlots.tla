---------------------------- MODULE MCPluginSlots ----------------------------
(* Two plugins that both declare the command x.  A plugin may be removed,   *)
(* and q may overtake p in priority and give up its tick and on_message.    *)
EXTENDS PluginSlots, TLC
CONSTANTS p, q, x, h1, ticks
MCOrder    == <<p, q>>
Low        == [prio |-> 1, cmds |-> {x}, msg |-> TRUE, tick |-> TRUE]
Mid        == [prio |-> 1, cmds |-> {x}, msg |-> FALSE, tick |-> TRUE]
High       == [prio |-> 2, cmds |-> {x}, msg |-> FALSE, tick |-> FALSE]
MCSettings == {Low, Mid, High}
MCFirst    == (p :> Low) @@ (q :> Mid)
MCFiles    == {MCFirst, (p :> Off) @@ (q :> Mid), (p :> Low) @@ (q :> High)}
==============================================================================
