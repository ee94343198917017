---------------------------- MODULE MCHotReload ----------------------------
(* Instances of HotReload for TLC: v1 and v2 name different servers, bad    *)
(* does not validate.                                                       *)
EXTENDS HotReload, TLC
CONSTANTS v1, v2, bad, a, b, c1, c2
MCUrlOf == (v1 :> a) @@ (v2 :> b) @@ (bad :> a)
==============================================================================
