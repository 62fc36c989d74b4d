------------------------- MODULE MCScriptBroadcast -------------------------
(* Instances of ScriptBroadcast for TLC. *)
EXTENDS ScriptBroadcast, TLC

CONSTANTS a, b, x, y

\* A sequence of two or three transactions on one chain, one on another.
Sequences3 == <<1, 1, 2>>
Ends3 == <<2, 3>>
Sequences4 == <<1, 1, 1, 2>>
Ends4 == <<3, 4>>
Chains2 == <<x, y>>
=============================================================================
