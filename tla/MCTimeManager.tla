--------------------------- MODULE MCTimeManager ---------------------------
(* Instances of TimeManager for TLC. *)
EXTENDS TimeManager
=============================================================================
