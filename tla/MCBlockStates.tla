--------------------------- MODULE MCBlockStates ---------------------------
(* Instances of BlockStates for TLC. *)
EXTENDS BlockStates
=============================================================================
