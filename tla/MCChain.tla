------------------------------ MODULE MCChain ------------------------------
(* One task after the other with restarts, and two at the same time. *)
EXTENDS Chain, TLC

CONSTANTS a, b

MC_Configs ==
  {[exclusive |-> TRUE, blocks |-> 5, ids |-> 2, keeper |-> 2,
    calls |-> {"mine", "snapshot", "revert", "dump", "restart"}],
   [exclusive |-> FALSE, blocks |-> 3, ids |-> 1, keeper |-> 1,
    calls |-> {"mine", "snapshot", "set_block"}]}

MC_Tasks == Permutations(Proc)
=============================================================================
