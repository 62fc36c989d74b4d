--------------------------- MODULE MCEvmBackend ---------------------------
(* The EVM backend of a test with two senders and a few forks. *)
EXTENDS EvmBackend, TLC

\* One transaction that is the first of its block and one that is not.
MCTransactions == {<<1, TRUE>>, <<2, FALSE>>}

Perms == Permutations(Callers)

===========================================================================
