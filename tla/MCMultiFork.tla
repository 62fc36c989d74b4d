---------------------------- MODULE MCMultiFork ----------------------------
EXTENDS MultiFork, TLC

Perms == Permutations(Backends)
=============================================================================
