--------------------------- MODULE MCForkBackend ---------------------------
EXTENDS ForkBackend, TLC

CONSTANTS c1, c2, acct, num, tx

MC_Block == {1, 2}
=============================================================================
