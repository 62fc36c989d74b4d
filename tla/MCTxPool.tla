------------------------------ MODULE MCTxPool ------------------------------
(* One sender with a replacement at nonce 1 (t1 underbids u1) and a          *)
(* transaction at nonces 0 and 2.                                            *)
EXTENDS TxPool

CONSTANTS t0, t1, u1, t2, s

MC_nonce == [h \in Hash |-> CASE h = t0 -> 0 [] h = t2 -> 2 [] OTHER -> 1]
MC_sender == [h \in Hash |-> s]
MC_gas_price == [h \in Hash |-> IF h = u1 THEN 2 ELSE 1]
=============================================================================
