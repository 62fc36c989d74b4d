---------------------------- MODULE MCAnvilNode ----------------------------
(* One sender, with a transaction at each of the nonces 0, 1 and 2: the    *)
(* later ones pay more, and the second one takes more gas.                 *)
EXTENDS AnvilNode

CONSTANTS t0, t1, t2, s, c1, c2

\* Clients that only submit, to blocks that hold two transactions or less; that manage
\* the pool; that change the mining mode.
MC_raw == [order |-> "fees", modes |-> {"auto"}, calls |-> {"raw"}, most |-> 3, gas_limit |-> 3]
MC_send == [order |-> "fifo", modes |-> {"auto"}, calls |-> {"send"}, most |-> 3, gas_limit |-> 3]
MC_interval ==
  [order |-> "fees", modes |-> {"interval"}, calls |-> {"raw"}, most |-> 3, gas_limit |-> 2]
MC_manage ==
  [order |-> "fees", modes |-> {"auto"},
   calls |-> {"raw", "mine", "drop", "remove"}, most |-> 3, gas_limit |-> 2]
MC_switch ==
  [order |-> "fees", modes |-> {"none", "interval"},
   calls |-> {"raw", "mine", "automine", "interval", "clear"}, most |-> 2, gas_limit |-> 1]

MC_submissions == {MC_raw}
MC_all == {MC_raw, MC_send, MC_interval, MC_manage, MC_switch}

MC_nonce == [h \in Hash |-> CASE h = t0 -> 0 [] h = t1 -> 1 [] OTHER -> 2]
MC_sender == [h \in Hash |-> s]
MC_gas_price == [h \in Hash |-> 1 + MC_nonce[h]]
MC_gas == [h \in Hash |-> IF h = t1 THEN 2 ELSE 1]
=============================================================================
