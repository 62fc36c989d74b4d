---------------------------- MODULE MCCodeCache ----------------------------
(* One account gets its code at block 1, the other never has code.           *)
EXTENDS CodeCache

CONSTANTS a1, a2, k, t1, t2

MC_deployed == [a \in Account |-> IF a = a1 THEN 1 ELSE MaxBlock + 1]
MC_code_of == [a \in Account |-> k]
=============================================================================
