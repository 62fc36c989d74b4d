----------------------------- MODULE Deployment -----------------------------
(***************************************************************************)
(* What `forge script --broadcast` promises, whatever happens between the  *)
(* command and the chains: the transactions of the script are executed in  *)
(* the order of the script, each at most once, and success is reported     *)
(* only once all of them have been executed and none has reverted.         *)
(***************************************************************************)
EXTENDS Integers, Sequences

CONSTANT N  \* number of transactions of the script

VARIABLES
  executed,  \* the transactions the chains have executed, and their outcomes
  reported   \* whether success was reported

vars == <<executed, reported>>

Init == executed = <<>> /\ reported = FALSE

Execute(ok) ==
  /\ Len(executed) < N
  /\ executed' = Append(executed, [tx |-> Len(executed) + 1, ok |-> ok])
  /\ UNCHANGED reported

Report ==
  /\ Len(executed) = N
  /\ \A k \in 1..N : executed[k].ok
  /\ reported' = TRUE
  /\ UNCHANGED executed

Next == (\E ok \in BOOLEAN : Execute(ok)) \/ Report

Spec == Init /\ [][Next]_vars
=============================================================================
