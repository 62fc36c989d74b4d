---------------------------- MODULE RemoteReads ----------------------------
(***************************************************************************)
(* What those who read a remote chain rely on, however their requests are   *)
(* cached, bundled, queued and reordered on the way: each reader asks one   *)
(* question at a time, and is answered with what the chain has for it at    *)
(* the block that is read, or told that the request failed.  The block is   *)
(* changed only when nobody waits for an answer or holds one.               *)
(*                                                                          *)
(* CodeCache and ForkBackend are shown to implement this specification.     *)
(***************************************************************************)
CONSTANTS
  Reader,
  Query,
  Source,   \* the blocks that may be read
  right,    \* Source -> Query -> the answers that are right
  None, Failed

VARIABLES
  reader,   \* what each reader is doing
  source    \* the block that is read

vars == <<reader, source>>

Idle == [pc |-> "idle", query |-> None, answer |-> None]
Waiting(q) == [pc |-> "waiting", query |-> q, answer |-> None]
Answered(q, a) == [pc |-> "answered", query |-> q, answer |-> a]

\* One reader asks, and may be answered at once; is answered; or goes on.
Asks(x, y) ==
  /\ x = Idle
  /\ \E q \in Query : y = Waiting(q) \/ \E a \in right[source][q] : y = Answered(q, a)

IsAnswered(x, y) ==
  /\ x.pc = "waiting"
  /\ \/ \E a \in right[source][x.query] \union {Failed} : y = Answered(x.query, a)
     \/ y = Idle

GoesOn(x, y) == x.pc = "answered" /\ y = Idle

Moves(x, y) == x = y \/ Asks(x, y) \/ IsAnswered(x, y) \/ GoesOn(x, y)

\* One answer of the chain may be for several readers.
Read ==
  /\ reader' = [r \in Reader |-> reader'[r]]
  /\ \A r \in Reader : Moves(reader[r], reader'[r])
  /\ UNCHANGED source

ChangeBlock ==
  /\ \A r \in Reader : reader[r] = Idle
  /\ source' \in Source
  /\ UNCHANGED reader

Init ==
  /\ reader = [r \in Reader |-> Idle]
  /\ source \in Source

Next == Read \/ ChangeBlock

Spec == Init /\ [][Next]_vars
=============================================================================
