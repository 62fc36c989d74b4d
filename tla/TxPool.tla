------------------------------- MODULE TxPool -------------------------------
(***************************************************************************)
(* The transaction pool of the anvil node: PoolInner with its two halves,  *)
(* PendingTransactions and ReadyTransactions                               *)
(* (crates/anvil/src/eth/pool/mod.rs, crates/anvil/src/eth/pool/           *)
(* transactions.rs).                                                       *)
(*                                                                         *)
(* A transaction is its hash.  Every caller builds a PoolTransaction that  *)
(* provides exactly one marker, its own (nonce, sender), and requires none *)
(* or the marker of the previous nonce of the same sender (required_marker *)
(* in eth/api.rs).  Which of the two depends on the nonce that was read at *)
(* submission, so "requires" is state and not an attribute of the hash.    *)
(*                                                                         *)
(* Every operation runs under the write lock of Pool::inner.  The two that *)
(* loop over a work list, add_ready_transaction and prune_markers, take    *)
(* one step per iteration while op holds the lock; the order in which a    *)
(* HashSet is iterated is arbitrary, so a work list is a sequence of       *)
(* unordered batches.                                                      *)
(***************************************************************************)
EXTENDS Integers, FiniteSets, Sequences

CONSTANTS
  Hash,         \* transaction hashes
  Sender,       \* accounts
  MaxNonce,     \* nonces are 0..MaxNonce
  sender,       \* Hash -> Sender
  nonce,        \* Hash -> 0..MaxNonce
  gas_price,    \* Hash -> Nat
  None,         \* the None of an Option
  MaxId,        \* bound: insertions into the ready queue
  MaxMarkers    \* bound: markers pruned by one block

Nonce == 0..MaxNonce

Marker == Nonce \X Sender

ASSUME TxAssumption ==
  /\ MaxNonce \in Nat
  /\ MaxId \in Nat
  /\ MaxMarkers \in Nat
  /\ sender \in [Hash -> Sender]
  /\ nonce \in [Hash -> Nonce]
  /\ gas_price \in [Hash -> Nat]
  /\ None \notin Hash
  /\ None \notin Marker
  /\ None \notin Sender

VARIABLES
  requires,                 \* PoolTransaction::requires, None when empty
  required_markers,         \* PendingTransactions
  waiting_markers,
  waiting_queue,
  provided_markers,         \* ReadyTransactions
  ready_tx,
  unlocks,                  \* unlocks[p][h]: how often h occurs in p's list
  requires_offset,
  independent_transactions,
  ref_id,                   \* PoolTransactionRef::id
  id,
  op                        \* the operation that holds the write lock

pending_vars == <<required_markers, waiting_markers, waiting_queue>>
ready_vars == <<provided_markers, ready_tx, unlocks, requires_offset,
                independent_transactions, ref_id, id>>
vars == <<requires, pending_vars, ready_vars, op>>

-----------------------------------------------------------------------------
(* Markers *)

to_marker(n, a) == <<n, a>>

provides(h) == to_marker(nonce[h], sender[h])

\* What required_marker can have returned for h, whatever nonce it was given.
required_marker_choices(h) ==
  {None} \cup {m \in Marker : m[2] = sender[h] /\ m[1] = nonce[h] - 1}

\* requires.len()
requires_len(h) == IF requires[h] = None THEN 0 ELSE 1

\* The ready transaction that provides what h requires, if any.
provider(h) ==
  IF requires[h] = None THEN None ELSE provided_markers[requires[h]]

NoUnlocks == [h \in Hash |-> 0]

Dec(n) == IF n > 0 THEN n - 1 ELSE 0

-----------------------------------------------------------------------------
(* The operation in progress *)

Idle == [name |-> "idle", markers |-> <<>>, imports |-> <<>>, head |-> None,
         queue |-> <<>>, is_new_tx |-> FALSE, promoted |-> {}, removed |-> {}]

\* Transactions in the batches of a work list.
InBatches(q) == UNION {q[i] : i \in DOMAIN q}

Enqueue(q, batch) == IF batch = {} THEN q ELSE Append(q, batch)

\* q after h was taken from its first batch.
Dequeue(q, h) ==
  IF q[1] = {h} THEN Tail(q) ELSE [q EXCEPT ![1] = @ \ {h}]

\* The lock is released when nothing is left to do.
Resume(o) ==
  IF o.markers = <<>> /\ o.imports = <<>> /\ o.queue = <<>> /\ o.head = None
  THEN Idle ELSE o

InFlight(o) == InBatches(o.imports) \cup InBatches(o.queue)

\* Transactions that left the pool have no requirement on record.
ForgetDropped ==
  requires' = [h \in Hash |->
    IF h \in waiting_queue' \cup ready_tx' \cup InFlight(op')
    THEN requires[h] ELSE None]

-----------------------------------------------------------------------------
(* PendingTransactions *)

\* Pool::contains
contains(h) == h \in waiting_queue \/ h \in ready_tx

\* add_transaction of a transaction whose marker r is missing.
pending_add_transaction(h, r) ==
  /\ required_markers' = [required_markers EXCEPT ![r] = @ \cup {h}]
  /\ waiting_markers' = [waiting_markers EXCEPT ![provides(h)] = h]
  /\ waiting_queue' = waiting_queue \cup {h}

\* A pending transaction may replace another only at no lower a gas price.
pending_underpriced(h) ==
  LET other == waiting_markers[provides(h)]
  IN  other \in waiting_queue /\ gas_price[h] < gas_price[other]

\* The transactions unlocked by m: each of them missed only m.
unlocked_by(m) == required_markers[m]

mark_and_unlock(m) ==
  /\ required_markers' = [required_markers EXCEPT ![m] = {}]
  /\ waiting_queue' = waiting_queue \ unlocked_by(m)
  /\ waiting_markers' = [k \in Marker |->
       IF \E h \in unlocked_by(m) : provides(h) = k
       THEN None ELSE waiting_markers[k]]

pending_remove(hashes) ==
  LET gone == hashes \cap waiting_queue
  IN  /\ waiting_queue' = waiting_queue \ gone
      /\ waiting_markers' = [k \in Marker |->
           IF \E h \in gone : provides(h) = k THEN None ELSE waiting_markers[k]]
      /\ required_markers' = [m \in Marker |-> required_markers[m] \ gone]

-----------------------------------------------------------------------------
(* ReadyTransactions *)

\* The least set of ready transactions that contains hashes and is closed
\* under "unlocks": what the stack of remove_with_markers goes through.
dependents(hashes) ==
  {h \in ready_tx :
     \A C \in SUBSET ready_tx :
       (/\ hashes \cap ready_tx \subseteq C
        /\ \A p \in C, k \in ready_tx : unlocks[p][k] > 0 => k \in C)
       => h \in C}

\* The "remove from unlocks" part of remove_with_markers: in the list of the
\* provider p of a removed transaction it looks for p's own hash.
unlink(removed, provided) ==
  [p \in Hash |-> [k \in Hash |->
     IF p \in removed THEN 0
     ELSE IF k = p /\ \E h \in removed : requires[h] # None
                                         /\ provided[requires[h]] = p
     THEN Dec(unlocks[p][k]) ELSE unlocks[p][k]]]

\* Mutant: only the marker of one of the removed transactions goes.
without_one_marker(removed) ==
  [m \in Marker |->
     IF \E h \in removed : /\ provides(h) = m
                            /\ \A k \in removed : nonce[h] <= nonce[k]
     THEN None ELSE provided_markers[m]]

\* provided_markers without those of the removed transactions.
without_markers(removed) ==
  [m \in Marker |->
     IF \E h \in removed : provides(h) = m THEN None ELSE provided_markers[m]]

\* remove_with_markers(hashes, None)
remove_with_markers(hashes) ==
  LET removed == dependents(hashes)
      provided == without_markers(removed)
  IN  /\ ready_tx' = ready_tx \ removed
      /\ provided_markers' = provided
      /\ unlocks' = unlink(removed, provided)
      /\ requires_offset' = [h \in Hash |->
           IF h \in removed THEN 0 ELSE requires_offset[h]]
      /\ ref_id' = [h \in Hash |-> IF h \in removed THEN 0 ELSE ref_id[h]]
      /\ independent_transactions' = independent_transactions \ removed
      /\ UNCHANGED id

\* replaced_transactions fails: the marker is provided at no lower a price.
ready_underpriced(h) ==
  LET old == provided_markers[provides(h)]
  IN  old # None /\ gas_price[h] <= gas_price[old]

\* Mutant: the replacement unlocks nothing.
inherited_nothing(old) == NoUnlocks

\* A replacement takes over what the replaced transaction unlocked.
inherited_unlocks(old) == IF old = None THEN NoUnlocks ELSE unlocks[old]

\* add_transaction, the transaction it replaces (same marker) included: that
\* one leaves with remove_with_markers(.., Some(markers of h)), which keeps
\* the marker and does not touch the transactions it unlocks.
ready_add_transaction(h) ==
  LET old == provided_markers[provides(h)]
      p == provider(h)
      gone == {old} \ {None}
      links == unlink(gone, provided_markers)
  IN  /\ id' = id + 1
      /\ ref_id' = [k \in Hash |->
           IF k = h THEN id ELSE IF k \in gone THEN 0 ELSE ref_id[k]]
      /\ unlocks' = [q \in Hash |->
           IF q = h THEN inherited_unlocks(old)
           ELSE IF q = p THEN [links[q] EXCEPT ![h] = @ + 1]
           ELSE links[q]]
      /\ requires_offset' = [k \in Hash |->
           IF k = h THEN (IF p = None THEN requires_len(h) ELSE 0)
           ELSE IF k \in gone THEN 0 ELSE requires_offset[k]]
      /\ independent_transactions' =
           (independent_transactions \ gone) \cup (IF p = None THEN {h} ELSE {})
      /\ provided_markers' = [provided_markers EXCEPT ![provides(h)] = h]
      /\ ready_tx' = (ready_tx \ gone) \cup {h}

\* p's unlocks are empty once one entry for h is taken out.
only_unlock(p, h) ==
  \A k \in Hash : unlocks[p][k] <= (IF k = h THEN 1 ELSE 0)

\* The least set that contains the provider of m and, with a transaction,
\* the one that provides what it requires if it unlocked nothing else.
pruned_by(m) ==
  {h \in ready_tx :
     \A C \in SUBSET ready_tx :
       (/\ \A k \in ready_tx : provided_markers[m] = k => k \in C
        /\ \A k \in C : /\ provider(k) \in ready_tx
                        /\ only_unlock(provider(k), k)
                        => provider(k) \in C)
       => h \in C}

prune_tags(m) ==
  LET pruned == pruned_by(m)
      top == provided_markers[m]
      unlocked == IF top = None THEN NoUnlocks ELSE unlocks[top]
      offset == [h \in Hash |-> requires_offset[h] + unlocked[h]]
  IN  /\ provided_markers' = [k \in Marker |->
           IF k = m \/ \E h \in pruned : provides(h) = k
           THEN None ELSE provided_markers[k]]
      /\ ready_tx' = ready_tx \ pruned
      /\ unlocks' = [p \in Hash |-> [k \in Hash |->
           IF p \in pruned THEN 0
           ELSE IF k \in pruned /\ provider(k) = p
           THEN Dec(unlocks[p][k]) ELSE unlocks[p][k]]]
      /\ requires_offset' = [h \in Hash |->
           IF h \in ready_tx \ pruned THEN offset[h] ELSE 0]
      /\ independent_transactions' =
           (independent_transactions \ pruned)
           \cup {h \in ready_tx \ pruned :
                   requires_offset[h] < requires_len(h) /\ requires_len(h) <= offset[h]}
      /\ ref_id' = [h \in Hash |-> IF h \in pruned THEN 0 ELSE ref_id[h]]
      /\ UNCHANGED id

\* What TransactionsIterator yields: the independent transactions and, with
\* a yielded one, the ready ones it unlocks (at most one marker is required,
\* so one satisfied marker is enough).
yielded ==
  {h \in ready_tx :
     \A C \in SUBSET ready_tx :
       (/\ independent_transactions \cap ready_tx \subseteq C
        /\ \A p \in C, k \in ready_tx : unlocks[p][k] > 0 => k \in C)
       => h \in C}

-----------------------------------------------------------------------------
(* PoolInner *)

\* add_transaction up to the call of add_ready_transaction.
add_transaction(h, r) ==
  /\ op = Idle
  /\ id + Cardinality(waiting_queue) < MaxId
  /\ ~contains(h)
  /\ \/ /\ r # None /\ provided_markers[r] = None
        /\ ~pending_underpriced(h)
        /\ pending_add_transaction(h, r)
        /\ UNCHANGED <<ready_vars, op>>
     \/ /\ r # None => provided_markers[r] # None
        /\ op' = [Idle EXCEPT !.name = "add", !.head = h, !.queue = <<{h}>>,
                              !.is_new_tx = TRUE]
        /\ UNCHANGED <<pending_vars, ready_vars>>
  /\ requires' = [requires EXCEPT ![h] = r]

\* Ready path of one iteration of the loop in add_ready_transaction.
add_ready_ok(h, queue) ==
  /\ ~ready_underpriced(h)
  /\ ready_add_transaction(h)
  /\ op' = [op EXCEPT !.queue = queue, !.is_new_tx = FALSE,
              !.promoted = IF op.is_new_tx THEN @ ELSE @ \cup {h},
              !.removed = @ \cup ({provided_markers[provides(h)]} \ {None})]

\* Mutant: any failure ends the loop.
add_ready_err_aborts(h, queue) ==
  /\ ready_underpriced(h)
  /\ op' = [op EXCEPT !.queue = <<>>, !.is_new_tx = FALSE]
  /\ UNCHANGED ready_vars

\* Its error path: the transaction the call is for ends it, with whatever is
\* queued; a transaction that was unlocked on the way is discarded.
add_ready_err(h, queue) ==
  /\ ready_underpriced(h)
  /\ op' = IF op.is_new_tx
           THEN Resume([op EXCEPT !.queue = <<>>, !.head = None,
                                  !.is_new_tx = FALSE])
           ELSE [op EXCEPT !.queue = queue]
  /\ UNCHANGED ready_vars

add_ready_transaction ==
  /\ op.queue # <<>>
  /\ \E h \in op.queue[1] :
       LET queue == Enqueue(Dequeue(op.queue, h), unlocked_by(provides(h)))
       IN  /\ mark_and_unlock(provides(h))
           /\ add_ready_ok(h, queue) \/ add_ready_err(h, queue)
  /\ ForgetDropped

\* End of the loop: the transaction was removed by one it promoted.
is_cyclic == op.head \in op.removed

add_ready_done ==
  /\ op.head # None /\ op.queue = <<>>
  /\ op' = Resume([op EXCEPT !.head = None, !.promoted = {}, !.removed = {}])
  /\ IF is_cyclic THEN remove_with_markers(op.promoted) ELSE UNCHANGED ready_vars
  /\ UNCHANGED pending_vars
  /\ ForgetDropped

\* prune_markers
prune_markers(ms) ==
  /\ op = Idle
  /\ op' = Resume([Idle EXCEPT !.name = "prune", !.markers = ms])
  /\ UNCHANGED <<requires, pending_vars, ready_vars>>

prune_marker ==
  /\ op.markers # <<>>
  /\ LET m == Head(op.markers)
     IN  /\ mark_and_unlock(m)
         /\ prune_tags(m)
         /\ op' = Resume([op EXCEPT !.markers = Tail(@),
                            !.imports = Enqueue(@, unlocked_by(m))])
  /\ ForgetDropped

import_unlocked ==
  /\ op.markers = <<>> /\ op.imports # <<>> /\ op.head = None
  /\ \E h \in op.imports[1] :
       op' = [op EXCEPT !.imports = Dequeue(@, h), !.head = h, !.queue = <<{h}>>,
                        !.is_new_tx = TRUE, !.promoted = {}, !.removed = {}]
  /\ UNCHANGED <<requires, pending_vars, ready_vars>>

\* Both halves forget the listed transactions; the ready half also those that
\* depend on them.
remove_listed(hashes) ==
  /\ remove_with_markers(hashes)
  /\ pending_remove(hashes)
  /\ UNCHANGED op
  /\ ForgetDropped

remove_invalid(hashes) ==
  /\ op = Idle
  /\ hashes # {}
  /\ remove_listed(hashes)

transactions_by_sender(a) ==
  {h \in waiting_queue \cup yielded : sender[h] = a}

remove_transactions_by_address(a) ==
  /\ op = Idle
  /\ transactions_by_sender(a) # {}
  /\ remove_listed(transactions_by_sender(a))

drop_transaction(h) ==
  /\ op = Idle
  /\ remove_with_markers({h})
  /\ UNCHANGED <<pending_vars, op>>
  /\ ForgetDropped

clear ==
  /\ op = Idle
  /\ required_markers' = [m \in Marker |-> {}]
  /\ waiting_markers' = [m \in Marker |-> None]
  /\ waiting_queue' = {}
  /\ provided_markers' = [m \in Marker |-> None]
  /\ ready_tx' = {}
  /\ unlocks' = [h \in Hash |-> NoUnlocks]
  /\ requires_offset' = [h \in Hash |-> 0]
  /\ ref_id' = [h \in Hash |-> 0]
  /\ independent_transactions' = {}
  /\ requires' = [h \in Hash |-> None]
  /\ UNCHANGED <<id, op>>

-----------------------------------------------------------------------------
Init ==
  /\ requires = [h \in Hash |-> None]
  /\ required_markers = [m \in Marker |-> {}]
  /\ waiting_markers = [m \in Marker |-> None]
  /\ waiting_queue = {}
  /\ provided_markers = [m \in Marker |-> None]
  /\ ready_tx = {}
  /\ unlocks = [h \in Hash |-> NoUnlocks]
  /\ requires_offset = [h \in Hash |-> 0]
  /\ independent_transactions = {}
  /\ ref_id = [h \in Hash |-> 0]
  /\ id = 0
  /\ op = Idle

\* Steps that finish the operation that holds the lock.
Continue ==
  \/ add_ready_transaction
  \/ add_ready_done
  \/ prune_marker
  \/ import_unlocked

\* The markers a block can prune: those of different transactions.
MarkerLists ==
  UNION {{ms \in [1..n -> Marker] : \A i, j \in 1..n : i # j => ms[i] # ms[j]} :
           n \in 1..MaxMarkers}

Next ==
  \/ \E h \in Hash : \E r \in required_marker_choices(h) : add_transaction(h, r)
  \/ Continue
  \/ \E ms \in MarkerLists : prune_markers(ms)
  \/ \E hashes \in SUBSET (waiting_queue \cup ready_tx) : remove_invalid(hashes)
  \/ \E a \in Sender : remove_transactions_by_address(a)
  \/ \E h \in Hash : drop_transaction(h)
  \/ clear

Spec == Init /\ [][Next]_vars

-----------------------------------------------------------------------------
(* Correctness *)

\* A marker is provided by exactly one ready transaction, the one it is mapped
\* to, and every ready transaction has its marker mapped to it: what the
\* assert_eq of prune_tags and the expect("hash included;") of
\* ReadyTransactions::add_transaction rely on.
MarkersExact ==
  /\ \A m \in Marker : provided_markers[m] # None =>
       /\ provided_markers[m] \in ready_tx
       /\ provides(provided_markers[m]) = m
  /\ \A h \in ready_tx : provided_markers[provides(h)] = h

\* required_markers indexes the waiting transactions by the marker they miss
\* (expect("tx is included;") of mark_and_unlock), and no transaction waits
\* for a marker that a ready transaction already provides.
WaitingIndexed ==
  \A m \in Marker :
    /\ required_markers[m] = {h \in waiting_queue : requires[h] = m}
    /\ required_markers[m] # {} => provided_markers[m] = None

\* A transaction is in one place only: waiting, ready or in the work list of
\* the operation in progress, where no batch repeats one of another (the
\* asserts "already added" and "already included").
InOnePlace ==
  /\ waiting_queue \cap ready_tx = {}
  /\ InFlight(op) \cap (waiting_queue \cup ready_tx) = {}
  /\ InBatches(op.imports) \cap InBatches(op.queue) = {}
  /\ \A i, j \in DOMAIN op.queue : i # j => op.queue[i] \cap op.queue[j] = {}
  /\ \A i, j \in DOMAIN op.imports : i # j => op.imports[i] \cap op.imports[j] = {}

\* The maps and queues of the pool agree with one another in every state, also
\* between the iterations of an operation: what its asserts and expects rely on.
\* And add_transaction never ends in PoolError::CyclicTransaction: promoting the
\* transactions that waited for a new one cannot remove the new one.
PoolConsistent == MarkersExact /\ WaitingIndexed /\ InOnePlace /\ ~is_cyclic

\* The iterator over the ready transactions reaches every one of them, through
\* replacements, drops and prunes: none is held back by a link that is gone.
IteratorYieldsAll == yielded = ready_tx

\* After the step a ready transaction whose price satisfies P has the sender and
\* nonce of h.
Taken(h, P(_)) == \E k \in ready_tx' : provides(k) = provides(h) /\ P(gas_price[k])

\* A step takes out of the pool only what there is a reason for.
ForReason ==
  /\ op # Idle =>
       \A h \in waiting_queue \cup InFlight(op) :
         h \notin waiting_queue' \cup ready_tx' \cup InFlight(op') =>
           Taken(h, LAMBDA price : price >= gas_price[h])
  /\ op.name = "add" =>
       \A h \in ready_tx \ ready_tx' : Taken(h, LAMBDA price : price > gas_price[h])
  /\ op.markers # <<>> =>
       \A h \in ready_tx \ ready_tx' :
         sender[h] = Head(op.markers)[2] /\ nonce[h] <= Head(op.markers)[1]

\* No operation loses a transaction on the way.  One that waits for a marker or was
\* unlocked by it is dropped only for a ready transaction of the same sender and
\* nonce that pays no less, not even on the error path that abandons the queue.
\* While a transaction is added, a ready one leaves only for one that pays strictly
\* more.  Pruning the marker of a mined transaction removes transactions of its
\* sender only, and none with a higher nonce: what follows the mined one stays.
LeavesForReason == [][ForReason]_vars
=============================================================================
