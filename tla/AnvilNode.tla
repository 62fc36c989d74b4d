------------------------------ MODULE AnvilNode ------------------------------
(***************************************************************************)
(* The anvil node around its transaction pool: RPC handlers that submit    *)
(* transactions (crates/anvil/src/eth/api.rs), the miner that decides when *)
(* the ready ones go into a block (eth/miner.rs), the service that hands   *)
(* them to the block producer and prunes the pool afterwards (service.rs)  *)
(* and the execution of a block against the nonces of the accounts         *)
(* (eth/backend/executor.rs).                                              *)
(*                                                                         *)
(* A handler is a process that can be interrupted at every await and       *)
(* wherever it does not hold the pool's lock.  Blocks are executed under   *)
(* the write lock of the database, so one block is one step; choosing its  *)
(* transactions, executing them and pruning the pool are not.              *)
(***************************************************************************)
EXTENDS TxPool

CONSTANTS
  Client,             \* RPC connections
  Configs,            \* a node's TransactionOrder, the mining modes it may start in,
                      \* the gas limit of a block, and the RPC calls that clients
                      \* issue: which, and how many
  max_transactions,   \* of the instant miner
  gas,                \* Hash -> Nat: gas used, and gas limit
  ListenerCap,        \* TX_LISTENER_BUFFER_SIZE
  MaxQueued           \* bound: backlog of the block producer

Producer == "producer"

ASSUME NodeAssumption ==
  /\ Producer \notin Client
  /\ None \notin Client
  /\ \A f \in Configs : /\ f.order \in {"fifo", "fees"}
                         /\ f.modes \subseteq {"none", "auto", "interval"}
                         /\ f.most \in 0..MaxId
                         /\ f.gas_limit \in Nat
  /\ max_transactions \in Nat \ {0}
  /\ gas \in [Hash -> Nat]
  /\ IsFiniteSet(Hash)
  /\ {ListenerCap, MaxQueued} \subseteq Nat

VARIABLES
  config,           \* one of Configs, fixed at the start
  chain_nonce,      \* account nonces in the database
  mode,             \* MiningMode
  has_pending_txs,  \* of ReadyTransactionMiner
  rx,               \* notifications queued for it
  queued,           \* BlockProducer::queued
  job,              \* a block being mined and pruned, per client and producer
  req,              \* the submission a client is in
  lock_owner,       \* who holds the pool's write lock
  calls             \* RPC calls so far

miner_vars == <<mode, has_pending_txs, rx>>
node_vars == <<chain_nonce, miner_vars, queued, job, req, lock_owner, calls>>
all_vars == <<vars, node_vars>>

Worker == Client \cup {Producer}

NoJob == [pc |-> "none", txs |-> <<>>, included |-> <<>>, invalid |-> {}]
NoReq == [pc |-> "idle", hash |-> None, nonce |-> 0, requires |-> None, notify |-> 0]

-----------------------------------------------------------------------------
(* TransactionsIterator *)

priority(h) == IF config.order = "fees" THEN gas_price[h] ELSE 0

\* Ord of PoolTransactionRef: by priority, then the older one first.
comes_before(h, k) ==
  \/ priority(h) > priority(k)
  \/ priority(h) = priority(k) /\ ref_id[h] < ref_id[k]

\* The greatest element of the BTreeSet.
best(independent) == CHOOSE h \in independent : \A k \in independent : ~comes_before(k, h)

\* The best transaction is yielded, and those it unlocks become independent. (An
\* independent transaction is always a ready one, and each requires one marker at most.)
next ==
  [iter \in [independent : SUBSET Hash, txs : Seq(Hash)] |->
     LET h == best(iter.independent)
     IN  IF iter.independent = {} THEN iter
         ELSE [independent |-> (iter.independent \ {h})
                               \cup {k \in ready_tx : unlocks[h][k] > 0},
               txs |-> Append(iter.txs, h)]]

\* A transaction is yielded for being independent and each time the one before its
\* nonce is, so not more often than its nonce says: the iterator has ended by then.
MaxYields == Cardinality(ready_tx) * (MaxNonce + 1)

\* The iterator after n calls of next.
get_transactions ==
  LET iter[n \in 0..MaxYields] ==
        IF n = 0 THEN [independent |-> independent_transactions, txs |-> <<>>]
        ELSE next[iter[n - 1]]
  IN  iter

ready_transactions == get_transactions[MaxYields].txs

Take(s, n) == SubSeq(s, 1, IF Len(s) < n THEN Len(s) ELSE n)

Elements(s) == {s[i] : i \in DOMAIN s}

-----------------------------------------------------------------------------
(* TransactionExecutor *)

NoOutcome == [nonces |-> chain_nonce, gas_used |-> 0, included |-> <<>>, invalid |-> {}]

Outcome ==
  [nonces : [Sender -> Nat], gas_used : Nat, included : Seq(Hash), invalid : SUBSET Hash]

\* An exhausted transaction is skipped and reported nowhere, a wrong nonce makes
\* one invalid.
execute_one ==
  [h \in Hash |-> [out \in Outcome |->
     IF out.gas_used + gas[h] > config.gas_limit THEN out
     ELSE IF nonce[h] # out.nonces[sender[h]]
     THEN [out EXCEPT !.invalid = @ \cup {h}]
     ELSE [out EXCEPT !.nonces[sender[h]] = @ + 1, !.gas_used = @ + gas[h],
                      !.included = Append(@, h)]]]

\* The outcome after each of txs.
execute(txs) ==
  LET out[n \in 0..Len(txs)] ==
        IF n = 0 THEN NoOutcome ELSE execute_one[txs[n]][out[n - 1]]
  IN  out

-----------------------------------------------------------------------------
(* Submitting a transaction *)

PoolFree == op = Idle

StartCall(c, name) ==
  /\ req[c].pc = "idle" /\ job[c].pc = "none"
  /\ name \in config.calls
  /\ calls < config.most
  /\ calls' = calls + 1

Goto(c, r) == req' = [req EXCEPT ![c] = r]

\* Mutant: off by one, the next transaction but one requires nothing.
required_marker_late(n, on_chain_nonce, a) ==
  LET prev_nonce == IF n = 0 THEN 0 ELSE n - 1
  IN  IF n # on_chain_nonce /\ on_chain_nonce < prev_nonce
      THEN to_marker(prev_nonce, a) ELSE None

\* required_marker(provided_nonce, on_chain_nonce, from)
required_marker(n, on_chain_nonce, a) ==
  LET prev_nonce == IF n = 0 THEN 0 ELSE n - 1
  IN  IF n # on_chain_nonce /\ on_chain_nonce <= prev_nonce
      THEN to_marker(prev_nonce, a) ELSE None

\* validate_pool_transaction: a nonce that is too low ends the request.
validated(h) == nonce[h] >= chain_nonce[sender[h]]

\* eth_sendRawTransaction: validate, then read the nonce of the account.
send_raw_transaction(c, h) ==
  /\ StartCall(c, "raw")
  /\ Goto(c, IF validated(h) THEN [NoReq EXCEPT !.pc = "raw", !.hash = h] ELSE NoReq)
  /\ UNCHANGED <<vars, chain_nonce, miner_vars, queued, job, lock_owner>>

\* Mutant: the handler waits until the predecessors are mined.
current_nonce_waits(c) ==
  /\ req[c].pc = "raw"
  /\ nonce[req[c].hash] <= chain_nonce[sender[req[c].hash]]
  /\ Goto(c, [req[c] EXCEPT !.pc = "add"])
  /\ UNCHANGED <<vars, chain_nonce, miner_vars, queued, job, lock_owner, calls>>

current_nonce(c) ==
  /\ req[c].pc = "raw"
  /\ LET h == req[c].hash
     IN  Goto(c, [req[c] EXCEPT !.pc = "add",
            !.requires = required_marker(nonce[h], chain_nonce[sender[h]], sender[h])])
  /\ UNCHANGED <<vars, chain_nonce, miner_vars, queued, job, lock_owner, calls>>

\* get_pool_transactions_nonce: nonces of the sender in a list of transactions.
pool_nonces(a) == {nonce[h] : h \in {k \in Elements(ready_transactions) : sender[k] = a}}

\* eth_sendTransaction, eth_sendUnsignedTransaction: request_nonce looks at the
\* ready transactions first and at the account only if there are none.
send_transaction(c, h) ==
  /\ StartCall(c, "send")
  /\ PoolFree
  /\ LET ns == pool_nonces(sender[h])
     IN  Goto(c, IF ns = {}
                 THEN [NoReq EXCEPT !.pc = "account_nonce", !.hash = h]
                 ELSE [NoReq EXCEPT !.pc = "validate", !.hash = h,
                         !.nonce = (CHOOSE n \in ns : \A k \in ns : k <= n) + 1])
  /\ UNCHANGED <<vars, chain_nonce, miner_vars, queued, job, lock_owner>>

account_nonce(c) ==
  /\ req[c].pc = "account_nonce"
  /\ Goto(c, [req[c] EXCEPT !.pc = "validate", !.nonce = chain_nonce[sender[req[c].hash]]])
  /\ UNCHANGED <<vars, chain_nonce, miner_vars, queued, job, lock_owner, calls>>

validate(c) ==
  /\ req[c].pc = "validate"
  /\ LET h == req[c].hash
     IN  Goto(c, IF ~validated(h) THEN NoReq
                 ELSE [req[c] EXCEPT !.pc = "add",
                         !.requires = required_marker(nonce[h], req[c].nonce, sender[h])])
  /\ UNCHANGED <<vars, chain_nonce, miner_vars, queued, job, lock_owner, calls>>

\* Pool::add_transaction: rejected, queued as pending, or added as ready.
add_rejected(c) ==
  /\ req[c].pc = "add" /\ PoolFree
  /\ LET h == req[c].hash
         r == req[c].requires
     IN  \/ contains(h)
         \/ r # None /\ provided_markers[r] = None /\ pending_underpriced(h)
  /\ Goto(c, NoReq)
  /\ UNCHANGED <<vars, chain_nonce, miner_vars, queued, job, lock_owner, calls>>

add(c) ==
  /\ req[c].pc = "add"
  /\ add_transaction(req[c].hash, req[c].requires)
  /\ IF op' = Idle
     THEN Goto(c, NoReq) /\ UNCHANGED lock_owner
     ELSE Goto(c, [req[c] EXCEPT !.pc = "adding"]) /\ lock_owner' = c
  /\ UNCHANGED <<chain_nonce, miner_vars, queued, job, calls>>

\* notify_listener for one of the hashes: lost when the channel is full.
notify_listener(c) ==
  /\ req[c].pc = "notify"
  /\ rx' = IF mode = "auto" /\ rx < ListenerCap THEN rx + 1 ELSE rx
  /\ Goto(c, IF req[c].notify = 1 THEN NoReq ELSE [req[c] EXCEPT !.notify = @ - 1])
  /\ UNCHANGED <<vars, chain_nonce, mode, has_pending_txs, queued, job, lock_owner,
                 calls>>

-----------------------------------------------------------------------------
(* The thread that holds the pool's lock *)

\* A step of the operation, and what its caller does with the result: an added
\* transaction is announced with those it promoted, a failed one is not, and a
\* pruned block is done.
pool_step ==
  /\ Continue
  /\ lock_owner' = IF op' = Idle THEN None ELSE lock_owner
  /\ \/ /\ op.name = "add"
        /\ UNCHANGED job
        /\ Goto(lock_owner,
                IF op' # Idle THEN req[lock_owner]
                ELSE IF op.queue = <<>> /\ ~is_cyclic
                THEN [NoReq EXCEPT !.pc = "notify", !.notify = 1 + Cardinality(op.promoted)]
                ELSE NoReq)
     \/ /\ op.name = "prune"
        /\ UNCHANGED req
        /\ job' = IF op' # Idle THEN job ELSE [job EXCEPT ![lock_owner] = NoJob]
  /\ UNCHANGED <<chain_nonce, miner_vars, queued, calls>>

-----------------------------------------------------------------------------
(* Mining a block *)

\* mine_one (evm_mine, anvil_mine): whatever the mining mode.
mine_one(c) ==
  /\ StartCall(c, "mine")
  /\ PoolFree
  /\ job' = [job EXCEPT ![c] = [NoJob EXCEPT !.pc = "mining", !.txs = ready_transactions]]
  /\ UNCHANGED <<vars, chain_nonce, miner_vars, queued, req, lock_owner>>

\* Backend::mine_block
mine_block(w) ==
  /\ job[w].pc = "mining"
  /\ LET out == execute(job[w].txs)[Len(job[w].txs)]
     IN  /\ chain_nonce' = out.nonces
         /\ job' = [job EXCEPT ![w].pc = "mined", ![w].included = out.included,
                                 ![w].invalid = out.invalid]
  /\ UNCHANGED <<vars, miner_vars, queued, req, lock_owner, calls>>

\* Pool::on_mined_block: remove_invalid and prune_markers take the lock each.
on_mined_invalid(w) ==
  /\ job[w].pc = "mined"
  /\ IF job[w].invalid = {}
     THEN PoolFree /\ UNCHANGED vars
     ELSE remove_invalid(job[w].invalid)
  /\ job' = [job EXCEPT ![w].pc = "prune", ![w].invalid = {}]
  /\ UNCHANGED <<chain_nonce, miner_vars, queued, req, lock_owner, calls>>

\* Mutant: the markers of all transactions chosen for the block.
mined_markers_of_chosen(w) ==
  [i \in DOMAIN job[w].txs |-> provides(job[w].txs[i])]

\* The markers that the mined transactions provide.
mined_markers(w) ==
  [i \in DOMAIN job[w].included |-> provides(job[w].included[i])]

on_mined_prune(w) ==
  /\ job[w].pc = "prune"
  /\ prune_markers(mined_markers(w))
  /\ IF op' = Idle
     THEN job' = [job EXCEPT ![w] = NoJob] /\ UNCHANGED lock_owner
     ELSE job' = [job EXCEPT ![w].pc = "pruning"] /\ lock_owner' = w
  /\ UNCHANGED <<chain_nonce, miner_vars, queued, req, calls>>

-----------------------------------------------------------------------------
(* NodeService and Miner *)

\* BlockProducer::poll_next takes the next set once the backend is idle.
start_block ==
  /\ queued # <<>>
  /\ job[Producer].pc = "none"
  /\ job' = [job EXCEPT ![Producer] = [NoJob EXCEPT !.pc = "mining", !.txs = Head(queued)]]
  /\ queued' = Tail(queued)
  /\ UNCHANGED <<vars, chain_nonce, miner_vars, req, lock_owner, calls>>

\* The service polls the miner when it is not in on_mined_block and has given
\* the producer what it could.
service_polls ==
  /\ PoolFree
  /\ job[Producer].pc \in {"none", "mining", "mined"}
  /\ job[Producer].pc = "none" => queued = <<>>
  /\ Len(queued) < MaxQueued

\* Mutant: a full set counts as everything.
set_is_full_strict(txs) == Len(txs) > max_transactions

\* The pool may hold more than the set.
set_is_full(txs) == Len(txs) >= max_transactions

\* ReadyTransactionMiner::poll
poll_auto ==
  /\ mode = "auto"
  /\ service_polls
  /\ rx > 0 \/ has_pending_txs # FALSE
  /\ LET txs == Take(ready_transactions, max_transactions)
     IN  /\ has_pending_txs' = set_is_full(txs)
         /\ queued' = IF txs = <<>> THEN queued ELSE Append(queued, txs)
  /\ rx' = 0
  /\ UNCHANGED <<vars, chain_nonce, mode, job, req, lock_owner, calls>>

\* FixedBlockTimeMiner::poll, at a tick of the interval
poll_interval ==
  /\ mode = "interval"
  /\ service_polls
  /\ queued' = Append(queued, ready_transactions)
  /\ UNCHANGED <<vars, chain_nonce, miner_vars, job, req, lock_owner, calls>>

\* set_mining_mode: a new instant miner listens from now on.
set_mining_mode(m) ==
  /\ mode' = m
  /\ has_pending_txs' = None
  /\ rx' = 0

anvil_set_auto_mine(c, enable) ==
  /\ StartCall(c, "automine")
  /\ IF enable = (mode = "auto") THEN UNCHANGED miner_vars
     ELSE IF enable THEN set_mining_mode("auto")
     ELSE set_mining_mode("none")
  /\ UNCHANGED <<vars, chain_nonce, queued, job, req, lock_owner>>

anvil_set_interval_mining(c, secs) ==
  /\ StartCall(c, "interval")
  /\ set_mining_mode(IF secs = 0 THEN "none" ELSE "interval")
  /\ UNCHANGED <<vars, chain_nonce, queued, job, req, lock_owner>>

-----------------------------------------------------------------------------
(* Removing transactions *)

anvil_drop_transaction(c, h) ==
  /\ StartCall(c, "drop")
  /\ drop_transaction(h)
  /\ UNCHANGED <<chain_nonce, miner_vars, queued, job, req, lock_owner>>

anvil_drop_all_transactions(c) ==
  /\ StartCall(c, "clear")
  /\ clear
  /\ UNCHANGED <<chain_nonce, miner_vars, queued, job, req, lock_owner>>

anvil_remove_pool_transactions(c, a) ==
  /\ StartCall(c, "remove")
  /\ remove_transactions_by_address(a)
  /\ UNCHANGED <<chain_nonce, miner_vars, queued, job, req, lock_owner>>

-----------------------------------------------------------------------------
NodeInit ==
  /\ Init
  /\ config \in Configs
  /\ chain_nonce = [a \in Sender |-> 0]
  /\ mode \in config.modes
  /\ has_pending_txs = None
  /\ rx = 0
  /\ queued = <<>>
  /\ job = [w \in Worker |-> NoJob]
  /\ req = [c \in Client |-> NoReq]
  /\ lock_owner = None
  /\ calls = 0

Submit(c) ==
  \/ \E h \in Hash : send_raw_transaction(c, h)
  \/ \E h \in Hash : send_transaction(c, h)

Manage(c) ==
  \/ mine_one(c)
  \/ \E enable \in BOOLEAN : anvil_set_auto_mine(c, enable)
  \/ \E secs \in 0..1 : anvil_set_interval_mining(c, secs)
  \/ \E h \in Hash : anvil_drop_transaction(c, h)
  \/ anvil_drop_all_transactions(c)
  \/ \E a \in Sender : anvil_remove_pool_transactions(c, a)

\* What a handler does once it was called.
Handle(c) ==
  \/ current_nonce(c)
  \/ account_nonce(c)
  \/ validate(c)
  \/ add_rejected(c)
  \/ add(c)
  \/ notify_listener(c)

Mine(w) ==
  \/ mine_block(w)
  \/ on_mined_invalid(w)
  \/ on_mined_prune(w)

Service ==
  \/ start_block
  \/ poll_auto
  \/ poll_interval

NodeNext ==
  /\ \/ \E c \in Client : Submit(c) \/ Manage(c) \/ Handle(c)
     \/ \E w \in Worker : Mine(w)
     \/ pool_step
     \/ Service
  /\ UNCHANGED config

NodeSpec == NodeInit /\ [][NodeNext]_<<config, all_vars>>

\* The runtime runs some handler and some miner that can go on, the service is
\* woken by notifications, ticks and finished blocks; a caller need not call.
NodeFairSpec ==
  /\ NodeSpec
  /\ WF_all_vars(Service)
  /\ WF_all_vars(pool_step \/ \E c \in Client : Handle(c))
  /\ WF_all_vars(\E w \in Worker : Mine(w))

-----------------------------------------------------------------------------
(* Correctness *)

\* Nothing is being handled, mined or announced.
Quiet ==
  /\ op = Idle
  /\ rx = 0
  /\ queued = <<>>
  /\ \A w \in Worker : job[w] = NoJob
  /\ \A c \in Client : req[c] = NoReq

\* transactions.rs, ReadyTransactions: "independent transactions that can be
\* included directly and don't require other transactions".  The nonce of an
\* independent transaction is not ahead of its account. (For raw transactions:
\* eth_sendTransaction adds one as independent of its predecessors in the pool.)
IndependentIncludable ==
  "send" \notin config.calls =>
    \A h \in independent_transactions : nonce[h] <= chain_nonce[sender[h]]

\* Transactions chosen for a block that did not fit into it.
exhausted(j) == Elements(j.txs) \ (Elements(j.included) \cup j.invalid)

\* A transaction that mining reports as invalid, for which the pool drops it
\* and what depends on it, will never become valid: its nonce is used up. The
\* exception is one that is small enough for a block which an earlier one of
\* its sender did not fit into. (For raw transactions, as above.)
InvalidOnlyStale ==
  "send" \notin config.calls =>
    \A w \in Worker : \A h \in job[w].invalid :
      \/ nonce[h] < chain_nonce[sender[h]]
      \/ \E k \in exhausted(job[w]) : sender[k] = sender[h] /\ nonce[k] < nonce[h]

\* transactions.rs: "the transactions that are not ready yet are waiting for
\* another tx to finish".  No transaction waits for one that has finished.
WaitsForUnfinished ==
  Quiet => \A h \in waiting_queue : requires[h][1] >= chain_nonce[sender[h]]

\* Every submission is answered, whoever else uses the pool.
RequestsComplete == \A c \in Client : (req[c] # NoReq) ~> (req[c] = NoReq)

\* The clients only submit.  (A transaction that pruning promotes after another was
\* dropped by hand is not announced to the instant miner.)
OnlySubmissions == config.calls \subseteq {"raw", "send"}

\* With instant mining no ready transaction stays in the pool: once the clients have
\* made their calls it is drained.  The miner goes to sleep on has_pending_txs =
\* Some(false) only if no transaction is ready that it was not told about, although
\* notifications are lost when the channel is full.  miner.rs: "there are pending
\* transactions if we didn't drain the pool".
ReadyLeaves == (OnlySubmissions /\ ready_tx # {}) ~> (ready_tx = {})
=============================================================================
