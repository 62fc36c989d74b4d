------------------------------- MODULE Chain -------------------------------
(***************************************************************************)
(* The chain that the anvil backend keeps (eth/backend/mem/mod.rs and      *)
(* mem/storage.rs): the block storage, the block environment, the database *)
(* with its snapshots, and the states kept for historic blocks.            *)
(*                                                                         *)
(* Mining a block, taking a snapshot, reverting to one and dumping the     *)
(* state each take several locks one after the other; every stretch under  *)
(* one lock is a step, so that operations interleave between them.         *)
(*                                                                         *)
(* A block is its hash; prevrandao is random, so no hash occurs twice.     *)
(* The contents of the database are named by the block executed last; all  *)
(* genesis blocks of a node's runs leave the same contents.                *)
(***************************************************************************)
EXTENDS Integers, FiniteSets

CONSTANTS
  Proc,       \* tasks that use the backend: the block producer, RPC handlers
  Configs,    \* how the node is used: the operations, whether one starts only when
              \* no other is running, and the bounds on blocks and snapshots
  SetBlocks,  \* bound: numbers given to anvil_setBlock
  MaxBlocks,  \* bound: hashes used in any configuration
  MaxIds,     \* bound: snapshots taken in any configuration
  None

Hash == 0..MaxBlocks
Number == 0..2 * MaxBlocks
Id == 0..MaxIds - 1

\* The block the node starts from: its genesis block or the forked one.
Genesis == 0

ASSUME ChainAssumption ==
  /\ MaxBlocks \in Nat
  /\ MaxIds \in Nat
  /\ SetBlocks \subseteq 0..MaxBlocks
  /\ \A f \in Configs : /\ f.exclusive \in BOOLEAN /\ f.keeper \in Nat
                         /\ f.blocks \in 0..MaxBlocks /\ f.ids \in 0..MaxIds
  /\ None \notin Number

VARIABLES
  config,            \* rigid: one of Configs, with the transaction_block_keeper
  fork,              \* rigid: whether there is a ClientFork
  blocks,            \* BlockchainStorage: hash -> block
  hashes,            \*   number -> hash
  best_number,
  best_hash,
  transactions,      \*   the blocks whose transactions are stored
  env_number,        \* number of the block environment
  db,                \* the block whose execution the database holds
  db_snapshots,      \* Snapshots: id -> database
  next_id,
  active_snapshots,  \* id -> (number, hash)
  states,            \* hash -> database
  next_hash,         \* the next unused hash
  gone,              \* history: ids that were reverted to, or past
  dump,              \* the state file
  restarted,         \* history: whether the node was started with it
  proc               \* what each task is doing

storage_vars == <<blocks, hashes, best_number, best_hash, transactions>>
db_vars == <<db, db_snapshots, next_id>>
snapshot_vars == <<active_snapshots, gone>>
dump_vars == <<dump, restarted>>
vars == <<storage_vars, env_number, db_vars, states, snapshot_vars, next_hash, dump_vars, proc>>

Free == [pc |-> "free", number |-> 0, hash |-> None, block |-> None, pre |-> None,
         id |-> None, file |-> None]

AllFree == \A p \in Proc : proc[p].pc = "free"

Become(p, s) == proc' = [proc EXCEPT ![p] = s]

Start(p, call, s) ==
  /\ call \in config.calls
  /\ proc[p].pc = "free"
  /\ config.exclusive => AllFree
  /\ Become(p, s)

Genesis_block == [number |-> 0, parent |-> None, pre |-> None]

-----------------------------------------------------------------------------
(* do_mine_block *)

\* Bound: a hash is left for every block that is being mined.
MiningNow == {q \in Proc : proc[q].pc \in {"parent", "keep_state", "execute"}}

\* The environment of the new block is a copy of the current one.
do_mine_block(p) ==
  /\ next_hash + Cardinality(MiningNow) <= config.blocks
  /\ Start(p, "mine", [Free EXCEPT !.pc = "parent", !.number = env_number + 1])
  /\ UNCHANGED <<storage_vars, env_number, db_vars, states, snapshot_vars, next_hash, dump_vars>>

read_best_hash(p) ==
  /\ proc[p].pc = "parent"
  /\ Become(p, [proc[p] EXCEPT !.pc = "keep_state", !.hash = best_hash])
  /\ UNCHANGED <<storage_vars, env_number, db_vars, states, snapshot_vars, next_hash, dump_vars>>

\* Mutant: the state is kept for the block below the parent.
insert_state_below(h) ==
  IF h # Genesis /\ blocks[h].parent # None
  THEN [states EXCEPT ![blocks[h].parent] = db] ELSE [states EXCEPT ![h] = db]

\* The state before execution is the one of the parent.
insert_state(h) == [states EXCEPT ![h] = db]

store_state(p) ==
  /\ proc[p].pc = "keep_state"
  /\ states' = insert_state(proc[p].hash)
  /\ Become(p, [proc[p] EXCEPT !.pc = "execute"])
  /\ UNCHANGED <<storage_vars, env_number, db_vars, snapshot_vars, next_hash, dump_vars>>

\* The transactions are executed under the write lock of the database.
execute(p) ==
  /\ proc[p].pc = "execute"
  /\ db' = next_hash
  /\ next_hash' = next_hash + 1
  /\ Become(p, [proc[p] EXCEPT !.pc = "store", !.block = next_hash, !.pre = db])
  /\ UNCHANGED <<storage_vars, env_number, db_snapshots, next_id, states, snapshot_vars, dump_vars>>

\* Mutant: the block is stored under the number of its header.
block_number_of_header(p) == proc[p].number

block_number(p) == best_number + 1

\* remove_block_transactions_by_number beyond the transaction block keeper.
cleared(n, bs, hs) ==
  IF Cardinality({h \in Hash : bs[h] # None}) > config.keeper
  THEN {hs[IF n > config.keeper THEN n - config.keeper ELSE 0]} ELSE {}

\* The storage lock is still held when the environment is replaced.
store_block(p) ==
  /\ proc[p].pc = "store"
  /\ LET n == block_number(p)
         h == proc[p].block
         bs == [blocks EXCEPT ![h] = [number |-> proc[p].number, parent |-> proc[p].hash,
                                      pre |-> proc[p].pre]]
         hs == [hashes EXCEPT ![n] = h]
     IN  /\ best_number' = n
         /\ best_hash' = h
         /\ blocks' = bs
         /\ hashes' = hs
         /\ transactions' = (transactions \cup {h}) \ cleared(n, bs, hs)
  /\ env_number' = proc[p].number
  /\ Become(p, Free)
  /\ UNCHANGED <<db_vars, states, snapshot_vars, next_hash, dump_vars>>

-----------------------------------------------------------------------------
(* create_snapshot *)

create_snapshot(p) ==
  /\ Start(p, "snapshot", [Free EXCEPT !.pc = "snapshot_hash", !.number = best_number])
  /\ UNCHANGED <<storage_vars, env_number, db_vars, states, snapshot_vars, next_hash, dump_vars>>

snapshot_hash(p) ==
  /\ proc[p].pc = "snapshot_hash"
  /\ Become(p, [proc[p] EXCEPT !.pc = "snapshot_db", !.hash = best_hash])
  /\ UNCHANGED <<storage_vars, env_number, db_vars, states, snapshot_vars, next_hash, dump_vars>>

\* Snapshots::insert
snapshot_db(p) ==
  /\ proc[p].pc = "snapshot_db"
  /\ next_id < config.ids
  /\ db_snapshots' = [db_snapshots EXCEPT ![next_id] = db]
  /\ next_id' = next_id + 1
  /\ Become(p, [proc[p] EXCEPT !.pc = "snapshot_insert", !.id = next_id])
  /\ UNCHANGED <<storage_vars, env_number, db, states, snapshot_vars, next_hash, dump_vars>>

snapshot_insert(p) ==
  /\ proc[p].pc = "snapshot_insert"
  /\ active_snapshots' = [active_snapshots EXCEPT ![proc[p].id] =
                            [number |-> proc[p].number, hash |-> proc[p].hash]]
  /\ Become(p, Free)
  /\ UNCHANGED <<storage_vars, env_number, db_vars, states, gone, next_hash, dump_vars>>

-----------------------------------------------------------------------------
(* revert_snapshot *)

\* The entry is taken out of active_snapshots; an id without one still goes to
\* the database.
revert_snapshot(p, i) ==
  /\ i < next_id
  /\ i \notin gone
  /\ LET s == active_snapshots[i]
     IN  Start(p, "revert", IF s = None
           THEN [Free EXCEPT !.pc = "revert_db", !.id = i]
           ELSE [Free EXCEPT !.pc = "revert_height", !.id = i,
                             !.number = s.number, !.hash = s.hash])
  /\ active_snapshots' = [active_snapshots EXCEPT ![i] = None]
  /\ gone' = gone \cup i..next_id - 1
  /\ UNCHANGED <<storage_vars, env_number, db_vars, states, next_hash, dump_vars>>

\* Mutant: the range ends before the current height.
reverted_numbers_short(n, height) == {k \in Number : n < k /\ k < height}

\* (num + 1)..=current_height
reverted_numbers(n, height) == {k \in Number : n < k /\ k <= height}

\* The height is read before the storage is locked.
revert_height(p) ==
  /\ proc[p].pc = "revert_height"
  /\ Become(p, [proc[p] EXCEPT !.pc = "revert_storage",
                               !.file = reverted_numbers(proc[p].number, best_number)])
  /\ UNCHANGED <<storage_vars, env_number, db_vars, states, snapshot_vars, next_hash, dump_vars>>

\* Mutant: the hash of the reverted block stays.
reverted_best_hash_kept(p) == best_hash

reverted_best_hash(p) == proc[p].hash

reverted_transactions(out) == transactions \ out

\* The newer blocks go, with their transactions.
revert_storage(p) ==
  /\ proc[p].pc = "revert_storage"
  /\ LET out == {hashes[k] : k \in proc[p].file}
     IN  /\ hashes' = [k \in Number |-> IF k \in proc[p].file THEN None ELSE hashes[k]]
         /\ blocks' = [h \in Hash |-> IF h \in out THEN None ELSE blocks[h]]
         /\ transactions' = reverted_transactions(out)
  /\ best_number' = proc[p].number
  /\ best_hash' = reverted_best_hash(p)
  /\ Become(p, [proc[p] EXCEPT !.pc = "revert_env", !.file = None])
  /\ UNCHANGED <<env_number, db_vars, states, snapshot_vars, next_hash, dump_vars>>

\* Mined here or, in fork mode, known to the remote node.
block_by_hash(h) == blocks[h] # None \/ (fork /\ h = Genesis)

reverted_env(p) == proc[p].number

\* The time and the environment come from the header; without one the call
\* fails here.
revert_env(p) ==
  /\ proc[p].pc = "revert_env"
  /\ IF block_by_hash(proc[p].hash)
     THEN /\ env_number' = reverted_env(p)
          /\ Become(p, [proc[p] EXCEPT !.pc = "revert_db"])
     ELSE /\ Become(p, Free)
          /\ UNCHANGED env_number
  /\ UNCHANGED <<storage_vars, db_vars, states, snapshot_vars, next_hash, dump_vars>>

\* MemDb: Snapshots::remove, also of the later ids; ForkedDatabase: remove_at.
removed_ids(i) == IF fork THEN {i} ELSE {j \in Id : i <= j}

revert_db(p) ==
  /\ proc[p].pc = "revert_db"
  /\ LET s == db_snapshots[proc[p].id]
     IN  db' = IF s = None THEN db ELSE s
  /\ db_snapshots' = [j \in Id |-> IF j \in removed_ids(proc[p].id) THEN None
                                   ELSE db_snapshots[j]]
  /\ Become(p, Free)
  /\ UNCHANGED <<storage_vars, env_number, next_id, states, snapshot_vars, next_hash, dump_vars>>

-----------------------------------------------------------------------------
(* anvil_setBlock, and the file of --state *)

anvil_set_block(p, n) ==
  /\ Start(p, "set_block", Free)
  /\ env_number' = n
  /\ UNCHANGED <<storage_vars, db_vars, states, snapshot_vars, next_hash, dump_vars>>

\* serialized_state, from the periodic dumper, on shutdown or for a caller.
serialized_state(p) ==
  /\ Start(p, "dump", [Free EXCEPT !.pc = "dump_best", !.number = env_number])
  /\ UNCHANGED <<storage_vars, env_number, db_vars, states, snapshot_vars, next_hash, dump_vars>>

dump_best(p) ==
  /\ proc[p].pc = "dump_best"
  /\ Become(p, [proc[p] EXCEPT !.pc = "dump_blocks", !.pre = best_number])
  /\ UNCHANGED <<storage_vars, env_number, db_vars, states, snapshot_vars, next_hash, dump_vars>>

dump_blocks(p) ==
  /\ proc[p].pc = "dump_blocks"
  /\ Become(p, [proc[p] EXCEPT !.pc = "dump_db", !.file = blocks])
  /\ UNCHANGED <<storage_vars, env_number, db_vars, states, snapshot_vars, next_hash, dump_vars>>

dump_db(p) ==
  /\ proc[p].pc = "dump_db"
  /\ dump' = [number |-> proc[p].number, best |-> proc[p].pre, blocks |-> proc[p].file, db |-> db]
  /\ Become(p, Free)
  /\ UNCHANGED <<storage_vars, env_number, db_vars, states, snapshot_vars, next_hash, restarted>>

\* The process ends at any point and is started with the file: a new genesis
\* block, of another hash, and empty snapshots and states.
restart(p) ==
  /\ "restart" \in config.calls
  /\ ~fork
  /\ dump # None
  /\ next_hash <= config.blocks
  /\ next_hash' = next_hash + 1
  /\ blocks' = [h \in Hash |-> IF h = next_hash THEN Genesis_block ELSE None]
  /\ hashes' = [n \in Number |-> IF n = 0 THEN next_hash ELSE None]
  /\ best_number' = 0
  /\ best_hash' = next_hash
  /\ transactions' = {}
  /\ env_number' = 0
  /\ db' = Genesis
  /\ db_snapshots' = [i \in Id |-> None]
  /\ next_id' = 0
  /\ states' = [h \in Hash |-> None]
  /\ active_snapshots' = [i \in Id |-> None]
  /\ gone' = {}
  /\ proc' = [[q \in Proc |-> Free] EXCEPT ![p].pc = "load_env"]
  /\ restarted' = TRUE
  /\ UNCHANGED <<dump>>

loaded_best == dump.best

\* load_state
load_env(p) ==
  /\ proc[p].pc = "load_env"
  /\ env_number' = dump.number
  /\ best_number' = loaded_best
  /\ Become(p, [proc[p] EXCEPT !.pc = "load_db"])
  /\ UNCHANGED <<blocks, hashes, best_hash, transactions, db_vars, states, snapshot_vars,
                 next_hash, dump_vars>>

load_db(p) ==
  /\ proc[p].pc = "load_db"
  /\ db' = dump.db
  /\ Become(p, [proc[p] EXCEPT !.pc = "load_blocks"])
  /\ UNCHANGED <<storage_vars, env_number, db_snapshots, next_id, states, snapshot_vars,
                 next_hash, dump_vars>>

\* The blocks come in any order; each is indexed by the number of its header.
load_blocks(p) ==
  /\ proc[p].pc = "load_blocks"
  /\ LET loaded == {h \in Hash : dump.blocks[h] # None}
         at(n) == {h \in loaded : dump.blocks[h].number = n}
         numbers == {dump.blocks[h].number : h \in loaded}
     IN  /\ blocks' = [h \in Hash |-> IF h \in loaded THEN dump.blocks[h] ELSE blocks[h]]
         /\ \E last \in [numbers -> loaded] :
              /\ \A n \in numbers : last[n] \in at(n)
              /\ hashes' = [n \in Number |-> IF n \in numbers THEN last[n] ELSE hashes[n]]
  /\ Become(p, Free)
  /\ UNCHANGED <<best_number, best_hash, transactions, env_number, db_vars, states,
                 snapshot_vars, next_hash, dump_vars>>

-----------------------------------------------------------------------------
Init ==
  /\ config \in Configs
  /\ fork \in BOOLEAN
  /\ blocks = [h \in Hash |-> IF h = Genesis /\ ~fork THEN Genesis_block ELSE None]
  /\ hashes = [n \in Number |-> IF n = 0 THEN Genesis ELSE None]
  /\ best_number = 0
  /\ best_hash = Genesis
  /\ transactions = {}
  /\ env_number = 0
  /\ db = Genesis
  /\ db_snapshots = [i \in Id |-> None]
  /\ next_id = 0
  /\ states = [h \in Hash |-> None]
  /\ active_snapshots = [i \in Id |-> None]
  /\ gone = {}
  /\ next_hash = Genesis + 1
  /\ dump = None
  /\ restarted = FALSE
  /\ proc = [p \in Proc |-> Free]

Mine(p) ==
  \/ do_mine_block(p)
  \/ read_best_hash(p)
  \/ store_state(p)
  \/ execute(p)
  \/ store_block(p)

Snapshot(p) ==
  \/ create_snapshot(p)
  \/ snapshot_hash(p)
  \/ snapshot_db(p)
  \/ snapshot_insert(p)

Revert(p) ==
  \/ \E i \in Id : revert_snapshot(p, i)
  \/ revert_height(p)
  \/ revert_storage(p)
  \/ revert_env(p)
  \/ revert_db(p)

State(p) ==
  \/ \E n \in SetBlocks : anvil_set_block(p, n)
  \/ serialized_state(p)
  \/ dump_best(p)
  \/ dump_blocks(p)
  \/ dump_db(p)
  \/ restart(p)
  \/ load_env(p)
  \/ load_db(p)
  \/ load_blocks(p)

Next ==
  /\ \E p \in Proc : Mine(p) \/ Snapshot(p) \/ Revert(p) \/ State(p)
  /\ UNCHANGED <<config, fork>>

Spec == Init /\ [][Next]_<<config, fork, vars>>

-----------------------------------------------------------------------------
(* Properties *)

\* with_database_at(n), for a height that ensure_block_number accepts: a block
\* below the environment's number is read from the kept states, any other from
\* the database. The state at the forked block is taken from the database with
\* the genesis accounts laid over it.
with_database_at(n) ==
  IF n < env_number
  THEN IF hashes[n] # None /\ blocks[hashes[n]] # None /\ states[hashes[n]] # None
       THEN states[hashes[n]]
       ELSE IF fork /\ n = 0 THEN db ELSE None
  ELSE db

\* What the database holds after block h.
StateAfter(h) ==
  IF h # None /\ blocks[h] # None /\ blocks[h].parent = None THEN Genesis ELSE h

\* Nothing is running, and operations did not overlap.
Settled == config.exclusive /\ AllFree

\* Every block of the chain was executed on the state of the block below it and
\* carries the number it is found under; it names the block below it as its parent,
\* and best_hash is the hash of the best block, as long as the node runs.
\* (load_state leaves best_hash at the new genesis block.)
ExecutedInOrder ==
  Settled =>
    /\ \A n \in 1..best_number :
         hashes[n] # None /\ hashes[n - 1] # None =>
           /\ blocks[hashes[n]].pre = StateAfter(hashes[n - 1])
           /\ blocks[hashes[n]].number = n
    /\ ~restarted =>
         /\ best_hash = hashes[best_number]
         /\ \A n \in 1..best_number : blocks[hashes[n]].parent = hashes[n - 1]

\* Between operations the node is at one block: the environment has the number
\* of the best block, and the database is what executing that block left,
\* whatever was mined, reverted, dumped and loaded before.  A read at any height
\* mined here (eth_call, eth_getBalance at a block) is answered with the state
\* that the block at this height left, also after blocks were reverted and
\* replaced by others.  After a restart the older states are missing, but none
\* is wrong, and the latest can be read.
StateOfBlocks ==
  Settled =>
    /\ env_number = best_number
    /\ db = StateAfter(hashes[best_number])
    /\ \A n \in (IF fork THEN 1 ELSE 0)..best_number :
         \/ with_database_at(n) = StateAfter(hashes[n])
         \/ restarted /\ n # best_number /\ with_database_at(n) = None

\* A revert leaves nothing of what is above the snapshot's block: no height above
\* the best one has a block, and the transactions stored are those of the chain, of
\* no more blocks than --transaction-block-keeper says ("Number of blocks with
\* transactions to keep in memory").
NewerReverted ==
  /\ Settled =>
       /\ \A n \in Number : n > best_number => hashes[n] = None
       /\ \A h \in transactions : \E n \in 1..best_number : hashes[n] = h
  /\ Cardinality(transactions) <= config.keeper

\* Every block that was stored is found under exactly one height, also when
\* several tasks mine at the same time: none replaces another in the index, and no
\* height is left out.
NoBlockLost ==
  (restarted => AllFree) =>
    /\ \A h \in Hash : blocks[h] # None /\ blocks[h].parent # None =>
         Cardinality({n \in 1..best_number : hashes[n] = h}) = 1
    /\ \A n \in 1..best_number : hashes[n] # None
=============================================================================
