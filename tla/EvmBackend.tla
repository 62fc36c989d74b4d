---------------------------- MODULE EvmBackend ----------------------------
(***************************************************************************)
(* The EVM backend of forge tests and scripts (evm/core/src/backend): the   *)
(* in-memory database, the forks a test creates, selects and rolls, the     *)
(* journaled state that is swapped with them, the persistent accounts that  *)
(* cross every swap, and the snapshots.  One backend serves one test, so    *)
(* the steps are those of one thread: the calls of the test, in any order.  *)
(*                                                                          *)
(* An account is the value of its info: balance, nonce and code.  0 is the  *)
(* empty account, -n what the endpoint holds at block n, and a positive     *)
(* value the number of the step that wrote it.                              *)
(***************************************************************************)
EXTENDS Integers, Sequences

CONSTANTS
    Hevm,       \* CHEATCODE_ADDRESS, where a failed assertion is recorded
    Token,      \* some account of the test or of the remote chain
    Callers,    \* the senders of the test's transactions
    None,
    MaxBlock,   \* bound on the block numbers that are forked
    Transactions, \* <<n, replayed>>: a transaction of block n + 1, and whether
                \* that block holds another one before it
    MaxForks,   \* bound on the forks of one test
    MaxSnapshots,
    MaxOps      \* bound on the steps of one test

ASSUME ConstantsAssumption ==
    /\ Hevm # Token /\ Hevm \notin Callers /\ Token \notin Callers
    /\ Callers # {}
    /\ Transactions \subseteq (1..MaxBlock) \X BOOLEAN
    /\ {MaxBlock, MaxForks, MaxSnapshots, MaxOps} \subseteq Nat
    /\ MaxForks > 0
    /\ None \notin Int
    /\ None \notin [info : Int, created : BOOLEAN, touched : BOOLEAN]

VARIABLES
    mem_db,                     \* the database while no fork is active
    inner,                      \* the forks, their local ids and their indices
    active,                     \* active_fork_ids: the local id, or None
    journaled_state,            \* the journaled state of the running EVM
    fork_init_journaled_state,  \* the journal every new fork starts from
    persistent_accounts,
    env,                        \* the block number the EVM reports
    caller,                     \* the sender of the running transaction
    snapshots,                  \* id -> snapshot, for the ids that still exist
    has_snapshot_failure,
    ops,                        \* steps taken
    \* History, read by properties only.
    last,                       \* what the last step did, and to which snapshot
    failed,                     \* an assertion has failed
    written,                    \* Token was changed, by the test or by a transaction
    left                        \* local id -> Token's value when the fork was left

vars == <<mem_db, inner, active, journaled_state, fork_init_journaled_state,
          persistent_accounts, env, caller, snapshots, has_snapshot_failure,
          ops, last, failed, written, left>>

Accounts == {Hevm, Token} \cup Callers
Blocks == 1..MaxBlock

---------------------------------------------------------------------------
(* Databases and journals. *)

Db(reads, accounts) == [reads |-> reads, accounts |-> accounts]
Account(info, created, touched) == [info |-> info, created |-> created, touched |-> touched]
Journal(depth, state) == [depth |-> depth, state |-> state]
Fork(db, js) == [db |-> db, journaled_state |-> js]

\* What the endpoint answers for an account at a block; block 0 is EmptyDB.
remote(n, a) == IF a = Hevm THEN 0 ELSE -n

NewDb(n) == Db(n, [a \in Accounts |-> None])

\* CacheDB::basic: the cached account, else the endpoint's.
basic(db, a) ==
    IF db.accounts[a] # None THEN db.accounts[a] ELSE remote(db.reads, a)

\* The database after some accounts were read through it.
Cached(db, S) ==
    Db(db.reads, [a \in Accounts |-> IF a \in S THEN basic(db, a) ELSE db.accounts[a]])

NewJournal == Journal(0, [a \in Accounts |-> None])
Loaded(js) == {a \in Accounts : js.state[a] # None}
FromInfo(v) == Account(v, FALSE, FALSE)
WithInfo(account, v) == Account(v, account.created, account.touched)
WithAccount(js, a, account) == Journal(js.depth, [js.state EXCEPT ![a] = account])

\* The value the EVM sees: the journal's, else the database's.
Seen(js, db, a) == IF js.state[a] # None THEN js.state[a].info ELSE basic(db, a)

merge_journaled_state_data(S, from, to) ==
    Journal(to.depth, [a \in Accounts |->
        IF a \in S /\ from.state[a] # None THEN from.state[a] ELSE to.state[a]])

merge_db_account_data(S, from, to) ==
    Db(to.reads, [a \in Accounts |->
        IF a \in S /\ from.accounts[a] # None THEN from.accounts[a] ELSE to.accounts[a]])

---------------------------------------------------------------------------
(* The forks and their ids. *)

Index(in, id) == in.created_forks[in.issued_local_fork_ids[id]]
ForkOf(in, id) == in.forks[Index(in, id)]
LocalIds == DOMAIN inner.issued_local_fork_ids

Inner(forks, issued, created, next) ==
    [forks |-> forks, issued_local_fork_ids |-> issued, created_forks |-> created,
     next |-> next]

NewInner == Inner(<< >>, << >>, << >>, 1)

\* The forks alone change.
WithForks(in, forks) == Inner(forks, in.issued_local_fork_ids, in.created_forks, in.next)
WithFork(in, idx, fork) == WithForks(in, [in.forks EXCEPT ![idx] = fork])

\* The id the multi-fork handler gives to a fork at block n: never given before.
NextForkId(in, n) == [block |-> n, suffix |-> in.next]

WithEntry(f, k, v) == [x \in DOMAIN f \cup {k} |-> IF x = k THEN v ELSE f[x]]

insert_new_fork(in, n, js) ==
    LET fork_id == NextForkId(in, n)
    IN  Inner(Append(in.forks, Fork(NewDb(n), js)),
              Append(in.issued_local_fork_ids, fork_id),
              WithEntry(in.created_forks, fork_id, Len(in.forks) + 1),
              in.next + 1)

\* BackendInner::roll_fork: a new database that keeps the persistent accounts.
inner_roll_fork(in, id, n) ==
    LET fork_id == NextForkId(in, n)
        idx == Index(in, id)
        db == merge_db_account_data(persistent_accounts, in.forks[idx].db, NewDb(n))
    IN  Inner([in.forks EXCEPT ![idx] = Fork(db, in.forks[idx].journaled_state)],
              [in.issued_local_fork_ids EXCEPT ![id] = fork_id],
              WithEntry(in.created_forks, fork_id, idx),
              in.next + 1)

\* Mutant: the database of the fork is not put back.
revert_snapshot_kept(in, id, fork_id, idx, fork) ==
    Inner(in.forks, [in.issued_local_fork_ids EXCEPT ![id] = fork_id],
          WithEntry(in.created_forks, fork_id, idx), in.next)

revert_snapshot(in, id, fork_id, idx, fork) ==
    Inner([in.forks EXCEPT ![idx] = fork],
          [in.issued_local_fork_ids EXCEPT ![id] = fork_id],
          WithEntry(in.created_forks, fork_id, idx), in.next)

\* The database the EVM reads and commits to.
active_db == IF active = None THEN mem_db ELSE ForkOf(inner, active).db
Visible(a) == Seen(journaled_state, active_db, a)

\* Writes the database the EVM uses.
SetActiveDb(db) ==
    IF active = None
    THEN mem_db' = db /\ UNCHANGED inner
    ELSE /\ inner' = WithFork(inner, Index(inner, active),
                             Fork(db, ForkOf(inner, active).journaled_state))
         /\ UNCHANGED mem_db

---------------------------------------------------------------------------
(* The start of a test. *)

StartJournal(db, c) ==
    Journal(1, [a \in Accounts |->
        IF a = c THEN Account(basic(db, a), FALSE, TRUE) ELSE None])

\* Backend::new, with or without a fork to launch with, and the first
\* transaction of the test.
Init ==
    \E n \in {0} \cup Blocks, c \in Callers :
        /\ mem_db = NewDb(0)
        /\ inner = IF n = 0 THEN NewInner ELSE insert_new_fork(NewInner, n, NewJournal)
        /\ active = IF n = 0 THEN None ELSE 1
        /\ journaled_state = StartJournal(NewDb(n), c)
        /\ fork_init_journaled_state = NewJournal
        /\ persistent_accounts = {Hevm}
        /\ env = n
        /\ caller = c
        /\ snapshots = << >>
        /\ has_snapshot_failure = FALSE
        /\ ops = 0
        /\ last = <<"none", None>>
        /\ failed = FALSE
        /\ written = FALSE
        /\ left = [i \in 1..MaxForks |-> None]

\* One more step, of the kind `what`, on the snapshot s if it is about one.
Step(what, s) == ops < MaxOps /\ ops' = ops + 1 /\ last' = <<what, s>>

---------------------------------------------------------------------------
(* What the test's own code does to the journal (revm, external). *)

Load ==
    /\ Step("other", None)
    /\ journaled_state.state[Token] = None
    /\ journaled_state' =
            WithAccount(journaled_state, Token, FromInfo(basic(active_db, Token)))
    /\ SetActiveDb(Cached(active_db, {Token}))
    /\ UNCHANGED <<active, fork_init_journaled_state, persistent_accounts, env,
                   caller, snapshots, has_snapshot_failure, failed, written, left>>

Write(created) ==
    /\ Step("other", None)
    /\ created => Visible(Token) = 0
    /\ LET account == journaled_state.state[Token]
       IN  journaled_state' = WithAccount(journaled_state, Token,
               Account(ops + 1, created \/ (account # None /\ account.created), TRUE))
    /\ SetActiveDb(Cached(active_db, {Token}))
    /\ written' = TRUE
    /\ UNCHANGED <<active, fork_init_journaled_state, persistent_accounts, env,
                   caller, snapshots, has_snapshot_failure, failed, left>>

\* A failed assertion stores into the `failed` slot of the cheatcode account.
Fail ==
    /\ Step("other", None)
    /\ ~failed
    /\ failed' = TRUE
    /\ journaled_state' = WithAccount(journaled_state, Hevm, Account(1, FALSE, TRUE))
    /\ SetActiveDb(Cached(active_db, {Hevm}))
    /\ UNCHANGED <<active, fork_init_journaled_state, persistent_accounts, env,
                   caller, snapshots, has_snapshot_failure, written, left>>

\* The end of one transaction of the test (setUp, say) and the start of the
\* next: the touched accounts are committed to the active database and
\* another sender starts with an empty journal.
Commit(c) ==
    LET db == Db(active_db.reads, [a \in Accounts |->
                IF journaled_state.state[a] # None /\ journaled_state.state[a].touched
                THEN journaled_state.state[a].info ELSE active_db.accounts[a]])
    IN  /\ Step("other", None)
        /\ ~failed
        /\ caller' = c
        /\ journaled_state' = StartJournal(db, c)
        /\ SetActiveDb(Cached(db, {c}))
        /\ UNCHANGED <<active, fork_init_journaled_state, persistent_accounts, env,
                       snapshots, has_snapshot_failure, failed, written, left>>

---------------------------------------------------------------------------
(* Creating and selecting forks. *)

create_fork(n) ==
    /\ Step("other", None)
    /\ Len(inner.forks) < MaxForks
    /\ inner' = insert_new_fork(inner, n, fork_init_journaled_state)
    /\ UNCHANGED <<mem_db, active, journaled_state, fork_init_journaled_state,
                   persistent_accounts, env, caller, snapshots,
                   has_snapshot_failure, failed, written, left>>

\* The first selection: every fork gets the journal made so far, with the
\* accounts that were merely loaded replaced by the fork's own.
prepare_init_journal_state(js, fork) ==
    LET replaced == {a \in Loaded(js) \ persistent_accounts : ~js.state[a].created}
    IN  Fork(Cached(fork.db, replaced),
             Journal(js.depth, [a \in Accounts |->
                IF a \in replaced THEN WithInfo(js.state[a], basic(fork.db, a))
                ELSE js.state[a]]))

\* A fork that was never selected starts with the sender as the fork knows it.
init_caller(js, fork) ==
    IF fork.journaled_state.depth = 0 /\ js.state[caller] # None
    THEN Fork(Cached(fork.db, {caller}),
              WithAccount(fork.journaled_state, caller,
                          WithInfo(js.state[caller], basic(fork.db, caller))))
    ELSE fork

\* The sender of the running transaction is in the journal and the database
\* that are about to become the active ones.
ensure_caller(from, fork) ==
    LET info == IF from.state[caller] # None THEN from.state[caller].info ELSE 0
    IN  IF fork.journaled_state.state[caller] # None THEN fork
        ELSE Fork(Db(fork.db.reads, [fork.db.accounts EXCEPT ![caller] =
                                        IF @ # None THEN @ ELSE info]),
                  WithAccount(fork.journaled_state, caller, FromInfo(info)))

\* Mutant: only what the database holds of the persistent accounts is merged.
update_fork_db_committed(from, fork) ==
    Fork(merge_db_account_data(persistent_accounts, active_db, fork.db), fork.journaled_state)

update_fork_db(from, fork) ==
    Fork(merge_db_account_data(persistent_accounts, active_db, fork.db),
         merge_journaled_state_data(persistent_accounts, from, fork.journaled_state))

\* Mutant: what was done while the fork was active is not recorded in it.
leave_fork_unrecorded(js) == inner.forks

\* The forks once the active one has been left, or the first one is selected.
leave_fork(js) ==
    IF active = None
    THEN [i \in DOMAIN inner.forks |-> prepare_init_journal_state(js, inner.forks[i])]
    ELSE [inner.forks EXCEPT ![Index(inner, active)] = Fork(@.db, js)]

select_fork(id) ==
    LET idx == Index(inner, id)
        forks == leave_fork(journaled_state)
        target == IF active = None THEN forks[idx]
                  ELSE init_caller(journaled_state, forks[idx])
        fork == update_fork_db(journaled_state,
                    ensure_caller(journaled_state,
                        Fork(target.db, Journal(journaled_state.depth,
                                                target.journaled_state.state))))
    IN  /\ Step("select", None)
        /\ active # id
        /\ inner' = WithForks(inner, [forks EXCEPT ![idx] = fork])
        /\ journaled_state' = fork.journaled_state
        /\ fork_init_journaled_state' =
                IF active = None THEN Journal(0, journaled_state.state)
                ELSE fork_init_journaled_state
        /\ active' = id
        /\ env' = inner.issued_local_fork_ids[id].block
        /\ left' = [i \in 1..MaxForks |->
                IF i = id THEN None
                ELSE IF i = active /\ Token \notin persistent_accounts
                THEN Visible(Token) ELSE left[i]]
        /\ UNCHANGED <<mem_db, persistent_accounts, caller, snapshots,
                       has_snapshot_failure, failed, written>>

---------------------------------------------------------------------------
(* Rolling forks and replaying transactions on them. *)

\* The accounts whose journaled data the roll keeps: the persistent ones, the
\* sender, and what the test deployed.
RolledMerges(js) ==
    persistent_accounts \cup {caller} \cup
    {a \in Loaded(js) : js.state[a].created /\ js.state[a].touched}

\* The active fork after it was rolled: the initial journal with those
\* accounts merged in, and every other account that was loaded, and that the
\* journal still lacks, loaded again from the new block.
RolledFork(js, db) ==
    LET merged == merge_journaled_state_data(RolledMerges(js), js,
                    Journal(js.depth, fork_init_journaled_state.state))
        again == {a \in Loaded(js) \ Loaded(merged) : ~js.state[a].created}
    IN  Fork(Cached(db, again),
             Journal(merged.depth, [a \in Accounts |->
                IF a \in again THEN FromInfo(basic(db, a)) ELSE merged.state[a]]))

\* Backend::roll_fork, from the state it is called in to the one it leaves.
Rolled(in, js, e, id, n) ==
    LET in1 == inner_roll_fork(in, id, n)
        idx == Index(in1, id)
        fork == RolledFork(js, in1.forks[idx].db)
    IN  IF active # id THEN [inner |-> in1, js |-> js, env |-> e]
        ELSE [inner |-> WithFork(in1, idx, fork), js |-> fork.journaled_state, env |-> n]

\* Every loaded account that is not persistent takes the value of the database.
Refreshed(js, db) ==
    Journal(js.depth, [a \in Accounts |->
        IF js.state[a] = None \/ a \in persistent_accounts THEN js.state[a]
        ELSE WithInfo(js.state[a], basic(db, a))])

\* A transaction of the chain, run on fork `id` and committed to it: it writes
\* Token; then every account of the given journal and of the fork's own that
\* is not persistent takes the value the fork's database has.
CommittedOn(in, js, id, v) ==
    LET idx == Index(in, id)
        fork == in.forks[idx]
        db == Db(fork.db.reads, [fork.db.accounts EXCEPT ![Token] = v])
    IN  [inner |-> WithFork(in, idx, Fork(
            Cached(db, (Loaded(js) \cup Loaded(fork.journaled_state)) \ persistent_accounts),
            Refreshed(fork.journaled_state, db))),
         js |-> Refreshed(js, db)]

roll_fork(id, n) ==
    LET rolled == Rolled(inner, journaled_state, env, id, n)
    IN  /\ Step("roll", None)
        /\ inner' = rolled.inner
        /\ journaled_state' = rolled.js
        /\ env' = rolled.env
        /\ left' = [left EXCEPT ![id] = None]
        /\ UNCHANGED <<mem_db, active, fork_init_journaled_state, persistent_accounts,
                       caller, snapshots, has_snapshot_failure, failed, written>>

\* To the state before a transaction of block n + 1: the fork is rolled to
\* block n and the transactions before it, one or none, are replayed.
roll_fork_to_transaction(id, tx) ==
    LET n == tx[1]
        replayed == tx[2]
        rolled == Rolled(inner, journaled_state, env, id, n)
        done == CommittedOn(rolled.inner, rolled.js, id, ops + 1)
    IN  /\ Step("roll", None)
        /\ inner' = IF replayed THEN done.inner ELSE rolled.inner
        /\ journaled_state' = IF replayed THEN done.js ELSE rolled.js
        /\ env' = n + 1
        /\ left' = [left EXCEPT ![id] = None]
        /\ written' = (written \/ replayed)
        /\ UNCHANGED <<mem_db, active, fork_init_journaled_state, persistent_accounts,
                       caller, snapshots, has_snapshot_failure, failed>>

create_fork_at_transaction(tx) ==
    LET n == tx[1]
        replayed == tx[2]
        id == Len(inner.issued_local_fork_ids) + 1
        in1 == insert_new_fork(inner, n + 1, fork_init_journaled_state)
        rolled == Rolled(in1, NewJournal, n + 1, id, n)
    IN  /\ Step("other", None)
        /\ Len(inner.forks) < MaxForks
        /\ inner' = IF replayed
                    THEN CommittedOn(rolled.inner, NewJournal, id, ops + 1).inner
                    ELSE rolled.inner
        /\ written' = (written \/ replayed)
        /\ UNCHANGED <<mem_db, active, journaled_state, fork_init_journaled_state,
                       persistent_accounts, env, caller, snapshots,
                       has_snapshot_failure, failed, left>>

transact(id) ==
    LET done == CommittedOn(inner, journaled_state, id, ops + 1)
    IN  /\ Step("transact", None)
        /\ inner' = done.inner
        /\ journaled_state' = done.js
        /\ left' = [left EXCEPT ![id] = None]
        /\ written' = TRUE
        /\ UNCHANGED <<mem_db, active, fork_init_journaled_state, persistent_accounts,
                       env, caller, snapshots, has_snapshot_failure, failed>>

---------------------------------------------------------------------------
(* Persistent accounts and snapshots. *)

\* vm.makePersistent and vm.revokePersistent.
SetPersistent(on) ==
    /\ Step("other", None)
    /\ persistent_accounts' =
            IF on THEN persistent_accounts \cup {Token} ELSE persistent_accounts \ {Token}
    /\ persistent_accounts' # persistent_accounts
    /\ left' = [i \in 1..MaxForks |-> None]
    /\ UNCHANGED <<mem_db, inner, active, journaled_state, fork_init_journaled_state,
                   env, caller, snapshots, has_snapshot_failure, failed, written>>

\* create_db_snapshot: the active fork alone, or the in-memory database.
snapshot ==
    /\ Step("other", None)
    /\ Len(snapshots) < MaxSnapshots
    /\ snapshots' = Append(snapshots,
            [id |-> active, journaled_state |-> journaled_state, env |-> env,
             mem_db |-> mem_db, token |-> Visible(Token),
             fork_id |-> IF active = None THEN None
                         ELSE inner.issued_local_fork_ids[active],
             idx |-> IF active = None THEN None ELSE Index(inner, active),
             fork |-> IF active = None THEN None ELSE ForkOf(inner, active)])
    /\ UNCHANGED <<mem_db, inner, active, journaled_state, fork_init_journaled_state,
                   persistent_accounts, env, caller, has_snapshot_failure,
                   failed, written, left>>

Existing == {s \in DOMAIN snapshots : snapshots[s] # None}

\* is_global_failure: the flag in the journal given.
is_global_failure(js) == js.state[Hevm] # None /\ js.state[Hevm].info = 1

\* Mutant: the failure is looked for in the state that is restored.
FailureAfterRevert_restored(snap) ==
    has_snapshot_failure \/ is_global_failure(snap.journaled_state)

FailureAfterRevert(snap) ==
    has_snapshot_failure \/ is_global_failure(journaled_state)

\* vm.revertTo keeps the snapshot and vm.revertToAndDelete removes it.
revert(s, keep) ==
    LET snap == snapshots[s]
        fork == ensure_caller(journaled_state,
                    Fork(snap.fork.db, snap.journaled_state))
    IN  /\ Step("revert", s)
        /\ snapshots' = IF keep THEN snapshots ELSE [snapshots EXCEPT ![s] = None]
        /\ has_snapshot_failure' = FailureAfterRevert(snap)
        /\ env' = snap.env
        /\ IF snap.id = None
           THEN /\ mem_db' = snap.mem_db
                /\ journaled_state' = snap.journaled_state
                /\ UNCHANGED <<inner, active, left>>
           ELSE /\ inner' = revert_snapshot(inner, snap.id, snap.fork_id, snap.idx,
                                Fork(fork.db, snap.fork.journaled_state))
                /\ journaled_state' = fork.journaled_state
                /\ active' = snap.id
                /\ left' = [left EXCEPT ![snap.id] = None]
                /\ UNCHANGED mem_db
        /\ UNCHANGED <<fork_init_journaled_state, persistent_accounts, caller,
                       failed, written>>

\* delete_snapshot, and delete_snapshots for all of them.
delete_snapshots(S) ==
    /\ Step("other", None)
    /\ S # {}
    /\ snapshots' = [s \in DOMAIN snapshots |-> IF s \in S THEN None ELSE snapshots[s]]
    /\ UNCHANGED <<mem_db, inner, active, journaled_state, fork_init_journaled_state,
                   persistent_accounts, env, caller, has_snapshot_failure,
                   failed, written, left>>

---------------------------------------------------------------------------

Next ==
    \/ Load
    \/ \E created \in BOOLEAN : Write(created)
    \/ Fail
    \/ \E c \in Callers : Commit(c)
    \/ \E n \in Blocks : create_fork(n)
    \/ \E tx \in Transactions : create_fork_at_transaction(tx)
    \/ \E id \in LocalIds : select_fork(id)
    \/ \E id \in LocalIds, n \in Blocks : roll_fork(id, n)
    \/ \E id \in LocalIds, tx \in Transactions : roll_fork_to_transaction(id, tx)
    \/ \E id \in LocalIds : transact(id)
    \/ \E on \in BOOLEAN : SetPersistent(on)
    \/ snapshot
    \/ \E s \in Existing, keep \in BOOLEAN : revert(s, keep)
    \/ \E S \in {{s} : s \in Existing} \cup {Existing} : delete_snapshots(S)

Spec == Init /\ [][Next]_vars

---------------------------------------------------------------------------
(* Properties. *)

\* Every local id leads to a database of its own that reads the block its fork
\* id names, through every roll and every revert across rolls and selections
\* (insert_new_fork, BackendInner::roll_fork, revert_snapshot).
Mapped ==
    /\ \A id \in LocalIds :
          ForkOf(inner, id).db.reads = inner.issued_local_fork_ids[id].block
    /\ \A id1, id2 \in LocalIds :
          Index(inner, id1) = Index(inner, id2) => id1 = id2
    /\ active # None => active \in LocalIds

\* "Each `Fork` ... uses completely separate storage": every local id leads to a
\* database of its own, and whatever is done on the other forks, a fork that was
\* left still shows the value a non-persistent account had there, until it is
\* itself rolled, transacted on or reverted.
Separate ==
    /\ Mapped
    /\ \A id \in LocalIds \ {active} :
          left[id] # None =>
              Seen(ForkOf(inner, id).journaled_state, ForkOf(inner, id).db, Token) = left[id]

\* A failed assertion is never forgotten: selecting, rolling and reverting in
\* any order leave it in the journal or in the snapshot-failure flag, the two
\* places the verdict on the test is read from.
FailureKept ==
    failed => has_snapshot_failure \/ is_global_failure(journaled_state)

\* An account that is persistent, and that the EVM has loaded, looks the same
\* before and after a fork is selected, rolled or transacted on.  And "we must always
\* ensure that fork's state contains the current sender": selecting a fork and going
\* back to a fork's snapshot end with the sender of the running transaction in the
\* journal, whichever transaction made the fork or the snapshot; rolling never drops
\* it.
AccountsCarried ==
    [][/\ last'[1] \in {"select", "roll", "transact"} =>
             \A a \in persistent_accounts \cap Loaded(journaled_state) :
                 Visible(a)' = Visible(a)
       /\ (\/ last'[1] = "select"
           \/ last'[1] = "revert" /\ snapshots[last'[2]].id # None
           \/ last'[1] = "roll" /\ caller \in Loaded(journaled_state)) =>
             caller \in Loaded(journaled_state)']_vars

\* Reverting brings back the fork, the block number and the account values of
\* the moment of the snapshot, whatever was selected, rolled, committed or
\* reverted since, and as often as the snapshot is kept.  A snapshot of the
\* in-memory state does so only while no fork is active.
RevertRestores ==
    [][\A s \in Existing :
        (last' = <<"revert", s>> /\ (snapshots[s].id # None \/ active = None)) =>
            /\ active' = snapshots[s].id
            /\ env' = snapshots[s].env
            /\ Visible(Token)' = snapshots[s].token]_vars

\* "when the first fork is initialized we replace these accounts with the
\* actual account as it exists on the fork": on an active fork an account that
\* nothing has changed is the one its endpoint has at the fork's block.
LoadedFromFork ==
    (active # None /\ ~written /\ Token \notin persistent_accounts) =>
        Visible(Token) = remote(inner.issued_local_fork_ids[active].block, Token)

===========================================================================
