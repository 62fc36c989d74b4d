-------------------------- MODULE EvmBackendProofs --------------------------
(***************************************************************************)
(* The properties of the EVM backend for any number of forks, snapshots,   *)
(* senders, blocks and steps.  They rest on one invariant: the two maps    *)
(* lead every local id to the fork at its own index, a snapshot holds what *)
(* was visible when it was taken, and an inactive fork shows what it was   *)
(* left with.                                                              *)
(***************************************************************************)
EXTENDS EvmBackend, TLAPS

\* What the databases, journals, forks and snapshots are.
AccountSet == [info : Int, created : BOOLEAN, touched : BOOLEAN]
Dbs == [reads : Int, accounts : [Accounts -> Int \cup {None}]]
Journals == [depth : Int, state : [Accounts -> AccountSet \cup {None}]]
Forks == [db : Dbs, journaled_state : Journals]
ForkIds == [block : Int, suffix : Nat]
SnapshotSet ==
    [id : Int \cup {None}, journaled_state : Journals, env : Int, mem_db : Dbs, token : Int,
     fork_id : ForkIds \cup {None}, idx : Int \cup {None}, fork : Forks \cup {None}]

\* The assumptions on None, for the provers.
LEMMA NoneIsNothing == None \notin Int /\ None \notin AccountSet
  BY ConstantsAssumption, Zenon DEF AccountSet

-----------------------------------------------------------------------------
(* The operators on databases and journals. *)

\* The records of their types.
LEMMA Constructors ==
  /\ \A n \in Int, f \in [Accounts -> Int \cup {None}] :
       Db(n, f) \in Dbs /\ Db(n, f).reads = n /\ Db(n, f).accounts = f
  /\ \A v \in Int, c \in BOOLEAN, t \in BOOLEAN :
       /\ Account(v, c, t) \in AccountSet /\ Account(v, c, t) # None
       /\ Account(v, c, t).info = v
  /\ \A n \in Int, f \in [Accounts -> AccountSet \cup {None}] :
       /\ Journal(n, f) \in Journals
       /\ Journal(n, f).depth = n /\ Journal(n, f).state = f
  /\ \A db \in Dbs, js \in Journals :
       /\ Fork(db, js) \in Forks
       /\ Fork(db, js).db = db /\ Fork(db, js).journaled_state = js
<1>1. \A n \in Int, f \in [Accounts -> Int \cup {None}] :
       Db(n, f) \in Dbs /\ Db(n, f).reads = n /\ Db(n, f).accounts = f
  BY Zenon DEF Db, Dbs
<1>2. \A v \in Int, c \in BOOLEAN, t \in BOOLEAN :
       /\ Account(v, c, t) \in AccountSet
       /\ Account(v, c, t).info = v
  BY Zenon DEF Account, AccountSet
<1>3. \A n \in Int, f \in [Accounts -> AccountSet \cup {None}] :
       /\ Journal(n, f) \in Journals
       /\ Journal(n, f).depth = n /\ Journal(n, f).state = f
  BY Zenon DEF Journal, Journals
<1>4. \A db \in Dbs, js \in Journals :
       /\ Fork(db, js) \in Forks
       /\ Fork(db, js).db = db /\ Fork(db, js).journaled_state = js
  BY Zenon DEF Fork, Forks
<1> QED BY <1>1, <1>2, <1>3, <1>4, NoneIsNothing

\* A fork made of a database and a journal.
LEMMA ForkFields ==
  \A db \in Dbs, js \in Journals :
    /\ Fork(db, js) \in Forks
    /\ Fork(db, js).db = db /\ Fork(db, js).journaled_state = js
  BY Constructors, Zenon

\* And their fields.
LEMMA Fields ==
  /\ \A db \in Dbs : db.reads \in Int /\ db.accounts \in [Accounts -> Int \cup {None}]
  /\ \A js \in Journals : js.depth \in Int /\ js.state \in [Accounts -> AccountSet \cup {None}]
  /\ \A f \in Forks : f.db \in Dbs /\ f.journaled_state \in Journals
  /\ \A c \in AccountSet : c.info \in Int /\ c.created \in BOOLEAN /\ c.touched \in BOOLEAN
<1>1. \A db \in Dbs : db.reads \in Int /\ db.accounts \in [Accounts -> Int \cup {None}]
  BY Zenon DEF Dbs
<1>2. \A js \in Journals : js.depth \in Int /\ js.state \in [Accounts -> AccountSet \cup {None}]
  BY Zenon DEF Journals
<1>3. \A f \in Forks : f.db \in Dbs /\ f.journaled_state \in Journals
  BY Zenon DEF Forks
<1>4. \A c \in AccountSet : c.info \in Int /\ c.created \in BOOLEAN /\ c.touched \in BOOLEAN
  BY Zenon DEF AccountSet
<1> QED BY <1>1, <1>2, <1>3, <1>4, Zenon

\* Every account has a value in every database.
LEMMA BasicInt == \A db \in Dbs, a \in Accounts : basic(db, a) \in Int
  BY Fields DEF basic, remote

\* The value the EVM sees is an integer.
LEMMA SeenInt == \A js \in Journals, db \in Dbs, a \in Accounts : Seen(js, db, a) \in Int
<1> SUFFICES ASSUME NEW js \in Journals, NEW db \in Dbs, NEW a \in Accounts
             PROVE  Seen(js, db, a) \in Int
  OBVIOUS
<1>1. js.state[a] \in AccountSet \cup {None}
  BY Fields, Zenon
<1>2. js.state[a] # None => js.state[a].info \in Int
  BY <1>1, Fields, Zenon
<1> QED BY <1>2, BasicInt, Zenon DEF Seen

\* Reading through a database changes what it caches only.
LEMMA CachedDb ==
  ASSUME NEW db \in Dbs, NEW S
  PROVE  Cached(db, S) \in Dbs /\ Cached(db, S).reads = db.reads
<1> DEFINE f == [a \in Accounts |-> IF a \in S THEN basic(db, a) ELSE db.accounts[a]]
<1>1. f \in [Accounts -> Int \cup {None}]
  BY BasicInt, Fields, Zenon
<1>2. db.reads \in Int
  BY Fields, Zenon
<1> HIDE DEF f
<1>3. Db(db.reads, f) \in Dbs /\ Db(db.reads, f).reads = db.reads
  BY <1>1, <1>2, Constructors, Zenon
<1> QED BY <1>3, Zenon DEF Cached, f

\* A database that reads a block and has cached nothing.
LEMMA NewDbDb == \A n \in Int : NewDb(n) \in Dbs /\ NewDb(n).reads = n
<1>1. [a \in Accounts |-> None] \in [Accounts -> Int \cup {None}]
  OBVIOUS
<1> QED BY <1>1, Constructors, Zenon DEF NewDb

\* The journal of a fork that was never selected.
LEMMA NewJournalJournal == NewJournal \in Journals
<1>1. [a \in Accounts |-> None] \in [Accounts -> AccountSet \cup {None}]
  OBVIOUS
<1> QED BY <1>1, Constructors DEF NewJournal

\* An account's info replaced, or an account put into a journal.
LEMMA WithAccountJournal ==
  ASSUME NEW js \in Journals, NEW b \in Accounts, NEW c \in AccountSet \cup {None}
  PROVE  /\ WithAccount(js, b, c) \in Journals
         /\ WithAccount(js, b, c).depth = js.depth
         /\ \A a \in Accounts :
              WithAccount(js, b, c).state[a] = IF a = b THEN c ELSE js.state[a]
<1> DEFINE f == [js.state EXCEPT ![b] = c]
<1>1. /\ f \in [Accounts -> AccountSet \cup {None}] /\ js.depth \in Int
      /\ \A a \in Accounts : f[a] = IF a = b THEN c ELSE js.state[a]
  BY Fields, Zenon
<1> HIDE DEF f
<1>2. /\ Journal(js.depth, f) \in Journals /\ Journal(js.depth, f).state = f
      /\ Journal(js.depth, f).depth = js.depth
  BY <1>1, Constructors
<1> QED BY <1>1, <1>2, Zenon DEF WithAccount, f

\* An account with another value is an account.
LEMMA WithInfoAccount ==
  \A c \in AccountSet, v \in Int :
    WithInfo(c, v) \in AccountSet /\ WithInfo(c, v) # None
  BY Fields, Constructors, Zenon DEF WithInfo

\* An account made from its info.
LEMMA FromInfoAccount == \A v \in Int : FromInfo(v) \in AccountSet /\ FromInfo(v) # None
  BY Constructors, Zenon DEF FromInfo

\* Merging databases keeps the block that is read.
LEMMA MergeDb ==
  ASSUME NEW S, NEW from \in Dbs, NEW to \in Dbs
  PROVE  /\ merge_db_account_data(S, from, to) \in Dbs
         /\ merge_db_account_data(S, from, to).reads = to.reads
<1> DEFINE f == [a \in Accounts |->
        IF a \in S /\ from.accounts[a] # None THEN from.accounts[a] ELSE to.accounts[a]]
<1>1. f \in [Accounts -> Int \cup {None}] /\ to.reads \in Int
  BY Fields, Zenon
<1> HIDE DEF f
<1>2. Db(to.reads, f) \in Dbs /\ Db(to.reads, f).reads = to.reads
  BY <1>1, Constructors, Zenon
<1> QED BY <1>2, Zenon DEF merge_db_account_data, f

\* Merging journals: the accounts merged are those of the first journal.
LEMMA MergeJournal ==
  ASSUME NEW S, NEW from \in Journals, NEW to \in Journals
  PROVE  LET m == merge_journaled_state_data(S, from, to)
         IN  /\ m \in Journals
             /\ m.depth = to.depth
             /\ \A a \in Accounts : m.state[a] =
                  IF a \in S /\ from.state[a] # None THEN from.state[a] ELSE to.state[a]
<1> DEFINE f == [a \in Accounts |->
        IF a \in S /\ from.state[a] # None THEN from.state[a] ELSE to.state[a]]
<1>1. f \in [Accounts -> AccountSet \cup {None}] /\ to.depth \in Int
  BY Fields, Zenon
<1>2. \A a \in Accounts : f[a] =
        IF a \in S /\ from.state[a] # None THEN from.state[a] ELSE to.state[a]
  OBVIOUS
<1>3. merge_journaled_state_data(S, from, to) = Journal(to.depth, f)
  BY Zenon DEF merge_journaled_state_data
<1> HIDE DEF f
<1>4. /\ Journal(to.depth, f) \in Journals /\ Journal(to.depth, f).state = f
      /\ Journal(to.depth, f).depth = to.depth
  BY <1>1, Constructors
<1> QED BY <1>2, <1>3, <1>4, Zenon

-----------------------------------------------------------------------------
(* The operators on forks. *)

\* A fork as the first selection prepares it.
LEMMA PrepareFork ==
  ASSUME NEW js \in Journals, NEW fork \in Forks
  PROVE  LET f == prepare_init_journal_state(js, fork)
         IN  f \in Forks /\ f.db.reads = fork.db.reads
<1> DEFINE replaced == {a \in Loaded(js) \ persistent_accounts : ~js.state[a].created}
           st == [a \in Accounts |->
                    IF a \in replaced THEN WithInfo(js.state[a], basic(fork.db, a))
                    ELSE js.state[a]]
<1>1. ASSUME NEW a \in Accounts
      PROVE  (IF a \in replaced THEN WithInfo(js.state[a], basic(fork.db, a))
              ELSE js.state[a]) \in AccountSet \cup {None}
  <2>1. js.state[a] \in AccountSet \cup {None} /\ fork.db \in Dbs
    BY Fields, Zenon
  <2>2. a \in replaced => js.state[a] \in AccountSet
    BY <2>1, Zenon DEF Loaded
  <2>3. basic(fork.db, a) \in Int
    BY <2>1, BasicInt, Zenon
  <2> QED BY <2>1, <2>2, <2>3, WithInfoAccount, Zenon
<1>2. st \in [Accounts -> AccountSet \cup {None}] /\ js.depth \in Int /\ fork.db \in Dbs
  BY <1>1, Fields, Zenon
<1>3. prepare_init_journal_state(js, fork) = Fork(Cached(fork.db, replaced), Journal(js.depth, st))
  BY Zenon DEF prepare_init_journal_state
<1> HIDE DEF st, replaced
<1>4. /\ Journal(js.depth, st) \in Journals
      /\ Cached(fork.db, replaced) \in Dbs /\ Cached(fork.db, replaced).reads = fork.db.reads
  BY <1>2, Constructors, CachedDb, Zenon
<1> QED BY <1>3, <1>4, Constructors

\* A fork that was never selected gets the sender.
LEMMA InitCallerFork ==
  ASSUME caller \in Accounts, NEW js \in Journals, NEW fork \in Forks
  PROVE  init_caller(js, fork) \in Forks /\ init_caller(js, fork).db.reads = fork.db.reads
<1>1. CASE fork.journaled_state.depth = 0 /\ js.state[caller] # None
  <2> DEFINE db == Cached(fork.db, {caller})
             c == WithInfo(js.state[caller], basic(fork.db, caller))
             j == WithAccount(fork.journaled_state, caller, c)
  <2>1. fork.db \in Dbs /\ fork.journaled_state \in Journals
        /\ js.state[caller] \in AccountSet
    BY <1>1, Fields, Zenon
  <2>2. db \in Dbs /\ db.reads = fork.db.reads
    BY <2>1, CachedDb, Zenon
  <2>3. c \in AccountSet
    BY <2>1, BasicInt, WithInfoAccount, Zenon
  <2>4. j \in Journals
    BY <2>1, <2>3, WithAccountJournal, Zenon
  <2>5. init_caller(js, fork) = Fork(db, j)
    BY <1>1, Zenon DEF init_caller
  <2> HIDE DEF db, j
  <2> QED BY <2>2, <2>4, <2>5, Constructors
<1>2. CASE ~(fork.journaled_state.depth = 0 /\ js.state[caller] # None)
  BY <1>2, Zenon DEF init_caller
<1> QED BY <1>1, <1>2, Zenon

\* The sender is in the journal of the fork; other accounts stay as they are.
LEMMA EnsureCallerFork ==
  ASSUME caller \in Accounts, NEW from \in Journals, NEW fork \in Forks
  PROVE  LET f == ensure_caller(from, fork)
         IN  /\ f \in Forks
             /\ f.db.reads = fork.db.reads
             /\ f.journaled_state.state[caller] # None
             /\ \A a \in Accounts \ {caller} :
                  Seen(f.journaled_state, f.db, a) = Seen(fork.journaled_state, fork.db, a)
<1>0. fork.db \in Dbs /\ fork.journaled_state \in Journals
  BY Fields, Zenon
<1>1. CASE fork.journaled_state.state[caller] # None
  BY <1>1, Zenon DEF ensure_caller
<1>2. CASE fork.journaled_state.state[caller] = None
  <2> DEFINE info == IF from.state[caller] # None THEN from.state[caller].info ELSE 0
             acc == [fork.db.accounts EXCEPT ![caller] = IF @ # None THEN @ ELSE info]
             db == Db(fork.db.reads, acc)
             j == WithAccount(fork.journaled_state, caller, FromInfo(info))
  <2>1. from.state[caller] # None => from.state[caller] \in AccountSet
    BY Fields, Zenon
  <2>2. info \in Int
    BY <2>1, Fields
  <2>3. ensure_caller(from, fork) = Fork(db, j)
    BY <1>2, Zenon DEF ensure_caller
  <2> HIDE DEF info
  <2>4. /\ acc \in [Accounts -> Int \cup {None}] /\ fork.db.reads \in Int
        /\ \A a \in Accounts \ {caller} : acc[a] = fork.db.accounts[a]
    BY <1>0, <2>2, Fields, Zenon
  <2> HIDE DEF acc
  <2>5. db \in Dbs /\ db.reads = fork.db.reads /\ db.accounts = acc
    BY <2>4, Constructors
  <2>6. FromInfo(info) \in AccountSet /\ FromInfo(info) # None
    BY <2>2, FromInfoAccount, Zenon
  <2>7. /\ j \in Journals /\ j.state[caller] # None
        /\ \A a \in Accounts \ {caller} : j.state[a] = fork.journaled_state.state[a]
    BY <1>0, <2>6, WithAccountJournal
  <2> HIDE DEF db, j
  <2>8. /\ Fork(db, j) \in Forks /\ Fork(db, j).db = db /\ Fork(db, j).journaled_state = j
    BY <2>5, <2>7, Constructors, ZenonT(40)
  <2>9. \A a \in Accounts \ {caller} :
           Seen(j, db, a) = Seen(fork.journaled_state, fork.db, a)
    BY <2>4, <2>5, <2>7, Zenon DEF Seen, basic
  <2> QED BY <2>3, <2>5, <2>7, <2>8, <2>9, Zenon
<1> QED BY <1>1, <1>2, Zenon

\* The persistent accounts that are loaded are those of the journal left.
LEMMA UpdateFork ==
  ASSUME active_db \in Dbs, NEW from \in Journals, NEW fork \in Forks
  PROVE  LET f == update_fork_db(from, fork)
         IN  /\ f \in Forks
             /\ f.db.reads = fork.db.reads
             /\ \A a \in Accounts : f.journaled_state.state[a] =
                  IF a \in persistent_accounts /\ from.state[a] # None
                  THEN from.state[a] ELSE fork.journaled_state.state[a]
<1> DEFINE db == merge_db_account_data(persistent_accounts, active_db, fork.db)
           j == merge_journaled_state_data(persistent_accounts, from, fork.journaled_state)
<1>1. fork.db \in Dbs /\ fork.journaled_state \in Journals
  BY Fields, Zenon
<1>2. db \in Dbs /\ db.reads = fork.db.reads
  BY <1>1, MergeDb, Zenon
<1>3. /\ j \in Journals
      /\ \A a \in Accounts : j.state[a] =
           IF a \in persistent_accounts /\ from.state[a] # None
           THEN from.state[a] ELSE fork.journaled_state.state[a]
  BY <1>1, MergeJournal
<1>4. update_fork_db(from, fork) = Fork(db, j)
  BY Zenon DEF update_fork_db
<1> HIDE DEF db, j
<1>5. /\ Fork(db, j) \in Forks /\ Fork(db, j).db = db /\ Fork(db, j).journaled_state = j
  BY <1>2, <1>3, Constructors, ZenonT(60)
<1> QED BY <1>2, <1>3, <1>4, <1>5, Zenon

\* A refresh leaves the persistent accounts alone and drops none.
LEMMA RefreshedJournal ==
  ASSUME NEW js \in Journals, NEW db \in Dbs
  PROVE  /\ Refreshed(js, db) \in Journals
         /\ \A a \in Accounts :
              /\ Refreshed(js, db).state[a] = None <=> js.state[a] = None
              /\ a \in persistent_accounts => Refreshed(js, db).state[a] = js.state[a]
<1> DEFINE st == [a \in Accounts |->
        IF js.state[a] = None \/ a \in persistent_accounts THEN js.state[a]
        ELSE WithInfo(js.state[a], basic(db, a))]
<1>1. ASSUME NEW a \in Accounts
      PROVE  /\ st[a] \in AccountSet \cup {None}
             /\ st[a] = None <=> js.state[a] = None
             /\ a \in persistent_accounts => st[a] = js.state[a]
  <2>1. js.state[a] \in AccountSet \cup {None} /\ basic(db, a) \in Int
    BY Fields, BasicInt, Zenon
  <2>2. st[a] = IF js.state[a] = None \/ a \in persistent_accounts THEN js.state[a]
                ELSE WithInfo(js.state[a], basic(db, a))
    OBVIOUS
  <2>3. js.state[a] # None => /\ WithInfo(js.state[a], basic(db, a)) \in AccountSet
                              /\ WithInfo(js.state[a], basic(db, a)) # None
    BY <2>1, WithInfoAccount, Zenon
  <2> HIDE DEF st
  <2> QED BY <2>1, <2>2, <2>3, Zenon
<1>2. st \in [Accounts -> AccountSet \cup {None}] /\ js.depth \in Int
  BY <1>1, Fields, Zenon
<1>3. Refreshed(js, db) = Journal(js.depth, st)
  BY Zenon DEF Refreshed
<1> HIDE DEF st
<1>4. Journal(js.depth, st) \in Journals /\ Journal(js.depth, st).state = st
  BY <1>2, Constructors, ZenonT(60)
<1> QED BY <1>1, <1>3, <1>4, Zenon

\* Rolling keeps the loaded persistent accounts and the sender.
LEMMA RolledForkFork ==
  ASSUME fork_init_journaled_state \in Journals, NEW js \in Journals, NEW db \in Dbs
  PROVE  LET f == RolledFork(js, db)
         IN  /\ f \in Forks
             /\ f.db.reads = db.reads
             /\ \A a \in Accounts :
                  a \in persistent_accounts \cup {caller} /\ js.state[a] # None =>
                    f.journaled_state.state[a] = js.state[a]
<1> DEFINE start == Journal(js.depth, fork_init_journaled_state.state)
           merged == merge_journaled_state_data(RolledMerges(js), js, start)
           again == {a \in Loaded(js) \ Loaded(merged) : ~js.state[a].created}
           st == [a \in Accounts |->
                    IF a \in again THEN FromInfo(basic(db, a)) ELSE merged.state[a]]
<1>1. start \in Journals
  BY Fields, Constructors, Zenon
<1>2. /\ merged \in Journals
      /\ \A a \in Accounts : a \in RolledMerges(js) /\ js.state[a] # None =>
           merged.state[a] = js.state[a]
  BY <1>1, MergeJournal
<1>3. RolledFork(js, db) = Fork(Cached(db, again), Journal(merged.depth, st))
  BY Zenon DEF RolledFork
<1>4. \A a \in Accounts : a \in again => merged.state[a] = None
  BY Zenon DEF Loaded
<1> HIDE DEF merged, again
<1>5. ASSUME NEW a \in Accounts
      PROVE  /\ st[a] \in AccountSet \cup {None}
             /\ merged.state[a] # None => st[a] = merged.state[a]
  <2>1. merged.state[a] \in AccountSet \cup {None} /\ FromInfo(basic(db, a)) \in AccountSet
    BY <1>2, Fields, BasicInt, FromInfoAccount, Zenon
  <2> QED BY <1>4, <2>1, Zenon
<1>6. st \in [Accounts -> AccountSet \cup {None}] /\ merged.depth \in Int
  BY <1>2, <1>5, Fields, Zenon
<1>7. \A a \in Accounts :
        a \in persistent_accounts \cup {caller} /\ js.state[a] # None => st[a] = js.state[a]
  BY <1>2, <1>5, Zenon DEF RolledMerges
<1> HIDE DEF st
<1>8. /\ Journal(merged.depth, st) \in Journals /\ Journal(merged.depth, st).state = st
      /\ Cached(db, again) \in Dbs /\ Cached(db, again).reads = db.reads
  BY <1>6, Constructors, CachedDb
<1>9. /\ RolledFork(js, db) \in Forks
      /\ RolledFork(js, db).db = Cached(db, again)
      /\ RolledFork(js, db).journaled_state = Journal(merged.depth, st)
  BY <1>3, <1>8, Constructors
<1> QED BY <1>7, <1>8, <1>9, Zenon

-----------------------------------------------------------------------------
(* The forks and their ids. *)

\* Every local id leads, by its fork id, to the fork at its own index, which reads
\* the block that the fork id names.  The fork ids given so far have smaller
\* suffixes than the next one.
Linked(in) ==
  /\ in.forks \in Seq(Forks)
  /\ in.issued_local_fork_ids \in Seq(ForkIds)
  /\ Len(in.issued_local_fork_ids) = Len(in.forks)
  /\ in.next \in Nat
  /\ \A f \in DOMAIN in.created_forks : f \in ForkIds /\ f.suffix < in.next
  /\ \A id \in 1..Len(in.forks) :
       /\ in.issued_local_fork_ids[id] \in DOMAIN in.created_forks
       /\ in.created_forks[in.issued_local_fork_ids[id]] = id
       /\ in.forks[id].db.reads = in.issued_local_fork_ids[id].block

\* Nothing that was linked before is linked otherwise.
Extends(in, more) ==
  /\ Len(in.forks) <= Len(more.forks)
  /\ \A f \in DOMAIN in.created_forks :
       f \in DOMAIN more.created_forks /\ more.created_forks[f] = in.created_forks[f]

\* What a step on the forks never does: change another fork than this one.
OnlyFork(in, new, id) ==
  /\ Linked(new) /\ Extends(in, new)
  /\ Len(new.forks) = Len(in.forks)
  /\ \A i \in 1..Len(in.forks) : i # id => new.forks[i] = in.forks[i]

\* The fields of what BackendInner holds.
LEMMA InnerFields ==
  \A fs, is, cs, n : /\ Inner(fs, is, cs, n).forks = fs
                     /\ Inner(fs, is, cs, n).issued_local_fork_ids = is
                     /\ Inner(fs, is, cs, n).created_forks = cs
                     /\ Inner(fs, is, cs, n).next = n
  BY Zenon DEF Inner

\* The index of a local id is the id.
LEMMA IndexIsId ==
  ASSUME NEW in, Linked(in), NEW id \in 1..Len(in.forks)
  PROVE  /\ Index(in, id) = id
         /\ ForkOf(in, id) = in.forks[id]
         /\ in.forks[id] \in Forks
         /\ in.issued_local_fork_ids[id] \in ForkIds
         /\ id \in DOMAIN in.issued_local_fork_ids
  BY DEF Linked, Index, ForkOf

\* The next fork id was not given before.
LEMMA NextIsNew ==
  ASSUME NEW in, Linked(in), NEW n \in Int
  PROVE  /\ NextForkId(in, n) \in ForkIds
         /\ NextForkId(in, n).block = n /\ NextForkId(in, n).suffix = in.next
         /\ NextForkId(in, n) \notin DOMAIN in.created_forks
<1>1. /\ NextForkId(in, n) \in ForkIds
      /\ NextForkId(in, n).block = n /\ NextForkId(in, n).suffix = in.next
  BY Zenon DEF NextForkId, ForkIds, Linked
<1>2. \A f \in DOMAIN in.created_forks : f.suffix # in.next
  BY DEF Linked, ForkIds
<1> QED BY <1>1, <1>2, Zenon

\* Forks replaced by others that read the same blocks stay linked.
LEMMA WithForksLinked ==
  ASSUME NEW in, Linked(in), NEW fs \in Seq(Forks), Len(fs) = Len(in.forks),
         \A i \in 1..Len(fs) : fs[i].db.reads = in.forks[i].db.reads
  PROVE  /\ Linked(WithForks(in, fs)) /\ Extends(in, WithForks(in, fs))
         /\ WithForks(in, fs).forks = fs
         /\ WithForks(in, fs).issued_local_fork_ids = in.issued_local_fork_ids
<1>1. /\ WithForks(in, fs).forks = fs
      /\ WithForks(in, fs).issued_local_fork_ids = in.issued_local_fork_ids
      /\ WithForks(in, fs).created_forks = in.created_forks
      /\ WithForks(in, fs).next = in.next
  BY InnerFields DEF WithForks
<1>2. Len(in.forks) \in Nat
  BY DEF Linked
<1>3. Linked(WithForks(in, fs))
  BY <1>1 DEF Linked
<1>4. Extends(in, WithForks(in, fs))
  BY <1>1, <1>2 DEF Extends
<1> QED BY <1>1, <1>3, <1>4, Zenon

\* One fork replaced.
LEMMA WithForkLinked ==
  ASSUME NEW in, Linked(in), NEW id \in 1..Len(in.forks), NEW fork \in Forks,
         fork.db.reads = in.forks[id].db.reads
  PROVE  LET new == WithFork(in, id, fork)
         IN  OnlyFork(in, new, id) /\ new.forks[id] = fork
<1> DEFINE fs == [in.forks EXCEPT ![id] = fork]
<1>1. in.forks \in Seq(Forks)
  BY Zenon DEF Linked
<1>2. /\ fs \in Seq(Forks) /\ Len(fs) = Len(in.forks) /\ fs[id] = fork
      /\ \A i \in 1..Len(in.forks) : i # id => fs[i] = in.forks[i]
  BY <1>1
<1>3. WithFork(in, id, fork) = WithForks(in, fs)
  BY Zenon DEF WithFork
<1> HIDE DEF fs
<1>4. \A i \in 1..Len(fs) : fs[i].db.reads = in.forks[i].db.reads
  BY <1>2, Zenon
<1>5. /\ Linked(WithForks(in, fs)) /\ Extends(in, WithForks(in, fs))
      /\ WithForks(in, fs).forks = fs
      /\ WithForks(in, fs).issued_local_fork_ids = in.issued_local_fork_ids
  BY <1>2, <1>4, WithForksLinked, Zenon
<1>6. OnlyFork(in, WithForks(in, fs), id)
  BY <1>2, <1>5, Zenon DEF OnlyFork
<1> QED BY <1>2, <1>3, <1>5, <1>6, Zenon

\* A new fork gets the next local id and a fork id of its own.
LEMMA InsertLinked ==
  ASSUME NEW in, Linked(in), NEW n \in Int, NEW js \in Journals
  PROVE  LET new == insert_new_fork(in, n, js)
         IN  /\ Linked(new) /\ Extends(in, new)
             /\ Len(new.forks) = Len(in.forks) + 1
             /\ \A i \in 1..Len(in.forks) : new.forks[i] = in.forks[i]
<1> DEFINE fid == NextForkId(in, n)
           fork == Fork(NewDb(n), js)
           fs == Append(in.forks, fork)
           is == Append(in.issued_local_fork_ids, fid)
           len == Len(in.forks)
           cs == WithEntry(in.created_forks, fid, len + 1)
           next == in.next + 1
           new == insert_new_fork(in, n, js)
<1>1. /\ fid \in ForkIds /\ fid.block = n /\ fid.suffix = in.next
      /\ fid \notin DOMAIN in.created_forks
  BY NextIsNew, Zenon
<1>2. fork \in Forks /\ fork.db.reads = n
  BY NewDbDb, Constructors
<1>3. new = Inner(fs, is, cs, next)
  BY Zenon DEF insert_new_fork
<1> HIDE DEF fid, fork, new
<1>4. /\ DOMAIN cs = DOMAIN in.created_forks \cup {fid} /\ cs[fid] = len + 1
      /\ \A f \in DOMAIN in.created_forks : cs[f] = in.created_forks[f]
  BY <1>1, Zenon DEF WithEntry
<1> HIDE DEF cs
<1>5. /\ in.forks \in Seq(Forks) /\ in.issued_local_fork_ids \in Seq(ForkIds)
      /\ Len(in.issued_local_fork_ids) = len /\ len \in Nat /\ in.next \in Nat
      /\ next \in Nat
  BY DEF Linked
<1>6. /\ fs \in Seq(Forks) /\ Len(fs) = len + 1 /\ fs[len + 1] = fork
      /\ \A i \in 1..len : fs[i] = in.forks[i]
  BY <1>2, <1>5
<1>7. /\ is \in Seq(ForkIds) /\ Len(is) = len + 1 /\ is[len + 1] = fid
      /\ \A i \in 1..len : is[i] = in.issued_local_fork_ids[i]
  BY <1>1, <1>5
<1> HIDE DEF fs, is
<1>8. ASSUME NEW f \in DOMAIN cs PROVE f \in ForkIds /\ f.suffix < next
  <2>1. CASE f = fid
    BY <1>1, <1>5, <2>1
  <2>2. CASE f \in DOMAIN in.created_forks
    <3>1. f \in ForkIds /\ f.suffix < in.next
      BY <2>2, Zenon DEF Linked
    <3>2. f.suffix \in Nat
      BY <3>1, Zenon DEF ForkIds
    <3> QED BY <1>5, <3>1, <3>2
  <2> QED BY <1>4, <2>1, <2>2, Zenon
<1>9. ASSUME NEW i \in 1..Len(fs)
      PROVE  is[i] \in DOMAIN cs /\ cs[is[i]] = i /\ fs[i].db.reads = is[i].block
  <2>1. CASE i = len + 1
    BY <1>1, <1>2, <1>4, <1>6, <1>7, <2>1, Zenon
  <2>2. CASE i \in 1..len
    <3>1. /\ in.issued_local_fork_ids[i] \in DOMAIN in.created_forks
          /\ in.created_forks[in.issued_local_fork_ids[i]] = i
          /\ in.forks[i].db.reads = in.issued_local_fork_ids[i].block
      BY <2>2, Zenon DEF Linked
    <3>2. fs[i] = in.forks[i] /\ is[i] = in.issued_local_fork_ids[i]
      BY <1>6, <1>7, <2>2, Zenon
    <3> QED BY <1>4, <3>1, <3>2, Zenon
  <2>3. i = len + 1 \/ i \in 1..len
    BY <1>5, <1>6
  <2> QED BY <2>1, <2>2, <2>3, Zenon
<1> HIDE DEF next
<1>10. /\ new.forks = fs /\ new.issued_local_fork_ids = is /\ new.created_forks = cs
       /\ new.next = next
  BY <1>3, InnerFields
<1>11. Linked(new)
  BY <1>5, <1>6, <1>7, <1>8, <1>9, <1>10, Zenon DEF Linked
<1>12. Extends(in, new)
  BY <1>4, <1>5, <1>6, <1>10 DEF Extends
<1> QED BY <1>6, <1>10, <1>11, <1>12, Zenon DEF new

\* A fork given another fork id, which leads to it or was not given before.
LEMMA ReissueLinked ==
  ASSUME NEW in, Linked(in), NEW id \in 1..Len(in.forks),
         NEW fid \in ForkIds, NEW fork \in Forks, fork.db.reads = fid.block,
         NEW next \in Nat, in.next <= next, fid.suffix < next,
         fid \in DOMAIN in.created_forks => in.created_forks[fid] = id,
         NEW new, new = Inner([in.forks EXCEPT ![id] = fork],
                              [in.issued_local_fork_ids EXCEPT ![id] = fid],
                              WithEntry(in.created_forks, fid, id), next)
  PROVE  OnlyFork(in, new, id) /\ new.forks[id] = fork
<1> DEFINE fs == [in.forks EXCEPT ![id] = fork]
           is == [in.issued_local_fork_ids EXCEPT ![id] = fid]
           cs == WithEntry(in.created_forks, fid, id)
           len == Len(in.forks)
<1>1. new.forks = fs /\ new.issued_local_fork_ids = is /\ new.created_forks = cs
      /\ new.next = next
  BY InnerFields
<1>2. /\ in.forks \in Seq(Forks) /\ in.issued_local_fork_ids \in Seq(ForkIds)
      /\ Len(in.issued_local_fork_ids) = len /\ len \in Nat /\ in.next \in Nat
  BY DEF Linked
<1>3. /\ DOMAIN cs = DOMAIN in.created_forks \cup {fid} /\ cs[fid] = id
      /\ \A f \in DOMAIN in.created_forks : cs[f] = in.created_forks[f]
  BY Zenon DEF WithEntry
<1>4. /\ fs \in Seq(Forks) /\ Len(fs) = len /\ fs[id] = fork
      /\ \A i \in 1..len : i # id => fs[i] = in.forks[i]
  BY <1>2
<1>5. /\ is \in Seq(ForkIds) /\ Len(is) = len /\ is[id] = fid
      /\ \A i \in 1..len : i # id => is[i] = in.issued_local_fork_ids[i]
  BY <1>2
<1> HIDE DEF fs, is, cs
<1>6. ASSUME NEW f \in DOMAIN cs PROVE f \in ForkIds /\ f.suffix < next
  <2>1. CASE f \in DOMAIN in.created_forks
    <3>1. f \in ForkIds /\ f.suffix < in.next
      BY <2>1, Zenon DEF Linked
    <3>2. f.suffix \in Nat
      BY <3>1, Zenon DEF ForkIds
    <3> QED BY <1>2, <3>1, <3>2
  <2> QED BY <1>3, <2>1, Zenon
<1>7. ASSUME NEW i \in 1..len
      PROVE  is[i] \in DOMAIN cs /\ cs[is[i]] = i /\ fs[i].db.reads = is[i].block
  <2>1. CASE i = id
    BY <1>3, <1>4, <1>5, <2>1, Zenon
  <2>2. CASE i # id
    <3>1. /\ in.issued_local_fork_ids[i] \in DOMAIN in.created_forks
          /\ in.created_forks[in.issued_local_fork_ids[i]] = i
          /\ in.forks[i].db.reads = in.issued_local_fork_ids[i].block
      BY Zenon DEF Linked
    <3> QED BY <1>3, <1>4, <1>5, <2>2, <3>1, Zenon
  <2> QED BY <2>1, <2>2, Zenon
<1>8. Linked(new)
  BY <1>1, <1>4, <1>5, <1>6, <1>7, ZenonT(60) DEF Linked
<1>9. Len(in.forks) <= Len(new.forks)
  BY <1>1, <1>2, <1>4
<1>10. Extends(in, new)
  BY <1>1, <1>3, <1>9, Zenon DEF Extends
<1> QED BY <1>1, <1>4, <1>8, <1>10, Zenon DEF OnlyFork

\* A roll gives the fork a new fork id and a database that reads its block.
LEMMA InnerRollLinked ==
  ASSUME NEW in, Linked(in), NEW id \in 1..Len(in.forks), NEW n \in Int
  PROVE  LET new == inner_roll_fork(in, id, n)
         IN  OnlyFork(in, new, id)
<1> DEFINE fid == NextForkId(in, n)
           db == merge_db_account_data(persistent_accounts, in.forks[id].db, NewDb(n))
           fork == Fork(db, in.forks[id].journaled_state)
           next == in.next + 1
<1>1. /\ fid \in ForkIds /\ fid.block = n /\ fid.suffix = in.next
      /\ fid \notin DOMAIN in.created_forks
  BY NextIsNew, Zenon
<1>2. in.forks[id].db \in Dbs /\ in.forks[id].journaled_state \in Journals /\ Index(in, id) = id
  BY IndexIsId, Fields, Zenon
<1>3. db \in Dbs /\ db.reads = n
  BY <1>2, NewDbDb, MergeDb, Zenon
<1>4. fork \in Forks /\ fork.db.reads = fid.block
  BY <1>1, <1>2, <1>3, Constructors
<1>5. inner_roll_fork(in, id, n) =
        Inner([in.forks EXCEPT ![id] = fork], [in.issued_local_fork_ids EXCEPT ![id] = fid],
              WithEntry(in.created_forks, fid, id), next)
  BY <1>2, Zenon DEF inner_roll_fork
<1> HIDE DEF fid, fork
<1>6. next \in Nat /\ in.next <= next /\ fid.suffix < next
  BY <1>1 DEF Linked
<1> HIDE DEF next
<1> QED BY <1>1, <1>4, <1>5, <1>6, ReissueLinked, Zenon

\* A revert gives the fork back a fork id that was its own.
LEMMA RevertLinked ==
  ASSUME NEW in, Linked(in), NEW id \in 1..Len(in.forks), NEW fork \in Forks,
         NEW fid \in DOMAIN in.created_forks, in.created_forks[fid] = id,
         fork.db.reads = fid.block, NEW new, new = revert_snapshot(in, id, fid, id, fork)
  PROVE  OnlyFork(in, new, id) /\ new.forks[id] = fork
<1>1. fid \in ForkIds /\ fid.suffix < in.next /\ in.next \in Nat /\ in.next <= in.next
  BY DEF Linked
<1> DEFINE same == Inner([in.forks EXCEPT ![id] = fork],
                         [in.issued_local_fork_ids EXCEPT ![id] = fid],
                         WithEntry(in.created_forks, fid, id), in.next)
<1>2. new = same
  BY Zenon DEF revert_snapshot
<1>3. OnlyFork(in, same, id) /\ same.forks[id] = fork
  <2> SUFFICES ASSUME NEW r, r = same PROVE OnlyFork(in, r, id) /\ r.forks[id] = fork
    BY Zenon
  <2> QED BY <1>1, ReissueLinked, SMTT(60)
<1> HIDE DEF same
<1> QED BY <1>2, <1>3, Zenon

\* The accounts that a journal has to hand on to the next.
Keeps(js, new) ==
  \A a \in Accounts : js.state[a] # None =>
    /\ a \in persistent_accounts => new.state[a] = js.state[a]
    /\ a = caller => new.state[a] # None

\* Two such steps on one fork.
LEMMA OnlyForkTwice ==
  ASSUME NEW in, NEW mid, NEW new, NEW id,
         OnlyFork(in, mid, id), OnlyFork(mid, new, id), in.forks \in Seq(Forks)
  PROVE  OnlyFork(in, new, id)
<1>1. Len(in.forks) <= Len(new.forks) /\ Len(new.forks) = Len(in.forks)
  BY DEF OnlyFork
<1>2. Extends(in, new)
  BY <1>1, Zenon DEF OnlyFork, Extends
<1> QED BY <1>1, <1>2, Zenon DEF OnlyFork

\* Two journals handed on.
LEMMA KeepsTwice ==
  ASSUME NEW js, NEW mid, NEW new, Keeps(js, mid), Keeps(mid, new)
  PROVE  Keeps(js, new)
  BY Zenon DEF Keeps

\* A roll, of the active fork or of another.
LEMMA RolledOnly ==
  ASSUME fork_init_journaled_state \in Journals, NEW in, Linked(in), NEW js \in Journals,
         NEW e \in Int, NEW id \in 1..Len(in.forks), NEW n \in Int
  PROVE  LET r == Rolled(in, js, e, id, n)
         IN  OnlyFork(in, r.inner, id) /\ r.js \in Journals /\ r.env \in Int /\ Keeps(js, r.js)
<1> DEFINE in1 == inner_roll_fork(in, id, n)
           fork == RolledFork(js, in1.forks[id].db)
           in2 == WithFork(in1, id, fork)
           r == Rolled(in, js, e, id, n)
<1>1. OnlyFork(in, in1, id)
  BY InnerRollLinked, Zenon
<1>2. /\ Linked(in1) /\ id \in 1..Len(in1.forks)
  BY <1>1, Zenon DEF OnlyFork
<1>3. Index(in1, id) = id /\ in1.forks[id] \in Forks
  BY <1>2, IndexIsId, Zenon
<1>4. r = IF active # id THEN [inner |-> in1, js |-> js, env |-> e]
          ELSE [inner |-> in2, js |-> fork.journaled_state, env |-> n]
  BY <1>3, Zenon DEF Rolled
<1>5. in1.forks[id].db \in Dbs
  BY <1>3, Fields, Zenon
<1> HIDE DEF in1, r
<1>6. /\ fork \in Forks
      /\ fork.db.reads = in1.forks[id].db.reads
      /\ \A a \in Accounts :
           a \in persistent_accounts \cup {caller} /\ js.state[a] # None =>
             fork.journaled_state.state[a] = js.state[a]
  BY <1>5, RolledForkFork, Zenon
<1> HIDE DEF fork
<1>7. OnlyFork(in1, in2, id)
  BY <1>2, <1>6, WithForkLinked, Zenon
<1> HIDE DEF in2
<1>8. OnlyFork(in, in2, id)
  BY <1>1, <1>7, OnlyForkTwice, Zenon DEF Linked
<1>9. Keeps(js, fork.journaled_state) /\ fork.journaled_state \in Journals
  BY <1>6, Fields, Zenon DEF Keeps
<1>10. Keeps(js, js)
  BY Zenon DEF Keeps
<1>11. CASE active # id
  <2>1. r.inner = in1 /\ r.js = js /\ r.env = e
    BY <1>4, <1>11, Zenon
  <2> QED BY <1>1, <1>10, <2>1, Zenon DEF r
<1>12. CASE active = id
  <2>1. r.inner = in2 /\ r.js = fork.journaled_state /\ r.env = n
    BY <1>4, <1>12, Zenon
  <2> QED BY <1>8, <1>9, <2>1, Zenon DEF r
<1> QED BY <1>11, <1>12, Zenon

\* A transaction of the chain on a fork.
LEMMA CommittedOnly ==
  ASSUME NEW in, Linked(in), NEW js \in Journals, NEW id \in 1..Len(in.forks), NEW v \in Int
  PROVE  LET r == CommittedOn(in, js, id, v)
         IN  OnlyFork(in, r.inner, id) /\ r.js \in Journals /\ Keeps(js, r.js)
<1> DEFINE fork == in.forks[id]
           acc == [fork.db.accounts EXCEPT ![Token] = v]
           db == Db(fork.db.reads, acc)
           S == (Loaded(js) \cup Loaded(fork.journaled_state)) \ persistent_accounts
           f == Fork(Cached(db, S), Refreshed(fork.journaled_state, db))
           in1 == WithFork(in, id, f)
           r == CommittedOn(in, js, id, v)
<1>1. Index(in, id) = id /\ fork \in Forks
  BY IndexIsId, Zenon
<1>2. r = [inner |-> in1, js |-> Refreshed(js, db)]
  BY <1>1, Zenon DEF CommittedOn
<1>3. fork.db \in Dbs /\ fork.journaled_state \in Journals
  BY <1>1, Fields, Zenon
<1>4. acc \in [Accounts -> Int \cup {None}] /\ fork.db.reads \in Int
  BY <1>3, Fields, Zenon
<1> HIDE DEF acc, r, S
<1>5. db \in Dbs /\ db.reads = fork.db.reads
  BY <1>4, Constructors
<1> HIDE DEF db
<1>6. Cached(db, S) \in Dbs /\ Cached(db, S).reads = fork.db.reads
  BY <1>5, CachedDb, Zenon
<1>7. Refreshed(fork.journaled_state, db) \in Journals
  BY <1>3, <1>5, RefreshedJournal, Zenon
<1>8. f \in Forks /\ f.db.reads = fork.db.reads
  BY <1>6, <1>7, Constructors
<1> HIDE DEF f
<1>9. OnlyFork(in, in1, id)
  BY <1>8, WithForkLinked, Zenon
<1>10. Refreshed(js, db) \in Journals /\ Keeps(js, Refreshed(js, db))
  BY <1>5, RefreshedJournal, Zenon DEF Keeps
<1>11. r.inner = in1 /\ r.js = Refreshed(js, db)
  BY <1>2, Zenon
<1> QED BY <1>9, <1>10, <1>11, Zenon DEF r

-----------------------------------------------------------------------------
(* The invariant. *)

\* The variables have their types, and the cheatcode account is persistent.
Types ==
  /\ mem_db \in Dbs
  /\ Linked(inner) /\ Len(inner.forks) <= MaxForks
  /\ active \in 1..Len(inner.forks) \cup {None}
  /\ journaled_state \in Journals /\ fork_init_journaled_state \in Journals
  /\ Hevm \in persistent_accounts
  /\ env \in Int /\ caller \in Callers /\ ops \in Nat
  /\ snapshots \in Seq(SnapshotSet \cup {None})
  /\ left \in [1..MaxForks -> Int \cup {None}]

\* A snapshot holds the value that was visible when it was taken.  A snapshot of a
\* fork leads to this fork, with a fork id that was its own.
Faithful(snap, in) ==
  /\ snap.id = None => snap.token = Seen(snap.journaled_state, snap.mem_db, Token)
  /\ snap.id # None =>
       /\ snap.id \in 1..Len(in.forks) /\ snap.idx = snap.id
       /\ snap.fork_id \in DOMAIN in.created_forks
       /\ in.created_forks[snap.fork_id] = snap.id
       /\ snap.fork \in Forks /\ snap.fork.db.reads = snap.fork_id.block
       /\ snap.token = Seen(snap.journaled_state, snap.fork.db, Token)

SnapshotsHold == \A s \in Existing : Faithful(snapshots[s], inner)

\* A fork that was left shows what it was left with.
AsLeft ==
  \A i \in 1..MaxForks : left[i] # None =>
    /\ active # None /\ i # active /\ i <= Len(inner.forks)
    /\ Seen(inner.forks[i].journaled_state, inner.forks[i].db, Token) = left[i]

IInv == Types /\ SnapshotsHold /\ AsLeft /\ FailureKept

\* The accounts that the model names.
LEMMA NamedAccounts ==
  /\ Hevm \in Accounts /\ Token \in Accounts /\ Callers \subseteq Accounts
  /\ Hevm # Token /\ Hevm \notin Callers /\ Token \notin Callers
  BY ConstantsAssumption, Zenon DEF Accounts

\* The database the EVM uses.
LEMMA ActiveDb ==
  ASSUME Types
  PROVE  /\ active_db \in Dbs
         /\ active # None => /\ active \in 1..Len(inner.forks)
                             /\ active_db = inner.forks[active].db
                             /\ ForkOf(inner, active) = inner.forks[active]
                             /\ Index(inner, active) = active
<1>1. CASE active = None
  BY <1>1, Zenon DEF Types, active_db
<1>2. CASE active # None
  <2>1. active \in 1..Len(inner.forks) /\ Linked(inner)
    BY <1>2, Zenon DEF Types
  <2>2. /\ ForkOf(inner, active) = inner.forks[active] /\ Index(inner, active) = active
        /\ inner.forks[active] \in Forks
    BY <2>1, IndexIsId, Zenon
  <2> QED BY <1>2, <2>1, <2>2, Fields, Zenon DEF active_db
<1> QED BY <1>1, <1>2, Zenon

\* Writing that database changes the active fork alone.
LEMMA SetActiveOnly ==
  ASSUME Types, NEW db \in Dbs, db.reads = active_db.reads, SetActiveDb(db)
  PROVE  mem_db' \in Dbs /\ OnlyFork(inner, inner', active)
<1>1. CASE active = None
  <2>1. mem_db' = db /\ inner' = inner
    BY <1>1, Zenon DEF SetActiveDb
  <2>2. Extends(inner, inner)
    BY DEF Extends, Types, Linked
  <2> QED BY <2>1, <2>2, Zenon DEF OnlyFork, Types
<1>2. CASE active # None
  <2>1. /\ active \in 1..Len(inner.forks) /\ active_db = inner.forks[active].db
        /\ ForkOf(inner, active) = inner.forks[active] /\ Index(inner, active) = active
        /\ inner.forks[active] \in Forks /\ Linked(inner)
    BY <1>2, ActiveDb, IndexIsId, Zenon DEF Types
  <2> DEFINE f == Fork(db, inner.forks[active].journaled_state)
  <2>2. f \in Forks /\ f.db.reads = inner.forks[active].db.reads
    BY <2>1, Constructors, Fields, Zenon
  <2>3. inner' = WithFork(inner, active, f) /\ mem_db' = mem_db
    BY <1>2, <2>1, Zenon DEF SetActiveDb
  <2> HIDE DEF f
  <2> QED BY <2>1, <2>2, <2>3, WithForkLinked, Zenon DEF Types
<1> QED BY <1>1, <1>2, Zenon

\* Snapshots stay faithful while forks are added, rolled and reverted.
LEMMA SnapshotsExtend ==
  ASSUME SnapshotsHold, Linked(inner), Linked(inner'), Extends(inner, inner'),
         \A s \in Existing' : s \in Existing /\ snapshots'[s] = snapshots[s]
  PROVE  SnapshotsHold'
<1> SUFFICES ASSUME NEW s \in Existing' PROVE Faithful(snapshots[s], inner)'
  BY Zenon DEF SnapshotsHold
<1>1. Faithful(snapshots[s], inner) /\ snapshots'[s] = snapshots[s]
  BY Zenon DEF SnapshotsHold
<1> DEFINE snap == snapshots[s]
<1>2. Len(inner.forks) \in Nat /\ Len(inner'.forks) \in Nat /\ Len(inner.forks) <= Len(inner'.forks)
  BY DEF Linked, Extends
<1>3. \A i \in 1..Len(inner.forks) : i \in 1..Len(inner'.forks)
  BY <1>2, SMTT(40)
<1> QED BY <1>1, <1>3, Zenon DEF Faithful, Extends

\* Forks that were left stay as they are unless they are forgotten.
LEMMA LeftAlone ==
  ASSUME AsLeft, Linked(inner), Linked(inner'), Extends(inner, inner'), active' = active,
         \A i \in 1..MaxForks : left'[i] # None =>
           left'[i] = left[i] /\ (i <= Len(inner.forks) => inner'.forks[i] = inner.forks[i])
  PROVE  AsLeft'
<1>1. Len(inner.forks) \in Nat /\ Len(inner'.forks) \in Nat /\ Len(inner.forks) <= Len(inner'.forks)
  BY DEF Linked, Extends
<1>2. ASSUME NEW i \in 1..MaxForks, left'[i] # None
      PROVE  /\ active' # None /\ i # active' /\ i <= Len(inner'.forks)
             /\ Seen(inner'.forks[i].journaled_state, inner'.forks[i].db, Token) = left'[i]
  <2>1. /\ active # None /\ i # active /\ i <= Len(inner.forks)
        /\ Seen(inner.forks[i].journaled_state, inner.forks[i].db, Token) = left[i]
        /\ left'[i] = left[i] /\ inner'.forks[i] = inner.forks[i]
    BY <1>2, Zenon DEF AsLeft
  <2> QED BY <1>1, <2>1
<1> QED BY <1>2, Zenon DEF AsLeft, Seen, basic, remote

\* A journal that is handed on has the failure.
LEMMA FailureHandedOn ==
  ASSUME FailureKept, Hevm \in persistent_accounts, Keeps(journaled_state, journaled_state'),
         failed' = failed, has_snapshot_failure' = has_snapshot_failure
  PROVE  FailureKept'
  BY NamedAccounts, Zenon DEF FailureKept, Keeps, is_global_failure

-----------------------------------------------------------------------------
(* The steps. *)

\* The journal a transaction starts with.
LEMMA StartJournalJournal == \A db \in Dbs, c \in Callers : StartJournal(db, c) \in Journals
<1> SUFFICES ASSUME NEW db \in Dbs, NEW c \in Callers PROVE StartJournal(db, c) \in Journals
  OBVIOUS
<1> DEFINE st == [a \in Accounts |-> IF a = c THEN Account(basic(db, a), FALSE, TRUE) ELSE None]
<1>1. ASSUME NEW a \in Accounts
      PROVE  Account(basic(db, a), FALSE, TRUE) \in AccountSet
  BY BasicInt, Constructors, Zenon
<1>2. st \in [Accounts -> AccountSet \cup {None}]
  BY <1>1, Zenon
<1>3. StartJournal(db, c) = Journal(1, st)
  BY Zenon DEF StartJournal
<1> HIDE DEF st
<1> QED BY <1>2, <1>3, Constructors

\* A test starts in memory, or on the fork it was launched with.
LEMMA InitIInv == Init => IInv
<1> SUFFICES ASSUME Init PROVE IInv
  OBVIOUS
<1>1. PICK n \in {0} \cup Blocks, c \in Callers :
        /\ mem_db = NewDb(0)
        /\ inner = IF n = 0 THEN NewInner ELSE insert_new_fork(NewInner, n, NewJournal)
        /\ active = IF n = 0 THEN None ELSE 1
        /\ journaled_state = StartJournal(NewDb(n), c)
        /\ fork_init_journaled_state = NewJournal
        /\ persistent_accounts = {Hevm}
        /\ env = n /\ caller = c /\ snapshots = << >>
        /\ ops = 0 /\ failed = FALSE
        /\ left = [i \in 1..MaxForks |-> None]
  BY Zenon DEF Init
<1>2. n \in Int /\ MaxForks \in Nat /\ MaxForks > 0
  BY ConstantsAssumption DEF Blocks
<1>3. NewDb(0) \in Dbs /\ NewDb(n) \in Dbs /\ NewJournal \in Journals
  BY <1>2, NewDbDb, NewJournalJournal
<1>4. StartJournal(NewDb(n), c) \in Journals
  BY <1>3, StartJournalJournal, Zenon
<1>5. Linked(NewInner) /\ Len(NewInner.forks) = 0
  <2>1. /\ NewInner.forks = << >> /\ NewInner.issued_local_fork_ids = << >>
        /\ NewInner.created_forks = << >> /\ NewInner.next = 1
    BY InnerFields DEF NewInner
  <2>2. DOMAIN << >> = {}
    OBVIOUS
  <2> QED BY <2>1, <2>2 DEF Linked
<1>6. Linked(inner) /\ Len(inner.forks) = IF n = 0 THEN 0 ELSE 1
  BY <1>1, <1>2, <1>3, <1>5, InsertLinked
<1>7. Types
  <2>1. snapshots \in Seq(SnapshotSet \cup {None}) /\ left \in [1..MaxForks -> Int \cup {None}]
    BY <1>1
  <2>2. active \in 1..Len(inner.forks) \cup {None} /\ Len(inner.forks) <= MaxForks
    BY <1>1, <1>2, <1>6
  <2> QED BY <1>1, <1>2, <1>3, <1>4, <1>6, <2>1, <2>2, Zenon DEF Types
<1>8. SnapshotsHold
  BY <1>1 DEF SnapshotsHold, Existing
<1>9. AsLeft
  BY <1>1, Zenon DEF AsLeft
<1> QED BY <1>1, <1>7, <1>8, <1>9, Zenon DEF IInv, FailureKept

\* A step that may change one fork, the active one or one that is then no longer
\* taken to be as it was left.
LEMMA OneForkIInv ==
  ASSUME IInv, NEW id, OnlyFork(inner, inner', id), mem_db' \in Dbs, active' = active,
         journaled_state' \in Journals, env' \in Int, caller' \in Callers, ops' \in Nat,
         UNCHANGED <<fork_init_journaled_state, persistent_accounts, snapshots>>,
         \/ id = active /\ left' = left
         \/ left' = [left EXCEPT ![id] = None],
         FailureKept'
  PROVE  IInv'
<1>1. /\ Linked(inner) /\ Linked(inner') /\ Extends(inner, inner')
      /\ Len(inner'.forks) = Len(inner.forks)
      /\ left \in [1..MaxForks -> Int \cup {None}]
  BY Zenon DEF IInv, Types, OnlyFork
<1>2. left' \in [1..MaxForks -> Int \cup {None}]
  BY <1>1, Zenon
<1>3. Types'
  BY <1>1, <1>2, Zenon DEF IInv, Types
<1>4. SnapshotsHold'
  <2>1. Existing' = Existing
    BY Zenon DEF Existing
  <2> QED BY <1>1, <2>1, SnapshotsExtend, Zenon DEF IInv
<1>5. ASSUME NEW i \in 1..MaxForks, left'[i] # None, i <= Len(inner.forks)
      PROVE  left'[i] = left[i] /\ inner'.forks[i] = inner.forks[i]
  <2>1. left'[i] = left[i] /\ i # id
    BY <1>1, <1>5, Zenon DEF IInv, AsLeft
  <2>2. i \in 1..Len(inner.forks)
    BY <1>5
  <2> QED BY <2>1, <2>2, Zenon DEF OnlyFork
<1>6. \A i \in 1..MaxForks : left'[i] # None => left'[i] = left[i]
  BY <1>1, Zenon
<1>7. AsLeft'
  BY <1>1, <1>5, <1>6, LeftAlone, Zenon DEF IInv
<1> QED BY <1>3, <1>4, <1>7, Zenon DEF IInv

\* One more step was taken.
LEMMA StepOps ==
  ASSUME Types, NEW what, NEW s, Step(what, s)
  PROVE  ops' \in Nat /\ ops' = ops + 1
  BY DEF Types, Step

\* An account is loaded from the active database.
LEMMA LoadIInv ==
  ASSUME IInv, Load
  PROVE  IInv'
<1>1. Types /\ active_db \in Dbs /\ journaled_state \in Journals /\ Token \in Accounts
  BY ActiveDb, NamedAccounts, Zenon DEF IInv, Types
<1> DEFINE c == FromInfo(basic(active_db, Token))
<1>2. c \in AccountSet
  BY <1>1, BasicInt, FromInfoAccount, Zenon
<1>3. /\ journaled_state' = WithAccount(journaled_state, Token, c)
      /\ SetActiveDb(Cached(active_db, {Token}))
      /\ UNCHANGED <<active, fork_init_journaled_state, persistent_accounts, env,
                     caller, snapshots, has_snapshot_failure, failed, left>>
      /\ ops' \in Nat
  BY <1>1, StepOps, Zenon DEF Load
<1> HIDE DEF c
<1>4. /\ journaled_state' \in Journals
      /\ journaled_state'.state[Hevm] = journaled_state.state[Hevm]
  BY <1>1, <1>2, <1>3, WithAccountJournal, NamedAccounts
<1>5. mem_db' \in Dbs /\ OnlyFork(inner, inner', active)
  BY <1>1, <1>3, CachedDb, SetActiveOnly, Zenon
<1>6. FailureKept'
  BY <1>3, <1>4, Zenon DEF IInv, FailureKept, is_global_failure
<1>7. env' \in Int /\ caller' \in Callers
  BY <1>1, <1>3, Zenon DEF Types
<1> QED BY <1>3, <1>4, <1>5, <1>6, <1>7, OneForkIInv, Zenon

\* The test writes or creates an account.
LEMMA WriteIInv ==
  ASSUME IInv, NEW created \in BOOLEAN, Write(created)
  PROVE  IInv'
<1>1. /\ Types /\ active_db \in Dbs /\ journaled_state \in Journals /\ Token \in Accounts
      /\ ops \in Nat
  BY ActiveDb, NamedAccounts, Zenon DEF IInv, Types
<1> DEFINE account == journaled_state.state[Token]
           c == Account(ops + 1, created \/ (account # None /\ account.created), TRUE)
<1>2. c \in AccountSet
  <2>1. account \in AccountSet \cup {None}
    BY <1>1, Fields, Zenon
  <2>2. (created \/ (account # None /\ account.created)) \in BOOLEAN
    BY <2>1, Fields, Zenon
  <2>3. ops + 1 \in Int
    BY <1>1
  <2> QED BY <2>2, <2>3, Constructors, Zenon
<1>3. /\ journaled_state' = WithAccount(journaled_state, Token, c)
      /\ SetActiveDb(Cached(active_db, {Token}))
      /\ UNCHANGED <<active, fork_init_journaled_state, persistent_accounts, env,
                     caller, snapshots, has_snapshot_failure, failed, left>>
      /\ ops' \in Nat
  BY <1>1, StepOps, Zenon DEF Write
<1> HIDE DEF c
<1>4. /\ journaled_state' \in Journals
      /\ journaled_state'.state[Hevm] = journaled_state.state[Hevm]
  BY <1>1, <1>2, <1>3, WithAccountJournal, NamedAccounts
<1>5. mem_db' \in Dbs /\ OnlyFork(inner, inner', active)
  BY <1>1, <1>3, CachedDb, SetActiveOnly, Zenon
<1>6. FailureKept'
  BY <1>3, <1>4, Zenon DEF IInv, FailureKept, is_global_failure
<1>7. env' \in Int /\ caller' \in Callers
  BY <1>1, <1>3, Zenon DEF Types
<1> QED BY <1>3, <1>4, <1>5, <1>6, <1>7, OneForkIInv, Zenon

\* An assertion fails: the flag is in the journal.
LEMMA FailIInv ==
  ASSUME IInv, Fail
  PROVE  IInv'
<1>1. Types /\ active_db \in Dbs /\ journaled_state \in Journals /\ Hevm \in Accounts
  BY ActiveDb, NamedAccounts, Zenon DEF IInv, Types
<1> DEFINE c == Account(1, FALSE, TRUE)
<1>2. c \in AccountSet /\ c # None /\ c.info = 1
  <2>1. 1 \in Int
    OBVIOUS
  <2> QED BY <2>1, Constructors, Zenon
<1>3. /\ journaled_state' = WithAccount(journaled_state, Hevm, c)
      /\ SetActiveDb(Cached(active_db, {Hevm}))
      /\ UNCHANGED <<active, fork_init_journaled_state, persistent_accounts, env,
                     caller, snapshots, left>>
      /\ ops' \in Nat
  BY <1>1, StepOps, Zenon DEF Fail
<1> HIDE DEF c
<1>4. journaled_state' \in Journals /\ journaled_state'.state[Hevm] = c
  BY <1>1, <1>2, <1>3, WithAccountJournal
<1>5. mem_db' \in Dbs /\ OnlyFork(inner, inner', active)
  BY <1>1, <1>3, CachedDb, SetActiveOnly, Zenon
<1>6. FailureKept'
  BY <1>2, <1>4, Zenon DEF FailureKept, is_global_failure
<1>7. env' \in Int /\ caller' \in Callers
  BY <1>1, <1>3, Zenon DEF Types
<1> QED BY <1>3, <1>4, <1>5, <1>6, <1>7, OneForkIInv, Zenon

\* A transaction of a test that has not failed ends, and another begins.
LEMMA CommitIInv ==
  ASSUME IInv, NEW c \in Callers, Commit(c)
  PROVE  IInv'
<1>1. Types /\ active_db \in Dbs /\ journaled_state \in Journals
  BY ActiveDb, Zenon DEF IInv, Types
<1> DEFINE acc == [a \in Accounts |->
                IF journaled_state.state[a] # None /\ journaled_state.state[a].touched
                THEN journaled_state.state[a].info ELSE active_db.accounts[a]]
           db == Db(active_db.reads, acc)
<1>2. /\ journaled_state' = StartJournal(db, c)
      /\ SetActiveDb(Cached(db, {c}))
      /\ caller' = c /\ ~failed
      /\ UNCHANGED <<active, fork_init_journaled_state, persistent_accounts, env,
                     snapshots, failed, left>>
      /\ ops' \in Nat
  BY <1>1, StepOps, Zenon DEF Commit
<1>3. ASSUME NEW a \in Accounts
      PROVE  /\ journaled_state.state[a] # None => journaled_state.state[a].info \in Int
             /\ active_db.accounts[a] \in Int \cup {None}
  <2>1. journaled_state.state[a] \in AccountSet \cup {None}
    BY <1>1, Fields, Zenon
  <2> QED BY <1>1, <2>1, Fields, Zenon
<1>4. acc \in [Accounts -> Int \cup {None}] /\ active_db.reads \in Int
  BY <1>1, <1>3, Fields, Zenon
<1> HIDE DEF acc
<1>5. db \in Dbs /\ db.reads = active_db.reads
  BY <1>4, Constructors, Zenon
<1> HIDE DEF db
<1>6. journaled_state' \in Journals
  BY <1>2, <1>5, StartJournalJournal, Zenon
<1>7. mem_db' \in Dbs /\ OnlyFork(inner, inner', active)
  BY <1>1, <1>2, <1>5, CachedDb, SetActiveOnly, Zenon
<1>8. FailureKept'
  BY <1>2, Zenon DEF FailureKept
<1>9. env' \in Int
  BY <1>1, <1>2, Zenon DEF Types
<1> QED BY <1>2, <1>6, <1>7, <1>8, <1>9, OneForkIInv, Zenon

\* A fork is rolled to a block.
LEMMA RollIInv ==
  ASSUME IInv, NEW id \in LocalIds, NEW n \in Blocks, roll_fork(id, n)
  PROVE  IInv' /\ Keeps(journaled_state, journaled_state')
<1>1. /\ Types /\ Linked(inner) /\ journaled_state \in Journals /\ env \in Int
      /\ fork_init_journaled_state \in Journals /\ mem_db \in Dbs /\ caller \in Callers
      /\ Hevm \in persistent_accounts
  BY Zenon DEF IInv, Types
<1>2. n \in Int /\ id \in 1..Len(inner.forks)
  BY <1>1, ConstantsAssumption, SMTT(60) DEF Blocks, LocalIds, Linked
<1> DEFINE r == Rolled(inner, journaled_state, env, id, n)
<1>3. OnlyFork(inner, r.inner, id) /\ r.js \in Journals /\ r.env \in Int /\ Keeps(journaled_state, r.js)
  BY <1>1, <1>2, RolledOnly, Zenon
<1>4. /\ inner' = r.inner /\ journaled_state' = r.js /\ env' = r.env
      /\ left' = [left EXCEPT ![id] = None]
      /\ UNCHANGED <<mem_db, active, fork_init_journaled_state, persistent_accounts,
                     caller, snapshots, has_snapshot_failure, failed>>
      /\ ops' \in Nat
  BY <1>1, StepOps, Zenon DEF roll_fork
<1> HIDE DEF r
<1>5. Keeps(journaled_state, journaled_state')
  BY <1>3, <1>4, Zenon
<1>6. FailureKept'
  BY <1>1, <1>4, <1>5, FailureHandedOn, Zenon DEF IInv
<1> QED BY <1>1, <1>3, <1>4, <1>5, <1>6, OneForkIInv, Zenon

\* A fork is rolled to a transaction, and those before it are replayed.
LEMMA RollToTransactionIInv ==
  ASSUME IInv, NEW id \in LocalIds, NEW tx \in Transactions, roll_fork_to_transaction(id, tx)
  PROVE  IInv' /\ Keeps(journaled_state, journaled_state')
<1>1. /\ Types /\ Linked(inner) /\ journaled_state \in Journals /\ env \in Int
      /\ fork_init_journaled_state \in Journals /\ mem_db \in Dbs /\ caller \in Callers
      /\ Hevm \in persistent_accounts /\ ops \in Nat
  BY Zenon DEF IInv, Types
<1> DEFINE n == tx[1]
           v == ops + 1
<1>2. n \in Int /\ n + 1 \in Int /\ v \in Int /\ id \in 1..Len(inner.forks)
  <2>1. n \in Int
    BY ConstantsAssumption DEF Blocks
  <2>2. id \in 1..Len(inner.forks)
    BY <1>1 DEF LocalIds, Linked
  <2> QED BY <1>1, <2>1, <2>2
<1> DEFINE r == Rolled(inner, journaled_state, env, id, n)
           d == CommittedOn(r.inner, r.js, id, v)
<1>3. OnlyFork(inner, r.inner, id) /\ r.js \in Journals /\ Keeps(journaled_state, r.js)
  BY <1>1, <1>2, RolledOnly, Zenon
<1>4. /\ inner' = IF tx[2] THEN d.inner ELSE r.inner
      /\ journaled_state' = IF tx[2] THEN d.js ELSE r.js
      /\ env' = n + 1
      /\ left' = [left EXCEPT ![id] = None]
      /\ UNCHANGED <<mem_db, active, fork_init_journaled_state, persistent_accounts,
                     caller, snapshots, has_snapshot_failure, failed>>
      /\ ops' \in Nat
  BY <1>1, StepOps, Zenon DEF roll_fork_to_transaction
<1> HIDE DEF r, v
<1>5. Linked(r.inner) /\ id \in 1..Len(r.inner.forks)
  BY <1>2, <1>3, Zenon DEF OnlyFork
<1>6. OnlyFork(r.inner, d.inner, id) /\ d.js \in Journals /\ Keeps(r.js, d.js)
  BY <1>2, <1>3, <1>5, CommittedOnly, Zenon
<1> HIDE DEF d
<1>7. OnlyFork(inner, d.inner, id) /\ Keeps(journaled_state, d.js)
  BY <1>1, <1>3, <1>6, OnlyForkTwice, KeepsTwice DEF Linked
<1>8. /\ OnlyFork(inner, inner', id) /\ journaled_state' \in Journals
      /\ Keeps(journaled_state, journaled_state')
  BY <1>3, <1>4, <1>6, <1>7, Zenon
<1>9. FailureKept'
  BY <1>1, <1>4, <1>8, FailureHandedOn, Zenon DEF IInv
<1> QED BY <1>1, <1>2, <1>4, <1>8, <1>9, OneForkIInv, Zenon

\* A transaction of the chain is run on a fork.
LEMMA TransactIInv ==
  ASSUME IInv, NEW id \in LocalIds, transact(id)
  PROVE  IInv' /\ Keeps(journaled_state, journaled_state')
<1>1. /\ Types /\ Linked(inner) /\ journaled_state \in Journals /\ env \in Int
      /\ mem_db \in Dbs /\ caller \in Callers /\ Hevm \in persistent_accounts /\ ops \in Nat
  BY Zenon DEF IInv, Types
<1> DEFINE v == ops + 1
           d == CommittedOn(inner, journaled_state, id, v)
<1>2. v \in Int /\ id \in 1..Len(inner.forks)
  BY <1>1 DEF LocalIds, Linked
<1>3. /\ inner' = d.inner /\ journaled_state' = d.js
      /\ left' = [left EXCEPT ![id] = None]
      /\ UNCHANGED <<mem_db, active, fork_init_journaled_state, persistent_accounts,
                     env, caller, snapshots, has_snapshot_failure, failed>>
      /\ ops' \in Nat
  BY <1>1, StepOps, Zenon DEF transact
<1> HIDE DEF v
<1>4. OnlyFork(inner, d.inner, id) /\ d.js \in Journals /\ Keeps(journaled_state, d.js)
  BY <1>1, <1>2, CommittedOnly, Zenon
<1> HIDE DEF d
<1>5. FailureKept'
  BY <1>1, <1>3, <1>4, FailureHandedOn, Zenon DEF IInv
<1> QED BY <1>1, <1>3, <1>4, <1>5, OneForkIInv, Zenon

\* One more fork.
LEMMA AddForkIInv ==
  ASSUME IInv, Linked(inner'), Extends(inner, inner'), Len(inner.forks) < MaxForks,
         Len(inner'.forks) = Len(inner.forks) + 1,
         \A i \in 1..Len(inner.forks) : inner'.forks[i] = inner.forks[i], ops' \in Nat,
         UNCHANGED <<mem_db, active, journaled_state, fork_init_journaled_state,
                     persistent_accounts, env, caller, snapshots, has_snapshot_failure,
                     failed, left>>
  PROVE  IInv'
<1>1. /\ Linked(inner) /\ Len(inner.forks) \in Nat /\ MaxForks \in Nat
      /\ active \in 1..Len(inner.forks) \cup {None}
  BY ConstantsAssumption, SMTT(60) DEF IInv, Types, Linked
<1>2. Len(inner'.forks) <= MaxForks /\ active' \in 1..Len(inner'.forks) \cup {None}
  BY <1>1, SMTT(40)
<1>3. Types'
  BY <1>2, Zenon DEF IInv, Types
<1>4. SnapshotsHold'
  <2>1. Existing' = Existing
    BY Zenon DEF Existing
  <2> QED BY <1>1, <2>1, SnapshotsExtend, Zenon DEF IInv
<1>5. ASSUME NEW i \in 1..MaxForks, i <= Len(inner.forks)
      PROVE  inner'.forks[i] = inner.forks[i]
  BY <1>1, <1>5
<1>6. AsLeft'
  BY <1>1, <1>5, LeftAlone, Zenon DEF IInv
<1>7. FailureKept'
  BY Zenon DEF IInv, FailureKept, is_global_failure
<1> QED BY <1>3, <1>4, <1>6, <1>7, Zenon DEF IInv

\* A fork is created.
LEMMA CreateIInv ==
  ASSUME IInv, NEW n \in Blocks, create_fork(n)
  PROVE  IInv'
<1>1. Types /\ Linked(inner) /\ fork_init_journaled_state \in Journals /\ n \in Int
  BY ConstantsAssumption DEF IInv, Types, Blocks
<1>2. /\ inner' = insert_new_fork(inner, n, fork_init_journaled_state)
      /\ Len(inner.forks) < MaxForks
      /\ UNCHANGED <<mem_db, active, journaled_state, fork_init_journaled_state,
                     persistent_accounts, env, caller, snapshots, has_snapshot_failure,
                     failed, left>>
      /\ ops' \in Nat
  BY <1>1, StepOps, Zenon DEF create_fork
<1>3. /\ Linked(inner') /\ Extends(inner, inner')
      /\ Len(inner'.forks) = Len(inner.forks) + 1
      /\ \A i \in 1..Len(inner.forks) : inner'.forks[i] = inner.forks[i]
  BY <1>1, <1>2, InsertLinked, Zenon
<1> QED BY <1>2, <1>3, AddForkIInv, Zenon

\* A fork is created at a transaction, and those before it are replayed.
LEMMA CreateAtTransactionIInv ==
  ASSUME IInv, NEW tx \in Transactions, create_fork_at_transaction(tx)
  PROVE  IInv'
<1>1. /\ Types /\ Linked(inner) /\ fork_init_journaled_state \in Journals
      /\ ops \in Nat /\ NewJournal \in Journals /\ Len(inner.forks) \in Nat
  BY NewJournalJournal, SMTT(60) DEF IInv, Types, Linked
<1> DEFINE n == tx[1]
           v == ops + 1
           id == Len(inner.issued_local_fork_ids) + 1
           m == n + 1
           in1 == insert_new_fork(inner, m, fork_init_journaled_state)
           r == Rolled(in1, NewJournal, m, id, n)
           d == CommittedOn(r.inner, NewJournal, id, v)
<1>2. n \in Int /\ m \in Int /\ v \in Int /\ id = Len(inner.forks) + 1
  BY <1>1, ConstantsAssumption DEF Linked
<1>3. /\ inner' = IF tx[2] THEN d.inner ELSE r.inner
      /\ Len(inner.forks) < MaxForks
      /\ UNCHANGED <<mem_db, active, journaled_state, fork_init_journaled_state,
                     persistent_accounts, env, caller, snapshots, has_snapshot_failure,
                     failed, left>>
      /\ ops' \in Nat
  BY <1>1, StepOps, Zenon DEF create_fork_at_transaction
<1> HIDE DEF n, m, v, id
<1>4. /\ Linked(in1) /\ Extends(inner, in1) /\ Len(in1.forks) = id
      /\ \A i \in 1..Len(inner.forks) : in1.forks[i] = inner.forks[i]
  BY <1>1, <1>2, InsertLinked, Zenon
<1> HIDE DEF in1
<1>5. id \in 1..Len(in1.forks)
  BY <1>1, <1>2, <1>4
<1>6. OnlyFork(in1, r.inner, id)
  BY <1>1, <1>2, <1>4, <1>5, RolledOnly, Zenon
<1> HIDE DEF r
<1>7. OnlyFork(r.inner, d.inner, id)
  <2>1. Linked(r.inner) /\ id \in 1..Len(r.inner.forks)
    BY <1>5, <1>6, Zenon DEF OnlyFork
  <2> QED BY <1>1, <1>2, <2>1, CommittedOnly, Zenon
<1> HIDE DEF d
<1>8. OnlyFork(in1, d.inner, id)
  BY <1>4, <1>6, <1>7, OnlyForkTwice, Zenon DEF Linked
<1>9. OnlyFork(in1, inner', id)
  BY <1>3, <1>6, <1>8, Zenon
<1>10. /\ Linked(inner') /\ Extends(in1, inner') /\ Len(inner'.forks) = Len(inner.forks) + 1
       /\ \A i \in 1..Len(in1.forks) : i # id => inner'.forks[i] = in1.forks[i]
  BY <1>2, <1>4, <1>9, Zenon DEF OnlyFork
<1>11. \A i \in 1..Len(inner.forks) : inner'.forks[i] = inner.forks[i]
  BY <1>1, <1>2, <1>4, <1>10
<1>12. Len(inner.forks) <= Len(inner'.forks)
  BY <1>1, <1>10
<1>13. Extends(inner, inner')
  BY <1>4, <1>10, <1>12, Zenon DEF Extends
<1> QED BY <1>3, <1>10, <1>11, <1>13, AddForkIInv, Zenon

\* The forks once the active one was left: they read the same blocks, and the one
\* that was active has the journal.
LEMMA LeaveForks ==
  ASSUME Types
  PROVE  LET fs == leave_fork(journaled_state)
         IN  /\ fs \in Seq(Forks) /\ Len(fs) = Len(inner.forks)
             /\ \A i \in 1..Len(inner.forks) : fs[i].db.reads = inner.forks[i].db.reads
             /\ active # None =>
                  /\ fs[active].journaled_state = journaled_state
                  /\ fs[active].db = inner.forks[active].db
                  /\ \A i \in 1..Len(inner.forks) : i # active => fs[i] = inner.forks[i]
<1> DEFINE fs == leave_fork(journaled_state)
<1>1. inner.forks \in Seq(Forks) /\ journaled_state \in Journals /\ Len(inner.forks) \in Nat
  BY DEF Types, Linked
<1>2. \A i \in 1..Len(inner.forks) : inner.forks[i] \in Forks
  BY <1>1
<1>3. CASE active = None
  <2>1. fs = [i \in 1..Len(inner.forks) |->
                prepare_init_journal_state(journaled_state, inner.forks[i])]
    BY <1>1, <1>3 DEF leave_fork
  <2> HIDE DEF fs
  <2>2. ASSUME NEW i \in 1..Len(inner.forks)
        PROVE  /\ prepare_init_journal_state(journaled_state, inner.forks[i]) \in Forks
               /\ prepare_init_journal_state(journaled_state, inner.forks[i]).db.reads
                    = inner.forks[i].db.reads
    BY <1>1, <1>2, PrepareFork, Zenon
  <2>3. fs \in [1..Len(inner.forks) -> Forks]
    BY <2>1, <2>2, Zenon
  <2>4. fs \in Seq(Forks) /\ Len(fs) = Len(inner.forks)
    BY <1>1, <2>3
  <2>5. \A i \in 1..Len(inner.forks) : fs[i].db.reads = inner.forks[i].db.reads
    BY <2>1, <2>2, Zenon
  <2> QED BY <1>3, <2>4, <2>5, Zenon DEF fs
<1>4. CASE active # None
  <2> DEFINE f == Fork(inner.forks[active].db, journaled_state)
  <2>1. active \in 1..Len(inner.forks) /\ Index(inner, active) = active
    BY <1>4, ActiveDb, Zenon
  <2>2. /\ f \in Forks /\ f.db = inner.forks[active].db /\ f.journaled_state = journaled_state
    BY <1>1, <1>2, <2>1, Fields, Constructors
  <2>3. fs = [inner.forks EXCEPT ![active] = f]
    BY <1>4, <2>1, Zenon DEF leave_fork
  <2> HIDE DEF fs, f
  <2>4. /\ fs \in Seq(Forks) /\ Len(fs) = Len(inner.forks) /\ fs[active] = f
        /\ \A i \in 1..Len(inner.forks) : i # active => fs[i] = inner.forks[i]
    BY <1>1, <2>1, <2>2, <2>3
  <2>5. \A i \in 1..Len(inner.forks) : fs[i].db.reads = inner.forks[i].db.reads
    BY <2>1, <2>2, <2>4, Zenon
  <2> QED BY <2>2, <2>4, <2>5, Zenon DEF fs
<1> QED BY <1>3, <1>4, Zenon

\* The fork that is selected: it reads the same block, its journal holds the sender
\* and what the journal left hands on.
LEMMA SelectedFork ==
  ASSUME Types, NEW target \in Forks
  PROVE  LET fork == update_fork_db(journaled_state,
                       ensure_caller(journaled_state,
                         Fork(target.db, Journal(journaled_state.depth,
                                                 target.journaled_state.state))))
         IN  /\ fork \in Forks /\ fork.journaled_state \in Journals
             /\ fork.db.reads = target.db.reads
             /\ fork.journaled_state.state[caller] # None
             /\ Keeps(journaled_state, fork.journaled_state)
<1> DEFINE j == Journal(journaled_state.depth, target.journaled_state.state)
           start == Fork(target.db, j)
           ensured == ensure_caller(journaled_state, start)
           fork == update_fork_db(journaled_state, ensured)
<1>1. journaled_state \in Journals /\ caller \in Accounts /\ active_db \in Dbs
  BY ActiveDb, NamedAccounts, Zenon DEF Types
<1>2. j \in Journals
  BY <1>1, Fields, Constructors, Zenon
<1>3. start \in Forks /\ start.db.reads = target.db.reads
  BY <1>2, Fields, Constructors
<1> HIDE DEF start
<1>4. /\ ensured \in Forks /\ ensured.db.reads = target.db.reads
      /\ ensured.journaled_state.state[caller] # None
  BY <1>1, <1>3, EnsureCallerFork, Zenon
<1> HIDE DEF ensured
<1>5. /\ fork \in Forks
      /\ fork.db.reads = target.db.reads
      /\ \A a \in Accounts : fork.journaled_state.state[a] =
           IF a \in persistent_accounts /\ journaled_state.state[a] # None
           THEN journaled_state.state[a] ELSE ensured.journaled_state.state[a]
  BY <1>1, <1>4, UpdateFork, Zenon
<1> HIDE DEF fork
<1>6. fork.journaled_state.state[caller] # None
  BY <1>1, <1>4, <1>5, Zenon
<1>7. Keeps(journaled_state, fork.journaled_state)
  BY <1>5, <1>6, Zenon DEF Keeps
<1>8. fork.journaled_state \in Journals
  BY <1>5, Fields, Zenon
<1> QED BY <1>5, <1>6, <1>7, <1>8, Zenon DEF fork, ensured, start

\* Another fork is selected.
LEMMA SelectIInv ==
  ASSUME IInv, NEW id \in LocalIds, select_fork(id)
  PROVE  /\ IInv' /\ Keeps(journaled_state, journaled_state')
         /\ journaled_state'.state[caller'] # None
<1>1. /\ Types /\ Linked(inner) /\ journaled_state \in Journals /\ caller \in Accounts
      /\ fork_init_journaled_state \in Journals /\ Len(inner.forks) \in Nat
      /\ Len(inner.forks) <= MaxForks /\ MaxForks \in Nat
      /\ left \in [1..MaxForks -> Int \cup {None}] /\ Hevm \in persistent_accounts
  <2>1. inner.forks \in Seq(Forks)
    BY Zenon DEF IInv, Types, Linked
  <2>2. Len(inner.forks) \in Nat
    BY <2>1
  <2> QED BY <2>2, NamedAccounts, ConstantsAssumption, Zenon DEF IInv, Types
<1>2. /\ id \in 1..Len(inner.forks) /\ Index(inner, id) = id
      /\ inner.issued_local_fork_ids[id].block \in Int
  <2>1. id \in 1..Len(inner.forks)
    BY <1>1 DEF LocalIds, Linked
  <2>2. inner.issued_local_fork_ids[id] \in ForkIds /\ Index(inner, id) = id
    BY <1>1, <2>1, IndexIsId, Zenon
  <2> QED BY <2>1, <2>2, Zenon DEF ForkIds
<1> DEFINE forks == leave_fork(journaled_state)
           target == IF active = None THEN forks[id] ELSE init_caller(journaled_state, forks[id])
           fork == update_fork_db(journaled_state,
                     ensure_caller(journaled_state,
                       Fork(target.db, Journal(journaled_state.depth,
                                               target.journaled_state.state))))
           fs == [forks EXCEPT ![id] = fork]
           initial == IF active = None THEN Journal(0, journaled_state.state)
                      ELSE fork_init_journaled_state
           leaving(i) == IF i = id THEN None
                         ELSE IF i = active /\ Token \notin persistent_accounts
                         THEN Visible(Token) ELSE left[i]
<1>3. /\ inner' = WithForks(inner, fs) /\ journaled_state' = fork.journaled_state
      /\ fork_init_journaled_state' = initial
      /\ active' = id /\ env' = inner.issued_local_fork_ids[id].block
      /\ left' = [i \in 1..MaxForks |-> leaving(i)]
      /\ UNCHANGED <<mem_db, persistent_accounts, caller, snapshots,
                     has_snapshot_failure, failed>>
      /\ ops' \in Nat
  BY <1>1, <1>2, StepOps, Zenon DEF select_fork
<1>4. /\ forks \in Seq(Forks) /\ Len(forks) = Len(inner.forks)
      /\ \A i \in 1..Len(inner.forks) : forks[i].db.reads = inner.forks[i].db.reads
      /\ active # None =>
           /\ forks[active].journaled_state = journaled_state
           /\ forks[active].db = inner.forks[active].db
           /\ \A i \in 1..Len(inner.forks) : i # active => forks[i] = inner.forks[i]
  BY <1>1, LeaveForks, Zenon
<1> HIDE DEF forks
<1>5. forks[id] \in Forks
  BY <1>2, <1>4
<1>6. target \in Forks /\ target.db.reads = inner.forks[id].db.reads
  BY <1>1, <1>2, <1>4, <1>5, InitCallerFork, Zenon
<1> HIDE DEF target
<1>7. /\ fork \in Forks /\ fork.journaled_state \in Journals
      /\ fork.db.reads = inner.forks[id].db.reads
      /\ fork.journaled_state.state[caller] # None
      /\ Keeps(journaled_state, fork.journaled_state)
  BY <1>1, <1>6, SelectedFork, Zenon
<1> HIDE DEF fork
<1>8. /\ fs \in Seq(Forks) /\ Len(fs) = Len(inner.forks) /\ fs[id] = fork
      /\ \A i \in 1..Len(inner.forks) : i # id => fs[i] = forks[i]
  BY <1>2, <1>4, <1>7, SMTT(40)
<1> HIDE DEF fs
<1>9. \A i \in 1..Len(fs) : fs[i].db.reads = inner.forks[i].db.reads
  BY <1>4, <1>7, <1>8, Zenon
<1>10. Linked(inner') /\ Extends(inner, inner') /\ inner'.forks = fs
  BY <1>1, <1>3, <1>8, <1>9, WithForksLinked, Zenon
<1>11. initial \in Journals
  BY <1>1, Fields, Constructors
<1> HIDE DEF initial
<1>12. Visible(Token) \in Int /\ (active # None => Visible(Token) =
                Seen(forks[active].journaled_state, forks[active].db, Token))
  BY <1>1, <1>4, ActiveDb, SeenInt, NamedAccounts, Zenon DEF Visible
<1>13. ASSUME NEW i \in 1..MaxForks
       PROVE  /\ leaving(i) \in Int \cup {None}
              /\ leaving(i) # None =>
                   i # id /\ ((i = active /\ leaving(i) = Visible(Token)) \/ leaving(i) = left[i])
  <2>1. left[i] \in Int \cup {None}
    BY <1>1, Zenon
  <2> QED BY <1>12, <2>1, Zenon
<1> HIDE DEF leaving
<1>14. left' \in [1..MaxForks -> Int \cup {None}]
  BY <1>3, <1>13, Zenon
<1>15. Types'
  <2>1. active' \in 1..Len(inner'.forks) \cup {None} /\ Len(inner'.forks) <= MaxForks
    BY <1>1, <1>2, <1>3, <1>8, <1>10, Zenon
  <2>2. env' \in Int /\ journaled_state' \in Journals /\ fork_init_journaled_state' \in Journals
    BY <1>2, <1>3, <1>7, <1>11, Zenon
  <2> QED BY <1>1, <1>3, <1>10, <1>14, <2>1, <2>2, Zenon DEF Types
<1>16. SnapshotsHold'
  <2>1. Existing' = Existing /\ snapshots' = snapshots
    BY <1>3, Zenon DEF Existing
  <2> QED BY <1>1, <1>10, <2>1, SnapshotsExtend, Zenon DEF IInv
<1>17. ASSUME NEW i \in 1..MaxForks, left'[i] # None
       PROVE  /\ active' # None /\ i # active' /\ i <= Len(inner'.forks)
              /\ Seen(inner'.forks[i].journaled_state, inner'.forks[i].db, Token) = left'[i]
  <2>1. /\ left'[i] = leaving(i) /\ i # id
        /\ (i = active /\ left'[i] = Visible(Token)) \/ left'[i] = left[i]
    BY <1>3, <1>13, <1>17, Zenon
  <2>2. active' # None /\ i # active'
    BY <1>2, <1>3, <2>1, NoneIsNothing, SMTT(40)
  <2>3. CASE i = active /\ left'[i] = Visible(Token)
    <3>1. active # None /\ i \in 1..Len(inner.forks)
      BY <1>1, <2>3, NoneIsNothing, ActiveDb
    <3>2. inner'.forks[i] = forks[i]
      BY <1>8, <1>10, <2>1, <3>1, Zenon
    <3>3. i <= Len(inner'.forks)
      BY <1>8, <1>10, <3>1
    <3> QED BY <1>12, <2>2, <2>3, <3>1, <3>2, <3>3, Zenon
  <2>4. CASE left'[i] = left[i]
    <3>1. /\ active # None /\ i # active /\ i <= Len(inner.forks)
          /\ Seen(inner.forks[i].journaled_state, inner.forks[i].db, Token) = left[i]
      BY <1>17, <2>4, Zenon DEF IInv, AsLeft
    <3>2. i \in 1..Len(inner.forks) /\ i <= Len(inner'.forks)
      BY <1>1, <1>8, <1>10, <3>1, SMTT(40)
    <3>3. inner'.forks[i] = inner.forks[i]
      BY <1>4, <1>8, <1>10, <2>1, <3>1, <3>2, Zenon
    <3> QED BY <2>2, <2>4, <3>1, <3>2, <3>3, Zenon
  <2> QED BY <2>1, <2>3, <2>4, Zenon
<1>18. AsLeft'
  BY <1>17, Zenon DEF AsLeft, Seen, basic, remote
<1>19. Keeps(journaled_state, journaled_state') /\ journaled_state'.state[caller'] # None
  BY <1>3, <1>7, Zenon
<1>20. FailureKept'
  BY <1>1, <1>3, <1>19, FailureHandedOn, Zenon DEF IInv
<1> QED BY <1>15, <1>16, <1>18, <1>19, <1>20, Zenon DEF IInv

\* An account is made persistent, or no longer is.
LEMMA PersistentIInv ==
  ASSUME IInv, NEW on \in BOOLEAN, SetPersistent(on)
  PROVE  IInv'
<1>1. Types /\ Hevm \in persistent_accounts /\ Linked(inner)
  BY Zenon DEF IInv, Types
<1>2. /\ persistent_accounts' = IF on THEN persistent_accounts \cup {Token}
                                ELSE persistent_accounts \ {Token}
      /\ left' = [i \in 1..MaxForks |-> None]
      /\ UNCHANGED <<mem_db, inner, active, journaled_state, fork_init_journaled_state,
                     env, caller, snapshots, has_snapshot_failure, failed>>
      /\ ops' \in Nat
  BY <1>1, StepOps, Zenon DEF SetPersistent
<1>3. Hevm \in persistent_accounts'
  BY <1>1, <1>2, NamedAccounts, Zenon
<1>4. left' \in [1..MaxForks -> Int \cup {None}]
  BY <1>2, Zenon
<1>5. Types'
  BY <1>1, <1>2, <1>3, <1>4, Zenon DEF Types
<1>6. SnapshotsHold'
  <2>1. Existing' = Existing
    BY <1>2, Zenon DEF Existing
  <2> QED BY <1>2, <2>1, ZenonT(60) DEF IInv, SnapshotsHold, Faithful, Seen, basic, remote
<1>7. AsLeft'
  BY <1>2, Zenon DEF AsLeft
<1>8. FailureKept'
  BY <1>2, Zenon DEF IInv, FailureKept, is_global_failure
<1> QED BY <1>5, <1>6, <1>7, <1>8, Zenon DEF IInv

\* A snapshot is taken.
LEMMA SnapshotIInv ==
  ASSUME IInv, snapshot
  PROVE  IInv'
<1>1. /\ Types /\ Linked(inner) /\ journaled_state \in Journals /\ mem_db \in Dbs /\ env \in Int
      /\ active \in 1..Len(inner.forks) \cup {None}
      /\ snapshots \in Seq(SnapshotSet \cup {None})
  BY Zenon DEF IInv, Types
<1> DEFINE fid == IF active = None THEN None ELSE inner.issued_local_fork_ids[active]
           index == IF active = None THEN None ELSE Index(inner, active)
           fork == IF active = None THEN None ELSE ForkOf(inner, active)
           token == Visible(Token)
           snap == [id |-> active, journaled_state |-> journaled_state, env |-> env,
                    mem_db |-> mem_db, token |-> token, fork_id |-> fid, idx |-> index,
                    fork |-> fork]
<1>2. /\ snapshots' = Append(snapshots, snap)
      /\ UNCHANGED <<mem_db, inner, active, journaled_state, fork_init_journaled_state,
                     persistent_accounts, env, caller, has_snapshot_failure, failed, left>>
      /\ ops' \in Nat
  BY <1>1, StepOps, Zenon DEF snapshot
<1>3. /\ active # None =>
           /\ active \in 1..Len(inner.forks)
           /\ fid = inner.issued_local_fork_ids[active] /\ fid \in ForkIds
           /\ index = active /\ fork = inner.forks[active] /\ fork \in Forks
           /\ active_db = fork.db
      /\ active = None => fid = None /\ index = None /\ fork = None /\ active_db = mem_db
  BY <1>1, ActiveDb, IndexIsId, Zenon DEF active_db
<1>4. token = Seen(journaled_state, active_db, Token) /\ token \in Int
  BY <1>1, ActiveDb, SeenInt, NamedAccounts, Zenon DEF Visible
<1>5. /\ active # None => /\ fid \in DOMAIN inner.created_forks
                          /\ inner.created_forks[fid] = active
                          /\ fork.db.reads = fid.block
  BY <1>1, <1>3, Zenon DEF Linked
<1> HIDE DEF fid, index, fork, token
<1>6. /\ snap.id = active /\ snap.journaled_state = journaled_state /\ snap.mem_db = mem_db
      /\ snap.token = token /\ snap.fork_id = fid /\ snap.idx = index /\ snap.fork = fork
  OBVIOUS
<1>7. snap \in SnapshotSet
  <2>1. active \in Int \cup {None} /\ fid \in ForkIds \cup {None}
        /\ index \in Int \cup {None} /\ fork \in Forks \cup {None}
    BY <1>1, <1>3
  <2> QED BY <1>1, <1>4, <2>1, Zenon DEF SnapshotSet
<1> HIDE DEF snap
<1>8. Faithful(snap, inner)
  <2>1. CASE active = None
    BY <1>3, <1>4, <1>6, <2>1, Zenon DEF Faithful
  <2>2. CASE active # None
    BY <1>3, <1>4, <1>5, <1>6, <2>2, Zenon DEF Faithful
  <2> QED BY <2>1, <2>2, Zenon
<1>9. /\ snapshots' \in Seq(SnapshotSet \cup {None})
      /\ \A s \in DOMAIN snapshots' :
           (s \in DOMAIN snapshots /\ snapshots'[s] = snapshots[s]) \/ snapshots'[s] = snap
  BY <1>1, <1>2, <1>7
<1>10. Types'
  BY <1>1, <1>2, <1>9, Zenon DEF Types
<1>11. SnapshotsHold'
  <2> SUFFICES ASSUME NEW s \in Existing' PROVE Faithful(snapshots[s], inner)'
    BY Zenon DEF SnapshotsHold
  <2>1. s \in DOMAIN snapshots' /\ snapshots'[s] # None
    BY Zenon DEF Existing
  <2>2. Faithful(snapshots'[s], inner)
    <3>1. CASE s \in DOMAIN snapshots /\ snapshots'[s] = snapshots[s]
      BY <2>1, <3>1, Zenon DEF IInv, SnapshotsHold, Existing
    <3>2. CASE snapshots'[s] = snap
      BY <1>8, <3>2, Zenon
    <3> QED BY <1>9, <2>1, <3>1, <3>2, Zenon
  <2> QED BY <1>2, <2>2, Zenon DEF Faithful, Seen, basic, remote
<1>12. AsLeft'
  BY <1>2, Zenon DEF IInv, AsLeft, Seen, basic, remote
<1>13. FailureKept'
  BY <1>2, Zenon DEF IInv, FailureKept, is_global_failure
<1> QED BY <1>10, <1>11, <1>12, <1>13, Zenon DEF IInv

\* Snapshots are deleted.
LEMMA DeleteIInv ==
  ASSUME IInv, NEW S, delete_snapshots(S)
  PROVE  IInv'
<1>1. Types /\ Linked(inner) /\ snapshots \in Seq(SnapshotSet \cup {None})
  BY Zenon DEF IInv, Types
<1>2. /\ snapshots' = [s \in DOMAIN snapshots |-> IF s \in S THEN None ELSE snapshots[s]]
      /\ UNCHANGED <<mem_db, inner, active, journaled_state, fork_init_journaled_state,
                     persistent_accounts, env, caller, has_snapshot_failure, failed, left>>
      /\ ops' \in Nat
  BY <1>1, StepOps, Zenon DEF delete_snapshots
<1>3. snapshots' \in Seq(SnapshotSet \cup {None})
  <2>1. Len(snapshots) \in Nat /\ DOMAIN snapshots = 1..Len(snapshots)
        /\ \A s \in DOMAIN snapshots : snapshots[s] \in SnapshotSet \cup {None}
    BY <1>1
  <2>2. snapshots' \in [1..Len(snapshots) -> SnapshotSet \cup {None}]
    BY <1>2, <2>1, Zenon
  <2> QED BY <2>1, <2>2
<1>4. Types'
  BY <1>1, <1>2, <1>3, Zenon DEF Types
<1>5. SnapshotsHold'
  <2>1. ASSUME NEW s \in Existing' PROVE s \in Existing /\ snapshots'[s] = snapshots[s]
    BY <1>2, Zenon DEF Existing
  <2>2. Extends(inner, inner')
    BY <1>1, <1>2, SMTT(40) DEF Extends, Linked
  <2> QED BY <1>1, <1>2, <2>1, <2>2, SnapshotsExtend, Zenon DEF IInv
<1>6. AsLeft'
  BY <1>2, Zenon DEF IInv, AsLeft, Seen, basic, remote
<1>7. FailureKept'
  BY <1>2, Zenon DEF IInv, FailureKept, is_global_failure
<1> QED BY <1>4, <1>5, <1>6, <1>7, Zenon DEF IInv

\* The fields of a snapshot.
LEMMA SnapshotFields ==
  \A snap \in SnapshotSet :
    /\ snap.id \in Int \cup {None} /\ snap.journaled_state \in Journals
    /\ snap.env \in Int /\ snap.mem_db \in Dbs
  BY Zenon DEF SnapshotSet

\* The fork a snapshot is gone back to, and the forks with it.
Restored(snap) == ensure_caller(journaled_state, Fork(snap.fork.db, snap.journaled_state))
WithRestored(snap) ==
  revert_snapshot(inner, snap.id, snap.fork_id, snap.idx,
                  Fork(Restored(snap).db, snap.fork.journaled_state))

\* It shows the value of the snapshot and has the sender; other forks stay.
LEMMA RestoredFork ==
  ASSUME Types, NEW snap \in SnapshotSet, Faithful(snap, inner), snap.id # None
  PROVE  /\ snap.id \in 1..Len(inner.forks)
         /\ OnlyFork(inner, WithRestored(snap), snap.id)
         /\ WithRestored(snap).forks[snap.id].db = Restored(snap).db
         /\ Restored(snap).journaled_state \in Journals
         /\ Restored(snap).journaled_state.state[caller] # None
         /\ Seen(Restored(snap).journaled_state, Restored(snap).db, Token) = snap.token
<1>a. PICK start : start = Fork(snap.fork.db, snap.journaled_state)
  BY Zenon
<1>b. PICK fork : fork = ensure_caller(journaled_state, start) /\ fork = Restored(snap)
  BY <1>a, Zenon DEF Restored
<1>c. PICK back : back = Fork(fork.db, snap.fork.journaled_state)
  BY Zenon
<1>d. PICK new : /\ new = revert_snapshot(inner, snap.id, snap.fork_id, snap.idx, back)
                 /\ new = WithRestored(snap)
  BY <1>b, <1>c, Zenon DEF WithRestored
<1>1. /\ Linked(inner) /\ journaled_state \in Journals /\ caller \in Accounts
      /\ Token \in Accounts \ {caller}
  BY NamedAccounts, Zenon DEF Types
<1>2. /\ snap.id \in 1..Len(inner.forks) /\ snap.idx = snap.id
      /\ snap.fork_id \in DOMAIN inner.created_forks
      /\ inner.created_forks[snap.fork_id] = snap.id
      /\ snap.fork \in Forks /\ snap.fork.db.reads = snap.fork_id.block
      /\ snap.token = Seen(snap.journaled_state, snap.fork.db, Token)
  BY Zenon DEF Faithful
<1>3. /\ snap.journaled_state \in Journals /\ snap.fork.db \in Dbs
      /\ snap.fork.journaled_state \in Journals
  BY <1>2, SnapshotFields, Fields, Zenon
<1>4. /\ start \in Forks /\ start.db = snap.fork.db
      /\ start.journaled_state = snap.journaled_state
  BY <1>3, <1>a, ForkFields, Zenon
<1>5. /\ fork \in Forks /\ fork.db.reads = start.db.reads
      /\ fork.journaled_state.state[caller] # None
      /\ Seen(fork.journaled_state, fork.db, Token) =
           Seen(start.journaled_state, start.db, Token)
  BY <1>1, <1>4, <1>b, EnsureCallerFork, ZenonT(60)
<1>6. fork.db \in Dbs /\ fork.journaled_state \in Journals
  BY <1>5, Fields, Zenon
<1>7. back \in Forks /\ back.db = fork.db
  BY <1>3, <1>6, <1>c, ForkFields, Zenon
<1>8. /\ back.db.reads = snap.fork_id.block
      /\ new = revert_snapshot(inner, snap.id, snap.fork_id, snap.id, back)
  BY <1>2, <1>4, <1>5, <1>7, <1>d, Zenon
<1>9. OnlyFork(inner, new, snap.id) /\ new.forks[snap.id] = back
  <2>1. PICK id, fid : id = snap.id /\ fid = snap.fork_id
    BY Zenon
  <2>2. /\ id \in 1..Len(inner.forks) /\ fid \in DOMAIN inner.created_forks
        /\ inner.created_forks[fid] = id /\ back.db.reads = fid.block
        /\ new = revert_snapshot(inner, id, fid, id, back)
    BY <1>2, <1>8, <2>1, Zenon
  <2>3. OnlyFork(inner, new, id) /\ new.forks[id] = back
    BY <1>1, <1>7, <2>2, RevertLinked, SMTT(60)
  <2> QED BY <2>1, <2>3, Zenon
<1> QED BY <1>2, <1>4, <1>5, <1>6, <1>7, <1>9, <1>b, <1>d, Zenon

\* A snapshot is gone back to: its fork, its block number and its value are back,
\* and the sender is in the journal of the fork.
LEMMA RevertIInv ==
  ASSUME IInv, NEW s \in Existing, NEW keep \in BOOLEAN, revert(s, keep)
  PROVE  /\ IInv'
         /\ env' = snapshots[s].env
         /\ snapshots[s].id # None \/ active = None =>
              active' = snapshots[s].id /\ Visible(Token)' = snapshots[s].token
         /\ snapshots[s].id # None => journaled_state'.state[caller'] # None
<1>1. PICK snap : snap = snapshots[s]
  OBVIOUS
<1>2. PICK fork : fork = Restored(snap)
  OBVIOUS
<1>3. /\ Types /\ Linked(inner) /\ left \in [1..MaxForks -> Int \cup {None}]
      /\ snapshots \in Seq(SnapshotSet \cup {None}) /\ Len(inner.forks) <= MaxForks
  BY Zenon DEF IInv, Types
<1>4. snap \in SnapshotSet /\ s \in DOMAIN snapshots /\ Faithful(snap, inner)
  BY <1>1, <1>3 DEF Existing, IInv, SnapshotsHold
<1>5. /\ snap.id \in Int \cup {None} /\ snap.journaled_state \in Journals
      /\ snap.env \in Int /\ snap.mem_db \in Dbs
  BY <1>4, SnapshotFields, Zenon
<1>6. /\ snapshots' = IF keep THEN snapshots ELSE [snapshots EXCEPT ![s] = None]
      /\ has_snapshot_failure' = (has_snapshot_failure \/ is_global_failure(journaled_state))
      /\ env' = snap.env
      /\ IF snap.id = None
         THEN /\ mem_db' = snap.mem_db /\ journaled_state' = snap.journaled_state
              /\ UNCHANGED <<inner, active, left>>
         ELSE /\ inner' = WithRestored(snap)
              /\ journaled_state' = fork.journaled_state
              /\ active' = snap.id /\ left' = [left EXCEPT ![snap.id] = None]
              /\ UNCHANGED mem_db
      /\ UNCHANGED <<fork_init_journaled_state, persistent_accounts, caller, failed>>
      /\ ops' \in Nat
  BY <1>1, <1>2, <1>3, StepOps, Zenon
     DEF revert, FailureAfterRevert, Restored, WithRestored
<1>7. snapshots' \in Seq(SnapshotSet \cup {None})
  BY <1>3, <1>4, <1>6, SMTT(60)
<1>8. ASSUME NEW t \in Existing' PROVE t \in Existing /\ snapshots'[t] = snapshots[t]
  BY <1>3, <1>4, <1>6, Zenon DEF Existing
<1>9. FailureKept'
  BY <1>6, Zenon DEF IInv, FailureKept
<1>10. CASE snap.id = None
  <2>1. /\ mem_db' = snap.mem_db /\ journaled_state' = snap.journaled_state
        /\ UNCHANGED <<inner, active, left>>
    BY <1>6, <1>10, Zenon
  <2>2. Types'
    BY <1>3, <1>5, <1>6, <1>7, <2>1, Zenon DEF Types
  <2>3. SnapshotsHold'
    <3>1. Extends(inner, inner')
      BY <1>3, <2>1, SMTT(40) DEF Extends, Linked
    <3> QED BY <1>3, <1>8, <2>1, <3>1, SnapshotsExtend, Zenon DEF IInv
  <2>4. AsLeft'
    BY <2>1, Zenon DEF IInv, AsLeft, Seen, basic, remote
  <2>5. snap.token = Seen(snap.journaled_state, snap.mem_db, Token)
    BY <1>4, <1>10, Zenon DEF Faithful
  <2>6. active = None => active' = snap.id /\ Visible(Token)' = snap.token
    BY <1>10, <2>1, <2>5, Zenon DEF Visible, active_db, Seen, basic, remote
  <2> QED BY <1>1, <1>6, <1>9, <1>10, <2>2, <2>3, <2>4, <2>6, Zenon DEF IInv
<1>11. CASE snap.id # None
  <2>1. /\ inner' = WithRestored(snap)
        /\ journaled_state' = fork.journaled_state
        /\ active' = snap.id /\ left' = [left EXCEPT ![snap.id] = None]
        /\ mem_db' = mem_db
    BY <1>6, <1>11, Zenon
  <2>2. /\ snap.id \in 1..Len(inner.forks)
        /\ OnlyFork(inner, inner', snap.id) /\ inner'.forks[snap.id].db = fork.db
        /\ fork.journaled_state \in Journals
        /\ fork.journaled_state.state[caller] # None
        /\ Seen(fork.journaled_state, fork.db, Token) = snap.token
    BY <1>2, <1>3, <1>4, <1>11, <2>1, RestoredFork, Zenon
  <2>3. /\ Linked(inner') /\ Extends(inner, inner') /\ Len(inner'.forks) = Len(inner.forks)
        /\ snap.id \in 1..Len(inner'.forks)
    BY <2>2, Zenon DEF OnlyFork
  <2>4. Types'
    <3>1. left' \in [1..MaxForks -> Int \cup {None}]
      BY <1>3, <2>1, Zenon
    <3>2. env' \in Int /\ journaled_state' \in Journals /\ active' \in 1..Len(inner'.forks) \cup {None}
      BY <1>5, <1>6, <2>1, <2>2, <2>3, Zenon
    <3> QED BY <1>3, <1>6, <1>7, <2>1, <2>3, <3>1, <3>2, Zenon DEF Types
  <2>5. SnapshotsHold'
    BY <1>3, <1>8, <2>3, SnapshotsExtend, Zenon DEF IInv
  <2>6. ASSUME NEW i \in 1..MaxForks, left'[i] # None
        PROVE  /\ active' # None /\ i # active' /\ i <= Len(inner'.forks)
               /\ Seen(inner'.forks[i].journaled_state, inner'.forks[i].db, Token) = left'[i]
    <3>1. i # snap.id /\ left'[i] = left[i]
      BY <1>3, <2>1, <2>6, Zenon
    <3>2. /\ i <= Len(inner.forks)
          /\ Seen(inner.forks[i].journaled_state, inner.forks[i].db, Token) = left[i]
      BY <2>6, <3>1, Zenon DEF IInv, AsLeft
    <3>3. inner'.forks[i] = inner.forks[i]
      <4>1. i \in 1..Len(inner.forks)
        BY <3>2
      <4> QED BY <2>2, <3>1, <4>1, Zenon DEF OnlyFork
    <3> QED BY <1>11, <2>1, <2>3, <3>1, <3>2, <3>3, Zenon
  <2>7. AsLeft'
    BY <2>6, Zenon DEF AsLeft, Seen, basic, remote
  <2>8. Visible(Token)' = snap.token
    <3>1. ForkOf(inner', active') = inner'.forks[snap.id] /\ active' # None
      BY <1>11, <2>1, <2>3, IndexIsId, Zenon
    <3>2. (active_db)' = fork.db
      BY <2>2, <3>1, Zenon DEF active_db, ForkOf, Index
    <3> QED BY <2>1, <2>2, <3>2, Zenon DEF Visible, Seen, basic, remote
  <2>9. journaled_state'.state[caller'] # None
    BY <1>6, <2>1, <2>2, Zenon
  <2> QED BY <1>1, <1>6, <1>9, <2>1, <2>4, <2>5, <2>7, <2>8, <2>9, Zenon DEF IInv
<1> QED BY <1>10, <1>11, Zenon

\* Every step keeps the invariant.
LEMMA NextIInv ==
  ASSUME IInv, [Next]_vars
  PROVE  IInv'
<1>1. CASE Load
  BY <1>1, LoadIInv, Zenon
<1>2. ASSUME NEW created \in BOOLEAN, Write(created) PROVE IInv'
  BY <1>2, WriteIInv, Zenon
<1>3. CASE Fail
  BY <1>3, FailIInv, Zenon
<1>4. ASSUME NEW c \in Callers, Commit(c) PROVE IInv'
  BY <1>4, CommitIInv, Zenon
<1>5. ASSUME NEW n \in Blocks, create_fork(n) PROVE IInv'
  BY <1>5, CreateIInv, Zenon
<1>6. ASSUME NEW tx \in Transactions, create_fork_at_transaction(tx) PROVE IInv'
  BY <1>6, CreateAtTransactionIInv, Zenon
<1>7. ASSUME NEW id \in LocalIds, select_fork(id) PROVE IInv'
  BY <1>7, SelectIInv, Zenon
<1>8. ASSUME NEW id \in LocalIds, NEW n \in Blocks, roll_fork(id, n) PROVE IInv'
  BY <1>8, RollIInv, Zenon
<1>9. ASSUME NEW id \in LocalIds, NEW tx \in Transactions, roll_fork_to_transaction(id, tx)
      PROVE  IInv'
  BY <1>9, RollToTransactionIInv, Zenon
<1>10. ASSUME NEW id \in LocalIds, transact(id) PROVE IInv'
  BY <1>10, TransactIInv, Zenon
<1>11. ASSUME NEW on \in BOOLEAN, SetPersistent(on) PROVE IInv'
  BY <1>11, PersistentIInv, Zenon
<1>12. CASE snapshot
  BY <1>12, SnapshotIInv, Zenon
<1>13. ASSUME NEW s \in Existing, NEW keep \in BOOLEAN, revert(s, keep) PROVE IInv'
  BY <1>13, RevertIInv, Zenon
<1>14. ASSUME NEW S, delete_snapshots(S) PROVE IInv'
  BY <1>14, DeleteIInv, Zenon
<1>15. CASE UNCHANGED vars
  <2>1. Types'
    BY <1>15, Zenon DEF vars, IInv, Types
  <2>2. SnapshotsHold'
    BY <1>15, ZenonT(60) DEF vars, IInv, SnapshotsHold, Existing, Faithful, Seen, basic, remote
  <2>3. AsLeft' /\ FailureKept'
    BY <1>15, Zenon DEF vars, IInv, AsLeft, FailureKept, is_global_failure, Seen, basic, remote
  <2> QED BY <2>1, <2>2, <2>3, Zenon DEF IInv
<1> QED
  BY <1>1, <1>2, <1>3, <1>4, <1>5, <1>6, <1>7, <1>8, <1>9, <1>10, <1>11, <1>12, <1>13,
     <1>14, <1>15, Zenon DEF Next

\* The invariant holds throughout.
LEMMA AlwaysIInv == Spec => []IInv
<1>1. IInv /\ [Next]_vars => IInv'
  BY NextIInv, Zenon
<1> QED BY <1>1, InitIInv, PTL DEF Spec

-----------------------------------------------------------------------------
(* The theorems. *)

\* The verdict of a test never loses a failed assertion, however its forks are
\* selected and rolled and its snapshots reverted: the cheatcode account, which holds
\* the flag, is persistent, and a revert notes it before the journal is replaced.
THEOREM FailureNeverLost == Spec => []FailureKept
<1>1. IInv => FailureKept
  BY Zenon DEF IInv
<1> QED BY <1>1, AlwaysIInv, PTL

\* Forks never share a database, read the block their fork id names, and keep what
\* they were left with, for any number of forks, rolls, selections and snapshots.
THEOREM ForksSeparate == Spec => []Separate
<1>1. ASSUME IInv PROVE Separate
  <2>1. /\ Linked(inner) /\ LocalIds = 1..Len(inner.forks) /\ Len(inner.forks) <= MaxForks
        /\ active \in 1..Len(inner.forks) \cup {None} /\ MaxForks \in Nat
        /\ Len(inner.forks) \in Nat
    BY <1>1, ConstantsAssumption, SMTT(60) DEF IInv, Types, Linked, LocalIds
  <2>2. ASSUME NEW id \in LocalIds
        PROVE  /\ Index(inner, id) = id /\ ForkOf(inner, id) = inner.forks[id]
               /\ ForkOf(inner, id).db.reads = inner.issued_local_fork_ids[id].block
    BY <2>1, IndexIsId, Zenon DEF Linked
  <2>3. Mapped
    BY <2>1, <2>2, Zenon DEF Mapped
  <2>4. ASSUME NEW id \in LocalIds \ {active}, left[id] # None
        PROVE  Seen(ForkOf(inner, id).journaled_state, ForkOf(inner, id).db, Token) = left[id]
    <3>1. id \in 1..MaxForks
      BY <2>1, SMTT(40)
    <3>2. Seen(inner.forks[id].journaled_state, inner.forks[id].db, Token) = left[id]
      BY <1>1, <2>4, <3>1, Zenon DEF IInv, AsLeft
    <3> QED BY <2>2, <3>2, Zenon
  <2> QED BY <2>3, <2>4, Zenon DEF Separate
<1> QED BY <1>1, AlwaysIInv, PTL

\* What a step is known by.
LEMMA LastStep ==
  ASSUME [Next]_vars
  PROVE  \/ last'[1] = "other" \/ UNCHANGED vars
         \/ \E id \in LocalIds : select_fork(id) /\ last'[1] = "select"
         \/ \E id \in LocalIds, n \in Blocks : roll_fork(id, n) /\ last'[1] = "roll"
         \/ \E id \in LocalIds, tx \in Transactions :
              roll_fork_to_transaction(id, tx) /\ last'[1] = "roll"
         \/ \E id \in LocalIds : transact(id) /\ last'[1] = "transact"
         \/ \E s \in Existing, keep \in BOOLEAN : revert(s, keep) /\ last' = <<"revert", s>>
<1>1. ASSUME NEW what, NEW s, Step(what, s) PROVE last' = <<what, s>> /\ last'[1] = what
  BY <1>1, Zenon DEF Step
<1>2. ASSUME NEW id \in LocalIds PROVE
        /\ select_fork(id) => last'[1] = "select"
        /\ \A n \in Blocks : roll_fork(id, n) => last'[1] = "roll"
        /\ \A tx \in Transactions : roll_fork_to_transaction(id, tx) => last'[1] = "roll"
        /\ transact(id) => last'[1] = "transact"
  BY <1>1, Zenon DEF select_fork, roll_fork, roll_fork_to_transaction, transact
<1>3. \A s, keep : revert(s, keep) => last' = <<"revert", s>>
  BY <1>1, Zenon DEF revert
<1>4. /\ Load \/ Fail \/ snapshot => last'[1] = "other"
      /\ \A x : Write(x) \/ Commit(x) \/ create_fork(x) => last'[1] = "other"
  BY <1>1, Zenon DEF Load, Fail, snapshot, Write, Commit, create_fork
<1>5. /\ \A x : create_fork_at_transaction(x) => last'[1] = "other"
      /\ \A x : SetPersistent(x) \/ delete_snapshots(x) => last'[1] = "other"
  BY <1>1, Zenon DEF create_fork_at_transaction, SetPersistent, delete_snapshots
<1> QED BY <1>2, <1>3, <1>4, <1>5, Zenon DEF Next

\* Going back to a snapshot brings back its fork, its block number and its values.
THEOREM SnapshotsRestored == Spec => RevertRestores
<1>1. ASSUME IInv, [Next]_vars
      PROVE  [\A s \in Existing :
                (last' = <<"revert", s>> /\ (snapshots[s].id # None \/ active = None)) =>
                    /\ active' = snapshots[s].id
                    /\ env' = snapshots[s].env
                    /\ Visible(Token)' = snapshots[s].token]_vars
  <2> SUFFICES ASSUME ~ UNCHANGED vars, NEW s \in Existing, last' = <<"revert", s>>,
                      snapshots[s].id # None \/ active = None
               PROVE  /\ active' = snapshots[s].id
                      /\ env' = snapshots[s].env
                      /\ Visible(Token)' = snapshots[s].token
    BY Zenon
  <2>1. last'[1] = "revert"
    OBVIOUS
  <2>2. PICK t \in Existing, keep \in BOOLEAN : revert(t, keep) /\ last' = <<"revert", t>>
    BY <1>1, <2>1, LastStep, Zenon
  <2>3. t = s
    BY <2>2
  <2> QED BY <1>1, <2>2, <2>3, RevertIInv, Zenon
<1> QED BY <1>1, AlwaysIInv, PTL DEF Spec, RevertRestores

\* A persistent account that is loaded looks the same after a selection, a roll or a
\* transaction, and the sender is in the journal after a selection and a revert.
THEOREM PersistentCarried == Spec => AccountsCarried
<1>1. ASSUME IInv, [Next]_vars
      PROVE  [/\ last'[1] \in {"select", "roll", "transact"} =>
                   \A a \in persistent_accounts \cap Loaded(journaled_state) :
                       Visible(a)' = Visible(a)
              /\ (\/ last'[1] = "select"
                  \/ last'[1] = "revert" /\ snapshots[last'[2]].id # None
                  \/ last'[1] = "roll" /\ caller \in Loaded(journaled_state)) =>
                    caller \in Loaded(journaled_state)']_vars
  <2> SUFFICES ASSUME ~ UNCHANGED vars
               PROVE  /\ last'[1] \in {"select", "roll", "transact"} =>
                           \A a \in persistent_accounts \cap Loaded(journaled_state) :
                               Visible(a)' = Visible(a)
                      /\ (\/ last'[1] = "select"
                          \/ last'[1] = "revert" /\ snapshots[last'[2]].id # None
                          \/ last'[1] = "roll" /\ caller \in Loaded(journaled_state)) =>
                            caller \in Loaded(journaled_state)'
    BY Zenon
  <2>1. caller \in Accounts
    BY <1>1, NamedAccounts, Zenon DEF IInv, Types
  <2>2. ASSUME Keeps(journaled_state, journaled_state')
        PROVE  /\ \A a \in persistent_accounts \cap Loaded(journaled_state) :
                    Visible(a)' = Visible(a)
               /\ caller \in Loaded(journaled_state) => caller \in Loaded(journaled_state)'
    BY <2>1, <2>2, Zenon DEF Keeps, Loaded, Visible, Seen
  <2>3. CASE last'[1] = "other"
    BY <2>3, Zenon
  <2>4. ASSUME NEW id \in LocalIds, select_fork(id), last'[1] = "select"
        PROVE  /\ Keeps(journaled_state, journaled_state')
               /\ caller \in Loaded(journaled_state)'
    <3>1. caller' = caller
      BY <2>4, Zenon DEF select_fork
    <3>2. Keeps(journaled_state, journaled_state') /\ journaled_state'.state[caller] # None
      BY <1>1, <2>4, <3>1, SelectIInv, Zenon
    <3> QED BY <2>1, <3>2, Zenon DEF Loaded
  <2>5. ASSUME NEW id \in LocalIds,
               \/ \E n \in Blocks : roll_fork(id, n)
               \/ \E tx \in Transactions : roll_fork_to_transaction(id, tx)
               \/ transact(id)
        PROVE  Keeps(journaled_state, journaled_state')
    BY <1>1, <2>5, RollIInv, RollToTransactionIInv, TransactIInv, Zenon
  <2>6. ASSUME NEW s \in Existing, NEW keep \in BOOLEAN, revert(s, keep),
               last' = <<"revert", s>>
        PROVE  /\ last'[1] = "revert"
               /\ snapshots[last'[2]].id # None => caller \in Loaded(journaled_state)'
    <3>1. caller' = caller
      BY <2>6, Zenon DEF revert
    <3>2. snapshots[s].id # None => journaled_state'.state[caller] # None
      BY <1>1, <2>6, <3>1, RevertIInv, Zenon
    <3>3. last'[1] = "revert" /\ last'[2] = s
      BY <2>6, Zenon
    <3> QED BY <2>1, <3>2, <3>3, Zenon DEF Loaded
  <2>7. CASE \E id \in LocalIds : select_fork(id) /\ last'[1] = "select"
    BY <2>2, <2>4, <2>7, Zenon
  <2>8. CASE \E id \in LocalIds :
               \/ \E n \in Blocks : roll_fork(id, n) /\ last'[1] = "roll"
               \/ \E tx \in Transactions : roll_fork_to_transaction(id, tx) /\ last'[1] = "roll"
               \/ transact(id) /\ last'[1] = "transact"
    BY <2>2, <2>5, <2>8, Zenon
  <2>9. CASE \E s \in Existing, keep \in BOOLEAN : revert(s, keep) /\ last' = <<"revert", s>>
    BY <2>6, <2>9, Zenon
  <2> QED BY <1>1, <2>3, <2>7, <2>8, <2>9, LastStep, Zenon
<1> QED BY <1>1, AlwaysIInv, PTL DEF Spec, AccountsCarried

=============================================================================
