----------------------- MODULE ScriptBroadcastProofs -----------------------
(***************************************************************************)
(* ScriptBroadcast implements Deployment, for any script, any division     *)
(* into sequences and senders, any batch size and any number of failures.  *)
(***************************************************************************)
EXTENDS ScriptBroadcast, FiniteSetTheorems, TLAPS

Label == {"idle", "save", "saved", "wait", "exit", "sequence", "batch", "send"}
Record == [receipts : SUBSET Hash, len : [Seqs -> Nat], pending : SUBSET Hash]
Process ==
  [at : Label, then : Label, seq : 0..K, sequential : BOOLEAN, fee : Fee,
   index : Nat, last : Nat, res : [Tx -> {"none", "ok", "err"}],
   left : SUBSET Hash, errors : BOOLEAN]

Types ==
  /\ from \in [Tx -> Sender]
  /\ pool \subseteq Hash
  /\ log \in Seq([hash : Hash, ok : BOOLEAN])
  /\ mem \in Record
  /\ main \in [state : {"none", "torn", "whole"}, record : Record]
  /\ proc \in Process

\* The chains executed the transactions in the order of the script.
InOrder == \A k \in 1..Len(log) : log[k].hash[1] = k

\* The receipts are those of successes and counted, and not awaited any more.
Truthful(m) ==
  /\ IsFiniteSet(m.receipts) /\ IsFiniteSet(m.pending)
  /\ \A h \in m.receipts : Outcome(h, TRUE)
  /\ m.receipts \cap m.pending = {}
  /\ \A s \in Seqs : m.len[s] = Cardinality({h \in m.receipts : SeqOf[h[1]] = s})

\* What is in a mempool was sent after the transactions of other accounts were
\* executed.
Discipline ==
  \A h \in pool : \A u \in 1..(h[1] - 1) :
    Account(u) # Account(h[1]) => u <= Len(log)

Good(n) == n <= Len(log) /\ \A t \in 1..n : log[t].ok

Stage == IF proc.at \in {"save", "saved"} THEN proc.then ELSE proc.at

Counted == mem.len[proc.seq] + Cardinality(mem.pending) = proc.index - 1 - Before(proc.seq)

\* How far the process got.
Reached ==
  /\ proc.seq \in Seqs
  /\ Good(Before(proc.seq))
  /\ Stage # "sequence" =>
       /\ proc.index \in (Before(proc.seq) + 1)..(End[proc.seq] + 1)
       /\ proc.sequential \/ \A t, u \in Tx : from[t] = from[u]

Progress ==
  /\ Stage \notin {"save", "saved"}
  /\ Stage \in {"sequence", "batch", "send"} => Reached
  /\ Stage \in {"sequence", "batch"} => mem.pending = {}
  /\ Stage \in {"batch", "send"} => Counted
  /\ Stage = "send" =>
       /\ proc.last <= End[proc.seq]
       /\ proc.index <= proc.last + 1
       /\ \A h \in mem.pending : h[1] < proc.index /\ SeqOf[h[1]] = proc.seq
       /\ proc.sequential /\ proc.index <= proc.last =>
            mem.pending = {} /\ proc.last = proc.index
       /\ \A t \in Tx : t >= proc.index /\ proc.res[t] = "ok" =>
                          <<t, proc.fee>> \notin mem.receipts
  /\ Stage = "wait" =>
       /\ proc.left \subseteq mem.pending
       /\ proc.seq # 0 => Reached
       /\ ~proc.errors => /\ mem.pending = proc.left
                          /\ proc.seq # 0 => Counted
       /\ proc.seq # 0 => \A h \in mem.pending : SeqOf[h[1]] = proc.seq

IInv ==
  /\ Types /\ InOrder
  /\ Truthful(mem) /\ Truthful(main.record)
  /\ Discipline /\ Progress

-----------------------------------------------------------------------------
\* The number of transactions in an interval of the script.
LEMMA Interval ==
  ASSUME NEW a \in Int, NEW b \in Int, a <= b
  PROVE  IsFiniteSet((a + 1)..b) /\ Cardinality((a + 1)..b) = b - a
  <1>1. CASE a + 1 > b
    <2>1. b - a = 0
      BY <1>1
    <2> QED BY <1>1, <2>1, FS_Interval
  <1>2. CASE a + 1 <= b
    <2>1. /\ IsFiniteSet((a + 1)..b)
          /\ Cardinality((a + 1)..b) = IF a + 1 > b THEN 0 ELSE b - (a + 1) + 1
      BY FS_Interval
    <2> QED BY <1>2, <2>1
  <1> QED BY <1>1, <1>2

(* The division of the script into sequences *)

\* A sequence holds the transactions after Before up to End, and the next one
\* starts where it ends.
LEMMA Division ==
  ASSUME NEW s \in Seqs
  PROVE  /\ Before(s) \in 0..N /\ End[s] \in Tx /\ Before(s) <= End[s]
         /\ \A t \in Tx : SeqOf[t] = s <=> t \in (Before(s) + 1)..End[s]
         /\ \A t \in Tx : t <= Before(s) <=> SeqOf[t] < s
         /\ s # K => s + 1 \in Seqs /\ Before(s + 1) = End[s]
         /\ End[K] = N
  <1>1. /\ N \in Nat \ {0} /\ K \in Nat \ {0} /\ SeqOf \in [Tx -> Seqs]
        /\ End \in [Seqs -> Tx]
        /\ \A t \in Tx, r \in Seqs : t <= End[r] <=> SeqOf[t] <= r
    BY ScriptAssumption, Zenon
  <1>2. \A r \in Seqs : End[r] \in Tx
    BY <1>1, Zenon
  <1>3. End[K] = N
    BY <1>1, <1>2 DEF Tx, Seqs
  <1>4. Before(s) \in 0..N
    BY <1>1, <1>2 DEF Before, Tx, Seqs
  <1>5. \A t \in Tx : t <= Before(s) <=> SeqOf[t] < s
    <2>1. CASE s = 1
      BY <2>1, <1>1 DEF Before, Tx, Seqs
    <2>2. CASE s # 1
      <3>1. s - 1 \in Seqs
        BY <2>2, <1>1 DEF Seqs
      <3>2. \A t \in Tx : t <= End[s - 1] <=> SeqOf[t] <= s - 1
        BY <3>1, <1>1, Zenon
      <3>3. \A t \in Tx : SeqOf[t] \in Int
        BY <1>1 DEF Seqs
      <3> QED BY <2>2, <3>2, <3>3 DEF Before, Seqs
    <2> QED BY <2>1, <2>2, Zenon
  <1>6. Before(s) <= End[s]
    <2>1. CASE s = 1
      BY <2>1, <1>1, <1>2 DEF Before, Tx
    <2>2. CASE s # 1
      <3>1. s - 1 \in Seqs /\ Before(s) = End[s - 1]
        BY <2>2, <1>1 DEF Before, Seqs
      <3>2. SeqOf[End[s - 1]] <= s - 1
        BY <3>1, <1>1, <1>2 DEF Tx
      <3>3. SeqOf[End[s - 1]] <= s
        BY <3>1, <3>2, <1>1, <1>2 DEF Seqs
      <3> QED BY <3>1, <3>3, <1>1, <1>2, Zenon
    <2> QED BY <2>1, <2>2, Zenon
  <1>7. \A t \in Tx : SeqOf[t] = s <=> t \in (Before(s) + 1)..End[s]
    <2> TAKE t \in Tx
    <2>1. (t <= End[s] <=> SeqOf[t] <= s) /\ (t <= Before(s) <=> SeqOf[t] < s)
      BY <1>1, <1>5, Zenon
    <2>2. SeqOf[t] \in Int /\ t \in Int /\ s \in Int /\ End[s] \in Int
      BY <1>1, <1>2 DEF Seqs, Tx
    <2> QED BY <2>1, <2>2, <1>4
  <1>8. s # K => s + 1 \in Seqs /\ Before(s + 1) = End[s]
    BY <1>1 DEF Seqs, Before
  <1> QED BY <1>2, <1>3, <1>4, <1>5, <1>6, <1>7, <1>8, Zenon

-----------------------------------------------------------------------------
(* Receipts and nonces *)

\* There are no more receipts of a sequence than executed transactions of it, and
\* with a receipt for each of them all have succeeded: already_broadcasted is
\* never too large.
LEMMA ReceiptsCounted ==
  ASSUME Types, InOrder, Truthful(mem), NEW s \in Seqs, Good(Before(s))
  PROVE  /\ mem.len[s] <= Len(log) - Before(s)
         /\ mem.len[s] <= End[s] - Before(s)
         /\ mem.len[s] >= End[s] - Before(s) => Good(End[s])
  <1> DEFINE R == {h \in mem.receipts : SeqOf[h[1]] = s}
             S == {t \in (Before(s) + 1)..End[s] : t <= Len(log) /\ log[t].ok}
             f == [h \in R |-> h[1]]
  <1>1. /\ Before(s) \in 0..N /\ End[s] \in 1..N /\ Before(s) <= End[s]
        /\ \A t \in Tx : SeqOf[t] = s <=> t \in (Before(s) + 1)..End[s]
        /\ N \in Nat /\ Before(s) \in Int /\ End[s] \in Int
    BY Division, ScriptAssumption DEF Tx
  <1>2. Len(log) \in Nat /\ Before(s) <= Len(log)
    BY DEF Types, Good
  <1>3. \A h \in R : h[1] \in S /\ log[h[1]].hash = h
    <2> TAKE h \in R
    <2>1. h \in Hash /\ h[1] \in Tx
      BY Zenon DEF Types, Record, Hash
    <2>2. PICK k \in 1..Len(log) : log[k].hash = h /\ log[k].ok = TRUE
      BY DEF Truthful, Outcome, Types
    <2>3. h[1] = k
      BY <2>2, Zenon DEF InOrder
    <2> QED BY <2>1, <2>2, <2>3, <1>1
  <1>4. f \in Injection(R, S)
    BY <1>3 DEF Injection, IsInjective
  <1>5. IsFiniteSet((Before(s) + 1)..End[s])
        /\ Cardinality((Before(s) + 1)..End[s]) = End[s] - Before(s)
    BY <1>1, Interval, Zenon
  <1>6. IsFiniteSet((Before(s) + 1)..Len(log))
        /\ Cardinality((Before(s) + 1)..Len(log)) = Len(log) - Before(s)
    BY <1>1, <1>2, Interval
  <1>7. S \in SUBSET ((Before(s) + 1)..End[s]) /\ S \in SUBSET ((Before(s) + 1)..Len(log))
    BY <1>1, <1>2
  <1>8. /\ IsFiniteSet(S) /\ Cardinality(S) <= End[s] - Before(s)
        /\ Cardinality(S) = End[s] - Before(s) => S = (Before(s) + 1)..End[s]
    <2> DEFINE T == (Before(s) + 1)..End[s]
    <2>1. IsFiniteSet(T) /\ Cardinality(T) = End[s] - Before(s) /\ S \in SUBSET T
      BY <1>5, <1>7, Zenon
    <2> HIDE DEF S, T
    <2>2. /\ IsFiniteSet(S) /\ Cardinality(S) <= Cardinality(T)
          /\ Cardinality(S) = Cardinality(T) => S = T
      BY <2>1, FS_Subset, Zenon
    <2> QED BY <2>1, <2>2, Zenon DEF T
  <1>9. Cardinality(S) <= Len(log) - Before(s)
    <2> DEFINE T == (Before(s) + 1)..Len(log)
    <2>1. IsFiniteSet(T) /\ Cardinality(T) = Len(log) - Before(s) /\ S \in SUBSET T
      BY <1>6, <1>7, Zenon
    <2> HIDE DEF S, T
    <2>2. Cardinality(S) <= Cardinality(T)
      BY <2>1, FS_Subset, Zenon
    <2> QED BY <2>1, <2>2, Zenon
  <1>10. Cardinality(R) <= Cardinality(S)
    BY <1>4, <1>8, FS_Injection
  <1>11. mem.len[s] = Cardinality(R)
    BY Zenon DEF Truthful
  <1>12. Cardinality(S) \in Nat /\ Cardinality(R) \in Nat
    <2>1. IsFiniteSet(R)
      BY <1>4, <1>8, FS_Injection, Zenon
    <2> QED BY <2>1, <1>8, FS_CardinalityType, Zenon
  <1>13. ASSUME mem.len[s] >= End[s] - Before(s) PROVE Good(End[s])
    <2>1. S = (Before(s) + 1)..End[s]
      BY <1>13, <1>1, <1>8, <1>10, <1>11, <1>12
    <2>2. \A t \in (Before(s) + 1)..End[s] : t <= Len(log) /\ log[t].ok
      BY <2>1, Zenon
    <2>3. \A t \in 1..Before(s) : log[t].ok
      BY Zenon DEF Good
    <2>4. End[s] <= Len(log)
      BY <2>2, <1>1, <1>2
    <2> QED BY <2>2, <2>3, <2>4, <1>1, <1>2 DEF Good
  <1> QED BY <1>1, <1>2, <1>8, <1>9, <1>10, <1>11, <1>12, <1>13

\* A transaction whose nonce is not used is not executed yet. If the nonce is
\* the next one, those of its account before it are.
LEMMA NonceOrder ==
  ASSUME Types, InOrder, NEW t \in Tx, Nonce(t) >= TransactionCount(Account(t))
  PROVE  /\ t > Len(log)
         /\ Nonce(t) = TransactionCount(Account(t)) =>
              \A u \in 1..(t - 1) : Account(u) = Account(t) => u <= Len(log)
  <1> DEFINE A == {u \in 1..(t - 1) : Account(u) = Account(t)}
             B == {k \in 1..Len(log) : Account(k) = Account(t)}
  <1>1. Len(log) \in Nat /\ t \in Nat /\ DOMAIN log = 1..Len(log)
    BY ScriptAssumption DEF Types, Tx
  <1>2. {k \in DOMAIN log : Account(log[k].hash[1]) = Account(t)} = B
    BY <1>1, Zenon DEF InOrder
  <1>3. Nonce(t) = Cardinality(A) /\ TransactionCount(Account(t)) = Cardinality(B)
    BY <1>2, Zenon DEF Nonce, TransactionCount
  <1>4. /\ IsFiniteSet(A) /\ IsFiniteSet(B)
        /\ Cardinality(A) \in Nat /\ Cardinality(B) \in Nat
    <2>1. IsFiniteSet(1..(t - 1)) /\ IsFiniteSet(1..Len(log))
      BY <1>1, FS_Interval
    <2>2. A \in SUBSET (1..(t - 1)) /\ B \in SUBSET (1..Len(log))
      OBVIOUS
    <2> QED BY <2>1, <2>2, FS_Subset, FS_CardinalityType, Zenon
  <1>5. t > Len(log)
    <2>1. SUFFICES ASSUME t <= Len(log) PROVE FALSE
      BY <1>1
    <2>2. A \in SUBSET B /\ t \in B /\ t \notin A
      BY <2>1, <1>1, ScriptAssumption DEF Tx
    <2>3. Cardinality(A) <= Cardinality(B) /\ Cardinality(A) # Cardinality(B)
      BY <2>2, <1>4, FS_Subset, Zenon
    <2> QED BY <2>3, <1>3, <1>4
  <1>6. B \in SUBSET A
    BY <1>1, <1>5
  <1>7. Nonce(t) = TransactionCount(Account(t)) => A = B
    BY <1>3, <1>4, <1>6, FS_Subset, Zenon
  <1> QED BY <1>1, <1>5, <1>7

-----------------------------------------------------------------------------
(* The steps *)

\* The record of a new run is well formed, and nothing is received or pending
\* in it.
LEMMA FreshRecord == Fresh \in Record /\ Truthful(Fresh)
  <1>1. Fresh \in Record
    BY Zenon DEF Fresh, Record
  <1>2. \A s \in Seqs : {h \in Fresh.receipts : SeqOf[h[1]] = s} = {}
    BY Zenon DEF Fresh
  <1> QED BY <1>1, <1>2, FS_EmptySet, Zenon DEF Fresh, Truthful

\* A process that does nothing is well formed, and waits for nothing.
LEMMA NoRunType == NoRun \in Process /\ NoRun.left = {}
  BY ScriptAssumption DEF NoRun, Process, Label, Seqs

\* Steps that leave the chains alone, and the sequences in memory and on disk as
\* they were or take one for the other.
LEMMA Kept ==
  ASSUME IInv, UNCHANGED <<from, log>>, pool' \subseteq pool,
         mem' \in {mem, main.record, Fresh}, main'.record \in {main.record, mem},
         Types', Progress'
  PROVE  IInv'
  <1>1. InOrder'
    BY Zenon DEF IInv, InOrder
  <1>2. Truthful(mem)'
    BY FreshRecord DEF IInv, Truthful, Outcome
  <1>3. Truthful(main.record)'
    BY DEF IInv, Truthful, Outcome
  <1>4. Discipline'
    BY Zenon DEF IInv, Discipline, Account
  <1> QED BY <1>1, <1>2, <1>3, <1>4, Zenon DEF IInv

\* A mempool that forgets a transaction keeps the invariant.
LEMMA EvictKeeps ==
  ASSUME IInv, NEW h \in pool, Evict(h)
  PROVE  IInv'
  <1>1. Types'
    BY Zenon DEF IInv, Types, Evict, files
  <1>2. Progress'
    BY SMTT(60) DEF IInv, Evict, files, Progress, Stage, Reached, Counted, Good
  <1> QED BY <1>1, <1>2, Kept, Zenon DEF Evict, files

\* So does a simulation, which writes the files of the dry run only.
LEMMA SimulateKeeps ==
  ASSUME IInv, Simulate
  PROVE  IInv'
  <1>1. Types'
    BY Zenon DEF IInv, Types, Simulate, chains
  <1>2. Progress'
    BY SMTT(60) DEF IInv, Simulate, chains, Progress, Stage, Reached, Counted, Good
  <1> QED BY <1>1, <1>2, Kept, Zenon DEF Simulate, chains

\* The end of the first write stores what is in memory.
LEMMA SaveSensitiveKeeps ==
  ASSUME IInv, save_sensitive
  PROVE  IInv'
  <1>1. Types'
    BY Zenon DEF IInv, Types, save_sensitive, chains, At, Become, Process, Label
  <1>2. Progress'
    BY DEF IInv, Types, Process, save_sensitive, chains, At, Become, Progress, Stage, Reached, Counted, Good
  <1> QED BY <1>1, <1>2, Kept, Zenon DEF save_sensitive, chains

\* The end of the second write goes on where the save was called.
LEMMA SaveEndKeeps ==
  ASSUME IInv, save_end
  PROVE  IInv'
  <1>1. Types'
    BY NoRunType, FreshRecord, SMTT(40) DEF IInv, Types, save_end, chains, At, Become, Process, Label
  <1>2. Progress'
    <2>1. CASE proc.then = "idle"
      BY <2>1, Zenon DEF save_end, Become, Progress, Stage, NoRun
    <2>2. CASE proc.then # "idle"
      BY <2>2 DEF IInv, Types, Process, save_end, chains, At, Become, Progress, Stage, Reached, Counted, Good
    <2> QED BY <2>1, <2>2, Zenon
  <1> QED BY <1>1, <1>2, Kept, Zenon DEF save_end, chains

\* A killed process leaves chains and files as they are.
LEMMA CrashKeeps ==
  ASSUME IInv, Crash
  PROVE  IInv'
  <1>1. Types'
    BY NoRunType, FreshRecord, Zenon DEF IInv, Types, Crash, chains, files, Become
  <1>2. Progress'
    BY Zenon DEF Crash, Become, Progress, Stage, NoRun
  <1> QED BY <1>1, <1>2, Kept, Zenon DEF Crash, chains, files

\* The first broadcast starts with nothing received and nothing pending.
LEMMA BundleKeeps ==
  ASSUME IInv, bundle
  PROVE  IInv'
  <1>1. Types'
    BY NoRunType, FreshRecord, Zenon DEF IInv, Types, bundle, chains, files, Become, Process, Label
  <1>2. Progress'
    BY Zenon DEF bundle, Become, Progress, Stage, NoRun, Fresh
  <1> QED BY <1>1, <1>2, Kept, Zenon DEF bundle, chains, files

\* A resume takes up what the file holds, or starts over from the dry run.
LEMMA ResumeKeeps ==
  ASSUME IInv, resume
  PROVE  IInv'
  <1>1. CASE resume_loaded
    <2>1. Types'
      BY <1>1, NoRunType, Zenon DEF IInv, Types, resume, resume_loaded, chains, files, Become, Process, Label, Record
    <2>2. Progress'
      BY <1>1 DEF resume_loaded, Become, Progress, Stage, NoRun
    <2> QED BY <1>1, <2>1, <2>2, Kept, Zenon DEF resume, resume_loaded, chains, files
  <1>2. CASE resume_dry_run
    <2>1. Types'
      BY <1>2, NoRunType, FreshRecord, Zenon DEF IInv, Types, resume, resume_dry_run, save, chains, files, Become, Process, Label
    <2>2. Progress'
      BY <1>2, Zenon DEF resume_dry_run, save, Become, Progress, Stage, NoRun, Fresh
    <2>3. main'.record = main.record
      BY <1>2, Zenon DEF IInv, Types, resume_dry_run, save
    <2> QED BY <1>2, <2>1, <2>2, <2>3, Kept, Zenon DEF resume, resume_dry_run, save, chains
  <1> QED BY <1>1, <1>2, Zenon DEF resume

\* Every return saves the sequences and ends the run.
LEMMA DropKeeps ==
  ASSUME IInv, Drop(mem), UNCHANGED <<from, chains>>
  PROVE  IInv'
  <1>1. Types'
    BY Zenon DEF IInv, Types, Drop, save, chains, Become, Process, Label
  <1>2. Progress'
    BY Zenon DEF IInv, Types, Process, Drop, save, Become, Progress, Stage
  <1>3. main'.record = main.record
    BY Zenon DEF IInv, Types, Drop, save
  <1> QED BY <1>1, <1>2, <1>3, Kept, Zenon DEF Drop, save, chains

\* When no hash is left, the wait ends with all receipts in or with an error.
LEMMA WaitKeeps ==
  ASSUME IInv, wait_for_pending
  PROVE  IInv'
  <1>1. Stage = "wait" /\ proc \in Process
    BY Zenon DEF IInv, Types, wait_for_pending, At, Stage
  <1>2. CASE proc.errors /\ proc.seq = 0
    <2>0. proc' = [proc EXCEPT !.at = "save", !.then = "exit"]
      BY <1>2, Zenon DEF wait_for_pending, save, Become
    <2>1. Types'
      <3>1. proc' \in Process
        BY <2>0, <1>1, Zenon DEF Process, Label
      <3> QED BY <1>2, <3>1, Zenon DEF IInv, Types, wait_for_pending, save, chains
    <2>2. Progress'
      BY <1>2, ZenonT(40) DEF IInv, Types, Process, wait_for_pending, save, Become, Progress, Stage
    <2>3. main'.record = main.record
      BY <1>2, Zenon DEF IInv, Types, wait_for_pending, save
    <2> QED BY <1>2, <2>1, <2>2, <2>3, Kept, Zenon DEF wait_for_pending, save, chains
  <1>3. CASE proc.errors /\ proc.seq # 0
    BY <1>3, DropKeeps, Zenon DEF wait_for_pending, chains
  <1>4. CASE ~proc.errors
    <2>1. K \in Nat \ {0}
      BY ScriptAssumption, Zenon
    <2>2. Types'
      <3>1. proc' = [proc EXCEPT !.at = "save",
                       !.then = IF proc.seq = 0 THEN "sequence" ELSE "batch",
                       !.seq = IF proc.seq = 0 THEN 1 ELSE proc.seq]
        BY <1>1, <1>4, Zenon DEF wait_for_pending, save, Become, Process
      <3>2. PICK next \in Label, seq \in 0..K :
              proc' = [proc EXCEPT !.at = "save", !.then = next, !.seq = seq]
        <4>1. (IF proc.seq = 0 THEN "sequence" ELSE "batch") \in Label
          BY Zenon DEF Label
        <4>2. (IF proc.seq = 0 THEN 1 ELSE proc.seq) \in 0..K
          BY <1>1, <2>1 DEF Process
        <4> QED BY <3>1, <4>1, <4>2, Zenon
      <3>3. proc' \in Process
        BY <3>2, <1>1, Zenon DEF Process, Label
      <3> QED BY <1>4, <3>3, Zenon DEF IInv, Types, wait_for_pending, save, chains
    <2>3. mem' = mem /\ mem.pending = {} /\ UNCHANGED <<from, log>>
      BY <1>1, <1>4, Zenon DEF IInv, Progress, wait_for_pending, save, chains
    <2>4. Progress'
      <3>1. CASE proc.seq = 0
        <4>1. Stage' = "sequence" /\ proc'.seq = 1
          BY <1>1, <1>4, <3>1, Zenon DEF wait_for_pending, save, Become, Process, Stage
        <4>2. Reached'
          BY <4>1, <2>1 DEF Reached, Good, Before, Seqs, IInv, Types
        <4> QED BY <2>3, <4>1, <4>2, Zenon DEF Progress
      <3>2. CASE proc.seq # 0
        <4>1. /\ Stage' = "batch" /\ proc'.seq = proc.seq /\ proc'.index = proc.index
              /\ proc'.sequential = proc.sequential
          BY <1>1, <1>4, <3>2, ZenonT(60) DEF wait_for_pending, save, Become, Process, Stage
        <4>2. Reached /\ Counted
          BY <1>1, <1>4, <3>2, Zenon DEF IInv, Progress
        <4>3. Reached' /\ Counted'
          BY <1>1, <2>3, <4>1, <4>2, Zenon DEF Reached, Counted, Good
        <4> QED BY <2>3, <4>1, <4>3, Zenon DEF Progress
      <3> QED BY <3>1, <3>2, Zenon
    <2>5. main'.record = main.record
      BY <1>4, Zenon DEF IInv, Types, wait_for_pending, save
    <2> QED BY <2>2, <2>3, <2>4, <2>5, Kept, Zenon DEF wait_for_pending, chains
  <1> QED BY <1>2, <1>3, <1>4, Zenon

\* Where the last transaction of the sequence is executed with success, the next
\* sequence starts or success is reported.
LEMMA NextSequenceKeeps ==
  ASSUME IInv, Good(End[proc.seq]), proc.seq \in Seqs, mem.pending = {},
         NextSequence, UNCHANGED <<from, chains>>
  PROVE  IInv'
  <1>1. CASE proc.seq = K
    BY <1>1, DropKeeps, Zenon DEF NextSequence
  <1>2. CASE proc.seq # K
    <2>1. proc.seq + 1 \in Seqs /\ Before(proc.seq + 1) = End[proc.seq]
      BY <1>2, Division, Zenon
    <2>2. /\ proc' = [proc EXCEPT !.at = "sequence", !.seq = @ + 1]
          /\ UNCHANGED <<from, log, pool, mem, main>>
      BY <1>2, Zenon DEF NextSequence, Become, files, chains
    <2>3. Types'
      <3>1. proc \in Process /\ proc.seq + 1 \in 0..K
        BY <2>1, ScriptAssumption DEF IInv, Types, Seqs
      <3>2. proc' \in Process
        BY <2>2, <3>1, Zenon DEF Process, Label
      <3> QED BY <2>2, <3>2, Zenon DEF IInv, Types
    <2>4. Stage' = "sequence" /\ proc'.seq = proc.seq + 1
      BY <2>2, Zenon DEF IInv, Types, Process, Stage
    <2>5. Progress'
      BY <2>1, <2>2, <2>4, Zenon DEF Progress, Reached, Good
    <2> QED BY <2>2, <2>3, <2>5, Kept, Zenon
  <1> QED BY <1>1, <1>2, Zenon

\* A sequence with a receipt for each transaction is skipped.
LEMMA SequenceDoneKeeps ==
  ASSUME IInv, sequence_done
  PROVE  IInv'
  <1>1. Stage = "sequence"
    BY Zenon DEF sequence_done, At, Stage
  <1>2. proc.seq \in Seqs /\ Good(Before(proc.seq)) /\ mem.pending = {}
    BY <1>1, Zenon DEF IInv, Progress, Reached
  <1>3. Good(End[proc.seq])
    BY <1>2, ReceiptsCounted, Zenon DEF IInv, sequence_done, already_broadcasted
  <1> QED BY <1>2, <1>3, NextSequenceKeeps, Zenon DEF sequence_done

\* With one signer all transactions have the same sender.
LEMMA OneSigner ==
  ASSUME from \in [Tx -> Sender], signers_count = 1
  PROVE  \A t, u \in Tx : from[t] = from[u]
  <1> DEFINE S == {from[t] : t \in Tx}
  <1>1. from \in Surjection(Tx, S)
    BY Zenon DEF Surjection
  <1>2. IsFiniteSet(Tx)
    BY ScriptAssumption, FS_Interval DEF Tx
  <1>3. IsFiniteSet(S) /\ Cardinality(S) = 1
    BY <1>1, <1>2, FS_Surjection, Zenon DEF signers_count
  <1>4. PICK x : S = {x}
    BY <1>3, FS_Singleton, Zenon
  <1> QED BY <1>4, Zenon

\* A sequence starts behind as many transactions as it has receipts.
LEMMA SequenceStartKeeps ==
  ASSUME IInv, NEW fee \in Fee, NEW seq \in BOOLEAN, sequence_start(fee, seq)
  PROVE  IInv'
  <1>1. Stage = "sequence"
    BY Zenon DEF sequence_start, At, Stage
  <1>2. proc.seq \in Seqs /\ Good(Before(proc.seq)) /\ mem.pending = {}
    BY <1>1, Zenon DEF IInv, Progress, Reached
  <1>3. mem.len[proc.seq] \in Nat /\ mem.len[proc.seq] < End[proc.seq] - Before(proc.seq)
    BY <1>2, Zenon DEF IInv, Types, Record, sequence_start, already_broadcasted
  <1>4. Before(proc.seq) \in Nat /\ End[proc.seq] \in Nat
    BY <1>2, Division, ScriptAssumption DEF Tx
  <1>5. /\ proc' = [proc EXCEPT !.at = "batch", !.fee = fee,
                      !.sequential = sequential_broadcast(seq),
                      !.index = Before(proc.seq) + mem.len[proc.seq] + 1]
        /\ UNCHANGED <<from, pool, log, mem, main>>
    BY Zenon DEF sequence_start, Become, chains, files, already_broadcasted
  <1>6. sequential_broadcast(seq) \in BOOLEAN
    BY Zenon DEF sequential_broadcast
  <1>7. Types'
    <2>1. proc \in Process /\ Before(proc.seq) + mem.len[proc.seq] + 1 \in Nat
      BY <1>3, <1>4 DEF IInv, Types
    <2>2. proc' \in Process
      BY <1>5, <1>6, <2>1, Zenon DEF Process, Label
    <2> QED BY <1>5, <2>2, Zenon DEF IInv, Types
  <1>8. /\ Stage' = "batch" /\ proc'.seq = proc.seq
        /\ proc'.sequential = sequential_broadcast(seq)
        /\ proc'.index = Before(proc.seq) + mem.len[proc.seq] + 1
    BY <1>5, Zenon DEF IInv, Types, Process, Stage
  <1>9. sequential_broadcast(seq) \/ \A t, u \in Tx : from[t] = from[u]
    BY OneSigner, Zenon DEF IInv, Types, sequential_broadcast
  <1>10. Reached'
    BY <1>2, <1>3, <1>4, <1>5, <1>8, <1>9, SMTT(60) DEF Reached, Good
  <1>11. Counted'
    <2>1. Cardinality(mem'.pending) = 0 /\ mem'.len = mem.len
      BY <1>2, <1>5, FS_EmptySet, Zenon
    <2> QED BY <1>3, <1>4, <1>8, <2>1 DEF Counted
  <1>12. Progress'
    BY <1>2, <1>5, <1>8, <1>10, <1>11, Zenon DEF Progress
  <1> QED BY <1>5, <1>7, <1>12, Kept, Zenon

\* The next batch starts where the last one ended, or the sequence is complete.
LEMMA BatchKeeps ==
  ASSUME IInv, batch
  PROVE  IInv'
  <1>1. Stage = "batch" /\ proc \in Process
    BY Zenon DEF IInv, Types, batch, At, Stage
  <1>2. /\ proc.seq \in Seqs /\ Good(Before(proc.seq)) /\ mem.pending = {} /\ Counted
        /\ proc.index \in (Before(proc.seq) + 1)..(End[proc.seq] + 1)
        /\ proc.sequential \/ \A t, u \in Tx : from[t] = from[u]
    BY <1>1, Zenon DEF IInv, Progress, Reached
  <1>3. /\ Before(proc.seq) \in Nat /\ End[proc.seq] \in Nat /\ proc.index \in Nat
        /\ mem.len[proc.seq] \in Nat
    BY <1>1, <1>2, Division, ScriptAssumption DEF Tx, IInv, Types, Record, Process
  <1>4. mem.len[proc.seq] = proc.index - 1 - Before(proc.seq)
    <2>1. Cardinality(mem.pending) = 0
      BY <1>2, FS_EmptySet, Zenon
    <2> QED BY <1>2, <1>3, <2>1 DEF Counted
  <1>5. CASE proc.index > End[proc.seq]
    <2>1. Good(End[proc.seq])
      <3>1. mem.len[proc.seq] >= End[proc.seq] - Before(proc.seq)
        BY <1>3, <1>4, <1>5
      <3> QED BY <1>2, <3>1, ReceiptsCounted, Zenon DEF IInv
    <2> QED BY <1>2, <1>3, <1>5, <2>1, NextSequenceKeeps, SMTT(40) DEF batch
  <1>6. CASE proc.index <= End[proc.seq]
    <2>1. /\ UNCHANGED <<from, pool, log, mem, main>>
          /\ \E last \in Nat :
                /\ proc' = [proc EXCEPT !.at = "send", !.res = [t \in Tx |-> "none"], !.last = last]
                /\ last <= End[proc.seq] /\ proc.index <= last
                /\ proc.sequential => last = proc.index
      <3> DEFINE last == IF proc.index + batch_size - 1 < End[proc.seq]
                         THEN proc.index + batch_size - 1 ELSE End[proc.seq]
      <3>1. /\ UNCHANGED <<from, pool, log, mem, main>>
            /\ proc' = [proc EXCEPT !.at = "send", !.res = [t \in Tx |-> "none"], !.last = last]
        BY <1>3, <1>6 DEF batch, Become, chains, files
      <3>2. batch_size \in Nat \ {0} /\ (proc.sequential => batch_size = 1)
        BY ScriptAssumption DEF batch_size
      <3>3. /\ last \in Nat /\ last <= End[proc.seq] /\ proc.index <= last
            /\ proc.sequential => last = proc.index
        BY <1>3, <1>6, <3>2
      <3> QED BY <3>1, <3>3, Zenon
    <2>2. PICK last \in Nat :
            /\ proc' = [proc EXCEPT !.at = "send", !.res = [t \in Tx |-> "none"], !.last = last]
            /\ last <= End[proc.seq] /\ proc.index <= last
            /\ proc.sequential => last = proc.index
      BY <2>1, Zenon
    <2>3. Types'
      <3>1. [t \in Tx |-> "none"] \in [Tx -> {"none", "ok", "err"}]
        OBVIOUS
      <3>2. proc' \in Process
        BY <1>1, <2>2, <3>1, Zenon DEF Process, Label
      <3> QED BY <2>1, <3>2, Zenon DEF IInv, Types
    <2>4. /\ Stage' = "send" /\ proc'.seq = proc.seq /\ proc'.index = proc.index
          /\ proc'.last = last /\ proc'.sequential = proc.sequential
          /\ proc'.res = [t \in Tx |-> "none"]
      BY <1>1, <2>2, Zenon DEF Process, Stage
    <2>5. Reached' /\ Counted'
      BY <1>2, <2>1, <2>4, Zenon DEF Reached, Counted, Good
    <2>6. Progress'
      BY <1>2, <1>3, <2>1, <2>2, <2>4, <2>5 DEF Progress
    <2> QED BY <2>1, <2>3, <2>6, Kept, Zenon
  <1> QED BY <1>3, <1>5, <1>6

\* After the last answer of a batch its hashes are waited for.
LEMMA BatchSentKeeps ==
  ASSUME IInv, batch_sent
  PROVE  IInv'
  <1>1. Stage = "send" /\ proc \in Process
    BY Zenon DEF IInv, Types, batch_sent, At, Stage
  <1>2. /\ Reached /\ Counted
        /\ \A h \in mem.pending : SeqOf[h[1]] = proc.seq
    BY <1>1, Zenon DEF IInv, Progress
  <1>3. /\ proc' = [proc EXCEPT !.left = mem.pending, !.at = "save", !.then = "wait"]
        /\ UNCHANGED <<from, pool, log, mem>> /\ main'.record = main.record
        /\ main' = [main EXCEPT !.state = "torn"]
    <2>1. {h \in mem.pending : SeqOf[h[1]] = proc.seq} = mem.pending
      BY <1>2, Zenon
    <2> QED BY <1>1, <2>1, Zenon DEF batch_sent, save, Become, chains, IInv, Types, Process
  <1>4. Types'
    <2>1. mem.pending \in SUBSET Hash
      BY Zenon DEF IInv, Types, Record
    <2>2. proc' \in Process
      BY <1>1, <1>3, <2>1, Zenon DEF Process, Label
    <2> QED BY <1>3, <2>2, Zenon DEF IInv, Types
  <1>5. /\ Stage' = "wait" /\ proc'.seq = proc.seq /\ proc'.index = proc.index
        /\ proc'.left = mem.pending /\ proc'.sequential = proc.sequential
    BY <1>1, <1>3, Zenon DEF Process, Stage
  <1>6. Reached' /\ Counted'
    BY <1>1, <1>2, <1>3, <1>5, Zenon DEF Reached, Counted, Good
  <1>7. Progress'
    BY <1>2, <1>3, <1>5, <1>6, Zenon DEF Progress
  <1> QED BY <1>3, <1>4, <1>7, Kept, Zenon

\* A transaction that is sent was not executed, and those of other accounts
\* before it were.
LEMMA SentInOrder ==
  ASSUME IInv, Stage = "send", NEW t \in proc.index..proc.last,
         Nonce(t) >= TransactionCount(Account(t))
  PROVE  /\ t \in Tx /\ t > Len(log)
         /\ <<t, proc.fee>> \in Hash /\ <<t, proc.fee>> \notin mem.receipts
         /\ \A u \in 1..(t - 1) : Account(u) # Account(t) => u <= Len(log)
  <1>1. /\ proc.seq \in Seqs /\ Good(Before(proc.seq)) /\ Counted
        /\ proc.index \in (Before(proc.seq) + 1)..(End[proc.seq] + 1)
        /\ proc.last <= End[proc.seq]
        /\ proc.sequential \/ \A v, u \in Tx : from[v] = from[u]
        /\ proc.sequential /\ proc.index <= proc.last =>
             mem.pending = {} /\ proc.last = proc.index
    BY Zenon DEF IInv, Progress, Reached
  <1>2. /\ Before(proc.seq) \in 0..N /\ End[proc.seq] \in Tx /\ Len(log) \in Nat
        /\ proc.index \in Nat /\ proc.last \in Nat /\ N \in Nat /\ proc.fee \in Fee
        /\ mem.len[proc.seq] \in Nat
        /\ \A v \in Tx : SeqOf[v] = proc.seq <=> v \in (Before(proc.seq) + 1)..End[proc.seq]
    <2>1. /\ Before(proc.seq) \in 0..N /\ End[proc.seq] \in Tx
          /\ \A v \in Tx : SeqOf[v] = proc.seq <=> v \in (Before(proc.seq) + 1)..End[proc.seq]
      BY <1>1, Division, Zenon
    <2>2. proc \in Process /\ mem \in Record /\ Len(log) \in Nat
      BY DEF IInv, Types
    <2>3. mem.len[proc.seq] \in Nat
      BY <1>1, <2>2, Zenon DEF Record
    <2>4. proc.index \in Nat /\ proc.last \in Nat /\ proc.fee \in Fee
      BY <2>2, Zenon DEF Process
    <2> QED BY <2>1, <2>2, <2>3, <2>4, ScriptAssumption, Zenon
  <1>3. t \in Tx /\ t \in (Before(proc.seq) + 1)..End[proc.seq]
    BY <1>1, <1>2, SMTT(40) DEF Tx
  <1>4. t > Len(log)
    BY <1>3, NonceOrder, Zenon DEF IInv
  <1>5. <<t, proc.fee>> \in Hash
    BY <1>2, <1>3, Zenon DEF Hash
  <1>6. <<t, proc.fee>> \notin mem.receipts
    <2>1. SUFFICES ASSUME <<t, proc.fee>> \in mem.receipts PROVE FALSE
      OBVIOUS
    <2>2. PICK k \in DOMAIN log : log[k].hash = <<t, proc.fee>>
      BY <2>1, Zenon DEF IInv, Truthful, Outcome
    <2>3. k \in 1..Len(log) /\ log[k].hash[1] = k
      BY <2>2 DEF IInv, Types, InOrder
    <2> QED BY <1>2, <1>3, <1>4, <2>2, <2>3
  <1>7. ASSUME NEW u \in 1..(t - 1), Account(u) # Account(t)
        PROVE  u <= Len(log)
    <2>1. u \in Tx /\ u < t
      BY <1>2, <1>3 DEF Tx
    <2>2. CASE u <= Before(proc.seq)
      BY <1>1, <1>2, <2>1, <2>2 DEF Good, Tx
    <2>3. CASE u > Before(proc.seq)
      <3>1. u \in (Before(proc.seq) + 1)..End[proc.seq]
        BY <1>2, <1>3, <2>1, <2>3, SMTT(60) DEF Tx
      <3>2. SeqOf[u] = proc.seq /\ SeqOf[t] = proc.seq
        BY <1>2, <1>3, <2>1, <3>1, Zenon
      <3>3. from[u] # from[t]
        BY <1>7, <3>2, Zenon DEF Account
      <3>4. proc.sequential
        BY <1>1, <1>3, <2>1, <3>3, Zenon
      <3>5. mem.pending = {} /\ t = proc.index
        BY <1>1, <1>2, <3>4, SMTT(40)
      <3>6. mem.len[proc.seq] = proc.index - 1 - Before(proc.seq)
        <4>1. Cardinality(mem.pending) = 0
          BY <3>5, FS_EmptySet, Zenon
        <4> QED BY <1>1, <1>2, <4>1, SMTT(60) DEF Counted
      <3>7. mem.len[proc.seq] <= Len(log) - Before(proc.seq)
        BY <1>1, ReceiptsCounted, Zenon DEF IInv
      <3> QED BY <1>2, <2>1, <3>5, <3>6, <3>7, SMTT(60) DEF Tx
    <2> QED BY <1>2, <2>1, <2>2, <2>3 DEF Tx
  <1> QED BY <1>3, <1>4, <1>5, <1>6, <1>7, Zenon

\* The answer to a request is noted.
LEMMA AnswerKeeps ==
  ASSUME IInv, NEW t \in Tx, NEW result \in {"ok", "err"}, Sending(t, result),
         result = "ok" => <<t, proc.fee>> \notin mem.receipts
  PROVE  /\ proc' \in Process /\ Progress'
         /\ UNCHANGED <<from, log, mem, main>>
  <1>1. Stage = "send" /\ proc \in Process
    BY Zenon DEF IInv, Types, Sending, At, Stage
  <1>2. /\ proc' = [proc EXCEPT !.res[t] = result]
        /\ UNCHANGED <<from, log, mem, main>>
    BY Zenon DEF Sending, Become, files
  <1>3. proc' \in Process
    BY <1>1, <1>2, Zenon DEF Process
  <1>4. /\ Stage' = "send" /\ proc'.seq = proc.seq /\ proc'.index = proc.index
        /\ proc'.last = proc.last /\ proc'.sequential = proc.sequential
        /\ proc'.fee = proc.fee
    BY <1>1, <1>2, Zenon DEF Process, Stage
  <1>5. \A u \in Tx : proc'.res[u] = IF u = t THEN result ELSE proc.res[u]
    BY <1>1, <1>2, Zenon DEF Process
  <1>6. Reached' /\ Counted'
    BY <1>1, <1>2, <1>4, Zenon DEF IInv, Progress, Reached, Counted, Good
  <1>7. Progress'
    BY <1>1, <1>2, <1>4, <1>5, <1>6, SMTT(40) DEF IInv, Progress
  <1> QED BY <1>2, <1>3, <1>7, Zenon

\* A transaction that a node accepts, answered or not, keeps the order of
\* senders.
LEMMA SendKeeps ==
  ASSUME IInv, NEW t \in Tx, NEW result \in {"ok", "err"}, Sending(t, result),
         Accepted(t)
  PROVE  IInv'
  <1>1. Stage = "send" /\ t \in proc.index..proc.last
    BY Zenon DEF Sending, At, Stage
  <1>2. /\ <<t, proc.fee>> \in Hash /\ <<t, proc.fee>> \notin mem.receipts
        /\ \A u \in 1..(t - 1) : Account(u) # Account(t) => u <= Len(log)
    BY <1>1, SentInOrder, Zenon DEF Accepted
  <1>3. /\ proc' \in Process /\ Progress'
        /\ UNCHANGED <<from, log, mem, main>>
    BY <1>2, AnswerKeeps, Zenon
  <1>4. pool' = pool \cup {<<t, proc.fee>>}
    BY Zenon DEF Accepted
  <1>5. Types'
    BY <1>2, <1>3, <1>4, Zenon DEF IInv, Types
  <1>6. Discipline'
    BY <1>2, <1>3, <1>4 DEF IInv, Discipline, Account
  <1> QED BY <1>3, <1>5, <1>6, Zenon DEF IInv, InOrder, Truthful, Outcome

\* A transaction that was not accepted changes no mempool.
LEMMA SendFailsKeeps ==
  ASSUME IInv, NEW t \in Tx, send_fails(t)
  PROVE  IInv'
  <1>1. /\ proc' \in Process /\ Progress'
        /\ UNCHANGED <<from, log, mem, main>>
    BY AnswerKeeps, Zenon DEF send_fails
  <1>2. Types' /\ UNCHANGED pool
    BY <1>1, Zenon DEF IInv, Types, send_fails
  <1> QED BY <1>1, <1>2, Kept, Zenon

\* A hash that was answered becomes pending and is saved.
LEMMA SentKeeps ==
  ASSUME IInv, sent
  PROVE  IInv'
  <1>1. Stage = "send" /\ proc \in Process /\ mem \in Record /\ proc.index <= proc.last
    BY Zenon DEF IInv, Types, sent, At, Stage
  <1>2. CASE proc.res[proc.index] = "err"
    BY <1>2, DropKeeps, Zenon DEF sent, chains
  <1>3. CASE proc.res[proc.index] = "ok"
    <2> DEFINE h == <<proc.index, proc.fee>>
    <2>1. /\ mem' = [mem EXCEPT !.pending = @ \cup {h}]
          /\ proc' = [proc EXCEPT !.index = proc.index + 1, !.at = "save", !.then = "send"]
          /\ main' = [main EXCEPT !.state = "torn"]
          /\ UNCHANGED <<from, pool, log>>
      BY <1>1, <1>3, Zenon DEF sent, save, Become, chains, add_pending, Process
    <2>2. /\ Reached /\ Counted /\ proc.seq \in Seqs
          /\ proc.index \in (Before(proc.seq) + 1)..(End[proc.seq] + 1)
          /\ proc.last <= End[proc.seq]
          /\ \A g \in mem.pending : g[1] < proc.index /\ SeqOf[g[1]] = proc.seq
          /\ proc.sequential => mem.pending = {} /\ proc.last = proc.index
          /\ \A t \in Tx : t >= proc.index /\ proc.res[t] = "ok" =>
                             <<t, proc.fee>> \notin mem.receipts
      BY <1>1, Zenon DEF IInv, Progress, Reached
    <2>3. /\ Before(proc.seq) \in 0..N /\ End[proc.seq] \in Tx
          /\ \A v \in Tx : SeqOf[v] = proc.seq <=> v \in (Before(proc.seq) + 1)..End[proc.seq]
      BY <2>2, Division, Zenon
    <2>4. /\ proc.index \in Nat /\ proc.last \in Nat /\ proc.fee \in Fee /\ N \in Nat
          /\ mem.len[proc.seq] \in Nat
      BY <1>1, <2>2, ScriptAssumption, Zenon DEF Process, Record
    <2>5. proc.index \in Tx /\ SeqOf[proc.index] = proc.seq
      BY <1>1, <2>2, <2>3, <2>4 DEF Tx
    <2>6. h \in Hash /\ h \notin mem.receipts /\ h \notin mem.pending
      BY <1>3, <2>2, <2>4, <2>5, SMTT(60) DEF Hash
    <2>7. Types'
      <3>1. mem' \in Record
        BY <1>1, <2>1, <2>6, Zenon DEF Record
      <3>2. proc.index + 1 \in Nat
        BY <2>4
      <3>3. proc' \in Process
        BY <1>1, <2>1, <3>2, Zenon DEF Process, Label
      <3> QED BY <2>1, <3>1, <3>3, Zenon DEF IInv, Types
    <2>8. /\ mem'.pending = mem.pending \cup {h} /\ mem'.len = mem.len
          /\ mem'.receipts = mem.receipts
      BY <1>1, <2>1, Zenon DEF Record
    <2>9. /\ IsFiniteSet(mem'.pending)
          /\ Cardinality(mem.pending) \in Nat
          /\ Cardinality(mem'.pending) = Cardinality(mem.pending) + 1
      <3>1. IsFiniteSet(mem.pending)
        BY Zenon DEF IInv, Truthful
      <3>2. Cardinality(mem.pending) \in Nat
        BY <3>1, FS_CardinalityType, Zenon
      <3>3. /\ IsFiniteSet(mem.pending \cup {h})
            /\ Cardinality(mem.pending \cup {h}) = Cardinality(mem.pending) + 1
        BY <2>6, <3>1, FS_AddElement, Zenon
      <3> QED BY <2>8, <3>2, <3>3, Zenon
    <2>10. Truthful(mem)'
      BY <2>1, <2>6, <2>8, <2>9, Zenon DEF IInv, Truthful, Outcome
    <2>11. /\ Stage' = "send" /\ proc'.seq = proc.seq /\ proc'.index = proc.index + 1
           /\ proc'.last = proc.last /\ proc'.sequential = proc.sequential
           /\ proc'.fee = proc.fee /\ proc'.res = proc.res
      BY <1>1, <2>1, Zenon DEF Process, Stage
    <2>12. Counted'
      BY <2>2, <2>3, <2>4, <2>8, <2>9, <2>11, SMTT(40) DEF Counted
    <2>13. proc'.index \in (Before(proc.seq) + 1)..(End[proc.seq] + 1)
      BY <1>1, <2>2, <2>3, <2>4, <2>11, SMTT(60) DEF Tx
    <2>14. Reached'
      BY <1>1, <2>1, <2>2, <2>11, <2>13, Zenon DEF Reached, Good
    <2>15. \A g \in mem'.pending : g[1] < proc'.index /\ SeqOf[g[1]] = proc'.seq
      <3>1. \A g \in mem.pending : g[1] \in Nat
        BY <1>1 DEF Record, Hash, Tx
      <3> QED BY <2>2, <2>4, <2>5, <2>8, <2>11, <3>1
    <2>16. Progress'
      <3>1. proc'.index <= proc'.last + 1 /\ proc'.last <= End[proc'.seq]
        BY <1>1, <2>2, <2>4, <2>11
      <3>2. proc'.sequential => ~(proc'.index <= proc'.last)
        BY <2>2, <2>4, <2>11
      <3>3. \A t \in Tx : t >= proc'.index /\ proc'.res[t] = "ok" =>
                           <<t, proc'.fee>> \notin mem'.receipts
        BY <2>2, <2>4, <2>8, <2>11 DEF Tx
      <3> QED BY <2>11, <2>12, <2>14, <2>15, <3>1, <3>2, <3>3, Zenon DEF Progress
    <2>17. InOrder' /\ Discipline' /\ Truthful(main.record)'
      <3>1. main'.record = main.record
        BY <2>1, Zenon DEF IInv, Types
      <3> QED BY <2>1, <3>1, Zenon DEF IInv, InOrder, Discipline, Account, Truthful, Outcome
    <2> QED BY <2>7, <2>10, <2>16, <2>17, Zenon DEF IInv
  <1> QED BY <1>2, <1>3, Zenon DEF sent

\* A checked hash stays pending, or leaves and maybe has its receipt added; only
\* the latter is no error.
LEMMA CheckedKeeps ==
  ASSUME IInv, NEW h \in proc.left, NEW m, NEW error \in BOOLEAN, Checked(h, m, error),
         \/ m = add_receipt(remove_pending(mem, h), h) /\ Outcome(h, TRUE)
         \/ m \in {mem, remove_pending(mem, h)} /\ error
  PROVE  IInv'
  <1>1. /\ Stage = "wait" /\ proc \in Process /\ mem \in Record
        /\ mem' = m /\ UNCHANGED <<from, pool, log, main>>
        /\ proc' = [proc EXCEPT !.left = @ \ {h}, !.errors = @ \/ error]
    BY Zenon DEF IInv, Types, Checked, At, Become, Stage, chains, files
  <1>2. /\ proc.left \subseteq mem.pending
        /\ proc.seq # 0 => Reached
        /\ ~proc.errors => mem.pending = proc.left /\ (proc.seq # 0 => Counted)
        /\ proc.seq # 0 => \A g \in mem.pending : SeqOf[g[1]] = proc.seq
    BY <1>1, Zenon DEF IInv, Progress
  <1>3. /\ h \in Hash /\ h \in mem.pending /\ h \notin mem.receipts
        /\ h[1] \in Tx /\ SeqOf[h[1]] \in Seqs
    <2>1. h \in Hash /\ h \in mem.pending /\ h \notin mem.receipts
      BY <1>1, <1>2, Zenon DEF Record, IInv, Truthful
    <2> QED BY <2>1, ScriptAssumption, Zenon DEF Hash
  <1>4. /\ Stage' = "wait" /\ proc'.seq = proc.seq /\ proc'.index = proc.index
        /\ proc'.left = proc.left \ {h} /\ proc'.errors = (proc.errors \/ error)
        /\ proc'.sequential = proc.sequential
    BY <1>1, Zenon DEF Process, Stage
  <1>5. proc' \in Process
    <2>1. (proc.errors \/ error) \in BOOLEAN /\ proc.left \ {h} \in SUBSET Hash
      BY <1>1, Zenon DEF Process
    <2>2. PICK e \in BOOLEAN, l \in SUBSET Hash : proc' = [proc EXCEPT !.left = l, !.errors = e]
      BY <1>1, <2>1, Zenon
    <2> QED BY <1>1, <2>2, ZenonT(60) DEF Process
  <1>6. proc.seq # 0 => Reached'
    BY <1>1, <1>2, <1>4, Zenon DEF Reached, Good
  <1>7. InOrder' /\ Discipline' /\ Truthful(main.record)'
    BY <1>1, Zenon DEF IInv, InOrder, Discipline, Account, Truthful, Outcome
  <1>8. /\ IsFiniteSet(mem.pending \ {h}) /\ Cardinality(mem.pending) \in Nat
        /\ Cardinality(mem.pending \ {h}) = Cardinality(mem.pending) - 1
    BY <1>3, FS_RemoveElement, FS_CardinalityType, Zenon DEF IInv, Truthful
  <1>9. CASE m \in {mem, remove_pending(mem, h)} /\ error
    <2>1. /\ mem'.receipts = mem.receipts /\ mem'.len = mem.len /\ mem' \in Record
          /\ mem'.pending \in {mem.pending, mem.pending \ {h}}
      BY <1>1, <1>9, Zenon DEF remove_pending, Record
    <2>2. Types'
      BY <1>1, <1>5, <2>1, Zenon DEF IInv, Types
    <2>3. Truthful(mem)'
      <3>1. IsFiniteSet(mem'.receipts) /\ IsFiniteSet(mem'.pending)
        BY <1>1, <1>8, <2>1, Zenon DEF IInv, Truthful
      <3>2. \A k \in mem'.receipts : Outcome(k, TRUE)'
        BY <1>1, <2>1, ZenonT(40) DEF IInv, Truthful, Outcome
      <3>3. mem'.receipts \cap mem'.pending = {}
        BY <1>1, <2>1, Zenon DEF IInv, Truthful
      <3>4. \A s \in Seqs :
              mem'.len[s] = Cardinality({k \in mem'.receipts : SeqOf[k[1]] = s})
        BY <1>1, <2>1, Zenon DEF IInv, Truthful
      <3> QED BY <3>1, <3>2, <3>3, <3>4, Zenon DEF Truthful
    <2>4. Progress'
      BY <1>2, <1>4, <1>6, <1>9, <2>1, Zenon DEF Progress
    <2> QED BY <1>7, <2>2, <2>3, <2>4, Zenon DEF IInv
  <1>10. CASE m = add_receipt(remove_pending(mem, h), h) /\ Outcome(h, TRUE)
    <2>1. /\ mem'.receipts = mem.receipts \cup {h} /\ mem'.pending = mem.pending \ {h}
          /\ mem'.len = [mem.len EXCEPT ![SeqOf[h[1]]] = @ + 1]
          /\ mem' \in Record
      <3> DEFINE r == remove_pending(mem, h)
      <3>1. /\ r \in Record /\ r.receipts = mem.receipts /\ r.len = mem.len
            /\ r.pending = mem.pending \ {h}
        BY <1>1, Zenon DEF remove_pending, Record
      <3>2. [r.len EXCEPT ![SeqOf[h[1]]] = @ + 1] \in [Seqs -> Nat]
        BY <1>3, <3>1 DEF Record
      <3>3. mem' = [r EXCEPT !.receipts = r.receipts \cup {h},
                             !.len = [r.len EXCEPT ![SeqOf[h[1]]] = @ + 1]]
        BY <1>1, <1>10, <3>1, Zenon DEF add_receipt, Record
      <3> QED BY <1>3, <3>1, <3>2, <3>3, Zenon DEF Record
    <2>2. Types'
      BY <1>1, <1>5, <2>1, Zenon DEF IInv, Types
    <2>3. ASSUME NEW s \in Seqs
          PROVE  mem'.len[s] = Cardinality({g \in mem'.receipts : SeqOf[g[1]] = s})
      <3> DEFINE R == {g \in mem.receipts : SeqOf[g[1]] = s}
      <3>1. mem.len[s] = Cardinality(R) /\ IsFiniteSet(R) /\ mem.len \in [Seqs -> Nat]
        <4>1. R \in SUBSET mem.receipts /\ IsFiniteSet(mem.receipts)
          BY Zenon DEF IInv, Truthful
        <4> QED BY <1>1, <4>1, FS_Subset, Zenon DEF IInv, Truthful, Record
      <3>2. CASE SeqOf[h[1]] = s
        <4>1. {g \in mem'.receipts : SeqOf[g[1]] = s} = R \cup {h} /\ h \notin R
          BY <1>3, <2>1, <3>2, Zenon
        <4>2. Cardinality(R \cup {h}) = Cardinality(R) + 1
          BY <3>1, <4>1, FS_AddElement, Zenon
        <4> QED BY <2>1, <3>1, <3>2, <4>1, <4>2, Zenon
      <3>3. CASE SeqOf[h[1]] # s
        <4>1. {g \in mem'.receipts : SeqOf[g[1]] = s} = R
          BY <2>1, <3>3, Zenon
        <4> QED BY <1>3, <2>1, <3>1, <3>3, <4>1, Zenon
      <3> QED BY <3>2, <3>3, Zenon
    <2>4. Truthful(mem)'
      <3>1. IsFiniteSet(mem'.receipts)
        <4>1. IsFiniteSet(mem.receipts)
          BY Zenon DEF IInv, Truthful
        <4>2. IsFiniteSet(mem.receipts \cup {h})
          BY <4>1, FS_AddElement, Zenon
        <4> QED BY <2>1, <4>2, Zenon
      <3>2. \A g \in mem'.receipts : Outcome(g, TRUE)'
        BY <1>1, <1>10, <2>1, SMTT(40) DEF IInv, Truthful, Outcome
      <3> QED BY <1>8, <2>1, <2>3, <3>1, <3>2, Zenon DEF IInv, Truthful
    <2>5. ~proc.errors /\ proc.seq # 0 => Counted'
      <3>1. HAVE ~proc.errors /\ proc.seq # 0
      <3>2. Counted /\ SeqOf[h[1]] = proc.seq /\ mem.len \in [Seqs -> Nat]
        BY <1>1, <1>2, <1>3, <3>1, Zenon DEF Record
      <3>3. mem'.len[proc.seq] = mem.len[proc.seq] + 1 /\ mem.len[proc.seq] \in Nat
        BY <1>3, <2>1, <3>2, Zenon
      <3>4. Cardinality(mem'.pending) = Cardinality(mem.pending) - 1
        BY <1>8, <2>1, Zenon
      <3> QED BY <1>4, <1>8, <3>2, <3>3, <3>4 DEF Counted
    <2>6. Progress'
      BY <1>2, <1>3, <1>4, <1>6, <2>1, <2>5, Zenon DEF Progress
    <2> QED BY <1>7, <2>2, <2>4, <2>6, Zenon DEF IInv
  <1> QED BY <1>9, <1>10, Zenon

\* The transaction a chain executes is the next one of the script.
LEMMA MineNext ==
  ASSUME IInv, NEW h \in pool, NEW ok \in BOOLEAN, Mine(h, ok)
  PROVE  h \in Hash /\ h[1] = Len(log) + 1 /\ h[1] \in Tx
  <1>1. h \in Hash /\ h[1] \in Tx
    BY Zenon DEF IInv, Types, Hash
  <1>2. /\ h[1] > Len(log)
        /\ \A u \in 1..(h[1] - 1) : Account(u) = Account(h[1]) => u <= Len(log)
    <2>1. Nonce(h[1]) = TransactionCount(Account(h[1]))
      BY Zenon DEF Mine
    <2>2. Nonce(h[1]) \in Nat
      <3> DEFINE A == {u \in 1..(h[1] - 1) : Account(u) = Account(h[1])}
      <3>1. IsFiniteSet(1..(h[1] - 1)) /\ A \in SUBSET (1..(h[1] - 1))
        BY <1>1, FS_Interval DEF Tx
      <3> QED BY <3>1, FS_Subset, FS_CardinalityType, Zenon DEF Nonce
    <2> QED BY <1>1, <2>1, <2>2, NonceOrder DEF IInv
  <1>3. \A u \in 1..(h[1] - 1) : u <= Len(log)
    BY <1>2, Zenon DEF IInv, Discipline
  <1>4. Len(log) \in Nat /\ h[1] \in Nat
    BY <1>1 DEF IInv, Types, Tx
  <1>5. CASE h[1] = 1
    BY <1>1, <1>2, <1>4, <1>5
  <1>6. CASE h[1] # 1
    <2>1. h[1] - 1 \in 1..(h[1] - 1)
      BY <1>1, <1>4, <1>6 DEF Tx
    <2>2. h[1] - 1 <= Len(log)
      BY <1>3, <2>1, Zenon
    <2> QED BY <1>1, <1>2, <1>4, <2>2
  <1> QED BY <1>5, <1>6, Zenon

\* What a chain executes is added to the log at its place in the script.
LEMMA MineKeeps ==
  ASSUME IInv, NEW h \in pool, NEW ok \in BOOLEAN, Mine(h, ok)
  PROVE  IInv'
  <1> DEFINE e == [hash |-> h, ok |-> ok]
  <1>1. /\ log' = Append(log, e) /\ pool' \subseteq pool
        /\ UNCHANGED <<from, mem, main, proc>>
    BY Zenon DEF Mine, files
  <1>2. h \in Hash /\ h[1] = Len(log) + 1
    BY MineNext, Zenon
  <1>3. e \in [hash : Hash, ok : BOOLEAN] /\ log \in Seq([hash : Hash, ok : BOOLEAN])
    BY <1>2, Zenon DEF IInv, Types
  <1>4. /\ log' \in Seq([hash : Hash, ok : BOOLEAN])
        /\ Len(log) \in Nat /\ Len(log') = Len(log) + 1
        /\ DOMAIN log = 1..Len(log) /\ DOMAIN log' = 1..(Len(log) + 1)
        /\ \A k \in 1..Len(log) : log'[k] = log[k]
        /\ log'[Len(log) + 1] = e
    BY <1>1, <1>3, SMTT(40)
  <1>5. Types'
    BY <1>1, <1>4, Zenon DEF IInv, Types
  <1>6. InOrder'
    <2>1. SUFFICES ASSUME NEW k \in 1..Len(log') PROVE log'[k].hash[1] = k
      BY Zenon DEF InOrder
    <2>2. k \in 1..Len(log) \/ k = Len(log) + 1
      BY <1>4, SMTT(60)
    <2>3. \A j \in 1..Len(log) : log[j].hash[1] = j
      BY Zenon DEF IInv, InOrder
    <2> QED BY <1>2, <1>4, <2>2, <2>3, SMTT(60)
  <1>7. \A g, o : Outcome(g, o) => Outcome(g, o)'
    BY <1>4 DEF Outcome
  <1>8. Truthful(mem)' /\ Truthful(main.record)'
    BY <1>1, <1>7, Zenon DEF IInv, Truthful
  <1>9. Discipline'
    <2>1. SUFFICES ASSUME NEW g \in pool, NEW u \in 1..(g[1] - 1), Account(u) # Account(g[1])
                   PROVE  u <= Len(log) + 1
      BY <1>1, <1>4, Zenon DEF Discipline, Account
    <2>2. u <= Len(log) /\ u \in Int
      BY <2>1 DEF IInv, Discipline
    <2> QED BY <1>4, <2>2
  <1>10. \A n \in Int : Good(n) => Good(n)'
    BY <1>4 DEF Good
  <1>11. Reached => Reached'
    <2>1. HAVE Reached
    <2>2. Before(proc.seq) \in Int
      BY <2>1, Division DEF Reached
    <2>3. Good(Before(proc.seq))'
      BY <1>1, <1>10, <2>1, <2>2, Zenon DEF Reached, Good
    <2> QED BY <1>1, <2>1, <2>3, Zenon DEF Reached, Stage
  <1>12. Progress'
    BY <1>1, <1>11, Zenon DEF IInv, Progress, Stage, Counted
  <1> QED BY <1>5, <1>6, <1>8, <1>9, <1>12, Zenon DEF IInv

-----------------------------------------------------------------------------
\* The inductive invariant holds before the first command.
LEMMA InitIInv == Init => IInv
  <1>1. HAVE Init
  <1>2. Types
    BY <1>1, FreshRecord, NoRunType DEF Init, Types
  <1>3. Stage = "idle"
    BY <1>1, Zenon DEF Init, Stage, NoRun
  <1>4. Truthful(mem) /\ Truthful(main.record)
    BY <1>1, FreshRecord, Zenon DEF Init
  <1>5. InOrder /\ Discipline
    BY <1>1 DEF Init, InOrder, Discipline
  <1> QED BY <1>2, <1>3, <1>4, <1>5, Zenon DEF IInv, Progress

\* One case per action.
LEMMA StepIInv == IInv /\ [Next]_vars => IInv'
  <1>1. SUFFICES ASSUME IInv, [Next]_vars PROVE IInv'
    OBVIOUS
  <1>2. CASE UNCHANGED vars
    <2>1. UNCHANGED <<from, pool, log, mem, main, proc>>
      BY <1>2, Zenon DEF vars, chains, files
    <2>2. Types'
      BY <1>1, <2>1, Zenon DEF IInv, Types
    <2>3. Progress'
      BY <1>1, <2>1, Zenon DEF IInv, Progress, Reached, Counted, Good, Stage
    <2> QED BY <1>1, <2>1, <2>2, <2>3, Kept, Zenon
  <1>3. CASE save_sensitive \/ save_end
    BY <1>1, <1>3, SaveSensitiveKeeps, SaveEndKeeps, Zenon
  <1>4. ASSUME NEW h \in proc.left, tx_success(h) PROVE IInv'
    BY <1>1, <1>4, CheckedKeeps, Zenon DEF tx_success
  <1>5. ASSUME NEW h \in proc.left, tx_revert(h) \/ tx_dropped(h) \/ tx_error(h) PROVE IInv'
    <2>1. PICK m \in {mem, remove_pending(mem, h)} : Checked(h, m, TRUE)
      BY <1>5, Zenon DEF tx_revert, tx_dropped, tx_error
    <2> QED BY <1>1, <2>1, CheckedKeeps, Zenon
  <1>6. CASE wait_for_pending \/ exit \/ broadcast_refused
    BY <1>1, <1>6, WaitKeeps, DropKeeps, Zenon DEF exit, broadcast_refused
  <1>7. CASE sequence_done \/ \E fee \in Fee, seq \in BOOLEAN : sequence_start(fee, seq)
    BY <1>1, <1>7, SequenceDoneKeeps, SequenceStartKeeps, Zenon
  <1>8. CASE batch \/ sent \/ batch_sent
    BY <1>1, <1>8, BatchKeeps, SentKeeps, BatchSentKeeps, Zenon
  <1>9. ASSUME NEW t \in Tx, send_transaction(t) \/ send_unanswered(t) \/ send_fails(t)
        PROVE  IInv'
    BY <1>1, <1>9, SendKeeps, SendFailsKeeps, Zenon DEF send_transaction, send_unanswered
  <1>10. CASE Crash \/ Simulate \/ bundle \/ resume \/ \E h \in pool : Evict(h)
    BY <1>1, <1>10, CrashKeeps, SimulateKeeps, BundleKeeps, ResumeKeeps, EvictKeeps, Zenon
  <1>11. ASSUME NEW h \in pool, NEW ok \in BOOLEAN, Mine(h, ok) PROVE IInv'
    BY <1>1, <1>11, MineKeeps, Zenon
  <1> QED BY <1>1, <1>2, <1>3, <1>4, <1>5, <1>6, <1>7, <1>8, <1>9, <1>10, <1>11, Zenon
          DEF Next, Run, Failure, resume_fails

\* The inductive invariant holds in every run of a script and of its resumes.
THEOREM Invariance == Spec => []IInv
  BY InitIInv, StepIInv, PTL DEF Spec

\* What broadcast skips by the number of receipts was executed.
THEOREM AlwaysSkippedExecuted == Spec => []SkippedExecuted
  <1>1. IInv => SkippedExecuted
    <2>1. SUFFICES ASSUME IInv, At("batch"), NEW t \in Tx, t < proc.index
                   PROVE  t \in Executed
      BY Zenon DEF SkippedExecuted
    <2>2. Stage = "batch" /\ proc.seq \in Seqs /\ Good(Before(proc.seq)) /\ Counted
          /\ mem.pending = {}
      BY <2>1, Zenon DEF At, Stage, IInv, Progress, Reached
    <2>3. mem.len[proc.seq] <= Len(log) - Before(proc.seq)
      BY <2>1, <2>2, ReceiptsCounted, Zenon DEF IInv
    <2>4. mem.len[proc.seq] = proc.index - 1 - Before(proc.seq)
      <3>1. Cardinality(mem.pending) = 0
        BY <2>2, FS_EmptySet, Zenon
      <3>2. mem.len[proc.seq] \in Nat
        BY <2>1, <2>2, Zenon DEF IInv, Types, Record
      <3> QED BY <2>2, <3>1, <3>2, SMTT(40) DEF Counted
    <2>5. /\ proc.index \in Nat /\ Len(log) \in Nat /\ Before(proc.seq) \in Int
          /\ DOMAIN log = 1..Len(log) /\ t \in Nat /\ t >= 1
      BY <2>1, <2>2, Division, ScriptAssumption, SMTT(60) DEF IInv, Types, Process, Tx
    <2>6. t \in 1..Len(log)
      BY <2>1, <2>3, <2>4, <2>5
    <2> QED BY <2>1, <2>5, <2>6, Zenon DEF IInv, InOrder, Executed
  <1> QED BY <1>1, Invariance, PTL

-----------------------------------------------------------------------------
(* The files *)

\* After the first write the file holds what is in memory.
Written == At("saved") => main = [state |-> "whole", record |-> mem]

\* A step keeps what the files have of the awaited transactions: only the end of
\* a save starts a wait, or a resume from these files.
LEMMA StepRecorded ==
  IInv /\ Written /\ WaitRecorded /\ [Next]_vars => Written' /\ WaitRecorded'
  <1>1. SUFFICES ASSUME IInv, Written, WaitRecorded, [Next]_vars
                 PROVE  Written' /\ WaitRecorded'
    OBVIOUS
  <1>2. proc \in Process
    BY <1>1, Zenon DEF IInv, Types
  <1>3. CASE UNCHANGED <<proc, mem, main, sensitive>>
    BY <1>1, <1>3, Zenon DEF Written, WaitRecorded, At, loaded
  <1>4. CASE proc'.at \notin {"saved", "wait"}
    BY <1>4, Zenon DEF Written, WaitRecorded, At
  <1>5. CASE save_sensitive
    <2>1. proc'.at = "saved" /\ main' = [state |-> "whole", record |-> mem] /\ mem' = mem
      BY <1>2, <1>5, Zenon DEF save_sensitive, Become, Process
    <2> QED BY <2>1, Zenon DEF Written, WaitRecorded, At
  <1>6. CASE save_end
    <2>1. CASE proc.then = "idle"
      <3>1. proc'.at = "idle"
        BY <1>6, <2>1, Zenon DEF save_end, Become, NoRun
      <3> QED BY <1>4, <3>1, Zenon
    <2>2. CASE proc.then # "idle"
      <3>1. /\ proc'.at = proc.then /\ proc'.left = proc.left
            /\ main' = main /\ main = [state |-> "whole", record |-> mem]
            /\ sensitive' = "whole"
        BY <1>1, <1>2, <1>6, <2>2, Zenon DEF save_end, Become, Process, Written
      <3>2. proc.at = "saved" /\ proc.then # "saved"
        BY <1>1, <1>6, Zenon DEF save_end, At, IInv, Progress, Stage
      <3>3. proc.then = "wait" => proc.left \subseteq mem.pending
        BY <1>1, <3>2, Zenon DEF IInv, Progress, Stage
      <3> QED BY <3>1, <3>2, <3>3, Zenon DEF Written, WaitRecorded, At, loaded
    <2> QED BY <2>1, <2>2, Zenon
  <1>7. ASSUME NEW h, NEW m, NEW error \in BOOLEAN, Checked(h, m, error)
        PROVE  Written' /\ WaitRecorded'
    <2>1. /\ proc.at = "wait" /\ proc'.at = "wait" /\ proc'.left = proc.left \ {h}
          /\ UNCHANGED <<main, sensitive>>
      BY <1>2, <1>7, Zenon DEF Checked, At, Become, Process, files
    <2> QED BY <1>1, <2>1, Zenon DEF Written, WaitRecorded, At, loaded
  <1>8. CASE wait_for_pending \/ exit \/ broadcast_refused \/ sent \/ batch_sent
    <2>1. proc'.at = "save"
      BY <1>2, <1>8, ZenonT(60) DEF wait_for_pending, exit, broadcast_refused, sent, batch_sent,
         Drop, save, Become, Process
    <2> QED BY <1>4, <2>1, Zenon
  <1>9. ASSUME NextSequence PROVE proc'.at \notin {"saved", "wait"}
    BY <1>2, <1>9, Zenon DEF NextSequence, Drop, save, Become, Process
  <1>10. CASE sequence_done \/ batch
    <2>1. proc'.at \notin {"saved", "wait"}
      BY <1>2, <1>9, <1>10, Zenon DEF sequence_done, batch, Become, Process
    <2> QED BY <1>4, <2>1, Zenon
  <1>11. ASSUME NEW fee \in Fee, NEW seq \in BOOLEAN, sequence_start(fee, seq)
         PROVE  Written' /\ WaitRecorded'
    <2>1. proc'.at = "batch"
      BY <1>2, <1>11, Zenon DEF sequence_start, Become, Process
    <2> QED BY <1>4, <2>1, Zenon
  <1>12. ASSUME NEW t \in Tx, NEW result, Sending(t, result)
         PROVE  Written' /\ WaitRecorded'
    <2>1. proc'.at = "send"
      BY <1>2, <1>12, Zenon DEF Sending, At, Become, Process
    <2> QED BY <1>4, <2>1, Zenon
  <1>13. CASE Crash
    <2>1. proc'.at = "idle"
      BY <1>13, Zenon DEF Crash, Become, NoRun
    <2> QED BY <1>4, <2>1, Zenon
  <1>14. CASE bundle
    <2>1. proc'.at = "wait" /\ proc'.left = {}
      BY <1>14, Zenon DEF bundle, Become, NoRun
    <2> QED BY <2>1, Zenon DEF Written, WaitRecorded, At
  <1>15. CASE resume
    <2>1. CASE resume_loaded
      <3>1. /\ proc'.at = "wait" /\ proc'.left = main.record.pending /\ loaded
            /\ UNCHANGED <<main, sensitive>>
        BY <2>1, Zenon DEF resume_loaded, Become, NoRun, files
      <3> QED BY <3>1, Zenon DEF Written, WaitRecorded, At, loaded
    <2>2. CASE resume_dry_run
      <3>1. proc'.at = "save"
        BY <2>2, Zenon DEF resume_dry_run, save, Become, NoRun
      <3> QED BY <1>4, <3>1, Zenon
    <2> QED BY <1>15, <2>1, <2>2, Zenon DEF resume
  <1>16. CASE Run
    BY <1>5, <1>6, <1>7, <1>8, <1>10, <1>11, <1>12, <1>16, Zenon
       DEF Run, tx_success, tx_revert, tx_dropped, send_transaction, send_fails
  <1>17. CASE Failure
    <2>1. ASSUME NEW h \in pool, Evict(h) PROVE UNCHANGED <<proc, mem, main, sensitive>>
      BY <2>1, Zenon DEF Evict, files
    <2> QED BY <1>3, <1>7, <1>8, <1>12, <1>13, <1>17, <2>1, Zenon
        DEF Failure, tx_error, send_unanswered
  <1>18. CASE Simulate \/ resume_fails \/ UNCHANGED vars
    BY <1>3, <1>18, Zenon DEF Simulate, resume_fails, vars, chains, files
  <1>19. ASSUME NEW h \in pool, NEW ok \in BOOLEAN, Mine(h, ok)
         PROVE  Written' /\ WaitRecorded'
    BY <1>3, <1>19, Zenon DEF Mine, files
  <1> QED BY <1>1, <1>14, <1>15, <1>16, <1>17, <1>18, <1>19, Zenon DEF Next

\* While receipts are waited for, the files name every transaction that is waited
\* for: a kill during a wait loses none.
THEOREM AlwaysWaitRecorded == Spec => []WaitRecorded
  <1>1. Init => Written /\ WaitRecorded
    BY SMTT(40) DEF Init, NoRun, Written, WaitRecorded, At
  <1> QED BY <1>1, StepRecorded, Invariance, PTL DEF Spec

-----------------------------------------------------------------------------
(* The refinement *)

history == [k \in DOMAIN log |-> [tx |-> log[k].hash[1], ok |-> log[k].ok]]

\* What is executed is a sequence as long as the log.
LEMMA HistoryLen ==
  ASSUME Types
  PROVE  /\ history \in Seq([tx : Tx, ok : BOOLEAN]) /\ Len(history) = Len(log)
         /\ DOMAIN log = 1..Len(log) /\ Len(log) \in Nat
         /\ \A k \in 1..Len(log) :
               /\ history[k] = [tx |-> log[k].hash[1], ok |-> log[k].ok]
               /\ log[k].hash[1] \in Tx
  <1>1. Len(log) \in Nat /\ DOMAIN log = 1..Len(log)
    BY DEF Types
  <1>2. \A k \in 1..Len(log) : log[k].hash[1] \in Tx /\ log[k].ok \in BOOLEAN
    <2>1. SUFFICES ASSUME NEW k \in 1..Len(log)
                   PROVE  log[k].hash[1] \in Tx /\ log[k].ok \in BOOLEAN
      OBVIOUS
    <2>2. log[k] \in [hash : Hash, ok : BOOLEAN]
      <3> DEFINE S == [hash : Hash, ok : BOOLEAN]
      <3>1. log \in Seq(S)
        BY Zenon DEF Types
      <3> HIDE DEF S
      <3>2. log[k] \in S
        BY <2>1, <3>1
      <3> QED BY <3>2, Zenon DEF S
    <2>3. log[k].hash \in Hash /\ log[k].ok \in BOOLEAN
      BY <2>2, Zenon
    <2> QED BY <2>3, Zenon DEF Hash
  <1>3. history \in [1..Len(log) -> [tx : Tx, ok : BOOLEAN]]
    BY <1>1, <1>2, Zenon DEF history
  <1> QED BY <1>1, <1>2, <1>3, SMTT(60) DEF history

\* Success is reported when all transactions are executed and none reverted.
LEMMA NextSequenceReports ==
  ASSUME IInv, Good(End[proc.seq]), proc.seq \in Seqs, NextSequence, UNCHANGED log
  PROVE  UNCHANGED <<log, reported>> \/ Abstract!Report
  <1>1. CASE proc.seq = K
    <2>1. Good(N) /\ reported' = TRUE
      BY <1>1, Division, Zenon DEF NextSequence
    <2>2. /\ N \in Nat /\ Len(history) = Len(log) /\ Len(log) \in Nat
          /\ \A k \in 1..Len(log) : history[k] = [tx |-> log[k].hash[1], ok |-> log[k].ok]
      BY HistoryLen, ScriptAssumption, Zenon DEF IInv
    <2>3. Len(log) <= N
      <3>1. CASE Len(log) = 0
        BY <2>2, <3>1
      <3>2. CASE Len(log) # 0
        <4>1. Len(log) \in 1..Len(log)
          BY <2>2, <3>2
        <4>2. log[Len(log)].hash[1] = Len(log) /\ log[Len(log)].hash[1] \in Tx
          BY <4>1, HistoryLen, Zenon DEF IInv, InOrder
        <4> QED BY <4>2, ScriptAssumption DEF Tx
      <3> QED BY <3>1, <3>2, Zenon
    <2>4. Len(history) = N
      BY <2>1, <2>2, <2>3, SMTT(40) DEF Good
    <2>5. \A k \in 1..N : history[k].ok
      BY <2>1, <2>2, <2>4 DEF Good
    <2>6. UNCHANGED history
      BY Zenon DEF history
    <2> QED BY <2>1, <2>4, <2>5, <2>6, Zenon DEF Abstract!Report, history
  <1>2. CASE proc.seq # K
    BY <1>2, Zenon DEF NextSequence
  <1> QED BY <1>1, <1>2, Zenon

\* Where broadcast goes on to the next sequence, this one succeeded.
LEMMA SequenceReports ==
  ASSUME IInv, sequence_done \/ batch
  PROVE  UNCHANGED <<log, reported>> \/ Abstract!Report
  <1>1. CASE sequence_done
    <2>1. Stage = "sequence"
      BY <1>1, Zenon DEF sequence_done, At, Stage
    <2>2. proc.seq \in Seqs /\ Good(Before(proc.seq))
      BY <2>1, Zenon DEF IInv, Progress, Reached
    <2>3. Good(End[proc.seq])
      BY <1>1, <2>2, ReceiptsCounted, Zenon DEF IInv, sequence_done, already_broadcasted
    <2> QED BY <1>1, <2>2, <2>3, NextSequenceReports, Zenon DEF sequence_done, chains
  <1>2. CASE batch /\ ~(proc.index > End[proc.seq])
    BY <1>2, Zenon DEF batch, chains
  <1>3. CASE batch /\ proc.index > End[proc.seq]
    <2>1. Stage = "batch" /\ UNCHANGED log
      BY <1>3, Zenon DEF batch, At, Stage, chains
    <2>2. /\ proc.seq \in Seqs /\ Good(Before(proc.seq)) /\ Counted
          /\ Cardinality(mem.pending) = 0
      BY <2>1, FS_EmptySet, Zenon DEF IInv, Progress, Reached
    <2>3. /\ Before(proc.seq) \in Int /\ End[proc.seq] \in Int /\ proc.index \in Int
          /\ mem.len[proc.seq] \in Nat
      BY <2>2, Division, SMTT(40) DEF Tx, IInv, Types, Record, Process
    <2>4. mem.len[proc.seq] >= End[proc.seq] - Before(proc.seq)
      BY <1>3, <2>2, <2>3, SMTT(40) DEF Counted
    <2>5. Good(End[proc.seq])
      BY <2>2, <2>4, ReceiptsCounted, Zenon DEF IInv
    <2>6. NextSequence
      BY <1>3, <2>3 DEF batch
    <2> QED BY <2>1, <2>2, <2>5, <2>6, NextSequenceReports, Zenon
  <1> QED BY <1>1, <1>2, <1>3, Zenon

\* What a chain executes is the next transaction of the script.
LEMMA MineExecutes ==
  ASSUME IInv, NEW h \in pool, NEW ok \in BOOLEAN, Mine(h, ok)
  PROVE  Abstract!Execute(ok)
  <1> DEFINE e == [hash |-> h, ok |-> ok]
  <1>1. log' = Append(log, e) /\ UNCHANGED reported
    BY Zenon DEF Mine
  <1>2. h \in Hash /\ h[1] = Len(log) + 1 /\ h[1] \in Tx
    BY MineNext, Zenon
  <1>3. e \in [hash : Hash, ok : BOOLEAN] /\ log \in Seq([hash : Hash, ok : BOOLEAN])
    BY <1>2, Zenon DEF IInv, Types
  <1>4. /\ Len(log) \in Nat /\ Len(log') = Len(log) + 1
        /\ DOMAIN log = 1..Len(log) /\ DOMAIN log' = 1..(Len(log) + 1)
        /\ \A k \in 1..Len(log) : log'[k] = log[k]
        /\ log'[Len(log) + 1] = e
    BY <1>1, <1>3
  <1>5. /\ history \in Seq([tx : Tx, ok : BOOLEAN]) /\ Len(history) = Len(log)
        /\ \A k \in 1..Len(log) : history[k] = [tx |-> log[k].hash[1], ok |-> log[k].ok]
    BY HistoryLen, Zenon DEF IInv
  <1> DEFINE f == [tx |-> Len(log) + 1, ok |-> ok]
  <1>6. f \in [tx : Tx, ok : BOOLEAN]
    BY <1>2, Zenon
  <1>7. history' = Append(history, f)
    <2>1. DOMAIN history' = 1..(Len(log) + 1)
      BY <1>4, Zenon DEF history
    <2>2. /\ DOMAIN Append(history, f) = 1..(Len(log) + 1)
          /\ \A k \in 1..Len(log) : Append(history, f)[k] = history[k]
          /\ Append(history, f)[Len(log) + 1] = f
          /\ Append(history, f) \in Seq([tx : Tx, ok : BOOLEAN])
      BY <1>4, <1>5, <1>6, SMTT(60)
    <2>3. \A k \in 1..(Len(log) + 1) : history'[k] = Append(history, f)[k]
      <3>1. SUFFICES ASSUME NEW k \in 1..(Len(log) + 1)
                     PROVE  history'[k] = Append(history, f)[k]
        BY Zenon
      <3>2. history'[k] = [tx |-> log'[k].hash[1], ok |-> log'[k].ok]
        BY <1>4, <3>1, Zenon DEF history
      <3>3. CASE k \in 1..Len(log)
        BY <1>4, <1>5, <2>2, <3>2, <3>3, Zenon
      <3>4. CASE k = Len(log) + 1
        BY <1>2, <1>4, <2>2, <3>2, <3>4, SMTT(60)
      <3>5. k \in 1..Len(log) \/ k = Len(log) + 1
        BY <1>4, <3>1
      <3> QED BY <3>3, <3>4, <3>5, Zenon
    <2>4. history' = [k \in DOMAIN history' |-> history'[k]]
      BY Zenon DEF history
    <2>5. Append(history, f) = [k \in 1..(Len(log) + 1) |-> Append(history, f)[k]]
      BY <2>2, SMTT(40)
    <2> QED BY <2>1, <2>3, <2>4, <2>5, Zenon
  <1>8. Len(history) < N
    BY <1>2, <1>4, <1>5, ScriptAssumption DEF Tx
  <1> QED BY <1>1, <1>5, <1>7, <1>8, Zenon DEF Abstract!Execute, history

\* Every step executes the next transaction, reports, or changes neither.
LEMMA StepDeploys == IInv /\ [Next]_vars => [Abstract!Next]_(Abstract!vars)
  <1>1. SUFFICES ASSUME IInv, [Next]_vars
                 PROVE  [Abstract!Next]_(Abstract!vars)
    OBVIOUS
  <1>2. CASE UNCHANGED <<log, reported>>
    BY <1>2, Zenon DEF Abstract!vars
  <1>3. CASE sequence_done \/ batch
    BY <1>1, <1>2, <1>3, SequenceReports, Zenon DEF Abstract!Next
  <1>4. ASSUME NEW h \in pool, NEW ok \in BOOLEAN, Mine(h, ok)
        PROVE  Abstract!Next
    BY <1>1, <1>4, MineExecutes, Zenon DEF Abstract!Next
  <1>5. CASE UNCHANGED vars
    BY <1>2, <1>5, Zenon DEF vars, chains
  <1>6. CASE Run /\ ~sequence_done /\ ~batch
    BY <1>2, <1>6, Zenon DEF Run, save_sensitive, save_end, tx_success, tx_revert, tx_dropped,
       Checked, wait_for_pending, exit, sequence_start, send_transaction, send_fails,
       Sending, sent, batch_sent, chains
  <1>7. CASE Failure
    BY <1>2, <1>7, Zenon DEF Failure, Crash, broadcast_refused, tx_error, Checked,
       send_unanswered, Sending, Evict, chains
  <1>8. CASE Simulate \/ bundle \/ resume \/ resume_fails
    BY <1>2, <1>5, <1>8, Zenon DEF Simulate, bundle, resume, resume_fails, chains
  <1> QED BY <1>1, <1>3, <1>4, <1>5, <1>6, <1>7, <1>8, Zenon DEF Next

\* ScriptBroadcast implements Deployment: whatever is killed, lost, dropped or
\* resumed, the transactions are executed in the order of the script, each at most
\* once, and success is printed only after all of them succeeded.
THEOREM AlwaysDeployed == Spec => Deployed
  <1>1. Init => Abstract!Init
    <2>1. HAVE Init
    <2>2. history = <<>>
      <3>1. log = <<>> /\ Types
        BY <2>1, InitIInv, Zenon DEF Init, IInv
      <3> QED BY <3>1, HistoryLen
    <2> QED BY <2>1, <2>2, Zenon DEF Init, Abstract!Init, history
  <1> QED BY <1>1, StepDeploys, Invariance, PTL DEF Spec, Deployed, Abstract!Spec
=============================================================================
