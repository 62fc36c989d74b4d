-------------------------- MODULE ScriptBroadcast --------------------------
(***************************************************************************)
(* Broadcasting of a script (crates/script): transactions are sent in      *)
(* batches, their hashes and receipts are saved to a pair of files, and    *)
(* `--resume` starts again from these files. The process may be killed     *)
(* anywhere, also between the writes of a save; requests fail, answers get *)
(* lost, the wait for a receipt times out and transactions revert.         *)
(***************************************************************************)
EXTENDS Integers, Sequences, FiniteSets

CONSTANTS
  N,          \* transactions of the script, numbered in its order
  K,          \* sequences: runs of transactions with the same RPC
  SeqOf,      \* the sequence of each transaction
  End,        \* the last transaction of each sequence
  Rpc,        \* the chain of each sequence
  Sender,     \* the accounts that send
  Fee,        \* fees a run may choose
  BatchSize,  \* --batch-size
  MaxFaults   \* bound: failures of all kinds

Tx == 1..N
Seqs == 1..K
\* A transaction signed with another fee has another hash.
Hash == Tx \X Fee

ASSUME ScriptAssumption ==
  /\ N \in Nat \ {0}
  /\ K \in Nat \ {0}
  /\ SeqOf \in [Tx -> Seqs]
  /\ End \in [Seqs -> Tx]
  /\ \A t \in Tx, s \in Seqs : t <= End[s] <=> SeqOf[t] <= s
  /\ DOMAIN Rpc = Seqs
  /\ Fee # {}
  /\ BatchSize \in Nat \ {0}
  /\ MaxFaults \in Nat

VARIABLES
  from,     \* sender of each transaction, fixed at the start
  pool,     \* hashes in the mempools of the chains
  log,      \* what the chains executed: hash and success, in order
  mem,      \* the sequences in memory: receipts, their number, pending hashes
  main,     \* the file in broadcast/, as a pair of a state and a record
  sensitive,\* state of the file in cache/
  dry,      \* state of the files of the last simulation, in dry-run/
  started,  \* whether the script was broadcast or resumed before
  reported, \* whether success was printed
  proc,     \* the process
  faults

chains == <<pool, log>>
files == <<main, sensitive, dry>>
vars == <<from, chains, mem, files, started, reported, proc, faults>>

Fresh == [receipts |-> {}, len |-> [s \in Seqs |-> 0], pending |-> {}]

NoRun == [at |-> "idle", then |-> "idle", seq |-> 0, sequential |-> FALSE,
          fee |-> CHOOSE f \in Fee : TRUE, index |-> 1, last |-> 0,
          res |-> [t \in Tx |-> "none"], left |-> {}, errors |-> FALSE]

Become(p) == proc' = p
At(label) == proc.at = label
Fault == faults < MaxFaults /\ faults' = faults + 1

-----------------------------------------------------------------------------
(* The chains *)

Account(t) == <<from[t], Rpc[SeqOf[t]]>>
Nonce(t) == Cardinality({u \in 1..(t - 1) : Account(u) = Account(t)})
Executed == {log[k].hash[1] : k \in DOMAIN log}
TransactionCount(a) == Cardinality({k \in DOMAIN log : Account(log[k].hash[1]) = a})
Outcome(h, ok) == \E k \in DOMAIN log : log[k].hash = h /\ log[k].ok = ok
Mined(h) == \E k \in DOMAIN log : log[k].hash = h

\* A transaction with the next nonce of its account is executed; others with
\* this nonce leave the mempools.
Mine(h, ok) ==
  /\ h \in pool
  /\ Nonce(h[1]) = TransactionCount(Account(h[1]))
  /\ log' = Append(log, [hash |-> h, ok |-> ok])
  /\ pool' = {g \in pool : g[1] # h[1]}
  /\ IF ok THEN UNCHANGED faults ELSE Fault
  /\ UNCHANGED <<from, mem, files, started, reported, proc>>

\* A mempool forgets a transaction.
Evict(h) ==
  /\ h \in pool
  /\ pool' = pool \ {h}
  /\ Fault
  /\ UNCHANGED <<from, log, mem, files, started, reported, proc>>

-----------------------------------------------------------------------------
(* Saving and loading *)

\* The save begins: the file is created, and with this emptied.
save(m, p, next) ==
  /\ mem' = m
  /\ main' = [main EXCEPT !.state = "torn"]
  /\ Become([p EXCEPT !.at = "save", !.then = next])
  /\ UNCHANGED <<sensitive, dry>>

\* Mutant: the pending hashes are not serialized.
save_sensitive_pending_skipped ==
  /\ At("save")
  /\ main' = [state |-> "whole", record |-> [mem EXCEPT !.pending = {}]]
  /\ sensitive' = "torn"
  /\ Become([proc EXCEPT !.at = "saved"])
  /\ UNCHANGED <<from, chains, mem, dry, started, reported, faults>>

save_sensitive ==
  /\ At("save")
  /\ main' = [state |-> "whole", record |-> mem]
  /\ sensitive' = "torn"
  /\ Become([proc EXCEPT !.at = "saved"])
  /\ UNCHANGED <<from, chains, mem, dry, started, reported, faults>>

save_end ==
  /\ At("saved")
  /\ sensitive' = "whole"
  /\ Become(IF proc.then = "idle" THEN NoRun ELSE [proc EXCEPT !.at = proc.then])
  /\ mem' = IF proc.then = "idle" THEN Fresh ELSE mem
  /\ UNCHANGED <<from, chains, main, dry, started, reported, faults>>

\* Every return drops the sequences, which saves them.
Drop(m) == save(m, proc, "idle")

loaded == main.state = "whole" /\ sensitive = "whole"

-----------------------------------------------------------------------------
(* The commands *)

\* The script is simulated only; its sequences are saved to dry-run/.
Simulate ==
  /\ At("idle") /\ ~started /\ dry = "none"
  /\ dry' = "whole"
  /\ UNCHANGED <<from, chains, mem, main, sensitive, started, reported, proc, faults>>

\* `--broadcast` for the first time: nothing is pending.
bundle ==
  /\ At("idle") /\ ~started
  /\ started' = TRUE
  /\ mem' = Fresh
  /\ Become([NoRun EXCEPT !.at = "wait"])
  /\ UNCHANGED <<from, chains, files, reported, faults>>

resume_loaded ==
  /\ loaded
  /\ mem' = main.record
  /\ Become([NoRun EXCEPT !.at = "wait", !.left = main.record.pending])
  /\ UNCHANGED files

resume_dry_run ==
  /\ ~loaded /\ dry = "whole"
  /\ save(Fresh, NoRun, "wait")

\* Without files the command fails and leaves all as it is.
resume_fails ==
  /\ At("idle")
  /\ ~loaded /\ dry # "whole"
  /\ UNCHANGED vars

resume ==
  /\ At("idle")
  /\ resume_loaded \/ resume_dry_run
  /\ started' = TRUE
  /\ UNCHANGED <<from, chains, reported, faults>>

\* The process is killed.
Crash ==
  /\ ~At("idle")
  /\ mem' = Fresh
  /\ Become(NoRun)
  /\ Fault
  /\ UNCHANGED <<from, chains, files, started, reported>>

-----------------------------------------------------------------------------
(* Waiting for receipts *)

remove_pending(m, h) == [m EXCEPT !.pending = @ \ {h}]
add_receipt(m, h) ==
  [m EXCEPT !.receipts = @ \cup {h}, !.len[SeqOf[h[1]]] = @ + 1]

Checked(h, m, error) ==
  /\ At("wait") /\ h \in proc.left
  /\ mem' = m
  /\ Become([proc EXCEPT !.left = @ \ {h}, !.errors = @ \/ error])
  /\ UNCHANGED <<from, chains, files, started, reported>>

tx_success(h) ==
  /\ Outcome(h, TRUE)
  /\ Checked(h, add_receipt(remove_pending(mem, h), h), FALSE)
  /\ UNCHANGED faults

\* Mutant: the receipt of a reverted transaction is kept as any other.
tx_revert_receipt(h) ==
  /\ Outcome(h, FALSE)
  /\ Checked(h, add_receipt(remove_pending(mem, h), h), TRUE)
  /\ UNCHANGED faults

tx_revert(h) ==
  /\ Outcome(h, FALSE)
  /\ Checked(h, remove_pending(mem, h), TRUE)
  /\ UNCHANGED faults

\* Whether the chains will execute h if nothing fails.
Executable(h) ==
  /\ h \in pool
  /\ \A u \in 1..(h[1] - 1) :
        Account(u) = Account(h[1]) => u \in Executed \/ \E g \in pool : g[1] = u

\* Mutant: a dropped transaction stays pending.
tx_dropped_kept(h) ==
  /\ ~Mined(h)
  /\ Checked(h, mem, TRUE)
  /\ IF Executable(h) THEN Fault ELSE UNCHANGED faults

\* No receipt within 120 seconds, which is a failure if there would be one.
tx_dropped(h) ==
  /\ ~Mined(h)
  /\ Checked(h, remove_pending(mem, h), TRUE)
  /\ IF Executable(h) THEN Fault ELSE UNCHANGED faults

\* The request for the receipt fails.
tx_error(h) ==
  /\ Checked(h, mem, TRUE)
  /\ Fault

\* All are checked: the wait of BundledState saves, then returns the errors;
\* the wait for a batch returns them first.
wait_for_pending ==
  /\ At("wait") /\ proc.left = {}
  /\ IF proc.errors
     THEN IF proc.seq = 0 THEN save(mem, proc, "exit") ELSE Drop(mem)
     ELSE save(mem, [proc EXCEPT !.seq = IF @ = 0 THEN 1 ELSE @],
               IF proc.seq = 0 THEN "sequence" ELSE "batch")
  /\ UNCHANGED <<from, chains, started, reported, faults>>

exit ==
  /\ At("exit")
  /\ Drop(mem)
  /\ UNCHANGED <<from, chains, started, reported, faults>>

-----------------------------------------------------------------------------
(* Broadcasting *)

Before(s) == IF s = 1 THEN 0 ELSE End[s - 1]
already_broadcasted(s) == mem.len[s]
signers_count == Cardinality({from[t] : t \in Tx})

\* Mutant: several signers do not force it.
sequential_broadcast_chosen(seq) == seq

\* Sequential broadcast is chosen by an argument or for the chain, too.
sequential_broadcast(seq) == seq \/ signers_count # 1

NextSequence ==
  \/ /\ proc.seq # K
     /\ Become([proc EXCEPT !.at = "sequence", !.seq = @ + 1])
     /\ UNCHANGED <<mem, files, reported>>
  \/ /\ proc.seq = K
     /\ reported' = TRUE
     /\ Drop(mem)

sequence_done ==
  /\ At("sequence")
  /\ already_broadcasted(proc.seq) >= End[proc.seq] - Before(proc.seq)
  /\ NextSequence
  /\ UNCHANGED <<from, chains, started, faults>>

sequence_start(fee, seq) ==
  /\ At("sequence")
  /\ already_broadcasted(proc.seq) < End[proc.seq] - Before(proc.seq)
  /\ Become([proc EXCEPT !.at = "batch", !.fee = fee,
               !.sequential = sequential_broadcast(seq),
               !.index = Before(proc.seq) + already_broadcasted(proc.seq) + 1])
  /\ UNCHANGED <<from, chains, mem, files, started, reported, faults>>

\* A signer is missing, or the gas price request fails.
broadcast_refused ==
  /\ At("sequence")
  /\ Drop(mem)
  /\ Fault
  /\ UNCHANGED <<from, chains, started, reported>>

batch_size == IF proc.sequential THEN 1 ELSE BatchSize

batch ==
  /\ At("batch")
  /\ \/ /\ proc.index > End[proc.seq]
        /\ NextSequence
     \/ /\ proc.index <= End[proc.seq]
        /\ LET size == proc.index + batch_size - 1
           IN  Become([proc EXCEPT !.at = "send", !.res = [t \in Tx |-> "none"],
                         !.last = IF size < End[proc.seq] THEN size ELSE End[proc.seq]])
        /\ UNCHANGED <<mem, files, reported>>
  /\ UNCHANGED <<from, chains, started, faults>>

\* The transactions of a batch are sent concurrently.
Sending(t, result) ==
  /\ At("send") /\ t \in proc.index..proc.last /\ proc.res[t] = "none"
  /\ Become([proc EXCEPT !.res[t] = result])
  /\ UNCHANGED <<from, log, mem, files, started, reported>>

nonce_matches(t) ==
  proc.sequential => TransactionCount(Account(t)) = Nonce(t)

Accepted(t) ==
  /\ nonce_matches(t)
  /\ Nonce(t) >= TransactionCount(Account(t))
  /\ <<t, proc.fee>> \notin pool
  /\ pool' = pool \cup {<<t, proc.fee>>}

send_transaction(t) ==
  /\ Sending(t, "ok")
  /\ Accepted(t)
  /\ UNCHANGED faults

\* The node has the transaction, the answer is lost.
send_unanswered(t) ==
  /\ Sending(t, "err")
  /\ Accepted(t)
  /\ Fault

\* The nonce is not the expected one, the node knows the transaction or one
\* with its nonce, or a request fails.
send_fails(t) ==
  /\ Sending(t, "err")
  /\ \/ /\ \/ ~nonce_matches(t)
           \/ Nonce(t) < TransactionCount(Account(t))
           \/ \E h \in pool : h[1] = t
        /\ UNCHANGED faults
     \/ Fault
  /\ UNCHANGED pool

add_pending(m, h) == [m EXCEPT !.pending = @ \cup {h}]

\* The answers are taken in the order of the batch.
sent ==
  /\ At("send") /\ proc.index <= proc.last
  /\ \/ /\ proc.res[proc.index] = "ok"
        /\ save(add_pending(mem, <<proc.index, proc.fee>>),
                [proc EXCEPT !.index = @ + 1], "send")
     \/ /\ proc.res[proc.index] = "err"
        /\ Drop(mem)
  /\ UNCHANGED <<from, chains, started, reported, faults>>

batch_sent ==
  /\ At("send") /\ proc.index > proc.last
  /\ save(mem, [proc EXCEPT !.left = {h \in mem.pending : SeqOf[h[1]] = proc.seq}], "wait")
  /\ UNCHANGED <<from, chains, started, reported, faults>>

-----------------------------------------------------------------------------
Init ==
  /\ from \in [Tx -> Sender]
  /\ pool = {} /\ log = <<>>
  /\ mem = Fresh
  /\ main = [state |-> "none", record |-> Fresh]
  /\ sensitive = "none"
  /\ dry = "none"
  /\ started = FALSE /\ reported = FALSE
  /\ proc = NoRun
  /\ faults = 0

Run ==
  \/ save_sensitive \/ save_end
  \/ \E h \in proc.left : tx_success(h) \/ tx_revert(h) \/ tx_dropped(h)
  \/ wait_for_pending \/ exit
  \/ sequence_done \/ \E fee \in Fee, seq \in BOOLEAN : sequence_start(fee, seq)
  \/ batch
  \/ \E t \in Tx : send_transaction(t) \/ send_fails(t)
  \/ sent \/ batch_sent

Failure ==
  \/ Crash \/ broadcast_refused
  \/ \E h \in proc.left : tx_error(h)
  \/ \E t \in Tx : send_unanswered(t)
  \/ \E h \in pool : Evict(h)

Next ==
  \/ Run \/ Failure
  \/ \E h \in pool, ok \in BOOLEAN : Mine(h, ok)
  \/ Simulate \/ bundle \/ resume \/ resume_fails

\* The process runs until it ends or is killed, the chains execute what they
\* can, and the user resumes.
Fairness ==
  /\ WF_vars(Run)
  /\ WF_vars(\E h \in pool : Mine(h, TRUE))
  /\ WF_vars(bundle \/ resume)

Spec == Init /\ [][Next]_vars /\ Fairness

-----------------------------------------------------------------------------
(* Properties *)

\* The script implements Deployment: whatever is killed, lost, dropped or
\* resumed, the chains execute its transactions in the order of the script, each
\* at most once, and broadcast prints "ONCHAIN EXECUTION COMPLETE & SUCCESSFUL"
\* only after all of them succeeded.
Abstract == INSTANCE Deployment WITH
  executed <- [k \in DOMAIN log |-> [tx |-> log[k].hash[1], ok |-> log[k].ok]]

Deployed == Abstract!Spec

\* The transactions that broadcast skips because there are as many receipts
\* (already_broadcasted) were executed, although the receipts need not be those
\* of the skipped ones.
SkippedExecuted ==
  At("batch") => \A t \in Tx : t < proc.index => t \in Executed

Tracked(m) == m.receipts \cup m.pending

\* While the process waits for receipts, which is when it is most likely to be
\* killed, the files are whole and name every transaction it waits for.
WaitRecorded ==
  At("wait") /\ proc.left # {} => loaded /\ proc.left \subseteq main.record.pending

Unrecorded ==
  /\ At("idle") /\ started
  /\ \/ ~loaded /\ (dry # "whole" \/ pool # {} \/ log # <<>>)
     \/ \E h \in pool : loaded /\ h \notin main.record.pending
     \/ \E k \in DOMAIN log : loaded /\ log[k].hash \notin Tracked(main.record)
     \/ \E k \in DOMAIN log : ~log[k].ok

\* A script that is resumed after every failure is completed, unless a
\* transaction reverted, a save was cut off, or a transaction that a mempool or a
\* chain has is missing from the saved sequences.
Resumes == <>(reported \/ Unrecorded)

\* CompiledState::resume: "If the script was simulated, but there was no attempt
\* to broadcast yet, try to read the script sequence from the `dry-run/` folder".
DryRunBeforeBroadcast ==
  [][At("idle") /\ resume_dry_run => pool = {} /\ log = <<>>]_vars

\* ScriptProgress::wait_for_pending: "If the transaction has not confirmed, but
\* can be found in the node's mempool, we wait for its receipt to be available."
DroppedNotInMempool ==
  [][\A h \in proc.left : tx_dropped(h) => h \notin pool]_vars
=============================================================================
