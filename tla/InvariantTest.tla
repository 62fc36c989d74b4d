--------------------------- MODULE InvariantTest ---------------------------
(***************************************************************************)
(* An invariant test of forge: the campaign of random call sequences       *)
(* (crates/evm/evm/src/executors/invariant), the shrinking of a sequence   *)
(* that breaks the invariant, and the file in which the shrunk sequence is *)
(* kept for the next `forge test` (crates/forge/src/runner.rs).            *)
(*                                                                         *)
(* The contracts under test are a table: what a call of function f does in *)
(* state s.  Rounds of `forge test` follow one another; between them the   *)
(* contracts are edited, and a round may be killed.  The program is        *)
(* sequential: a step is one call of the campaign, or one candidate of the *)
(* shrinker.                                                               *)
(***************************************************************************)
EXTENDS Integers, Sequences, FiniteSets

CONSTANTS
  Configs,    \* InvariantConfig of a project, with what may happen to it:
              \* `rounds` bounds the rounds of `forge test`
  Contracts,  \* what the contracts may be edited to
  None,
  Corrupt     \* a file that is not JSON

\* What the test fails of.
Causes == {"setup", "assume", "broken", "revert", "failed", "after"}

\* InvariantFuzzError.
Errors == [kind : {"BrokenInvariant", "MaxAssumeRejects", "Revert"},
           calls : Seq(UNION {DOMAIN c.step : c \in Contracts}), cause : Causes]

ASSUME InvariantAssumption ==
  /\ \A c \in Configs : /\ c.edits \subseteq Contracts
                        /\ {c.runs, c.depth, c.shrink_run_limit} \subseteq Nat
  /\ None \notin Nat /\ None \notin Errors /\ None \notin {"Success", "Failure", "replay"}

\* Every call of a contract can be made in every state that its calls lead to.
ASSUME ContractAssumption ==
  \A c \in Contracts :
    /\ {None, Corrupt} \cap Seq(DOMAIN c.step) = {}
    /\ DOMAIN c.touches = DOMAIN c.step
    /\ \A f \in DOMAIN c.step :
         /\ c.setup \in DOMAIN c.step[f]
         /\ \A s \in DOMAIN c.step[f] :
              /\ c.step[f][s].how \in {"ok", "revert", "assume", "failed"}
              /\ \A g \in DOMAIN c.step : c.step[f][s].to \in DOMAIN c.step[g]

VARIABLES
  config,     \* never changes
  contract,   \* the test as it is compiled now
  phase,      \* what a round is at; "idle" between rounds
  file,       \* failure_file
  failures,   \* InvariantFailures
  targets,    \* FuzzRunIdentifiedContracts
  run,        \* InvariantTestRun
  cases,      \* runs that ended: fuzz_cases, without the empty case it begins
              \* with when the invariant is broken after setUp
  shrinker,   \* CallSequenceShrinker, with the iterations that are left
  result,     \* TestResult of the last round that was not killed, until an edit
  seen,       \* history: the states this campaign met
  faults,     \* history: whether the database failed in this round
  round

vars == <<config, contract, phase, file, failures, targets, run, cases,
          shrinker, result, seen, faults, round>>

NoRun == [inputs |-> <<>>, state |-> None, depth |-> 0,
          assume_rejects_counter |-> 0, created_contracts |-> {}]

NoShrinker == [calls |-> <<>>, included_calls |-> {}, call_index |-> 0,
               prev_shrink |-> None, left |-> 0]

NoResult == [status |-> None, counterexample |-> <<>>, cause |-> None,
             cases |-> 0, reverts |-> 0, sure |-> FALSE]

NoFailures == [reverts |-> 0, error |-> None]

-----------------------------------------------------------------------------
(***************************************************************************)
(* Executing calls.                                                        *)
(***************************************************************************)

\* What call f does in state s: the state it leaves, and whether it reverts,
\* is rejected by vm.assume (which reverts too) or fails an assertion.
transact_raw(executor, s, f) == executor.step[f][s]

reverted(r) == r.how \in {"revert", "assume"}

\* call_invariant_function and call_after_invariant_function leave no state.
call_invariant_function(executor, s) == s \in executor.holds

call_after_invariant_function(executor, s) == s \in executor.after_holds

\* The calls, applied from the state after setUp until one reverts that may not.
executed(executor, fail_on_revert, calls) ==
  LET applied[i \in 0..Len(calls)] ==
        IF i = 0 THEN [state |-> executor.setup, stopped |-> FALSE]
        ELSE LET before == applied[i - 1]
                 r == transact_raw(executor, before.state, calls[i])
             IN  IF before.stopped THEN before
                 ELSE [state |-> r.to, stopped |-> reverted(r) /\ fail_on_revert]
  IN  applied

\* Whether the test succeeds on these calls.
check_sequence(executor, fail_on_revert, calls) ==
  LET end == executed(executor, fail_on_revert, calls)[Len(calls)]
  IN  /\ ~end.stopped
      /\ call_invariant_function(executor, end.state)
      /\ executor.call_after_invariant => call_after_invariant_function(executor, end.state)

\* The functions of the contracts that are targeted now.
fuzzed_functions(ts) == {f \in DOMAIN contract.step : contract.address[f] \in ts}
-----------------------------------------------------------------------------
(***************************************************************************)
(* run_invariant_test.                                                     *)
(***************************************************************************)

\* The database of the executor fails, as a fork does when its provider does
\* not answer; once in a round.
Fault == config.faulty /\ ~faults /\ faults' = TRUE

NoFault == UNCHANGED faults

\* The round ends, and with it all it holds in memory.
finish(status, counterexample, cause) ==
  /\ result' = [status |-> status, counterexample |-> counterexample, cause |-> cause,
                cases |-> cases, reverts |-> failures.reverts, sure |-> ~faults']
  /\ phase' = "idle"
  /\ failures' = NoFailures
  /\ targets' = {}
  /\ run' = NoRun
  /\ cases' = 0
  /\ shrinker' = NoShrinker

\* Mutant: one call too few is replayed.
replay_recorded_short ==
  /\ file \notin {None, Corrupt}
  /\ ~check_sequence(contract, config.fail_on_revert, SubSeq(file, 1, Len(file) - 1))

\* A recorded failure is tried first, cut to the depth of the campaign.
replay_recorded ==
  /\ file \notin {None, Corrupt}
  /\ ~check_sequence(contract, config.fail_on_revert,
                     IF Len(file) <= config.depth THEN file ELSE SubSeq(file, 1, config.depth))

\* prepare_test: selects the targets and asserts the invariant once.
prepare_test ==
  /\ failures' = [NoFailures EXCEPT !.error =
                    IF call_invariant_function(contract, contract.setup) THEN None
                    ELSE [kind |-> "BrokenInvariant", calls |-> <<>>, cause |-> "setup"]]
  /\ targets' = contract.targets
  /\ cases' = 0
  /\ seen' = [ok |-> {contract.setup}, ended |-> {}, reverted |-> FALSE]
  /\ phase' = "between"
  /\ UNCHANGED <<run, shrinker, result>>

\* The round begins: the test is skipped, fails as recorded, or is fuzzed.
run_invariant_test ==
  /\ phase = "idle"
  /\ round < config.rounds
  /\ round' = round + 1
  /\ \/ /\ contract.skip
        /\ faults' = FALSE
        /\ finish("Skipped", <<>>, None)
        /\ UNCHANGED seen
     \/ /\ ~contract.skip /\ replay_recorded
        /\ faults' = FALSE
        /\ finish("Failure", file, "replay")
        /\ UNCHANGED seen
     \/ /\ ~contract.skip /\ ~replay_recorded
        /\ faults' = FALSE
        /\ prepare_test
     \/ /\ ~contract.skip /\ config.faulty   \* the recorded sequence is given up
        /\ file \notin {None, Corrupt}
        /\ faults' = TRUE
        /\ prepare_test
     \/ /\ ~contract.skip /\ config.faulty   \* invariant_setup_fail
        /\ ~replay_recorded
        /\ faults' = TRUE
        /\ finish("Failure", <<>>, "setup")
        /\ UNCHANGED seen
  /\ UNCHANGED <<contract, file>>

\* A run of the campaign begins: the executor is cloned and the first call
\* drawn.  A revert of an earlier run ends the campaign.
begin_run ==
  /\ phase = "between"
  /\ cases < config.runs
  /\ \E first_input \in fuzzed_functions(targets) :
       IF config.fail_on_revert /\ failures.reverts > 0
         THEN phase' = "report" /\ UNCHANGED run
         ELSE /\ run' = [NoRun EXCEPT !.inputs = <<first_input>>,
                                      !.state = contract.setup]
              /\ phase' = "run"
  /\ UNCHANGED <<contract, file, failures, targets, cases, shrinker, result,
                 seen, faults, round>>

\* Contracts that the call created, or touched without knowing them from
\* setUp, become targets for the rest of the run.
collect_created_contracts(f, r) ==
  IF contract.is_updatable /\ ~reverted(r) THEN contract.touches[f] ELSE {}

\* Mutant: the calls rejected in a row are counted for each call anew.
rejects_forgotten(counter) == 1

rejects_with(counter) == counter + 1

\* The inputs without the last one, which is the call to be made.
pop(inputs) == SubSeq(inputs, 1, Len(inputs) - 1)

last(inputs) == inputs[Len(inputs)]

\* vm.assume rejected the call: it is dropped and another one is drawn.
reject_call ==
  LET rejects == rejects_with(run.assume_rejects_counter)
      rejected == [run EXCEPT !.inputs = pop(@), !.assume_rejects_counter = rejects]
  IN  /\ phase = "run" /\ run.depth < config.depth
      /\ transact_raw(contract, run.state, last(run.inputs)).how = "assume"
      /\ IF rejects > config.max_assume_rejects
           THEN /\ failures' = [failures EXCEPT !.error =
                     [kind |-> "MaxAssumeRejects", calls |-> <<>>, cause |-> "assume"]]
                /\ phase' = "report"
                /\ run' = rejected
           ELSE /\ \E f \in fuzzed_functions(targets) :
                     run' = [rejected EXCEPT !.inputs = Append(@, f)]
                /\ UNCHANGED <<failures, phase>>
      /\ UNCHANGED <<contract, file, targets, cases, shrinker, result, seen,
                     faults, round>>

\* can_continue: the error a call that left state r.to leads to, None without.
\* A broken invariant counts once; a revert counts when reverts may not happen.
error_after_call(r) ==
  IF r.how = "ok"
    THEN IF call_invariant_function(contract, r.to) \/ failures.error # None THEN None
         ELSE [kind |-> "BrokenInvariant", calls |-> run.inputs, cause |-> "broken"]
    ELSE IF config.fail_on_revert
         THEN [kind |-> "Revert", calls |-> run.inputs, cause |-> r.how]
         ELSE None

\* A call of the run is executed and committed, and the invariant asserted.
execute_call ==
  LET f == last(run.inputs)
      r == transact_raw(contract, run.state, f)
      created == collect_created_contracts(f, r)
      error == error_after_call(r)
      called == [run EXCEPT !.state = r.to, !.created_contracts = @ \cup created]
  IN  /\ phase = "run" /\ run.depth < config.depth
      /\ r.how # "assume"
      /\ targets' = targets \cup created
      /\ failures' = [reverts |-> failures.reverts + (IF r.how = "ok" THEN 0 ELSE 1),
                      error |-> IF error = None THEN failures.error ELSE error]
      /\ seen' = IF r.how = "ok" THEN [seen EXCEPT !.ok = @ \cup {r.to}]
                 ELSE [seen EXCEPT !.reverted = TRUE]
      /\ IF error # None
           THEN run' = called /\ phase' = "after"
           ELSE /\ \E g \in fuzzed_functions(targets') :
                     run' = [called EXCEPT !.depth = @ + 1, !.inputs = Append(@, g)]
                /\ UNCHANGED phase
      /\ UNCHANGED <<contract, file, cases, shrinker, result, faults, round>>

\* A call that cannot be made at all ends the campaign, and is not an error
\* of the test.
call_fails ==
  /\ phase = "run"
  /\ run.depth < config.depth \/ (contract.call_after_invariant /\ failures.error = None)
  /\ Fault
  /\ phase' = "report"
  /\ UNCHANGED <<contract, file, failures, targets, run, cases, shrinker, result,
                 seen, round>>

\* Mutant: the contracts of a run stay targets in the next one.
end_run_keeping ==
  /\ UNCHANGED targets
  /\ cases' = cases + 1

\* end_run: the contracts that the run created are no targets any more.
end_run ==
  /\ targets' = targets \ run.created_contracts
  /\ cases' = cases + 1

\* assert_after_invariant, unless the test has failed already.  The inputs
\* hold one call more than were executed when the run was not cut short.
assert_after_invariant ==
  failures' = IF contract.call_after_invariant /\ failures.error = None
                /\ ~call_after_invariant_function(contract, run.state)
              THEN [failures EXCEPT !.error =
                     [kind |-> "BrokenInvariant", calls |-> run.inputs, cause |-> "after"]]
              ELSE failures

finish_run ==
  /\ phase = "after" \/ (phase = "run" /\ run.depth = config.depth)
  /\ assert_after_invariant
  /\ end_run
  /\ phase' = IF cases + 1 < config.runs THEN "between" ELSE "report"
  /\ seen' = IF phase = "run" THEN [seen EXCEPT !.ended = @ \cup {run.state}] ELSE seen
  /\ UNCHANGED <<contract, file, run, shrinker, result, faults, round>>
-----------------------------------------------------------------------------
(***************************************************************************)
(* shrink_sequence and the report.                                         *)
(***************************************************************************)

\* The calls that are kept, in their order.
kept_calls(calls, kept) ==
  LET nth(i) == CHOOSE x \in kept : Cardinality({y \in kept : y <= x}) = i
  IN  [i \in 1..Cardinality(kept) |-> calls[nth(i)]]

\* The candidate.
current(sh) == kept_calls(sh.calls, sh.included_calls)

exhausted(sh) == sh.call_index > Len(sh.calls)

\* Removes the next call.
simplify(sh) ==
  [sh EXCEPT !.included_calls = @ \ {sh.call_index},
             !.prev_shrink = sh.call_index,
             !.call_index = @ + 1]

restore(sh) ==
  [sh EXCEPT !.included_calls = @ \cup {sh.prev_shrink}, !.prev_shrink = None]

\* Mutant: the call whose removal hides the failure is not put back.
complicate_forgetting(sh) ==
  IF sh.prev_shrink = None \/ exhausted(sh) THEN sh ELSE simplify(sh)

\* Puts the call removed last back and removes the next one.
complicate(sh) ==
  IF sh.prev_shrink = None THEN sh
  ELSE IF exhausted(sh) THEN restore(sh) ELSE simplify(restore(sh))

\* The campaign is over: a test without error passed, the calls of a broken
\* invariant are shrunk.  Without calls the invariant does not hold after
\* setUp, and there is nothing to show.
report ==
  /\ phase = "report" \/ (phase = "between" /\ cases = config.runs)
  /\ \/ /\ failures.error = None
        /\ NoFault
        /\ finish("Success", <<>>, None)
     \/ /\ failures.error # None
        /\ \/ failures.error.kind = "MaxAssumeRejects" /\ NoFault
           \/ failures.error.kind # "MaxAssumeRejects"
              /\ ~call_invariant_function(contract, contract.setup) /\ NoFault
           \/ failures.error.kind # "MaxAssumeRejects" /\ Fault
        /\ finish("Failure", <<>>, failures.error.cause)
     \/ /\ failures.error # None /\ failures.error.kind # "MaxAssumeRejects"
        /\ call_invariant_function(contract, contract.setup)
        /\ shrinker' = [calls |-> failures.error.calls,
                        included_calls |-> 1..Len(failures.error.calls),
                        call_index |-> 1, prev_shrink |-> None,
                        left |-> config.shrink_run_limit]
        /\ phase' = "shrink"
        /\ UNCHANGED <<result, failures, targets, run, cases>>
        /\ NoFault
  /\ UNCHANGED <<contract, file, seen, round>>

\* One candidate is checked.  The loop ends when there is no call left to
\* remove; a check that fails to run uses up an iteration.
shrink_sequence ==
  LET success == check_sequence(contract, config.fail_on_revert, current(shrinker))
      next == IF success THEN complicate(shrinker)
              ELSE IF exhausted(shrinker) THEN shrinker ELSE simplify(shrinker)
      over == IF success THEN shrinker.prev_shrink = None \/ exhausted(shrinker)
              ELSE exhausted(shrinker)
  IN  /\ phase = "shrink" /\ shrinker.left > 0
      /\ \/ /\ shrinker' = [next EXCEPT !.left = IF over THEN 0 ELSE @ - 1]
            /\ NoFault
         \/ /\ Fault
            /\ shrinker' = [shrinker EXCEPT !.left = @ - 1]
      /\ UNCHANGED <<contract, phase, file, failures, targets, run, cases, result,
                     seen, round>>

\* replay_error ends: the calls are replayed for their traces, recorded for
\* the next round and reported.  Neither a replay nor a file that fails
\* changes the verdict.
persist_failure ==
  LET calls == current(shrinker)
  IN  /\ phase = "shrink" /\ shrinker.left = 0
      /\ \/ /\ calls # <<>>
            /\ NoFault
            /\ file' = calls
            /\ finish("Failure", calls, failures.error.cause)
         \/ /\ calls # <<>> /\ config.faulty     \* the file is not written
            /\ NoFault
            /\ finish("Failure", calls, "unrecorded")
            /\ file' \in {file, Corrupt}
         \/ /\ (calls = <<>> /\ NoFault) \/ Fault
            /\ finish("Failure", <<>>, failures.error.cause)
            /\ UNCHANGED file
      /\ UNCHANGED <<contract, seen, round>>

-----------------------------------------------------------------------------
(***************************************************************************)
(* Around the rounds.                                                      *)
(***************************************************************************)

\* The process is killed.  A file that was being written may be left unreadable.
kill ==
  /\ config.killed
  /\ phase # "idle"
  /\ phase' = "idle"
  /\ file' \in IF phase = "shrink" /\ shrinker.left = 0 /\ current(shrinker) # <<>>
              THEN {file, Corrupt, current(shrinker)} ELSE {file}
  /\ result' = NoResult
  /\ failures' = NoFailures
  /\ targets' = {}
  /\ run' = NoRun
  /\ cases' = 0
  /\ shrinker' = NoShrinker
  /\ UNCHANGED <<contract, seen, faults, round>>

\* The contracts are changed between two rounds.
edit ==
  /\ phase = "idle"
  /\ round > 0 /\ round < config.rounds
  /\ contract' \in config.edits \ {contract}
  /\ result' = NoResult
  /\ UNCHANGED <<phase, file, failures, targets, run, cases, shrinker, seen,
                 faults, round>>

Init ==
  /\ config \in Configs
  /\ contract \in Contracts
  /\ phase = "idle"
  /\ file = None
  /\ failures = NoFailures
  /\ targets = {}
  /\ run = NoRun
  /\ cases = 0
  /\ shrinker = NoShrinker
  /\ result = NoResult
  /\ seen = [ok |-> {}, ended |-> {}, reverted |-> FALSE]
  /\ faults = FALSE
  /\ round = 0

\* A step of the round.
Round ==
  /\ \/ begin_run
     \/ reject_call
     \/ execute_call
     \/ call_fails
     \/ finish_run
     \/ report
     \/ shrink_sequence
     \/ persist_failure
  /\ UNCHANGED config

Next ==
  \/ Round
  \/ (run_invariant_test \/ kill \/ edit) /\ UNCHANGED config

Spec == Init /\ [][Next]_vars

\* A round that runs goes on.
FairSpec == Spec /\ WF_vars(Round)
-----------------------------------------------------------------------------
(***************************************************************************)
(* Properties.                                                             *)
(***************************************************************************)

\* The states the calls go through.
Path(calls) ==
  LET state[i \in 0..Len(calls)] ==
        IF i = 0 THEN contract.setup
        ELSE transact_raw(contract, state[i - 1], calls[i]).to
  IN  state

\* The calls break what is tested, in the sense of the campaign: the invariant
\* does not hold after one of them, or one reverts where none may.
Breaks(calls) ==
  \/ \E i \in 0..Len(calls) : Path(calls)[i] \notin contract.holds
  \/ /\ config.fail_on_revert
     /\ \E i \in 1..Len(calls) :
          transact_raw(contract, Path(calls)[i - 1], calls[i]).how = "revert"

\* What check_sequence cannot tell from the failure that was found:
\* afterInvariant, which the campaign calls after whole runs only, and a call
\* rejected by vm.assume, which counts as a revert.
Plain ==
  /\ ~contract.call_after_invariant
  /\ config.fail_on_revert =>
       \A f \in DOMAIN contract.step :
         \A s \in DOMAIN contract.step[f] : transact_raw(contract, s, f).how # "assume"

\* The test fails on those of the calls that are kept.
Fails(executor, fail_on_revert, calls, kept) ==
  ~check_sequence(executor, fail_on_revert, kept_calls(calls, kept))

\* Calls fail if some of them fail.
Monotone(executor, fail_on_revert, calls) ==
  \A smaller, larger \in SUBSET (1..Len(calls)) :
    smaller \subseteq larger /\ Fails(executor, fail_on_revert, calls, smaller)
      => Fails(executor, fail_on_revert, calls, larger)

\* When the limit on its iterations exceeds the number of calls, and the calls
\* fail, shrink_sequence ends with calls that still fail; and, if the failure
\* does not depend on calls being left out, none of them can be left out.
ShrinksRight ==
  LET fails(kept) == Fails(contract, config.fail_on_revert, shrinker.calls, kept)
  IN  phase = "shrink" /\ shrinker.left = 0 /\ ~faults
        /\ fails(1..Len(shrinker.calls))
        /\ config.shrink_run_limit > Len(shrinker.calls)
      => /\ fails(shrinker.included_calls)
         /\ Monotone(contract, config.fail_on_revert, shrinker.calls) =>
              \A i \in shrinker.included_calls : ~fails(shrinker.included_calls \ {i})

\* A failure whose calls can be relied on: it was found by calls that
\* check_sequence judges as the campaign does, and shrunk to the end.
Reliable ==
  /\ result.status = "Failure" /\ result.counterexample # <<>> /\ result.sure
  /\ result.cause \in {"broken", "revert"} /\ Plain
  /\ config.shrink_run_limit > config.depth

\* A test is judged by all that its campaign met, and each run by itself.  Each
\* starts from the targets that prepare_test selected, whatever contracts the
\* runs before it created (targets of targetInterfaces that a call touches and
\* the project knows are taken for created ones and lost; they are left out
\* here).  The test passes exactly when all runs were made and nothing any of
\* them met was wrong: no run that follows a failure in invariant_fuzz hides it.
\* And the calls that are shown for a failure break the invariant.
VerdictRight ==
  /\ (/\ phase = "between"
      /\ \A f \in DOMAIN contract.touches : contract.touches[f] \cap contract.targets = {})
     => targets = contract.targets
  /\ (/\ phase = "idle" /\ result.sure
      /\ result.cause \notin {"replay", "assume"}
      /\ result.status \in {"Success", "Failure"})
     => (result.status = "Success" <=>
           /\ result.cases = config.runs
           /\ seen.ok \subseteq contract.holds
           /\ config.fail_on_revert => ~seen.reverted
           /\ contract.call_after_invariant => seen.ended \subseteq contract.after_holds)
  /\ phase = "idle" /\ Reliable => Breaks(result.counterexample)

\* A failure that was shown with its calls is found again by every round until
\* the contracts are edited: what run_invariant_test records is what the next
\* one replays.
FoundAgain ==
  [][result.cause = "replay" \/ Reliable
     => result'.status # "Success" \/ faults']_vars

\* Every round ends, however often vm.assume rejects and calls fail to run.
RoundEnds == phase # "idle" ~> phase = "idle"
=============================================================================
