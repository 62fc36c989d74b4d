------------------------ MODULE InvariantTestProofs ------------------------
(***************************************************************************)
(* The campaign, for call sequences of any length and for any contracts.   *)
(*                                                                         *)
(* shrink_sequence is right whatever check_sequence computes: the argument *)
(* is about which candidates were tried.  The call removed last belongs to *)
(* the calls that are known to fail until its removal has been checked.    *)
(*                                                                         *)
(* The verdict rests on what check_sequence computes: a run is in the      *)
(* state that check_sequence finds for its calls, so the calls of an error *)
(* fail when they are replayed, and so do the calls that are recorded.     *)
(***************************************************************************)
EXTENDS InvariantTest, FiniteSetTheorems, WellFoundedInduction, TLAPS

Calls == UNION {DOMAIN c.step : c \in Contracts}

\* The test fails on these of the calls that are being shrunk.
fails(kept) == Fails(contract, config.fail_on_revert, shrinker.calls, kept)

\* What is known to fail: with the call whose removal is not yet checked.
Base ==
  IF shrinker.prev_shrink = None THEN shrinker.included_calls
  ELSE shrinker.included_calls \cup {shrinker.prev_shrink}

\* None of the kept calls up to a bound can be left out.
Needed(kept, bound) ==
  Monotone(contract, config.fail_on_revert, shrinker.calls) =>
    \A i \in kept : i < bound => ~fails(kept \ {i})

\* The records of a run and of a shrinker, by their fields.
Run(inputs, state, depth, rejects, created) ==
  [inputs |-> inputs, state |-> state, depth |-> depth,
   assume_rejects_counter |-> rejects, created_contracts |-> created]

Shrinker(calls, included, index, prev, left) ==
  [calls |-> calls, included_calls |-> included, call_index |-> index,
   prev_shrink |-> prev, left |-> left]

IsRun(r) ==
  r = Run(r.inputs, r.state, r.depth, r.assume_rejects_counter, r.created_contracts)

IsFailures(r) == r = [reverts |-> r.reverts, error |-> r.error]

IsShrinker(r) ==
  r = Shrinker(r.calls, r.included_calls, r.call_index, r.prev_shrink, r.left)

Typed ==
  /\ config \in Configs
  /\ contract \in Contracts
  /\ IsRun(run) /\ run.inputs \in Seq(Calls)
  /\ IsFailures(failures)
  /\ failures.error # None => failures.error.calls \in Seq(Calls)
  /\ phase = "shrink" =>
       /\ IsShrinker(shrinker)
       /\ shrinker.calls \in Seq(Calls)
       /\ shrinker.included_calls \subseteq 1..Len(shrinker.calls)
       /\ shrinker.call_index \in 1..Len(shrinker.calls) + 1
       /\ shrinker.prev_shrink \in {None} \cup 1..Len(shrinker.calls)
       /\ shrinker.left \in Nat

\* The loop runs: every call before the index was tried.
Searching ==
  /\ shrinker.left + shrinker.call_index = config.shrink_run_limit + 1
  /\ shrinker.prev_shrink = IF shrinker.call_index = 1 THEN None ELSE shrinker.call_index - 1
  /\ shrinker.prev_shrink \notin shrinker.included_calls
  /\ shrinker.call_index..Len(shrinker.calls) \subseteq shrinker.included_calls
  /\ fails(Base)
  /\ Needed(Base, shrinker.call_index - 1)

\* The loop was left because no call remains to be tried.
Done ==
  /\ shrinker.left = 0
  /\ fails(shrinker.included_calls)
  /\ Needed(shrinker.included_calls, Len(shrinker.calls) + 1)

IInv ==
  /\ Typed
  /\ phase = "shrink" /\ ~faults /\ fails(1..Len(shrinker.calls))
       => Searching \/ Done
-----------------------------------------------------------------------------
(***************************************************************************)
(* Types.                                                                  *)
(***************************************************************************)

\* A record made of the fields of a run has them.
LEMMA RunFields ==
  ASSUME NEW i, NEW s, NEW d, NEW k, NEW c
  PROVE  /\ IsRun(Run(i, s, d, k, c))
         /\ Run(i, s, d, k, c).inputs = i
         /\ Run(i, s, d, k, c).state = s
         /\ Run(i, s, d, k, c).depth = d
         /\ Run(i, s, d, k, c).assume_rejects_counter = k
         /\ Run(i, s, d, k, c).created_contracts = c
BY DEF IsRun, Run

\* What updating one field of a run makes.
LEMMA RunUpdate ==
  ASSUME NEW r, IsRun(r), NEW e
  PROVE  /\ [r EXCEPT !.inputs = e] =
              Run(e, r.state, r.depth, r.assume_rejects_counter, r.created_contracts)
         /\ [r EXCEPT !.state = e] =
              Run(r.inputs, e, r.depth, r.assume_rejects_counter, r.created_contracts)
         /\ [r EXCEPT !.depth = e] =
              Run(r.inputs, r.state, e, r.assume_rejects_counter, r.created_contracts)
         /\ [r EXCEPT !.assume_rejects_counter = e] =
              Run(r.inputs, r.state, r.depth, e, r.created_contracts)
         /\ [r EXCEPT !.created_contracts = e] =
              Run(r.inputs, r.state, r.depth, r.assume_rejects_counter, e)
<1>1. [r EXCEPT !.inputs = e] =
        Run(e, r.state, r.depth, r.assume_rejects_counter, r.created_contracts)
  BY DEF IsRun, Run
<1>2. [r EXCEPT !.state = e] =
        Run(r.inputs, e, r.depth, r.assume_rejects_counter, r.created_contracts)
  BY DEF IsRun, Run
<1>3. [r EXCEPT !.depth = e] =
        Run(r.inputs, r.state, e, r.assume_rejects_counter, r.created_contracts)
  BY DEF IsRun, Run
<1>4. [r EXCEPT !.assume_rejects_counter = e] =
        Run(r.inputs, r.state, r.depth, e, r.created_contracts)
  BY DEF IsRun, Run
<1>5. [r EXCEPT !.created_contracts = e] =
        Run(r.inputs, r.state, r.depth, r.assume_rejects_counter, e)
  BY DEF IsRun, Run
<1> QED BY <1>1, <1>2, <1>3, <1>4, <1>5

\* A record with these fields is a run with these inputs.
LEMMA RunInputs ==
  ASSUME NEW r, NEW i, NEW s, NEW d, NEW k, NEW c, r = Run(i, s, d, k, c)
  PROVE  IsRun(r) /\ r.inputs = i
BY RunFields

\* An update of the inputs makes a run with these inputs.
LEMMA InputsUpdate ==
  ASSUME NEW r, IsRun(r), NEW e
  PROVE  IsRun([r EXCEPT !.inputs = e]) /\ [r EXCEPT !.inputs = e].inputs = e
<1> DEFINE u == [r EXCEPT !.inputs = e]
<1>1. u = Run(e, r.state, r.depth, r.assume_rejects_counter, r.created_contracts)
  BY RunUpdate, Zenon
<1>2. IsRun(u) /\ u.inputs = e
  <2> HIDE DEF u
  <2> QED BY <1>1, RunInputs, SMT
<1> QED BY <1>2, Zenon

\* What set_error makes of the failures.
LEMMA FailuresUpdate ==
  ASSUME NEW r, IsFailures(r), NEW e
  PROVE  IsFailures([r EXCEPT !.error = e]) /\ [r EXCEPT !.error = e].error = e
BY DEF IsFailures

\* The update of two fields of a run that reject_call makes.
LEMMA RejectedRun ==
  ASSUME NEW r, IsRun(r), NEW e, NEW f
  PROVE  [r EXCEPT !.inputs = e, !.assume_rejects_counter = f] =
           Run(e, r.state, r.depth, f, r.created_contracts)
<1> DEFINE m == Run(e, r.state, r.depth, r.assume_rejects_counter, r.created_contracts)
<1>1. [r EXCEPT !.inputs = e] = m
  BY RunUpdate, Zenon
<1>2. IsRun(m)
  BY RunFields
<1>3. /\ m.inputs = e /\ m.state = r.state
      /\ m.depth = r.depth /\ m.created_contracts = r.created_contracts
  BY RunFields
<1> HIDE DEF m
<1>4. [m EXCEPT !.assume_rejects_counter = f] =
        Run(m.inputs, m.state, m.depth, f, m.created_contracts)
  BY <1>2, RunUpdate, Zenon
<1> QED BY <1>1, <1>3, <1>4, Zenon

\* The update of two fields of a run that execute_call makes.
LEMMA CalledRun ==
  ASSUME NEW r, IsRun(r), NEW e, NEW f
  PROVE  [r EXCEPT !.state = e, !.created_contracts = f] =
           Run(r.inputs, e, r.depth, r.assume_rejects_counter, f)
<1> DEFINE m == Run(r.inputs, e, r.depth, r.assume_rejects_counter, r.created_contracts)
<1>1. [r EXCEPT !.state = e] = m
  BY RunUpdate, Zenon
<1>2. IsRun(m)
  BY RunFields
<1>3. /\ m.inputs = r.inputs /\ m.state = e
      /\ m.depth = r.depth /\ m.assume_rejects_counter = r.assume_rejects_counter
  BY RunFields
<1> HIDE DEF m
<1>4. [m EXCEPT !.created_contracts = f] =
        Run(m.inputs, m.state, m.depth, m.assume_rejects_counter, f)
  BY <1>2, RunUpdate, ZenonT(60)
<1> QED BY <1>1, <1>3, <1>4, Zenon

\* The update of two fields of a run that execute_call, when the run goes on, makes.
LEMMA DeeperRun ==
  ASSUME NEW r, IsRun(r), NEW e, NEW f
  PROVE  [r EXCEPT !.depth = e, !.inputs = f] =
           Run(f, r.state, e, r.assume_rejects_counter, r.created_contracts)
<1> DEFINE m == Run(r.inputs, r.state, e, r.assume_rejects_counter, r.created_contracts)
<1>1. [r EXCEPT !.depth = e] = m
  BY RunUpdate, Zenon
<1>2. IsRun(m)
  BY RunFields
<1>3. /\ m.state = r.state /\ m.depth = e
      /\ m.assume_rejects_counter = r.assume_rejects_counter
      /\ m.created_contracts = r.created_contracts
  BY RunFields
<1> HIDE DEF m
<1>4. [m EXCEPT !.inputs = f] =
        Run(f, m.state, m.depth, m.assume_rejects_counter, m.created_contracts)
  BY <1>2, RunUpdate, Zenon
<1> QED BY <1>1, <1>3, <1>4, Zenon

\* The update of two fields of a run that begin_run makes.
LEMMA BegunRun ==
  ASSUME NEW r, IsRun(r), NEW e, NEW f
  PROVE  [r EXCEPT !.inputs = e, !.state = f] =
           Run(e, f, r.depth, r.assume_rejects_counter, r.created_contracts)
<1> DEFINE m == Run(e, r.state, r.depth, r.assume_rejects_counter, r.created_contracts)
<1>1. [r EXCEPT !.inputs = e] = m
  BY RunUpdate, Zenon
<1>2. IsRun(m)
  BY RunFields
<1>3. /\ m.inputs = e /\ m.depth = r.depth
      /\ m.assume_rejects_counter = r.assume_rejects_counter
      /\ m.created_contracts = r.created_contracts
  BY RunFields
<1> HIDE DEF m
<1>4. [m EXCEPT !.state = f] =
        Run(m.inputs, f, m.depth, m.assume_rejects_counter, m.created_contracts)
  BY <1>2, RunUpdate, Zenon
<1> QED BY <1>1, <1>3, <1>4, Zenon

\* A sequence without its last element is one over the same set.
LEMMA PopSeq ==
  ASSUME NEW S, NEW s \in Seq(S)
  PROVE  pop(s) \in Seq(S)
BY DEF pop

\* A call drawn by the campaign is one of the contracts.
LEMMA DrawnCall ==
  ASSUME contract \in Contracts, NEW ts, NEW f \in fuzzed_functions(ts)
  PROVE  f \in Calls
BY DEF fuzzed_functions, Calls

\* Init makes records of the right form.
LEMMA InitTyped == Init => Typed
BY InvariantAssumption DEF Init, Typed, IsRun, Run, IsFailures, NoRun, NoFailures

\* The end of a round makes records of the right form.
LEMMA FinishTyped ==
  ASSUME Typed, NEW status, NEW cex, NEW cause, finish(status, cex, cause),
         config' = config, contract' = contract
  PROVE  Typed'
BY DEF Typed, finish, IsRun, Run, IsFailures, NoRun, NoFailures

\* Outside run_invariant_test and the shrinker, the steps of a round keep the
\* form of its records: the inputs of a run are calls of the contracts, and an
\* error holds the inputs of a run.
LEMMA CampaignTyped ==
  ASSUME Typed, config' = config,
         begin_run \/ reject_call \/ execute_call \/ call_fails \/ finish_run
  PROVE  Typed' /\ phase' # "shrink"
<1>0. /\ contract \in Contracts
      /\ IsRun(run) /\ run.inputs \in Seq(Calls)
      /\ IsFailures(failures)
      /\ failures.error # None => failures.error.calls \in Seq(Calls)
  BY DEF Typed
\* What is left to show of each step.
<1> DEFINE Kept ==
      /\ contract' = contract
      /\ IsRun(run') /\ run'.inputs \in Seq(Calls)
      /\ IsFailures(failures')
      /\ failures'.error # None => failures'.error.calls \in Seq(Calls)
      /\ phase' # "shrink"
<1>a. ASSUME Kept PROVE Typed' /\ phase' # "shrink"
  BY <1>a DEF Typed
<1>1. CASE begin_run
  <2>1. PICK f \in fuzzed_functions(targets) :
          run' = run \/ run' = [NoRun EXCEPT !.inputs = <<f>>, !.state = contract.setup]
    BY <1>1, Zenon DEF begin_run
  <2>2. f \in Calls
    BY <1>0, DrawnCall
  <2>3. IsRun(NoRun)
    BY DEF NoRun, IsRun, Run
  <2>4. [NoRun EXCEPT !.inputs = <<f>>, !.state = contract.setup] =
          Run(<<f>>, contract.setup, NoRun.depth, NoRun.assume_rejects_counter,
              NoRun.created_contracts)
    BY <2>3, BegunRun, Zenon
  <2>5. run' = run \/ (IsRun(run') /\ run'.inputs = <<f>>)
    BY <2>1, <2>4, RunInputs, ZenonT(60)
  <2>6. UNCHANGED <<contract, failures>> /\ phase' \in {"report", "run"}
    BY <1>1, Zenon DEF begin_run
  <2>7. IsRun(run')
    BY <1>0, <2>5, Zenon
  <2>8. run'.inputs \in Seq(Calls)
    <3>1. <<f>> \in Seq(Calls)
      BY <2>2
    <3> QED BY <1>0, <2>5, <3>1, Zenon
  <2>9. IsFailures(failures') /\ (failures'.error # None => failures'.error.calls \in Seq(Calls))
    BY <1>0, <2>6, Zenon
  <2>10. Kept
    BY <2>6, <2>7, <2>8, <2>9
  <2> QED BY <1>a, <2>10
<1>2. CASE reject_call
  <2> DEFINE rejects == rejects_with(run.assume_rejects_counter)
             rejected == [run EXCEPT !.inputs = pop(@), !.assume_rejects_counter = rejects]
  <2>1. rejected = Run(pop(run.inputs), run.state, run.depth, rejects, run.created_contracts)
    BY <1>0, RejectedRun, Zenon
  <2>2. IsRun(rejected) /\ rejected.inputs = pop(run.inputs)
    <3> HIDE DEF rejected
    <3> QED BY <2>1, RunInputs, SMT
  <2>3. pop(run.inputs) \in Seq(Calls)
    BY <1>0, PopSeq
  <2>4. CASE rejects > config.max_assume_rejects
    <3> DEFINE error == [kind |-> "MaxAssumeRejects", calls |-> <<>>, cause |-> "assume"]
    <3>1. run' = rejected /\ failures' = [failures EXCEPT !.error = error]
      BY <1>2, <2>4, Zenon DEF reject_call
    <3>2. phase' = "report" /\ contract' = contract
      BY <1>2, <2>4, Zenon DEF reject_call
    <3>3. error.calls \in Seq(Calls)
      OBVIOUS
    <3> HIDE DEF rejected, error
    <3>4. IsFailures(failures') /\ failures'.error = error
      BY <1>0, <3>1, FailuresUpdate, Zenon
    <3>5. IsRun(run') /\ run'.inputs = pop(run.inputs)
      BY <2>2, <3>1, Zenon
    <3>6. Kept
      BY <2>3, <3>2, <3>3, <3>4, <3>5
    <3> QED BY <1>a, <3>6
  <2>5. CASE ~(rejects > config.max_assume_rejects)
    <3>1. PICK f \in fuzzed_functions(targets) : run' = [rejected EXCEPT !.inputs = Append(@, f)]
      BY <1>2, <2>5, Zenon DEF reject_call
    <3>2. f \in Calls
      BY <1>0, DrawnCall
    <3>3. UNCHANGED <<failures, phase, contract>> /\ phase = "run"
      BY <1>2, <2>5, Zenon DEF reject_call
    <3> HIDE DEF rejected
    <3>4. IsRun(run') /\ run'.inputs = Append(rejected.inputs, f)
      BY <2>2, <3>1, InputsUpdate, Zenon
    <3>5. Kept
      BY <1>0, <2>2, <2>3, <3>2, <3>3, <3>4
    <3> QED BY <1>a, <3>5
  <2> QED BY <2>4, <2>5
<1>3. CASE execute_call
  <2> DEFINE r == transact_raw(contract, run.state, last(run.inputs))
             created == collect_created_contracts(last(run.inputs), r)
             error == error_after_call(r)
             called == [run EXCEPT !.state = r.to, !.created_contracts = @ \cup created]
  <2>1. error # None => error.calls \in Seq(Calls)
    BY <1>0 DEF error_after_call
  <2>2. IsFailures(failures') /\ (failures'.error # None => failures'.error.calls \in Seq(Calls))
    <3>1. failures' = [reverts |-> failures.reverts + (IF r.how = "ok" THEN 0 ELSE 1),
                       error |-> IF error = None THEN failures.error ELSE error]
      BY <1>3, Zenon DEF execute_call
    <3> HIDE DEF error, r
    <3> QED BY <1>0, <2>1, <3>1 DEF IsFailures
  <2>3. contract' = contract /\ phase = "run"
    BY <1>3, Zenon DEF execute_call
  <2>4. \/ error # None /\ run' = called /\ phase' = "after"
        \/ /\ error = None /\ phase' = phase
           /\ \E f \in fuzzed_functions(targets') :
                run' = [called EXCEPT !.depth = @ + 1, !.inputs = Append(@, f)]
    BY <1>3, Zenon DEF execute_call
  <2> HIDE DEF r, created, error
  <2>5. called = Run(run.inputs, r.to, run.depth, run.assume_rejects_counter,
                     run.created_contracts \cup created)
    BY <1>0, CalledRun, Zenon
  <2>6. IsRun(called) /\ called.inputs = run.inputs
    <3> HIDE DEF called
    <3> QED BY <2>5, RunInputs, Zenon
  <2> HIDE DEF called
  <2>7. CASE run' = called /\ phase' = "after"
    <3>1. IsRun(run') /\ run'.inputs = run.inputs
      BY <2>6, <2>7, Zenon
    <3>2. Kept
      BY <1>0, <2>2, <2>3, <2>7, <3>1
    <3> QED BY <1>a, <3>2
  <2>8. CASE phase' = phase /\ \E f \in fuzzed_functions(targets') :
               run' = [called EXCEPT !.depth = @ + 1, !.inputs = Append(@, f)]
    <3>1. PICK f \in fuzzed_functions(targets') :
            run' = [called EXCEPT !.depth = @ + 1, !.inputs = Append(@, f)]
      BY <2>8, Zenon
    <3>2. f \in Calls
      BY <1>0, DrawnCall
    <3>3. [called EXCEPT !.depth = @ + 1, !.inputs = Append(@, f)] =
            Run(Append(called.inputs, f), called.state, called.depth + 1,
                called.assume_rejects_counter, called.created_contracts)
      BY <2>6, DeeperRun, Zenon
    <3>4. IsRun(run') /\ run'.inputs = Append(called.inputs, f)
      BY <3>1, <3>3, RunInputs, ZenonT(60)
    <3>5. phase' = phase
      BY <2>8, Zenon
    <3>6. Kept
      BY <1>0, <2>2, <2>3, <2>6, <3>2, <3>4, <3>5
    <3> QED BY <1>a, <3>6
  <2> QED BY <2>4, <2>7, <2>8, Zenon
<1>4. CASE call_fails
  BY <1>0, <1>4, <1>a DEF call_fails
<1>5. CASE finish_run
  <2>1. /\ IsFailures(failures')
        /\ failures'.error # None => failures'.error.calls \in Seq(Calls)
    <3> DEFINE error == [kind |-> "BrokenInvariant", calls |-> run.inputs, cause |-> "after"]
    <3>1. failures' = failures \/ failures' = [failures EXCEPT !.error = error]
      BY <1>5, Zenon DEF finish_run, assert_after_invariant
    <3>2. error.calls \in Seq(Calls)
      BY <1>0
    <3> HIDE DEF error
    <3>3. failures' = failures \/ (IsFailures(failures') /\ failures'.error = error)
      BY <1>0, <3>1, FailuresUpdate, Zenon
    <3> QED BY <1>0, <3>2, <3>3, Zenon
  <2>2. Kept
    BY <1>0, <1>5, <2>1 DEF finish_run
  <2> QED BY <1>a, <2>2
<1> QED BY <1>1, <1>2, <1>3, <1>4, <1>5
-----------------------------------------------------------------------------
(***************************************************************************)
(* The shrinker.                                                           *)
(***************************************************************************)

\* A record made of the fields of a shrinker has them.
LEMMA ShrinkerFields ==
  ASSUME NEW r, NEW calls, NEW included, NEW index, NEW prev, NEW left,
         r = Shrinker(calls, included, index, prev, left)
  PROVE  /\ IsShrinker(r)
         /\ r.calls = calls
         /\ r.included_calls = included
         /\ r.call_index = index
         /\ r.prev_shrink = prev
         /\ r.left = left
BY DEF IsShrinker, Shrinker

\* What an update of the included calls makes.
LEMMA IncludedUpdate ==
  ASSUME NEW r, IsShrinker(r), NEW e
  PROVE  [r EXCEPT !.included_calls = e] =
           Shrinker(r.calls, e, r.call_index, r.prev_shrink, r.left)
BY DEF IsShrinker, Shrinker

\* What an update of the call removed last makes.
LEMMA PrevUpdate ==
  ASSUME NEW r, IsShrinker(r), NEW e
  PROVE  [r EXCEPT !.prev_shrink = e] =
           Shrinker(r.calls, r.included_calls, r.call_index, e, r.left)
BY DEF IsShrinker, Shrinker

\* What an update of the index makes.
LEMMA IndexUpdate ==
  ASSUME NEW r, IsShrinker(r), NEW e
  PROVE  [r EXCEPT !.call_index = e] =
           Shrinker(r.calls, r.included_calls, e, r.prev_shrink, r.left)
BY DEF IsShrinker, Shrinker

\* What an update of the iterations that are left makes.
LEMMA LeftUpdate ==
  ASSUME NEW r, IsShrinker(r), NEW e
  PROVE  [r EXCEPT !.left = e] =
           Shrinker(r.calls, r.included_calls, r.call_index, r.prev_shrink, e)
BY DEF IsShrinker, Shrinker

\* restore puts the call removed last back.
LEMMA Restored ==
  ASSUME NEW sh, IsShrinker(sh)
  PROVE  restore(sh) = Shrinker(sh.calls, sh.included_calls \cup {sh.prev_shrink},
                                sh.call_index, None, sh.left)
<1> DEFINE a == Shrinker(sh.calls, sh.included_calls \cup {sh.prev_shrink},
                         sh.call_index, sh.prev_shrink, sh.left)
<1>1. [sh EXCEPT !.included_calls = sh.included_calls \cup {sh.prev_shrink}] = a
  BY IncludedUpdate
<1>2. /\ IsShrinker(a) /\ a.calls = sh.calls
      /\ a.included_calls = sh.included_calls \cup {sh.prev_shrink}
      /\ a.call_index = sh.call_index /\ a.left = sh.left
  BY ShrinkerFields
<1> HIDE DEF a
<1>3. [a EXCEPT !.prev_shrink = None] =
        Shrinker(a.calls, a.included_calls, a.call_index, None, a.left)
  BY <1>2, PrevUpdate, Zenon
<1> QED BY <1>1, <1>2, <1>3, Zenon DEF restore

\* simplify removes the next call.
LEMMA Simplified ==
  ASSUME NEW sh, IsShrinker(sh)
  PROVE  simplify(sh) = Shrinker(sh.calls, sh.included_calls \ {sh.call_index},
                                 sh.call_index + 1, sh.call_index, sh.left)
<1> DEFINE a == Shrinker(sh.calls, sh.included_calls \ {sh.call_index},
                         sh.call_index, sh.prev_shrink, sh.left)
           b == Shrinker(a.calls, a.included_calls, a.call_index, sh.call_index, a.left)
<1>1. [sh EXCEPT !.included_calls = sh.included_calls \ {sh.call_index}] = a
  BY IncludedUpdate
<1>2. /\ IsShrinker(a) /\ a.calls = sh.calls
      /\ a.included_calls = sh.included_calls \ {sh.call_index}
      /\ a.call_index = sh.call_index /\ a.left = sh.left
  BY ShrinkerFields
<1> HIDE DEF a
<1>3. [a EXCEPT !.prev_shrink = sh.call_index] = b
  BY <1>2, PrevUpdate, Zenon
<1>4. /\ IsShrinker(b) /\ b.calls = a.calls /\ b.included_calls = a.included_calls
      /\ b.prev_shrink = sh.call_index /\ b.left = a.left
  BY ShrinkerFields
<1> HIDE DEF b
<1>5. [b EXCEPT !.call_index = sh.call_index + 1] =
        Shrinker(b.calls, b.included_calls, sh.call_index + 1, b.prev_shrink, b.left)
  BY <1>4, IndexUpdate, Zenon
<1>6. simplify(sh) = [b EXCEPT !.call_index = sh.call_index + 1]
  BY <1>1, <1>3, Zenon DEF simplify
<1> QED BY <1>2, <1>4, <1>5, <1>6, Zenon

\* What shrink_sequence makes of the shrinker: a check that cannot be run costs
\* an iteration; otherwise complicate, simplify or the end of the loop.
LEMMA ShrinkCases ==
  ASSUME shrink_sequence, IsShrinker(shrinker)
  PROVE  LET sh == shrinker
             failed == Fails(contract, config.fail_on_revert, sh.calls, sh.included_calls)
         IN  \/ /\ faults' = TRUE
                /\ shrinker' = Shrinker(sh.calls, sh.included_calls, sh.call_index,
                                        sh.prev_shrink, sh.left - 1)
             \/ /\ faults' = faults
                /\ \/ /\ ~failed /\ sh.prev_shrink = None
                      /\ shrinker' = Shrinker(sh.calls, sh.included_calls, sh.call_index,
                                              sh.prev_shrink, 0)
                   \/ /\ ~failed /\ sh.prev_shrink # None /\ exhausted(sh)
                      /\ shrinker' = Shrinker(sh.calls, sh.included_calls \cup {sh.prev_shrink},
                                              sh.call_index, None, 0)
                   \/ /\ ~failed /\ sh.prev_shrink # None /\ ~exhausted(sh)
                      /\ shrinker' = Shrinker(sh.calls,
                             (sh.included_calls \cup {sh.prev_shrink}) \ {sh.call_index},
                             sh.call_index + 1, sh.call_index, sh.left - 1)
                   \/ /\ failed /\ exhausted(sh)
                      /\ shrinker' = Shrinker(sh.calls, sh.included_calls, sh.call_index,
                                              sh.prev_shrink, 0)
                   \/ /\ failed /\ ~exhausted(sh)
                      /\ shrinker' = Shrinker(sh.calls, sh.included_calls \ {sh.call_index},
                                              sh.call_index + 1, sh.call_index, sh.left - 1)
<1> DEFINE sh == shrinker
           failed == Fails(contract, config.fail_on_revert, sh.calls, sh.included_calls)
           success == check_sequence(contract, config.fail_on_revert, current(sh))
           next == IF success THEN complicate(sh) ELSE IF exhausted(sh) THEN sh ELSE simplify(sh)
           over == IF success THEN sh.prev_shrink = None \/ exhausted(sh) ELSE exhausted(sh)
<1>1. success <=> ~failed
  BY Zenon DEF Fails, current
<1>2. \/ faults' = TRUE /\ shrinker' = [sh EXCEPT !.left = sh.left - 1]
      \/ faults' = faults /\ shrinker' = [next EXCEPT !.left = IF over THEN 0 ELSE next.left - 1]
  BY Zenon DEF shrink_sequence, NoFault, Fault
<1>3. ASSUME NEW made, IsShrinker(made), NEW left
      PROVE  [made EXCEPT !.left = left] =
               Shrinker(made.calls, made.included_calls, made.call_index, made.prev_shrink, left)
  BY <1>3, LeftUpdate, Zenon
<1>4. restore(sh) = Shrinker(sh.calls, sh.included_calls \cup {sh.prev_shrink},
                             sh.call_index, None, sh.left)
  BY Restored, Zenon
<1>5. /\ IsShrinker(restore(sh)) /\ restore(sh).calls = sh.calls
      /\ restore(sh).included_calls = sh.included_calls \cup {sh.prev_shrink}
      /\ restore(sh).call_index = sh.call_index /\ restore(sh).prev_shrink = None
      /\ restore(sh).left = sh.left
  BY <1>4, ShrinkerFields, SMT
<1>6. simplify(sh) = Shrinker(sh.calls, sh.included_calls \ {sh.call_index},
                              sh.call_index + 1, sh.call_index, sh.left)
  BY Simplified, Zenon
<1>7. simplify(restore(sh)) =
        Shrinker(restore(sh).calls, restore(sh).included_calls \ {restore(sh).call_index},
                 restore(sh).call_index + 1, restore(sh).call_index, restore(sh).left)
  BY <1>5, Simplified, Zenon
<1>8. CASE faults' = TRUE /\ shrinker' = [sh EXCEPT !.left = sh.left - 1]
  BY <1>3, <1>8, Zenon
<1>9. CASE /\ faults' = faults
           /\ shrinker' = [next EXCEPT !.left = IF over THEN 0 ELSE next.left - 1]
  <2>1. CASE ~failed /\ sh.prev_shrink = None
    <3>1. next = sh /\ over
      BY <1>1, <2>1, Zenon DEF complicate
    <3>2. shrinker' = [sh EXCEPT !.left = 0]
      BY <1>9, <3>1, Zenon
    <3> QED BY <1>3, <1>9, <2>1, <3>2, Zenon
  <2>2. CASE ~failed /\ sh.prev_shrink # None /\ exhausted(sh)
    <3>1. next = restore(sh) /\ over
      BY <1>1, <2>2, Zenon DEF complicate
    <3>2. shrinker' = [restore(sh) EXCEPT !.left = 0]
      BY <1>9, <3>1, Zenon
    <3>3. shrinker' = Shrinker(sh.calls, sh.included_calls \cup {sh.prev_shrink},
                               sh.call_index, None, 0)
      BY <1>3, <1>5, <3>2, ZenonT(60)
    <3> QED BY <1>9, <2>2, <3>3, Zenon
  <2>3. CASE ~failed /\ sh.prev_shrink # None /\ ~exhausted(sh)
    <3> DEFINE made == simplify(restore(sh))
    <3>1. next = made /\ ~over
      BY <1>1, <2>3, Zenon DEF complicate
    <3>2. shrinker' = [made EXCEPT !.left = made.left - 1]
      BY <1>9, <3>1, Zenon
    <3>3. /\ IsShrinker(made) /\ made.calls = sh.calls
          /\ made.included_calls = (sh.included_calls \cup {sh.prev_shrink}) \ {sh.call_index}
          /\ made.call_index = sh.call_index + 1 /\ made.prev_shrink = sh.call_index
          /\ made.left = sh.left
      BY <1>5, <1>7, ShrinkerFields, SMT
    <3>4. shrinker' = Shrinker(sh.calls,
                        (sh.included_calls \cup {sh.prev_shrink}) \ {sh.call_index},
                        sh.call_index + 1, sh.call_index, sh.left - 1)
      <4> HIDE DEF made
      <4>1. shrinker' = Shrinker(made.calls, made.included_calls, made.call_index,
                                 made.prev_shrink, made.left - 1)
        BY <1>3, <3>2, <3>3, Zenon
      <4> QED BY <3>3, <4>1, SMT
    <3> QED BY <1>9, <2>3, <3>4, Zenon
  <2>4. CASE failed /\ exhausted(sh)
    <3>1. next = sh /\ over
      BY <1>1, <2>4, Zenon
    <3>2. shrinker' = [sh EXCEPT !.left = 0]
      BY <1>9, <3>1, Zenon
    <3> QED BY <1>3, <1>9, <2>4, <3>2, Zenon
  <2>5. CASE failed /\ ~exhausted(sh)
    <3> DEFINE made == simplify(sh)
    <3>1. next = made /\ ~over
      BY <1>1, <2>5, Zenon
    <3>2. shrinker' = [made EXCEPT !.left = made.left - 1]
      BY <1>9, <3>1, Zenon
    <3>3. /\ IsShrinker(made) /\ made.calls = sh.calls
          /\ made.included_calls = sh.included_calls \ {sh.call_index}
          /\ made.call_index = sh.call_index + 1 /\ made.prev_shrink = sh.call_index
          /\ made.left = sh.left
      BY <1>6, ShrinkerFields, SMT
    <3>4. shrinker' = Shrinker(sh.calls, sh.included_calls \ {sh.call_index},
                        sh.call_index + 1, sh.call_index, sh.left - 1)
      <4> HIDE DEF made
      <4>1. shrinker' = Shrinker(made.calls, made.included_calls, made.call_index,
                                 made.prev_shrink, made.left - 1)
        BY <1>3, <3>2, <3>3, Zenon
      <4> QED BY <3>3, <4>1, SMT
    <3> QED BY <1>9, <2>5, <3>4, Zenon
  <2> QED BY <2>1, <2>2, <2>3, <2>4, <2>5, Zenon
<1> QED BY <1>2, <1>8, <1>9, Zenon

\* A step of the shrinker keeps the form of the records.
LEMMA ShrinkTyped ==
  ASSUME Typed, shrink_sequence, config' = config
  PROVE  Typed'
<1>0. /\ phase = "shrink" /\ shrinker.left > 0
      /\ UNCHANGED <<contract, phase, failures, run>>
  BY Zenon DEF shrink_sequence
<1>1. /\ IsShrinker(shrinker)
      /\ shrinker.calls \in Seq(Calls)
      /\ shrinker.included_calls \subseteq 1..Len(shrinker.calls)
      /\ shrinker.call_index \in 1..Len(shrinker.calls) + 1
      /\ shrinker.prev_shrink \in {None} \cup 1..Len(shrinker.calls)
      /\ shrinker.left \in Nat
  BY <1>0 DEF Typed
<1>2. PICK included, index, prev, left :
        /\ shrinker' = Shrinker(shrinker.calls, included, index, prev, left)
        /\ included \subseteq 1..Len(shrinker.calls)
        /\ index \in 1..Len(shrinker.calls) + 1
        /\ prev \in {None} \cup 1..Len(shrinker.calls)
        /\ left \in Nat
  <2>1. Len(shrinker.calls) \in Nat
    BY <1>1
  <2>2. ~exhausted(shrinker) <=> shrinker.call_index <= Len(shrinker.calls)
    BY <1>1, <2>1 DEF exhausted
  <2>3. shrinker.left - 1 \in Nat
    BY <1>0, <1>1
  <2> DEFINE sh == shrinker
             Good(included, index, prev, left) ==
               /\ shrinker' = Shrinker(sh.calls, included, index, prev, left)
               /\ included \subseteq 1..Len(sh.calls)
               /\ index \in 1..Len(sh.calls) + 1
               /\ prev \in {None} \cup 1..Len(sh.calls)
               /\ left \in Nat
  <2>4. CASE shrinker' = Shrinker(sh.calls, sh.included_calls, sh.call_index,
                                  sh.prev_shrink, sh.left - 1)
    <3>1. Good(sh.included_calls, sh.call_index, sh.prev_shrink, sh.left - 1)
      BY <1>1, <2>3, <2>4
    <3> QED BY <3>1, Zenon
  <2>5. CASE shrinker' = Shrinker(sh.calls, sh.included_calls, sh.call_index,
                                  sh.prev_shrink, 0)
    <3>1. Good(sh.included_calls, sh.call_index, sh.prev_shrink, 0)
      BY <1>1, <2>5
    <3> QED BY <3>1, Zenon
  <2>6. CASE /\ sh.prev_shrink # None
             /\ shrinker' = Shrinker(sh.calls, sh.included_calls \cup {sh.prev_shrink},
                                     sh.call_index, None, 0)
    <3>1. Good(sh.included_calls \cup {sh.prev_shrink}, sh.call_index, None, 0)
      BY <1>1, <2>6
    <3> QED BY <3>1, Zenon
  <2>7. CASE /\ sh.prev_shrink # None /\ ~exhausted(sh)
             /\ shrinker' = Shrinker(sh.calls,
                              (sh.included_calls \cup {sh.prev_shrink}) \ {sh.call_index},
                              sh.call_index + 1, sh.call_index, sh.left - 1)
    <3>1. Good((sh.included_calls \cup {sh.prev_shrink}) \ {sh.call_index},
               sh.call_index + 1, sh.call_index, sh.left - 1)
      BY <1>1, <2>1, <2>2, <2>3, <2>7
    <3> QED BY <3>1, ZenonT(60)
  <2>8. CASE /\ ~exhausted(sh)
             /\ shrinker' = Shrinker(sh.calls, sh.included_calls \ {sh.call_index},
                                     sh.call_index + 1, sh.call_index, sh.left - 1)
    <3>1. Good(sh.included_calls \ {sh.call_index}, sh.call_index + 1, sh.call_index,
               sh.left - 1)
      BY <1>1, <2>1, <2>2, <2>3, <2>8
    <3> QED BY <3>1, Zenon
  <2> QED BY <1>1, <2>4, <2>5, <2>6, <2>7, <2>8, ShrinkCases, Zenon
<1>3. /\ IsShrinker(shrinker') /\ shrinker'.calls = shrinker.calls
      /\ shrinker'.included_calls = included /\ shrinker'.call_index = index
      /\ shrinker'.prev_shrink = prev /\ shrinker'.left = left
  BY <1>2, ShrinkerFields, SMT
<1> QED BY <1>0, <1>1, <1>2, <1>3 DEF Typed

\* A step of the shrinker keeps what is known to fail, and what cannot be left
\* out of it.
LEMMA ShrinkSearches ==
  ASSUME IInv, shrink_sequence, config' = config, phase' = "shrink", ~faults',
         fails(1..Len(shrinker.calls))'
  PROVE  (Searching \/ Done)'
<1> DEFINE sh == shrinker
           n == Len(sh.calls)
           F(kept) == Fails(contract, config.fail_on_revert, sh.calls, kept)
           Mono == Monotone(contract, config.fail_on_revert, sh.calls)
<1>0. /\ phase = "shrink" /\ shrinker.left > 0
      /\ contract' = contract
  BY Zenon DEF shrink_sequence
<1>1. /\ IsShrinker(sh) /\ n \in Nat
      /\ sh.included_calls \subseteq 1..n
      /\ sh.call_index \in 1..n + 1
      /\ sh.prev_shrink \in {None} \cup 1..n
      /\ sh.left \in Nat
      /\ config \in Configs
  BY <1>0 DEF IInv, Typed
<1>2. config.shrink_run_limit \in Nat /\ None \notin Nat
  BY <1>1, InvariantAssumption
<1>3. shrinker'.calls = sh.calls
  <2>1. \E included, index, prev, left :
          shrinker' = Shrinker(sh.calls, included, index, prev, left)
    BY <1>1, ShrinkCases, Zenon
  <2> QED BY <2>1, ShrinkerFields, SMT
<1>4. ASSUME NEW kept PROVE fails(kept)' <=> F(kept)
  BY <1>0, <1>3, Zenon DEF fails
<1>5. Monotone(contract, config.fail_on_revert, shrinker.calls)' <=> Mono
  BY <1>0, <1>3, Zenon
<1>6. ASSUME Mono, NEW smaller \in SUBSET (1..n), NEW larger \in SUBSET (1..n),
             smaller \subseteq larger, ~F(larger)
      PROVE  ~F(smaller)
  BY <1>6 DEF Monotone
<1>7. faults' = faults /\ ~faults
  <2>1. faults' # TRUE
    BY Zenon
  <2>2. faults' = faults
    BY <1>1, <2>1, ShrinkCases, Zenon
  <2> QED BY <2>2, Zenon
<1>8. Searching
  <2>1. fails(1..Len(shrinker.calls))
    BY <1>3, <1>4, Zenon DEF fails
  <2>2. Searching \/ Done
    BY <1>0, <1>7, <2>1, Zenon DEF IInv
  <2> QED BY <1>0, <1>1, <2>2 DEF Done
<1>9. /\ sh.left + sh.call_index = config.shrink_run_limit + 1
      /\ sh.prev_shrink = IF sh.call_index = 1 THEN None ELSE sh.call_index - 1
      /\ sh.prev_shrink \notin sh.included_calls
      /\ sh.call_index..n \subseteq sh.included_calls
  BY <1>8, Zenon DEF Searching
<1>10. F(Base)
  BY <1>8, Zenon DEF Searching, fails
<1>11. Mono => \A i \in Base : i < sh.call_index - 1 => ~F(Base \ {i})
  BY <1>8, Zenon DEF Searching, Needed, fails
<1>12. Base \in SUBSET (1..n) /\ sh.included_calls \subseteq Base
  BY <1>1, <1>2 DEF Base
<1>13. exhausted(sh) <=> sh.call_index = n + 1
  BY <1>1 DEF exhausted
<1>next. ASSUME ~exhausted(sh) PROVE sh.call_index \in sh.included_calls
  <2>1. sh.call_index # n + 1
    BY <1>13, <1>next, Zenon
  <2>2. sh.call_index \in 1..n + 1 /\ n \in Nat
    BY <1>1
  <2> HIDE DEF n, sh
  <2>3. sh.call_index \in sh.call_index..n
    BY <2>1, <2>2
  <2> QED BY <1>9, <2>3, Zenon
\* What is left out of a candidate that fails is no longer needed by it.
<1>14. ASSUME F(sh.included_calls), Mono, NEW i \in sh.included_calls, i < sh.call_index
       PROVE  ~F(sh.included_calls \ {i})
  <2>1. i \in Base /\ i \in 1..n
    BY <1>1, <1>12, Zenon
  <2>2. i < sh.call_index - 1
    BY <1>1, <1>2, <1>9, <1>14, <2>1
  <2>3. ~F(Base \ {i})
    BY <1>11, <1>14, <2>1, <2>2, Zenon
  <2>4. sh.included_calls \ {i} \subseteq Base \ {i}
    BY <1>12
  <2>5. /\ sh.included_calls \ {i} \in SUBSET (1..n)
        /\ Base \ {i} \in SUBSET (1..n)
    BY <1>1, <1>12, Zenon
  <2> HIDE DEF F, Mono
  <2> QED BY <1>6, <1>14, <2>3, <2>4, <2>5, Zenon
\* A call whose removal hides the failure is needed.
<1>15. ASSUME ~F(sh.included_calls), sh.prev_shrink # None, Mono, NEW i \in Base,
              i < sh.call_index
       PROVE  ~F(Base \ {i})
  <2>1. Base = sh.included_calls \cup {sh.prev_shrink}
    BY <1>15 DEF Base
  <2>2. CASE i = sh.prev_shrink
    <3>1. Base \ {i} = sh.included_calls
      BY <1>9, <2>1, <2>2
    <3> QED BY <1>15, <3>1, Zenon
  <2>3. CASE i # sh.prev_shrink
    <3>1. i < sh.call_index - 1
      BY <1>1, <1>2, <1>9, <1>12, <1>15, <2>3
    <3> QED BY <1>11, <1>15, <3>1, Zenon
  <2> QED BY <2>2, <2>3
<1> HIDE DEF F, Mono
\* The loop ends with calls that fail and are all needed.
<1>16. ASSUME NEW included, NEW index, NEW prev,
              shrinker' = Shrinker(sh.calls, included, index, prev, 0),
              included \subseteq 1..n, F(included),
              Mono => \A i \in included : ~F(included \ {i})
       PROVE  Done'
  <2>1. shrinker'.included_calls = included /\ shrinker'.left = 0
    BY <1>16, ShrinkerFields, SMT
  <2> QED BY <1>3, <1>4, <1>5, <1>16, <2>1, Zenon DEF Done, Needed
\* The loop goes on with the next call removed from calls that fail.
<1>17. ASSUME NEW included, ~exhausted(sh),
              shrinker' = Shrinker(sh.calls, included, sh.call_index + 1, sh.call_index,
                                   sh.left - 1),
              sh.call_index \notin included,
              sh.call_index + 1..n \subseteq included,
              F(included \cup {sh.call_index}),
              Mono => \A i \in included \cup {sh.call_index} :
                        i < sh.call_index => ~F((included \cup {sh.call_index}) \ {i})
       PROVE  Searching'
  <2>1. /\ shrinker'.included_calls = included /\ shrinker'.left = sh.left - 1
        /\ shrinker'.call_index = sh.call_index + 1 /\ shrinker'.prev_shrink = sh.call_index
    BY <1>17, ShrinkerFields, SMT
  <2>2. Base' = included \cup {sh.call_index}
    BY <1>1, <1>2, <2>1 DEF Base
  <2>3. /\ shrinker'.left + shrinker'.call_index = config.shrink_run_limit + 1
        /\ shrinker'.prev_shrink =
             IF shrinker'.call_index = 1 THEN None ELSE shrinker'.call_index - 1
        /\ shrinker'.call_index - 1 = sh.call_index
    <3>1. sh.call_index \in Nat /\ sh.call_index >= 1
      BY <1>1
    <3>2. /\ sh.call_index + 1 - 1 = sh.call_index /\ sh.call_index + 1 # 1
          /\ sh.left - 1 + (sh.call_index + 1) = sh.left + sh.call_index
      BY <1>1, <3>1
    <3>3. shrinker'.left + shrinker'.call_index = config.shrink_run_limit + 1
      BY <1>9, <2>1, <3>2, Zenon
    <3>4. shrinker'.call_index # 1 /\ shrinker'.call_index - 1 = sh.call_index
      BY <2>1, <3>1
    <3> QED BY <2>1, <3>3, <3>4, Zenon
  <2>4. fails(Base)'
    BY <1>4, <1>17, <2>2, Zenon
  <2>5. Needed(Base, shrinker.call_index - 1)'
    BY <1>4, <1>5, <1>17, <2>2, <2>3, Zenon DEF Needed
  <2> QED BY <1>3, <1>17, <2>1, <2>3, <2>4, <2>5, Zenon DEF Searching
<1>18. CASE ~F(sh.included_calls) /\ sh.prev_shrink = None
  BY <1>10, <1>18 DEF Base
<1>19. CASE /\ ~F(sh.included_calls) /\ sh.prev_shrink # None /\ exhausted(sh)
            /\ shrinker' = Shrinker(sh.calls, sh.included_calls \cup {sh.prev_shrink},
                                    sh.call_index, None, 0)
  <2>1. Base = sh.included_calls \cup {sh.prev_shrink}
    BY <1>19 DEF Base
  <2>2. ASSUME NEW i \in Base PROVE i < sh.call_index
    BY <1>1, <1>12, <1>13, <1>19, <2>2
  <2>3. Mono => \A i \in Base : ~F(Base \ {i})
    BY <1>15, <1>19, <2>2, Zenon
  <2>4. shrinker' = Shrinker(sh.calls, Base, sh.call_index, None, 0)
    BY <1>19, <2>1, Zenon
  <2>5. Base \subseteq 1..n
    BY <1>12, Zenon
  <2> HIDE DEF n
  <2> QED BY <1>10, <1>16, <2>3, <2>4, <2>5, Zenon
<1>20. CASE /\ ~F(sh.included_calls) /\ sh.prev_shrink # None /\ ~exhausted(sh)
            /\ shrinker' = Shrinker(sh.calls,
                             (sh.included_calls \cup {sh.prev_shrink}) \ {sh.call_index},
                             sh.call_index + 1, sh.call_index, sh.left - 1)
  <2> DEFINE included == Base \ {sh.call_index}
  <2>1. Base = sh.included_calls \cup {sh.prev_shrink}
    BY <1>20 DEF Base
  <2>2. sh.call_index \in sh.included_calls
    BY <1>next, <1>20, Zenon
  <2>3. included \cup {sh.call_index} = Base
    BY <2>1, <2>2
  <2>4. sh.call_index \notin included
    OBVIOUS
  <2>5. sh.call_index + 1..n \subseteq included
    BY <1>1, <1>9, <2>1
  <2>6. Mono => \A i \in Base : i < sh.call_index => ~F(Base \ {i})
    BY <1>15, <1>20, Zenon
  <2>7. shrinker' = Shrinker(sh.calls, included, sh.call_index + 1, sh.call_index,
                             sh.left - 1)
    BY <1>20, <2>1, Zenon
  <2> HIDE DEF included, n
  <2>8. /\ F(included \cup {sh.call_index})
        /\ Mono => \A i \in included \cup {sh.call_index} :
                     i < sh.call_index => ~F((included \cup {sh.call_index}) \ {i})
    BY <1>10, <2>3, <2>6, Zenon
  <2> QED BY <1>17, <1>20, <2>4, <2>5, <2>7, <2>8, Zenon
<1>21. CASE /\ F(sh.included_calls) /\ exhausted(sh)
            /\ shrinker' = Shrinker(sh.calls, sh.included_calls, sh.call_index,
                                    sh.prev_shrink, 0)
  <2>1. ASSUME NEW i \in sh.included_calls PROVE i < sh.call_index
    BY <1>1, <1>13, <1>21, <2>1
  <2>2. Mono => \A i \in sh.included_calls : ~F(sh.included_calls \ {i})
    BY <1>14, <1>21, <2>1, Zenon
  <2>3. sh.included_calls \subseteq 1..n
    BY <1>1, Zenon
  <2> HIDE DEF n
  <2> QED BY <1>16, <1>21, <2>2, <2>3, Zenon
<1>22. CASE /\ F(sh.included_calls) /\ ~exhausted(sh)
            /\ shrinker' = Shrinker(sh.calls, sh.included_calls \ {sh.call_index},
                                    sh.call_index + 1, sh.call_index, sh.left - 1)
  <2> DEFINE included == sh.included_calls \ {sh.call_index}
  <2>1. sh.call_index \in sh.included_calls
    BY <1>next, <1>22, Zenon
  <2>2. included \cup {sh.call_index} = sh.included_calls
    BY <2>1
  <2>3. sh.call_index \notin included
    OBVIOUS
  <2>4. sh.call_index + 1..n \subseteq included
    BY <1>1, <1>9
  <2>5. Mono => \A i \in sh.included_calls : i < sh.call_index => ~F(sh.included_calls \ {i})
    BY <1>14, <1>22, Zenon
  <2>6. shrinker' = Shrinker(sh.calls, included, sh.call_index + 1, sh.call_index,
                             sh.left - 1)
    BY <1>22, Zenon
  <2> HIDE DEF included, n
  <2>7. /\ F(included \cup {sh.call_index})
        /\ Mono => \A i \in included \cup {sh.call_index} :
                     i < sh.call_index => ~F((included \cup {sh.call_index}) \ {i})
    BY <1>22, <2>2, <2>5, Zenon
  <2> QED BY <1>17, <1>22, <2>3, <2>4, <2>6, <2>7, Zenon
<1>23. faults' # TRUE
  BY Zenon
<1> QED BY <1>1, <1>18, <1>19, <1>20, <1>21, <1>22, <1>23, ShrinkCases, Zenon DEF F

\* The report ends the round, or hands the calls of the error to a shrinker that
\* has tried nothing yet.
LEMMA ReportIInv ==
  ASSUME Typed, report, config' = config
  PROVE  IInv'
<1>1. contract' = contract
  BY Zenon DEF report
<1>2. CASE \E status, cex, cause : finish(status, cex, cause)
  <2>1. Typed'
    BY <1>1, <1>2, FinishTyped, Zenon
  <2>2. phase' = "idle"
    BY <1>2, Zenon DEF finish
  <2> QED BY <2>1, <2>2 DEF IInv
<1>3. CASE /\ failures.error # None
           /\ shrinker' = [calls |-> failures.error.calls,
                           included_calls |-> 1..Len(failures.error.calls),
                           call_index |-> 1, prev_shrink |-> None,
                           left |-> config.shrink_run_limit]
           /\ phase' = "shrink"
           /\ UNCHANGED <<failures, run>>
  <2> DEFINE calls == failures.error.calls
  <2>1. calls \in Seq(Calls) /\ Len(calls) \in Nat
    BY <1>3 DEF Typed
  <2>2. config.shrink_run_limit \in Nat
    BY InvariantAssumption DEF Typed
  <2>3. /\ IsShrinker(shrinker') /\ shrinker'.calls = calls
        /\ shrinker'.included_calls = 1..Len(calls) /\ shrinker'.call_index = 1
        /\ shrinker'.prev_shrink = None /\ shrinker'.left = config.shrink_run_limit
    <3>1. shrinker' = Shrinker(calls, 1..Len(calls), 1, None, config.shrink_run_limit)
      BY <1>3, Zenon DEF Shrinker
    <3> QED BY <3>1, ShrinkerFields, SMT
  <2>4. Typed'
    BY <1>1, <1>3, <2>1, <2>2, <2>3 DEF Typed
  <2>5. ASSUME fails(1..Len(shrinker.calls))' PROVE Searching'
    <3>1. Base' = 1..Len(calls)
      BY <2>3 DEF Base
    <3>2. fails(Base)'
      BY <2>3, <2>5, <3>1, Zenon
    <3>3. shrinker'.call_index - 1 = 0
      BY <2>3
    <3>4. ASSUME NEW i \in Base' PROVE ~(i < 0)
      BY <2>1, <3>1, <3>4
    <3>5. Needed(Base, shrinker.call_index - 1)'
      BY <3>3, <3>4, Zenon DEF Needed
    <3>6. /\ shrinker'.left + shrinker'.call_index = config.shrink_run_limit + 1
          /\ shrinker'.prev_shrink = IF shrinker'.call_index = 1 THEN None
                                     ELSE shrinker'.call_index - 1
          /\ shrinker'.call_index..Len(shrinker'.calls) \subseteq shrinker'.included_calls
      BY <2>3
    <3>7. shrinker'.prev_shrink \notin shrinker'.included_calls
      BY <2>1, <2>3, InvariantAssumption
    <3> QED BY <3>2, <3>5, <3>6, <3>7, Zenon DEF Searching
  <2> QED BY <2>4, <2>5, Zenon DEF IInv
<1> QED BY <1>2, <1>3, Zenon DEF report

\* The other steps end or begin a round, or happen between rounds.
LEMMA OutsideIInv ==
  ASSUME Typed, run_invariant_test \/ persist_failure \/ kill \/ edit, config' = config
  PROVE  IInv'
<1>0. SUFFICES Typed' /\ phase' # "shrink"
  BY Zenon DEF IInv
<1>1. CASE run_invariant_test
  <2>1. contract' = contract
    BY <1>1, Zenon DEF run_invariant_test
  <2>2. CASE \E status, cex, cause : finish(status, cex, cause)
    BY <2>1, <2>2, FinishTyped, Zenon DEF finish
  <2>3. CASE prepare_test
    <3> DEFINE error == IF call_invariant_function(contract, contract.setup) THEN None
                  ELSE [kind |-> "BrokenInvariant", calls |-> <<>>, cause |-> "setup"]
    <3>1. failures' = [NoFailures EXCEPT !.error = error]
      BY <2>3, Zenon DEF prepare_test
    <3>2. IsFailures(NoFailures)
      BY DEF NoFailures, IsFailures
    <3>3. error # None => error.calls \in Seq(Calls)
      OBVIOUS
    <3> HIDE DEF error
    <3>4. IsFailures(failures') /\ failures'.error = error
      BY <3>1, <3>2, FailuresUpdate, Zenon
    <3>5. run' = run /\ phase' = "between"
      BY <2>3, Zenon DEF prepare_test
    <3> QED BY <2>1, <3>3, <3>4, <3>5 DEF Typed
  <2> QED BY <1>1, <2>2, <2>3, Zenon DEF run_invariant_test
<1>2. CASE persist_failure
  <2>1. contract' = contract /\ \E status, cex, cause : finish(status, cex, cause)
    BY <1>2, Zenon DEF persist_failure
  <2> QED BY <2>1, FinishTyped, Zenon DEF finish
<1>3. CASE kill
  <2>1. /\ contract' = contract /\ run' = NoRun /\ failures' = NoFailures /\ phase' = "idle"
    BY <1>3, Zenon DEF kill
  <2> QED BY <2>1 DEF Typed, IsRun, Run, IsFailures, NoRun, NoFailures
<1>4. CASE edit
  <2>1. /\ contract' \in config.edits /\ run' = run /\ failures' = failures
        /\ phase' = "idle"
    BY <1>4, Zenon DEF edit
  <2>2. contract' \in Contracts
    BY <2>1, InvariantAssumption DEF Typed
  <2> QED BY <2>1, <2>2 DEF Typed
<1> QED BY <1>1, <1>2, <1>3, <1>4, Zenon

\* For calls of any length, contracts of any behaviour and any limit: while
\* shrink_sequence runs, what it has kept with the call it removed last fails,
\* and none of the calls it has gone past can be left out of it.
THEOREM ShrinkerInvariant == Spec => []IInv
<1>1. Init => IInv
  BY InitTyped DEF Init, IInv
<1>2. IInv /\ [Next]_vars => IInv'
  <2> SUFFICES ASSUME IInv, [Next]_vars PROVE IInv'
    OBVIOUS
  <2>0. Typed
    BY Zenon DEF IInv
  <2>1. CASE /\ begin_run \/ reject_call \/ execute_call \/ call_fails \/ finish_run
             /\ config' = config
    BY <2>0, <2>1, CampaignTyped, Zenon DEF IInv
  <2>2. CASE report /\ config' = config
    BY <2>0, <2>2, ReportIInv, Zenon
  <2>3. CASE shrink_sequence /\ config' = config
    <3>1. Typed'
      BY <2>0, <2>3, ShrinkTyped, Zenon
    <3> QED BY <2>3, <3>1, ShrinkSearches, Zenon DEF IInv
  <2>4. CASE (run_invariant_test \/ persist_failure \/ kill \/ edit) /\ config' = config
    BY <2>0, <2>4, OutsideIInv, Zenon
  <2>5. CASE UNCHANGED vars
    BY <2>5, Zenon DEF vars, IInv, Typed, Searching, Done, Base, Needed, fails
  <2> QED BY <2>1, <2>2, <2>3, <2>4, <2>5, Zenon DEF Next, Round
<1> QED BY <1>1, <1>2, PTL DEF Spec

\* The loop cannot stop before all calls were tried when the limit exceeds their
\* number.
LEMMA ShrunkRight == IInv => ShrinksRight
<1> SUFFICES ASSUME IInv, phase = "shrink", shrinker.left = 0, ~faults,
                    fails(1..Len(shrinker.calls)),
                    config.shrink_run_limit > Len(shrinker.calls)
             PROVE  /\ fails(shrinker.included_calls)
                    /\ Monotone(contract, config.fail_on_revert, shrinker.calls) =>
                         \A i \in shrinker.included_calls :
                           ~fails(shrinker.included_calls \ {i})
  BY Zenon DEF ShrinksRight, fails
<1>1. /\ Len(shrinker.calls) \in Nat
      /\ shrinker.call_index \in 1..Len(shrinker.calls) + 1
      /\ shrinker.included_calls \subseteq 1..Len(shrinker.calls)
      /\ config.shrink_run_limit \in Nat
  BY InvariantAssumption DEF IInv, Typed
<1>2. Searching \/ Done
  BY Zenon DEF IInv
<1>3. ~Searching
  <2>1. shrinker.left + shrinker.call_index # config.shrink_run_limit + 1
    BY <1>1
  <2> QED BY <2>1, Zenon DEF Searching
<1>4. fails(shrinker.included_calls)
      /\ Needed(shrinker.included_calls, Len(shrinker.calls) + 1)
  BY <1>2, <1>3, Zenon DEF Done
<1>5. ASSUME NEW i \in shrinker.included_calls PROVE i < Len(shrinker.calls) + 1
  BY <1>1, <1>5
<1> QED BY <1>4, <1>5, Zenon DEF Needed

\* What shrink_sequence ends with fails, and is minimal when a failure does not
\* depend on calls being left out.
THEOREM ShrinkerRight == Spec => []ShrinksRight
<1>1. IInv => ShrinksRight
  BY ShrunkRight, Zenon
<1> QED BY <1>1, ShrinkerInvariant, PTL
-----------------------------------------------------------------------------
(***************************************************************************)
(* Executing calls.                                                        *)
(***************************************************************************)

\* A set of naturals that holds 0, and with a number its successor up to a bound,
\* holds all up to the bound.
LEMMA UpTo ==
  ASSUME NEW S, NEW n \in Nat, 0 \in S, \A k \in 0..n : k \in S /\ k < n => k + 1 \in S
  PROVE  0..n \subseteq S
<1> SUFFICES ASSUME 0..n \ S # {} PROVE FALSE
  BY Zenon
<1> DEFINE T == 0..n \ S
<1>1. T \subseteq Nat /\ T # {}
  OBVIOUS
<1> HIDE DEF T
<1>2. PICK k \in T : \A y \in T : ~(<<y, k>> \in OpToRel(<, Nat))
  BY <1>1, NatLessThanWellFounded, WFMin, Zenon
<1>3. k \in 0..n /\ k \notin S
  BY <1>2, Zenon DEF T
<1>4. k # 0
  BY <1>3, Zenon
<1>5. k - 1 \in 0..n /\ k - 1 < n /\ k - 1 \in Nat /\ k \in Nat /\ k - 1 < k /\ (k - 1) + 1 = k
  BY <1>3, <1>4
<1>6. k - 1 \notin S
  BY <1>3, <1>5
<1>7. k - 1 \in T
  BY <1>5, <1>6 DEF T
<1>8. <<k - 1, k>> \in OpToRel(<, Nat)
  BY <1>5, Zenon DEF OpToRel
<1> QED BY <1>2, <1>7, <1>8, Zenon

\* What one call makes of what was executed before it.
Applied(executor, fail_on_revert, before, call) ==
  LET r == transact_raw(executor, before.state, call)
  IN  IF before.stopped THEN before
      ELSE [state |-> r.to, stopped |-> reverted(r) /\ fail_on_revert]

Start(executor) == [state |-> executor.setup, stopped |-> FALSE]

\* The recursion of check_sequence has a value.
LEMMA ExecutedIs ==
  ASSUME NEW executor, NEW fail_on_revert, NEW calls, Len(calls) \in Nat
  PROVE  /\ executed(executor, fail_on_revert, calls)[0] = Start(executor)
         /\ \A i \in 1..Len(calls) :
              executed(executor, fail_on_revert, calls)[i] =
                Applied(executor, fail_on_revert,
                        executed(executor, fail_on_revert, calls)[i - 1], calls[i])
<1> DEFINE A(v, i) == Applied(executor, fail_on_revert, v, calls[i])
           Is(f, n) == f = [i \in 0..n |-> IF i = 0 THEN Start(executor) ELSE A(f[i - 1], i)]
           e == executed(executor, fail_on_revert, calls)
           S == {n \in Nat : \E f : Is(f, n)}
<1>1. e = CHOOSE f : Is(f, Len(calls))
  BY Zenon DEF executed, Applied, Start
<1> HIDE DEF e
<1>2. 0 \in S
  <2> DEFINE f == [i \in 0..0 |-> Start(executor)]
  <2>1. Is(f, 0)
    OBVIOUS
  <2> QED BY <2>1, Zenon
<1>3. ASSUME NEW n \in Nat, n \in S PROVE n + 1 \in S
  <2>1. PICK f : Is(f, n)
    BY <1>3
  <2> DEFINE g == [i \in 0..(n + 1) |-> IF i = n + 1 THEN A(f[n], n + 1) ELSE f[i]]
  <2>2. Is(g, n + 1)
    <3> HIDE DEF A
    <3>1. \A i \in 0..(n + 1) : g[i] = IF i = 0 THEN Start(executor) ELSE A(g[i - 1], i)
      <4> SUFFICES ASSUME NEW i \in 0..(n + 1)
                   PROVE  g[i] = IF i = 0 THEN Start(executor) ELSE A(g[i - 1], i)
        OBVIOUS
      <4>1. CASE i = n + 1
        BY <4>1
      <4>2. CASE i # n + 1
        <5>1. i \in 0..n /\ (i # 0 => i - 1 \in 0..n)
          BY <4>2
        <5>2. g[i] = f[i] /\ (i # 0 => g[i - 1] = f[i - 1])
          BY <5>1
        <5>3. f[i] = IF i = 0 THEN Start(executor) ELSE A(f[i - 1], i)
          BY <2>1, <5>1
        <5> QED BY <5>2, <5>3
      <4> QED BY <4>1, <4>2
    <3> QED BY <3>1
  <2> HIDE DEF g
  <2>3. \E h : Is(h, n + 1)
    BY <2>2, Zenon
  <2> QED BY <2>3
<1>4. Len(calls) \in S
  <2> HIDE DEF S
  <2>1. \A k \in 0..Len(calls) : k \in S /\ k < Len(calls) => k + 1 \in S
    BY <1>3
  <2>2. 0..Len(calls) \subseteq S
    BY <1>2, <2>1, UpTo, Zenon
  <2> QED BY <2>2
<1>5. Is(e, Len(calls))
  <2> HIDE DEF A
  <2> QED BY <1>1, <1>4
<1>6. e[0] = Start(executor) /\ \A i \in 1..Len(calls) : e[i] = A(e[i - 1], i)
  <2> HIDE DEF A
  <2> QED BY <1>5
<1> QED BY <1>6, Zenon DEF e

\* The recursion of Path has a value.
LEMMA PathIs ==
  ASSUME NEW calls, Len(calls) \in Nat
  PROVE  /\ Path(calls)[0] = contract.setup
         /\ \A i \in 1..Len(calls) :
              Path(calls)[i] = transact_raw(contract, Path(calls)[i - 1], calls[i]).to
<1> DEFINE A(v, i) == transact_raw(contract, v, calls[i]).to
           Is(f, n) == f = [i \in 0..n |-> IF i = 0 THEN contract.setup ELSE A(f[i - 1], i)]
           e == Path(calls)
           S == {n \in Nat : \E f : Is(f, n)}
<1>1. e = CHOOSE f : Is(f, Len(calls))
  BY Zenon DEF Path
<1> HIDE DEF e
<1>2. 0 \in S
  <2> DEFINE f == [i \in 0..0 |-> contract.setup]
  <2>1. Is(f, 0)
    OBVIOUS
  <2> QED BY <2>1, Zenon
<1>3. ASSUME NEW n \in Nat, n \in S PROVE n + 1 \in S
  <2>1. PICK f : Is(f, n)
    BY <1>3
  <2> DEFINE g == [i \in 0..(n + 1) |-> IF i = n + 1 THEN A(f[n], n + 1) ELSE f[i]]
  <2>2. Is(g, n + 1)
    <3> HIDE DEF A
    <3>1. \A i \in 0..(n + 1) : g[i] = IF i = 0 THEN contract.setup ELSE A(g[i - 1], i)
      <4> SUFFICES ASSUME NEW i \in 0..(n + 1)
                   PROVE  g[i] = IF i = 0 THEN contract.setup ELSE A(g[i - 1], i)
        BY Zenon
      <4>1. CASE i = n + 1
        BY <4>1
      <4>2. CASE i # n + 1
        <5>1. i \in 0..n /\ (i # 0 => i - 1 \in 0..n)
          BY <4>2
        <5>2. g[i] = f[i] /\ (i # 0 => g[i - 1] = f[i - 1])
          BY <5>1
        <5>3. f[i] = IF i = 0 THEN contract.setup ELSE A(f[i - 1], i)
          BY <2>1, <5>1
        <5> QED BY <5>2, <5>3
      <4> QED BY <4>1, <4>2
    <3> QED BY <3>1
  <2> HIDE DEF g
  <2>3. \E h : Is(h, n + 1)
    BY <2>2, Zenon
  <2> QED BY <2>3, SMTT(60)
<1>4. Len(calls) \in S
  <2> HIDE DEF S
  <2>1. \A k \in 0..Len(calls) : k \in S /\ k < Len(calls) => k + 1 \in S
    BY <1>3
  <2>2. 0..Len(calls) \subseteq S
    BY <1>2, <2>1, UpTo, Zenon
  <2> QED BY <2>2
<1>5. Is(e, Len(calls))
  <2> HIDE DEF A
  <2> QED BY <1>1, <1>4, Zenon
<1>6. e[0] = contract.setup /\ \A i \in 1..Len(calls) : e[i] = A(e[i - 1], i)
  <2> HIDE DEF A
  <2> QED BY <1>5
<1> QED BY <1>6, Zenon DEF e

\* The first n calls are the same.
Agree(calls, more, n) ==
  /\ n \in Nat /\ Len(calls) \in Nat /\ Len(more) \in Nat
  /\ n <= Len(calls) /\ n <= Len(more)
  /\ \A i \in 1..n : more[i] = calls[i]

\* What was executed depends on the calls so far only.
LEMMA Prefix ==
  ASSUME NEW executor, NEW fail_on_revert, NEW calls, NEW more, NEW n, Agree(calls, more, n)
  PROVE  executed(executor, fail_on_revert, more)[n] = executed(executor, fail_on_revert, calls)[n]
<1> DEFINE e == executed(executor, fail_on_revert, calls)
           m == executed(executor, fail_on_revert, more)
           S == {i \in 0..n : m[i] = e[i]}
<1>0. /\ n \in Nat /\ Len(calls) \in Nat /\ Len(more) \in Nat
      /\ n <= Len(calls) /\ n <= Len(more)
      /\ \A i \in 1..n : more[i] = calls[i]
  BY Zenon DEF Agree
<1>1. /\ e[0] = Start(executor)
      /\ \A i \in 1..Len(calls) : e[i] = Applied(executor, fail_on_revert, e[i - 1], calls[i])
  BY <1>0, ExecutedIs
<1>2. /\ m[0] = Start(executor)
      /\ \A i \in 1..Len(more) : m[i] = Applied(executor, fail_on_revert, m[i - 1], more[i])
  BY <1>0, ExecutedIs
<1> HIDE DEF e, m
<1>3. 0 \in S
  BY <1>0, <1>1, <1>2
<1>4. ASSUME NEW k \in 0..n, k \in S, k < n PROVE k + 1 \in S
  <2>1. k + 1 \in 1..n /\ k + 1 \in 0..n /\ k + 1 \in 1..Len(calls) /\ k + 1 \in 1..Len(more)
        /\ (k + 1) - 1 = k
    BY <1>0, <1>4
  <2>2. e[k + 1] = Applied(executor, fail_on_revert, e[k], calls[k + 1])
    BY <1>1, <2>1
  <2>3. m[k + 1] = Applied(executor, fail_on_revert, m[k], more[k + 1])
    BY <1>2, <2>1
  <2>4. more[k + 1] = calls[k + 1] /\ m[k] = e[k]
    BY <1>0, <1>4, <2>1
  <2> QED BY <2>1, <2>2, <2>3, <2>4, Zenon
<1>5. n \in S
  <2> HIDE DEF S
  <2>1. 0..n \subseteq S
    BY <1>0, <1>3, <1>4, UpTo, Zenon
  <2> QED BY <1>0, <2>1
<1> QED BY <1>5, Zenon DEF e, m

\* A state in which every call can be made.
Known(s) == \A f \in DOMAIN contract.step : s \in DOMAIN contract.step[f]

\* What a call does in such a state.
LEMMA CallKnown ==
  ASSUME contract \in Contracts, NEW s, Known(s), NEW f \in DOMAIN contract.step
  PROVE  /\ transact_raw(contract, s, f).how \in {"ok", "revert", "assume", "failed"}
         /\ Known(transact_raw(contract, s, f).to)
BY ContractAssumption, Zenon DEF Known, transact_raw

\* The state after setUp is such a state.
LEMMA SetupKnown ==
  ASSUME contract \in Contracts
  PROVE  Known(contract.setup)
BY ContractAssumption, Zenon DEF Known

\* When check_sequence fails, the calls break what is tested: nothing is stopped but
\* by a revert, and up to there the states are those of Path.
LEMMA FailsBreaks ==
  ASSUME contract \in Contracts, NEW calls \in Seq(DOMAIN contract.step), Plain,
         ~check_sequence(contract, config.fail_on_revert, calls)
  PROVE  Breaks(calls)
<1> DEFINE fr == config.fail_on_revert
           e == executed(contract, fr, calls)
           p == Path(calls)
           n == Len(calls)
           Reverts(j) == fr /\ transact_raw(contract, p[j - 1], calls[j]).how = "revert"
           Same(i) == e[i].stopped = FALSE /\ e[i].state = p[i] /\ Known(p[i])
           S == {i \in 0..n : (\E j \in 1..n : Reverts(j)) \/ Same(i)}
<1>0. n \in Nat /\ \A i \in 1..n : calls[i] \in DOMAIN contract.step
  OBVIOUS
<1>1. /\ e[0] = Start(contract)
      /\ \A i \in 1..n : e[i] = Applied(contract, fr, e[i - 1], calls[i])
  BY <1>0, ExecutedIs
<1>2. /\ p[0] = contract.setup
      /\ \A i \in 1..n : p[i] = transact_raw(contract, p[i - 1], calls[i]).to
  BY <1>0, PathIs, Zenon
<1> HIDE DEF e, p, n
<1>3. 0 \in S
  <2>1. Start(contract).stopped = FALSE /\ Start(contract).state = contract.setup
    BY DEF Start
  <2>2. 0 \in 0..n
    BY <1>0
  <2> QED BY <1>1, <1>2, <2>1, <2>2, SetupKnown, Zenon
<1>4. ASSUME NEW k \in 0..n, k \in S, k < n PROVE k + 1 \in S
  <2>1. k + 1 \in 1..n /\ k + 1 \in 0..n /\ (k + 1) - 1 = k
    BY <1>0, <1>4
  <2>2. CASE \E j \in 1..n : Reverts(j)
    BY <2>1, <2>2, Zenon
  <2>3. CASE Same(k) /\ ~ \E j \in 1..n : Reverts(j)
    <3> DEFINE r == transact_raw(contract, p[k], calls[k + 1])
    <3>1. e[k + 1] = Applied(contract, fr, e[k], calls[k + 1]) /\ p[k + 1] = r.to
      BY <1>1, <1>2, <2>1
    <3>2. r.how \in {"ok", "revert", "assume", "failed"} /\ Known(r.to)
      BY <1>0, <2>1, <2>3, CallKnown, Zenon
    <3>3. r = transact_raw(contract, e[k].state, calls[k + 1]) /\ e[k].stopped = FALSE
      BY <2>3, Zenon
    <3>4. ~(reverted(r) /\ fr)
      <4> SUFFICES ASSUME reverted(r), fr PROVE FALSE
        BY Zenon
      <4>1. r.how # "assume"
        BY <1>0, <2>1, <2>3, Zenon DEF Plain, Known
      <4>2. r.how = "revert"
        BY <4>1, Zenon DEF reverted
      <4>3. Reverts(k + 1)
        BY <2>1, <4>2
      <4> QED BY <2>1, <2>3, <4>3, Zenon
    <3>5. /\ Applied(contract, fr, e[k], calls[k + 1]).stopped = FALSE
          /\ Applied(contract, fr, e[k], calls[k + 1]).state = r.to
      <4>1. ~(reverted(transact_raw(contract, e[k].state, calls[k + 1])) /\ fr)
        BY <3>3, <3>4, Zenon
      <4>2. /\ Applied(contract, fr, e[k], calls[k + 1]).stopped = FALSE
            /\ Applied(contract, fr, e[k], calls[k + 1]).state =
                 transact_raw(contract, e[k].state, calls[k + 1]).to
        <5>1. e[k].stopped = FALSE
          BY <3>3, Zenon
        <5> HIDE DEF fr
        <5> QED BY <4>1, <5>1, Zenon DEF Applied
      <4> QED BY <3>3, <4>2, Zenon
    <3> HIDE DEF r
    <3>6. e[k + 1].state = r.to /\ e[k + 1].stopped = FALSE
      BY <3>1, <3>5, Zenon
    <3> QED BY <2>1, <3>1, <3>2, <3>5, <3>6, Zenon
  <2> QED BY <1>4, <2>2, <2>3, Zenon
<1>5. n \in S
  <2> HIDE DEF S
  <2>1. 0..n \subseteq S
    BY <1>0, <1>3, <1>4, UpTo, Zenon
  <2> QED BY <1>0, <2>1
<1>6. CASE \E j \in 1..n : Reverts(j)
  BY <1>6, Zenon DEF Breaks, p, n
<1>7. CASE Same(n)
  <2>1. e[n].state \notin contract.holds
    BY <1>7, Zenon DEF check_sequence, call_invariant_function, Plain, e, n
  <2>2. n \in 0..n
    BY <1>0
  <2> QED BY <1>7, <2>1, <2>2, Zenon DEF Breaks, p, n
<1> QED BY <1>5, <1>6, <1>7, Zenon


\* When all calls are kept, they are the calls.
LEMMA KeptAll ==
  ASSUME NEW T, NEW calls \in Seq(T)
  PROVE  kept_calls(calls, 1..Len(calls)) = calls
<1> DEFINE n == Len(calls)
           rank(x) == Cardinality({y \in 1..n : y <= x})
           nth(i) == CHOOSE x \in 1..n : rank(x) = i
<1>0. n \in Nat /\ calls = [i \in 1..n |-> calls[i]]
  OBVIOUS
<1> HIDE DEF n
<1>1. Cardinality(1..n) = n
  BY <1>0, FS_Interval
<1>2. ASSUME NEW x \in 1..n PROVE rank(x) = x
  <2>1. {y \in 1..n : y <= x} = 1..x
    BY <1>0
  <2>2. Cardinality(1..x) = x
    BY <1>0, FS_Interval
  <2> QED BY <2>1, <2>2, Zenon
<1>3. ASSUME NEW i \in 1..n PROVE nth(i) = i
  <2> HIDE DEF rank
  <2>1. \A x \in 1..n : rank(x) = i <=> x = i
    BY <1>2, Zenon
  <2> QED BY <2>1, Zenon
<1>4. kept_calls(calls, 1..n) = [i \in 1..Cardinality(1..n) |-> calls[nth(i)]]
  BY Zenon DEF kept_calls
<1> HIDE DEF nth
<1>5. [i \in 1..n |-> calls[nth(i)]] = [i \in 1..n |-> calls[i]]
  BY <1>3
<1> QED BY <1>0, <1>1, <1>4, <1>5, Zenon DEF n

\* The calls that are kept are calls, and not more of them.
LEMMA KeptSeq ==
  ASSUME NEW T, NEW calls \in Seq(T), NEW kept, kept \subseteq 1..Len(calls)
  PROVE  kept_calls(calls, kept) \in Seq(T) /\ Len(kept_calls(calls, kept)) <= Len(calls)
<1> DEFINE n == Len(calls)
           c == Cardinality(kept)
           below(x) == {y \in kept : y <= x}
           rank == [x \in kept |-> Cardinality(below(x))]
           nth(i) == CHOOSE x \in kept : Cardinality(below(x)) = i
<1>0. n \in Nat /\ \A i \in 1..n : calls[i] \in T
  OBVIOUS
<1>1. IsFiniteSet(1..n) /\ Cardinality(1..n) = n
  <2> HIDE DEF n
  <2> QED BY <1>0, FS_Interval
<1>2. IsFiniteSet(kept) /\ c <= n /\ c \in Nat
  <2>1. kept \in SUBSET (1..n)
    OBVIOUS
  <2> QED BY <1>1, <2>1, FS_Subset, FS_CardinalityType, ZenonT(60)
<1>3. ASSUME NEW x \in kept
      PROVE  IsFiniteSet(below(x)) /\ Cardinality(below(x)) \in 1..c
  <2>1. below(x) \in SUBSET kept
    OBVIOUS
  <2>2. x \in below(x)
    BY <1>0
  <2> HIDE DEF below
  <2>3. IsFiniteSet(below(x)) /\ Cardinality(below(x)) <= c /\ Cardinality(below(x)) \in Nat
    BY <1>2, <2>1, FS_Subset, FS_CardinalityType
  <2>4. Cardinality(below(x)) # 0
    BY <2>2, <2>3, FS_EmptySet, Zenon
  <2> QED BY <1>2, <2>3, <2>4
<1>4. ASSUME NEW x \in kept, NEW y \in kept, x < y
      PROVE  Cardinality(below(x)) # Cardinality(below(y))
  <2>1. x \in Int /\ y \in Int /\ \A z \in kept : z \in Int
    BY <1>0
  <2>2. below(x) \in SUBSET below(y) /\ y \in below(y) /\ y \notin below(x)
    <3>1. \A z \in kept : z <= x => z <= y
      BY <1>4, <2>1
    <3>2. y <= y /\ ~(y <= x)
      BY <1>4, <2>1
    <3> QED BY <3>1, <3>2, Zenon
  <2> HIDE DEF below
  <2> QED BY <1>3, <2>2, FS_Subset, Zenon
<1>5. rank \in Injection(kept, 1..c)
  <2>1. rank \in [kept -> 1..c]
    BY <1>3, Zenon
  <2>2. \A x, y \in kept : rank[x] = rank[y] => x = y
    <3> SUFFICES ASSUME NEW x \in kept, NEW y \in kept, rank[x] = rank[y], x # y PROVE FALSE
      BY Zenon
    <3>1. x < y \/ y < x
      BY <1>0
    <3>2. rank[x] = Cardinality(below(x)) /\ rank[y] = Cardinality(below(y))
      BY Zenon
    <3> QED BY <1>4, <3>1, <3>2, Zenon
  <2> HIDE DEF rank
  <2> QED BY <2>1, <2>2, Zenon DEF Injection, IsInjective
<1>6. rank \in Surjection(kept, 1..c)
  <2>1. IsFiniteSet(1..c) /\ Cardinality(1..c) = c
    BY <1>2, FS_Interval
  <2> HIDE DEF rank, c
  <2>2. Cardinality(kept) = c
    BY Zenon DEF c
  <2> QED BY <1>5, <2>1, <2>2, FS_Injection
<1>7. ASSUME NEW i \in 1..c PROVE nth(i) \in kept
  <2>1. \E x \in kept : rank[x] = i
    BY <1>6, Zenon DEF Surjection
  <2>2. PICK x \in kept : Cardinality(below(x)) = i
    BY <2>1, Zenon
  <2> QED BY <2>2, Zenon
<1>8. kept_calls(calls, kept) = [i \in 1..c |-> calls[nth(i)]]
  BY Zenon DEF kept_calls
<1> HIDE DEF nth, c
<1>9. \A i \in 1..c : calls[nth(i)] \in T
  BY <1>0, <1>7, Zenon
<1>10. [i \in 1..c |-> calls[nth(i)]] \in Seq(T) /\ Len([i \in 1..c |-> calls[nth(i)]]) = c
  BY <1>2, <1>9
<1> QED BY <1>2, <1>8, <1>10


-----------------------------------------------------------------------------
(***************************************************************************)
(* The campaign.                                                           *)
(***************************************************************************)

\* Nothing that the campaign met was wrong.
AllRight ==
  /\ seen.ok \subseteq contract.holds
  /\ config.fail_on_revert => ~seen.reverted
  /\ contract.call_after_invariant => seen.ended \subseteq contract.after_holds

\* Calls of the test on which it fails.
Failing(calls) ==
  /\ calls \in Seq(DOMAIN contract.step)
  /\ Len(calls) <= config.depth
  /\ ~check_sequence(contract, config.fail_on_revert, calls)

\* The run: what check_sequence makes of its calls, without the one to be made, is
\* the state it is in.
RunRight ==
  /\ cases \in 0..config.runs
  /\ phase \in {"run", "after"} => cases < config.runs
  /\ phase = "run" =>
       /\ run.inputs \in Seq(DOMAIN contract.step)
       /\ run.depth \in 0..config.depth
       /\ Len(run.inputs) = run.depth + 1
       /\ Known(run.state)
       /\ executed(contract, config.fail_on_revert, run.inputs)[run.depth] =
            [state |-> run.state, stopped |-> FALSE]

IsSeen(r) == r = [ok |-> r.ok, ended |-> r.ended, reverted |-> r.reverted]

\* An error was met, and its calls fail.
ErrorKnown ==
  /\ IsSeen(seen)
  /\ failures.reverts \in Nat
  /\ failures.error # None =>
       /\ failures.error.cause \in Causes
       /\ failures.error.cause = "assume" <=> failures.error.kind = "MaxAssumeRejects"
       /\ failures.error.cause # "assume" => ~AllRight
       /\ failures.error.cause \in {"broken", "revert"} => Failing(failures.error.calls)

\* As long as there is no error, none was met.
NoErrorYet ==
  failures.error = None => AllRight /\ ~(config.fail_on_revert /\ failures.reverts > 0)

ErrorRight ==
  /\ ErrorKnown
  /\ phase = "idle" => failures.error = None
  /\ phase # "idle" => NoErrorYet
  /\ phase = "after" => failures.error # None
  /\ phase = "report" /\ ~faults /\ failures.error = None => cases = config.runs
  /\ phase = "shrink" => /\ failures.error # None
                         /\ failures.error.kind # "MaxAssumeRejects"
                         /\ shrinker.calls = failures.error.calls

\* What a run created comes on top of the targets that prepare_test selected.
TargetsRight ==
  (\A f \in DOMAIN contract.touches : contract.touches[f] \cap contract.targets = {}) =>
    /\ phase = "between" => targets = contract.targets
    /\ phase \in {"run", "after"} =>
         /\ targets = contract.targets \cup run.created_contracts
         /\ run.created_contracts \cap contract.targets = {}

\* A verdict is that of the campaign, and what it shows is what is replayed.
Judged ==
  result.sure /\ result.cause \notin {"replay", "assume"}
    /\ result.status \in {"Success", "Failure"}
  => (result.status = "Success" <=> result.cases = config.runs /\ AllRight)

ResultRight ==
  /\ phase = "idle" => Judged
  /\ phase = "idle" /\ Reliable => Failing(result.counterexample)
  /\ result.cause = "replay" \/ Reliable =>
       /\ result.status = "Failure"
       /\ IF phase = "idle" THEN replay_recorded ELSE faults

VInv == RunRight /\ ErrorRight /\ TargetsRight /\ ResultRight

\* No name is None.
LEMMA NoneNoName ==
  None \notin {"Success", "Failure", "replay"}
BY InvariantAssumption, Zenon

\* The last call of some.
LEMMA LastCall ==
  ASSUME NEW S, NEW s \in Seq(S), NEW n \in Nat, Len(s) = n + 1
  PROVE  /\ last(s) = s[n + 1] /\ last(s) \in S
         /\ pop(s) \in Seq(S) /\ Len(pop(s)) = n
         /\ \A i \in 1..n : pop(s)[i] = s[i]
<1>1. last(s) = s[n + 1] /\ last(s) \in S
  BY DEF last
<1>2. Len(s) - 1 = n
  OBVIOUS
<1>3. pop(s) = SubSeq(s, 1, n)
  BY <1>2, Zenon DEF pop
<1>4. SubSeq(s, 1, n) \in Seq(S) /\ Len(SubSeq(s, 1, n)) = n
  OBVIOUS
<1>5. \A i \in 1..n : SubSeq(s, 1, n)[i] = s[i]
  OBVIOUS
<1> QED BY <1>1, <1>3, <1>4, <1>5, Zenon

\* The call to be made, as check_sequence makes it.
LEMMA CallExecuted ==
  ASSUME contract \in Contracts, RunRight, phase = "run",
         NEW f, f = last(run.inputs), NEW r, r = transact_raw(contract, run.state, f)
  PROVE  /\ f \in DOMAIN contract.step
         /\ r.how \in {"ok", "revert", "assume", "failed"}
         /\ Known(r.to)
         /\ executed(contract, config.fail_on_revert, run.inputs)[run.depth + 1] =
              [state |-> r.to, stopped |-> reverted(r) /\ config.fail_on_revert]
<1> DEFINE d == run.depth
           s == run.inputs
           fr == config.fail_on_revert
<1>1. /\ s \in Seq(DOMAIN contract.step) /\ Len(s) = d + 1 /\ Known(run.state)
      /\ executed(contract, fr, s)[d] = [state |-> run.state, stopped |-> FALSE]
      /\ d \in 0..config.depth
  BY Zenon DEF RunRight
<1>2. d \in Nat /\ Len(s) \in Nat /\ d + 1 \in 1..Len(s) /\ (d + 1) - 1 = d
  BY <1>1, SMTT(60)
<1>3. f = s[d + 1] /\ f \in DOMAIN contract.step
  <2> HIDE DEF s, d
  <2>1. last(s) = s[d + 1] /\ last(s) \in DOMAIN contract.step
    BY <1>1, <1>2, LastCall, ZenonT(60)
  <2> QED BY <2>1, Zenon DEF s
<1>4. r.how \in {"ok", "revert", "assume", "failed"} /\ Known(r.to)
  BY <1>1, <1>3, CallKnown, Zenon
<1>5. executed(contract, fr, s)[d + 1] = Applied(contract, fr, executed(contract, fr, s)[d], f)
  <2>1. \A i \in 1..Len(s) : executed(contract, fr, s)[i] =
          Applied(contract, fr, executed(contract, fr, s)[i - 1], s[i])
    BY <1>2, ExecutedIs
  <2> QED BY <1>2, <1>3, <2>1
<1>6. Applied(contract, fr, [state |-> run.state, stopped |-> FALSE], f) =
        [state |-> r.to, stopped |-> reverted(r) /\ fr]
  BY DEF Applied
<1> QED BY <1>1, <1>3, <1>4, <1>5, <1>6, Zenon

\* The run that begin_run makes.
LEMMA BeginEffect ==
  ASSUME begin_run
  PROVE  \/ phase' = "report" /\ config.fail_on_revert /\ failures.reverts > 0
         \/ /\ phase' = "run"
            /\ run'.inputs \in {<<f>> : f \in fuzzed_functions(targets)}
            /\ run'.state = contract.setup /\ run'.depth = 0 /\ run'.created_contracts = {}
<1>1. PICK f \in fuzzed_functions(targets) :
        \/ phase' = "report" /\ config.fail_on_revert /\ failures.reverts > 0
        \/ /\ phase' = "run"
           /\ run' = [NoRun EXCEPT !.inputs = <<f>>, !.state = contract.setup]
  BY Zenon DEF begin_run
<1>2. [NoRun EXCEPT !.inputs = <<f>>, !.state = contract.setup] =
        Run(<<f>>, contract.setup, 0, 0, {})
  <2>1. IsRun(NoRun)
    BY DEF NoRun, IsRun, Run
  <2>2. /\ NoRun.depth = 0 /\ NoRun.assume_rejects_counter = 0
        /\ NoRun.created_contracts = {}
    BY DEF NoRun
  <2> QED BY <2>1, <2>2, BegunRun, Zenon
<1>3. CASE run' = Run(<<f>>, contract.setup, 0, 0, {}) /\ phase' = "run"
  <2>1. /\ run'.inputs = <<f>> /\ run'.state = contract.setup /\ run'.depth = 0
        /\ run'.created_contracts = {}
    BY <1>3 DEF Run
  <2> QED BY <1>3, <2>1
<1> QED BY <1>1, <1>2, <1>3, Zenon

\* What reject_call makes of the run.
LEMMA RejectEffect ==
  ASSUME reject_call, IsRun(run), IsFailures(failures)
  PROVE  \/ /\ phase' = "report" /\ failures'.reverts = failures.reverts
            /\ failures'.error =
                 [kind |-> "MaxAssumeRejects", calls |-> <<>>, cause |-> "assume"]
         \/ /\ phase' = "run" /\ failures' = failures
            /\ run'.inputs \in {Append(pop(run.inputs), f) : f \in fuzzed_functions(targets)}
            /\ run'.state = run.state /\ run'.depth = run.depth
            /\ run'.created_contracts = run.created_contracts
<1> DEFINE rejects == rejects_with(run.assume_rejects_counter)
           rejected == [run EXCEPT !.inputs = pop(@), !.assume_rejects_counter = rejects]
           error == [kind |-> "MaxAssumeRejects", calls |-> <<>>, cause |-> "assume"]
<1>1. \/ phase' = "report" /\ failures' = [failures EXCEPT !.error = error]
      \/ /\ phase' = "run" /\ failures' = failures
         /\ \E f \in fuzzed_functions(targets) : run' = [rejected EXCEPT !.inputs = Append(@, f)]
  BY Zenon DEF reject_call
<1>2. rejected = Run(pop(run.inputs), run.state, run.depth, rejects, run.created_contracts)
  BY RejectedRun, Zenon
<1> HIDE DEF rejected, error
<1>3. [failures EXCEPT !.error = error].error = error
      /\ [failures EXCEPT !.error = error].reverts = failures.reverts
  BY DEF IsFailures
<1>4. ASSUME NEW f \in fuzzed_functions(targets), run' = [rejected EXCEPT !.inputs = Append(@, f)]
      PROVE  /\ run'.inputs = Append(pop(run.inputs), f)
             /\ run'.state = run.state /\ run'.depth = run.depth
             /\ run'.created_contracts = run.created_contracts
  <2>1. /\ IsRun(rejected) /\ rejected.inputs = pop(run.inputs) /\ rejected.state = run.state
        /\ rejected.depth = run.depth /\ rejected.created_contracts = run.created_contracts
    BY <1>2, RunFields
  <2>2. run' = Run(Append(pop(run.inputs), f), run.state, run.depth,
                   rejected.assume_rejects_counter, run.created_contracts)
    <3>1. run' = Run(Append(rejected.inputs, f), rejected.state, rejected.depth,
                     rejected.assume_rejects_counter, rejected.created_contracts)
      BY <1>4, <2>1, RunUpdate, Zenon
    <3> QED BY <2>1, <3>1, Zenon
  <2> QED BY <2>2 DEF Run
<1> QED BY <1>1, <1>3, <1>4, Zenon DEF error


\* A round that goes on leaves the result of the last one alone.
LEMMA SameResult ==
  ASSUME ResultRight, phase # "idle", phase' # "idle",
         UNCHANGED <<config, contract, result>>, faults => faults'
  PROVE  ResultRight'
BY Zenon DEF ResultRight, Reliable, Plain, transact_raw

\* What was met, and the errors, are those of before.
LEMMA SameErrors ==
  ASSUME ErrorKnown, UNCHANGED <<config, contract, failures, seen>>
  PROVE  ErrorKnown' /\ (NoErrorYet => NoErrorYet')
BY Zenon DEF ErrorKnown, NoErrorYet, AllRight, Failing

\* A call alone.
LEMMA Single ==
  ASSUME NEW S, NEW f \in S
  PROVE  <<f>> \in Seq(S) /\ Len(<<f>>) = 1
OBVIOUS

\* The errors that are made are not None.
LEMMA ErrorMade ==
  ASSUME NEW calls \in Seq(Calls)
  PROVE  \A k \in {"BrokenInvariant", "MaxAssumeRejects", "Revert"}, cause \in Causes :
           [kind |-> k, calls |-> calls, cause |-> cause] # None
<1> SUFFICES ASSUME NEW k \in {"BrokenInvariant", "MaxAssumeRejects", "Revert"},
                    NEW cause \in Causes
             PROVE  [kind |-> k, calls |-> calls, cause |-> cause] # None
  BY Zenon
<1>1. [kind |-> k, calls |-> calls, cause |-> cause] \in Errors
  BY Zenon DEF Errors, Calls
<1> QED BY <1>1, InvariantAssumption, Zenon

\* The numbers of the configuration.
LEMMA ConfigNumbers ==
  ASSUME config \in Configs
  PROVE  config.runs \in Nat /\ config.depth \in Nat /\ config.shrink_run_limit \in Nat
BY InvariantAssumption, Zenon

\* A run begins in the state after setUp.
LEMMA BeginRight ==
  ASSUME Typed, VInv, begin_run, config' = config
  PROVE  VInv'
<1>1. /\ contract \in Contracts /\ config \in Configs /\ phase = "between" /\ cases < config.runs
      /\ UNCHANGED <<config, contract, failures, targets, cases, result, seen, faults>>
  BY Zenon DEF Typed, begin_run
<1>2. RunRight /\ ErrorKnown /\ NoErrorYet /\ TargetsRight /\ ResultRight
  BY <1>1, Zenon DEF VInv, ErrorRight
<1>3. CASE phase' = "report" /\ config.fail_on_revert /\ failures.reverts > 0
  <2>1. failures.error # None
    BY <1>2, <1>3, Zenon DEF NoErrorYet
  <2>2. ErrorRight'
    BY <1>1, <1>2, <1>3, <2>1, SameErrors, Zenon DEF ErrorRight
  <2>3. ResultRight'
    BY <1>1, <1>2, <1>3, SameResult, Zenon
  <2>4. RunRight' /\ TargetsRight'
    BY <1>1, <1>2, <1>3 DEF RunRight, TargetsRight
  <2> QED BY <2>2, <2>3, <2>4, Zenon DEF VInv
<1>4. CASE /\ phase' = "run"
           /\ run'.inputs \in {<<f>> : f \in fuzzed_functions(targets)}
           /\ run'.state = contract.setup /\ run'.depth = 0 /\ run'.created_contracts = {}
  <2>1. PICK f \in fuzzed_functions(targets) : run'.inputs = <<f>>
    BY <1>4, Zenon
  <2>2. run'.inputs \in Seq(DOMAIN contract.step) /\ Len(run'.inputs) = 1
    <3>1. f \in DOMAIN contract.step
      BY Zenon DEF fuzzed_functions
    <3>2. <<f>> \in Seq(DOMAIN contract.step) /\ Len(<<f>>) = 1
      BY <3>1, Single, Zenon
    <3> QED BY <2>1, <3>2, Zenon
  <2>3. run'.depth \in 0..config.depth
    BY <1>1, <1>4, ConfigNumbers
  <2>4. Known(contract.setup)
    BY <1>1, SetupKnown
  <2>5. executed(contract, config.fail_on_revert, run'.inputs)[0] =
          [state |-> contract.setup, stopped |-> FALSE]
    <3>1. Len(run'.inputs) \in Nat
      BY <2>2
    <3> QED BY <3>1, ExecutedIs, Zenon DEF Start
  <2>6. RunRight'
    <3>1. /\ cases' \in 0..config'.runs
          /\ phase' \in {"run", "after"} => cases' < config'.runs
      BY <1>1, <1>2, Zenon DEF RunRight
    <3>2. Len(run'.inputs) = run'.depth + 1
      BY <1>4, <2>2
    <3>3. Known(run.state)'
      BY <1>1, <1>4, <2>4, Zenon DEF Known
    <3>4. executed(contract', config'.fail_on_revert, run'.inputs)[run'.depth] =
            [state |-> run'.state, stopped |-> FALSE]
      BY <1>1, <1>4, <2>5, Zenon
    <3>5. run'.inputs \in Seq(DOMAIN contract'.step) /\ run'.depth \in 0..config'.depth
      BY <1>1, <2>2, <2>3, Zenon
    <3> QED BY <3>1, <3>2, <3>3, <3>4, <3>5, Zenon DEF RunRight
  <2>7. ErrorRight'
    BY <1>1, <1>2, <1>4, SameErrors, Zenon DEF ErrorRight
  <2>8. TargetsRight'
    BY <1>1, <1>2, <1>4 DEF TargetsRight
  <2>9. ResultRight'
    BY <1>1, <1>2, <1>4, SameResult, Zenon
  <2> QED BY <2>6, <2>7, <2>8, <2>9, Zenon DEF VInv
<1> QED BY <1>3, <1>4, BeginEffect, Zenon

\* A call that vm.assume rejects is replaced, and nothing of it remains.
LEMMA RejectRight ==
  ASSUME Typed, VInv, reject_call, config' = config
  PROVE  VInv'
<1>1. /\ contract \in Contracts /\ config \in Configs /\ phase = "run"
      /\ IsRun(run) /\ IsFailures(failures)
      /\ UNCHANGED <<config, contract, targets, cases, result, seen, faults>>
  BY Zenon DEF Typed, reject_call
<1>2. RunRight /\ ErrorKnown /\ NoErrorYet /\ TargetsRight /\ ResultRight
  BY <1>1, Zenon DEF VInv, ErrorRight
<1>3. CASE /\ phase' = "report" /\ failures'.reverts = failures.reverts
           /\ failures'.error =
                [kind |-> "MaxAssumeRejects", calls |-> <<>>, cause |-> "assume"]
  <2>1. /\ failures'.error # None /\ failures'.error.kind = "MaxAssumeRejects"
        /\ failures'.error.cause = "assume"
    <3> DEFINE e == [kind |-> "MaxAssumeRejects", calls |-> <<>>, cause |-> "assume"]
    <3>1. <<>> \in Seq(Calls)
      OBVIOUS
    <3>2. "assume" \in Causes
      BY Zenon DEF Causes
    <3>3. e # None
      BY <3>1, <3>2, ErrorMade, Zenon
    <3>4. e.kind = "MaxAssumeRejects" /\ e.cause = "assume"
      OBVIOUS
    <3> HIDE DEF e
    <3>5. failures'.error = e
      BY <1>3, Zenon DEF e
    <3> QED BY <3>3, <3>4, <3>5, Zenon
  <2>2. ErrorKnown'
    <3>1. IsSeen(seen)' /\ failures'.reverts \in Nat
      BY <1>1, <1>2, <1>3, Zenon DEF ErrorKnown
    <3>2. "assume" \in Causes /\ "assume" \notin {"broken", "revert"}
      BY DEF Causes
    <3> QED BY <2>1, <3>1, <3>2, Zenon DEF ErrorKnown
  <2>3. ErrorRight'
    BY <1>3, <2>1, <2>2, Zenon DEF ErrorRight, NoErrorYet
  <2>4. ResultRight'
    BY <1>1, <1>2, <1>3, SameResult, Zenon
  <2>5. RunRight' /\ TargetsRight'
    BY <1>1, <1>2, <1>3, SMTT(60) DEF RunRight, TargetsRight
  <2> QED BY <2>3, <2>4, <2>5, Zenon DEF VInv
<1>4. CASE /\ phase' = "run" /\ failures' = failures
           /\ run'.inputs \in {Append(pop(run.inputs), f) : f \in fuzzed_functions(targets)}
           /\ run'.state = run.state /\ run'.depth = run.depth
           /\ run'.created_contracts = run.created_contracts
  <2> DEFINE s == run.inputs
             d == run.depth
  <2>1. PICK f \in fuzzed_functions(targets) : run'.inputs = Append(pop(s), f)
    BY <1>4, Zenon
  <2>2. /\ s \in Seq(DOMAIN contract.step) /\ d \in Nat /\ Len(s) = d + 1
        /\ f \in DOMAIN contract.step
    BY <1>1, <1>2, <2>1, ConfigNumbers DEF RunRight, fuzzed_functions
  <2>3. /\ pop(s) \in Seq(DOMAIN contract.step) /\ Len(pop(s)) = d
        /\ \A i \in 1..d : pop(s)[i] = s[i]
    <3> HIDE DEF s, d
    <3> QED BY <2>2, LastCall, ZenonT(60)
  <2>4. /\ run'.inputs \in Seq(DOMAIN contract.step) /\ Len(run'.inputs) = d + 1
        /\ \A i \in 1..d : run'.inputs[i] = s[i]
    <3> DEFINE p == pop(s)
    <3> HIDE DEF p, s, d
    <3>1. Append(p, f) \in Seq(DOMAIN contract.step) /\ Len(Append(p, f)) = d + 1
          /\ \A i \in 1..d : Append(p, f)[i] = p[i]
      BY <2>2, <2>3 DEF p
    <3> QED BY <2>1, <2>3, <3>1, Zenon DEF p
  <2>5. executed(contract, config.fail_on_revert, run'.inputs)[d] =
          executed(contract, config.fail_on_revert, s)[d]
    <3>1. Agree(s, run'.inputs, d)
      BY <2>2, <2>4 DEF Agree
    <3> QED BY <3>1, Prefix
  <2>6. RunRight'
    <3>1. /\ cases' \in 0..config'.runs
          /\ phase' \in {"run", "after"} => cases' < config'.runs
      BY <1>1, <1>2, Zenon DEF RunRight
    <3>2. /\ Known(run.state)'
          /\ run'.depth \in 0..config'.depth
          /\ executed(contract', config'.fail_on_revert, run'.inputs)[run'.depth] =
               [state |-> run'.state, stopped |-> FALSE]
      BY <1>1, <1>2, <1>4, <2>5, Zenon DEF Known, RunRight
    <3>3. run'.inputs \in Seq(DOMAIN contract'.step) /\ Len(run'.inputs) = run'.depth + 1
      BY <1>1, <1>4, <2>4, Zenon
    <3> QED BY <3>1, <3>2, <3>3, Zenon DEF RunRight
  <2>7. ErrorRight'
    BY <1>1, <1>2, <1>4, SameErrors, Zenon DEF ErrorRight
  <2>8. TargetsRight'
    BY <1>1, <1>2, <1>4, Zenon DEF TargetsRight
  <2>9. ResultRight'
    BY <1>1, <1>2, <1>4, SameResult, Zenon
  <2> QED BY <2>6, <2>7, <2>8, <2>9, Zenon DEF VInv
<1> QED BY <1>1, <1>3, <1>4, RejectEffect, Zenon


\* The call to be made, what it does, the contracts it creates and the error it
\* leads to.
TheCall == last(run.inputs)
Outcome == transact_raw(contract, run.state, TheCall)
Created == collect_created_contracts(TheCall, Outcome)
Error == error_after_call(Outcome)

\* What execute_call does.
LEMMA ExecuteEffect ==
  ASSUME execute_call, IsRun(run)
  PROVE  /\ phase = "run" /\ run.depth < config.depth /\ Outcome.how # "assume"
         /\ UNCHANGED <<contract, cases, result, faults>>
         /\ targets' = targets \cup Created
         /\ failures'.reverts = failures.reverts + (IF Outcome.how = "ok" THEN 0 ELSE 1)
         /\ failures'.error = IF Error = None THEN failures.error ELSE Error
         /\ seen' = IF Outcome.how = "ok" THEN [seen EXCEPT !.ok = @ \cup {Outcome.to}]
                    ELSE [seen EXCEPT !.reverted = TRUE]
         /\ run'.state = Outcome.to
         /\ run'.created_contracts = run.created_contracts \cup Created
         /\ \/ Error # None /\ phase' = "after"
            \/ /\ Error = None /\ phase' = "run" /\ run'.depth = run.depth + 1
               /\ run'.inputs \in {Append(run.inputs, g) : g \in fuzzed_functions(targets')}
<1> DEFINE called == [run EXCEPT !.state = Outcome.to, !.created_contracts = @ \cup Created]
<1>1. /\ phase = "run" /\ run.depth < config.depth /\ Outcome.how # "assume"
      /\ UNCHANGED <<contract, cases, result, faults>>
      /\ targets' = targets \cup Created
      /\ seen' = IF Outcome.how = "ok" THEN [seen EXCEPT !.ok = @ \cup {Outcome.to}]
                 ELSE [seen EXCEPT !.reverted = TRUE]
  BY Zenon DEF execute_call, TheCall, Outcome, Created, Error
<1>2. failures' = [reverts |-> failures.reverts + (IF Outcome.how = "ok" THEN 0 ELSE 1),
                   error |-> IF Error = None THEN failures.error ELSE Error]
  BY Zenon DEF execute_call, TheCall, Outcome, Created, Error
<1>3. /\ failures'.reverts = failures.reverts + (IF Outcome.how = "ok" THEN 0 ELSE 1)
      /\ failures'.error = IF Error = None THEN failures.error ELSE Error
  BY <1>2, Zenon
<1>4. \/ Error # None /\ run' = called /\ phase' = "after"
      \/ /\ Error = None /\ phase' = "run"
         /\ \E g \in fuzzed_functions(targets') :
              run' = [called EXCEPT !.depth = @ + 1, !.inputs = Append(@, g)]
  BY Zenon DEF execute_call, TheCall, Outcome, Created, Error
<1>5. called = Run(run.inputs, Outcome.to, run.depth, run.assume_rejects_counter,
                   run.created_contracts \cup Created)
  BY CalledRun, Zenon
<1> HIDE DEF called
<1>6. /\ IsRun(called) /\ called.inputs = run.inputs /\ called.depth = run.depth
      /\ called.state = Outcome.to /\ called.created_contracts = run.created_contracts \cup Created
  BY <1>5, RunFields
<1>7. CASE Error # None /\ run' = called /\ phase' = "after"
  BY <1>1, <1>3, <1>6, <1>7, Zenon
<1>8. CASE /\ Error = None /\ phase' = "run"
           /\ \E g \in fuzzed_functions(targets') :
                run' = [called EXCEPT !.depth = @ + 1, !.inputs = Append(@, g)]
  <2>1. PICK g \in fuzzed_functions(targets') :
          run' = [called EXCEPT !.depth = @ + 1, !.inputs = Append(@, g)]
    BY <1>8, Zenon
  <2>2. [called EXCEPT !.depth = @ + 1, !.inputs = Append(@, g)] =
          Run(Append(called.inputs, g), called.state, called.depth + 1,
              called.assume_rejects_counter, called.created_contracts)
    <3>1. IsRun(called)
      BY <1>6, Zenon
    <3> QED BY <3>1, DeeperRun, Zenon
  <2>3. /\ run'.inputs = Append(called.inputs, g) /\ run'.state = called.state
        /\ run'.depth = called.depth + 1
        /\ run'.created_contracts = called.created_contracts
    <3> DEFINE deeper == Run(Append(called.inputs, g), called.state, called.depth + 1,
                             called.assume_rejects_counter, called.created_contracts)
    <3>1. run' = deeper
      BY <2>1, <2>2, Zenon
    <3>2. /\ deeper.inputs = Append(called.inputs, g) /\ deeper.state = called.state
          /\ deeper.depth = called.depth + 1
          /\ deeper.created_contracts = called.created_contracts
      BY DEF Run
    <3> HIDE DEF deeper
    <3> QED BY <3>1, <3>2, Zenon
  <2>4. run'.inputs \in {Append(run.inputs, x) : x \in fuzzed_functions(targets')}
    BY <1>6, <2>3, Zenon
  <2> QED BY <1>1, <1>3, <1>6, <1>8, <2>3, <2>4, Zenon
<1> QED BY <1>4, <1>7, <1>8, Zenon

\* What a state that was met, a revert and the end of a run mean for the verdict.
LEMMA MetState ==
  ASSUME IsSeen(seen), UNCHANGED <<config, contract>>, NEW s,
         seen' = [seen EXCEPT !.ok = @ \cup {s}]
  PROVE  IsSeen(seen') /\ (AllRight' <=> AllRight /\ s \in contract.holds)
<1>1. seen' = [ok |-> seen.ok \cup {s}, ended |-> seen.ended, reverted |-> seen.reverted]
  BY DEF IsSeen
<1>2. /\ IsSeen(seen') /\ seen'.ok = seen.ok \cup {s} /\ seen'.ended = seen.ended
      /\ seen'.reverted = seen.reverted
  BY <1>1 DEF IsSeen
<1> QED BY <1>2, Zenon DEF AllRight

\* A reverting call was met: it counts only if the test fails on reverts.
LEMMA MetRevert ==
  ASSUME IsSeen(seen), UNCHANGED <<config, contract>>, seen' = [seen EXCEPT !.reverted = TRUE]
  PROVE  IsSeen(seen') /\ (config.fail_on_revert => ~AllRight')
         /\ (~config.fail_on_revert => (AllRight' <=> AllRight))
<1>1. seen' = [ok |-> seen.ok, ended |-> seen.ended, reverted |-> TRUE]
  BY Zenon DEF IsSeen
<1>2. /\ IsSeen(seen') /\ seen'.ok = seen.ok /\ seen'.ended = seen.ended
      /\ seen'.reverted = TRUE
  BY <1>1, Zenon DEF IsSeen
<1> QED BY <1>2, Zenon DEF AllRight

\* The state at the end of a run was met: it counts only if there is an afterInvariant.
LEMMA MetEnd ==
  ASSUME IsSeen(seen), UNCHANGED <<config, contract>>, NEW s,
         seen' = [seen EXCEPT !.ended = @ \cup {s}]
  PROVE  IsSeen(seen') /\ (AllRight' <=>
           AllRight /\ (contract.call_after_invariant => s \in contract.after_holds))
<1>1. seen' = [ok |-> seen.ok, ended |-> seen.ended \cup {s}, reverted |-> seen.reverted]
  BY DEF IsSeen
<1>2. /\ IsSeen(seen') /\ seen'.ok = seen.ok /\ seen'.ended = seen.ended \cup {s}
      /\ seen'.reverted = seen.reverted
  BY <1>1 DEF IsSeen
<1> QED BY <1>2, Zenon DEF AllRight

\* The error a call leads to.
LEMMA ErrorAfter ==
  ASSUME run.inputs \in Seq(Calls), NEW r, r.how \in {"ok", "revert", "failed"},
         NEW error, error = error_after_call(r)
  PROVE  \/ /\ r.how = "ok" /\ (r.to \in contract.holds \/ failures.error # None)
            /\ error = None
         \/ /\ r.how # "ok" /\ ~config.fail_on_revert /\ error = None
         \/ /\ r.how = "ok" /\ r.to \notin contract.holds /\ failures.error = None
            /\ error # None /\ error.kind = "BrokenInvariant" /\ error.calls = run.inputs
            /\ error.cause = "broken"
         \/ /\ r.how # "ok" /\ config.fail_on_revert
            /\ error # None /\ error.kind = "Revert" /\ error.calls = run.inputs
            /\ error.cause = r.how
<1> DEFINE broken == [kind |-> "BrokenInvariant", calls |-> run.inputs, cause |-> "broken"]
           revert == [kind |-> "Revert", calls |-> run.inputs, cause |-> r.how]
<1>1. /\ broken.kind = "BrokenInvariant" /\ broken.calls = run.inputs
      /\ broken.cause = "broken"
  BY Zenon
<1>2. revert.kind = "Revert" /\ revert.calls = run.inputs /\ revert.cause = r.how
  BY Zenon
<1>3. broken # None
  <2>1. "broken" \in Causes
    BY Zenon DEF Causes
  <2> QED BY <2>1, ErrorMade, Zenon
<1>4. r.how # "ok" => revert # None
  <2>1. r.how # "ok" => r.how \in Causes
    BY Zenon DEF Causes
  <2> QED BY <2>1, ErrorMade, Zenon
<1>5. \/ /\ r.how = "ok" /\ (r.to \in contract.holds \/ failures.error # None)
         /\ error = None
      \/ r.how # "ok" /\ ~config.fail_on_revert /\ error = None
      \/ /\ r.how = "ok" /\ r.to \notin contract.holds /\ failures.error = None
         /\ error = broken
      \/ r.how # "ok" /\ config.fail_on_revert /\ error = revert
  BY Zenon DEF error_after_call, call_invariant_function
<1> HIDE DEF broken, revert
<1> QED BY <1>1, <1>2, <1>3, <1>4, <1>5, Zenon

\* A call of the run: its error is known at once, its calls fail, and a run that goes
\* on is in the state that check_sequence finds.
LEMMA ExecuteRight ==
  ASSUME Typed, VInv, execute_call, config' = config
  PROVE  VInv'
<1> DEFINE s == run.inputs
           d == run.depth
           fr == config.fail_on_revert
           ex(calls) == executed(contract, fr, calls)
<1>0. contract \in Contracts /\ config \in Configs /\ IsRun(run) /\ s \in Seq(Calls)
  BY Zenon DEF Typed
<1>1. /\ phase = "run" /\ d < config.depth /\ Outcome.how # "assume"
      /\ UNCHANGED <<contract, cases, result, faults>>
      /\ targets' = targets \cup Created
      /\ failures'.reverts = failures.reverts + (IF Outcome.how = "ok" THEN 0 ELSE 1)
      /\ failures'.error = IF Error = None THEN failures.error ELSE Error
      /\ seen' = IF Outcome.how = "ok" THEN [seen EXCEPT !.ok = @ \cup {Outcome.to}]
                 ELSE [seen EXCEPT !.reverted = TRUE]
      /\ run'.state = Outcome.to
      /\ run'.created_contracts = run.created_contracts \cup Created
      /\ \/ Error # None /\ phase' = "after"
         \/ /\ Error = None /\ phase' = "run" /\ run'.depth = d + 1
            /\ run'.inputs \in {Append(s, g) : g \in fuzzed_functions(targets')}
  BY <1>0, ExecuteEffect, Zenon
<1>2. RunRight /\ ErrorKnown /\ NoErrorYet /\ TargetsRight /\ ResultRight
  BY <1>1, Zenon DEF VInv, ErrorRight
<1>3. /\ TheCall \in DOMAIN contract.step
      /\ Outcome.how \in {"ok", "revert", "assume", "failed"} /\ Known(Outcome.to)
      /\ ex(s)[d + 1] = [state |-> Outcome.to, stopped |-> reverted(Outcome) /\ fr]
  BY <1>0, <1>1, <1>2, CallExecuted, Zenon DEF TheCall, Outcome
<1>4. /\ s \in Seq(DOMAIN contract.step) /\ d \in Nat /\ Len(s) = d + 1
      /\ cases \in 0..config.runs /\ cases < config.runs /\ config.depth \in Nat
  BY <1>0, <1>1, <1>2, ConfigNumbers DEF RunRight
<1>5. Outcome.how \in {"ok", "revert", "failed"}
  BY <1>1, <1>3, Zenon
<1>6. \/ /\ Outcome.how = "ok" /\ (Outcome.to \in contract.holds \/ failures.error # None)
         /\ Error = None
      \/ /\ Outcome.how # "ok" /\ ~fr /\ Error = None
      \/ /\ Outcome.how = "ok" /\ Outcome.to \notin contract.holds /\ failures.error = None
         /\ Error # None /\ Error.kind = "BrokenInvariant" /\ Error.calls = s
         /\ Error.cause = "broken"
      \/ /\ Outcome.how # "ok" /\ fr
         /\ Error # None /\ Error.kind = "Revert" /\ Error.calls = s
         /\ Error.cause = Outcome.how
  <2>1. Error = error_after_call(Outcome)
    BY Zenon DEF Error
  <2> HIDE DEF s, d, fr, ex
  <2> QED BY <1>0, <1>5, <2>1, ErrorAfter DEF s, fr
<1>7. IsSeen(seen) /\ failures.reverts \in Nat
  BY <1>2, Zenon DEF ErrorKnown
<1>8. ErrorRight'
  <2>1. CASE Error = None
    <3>1. failures'.error = failures.error /\ phase' = "run"
      BY <1>1, <2>1, Zenon
    <3>2. /\ IsSeen(seen')
          /\ failures.error = None => (AllRight => AllRight')
          /\ ~AllRight => ~AllRight'
      <4>1. CASE Outcome.how = "ok"
        <5>1. seen' = [seen EXCEPT !.ok = @ \cup {Outcome.to}]
          BY <1>1, <4>1, Zenon
        <5>2. IsSeen(seen') /\ (AllRight' <=> AllRight /\ Outcome.to \in contract.holds)
          BY <1>1, <1>7, <5>1, MetState, Zenon
        <5> QED BY <1>6, <2>1, <4>1, <5>2, Zenon
      <4>2. CASE Outcome.how # "ok"
        <5>1. seen' = [seen EXCEPT !.reverted = TRUE]
          BY <1>1, <4>2, Zenon
        <5>2. IsSeen(seen') /\ (~fr => (AllRight' <=> AllRight))
          BY <1>1, <1>7, <5>1, MetRevert, Zenon
        <5> QED BY <1>6, <2>1, <4>2, <5>2, Zenon
      <4> QED BY <4>1, <4>2, Zenon
    <3>3. failures'.reverts \in Nat /\ (fr => failures'.reverts = failures.reverts)
      <4>1. CASE Outcome.how = "ok"
        BY <1>1, <1>7, <4>1
      <4>2. CASE Outcome.how # "ok"
        BY <1>1, <1>6, <1>7, <2>1, <4>2
      <4> QED BY <4>1, <4>2, Zenon
    <3>4. ErrorKnown'
      BY <1>1, <1>2, <3>1, <3>2, <3>3, Zenon DEF ErrorKnown, Failing
    <3>5. NoErrorYet'
      BY <1>1, <1>2, <3>1, <3>2, <3>3, Zenon DEF NoErrorYet
    <3> QED BY <3>1, <3>4, <3>5, Zenon DEF ErrorRight
  <2>2. CASE Error # None
    <3>1. failures'.error = Error /\ phase' = "after" /\ failures'.error # None
      BY <1>1, <2>2, Zenon
    <3>2. /\ IsSeen(seen') /\ ~AllRight'
      <4>1. CASE Outcome.how = "ok"
        <5>1. seen' = [seen EXCEPT !.ok = @ \cup {Outcome.to}]
          BY <1>1, <4>1, Zenon
        <5>2. IsSeen(seen') /\ (AllRight' <=> AllRight /\ Outcome.to \in contract.holds)
          BY <1>1, <1>7, <5>1, MetState, Zenon
        <5> QED BY <1>6, <2>2, <4>1, <5>2, Zenon
      <4>2. CASE Outcome.how # "ok"
        <5>1. seen' = [seen EXCEPT !.reverted = TRUE]
          BY <1>1, <4>2, Zenon
        <5>2. IsSeen(seen') /\ (fr => ~AllRight')
          BY <1>1, <1>7, <5>1, MetRevert, Zenon
        <5> QED BY <1>6, <2>2, <4>2, <5>2, Zenon
      <4> QED BY <4>1, <4>2, Zenon
    <3>3. failures'.reverts \in Nat
      <4>1. (IF Outcome.how = "ok" THEN 0 ELSE 1) \in Nat
        OBVIOUS
      <4> HIDE DEF s
      <4> QED BY <1>1, <1>7, <4>1
    <3>4. /\ Error.cause \in Causes /\ Error.cause # "assume"
          /\ Error.kind # "MaxAssumeRejects"
      BY <1>5, <1>6, <2>2, Zenon DEF Causes
    <3>5. Error.cause \in {"broken", "revert"} => Failing(s) /\ Error.calls = s
      <4> SUFFICES ASSUME Error.cause \in {"broken", "revert"} PROVE Failing(s) /\ Error.calls = s
        OBVIOUS
      <4>1. Len(s) <= config.depth
        BY <1>1, <1>4
      <4>2. ex(s)[Len(s)] = [state |-> Outcome.to, stopped |-> reverted(Outcome) /\ fr]
        BY <1>3, <1>4, Zenon
      <4>3. (reverted(Outcome) /\ fr) \/ Outcome.to \notin contract.holds
        BY <1>5, <1>6, <2>2, Zenon DEF reverted
      <4>4. ~check_sequence(contract, fr, s)
        <5> DEFINE end == ex(s)[Len(s)]
        <5>1. end.state = Outcome.to /\ end.stopped = (reverted(Outcome) /\ fr)
          BY <4>2
        <5> HIDE DEF end
        <5>2. end.stopped \/ end.state \notin contract.holds
          BY <4>3, <5>1, Zenon
        <5> QED BY <5>2, Zenon DEF check_sequence, call_invariant_function, end
      <4> QED BY <1>4, <1>6, <2>2, <4>1, <4>4, Zenon DEF Failing
    <3>6. Failing(s) => Failing(failures.error.calls)' \/ Error.calls # s
      BY <1>1, <3>1, Zenon DEF Failing
    <3>7. ErrorKnown'
      BY <3>1, <3>2, <3>3, <3>4, <3>5, <3>6, Zenon DEF ErrorKnown
    <3> QED BY <3>1, <3>7, Zenon DEF ErrorRight, NoErrorYet
  <2> QED BY <2>1, <2>2, Zenon
<1>9. TargetsRight'
  <2> SUFFICES ASSUME \A g \in DOMAIN contract'.touches :
                        contract'.touches[g] \cap contract'.targets = {}
               PROVE  /\ targets' = contract'.targets \cup run'.created_contracts
                      /\ run'.created_contracts \cap contract'.targets = {}
                      /\ phase' # "between"
    BY Zenon DEF TargetsRight
  <2>1. /\ targets = contract.targets \cup run.created_contracts
        /\ run.created_contracts \cap contract.targets = {}
    BY <1>1, <1>2, Zenon DEF TargetsRight
  <2>2. Created \cap contract.targets = {}
    <3>1. TheCall \in DOMAIN contract.touches
      BY <1>0, <1>3, ContractAssumption, Zenon
    <3> QED BY <1>1, <3>1, Zenon DEF Created, collect_created_contracts
  <2>3. phase' # "between"
    BY <1>1, Zenon
  <2>4. targets' = contract.targets \cup (run.created_contracts \cup Created)
    BY <1>1, <2>1, Zenon
  <2>5. (run.created_contracts \cup Created) \cap contract.targets = {}
    BY <2>1, <2>2, Zenon
  <2> QED BY <1>1, <2>3, <2>4, <2>5, Zenon
<1>10. RunRight'
  <2>1. /\ cases' \in 0..config'.runs
        /\ phase' \in {"run", "after"} => cases' < config'.runs
    BY <1>1, <1>4, Zenon
  <2>2. CASE phase' # "run"
    BY <2>1, <2>2, Zenon DEF RunRight
  <2>3. CASE phase' = "run"
    <3>1. /\ Error = None /\ run'.depth = d + 1
          /\ run'.inputs \in {Append(s, g) : g \in fuzzed_functions(targets')}
      BY <1>1, <2>3, Zenon
    <3>2. PICK g \in fuzzed_functions(targets') : run'.inputs = Append(s, g)
      BY <3>1, Zenon
    <3>3. g \in DOMAIN contract.step
      BY Zenon DEF fuzzed_functions
    <3>4. /\ run'.inputs \in Seq(DOMAIN contract.step) /\ Len(run'.inputs) = d + 2
          /\ \A i \in 1..(d + 1) : run'.inputs[i] = s[i]
      <4> HIDE DEF s, d
      <4>1. Append(s, g) \in Seq(DOMAIN contract.step) /\ Len(Append(s, g)) = d + 2
            /\ \A i \in 1..(d + 1) : Append(s, g)[i] = s[i]
        BY <1>4, <3>3
      <4> QED BY <3>2, <4>1, Zenon
    <3>5. ex(run'.inputs)[d + 1] = ex(s)[d + 1]
      <4>1. Agree(s, run'.inputs, d + 1)
        BY <1>4, <3>4 DEF Agree
      <4> QED BY <4>1, Prefix
    <3>6. ~(reverted(Outcome) /\ fr)
      BY <1>6, <3>1, Zenon DEF reverted
    <3>7. ex(s)[d + 1] = [state |-> Outcome.to, stopped |-> FALSE]
      BY <1>3, <3>6, Zenon
    <3>8. executed(contract', config'.fail_on_revert, run'.inputs)[run'.depth] =
            [state |-> run'.state, stopped |-> FALSE]
      BY <1>1, <3>1, <3>5, <3>7, Zenon
    <3>9. Known(run.state)'
      BY <1>1, <1>3, Zenon DEF Known
    <3>10. /\ run'.inputs \in Seq(DOMAIN contract'.step)
           /\ Len(run'.inputs) = run'.depth + 1
           /\ run'.depth \in 0..config'.depth
      BY <1>1, <1>4, <3>1, <3>4
    <3> QED BY <2>1, <3>8, <3>9, <3>10, Zenon DEF RunRight
  <2> QED BY <2>2, <2>3, Zenon
<1>11. ResultRight'
  BY <1>1, <1>2, SameResult, Zenon
<1> QED BY <1>8, <1>9, <1>10, <1>11, Zenon DEF VInv

\* A call that cannot be made ends the campaign.
LEMMA CallFailsRight ==
  ASSUME Typed, VInv, call_fails, config' = config
  PROVE  VInv'
<1>1. /\ phase = "run" /\ phase' = "report" /\ faults' = TRUE
      /\ UNCHANGED <<contract, failures, cases, result, seen>>
  BY Zenon DEF call_fails, Fault
<1>2. RunRight /\ ErrorKnown /\ NoErrorYet /\ ResultRight
  BY <1>1, Zenon DEF VInv, ErrorRight
<1>3. ErrorKnown' /\ NoErrorYet'
  BY <1>1, <1>2, SameErrors, Zenon
<1>4. ErrorRight'
  BY <1>1, <1>3, Zenon DEF ErrorRight
<1>5. RunRight'
  BY <1>1, <1>2, Zenon DEF RunRight
<1>6. TargetsRight'
  BY <1>1, Zenon DEF TargetsRight
<1>7. ResultRight'
  BY <1>1, <1>2, SameResult, Zenon
<1> QED BY <1>4, <1>5, <1>6, <1>7, Zenon DEF VInv

\* What assert_after_invariant makes of the failures.
LEMMA AfterEffect ==
  ASSUME assert_after_invariant, IsFailures(failures), run.inputs \in Seq(Calls)
  PROVE  \/ /\ contract.call_after_invariant /\ run.state \notin contract.after_holds
            /\ failures.error = None /\ failures'.reverts = failures.reverts
            /\ failures'.error # None /\ failures'.error.kind = "BrokenInvariant"
            /\ failures'.error.cause = "after"
         \/ /\ UNCHANGED failures
            /\ \/ failures.error # None
               \/ contract.call_after_invariant => run.state \in contract.after_holds
<1> DEFINE e == [kind |-> "BrokenInvariant", calls |-> run.inputs, cause |-> "after"]
<1>1. e.kind = "BrokenInvariant" /\ e.cause = "after"
  BY Zenon
<1>2. "after" \in Causes
  BY Zenon DEF Causes
<1>3. e # None
  BY <1>2, ErrorMade, Zenon
<1>4. CASE contract.call_after_invariant /\ failures.error = None
             /\ run.state \notin contract.after_holds
  <2>1. failures' = [failures EXCEPT !.error = e]
    BY <1>4, Zenon DEF assert_after_invariant, call_after_invariant_function
  <2> HIDE DEF e
  <2>2. failures'.reverts = failures.reverts /\ failures'.error = e
    BY <2>1, FailuresUpdate
  <2> QED BY <1>1, <1>3, <1>4, <2>2, Zenon
<1>5. CASE ~(contract.call_after_invariant /\ failures.error = None
             /\ run.state \notin contract.after_holds)
  BY <1>5, Zenon DEF assert_after_invariant, call_after_invariant_function
<1> QED BY <1>4, <1>5, Zenon

\* A run ends: afterInvariant is met, and what the run created is forgotten.
LEMMA FinishRunRight ==
  ASSUME Typed, VInv, finish_run, config' = config
  PROVE  VInv'
<1>0. config \in Configs /\ IsFailures(failures) /\ run.inputs \in Seq(Calls)
  BY Zenon DEF Typed
<1>1. /\ phase \in {"run", "after"} /\ assert_after_invariant
      /\ targets' = targets \ run.created_contracts /\ cases' = cases + 1
      /\ phase' = IF cases + 1 < config.runs THEN "between" ELSE "report"
      /\ seen' = IF phase = "run" THEN [seen EXCEPT !.ended = @ \cup {run.state}] ELSE seen
      /\ UNCHANGED <<contract, result, faults>>
  BY Zenon DEF finish_run, end_run
<1>2. /\ RunRight /\ ErrorKnown /\ NoErrorYet /\ TargetsRight /\ ResultRight
      /\ phase = "after" => failures.error # None
  BY <1>1, Zenon DEF VInv, ErrorRight
<1>3. /\ cases' \in 0..config.runs /\ phase' \in {"between", "report"}
      /\ phase' = "report" => cases' = config.runs
  <2>1. cases \in 0..config.runs /\ cases < config.runs /\ config.runs \in Nat
    BY <1>0, <1>1, <1>2, ConfigNumbers, Zenon DEF RunRight
  <2> QED BY <1>1, <2>1
<1>4. RunRight'
  BY <1>3, Zenon DEF RunRight
<1>5. /\ IsSeen(seen) /\ failures.reverts \in Nat
      /\ failures.error # None =>
       /\ failures.error.cause \in Causes
       /\ failures.error.cause = "assume" <=> failures.error.kind = "MaxAssumeRejects"
       /\ failures.error.cause # "assume" => ~AllRight
       /\ failures.error.cause \in {"broken", "revert"} => Failing(failures.error.calls)
  BY <1>2, Zenon DEF ErrorKnown
<1>6. /\ IsSeen(seen')
      /\ \/ phase = "after" /\ seen' = seen
         \/ /\ phase = "run"
            /\ AllRight' <=>
                 AllRight /\ (contract.call_after_invariant => run.state \in contract.after_holds)
  <2>1. CASE phase = "run"
    <3>1. seen' = [seen EXCEPT !.ended = @ \cup {run.state}]
      BY <1>1, <2>1, Zenon
    <3> QED BY <1>1, <1>5, <2>1, <3>1, MetEnd, Zenon
  <2>2. CASE phase = "after"
    <3>1. seen' = seen
      BY <1>1, <2>2, Zenon
    <3> QED BY <1>5, <2>2, <3>1, Zenon
  <2> QED BY <1>1, <2>1, <2>2, Zenon
<1>7. ErrorKnown' /\ NoErrorYet'
  <2>1. CASE phase = "after"
    <3>1. failures.error # None /\ seen' = seen
      BY <1>2, <1>6, <2>1, Zenon
    <3>2. UNCHANGED failures
      BY <1>0, <1>1, <3>1, AfterEffect, Zenon
    <3> QED BY <1>1, <1>2, <3>1, <3>2, SameErrors, Zenon
  <2>2. CASE phase = "run"
    <3>1. AllRight' <=>
            AllRight /\ (contract.call_after_invariant => run.state \in contract.after_holds)
      BY <1>6, <2>2, Zenon
    <3>2. CASE UNCHANGED failures /\ failures.error # None
      <4>1. ErrorKnown'
        BY <1>1, <1>5, <1>6, <3>1, <3>2, Zenon DEF ErrorKnown, Failing
      <4> QED BY <3>2, <4>1, Zenon DEF NoErrorYet
    <3>3. CASE /\ UNCHANGED failures /\ failures.error = None
               /\ contract.call_after_invariant => run.state \in contract.after_holds
      <4>1. ErrorKnown'
        BY <1>5, <1>6, <3>3, Zenon DEF ErrorKnown
      <4>2. NoErrorYet'
        BY <1>2, <3>1, <3>3, Zenon DEF NoErrorYet
      <4> QED BY <4>1, <4>2, Zenon
    <3>4. CASE /\ contract.call_after_invariant /\ run.state \notin contract.after_holds
               /\ failures'.reverts = failures.reverts
               /\ failures'.error # None /\ failures'.error.kind = "BrokenInvariant"
               /\ failures'.error.cause = "after"
      <4>1. ErrorKnown'
        BY <1>5, <1>6, <3>1, <3>4, Zenon DEF ErrorKnown, Causes
      <4> QED BY <3>4, <4>1, Zenon DEF NoErrorYet
    <3> QED BY <1>0, <1>1, <3>2, <3>3, <3>4, AfterEffect, Zenon
  <2> QED BY <1>1, <2>1, <2>2, Zenon
<1>8. ErrorRight'
  BY <1>1, <1>3, <1>7, Zenon DEF ErrorRight
<1>9. TargetsRight'
  <2> SUFFICES ASSUME \A f \in DOMAIN contract'.touches :
                        contract'.touches[f] \cap contract'.targets = {}
               PROVE  targets' = contract'.targets
    BY <1>3, Zenon DEF TargetsRight
  <2>1. /\ targets = contract.targets \cup run.created_contracts
        /\ run.created_contracts \cap contract.targets = {}
    BY <1>1, <1>2, Zenon DEF TargetsRight
  <2> QED BY <1>1, <2>1, Zenon
<1>10. ResultRight'
  BY <1>1, <1>2, <1>3, SameResult, Zenon
<1> QED BY <1>4, <1>8, <1>9, <1>10, Zenon DEF VInv

\* A round that ends leaves nothing but its result.
LEMMA Finished ==
  ASSUME Typed, IsSeen(seen), UNCHANGED <<config, contract, seen>>,
         NEW status, NEW counterexample, NEW cause, finish(status, counterexample, cause)
  PROVE  /\ RunRight' /\ ErrorRight' /\ TargetsRight' /\ phase' = "idle"
         /\ result'.status = status /\ result'.counterexample = counterexample
         /\ result'.cause = cause /\ result'.cases = cases /\ result'.sure = ~faults'
<1>1. /\ result' = [status |-> status, counterexample |-> counterexample, cause |-> cause,
                    cases |-> cases, reverts |-> failures.reverts, sure |-> ~faults']
      /\ phase' = "idle" /\ failures' = NoFailures /\ cases' = 0
  BY Zenon DEF finish
<1>2. NoFailures.error = None /\ NoFailures.reverts = 0
  BY Zenon DEF NoFailures
<1>3. RunRight'
  <2>1. config.runs \in Nat
    BY ConfigNumbers, Zenon DEF Typed
  <2>2. cases' \in 0..config'.runs
    BY <1>1, <2>1
  <2> QED BY <1>1, <2>2, Zenon DEF RunRight
<1>4. ErrorRight'
  <2>1. failures'.error = None /\ failures'.reverts \in Nat
    BY <1>1, <1>2
  <2>2. ErrorKnown'
    BY <2>1, Zenon DEF ErrorKnown
  <2> QED BY <1>1, <2>1, <2>2, Zenon DEF ErrorRight
<1>5. TargetsRight'
  BY <1>1, Zenon DEF TargetsRight
<1>6. /\ result'.status = status /\ result'.counterexample = counterexample
      /\ result'.cause = cause /\ result'.cases = cases /\ result'.sure = ~faults'
  BY <1>1
<1> QED BY <1>1, <1>3, <1>4, <1>5, <1>6, Zenon

\* A round that ends without a failure to be replayed.
LEMMA Ended ==
  ASSUME Typed, IsSeen(seen), UNCHANGED <<config, contract, seen>>,
         NEW status, NEW counterexample, NEW cause, finish(status, counterexample, cause),
         cause # "replay",
         /\ ~faults' /\ cause # "assume" /\ status \in {"Success", "Failure"}
         => (status = "Success" <=> cases = config.runs /\ AllRight),
         Reliable' => Failing(counterexample)' /\ replay_recorded'
  PROVE  VInv'
<1>1. /\ RunRight' /\ ErrorRight' /\ TargetsRight' /\ phase' = "idle"
      /\ result'.status = status /\ result'.counterexample = counterexample
      /\ result'.cause = cause /\ result'.cases = cases /\ result'.sure = ~faults'
  BY Finished, Zenon
<1>2. AllRight' <=> AllRight
  BY Zenon DEF AllRight
<1>3. Judged'
  BY <1>1, <1>2, Zenon DEF Judged
<1>4. Failing(result.counterexample)' <=> Failing(counterexample)'
  BY <1>1, Zenon DEF Failing
<1>5. Reliable' => result'.status = "Failure"
  BY Zenon DEF Reliable
<1>6. ResultRight'
  BY <1>1, <1>3, <1>4, <1>5, Zenon DEF ResultRight
<1> QED BY <1>1, <1>6, Zenon DEF VInv

\* The verdict: a campaign without error made all its runs and met nothing wrong, one
\* with an error did.
LEMMA ReportRight ==
  ASSUME Typed, VInv, report, config' = config
  PROVE  VInv'
<1>1. /\ phase \in {"between", "report"} /\ UNCHANGED <<contract, seen>>
      /\ phase = "between" => cases = config.runs
  BY Zenon DEF report
<1>2. /\ RunRight /\ ErrorKnown /\ NoErrorYet /\ ResultRight /\ IsSeen(seen)
      /\ phase = "report" /\ ~faults /\ failures.error = None => cases = config.runs
  BY <1>1, Zenon DEF VInv, ErrorRight, ErrorKnown
<1>3. CASE /\ failures.error = None /\ NoFault
           /\ finish("Success", <<>>, None)
  <2>1. None # "replay"
    BY NoneNoName, Zenon
  <2>2. ~faults' => cases = config.runs /\ AllRight
    BY <1>1, <1>2, <1>3, Zenon DEF NoFault, NoErrorYet
  <2>3. result'.status = "Success"
    BY <1>1, <1>2, <1>3, Finished, Zenon
  <2>4. ~Reliable'
    BY <2>3, Zenon DEF Reliable
  <2> QED BY <1>1, <1>2, <1>3, <2>1, <2>2, <2>4, Ended, Zenon
<1>4. CASE failures.error # None /\ finish("Failure", <<>>, failures.error.cause)
  <2>1. failures.error.cause # "replay"
    BY <1>2, <1>4, Zenon DEF ErrorKnown, Causes
  <2>2. failures.error.cause # "assume" => ~AllRight
    BY <1>2, <1>4, Zenon DEF ErrorKnown
  <2>3. result'.counterexample = <<>>
    BY <1>1, <1>2, <1>4, Finished, Zenon
  <2>4. ~Reliable'
    BY <2>3, Zenon DEF Reliable
  <2> QED BY <1>1, <1>2, <1>4, <2>1, <2>2, <2>4, Ended, Zenon
<1>5. CASE /\ failures.error # None /\ failures.error.kind # "MaxAssumeRejects"
           /\ shrinker' = [calls |-> failures.error.calls,
                           included_calls |-> 1..Len(failures.error.calls),
                           call_index |-> 1, prev_shrink |-> None,
                           left |-> config.shrink_run_limit]
           /\ phase' = "shrink"
           /\ UNCHANGED <<result, failures, targets, run, cases>>
           /\ NoFault
  <2>1. shrinker'.calls = failures.error.calls
    BY <1>5
  <2>2. ErrorKnown' /\ NoErrorYet'
    BY <1>1, <1>2, <1>5, SameErrors, Zenon
  <2>3. ErrorRight'
    BY <1>5, <2>1, <2>2, Zenon DEF ErrorRight
  <2>4. RunRight'
    BY <1>1, <1>2, <1>5, Zenon DEF RunRight
  <2>5. TargetsRight'
    BY <1>5, Zenon DEF TargetsRight
  <2>6. ResultRight'
    BY <1>1, <1>2, <1>5, SameResult, Zenon DEF NoFault
  <2> QED BY <2>3, <2>4, <2>5, <2>6, Zenon DEF VInv
<1> QED BY <1>3, <1>4, <1>5, Zenon DEF report

\* Shrinking keeps the calls it started from.
LEMMA ShrinkRight ==
  ASSUME Typed, VInv, shrink_sequence, config' = config
  PROVE  VInv'
<1>1. /\ phase = "shrink" /\ phase' = "shrink" /\ IsShrinker(shrinker)
      /\ UNCHANGED <<contract, failures, run, cases, result, seen>>
  BY Zenon DEF shrink_sequence, Typed
<1>2. /\ RunRight /\ ErrorKnown /\ NoErrorYet /\ ResultRight
      /\ failures.error # None /\ failures.error.kind # "MaxAssumeRejects"
      /\ shrinker.calls = failures.error.calls
  BY <1>1, Zenon DEF VInv, ErrorRight
<1>3. shrinker'.calls = shrinker.calls /\ (faults => faults')
  <2>1. \E i, x, p, l : shrinker' = Shrinker(shrinker.calls, i, x, p, l)
    BY <1>1, ShrinkCases, Zenon
  <2>2. shrinker'.calls = shrinker.calls
    BY <2>1 DEF Shrinker
  <2>3. faults => faults'
    BY Zenon DEF shrink_sequence, NoFault, Fault
  <2> QED BY <2>2, <2>3, Zenon
<1>4. ErrorKnown' /\ NoErrorYet'
  BY <1>1, <1>2, SameErrors, Zenon
<1>5. ErrorRight'
  BY <1>1, <1>2, <1>3, <1>4, Zenon DEF ErrorRight
<1>6. RunRight'
  BY <1>1, <1>2, Zenon DEF RunRight
<1>7. TargetsRight'
  BY <1>1, Zenon DEF TargetsRight
<1>8. ResultRight'
  BY <1>1, <1>2, <1>3, SameResult, Zenon
<1> QED BY <1>5, <1>6, <1>7, <1>8, Zenon DEF VInv

\* What is recorded for a failure that can be relied on fails, and is replayed whole.
LEMMA PersistRight ==
  ASSUME Typed, ShrinksRight, VInv, persist_failure, config' = config
  PROVE  VInv'
<1> DEFINE calls == current(shrinker)
<1>1. phase = "shrink" /\ shrinker.left = 0 /\ UNCHANGED <<contract, seen>>
  BY Zenon DEF persist_failure
<1>2. /\ IsSeen(seen) /\ ErrorKnown /\ failures.error # None
      /\ failures.error.kind # "MaxAssumeRejects" /\ shrinker.calls = failures.error.calls
  BY <1>1, Zenon DEF VInv, ErrorRight, ErrorKnown
<1>3. failures.error.cause \in Causes /\ failures.error.cause # "assume" /\ ~AllRight
  BY <1>2, Zenon DEF ErrorKnown
<1>4. failures.error.cause # "replay"
  BY <1>3, Zenon DEF Causes
<1>5. CASE calls # <<>> /\ NoFault /\ file' = calls /\ finish("Failure", calls, failures.error.cause)
  <2>0. PICK kept : kept = kept_calls(shrinker.calls, shrinker.included_calls)
    BY Zenon
  <2>1. file' = kept /\ finish("Failure", kept, failures.error.cause)
    BY <1>5, <2>0, Zenon DEF current
  <2>2. ASSUME Reliable' PROVE Failing(kept)' /\ replay_recorded'
    <3>1. result'.cause = failures.error.cause /\ result'.sure = ~faults'
      BY <1>1, <1>2, <2>1, Finished, Zenon
    <3>2. /\ ~faults /\ failures.error.cause \in {"broken", "revert"}
          /\ config.shrink_run_limit > config.depth
      BY <1>5, <2>2, <3>1, Zenon DEF Reliable, NoFault
    <3>3. /\ shrinker.calls \in Seq(DOMAIN contract.step) /\ Len(shrinker.calls) <= config.depth
          /\ ~check_sequence(contract, config.fail_on_revert, shrinker.calls)
      BY <1>2, <3>2, Zenon DEF ErrorKnown, Failing
    <3>4. /\ config.depth \in Nat /\ config.shrink_run_limit \in Nat
          /\ Len(shrinker.calls) \in Nat
      BY <3>3, ConfigNumbers, SMTT(60) DEF Typed
    <3>5. Fails(contract, config.fail_on_revert, shrinker.calls, 1..Len(shrinker.calls))
      BY <3>3, KeptAll, Zenon DEF Fails
    <3>6. config.shrink_run_limit > Len(shrinker.calls)
      BY <3>2, <3>3, <3>4
    <3>7. Fails(contract, config.fail_on_revert, shrinker.calls, shrinker.included_calls)
      BY <1>1, <3>2, <3>5, <3>6, Zenon DEF ShrinksRight
    <3>8. ~check_sequence(contract, config.fail_on_revert, kept)
      BY <2>0, <3>7, Zenon DEF Fails
    <3>9. kept \in Seq(DOMAIN contract.step) /\ Len(kept) <= Len(shrinker.calls)
      <4>1. shrinker.included_calls \subseteq 1..Len(shrinker.calls)
        BY <1>1, Zenon DEF Typed
      <4> QED BY <2>0, <3>3, <4>1, KeptSeq, Zenon
    <3>10. Len(kept) <= config.depth
      BY <3>3, <3>4, <3>9
    <3>11. kept \notin {None, Corrupt}
      <4>1. {None, Corrupt} \cap Seq(DOMAIN contract.step) = {}
        BY ContractAssumption, Zenon DEF Typed
      <4> QED BY <3>9, <4>1, Zenon
    <3>12. Failing(kept)'
      BY <1>1, <3>8, <3>9, <3>10, Zenon DEF Failing
    <3>13. replay_recorded'
      BY <1>1, <2>1, <3>8, <3>10, <3>11, Zenon DEF replay_recorded
    <3> QED BY <3>12, <3>13, Zenon
  <2> QED BY <1>1, <1>2, <1>3, <1>4, <2>1, <2>2, Ended, Zenon
<1>6. CASE finish("Failure", calls, "unrecorded")
  <2> HIDE DEF calls
  <2>1. result'.cause = "unrecorded"
    BY <1>1, <1>2, <1>6, Finished, Zenon
  <2>2. ~Reliable'
    BY <2>1, Zenon DEF Reliable
  <2> QED BY <1>1, <1>2, <1>3, <1>6, <2>2, Ended, Zenon
<1>7. CASE finish("Failure", <<>>, failures.error.cause)
  <2>1. result'.counterexample = <<>>
    BY <1>1, <1>2, <1>7, Finished, Zenon
  <2>2. ~Reliable'
    BY <2>1, Zenon DEF Reliable
  <2> QED BY <1>1, <1>2, <1>3, <1>4, <1>7, <2>2, Ended, Zenon
<1> QED BY <1>5, <1>6, <1>7, Zenon DEF persist_failure

\* Without a result there is no verdict.
LEMMA NoVerdict ==
  ASSUME phase' = "idle", result' = NoResult
  PROVE  ResultRight'
<1>1. NoResult.status = None /\ NoResult.cause = None /\ NoResult.sure = FALSE
  BY DEF NoResult
<1>2. result'.status = None /\ result'.cause = None /\ ~result'.sure
  BY <1>1
<1>3. ~Reliable' /\ result'.cause # "replay"
  BY <1>2, NoneNoName, Zenon DEF Reliable
<1>4. Judged'
  BY <1>2, Zenon DEF Judged
<1> QED BY <1>3, <1>4, Zenon DEF ResultRight

\* The round is killed, or the contracts are edited: the result is gone.
LEMMA OutsideRight ==
  ASSUME Typed, VInv, kill \/ edit, config' = config
  PROVE  VInv'
<1>1. phase' = "idle" /\ result' = NoResult /\ UNCHANGED seen
  BY Zenon DEF kill, edit
<1>2. ErrorKnown /\ IsSeen(seen) /\ cases \in 0..config.runs
  BY Zenon DEF VInv, ErrorRight, RunRight, ErrorKnown
<1>3. cases' \in 0..config.runs /\ failures'.error = None /\ failures'.reverts \in Nat
  <2>1. CASE kill
    <3>1. cases' = 0 /\ failures' = NoFailures
      BY <2>1, Zenon DEF kill
    <3>2. NoFailures.error = None /\ NoFailures.reverts = 0
      BY Zenon DEF NoFailures
    <3>3. config.runs \in Nat
      BY ConfigNumbers, Zenon DEF Typed
    <3> QED BY <3>1, <3>2, <3>3, SMTT(60)
  <2>2. CASE edit
    <3>1. phase = "idle" /\ UNCHANGED <<cases, failures>>
      BY <2>2, Zenon DEF edit
    <3> QED BY <1>2, <3>1, Zenon DEF VInv, ErrorRight, ErrorKnown
  <2> QED BY <2>1, <2>2, Zenon
<1>4. RunRight'
  BY <1>1, <1>3, Zenon DEF RunRight
<1>5. ErrorRight'
  <2>1. ErrorKnown'
    BY <1>1, <1>2, <1>3, Zenon DEF ErrorKnown
  <2> QED BY <1>1, <1>3, <2>1, Zenon DEF ErrorRight
<1>6. TargetsRight'
  BY <1>1, Zenon DEF TargetsRight
<1>7. ResultRight'
  BY <1>1, NoVerdict, Zenon
<1> QED BY <1>4, <1>5, <1>6, <1>7, Zenon DEF VInv

\* A campaign begins with what prepare_test finds, and forgets the one before.
LEMMA PrepareRight ==
  ASSUME Typed, prepare_test, UNCHANGED <<config, contract>>
  PROVE  RunRight' /\ ErrorRight' /\ TargetsRight'
<1> DEFINE e == [kind |-> "BrokenInvariant", calls |-> <<>>, cause |-> "setup"]
           error == IF contract.setup \in contract.holds THEN None ELSE e
<1>1. /\ failures' = [NoFailures EXCEPT !.error = error]
      /\ targets' = contract.targets /\ cases' = 0 /\ phase' = "between"
      /\ seen' = [ok |-> {contract.setup}, ended |-> {}, reverted |-> FALSE]
  BY Zenon DEF prepare_test, call_invariant_function
<1>2. e.kind = "BrokenInvariant" /\ e.cause = "setup" /\ e # None
  <2>1. "setup" \in Causes /\ <<>> \in Seq(Calls)
    BY DEF Causes
  <2> QED BY <2>1, ErrorMade, Zenon
<1>3. seen'.ok = {contract.setup} /\ seen'.ended = {} /\ seen'.reverted = FALSE /\ IsSeen(seen')
  BY <1>1, Zenon DEF IsSeen
<1>4. AllRight' <=> contract.setup \in contract.holds
  BY <1>3, Zenon DEF AllRight
<1>5. failures'.reverts = 0 /\ failures'.error = error
  <2> HIDE DEF error
  <2> QED BY <1>1 DEF NoFailures
<1>6. failures'.reverts \in Nat /\ ~(failures'.reverts > 0)
  BY <1>5
<1>7. \/ contract.setup \in contract.holds /\ failures'.error = None
      \/ contract.setup \notin contract.holds /\ failures'.error = e
  BY <1>5, Zenon
<1> HIDE DEF e
<1>8. ErrorKnown' /\ NoErrorYet'
  <2>1. CASE contract.setup \in contract.holds /\ failures'.error = None
    BY <1>3, <1>4, <1>6, <2>1, Zenon DEF ErrorKnown, NoErrorYet
  <2>2. CASE contract.setup \notin contract.holds /\ failures'.error = e
    <3>1. /\ failures'.error # None /\ failures'.error.kind = "BrokenInvariant"
          /\ failures'.error.cause = "setup" /\ ~AllRight'
      BY <1>2, <1>4, <2>2, Zenon
    <3> QED BY <1>3, <1>6, <3>1, Zenon DEF ErrorKnown, NoErrorYet, Causes
  <2> QED BY <1>7, <2>1, <2>2, Zenon
<1>9. RunRight'
  <2>1. config.runs \in Nat
    BY ConfigNumbers, Zenon DEF Typed
  <2>2. cases' \in 0..config'.runs
    BY <1>1, <2>1
  <2> QED BY <1>1, <2>2, Zenon DEF RunRight
<1>10. ErrorRight'
  BY <1>1, <1>8, Zenon DEF ErrorRight
<1>11. TargetsRight'
  BY <1>1, Zenon DEF TargetsRight
<1> QED BY <1>9, <1>10, <1>11, Zenon

\* The round replays what was recorded, and reports it again.
LEMMA RoundBeginsRight ==
  ASSUME Typed, VInv, run_invariant_test, config' = config
  PROVE  VInv'
<1>1. phase = "idle" /\ UNCHANGED <<contract, file>>
  BY Zenon DEF run_invariant_test
<1>2. IsSeen(seen) /\ ResultRight
  BY Zenon DEF VInv, ErrorRight, ErrorKnown
<1>3. replay_recorded' <=> replay_recorded
  BY <1>1, Zenon DEF replay_recorded
<1>4. CASE finish("Skipped", <<>>, None) /\ UNCHANGED seen
  <2>1. result'.status = "Skipped"
    BY <1>1, <1>2, <1>4, Finished, Zenon
  <2>2. ~Reliable'
    BY <2>1, Zenon DEF Reliable
  <2>3. None # "replay"
    BY NoneNoName, Zenon
  <2> QED BY <1>1, <1>2, <1>4, <2>2, <2>3, Ended, Zenon
<1>5. CASE replay_recorded /\ finish("Failure", file, "replay") /\ UNCHANGED seen
  <2>1. /\ RunRight' /\ ErrorRight' /\ TargetsRight' /\ phase' = "idle"
        /\ result'.status = "Failure" /\ result'.cause = "replay"
    BY <1>1, <1>2, <1>5, Finished, Zenon
  <2>2. ~Reliable'
    BY <2>1, Zenon DEF Reliable
  <2>3. Judged'
    BY <2>1, Zenon DEF Judged
  <2>4. ResultRight'
    BY <1>3, <1>5, <2>1, <2>2, <2>3, Zenon DEF ResultRight
  <2> QED BY <2>1, <2>4, Zenon DEF VInv
<1>6. CASE prepare_test /\ (~replay_recorded \/ faults' = TRUE)
  <2>1. RunRight' /\ ErrorRight' /\ TargetsRight'
    BY <1>1, <1>6, PrepareRight, Zenon
  <2>2. phase' = "between" /\ UNCHANGED result
    BY <1>6, Zenon DEF prepare_test
  <2>3. result'.cause = "replay" \/ Reliable' => result.cause = "replay" \/ Reliable
    BY <1>1, <2>2, Zenon DEF Reliable, Plain
  <2>4. result.cause = "replay" \/ Reliable => result.status = "Failure" /\ replay_recorded
    BY <1>1, <1>2, Zenon DEF ResultRight
  <2>5. ResultRight'
    BY <1>6, <2>2, <2>3, <2>4, Zenon DEF ResultRight
  <2> QED BY <2>1, <2>5, Zenon DEF VInv
<1>7. CASE faults' = TRUE /\ finish("Failure", <<>>, "setup") /\ UNCHANGED seen
  <2>1. result'.counterexample = <<>>
    BY <1>1, <1>2, <1>7, Finished, Zenon
  <2>2. ~Reliable'
    BY <2>1, Zenon DEF Reliable
  <2> QED BY <1>1, <1>2, <1>7, <2>2, Ended, Zenon
<1> QED BY <1>4, <1>5, <1>6, <1>7, Zenon DEF run_invariant_test

\* No campaign has begun.
LEMMA InitRight == Init => VInv
<1> SUFFICES ASSUME Init PROVE VInv
  OBVIOUS
<1>1. /\ config \in Configs /\ phase = "idle" /\ failures = NoFailures /\ cases = 0
      /\ result = NoResult /\ seen = [ok |-> {}, ended |-> {}, reverted |-> FALSE]
  BY Zenon DEF Init
<1>2. NoResult.status = None /\ NoResult.cause = None /\ NoResult.sure = FALSE
  BY DEF NoResult
<1>3. result.status = None /\ result.cause = None /\ ~result.sure
  BY <1>1, <1>2, SMTT(60)
<1>4. ~Reliable /\ result.cause # "replay"
  BY <1>3, NoneNoName, Zenon DEF Reliable
<1>5. ResultRight
  BY <1>3, <1>4, Zenon DEF ResultRight, Judged
<1>6. failures.error = None /\ failures.reverts \in Nat
  BY <1>1 DEF NoFailures
<1>7. IsSeen(seen)
  BY <1>1, Zenon DEF IsSeen
<1>8. ErrorRight
  BY <1>1, <1>6, <1>7, Zenon DEF ErrorRight, ErrorKnown
<1>9. RunRight
  <2>1. config.runs \in Nat
    BY <1>1, ConfigNumbers, Zenon
  <2>2. cases \in 0..config.runs
    BY <1>1, <2>1
  <2> QED BY <1>1, <2>2, Zenon DEF RunRight
<1>10. TargetsRight
  BY <1>1, Zenon DEF TargetsRight
<1> QED BY <1>5, <1>8, <1>9, <1>10, Zenon DEF VInv

\* A step that changes nothing keeps the verdict.
LEMMA StutterRight ==
  ASSUME VInv, UNCHANGED vars
  PROVE  VInv'
<1>1. UNCHANGED <<config, contract, phase, file, failures, targets, run, cases,
                  shrinker, result, seen, faults>>
  BY Zenon DEF vars
<1>2. RunRight'
  BY <1>1, Zenon DEF VInv, RunRight, Known
<1>3. ErrorRight'
  BY <1>1, Zenon DEF VInv, ErrorRight, ErrorKnown, NoErrorYet, AllRight, Failing, IsSeen
<1>4. TargetsRight'
  BY <1>1, Zenon DEF VInv, TargetsRight
<1>5. ResultRight'
  BY <1>1, Zenon DEF VInv, ResultRight, Judged, AllRight, Failing, Reliable, Plain, replay_recorded
<1> QED BY <1>2, <1>3, <1>4, <1>5, Zenon DEF VInv

\* What a campaign keeps true of its run, of its errors, of its targets and of its
\* result, whatever is fuzzed, shrunk, killed or edited.
THEOREM VerdictInvariant == Spec => []VInv
<1>1. Init => VInv
  BY InitRight, Zenon
<1>2. IInv /\ VInv /\ [Next]_vars => VInv'
  <2> SUFFICES ASSUME IInv, VInv, [Next]_vars
               PROVE  VInv'
    OBVIOUS
  <2>0. Typed /\ ShrinksRight
    BY ShrunkRight, Zenon DEF IInv
  <2>1. CASE begin_run /\ config' = config
    BY <2>0, <2>1, BeginRight, Zenon
  <2>2. CASE reject_call /\ config' = config
    BY <2>0, <2>2, RejectRight, Zenon
  <2>3. CASE execute_call /\ config' = config
    BY <2>0, <2>3, ExecuteRight, Zenon
  <2>4. CASE call_fails /\ config' = config
    BY <2>0, <2>4, CallFailsRight, Zenon
  <2>5. CASE finish_run /\ config' = config
    BY <2>0, <2>5, FinishRunRight, Zenon
  <2>6. CASE report /\ config' = config
    BY <2>0, <2>6, ReportRight, Zenon
  <2>7. CASE shrink_sequence /\ config' = config
    BY <2>0, <2>7, ShrinkRight, Zenon
  <2>8. CASE persist_failure /\ config' = config
    BY <2>0, <2>8, PersistRight, Zenon
  <2>9. CASE run_invariant_test /\ config' = config
    BY <2>0, <2>9, RoundBeginsRight, Zenon
  <2>10. CASE (kill \/ edit) /\ config' = config
    BY <2>0, <2>10, OutsideRight, Zenon
  <2>11. CASE UNCHANGED vars
    BY <2>11, StutterRight, Zenon
  <2> QED BY <2>1, <2>2, <2>3, <2>4, <2>5, <2>6, <2>7, <2>8, <2>9, <2>10, <2>11, Zenon
          DEF Next, Round
<1> QED BY <1>1, <1>2, ShrinkerInvariant, PTL DEF Spec

\* A test passes exactly when invariant_fuzz made all its runs and nothing any of them
\* met was wrong; each run starts from the targets that prepare_test selected; and the
\* calls that are shown for a reliable failure break the invariant.
THEOREM VerdictIsRight == Spec => []VerdictRight
<1>1. IInv /\ VInv => VerdictRight
  <2> SUFFICES ASSUME IInv, VInv PROVE VerdictRight
    OBVIOUS
  <2>0. contract \in Contracts /\ TargetsRight /\ ResultRight
    BY Zenon DEF IInv, Typed, VInv
  <2>1. (/\ phase = "between"
         /\ \A f \in DOMAIN contract.touches : contract.touches[f] \cap contract.targets = {})
        => targets = contract.targets
    BY <2>0, Zenon DEF TargetsRight
  <2>2. phase = "idle" => Judged
    BY <2>0, Zenon DEF ResultRight
  <2>3. phase = "idle" /\ Reliable => Breaks(result.counterexample)
    <3> SUFFICES ASSUME phase = "idle", Reliable PROVE Breaks(result.counterexample)
      OBVIOUS
    <3>1. Failing(result.counterexample) /\ Plain
      BY <2>0, Zenon DEF ResultRight, Reliable
    <3>2. /\ result.counterexample \in Seq(DOMAIN contract.step)
          /\ ~check_sequence(contract, config.fail_on_revert, result.counterexample)
      BY <3>1, Zenon DEF Failing
    <3> QED BY <2>0, <3>1, <3>2, FailsBreaks, Zenon
  <2> QED BY <2>1, <2>2, <2>3, Zenon DEF VerdictRight, Judged, AllRight
<1> QED BY <1>1, ShrinkerInvariant, VerdictInvariant, PTL

\* The status that the end of a round gives.
LEMMA StatusGiven ==
  ASSUME NEW status, NEW counterexample, NEW cause, finish(status, counterexample, cause)
  PROVE  result'.status = status
BY DEF finish

\* What run_invariant_test records for a failure that can be relied on is found again
\* by every round that follows, until the contracts are edited.
THEOREM FailureFoundAgain == Spec => FoundAgain
<1>1. VInv /\ [Next]_vars =>
        [result.cause = "replay" \/ Reliable
           => result'.status # "Success" \/ faults']_vars
  <2> SUFFICES ASSUME VInv, Next, result.cause = "replay" \/ Reliable
               PROVE  result'.status # "Success" \/ faults'
    BY Zenon
  <2>1. result.status = "Failure" /\ (phase # "idle" => faults)
    BY Zenon DEF VInv, ResultRight
  <2>2. CASE result' = result
    BY <2>1, <2>2, Zenon
  <2>3. CASE result' = NoResult
    <3>1. NoResult.status = None
      BY DEF NoResult
    <3> QED BY <2>3, <3>1, NoneNoName, Zenon
  <2>4. CASE \E counterexample, cause : finish("Failure", counterexample, cause)
    BY <2>4, StatusGiven, Zenon
  <2>5. CASE finish("Skipped", <<>>, None)
    BY <2>5, StatusGiven, Zenon
  <2>6. CASE report
    <3>1. CASE failures.error = None /\ NoFault
      <4>1. phase # "idle"
        BY <2>6, Zenon DEF report
      <4> QED BY <2>1, <3>1, <4>1, Zenon DEF NoFault
    <3> QED BY <2>2, <2>4, <2>6, <3>1, Zenon DEF report
  <2>7. CASE run_invariant_test
    BY <2>2, <2>4, <2>5, <2>7, Zenon DEF run_invariant_test, prepare_test
  <2>8. CASE persist_failure
    BY <2>4, <2>8, Zenon DEF persist_failure
  <2>9. CASE begin_run \/ reject_call \/ execute_call \/ call_fails \/ finish_run \/ shrink_sequence
    <3>1. result' = result
      BY <2>9, Zenon DEF begin_run, reject_call, execute_call, call_fails, finish_run,
        shrink_sequence
    <3> QED BY <2>2, <3>1, Zenon
  <2>10. CASE kill \/ edit
    BY <2>3, <2>10, Zenon DEF kill, edit
  <2> QED BY <2>6, <2>7, <2>8, <2>9, <2>10, Zenon DEF Next, Round
<1> QED BY <1>1, VerdictInvariant, PTL DEF Spec, FoundAgain

=============================================================================
