-------------------------- MODULE MCInvariantTest --------------------------
EXTENDS InvariantTest, TLC

ok(s) == [to |-> s, how |-> "ok"]
failed(s) == [to |-> s, how |-> "failed"]
revert(s) == [to |-> s, how |-> "revert"]
assume(s) == [to |-> s, how |-> "assume"]

Table(a, b, c) == (0 :> a) @@ (1 :> b) @@ (2 :> c)

\* What a function may do in states 0, 1 and 2; the invariant is broken in 2.
Tables ==
  {Table(a, b, c) : a \in {ok(0), ok(1), revert(0), assume(0)},
                    b \in {ok(0), ok(2), revert(1), failed(1), assume(1)},
                    c \in {ok(2), ok(0)}}

base == [setup |-> 0, holds |-> {0, 1}, after_holds |-> {0, 1, 2},
         call_after_invariant |-> FALSE, skip |-> FALSE, is_updatable |-> TRUE,
         address |-> [f |-> "A", g |-> "B", k |-> "K"],
         touches |-> [f |-> {}, g |-> {}, k |-> {}],
         targets |-> {"A", "B"}, step |-> <<>>]

still == Table(ok(0), ok(1), ok(2))
grows == Table(ok(1), ok(2), ok(2))

With(f, g, k) == [base EXCEPT !.step = [f |-> f, g |-> g, k |-> k]]

\* Two functions, the first one of a few, the second any.
fuzzed == {With(f, g, still) : f \in {grows, Table(ok(1), revert(1), ok(2)),
                                      Table(assume(0), failed(1), ok(2))},
                               g \in Tables}

\* f creates K, whose function breaks the invariant; g reverts.
creating == [With(Table(ok(1), ok(1), ok(2)), Table(revert(0), ok(1), ok(2)),
                  Table(ok(0), ok(2), ok(2)))
             EXCEPT !.touches = [f |-> {"K"}, g |-> {}, k |-> {}]]

MC_Contracts ==
  fuzzed
  \cup {creating, [creating EXCEPT !.is_updatable = FALSE],
        [creating EXCEPT !.call_after_invariant = TRUE, !.after_holds = {0, 2}],
        [creating EXCEPT !.call_after_invariant = TRUE, !.after_holds = {1, 2}],
        [creating EXCEPT !.holds = {1}], [creating EXCEPT !.skip = TRUE]}

usual == [runs |-> 2, depth |-> 2, fail_on_revert |-> FALSE, shrink_run_limit |-> 4,
          max_assume_rejects |-> 1, faulty |-> FALSE, killed |-> FALSE,
          edits |-> {}, rounds |-> 2]

MC_Configs ==
  {usual, [usual EXCEPT !.fail_on_revert = TRUE],
   [usual EXCEPT !.runs = 1, !.depth = 3],
   [usual EXCEPT !.runs = 1, !.depth = 3, !.fail_on_revert = TRUE],
   [usual EXCEPT !.shrink_run_limit = 2, !.faulty = TRUE, !.runs = 1],
   [usual EXCEPT !.killed = TRUE, !.edits = {creating}, !.runs = 1,
                !.rounds = 3]}
=============================================================================
