---------------------------- MODULE Cheatcodes ----------------------------
(***************************************************************************)
(* The cheatcodes whose effect spans several calls of a test or script      *)
(* (crates/cheatcodes): pranks and broadcasts, which change the sender of   *)
(* the calls that follow; expectRevert, expectCall and expectEmit, which    *)
(* are settled by later calls and at the end; and the recording of state    *)
(* differences.  The inspector sees the start and the end of every call and *)
(* creation (inspector.rs: call, call_end, create, create_end).             *)
(*                                                                          *)
(* The contracts are any code: a frame calls, creates, emits, uses          *)
(* cheatcodes and returns or reverts in any order, and goes on or not       *)
(* after a call that failed.                                                *)
(***************************************************************************)
EXTENDS Naturals, Sequences, FiniteSets

CONSTANTS
    Test, Callee,   \* the test contract, and a contract it calls
    Created,        \* any contract that a frame creates
    Sender,         \* tx.origin of the test
    Pranked,        \* msg.sender, and tx.origin, of a prank
    Signer,         \* the sender of broadcast transactions
    Logs,           \* <<event, data>>
    Suites,         \* the sets of cheatcodes that tests use together
    None,
    MaxDepth, MaxOps

Contracts == {Test, Callee}
Address == {Test, Callee, Created, Sender, Pranked, Signer}

\* The structs Prank and Broadcast.
Prank == [prank_caller : Address, prank_origin : Address,
          new_origin : Address \cup {None}, depth : Nat,
          single_call : BOOLEAN, used : BOOLEAN]
Broadcast == [original_caller : Address, original_origin : Address, depth : Nat,
              single_call : BOOLEAN]

\* None, of an Option, is none of the values that it may hold.
ASSUME CheatcodesAssumption ==
    /\ Cardinality(Address) = 6
    /\ None \notin Nat \cup Logs \cup Address \cup Prank \cup Broadcast
    /\ {MaxDepth, MaxOps} \subseteq Nat

VARIABLES
    uses,               \* one of Suites
    stack,              \* the frames that are running
    origin,             \* env.tx.caller
    prank, broadcast,
    expected_revert,
    expected_calls,     \* the expectation for Callee, and how often it was called
    expected_emits,
    mocked,             \* how mocked calls to Callee end, or None
    recorded,           \* recorded_account_diffs_stack: its length, or None
    txs,                \* broadcastable_transactions: their nonces
    called, created,    \* the Signer's nonce: counted for calls, for creations
    verdict,
    ops,
    \* History, read by properties only.
    hits,               \* calls whose sender the prank or broadcast changed
    handed,             \* one was stopped or replaced below its own depth
    lost,               \* a frame reverted in which a creation was broadcast
    declared,           \* the logs expected so far, and whether they came
    swallowed,          \* the test's own revert was the expected one
    early               \* recording began or ended below the root frame, or a
                        \* call that is not recorded was made before any other

cheats == <<prank, broadcast, expected_revert, expected_calls, expected_emits,
            mocked, recorded>>
history == <<hits, handed, lost, declared, swallowed, early>>
evm == <<stack, origin, txs, called, created, verdict>>
vars == <<uses, stack, origin, cheats, txs, called, created, verdict, ops, history>>

Depth == Len(stack)
Top == stack[Depth]
Nonce == called + created

Frame(target, kind, static, nonce) ==
    [target |-> target, kind |-> kind, static |-> static, created |-> nonce]

\* The root call of the test.
Init ==
    /\ uses \in Suites
    /\ stack = <<Frame(Test, "call", FALSE, 0)>>
    /\ origin = Sender
    /\ prank = None /\ broadcast = None
    /\ expected_revert = None /\ expected_calls = None /\ expected_emits = << >>
    /\ mocked = None /\ recorded = None
    /\ txs = << >> /\ called = 0 /\ created = 0
    /\ verdict = "running"
    /\ ops = 0
    /\ hits = 0 /\ handed = FALSE /\ lost = FALSE /\ declared = << >>
    /\ swallowed = FALSE /\ early = FALSE

Step(name) ==
    /\ verdict = "running"
    /\ name \in uses
    /\ ops < MaxOps
    /\ ops' = ops + 1
    /\ UNCHANGED uses

---------------------------------------------------------------------------
(* The end of a cheatcode call: call_end with cheatcode_call. *)

\* Any cheatcode call settles the expectation that a cheatcode reverts.
after_cheatcode(er) ==
    IF er # None /\ er.kind = "cheatcode" /\ Depth <= er.depth THEN None ELSE er

EndCheatcode == expected_revert' = after_cheatcode(expected_revert)

---------------------------------------------------------------------------
(* Pranks and broadcasts. *)

\* vm.prank and vm.startPrank, with tx.origin or without it.
prank_call(single, with_origin) ==
    LET allowed == /\ prank # None => prank.used /\ single = prank.single_call
                   /\ broadcast = None
    IN  /\ Step("prank")
        /\ prank' = IF ~allowed THEN prank
                    ELSE [prank_caller |-> Top.target, prank_origin |-> origin,
                          new_origin |-> IF with_origin THEN Pranked ELSE None,
                          depth |-> Depth, single_call |-> single, used |-> FALSE]
        /\ hits' = IF allowed THEN 0 ELSE hits
        /\ handed' = (handed \/ (allowed /\ prank # None /\ Depth # prank.depth))
        /\ EndCheatcode
        /\ UNCHANGED <<evm, broadcast, expected_calls, expected_emits, mocked, recorded,
                       lost, declared, swallowed, early>>

stopPrank ==
    /\ Step("prank")
    /\ prank' = None
    /\ handed' = (handed \/ (prank # None /\ Depth # prank.depth))
    /\ EndCheatcode
    /\ UNCHANGED <<evm, broadcast, expected_calls, expected_emits, mocked, recorded,
                   hits, lost, declared, swallowed, early>>

\* vm.broadcast and vm.startBroadcast.
broadcast_call(single) ==
    LET allowed == prank = None /\ broadcast = None
    IN  /\ Step("broadcast")
        /\ broadcast' = IF ~allowed THEN broadcast
                        ELSE [original_caller |-> Top.target, original_origin |-> origin,
                              depth |-> Depth, single_call |-> single]
        /\ hits' = IF allowed THEN 0 ELSE hits
        /\ EndCheatcode
        /\ UNCHANGED <<evm, prank, expected_calls, expected_emits, mocked, recorded,
                       handed, lost, declared, swallowed, early>>

stopBroadcast ==
    /\ Step("broadcast")
    /\ broadcast' = None
    /\ handed' = (handed \/ (broadcast # None /\ Depth # broadcast.depth))
    /\ EndCheatcode
    /\ UNCHANGED <<evm, prank, expected_calls, expected_emits, mocked, recorded, hits,
                   lost, declared, swallowed, early>>

---------------------------------------------------------------------------
(* Expectations, mocks and recording. *)

\* vm.expectRevert, and vm._expectCheatcodeRevert, whose own end of call
\* clears pending_processing.
expect_revert(kind) ==
    /\ Step("expectRevert")
    /\ expected_revert' = IF expected_revert # None THEN after_cheatcode(expected_revert)
                          ELSE [depth |-> Depth, kind |-> kind]
    /\ UNCHANGED <<evm, prank, broadcast, expected_calls, expected_emits, mocked,
                   recorded, history>>

\* vm.expectCall: with a count it is set once and exact, without one every
\* call asks for one more.
expect_call(call_type, count) ==
    /\ Step("expectCall")
    /\ expected_calls' =
            CASE expected_calls = None ->
                    [call_type |-> call_type, count |-> count, actual |-> 0]
              [] expected_calls # None /\ call_type = "NonCount"
                 /\ expected_calls.call_type = "NonCount" ->
                    [expected_calls EXCEPT !.count = @ + 1]
              [] OTHER -> expected_calls
    /\ EndCheatcode
    /\ UNCHANGED <<evm, prank, broadcast, expected_emits, mocked, recorded, history>>

\* vm.expectEmit: the log that is expected is the next one emitted.
expect_emit ==
    /\ Step("expectEmit")
    /\ expected_emits' = Append(expected_emits,
            [depth |-> Depth, log |-> None, found |-> FALSE, nr |-> Len(declared) + 1])
    /\ declared' = Append(declared, [log |-> None, came |-> FALSE])
    /\ EndCheatcode
    /\ UNCHANGED <<evm, prank, broadcast, expected_calls, mocked, recorded, hits,
                   handed, lost, swallowed, early>>

\* vm.mockCall and vm.mockCallRevert, and vm.clearMockedCalls.
mock_call(ret_type) ==
    /\ Step("mockCall")
    /\ mocked' = ret_type
    /\ EndCheatcode
    /\ UNCHANGED <<evm, prank, broadcast, expected_calls, expected_emits, recorded,
                   history>>

\* vm.startStateDiffRecording and vm.stopAndReturnStateDiff both leave an
\* empty stack: neither ends the recording.
record ==
    /\ Step("record")
    /\ recorded' = 0
    /\ early' = (early \/ Depth > 1)
    /\ EndCheatcode
    /\ UNCHANGED <<evm, prank, broadcast, expected_calls, expected_emits, mocked, hits,
                   handed, lost, declared, swallowed>>

---------------------------------------------------------------------------
(* Logs: handle_expect_emit. *)

\* The expectation e once `log` was compared with it.
checked(e, log) == IF e.log[1] = log[1] THEN [e EXCEPT !.found = (e.log = log)] ELSE e

handle_expect_emit(log) ==
    LET q == expected_emits
        fill == \E i \in DOMAIN q : q[i].log = None
        e == IF fill THEN q[Len(q)] ELSE Head(q)
        rest == IF fill THEN SubSeq(q, 1, Len(q) - 1) ELSE Tail(q)
    IN  CASE \A i \in DOMAIN q : q[i].found -> q
          [] ~(\A i \in DOMAIN q : q[i].found) /\ e.log = None ->
                Append(rest, [e EXCEPT !.log = log])
          [] OTHER -> LET c == checked(e, log)
                      IN  IF c.found THEN Append(rest, c) ELSE <<c>> \o rest

Emit(log) ==
    /\ Step("expectEmit")
    /\ ~Top.static
    /\ expected_emits' = handle_expect_emit(log)
    /\ declared' = [i \in DOMAIN declared |->
            LET filled == \E j \in DOMAIN expected_emits' :
                            expected_emits'[j].nr = i /\ expected_emits'[j].log # None
            IN  IF declared[i].log # None
                THEN [declared[i] EXCEPT !.came = @ \/ declared[i].log = log]
                ELSE [declared[i] EXCEPT !.log = IF filled THEN log ELSE None]]
    /\ UNCHANGED <<evm, prank, broadcast, expected_revert, expected_calls, mocked,
                   recorded, hits, handed, lost, swallowed, early>>

---------------------------------------------------------------------------
(* The start of a call: the inspector's `call`. *)

count_call(target) ==
    expected_calls' = IF expected_calls = None \/ target # Callee THEN expected_calls
                      ELSE [expected_calls EXCEPT !.actual = @ + 1]

pranked == prank # None /\ Depth >= prank.depth /\ Top.target = prank.prank_caller
broadcasts(at_depth) == /\ broadcast # None
                        /\ Top.target = broadcast.original_caller
                        /\ at_depth

\* A prank counts as used once a call was made under it; a creation does not count.
apply_prank(of_call) ==
    LET applied == pranked /\ (Depth = prank.depth \/ prank.new_origin # None)
    IN  prank' = IF of_call /\ applied THEN [prank EXCEPT !.used = TRUE] ELSE prank

\* How often the sender was changed by the prank or broadcast in force.
Hit == hits' = IF \/ pranked /\ Depth = prank.depth
                  \/ broadcasts(Depth = broadcast.depth)
               THEN hits + 1 ELSE hits

NewOrigin(broadcasting) ==
    origin' = CASE pranked /\ prank.new_origin # None -> prank.new_origin
                [] ~pranked /\ broadcasting -> Signer
                [] OTHER -> origin

push_recorded == recorded' = IF recorded = None THEN None ELSE recorded + 1

\* Mutant: the nonce is left to the EVM, as for creations.
collect_uncounted == txs' = Append(txs, Nonce) /\ called' = called

\* A call becomes a transaction, and the nonce is incremented outside the journal.
collect == txs' = Append(txs, Nonce) /\ called' = called + 1

\* A static frame makes static calls only.
StaticCall(static) == static \in IF Top.static THEN {TRUE} ELSE {FALSE, "static" \in uses}
mocks(target) == mocked # None /\ target = Callee
refuses(static) == /\ broadcasts(Depth = broadcast.depth)
                   /\ static /\ broadcast.single_call

call(target, static) ==
    LET broadcasting == broadcasts(Depth = broadcast.depth)
    IN  /\ Step("call")
        /\ Depth < MaxDepth
        /\ StaticCall(static)
        /\ ~mocks(target) /\ ~refuses(static)
        /\ count_call(target)
        /\ apply_prank(TRUE)
        /\ Hit
        /\ NewOrigin(broadcasting)
        /\ IF broadcasting /\ ~static THEN collect ELSE UNCHANGED <<txs, called>>
        /\ push_recorded
        /\ stack' = Append(stack, Frame(target, "call", static, created))
        /\ UNCHANGED <<created, broadcast, expected_revert, expected_emits, mocked, verdict,
                       handed, lost, declared, swallowed, early>>

\* The creation of a contract; the EVM, not the inspector, counts its nonce.
create ==
    LET broadcasting == broadcasts(Depth >= broadcast.depth)
        recorded_tx == broadcasts(Depth = broadcast.depth)
        nonce == IF recorded_tx THEN created + 1 ELSE created
    IN  /\ Step("create")
        /\ Depth < MaxDepth
        /\ ~Top.static
        /\ apply_prank(FALSE)
        /\ Hit
        /\ NewOrigin(broadcasting)
        /\ txs' = IF recorded_tx THEN Append(txs, Nonce) ELSE txs
        /\ created' = nonce
        /\ push_recorded
        /\ stack' = Append(stack, Frame(Created, "create", FALSE, nonce))
        /\ UNCHANGED <<called, broadcast, expected_revert, expected_calls, expected_emits,
                       mocked, verdict, handed, lost, declared, swallowed, early>>

---------------------------------------------------------------------------
(* The end of a call or creation, back at depth d: call_end, create_end. *)

\* Mutant: a single-call prank is removed only when it is marked as used.
clean_up_used(d) ==
    LET over(x) == x # None /\ x.depth = d
    IN  /\ origin' = CASE over(prank) -> prank.prank_origin
                       [] over(broadcast) -> broadcast.original_origin
                       [] OTHER -> origin
        /\ prank' = IF over(prank) /\ prank.single_call /\ prank.used THEN None ELSE prank
        /\ broadcast' = IF over(broadcast) /\ broadcast.single_call THEN None ELSE broadcast

clean_up(d) ==
    LET over(x) == x # None /\ x.depth = d
    IN  /\ origin' = CASE over(prank) -> prank.prank_origin
                       [] over(broadcast) -> broadcast.original_origin
                       [] OTHER -> origin
        /\ prank' = IF over(prank) /\ prank.single_call THEN None ELSE prank
        /\ broadcast' = IF over(broadcast) /\ broadcast.single_call THEN None ELSE broadcast

reverts(d) == /\ expected_revert # None
              /\ expected_revert.kind = "default"
              /\ d <= expected_revert.depth

\* Mutant: the last vector is not pushed back.
pop_recorded_all(d) == IF recorded = None \/ d = 0 THEN recorded ELSE recorded - 1

pop_recorded(d) == IF recorded = None \/ d = 0 \/ recorded = 1 THEN recorded ELSE recorded - 1

\* The last checks of the root call.
calls_met == \/ expected_calls = None
             \/ expected_calls.call_type = "Count" /\ expected_calls.count = expected_calls.actual
             \/ expected_calls.call_type = "NonCount" /\ expected_calls.count <= expected_calls.actual

\* Mutant: one matched log is enough.
emits_met_one(q) == q = << >> \/ \E i \in DOMAIN q : q[i].found

emits_met(q) == \A i \in DOMAIN q : q[i].found

Verdict(d, ok) == verdict' = IF d > 0 THEN "running" ELSE IF ok THEN "ok" ELSE "fail"

\* The expected revert is handled first, and then nothing else is.
end_expected(status, d) ==
    /\ reverts(d)
    /\ expected_revert' = None
    /\ Verdict(d, status = "revert")
    /\ swallowed' = (swallowed \/ d = 0)
    /\ UNCHANGED <<expected_emits, recorded>>

end_missing(d) ==
    /\ ~reverts(d)
    /\ recorded = 0 /\ d > 0
    /\ verdict' = "panic"
    /\ UNCHANGED <<expected_revert, expected_emits, recorded, swallowed>>

end_other(kind, static, status, d) ==
    LET q == expected_emits
        check == kind = "call" /\ ~static /\ \E i \in DOMAIN q : q[i].depth = d
        matched == emits_met(q)
    IN  /\ ~reverts(d)
        /\ ~(recorded = 0 /\ d > 0)
        /\ recorded' = pop_recorded(d)
        /\ expected_emits' = IF check /\ matched THEN << >> ELSE q
        /\ Verdict(d, status = "ok" /\ calls_met /\ matched)
        /\ UNCHANGED <<expected_revert, swallowed>>

End(kind, static, status, d) ==
    /\ clean_up(d)
    /\ \/ end_expected(status, d)
       \/ end_missing(d)
       \/ end_other(kind, static, status, d)

\* The top frame returns or reverts, for the reason expected or another.
Return(status) ==
    /\ Step("call")
    /\ status = "other" => expected_revert # None
    /\ stack' = SubSeq(stack, 1, Depth - 1)
    /\ created' = IF status = "ok" THEN created ELSE Top.created
    /\ lost' = (lost \/ created' # created)
    /\ End(Top.kind, Top.static, status, Depth - 1)
    /\ UNCHANGED <<txs, called, expected_calls, mocked, hits, handed, declared, early>>

\* A call answered by the inspector itself: a mocked one, or a static one
\* under vm.broadcast.
answered_call(target, static) ==
    /\ Step("call")
    /\ StaticCall(static)
    /\ mocks(target) \/ refuses(static)
    /\ count_call(target)
    /\ End("call", static, IF mocks(target) THEN mocked ELSE "revert", Depth)
    /\ early' = (early \/ recorded = 0)
    /\ UNCHANGED <<stack, txs, called, created, mocked, hits, handed, lost, declared>>

Next ==
    \/ \E single \in BOOLEAN :
          \/ \E with_origin \in BOOLEAN : prank_call(single, with_origin)
          \/ broadcast_call(single)
    \/ stopPrank
    \/ stopBroadcast
    \/ \E kind \in {"default", "cheatcode"} : expect_revert(kind)
    \/ expect_call("NonCount", 1)
    \/ \E count \in 0..1 : expect_call("Count", count)
    \/ expect_emit
    \/ \E log \in Logs : Emit(log)
    \/ \E ret_type \in {"ok", "revert", None} : mock_call(ret_type)
    \/ record
    \/ \E target \in Contracts, static \in BOOLEAN : call(target, static)
    \/ \E target \in Contracts, static \in BOOLEAN : answered_call(target, static)
    \/ create
    \/ \E status \in {"ok", "revert", "other"} : Return(status)

Spec == Init /\ [][Next]_vars

---------------------------------------------------------------------------
(* Properties. *)

\* A prank or broadcast for a single call changes the sender of one call or
\* creation, and is gone once that has ended (prank.rs, script.rs; cleaned up
\* in call_end and create_end).  And when only the test's own frame is left and
\* no prank or broadcast is in force, tx.origin is the test's sender again,
\* unless a frame stopped or replaced a prank or broadcast that another one had
\* set (call_end restores it; stopPrank and stopBroadcast do not).
PranksEnd ==
    /\ \A x \in {prank, broadcast} :
          x # None /\ x.single_call /\ hits > 0 => hits = 1 /\ Depth > x.depth
    /\ Depth = 1 /\ prank = None /\ broadcast = None /\ ~handed => origin = Sender

\* The transactions collected for broadcasting have the sender's nonces
\* 0, 1, 2, ... in order, though calls and creations count them in different
\* ways, unless a frame reverted that had broadcast a creation
\* (inspector.rs: the nonce incremented by `call` is not journaled).
NoncesFollow == ~lost => \A i \in DOMAIN txs : txs[i] = i - 1

\* A test that passes without having reverted itself has met every
\* expectation: each expected log was emitted after it was declared, the
\* expected calls were made, no expected revert is outstanding.
ExpectationsMet ==
    verdict = "ok" /\ ~swallowed =>
        /\ \A i \in DOMAIN declared : declared[i].came
        /\ calls_met
        /\ ~reverts(0)

\* call_end and create_end find the accesses that call and create pushed
\* ("missing CALL account accesses"), as long as recording starts and stops
\* in the root frame and the first call made while recording is recorded.
RecorderSafe == verdict = "panic" => early

\* "If the amount of calls is 0, the test will fail." (expect.rs)
ExpectedCallMade ==
    verdict = "ok" /\ expected_calls # None /\ expected_calls.call_type = "NonCount" =>
        expected_calls.actual > 0

===========================================================================
