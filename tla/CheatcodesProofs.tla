------------------------- MODULE CheatcodesProofs -------------------------
(***************************************************************************)
(* The cheatcodes of a test (Cheatcodes), for any depth of calls, any      *)
(* number of cheatcodes and any set of logs.                               *)
(*                                                                         *)
(* Four properties, with an invariant each over the common types. A prank  *)
(* or broadcast of a single call that was hit has its call on the stack,   *)
(* and tx.origin differs from the test's sender only above the depth of    *)
(* what is in force (PranksInv). The collected transactions are as many as *)
(* the sender's nonce (NoncesInv). handle_expect_emit takes an expectation *)
(* off one end of the queue and puts it back at one of the two ends, so    *)
(* each expectation of the test keeps one entry, with its log (EmitsInv):  *)
(* what the check at the end of the root call finds in the queue is what   *)
(* the test declared. While accesses are recorded from the root frame on,  *)
(* the stack of recorded accesses is empty only there (RecorderInv).       *)
(***************************************************************************)
EXTENDS Cheatcodes, SequenceTheorems, TLAPS

-----------------------------------------------------------------------------
(* Type correctness *)

\* What the inspector keeps of a frame, of a log expected, and of the expectations
\* the test declared.
Frames == [target : Address, kind : {"call", "create"}, static : BOOLEAN, created : Nat]
Expected == [depth : Nat, log : Logs \cup {None}, found : BOOLEAN, nr : Nat]
Declared == [log : Logs \cup {None}, came : BOOLEAN]

\* What the inspector's fields hold; the test runs while a frame is left.
Types ==
  /\ stack \in Seq(Frames)
  /\ origin \in Address
  /\ prank \in Prank \cup {None}
  /\ broadcast \in Broadcast \cup {None}
  /\ expected_emits \in Seq(Expected)
  /\ declared \in Seq(Declared)
  /\ recorded \in Nat \cup {None}
  /\ txs \in Seq(Nat)
  /\ called \in Nat /\ created \in Nat /\ hits \in Nat
  /\ handed \in BOOLEAN /\ lost \in BOOLEAN /\ swallowed \in BOOLEAN /\ early \in BOOLEAN
  /\ verdict = "running" => Depth > 0

-----------------------------------------------------------------------------
(* The inductive invariants *)

\* The nonces of the transactions collected so far are counted without a gap.
NoncesInv == ~lost => Len(txs) = Nonce /\ NoncesFollow

\* While recording began in the root frame, an empty stack of accesses is found
\* there only.
RecorderInv == ~early => verdict # "panic" /\ (recorded = 0 => Depth <= 1)

\* A prank or a broadcast is in force, not both; one for a single call has been hit
\* in the frame that is running or below it.
\* Below the depth of what is in force tx.origin may be changed; what is restored
\* in the end is the sender of the test.
Over(x) == x # None /\ Depth > x.depth

PranksInv ==
  /\ prank = None \/ broadcast = None
  /\ \A x \in {prank, broadcast} : x # None /\ x.single_call /\ hits > 0 => hits = 1 /\ Over(x)
  /\ ~handed =>
       /\ origin = Sender \/ Over(prank) \/ Over(broadcast)
       /\ prank # None => prank.prank_origin = Sender
       /\ broadcast # None => broadcast.original_origin = Sender

\* Every expectation of a log has an entry of its own, with the log it waits for; a
\* log that did not come leaves an entry that is not found.
EmitsInv ==
  /\ \A j, k \in DOMAIN expected_emits : expected_emits[j].nr = expected_emits[k].nr => j = k
  /\ \A j \in DOMAIN expected_emits :
       /\ expected_emits[j].nr \in DOMAIN declared
       /\ expected_emits[j].log = declared[expected_emits[j].nr].log
  /\ \A i \in DOMAIN declared : ~declared[i].came =>
       \E j \in DOMAIN expected_emits : expected_emits[j].nr = i /\ ~expected_emits[j].found

\* What was checked when the root call ended well.
VerdictInv ==
  verdict = "ok" /\ ~swallowed => emits_met(expected_emits) /\ calls_met /\ ~reverts(0)

-----------------------------------------------------------------------------
(* Frames and logs *)

\* A sequence without its last element.
Front(s) == SubSeq(s, 1, Len(s) - 1)

\* Its elements and its length.
LEMMA FrontProperties ==
  ASSUME NEW S, NEW s \in Seq(S), s # << >>
  PROVE  /\ Front(s) \in Seq(S) /\ Len(Front(s)) = Len(s) - 1
         /\ \A i \in 1 .. Len(s) - 1 : Front(s)[i] = s[i]
<1>1. PICK n \in Nat \ {0} : n = Len(s)
  BY EmptySeq
<1>2. \A i \in 1 .. n - 1 : s[i] \in S
  BY <1>1, ElementOfSeq
<1>3. /\ SubSeq(s, 1, n - 1) \in Seq(S)
      /\ Len(SubSeq(s, 1, n - 1)) = IF 1 <= n - 1 THEN (n - 1) - 1 + 1 ELSE 0
      /\ \A i \in 1 .. (n - 1) - 1 + 1 : SubSeq(s, 1, n - 1)[i] = s[1 + i - 1]
  <2>1. 1 \in Int /\ n - 1 \in Int
    OBVIOUS
  <2> QED BY <1>2, <2>1, SubSeqProperties
<1>4. PICK r : r = SubSeq(s, 1, n - 1)
  BY Zenon
<1>5. r \in Seq(S) /\ Len(r) = n - 1 /\ \A i \in 1 .. n - 1 : r[i] = s[i]
  BY <1>3, <1>4
<1> QED BY <1>1, <1>4, <1>5, Zenon DEF Front

\* An element put before a sequence.
LEMMA Prepended ==
  ASSUME NEW S, NEW c \in S, NEW s \in Seq(S)
  PROVE  /\ <<c>> \o s \in Seq(S) /\ Len(<<c>> \o s) = Len(s) + 1
         /\ \A i \in 1 .. Len(s) + 1 : (<<c>> \o s)[i] = IF i = 1 THEN c ELSE s[i - 1]
<1>1. <<c>> \in Seq(S) /\ Len(<<c>>) = 1 /\ <<c>>[1] = c /\ Len(s) \in Nat
  OBVIOUS
<1>2. PICK r : r = <<c>> \o s
  BY Zenon
<1>3. /\ r \in Seq(S) /\ Len(r) = Len(<<c>>) + Len(s)
      /\ \A i \in 1 .. Len(<<c>>) + Len(s) :
           r[i] = IF i <= Len(<<c>>) THEN <<c>>[i] ELSE s[i - Len(<<c>>)]
  BY <1>1, <1>2, ConcatProperties, Zenon
<1>4. PICK t : t = <<c>>
  BY Zenon
<1>5. /\ Len(r) = Len(s) + 1
      /\ \A i \in 1 .. Len(s) + 1 : r[i] = IF i = 1 THEN c ELSE s[i - 1]
  BY <1>1, <1>3, <1>4
<1> QED BY <1>2, <1>3, <1>5, Zenon

\* While the test runs there is a frame on top of the stack.
LEMMA Running ==
  ASSUME Types, verdict = "running"
  PROVE  Depth \in Nat \ {0} /\ Top \in Frames
<1>1. stack \in Seq(Frames) /\ Depth > 0 /\ Depth = Len(stack)
  BY Zenon DEF Types, Depth
<1>2. Depth \in Nat /\ Depth \in 1..Len(stack)
  BY <1>1
<1> QED BY <1>1, <1>2, ElementOfSeq, SMT DEF Top

\* A frame that is entered or left changes the depth by one.
LEMMA Pushed ==
  ASSUME Types, NEW f \in Frames, stack' = Append(stack, f)
  PROVE  stack' \in Seq(Frames) /\ Depth' = Depth + 1
BY DEF Types, Depth

\* Leaving one takes the top frame off.
LEMMA Popped ==
  ASSUME Types, verdict = "running", stack' = SubSeq(stack, 1, Depth - 1)
  PROVE  stack' \in Seq(Frames) /\ Depth' = Depth - 1
<1>1. stack \in Seq(Frames) /\ Depth \in Nat \ {0} /\ Depth = Len(stack)
  BY Running, Zenon DEF Types, Depth
<1>2. Front(stack) \in Seq(Frames) /\ Len(Front(stack)) = Len(stack) - 1
  <2>1. stack # << >>
    BY <1>1, EmptySeq
  <2> QED BY <1>1, <2>1, FrontProperties, Zenon
<1> QED BY <1>1, <1>2, Zenon DEF Depth, Front

\* A function that only reorders the positions 1..n.
Reorders(f, n) ==
  /\ f \in [1..n -> 1..n]
  /\ \A i, k \in 1..n : f[i] = f[k] => i = k
  /\ \A k \in 1..n : \E i \in 1..n : f[i] = k

\* The rotations of the positions 1..n.
Same(n) == [i \in 1..n |-> i]
LastFirst(n) == [i \in 1..n |-> IF i = 1 THEN n ELSE i - 1]
FirstLast(n) == [i \in 1..n |-> IF i = n THEN 1 ELSE i + 1]

\* Taking the first entry to the end or the last one to the front reorders a queue.
LEMMA Reorderings ==
  ASSUME NEW n \in Nat \ {0}
  PROVE  Reorders(Same(n), n) /\ Reorders(LastFirst(n), n) /\ Reorders(FirstLast(n), n)
<1>1. Reorders(Same(n), n)
  BY Zenon DEF Reorders, Same
<1>2. Reorders(LastFirst(n), n)
  <2>1. LastFirst(n) \in [1..n -> 1..n]
    BY DEF LastFirst
  <2>2. \A i \in 1..n : LastFirst(n)[i] = IF i = 1 THEN n ELSE i - 1
    BY Zenon DEF LastFirst
  <2>3. \A i, k \in 1..n : LastFirst(n)[i] = LastFirst(n)[k] => i = k
    BY <2>2
  <2>4. ASSUME NEW k \in 1..n PROVE \E i \in 1..n : LastFirst(n)[i] = k
    <3>1. k = n => 1 \in 1..n /\ LastFirst(n)[1] = k
      BY <2>2
    <3>2. k # n => k + 1 \in 1..n /\ LastFirst(n)[k + 1] = k
      BY <2>2
    <3> QED BY <3>1, <3>2, Zenon
  <2> QED BY <2>1, <2>3, <2>4, Zenon DEF Reorders
<1>3. Reorders(FirstLast(n), n)
  <2>1. FirstLast(n) \in [1..n -> 1..n]
    BY DEF FirstLast
  <2>2. \A i \in 1..n : FirstLast(n)[i] = IF i = n THEN 1 ELSE i + 1
    BY Zenon DEF FirstLast
  <2>3. \A i, k \in 1..n : FirstLast(n)[i] = FirstLast(n)[k] => i = k
    BY <2>2
  <2>4. ASSUME NEW k \in 1..n PROVE \E i \in 1..n : FirstLast(n)[i] = k
    <3>1. k = 1 => n \in 1..n /\ FirstLast(n)[n] = k
      BY <2>2
    <3>2. k # 1 => k - 1 \in 1..n /\ FirstLast(n)[k - 1] = k
      BY <2>2
    <3> QED BY <3>1, <3>2, Zenon
  <2> QED BY <2>1, <2>3, <2>4, Zenon DEF Reorders
<1> QED BY <1>1, <1>2, <1>3

\* r holds the entries of q in another order, with c in the place of the m-th.
Rotated(q, r, m, c) ==
  /\ r \in Seq(Expected) /\ Len(r) = Len(q) /\ m \in 1..Len(q)
  /\ \E f : /\ Reorders(f, Len(q))
            /\ \A i \in 1..Len(q) : r[i] = IF f[i] = m THEN c ELSE q[f[i]]

\* The ways in which an expectation is taken from the queue and put back.
LEMMA Rotations ==
  ASSUME NEW q \in Seq(Expected), q # << >>, NEW c \in Expected
  PROVE  /\ Rotated(q, Append(Front(q), c), Len(q), c)
         /\ Rotated(q, <<c>> \o Front(q), Len(q), c)
         /\ Rotated(q, Append(Tail(q), c), 1, c)
         /\ Rotated(q, <<c>> \o Tail(q), 1, c)
<1> DEFINE n == Len(q)
<1>1. n \in Nat \ {0} /\ 1 \in 1..n /\ n \in 1..n
  BY EmptySeq
<1>2. /\ Front(q) \in Seq(Expected) /\ Len(Front(q)) = n - 1
      /\ \A i \in 1 .. n - 1 : Front(q)[i] = q[i]
  BY FrontProperties, Zenon
<1>3. /\ Tail(q) \in Seq(Expected) /\ Len(Tail(q)) = n - 1
      /\ \A i \in 1 .. n - 1 : Tail(q)[i] = q[i + 1]
  BY <1>1
<1>4. Reorders(Same(n), n) /\ Reorders(LastFirst(n), n) /\ Reorders(FirstLast(n), n)
  BY <1>1, Reorderings
<1> HIDE DEF n
<1>5. Rotated(q, Append(Front(q), c), n, c)
  <2>1. PICK r : r = Append(Front(q), c)
    BY Zenon
  <2>2. r \in Seq(Expected) /\ Len(r) = n /\ r[n] = c
        /\ \A i \in 1 .. n - 1 : r[i] = Front(q)[i]
    BY <1>1, <1>2, <2>1, AppendProperties
  <2>3. \A i \in 1..n : r[i] = IF i = n THEN c ELSE q[i]
    BY <1>1, <1>2, <2>2
  <2>4. \A i \in 1..n : r[i] = IF Same(n)[i] = n THEN c ELSE q[Same(n)[i]]
    BY <2>3, Zenon DEF Same
  <2> QED BY <1>1, <1>4, <2>1, <2>2, <2>4, Zenon DEF Rotated, n
<1>6. Rotated(q, <<c>> \o Front(q), n, c)
  <2>1. PICK r : r = <<c>> \o Front(q)
    BY Zenon
  <2>2. r \in Seq(Expected) /\ Len(r) = n
        /\ \A i \in 1..n : r[i] = IF i = 1 THEN c ELSE Front(q)[i - 1]
    <3>1. /\ r \in Seq(Expected) /\ Len(r) = Len(Front(q)) + 1
          /\ \A i \in 1 .. Len(Front(q)) + 1 : r[i] = IF i = 1 THEN c ELSE Front(q)[i - 1]
      <4>1. Front(q) \in Seq(Expected)
        BY <1>2
      <4> QED BY <4>1, <2>1, Prepended
    <3>2. Len(Front(q)) + 1 = n
      BY <1>1, <1>2
    <3> QED BY <3>1, <3>2, Zenon
  <2>3. \A i \in 1..n : r[i] = IF i = 1 THEN c ELSE q[i - 1]
    BY <1>1, <1>2, <2>2
  <2>4. \A i \in 1..n : r[i] = IF LastFirst(n)[i] = n THEN c ELSE q[LastFirst(n)[i]]
    BY <1>1, <2>3 DEF LastFirst
  <2> QED BY <1>1, <1>4, <2>1, <2>2, <2>4, Zenon DEF Rotated, n
<1>7. Rotated(q, Append(Tail(q), c), 1, c)
  <2>1. PICK r : r = Append(Tail(q), c)
    BY Zenon
  <2>2. r \in Seq(Expected) /\ Len(r) = n /\ r[n] = c
        /\ \A i \in 1 .. n - 1 : r[i] = Tail(q)[i]
    BY <1>1, <1>3, <2>1, AppendProperties
  <2>3. \A i \in 1..n : r[i] = IF i = n THEN c ELSE q[i + 1]
    BY <1>1, <1>3, <2>2
  <2>4. \A i \in 1..n : r[i] = IF FirstLast(n)[i] = 1 THEN c ELSE q[FirstLast(n)[i]]
    BY <1>1, <2>3 DEF FirstLast
  <2> QED BY <1>1, <1>4, <2>1, <2>2, <2>4, Zenon DEF Rotated, n
<1>8. Rotated(q, <<c>> \o Tail(q), 1, c)
  <2>1. PICK r : r = <<c>> \o Tail(q)
    BY Zenon
  <2>2. r \in Seq(Expected) /\ Len(r) = n
        /\ \A i \in 1..n : r[i] = IF i = 1 THEN c ELSE Tail(q)[i - 1]
    <3>1. /\ r \in Seq(Expected) /\ Len(r) = Len(Tail(q)) + 1
          /\ \A i \in 1 .. Len(Tail(q)) + 1 : r[i] = IF i = 1 THEN c ELSE Tail(q)[i - 1]
      <4>1. Tail(q) \in Seq(Expected)
        BY <1>3
      <4> QED BY <4>1, <2>1, Prepended
    <3>2. Len(Tail(q)) + 1 = n
      BY <1>1, <1>3
    <3> QED BY <3>1, <3>2, Zenon
  <2>3. \A i \in 1..n : r[i] = IF i = 1 THEN c ELSE q[i]
    BY <1>1, <1>3, <2>2
  <2>4. \A i \in 1..n : r[i] = IF Same(n)[i] = 1 THEN c ELSE q[Same(n)[i]]
    BY <2>3, Zenon DEF Same
  <2> QED BY <1>1, <1>4, <2>1, <2>2, <2>4, Zenon DEF Rotated, n
<1> QED BY <1>5, <1>6, <1>7, <1>8 DEF n

\* handle_expect_emit leaves the queue alone, or compares the log with one of the
\* expectations or notes it there.
LEMMA Handled ==
  ASSUME NEW log \in Logs, expected_emits \in Seq(Expected),
         handle_expect_emit(log) # expected_emits
  PROVE  \E m \in DOMAIN expected_emits, c \in Expected :
            /\ Rotated(expected_emits, handle_expect_emit(log), m, c)
            /\ c.nr = expected_emits[m].nr
            /\ \/ /\ expected_emits[m].log = None /\ c.log = log
                  /\ c.found = expected_emits[m].found
               \/ /\ expected_emits[m].log # None /\ c.log = expected_emits[m].log
                  /\ c.found => expected_emits[m].found \/ c.log = log
<1>1. PICK q : q = expected_emits
  BY Zenon
<1> DEFINE fill == \E i \in DOMAIN q : q[i].log = None
           m == IF fill THEN Len(q) ELSE 1
           e == IF fill THEN q[Len(q)] ELSE Head(q)
           rest == IF fill THEN Front(q) ELSE Tail(q)
           c == IF e.log = None THEN [e EXCEPT !.log = log] ELSE checked(e, log)
<1>2. ~(\A i \in DOMAIN q : q[i].found)
  BY <1>1, Zenon DEF handle_expect_emit
<1>3. q \in Seq(Expected) /\ q # << >> /\ Len(q) \in Nat \ {0} /\ DOMAIN q = 1..Len(q)
  <2>1. q \in Seq(Expected) /\ DOMAIN q # {}
    BY <1>1, <1>2, Zenon
  <2> QED BY <2>1
<1>4. m \in DOMAIN q /\ e = q[m] /\ e \in Expected
  <2>1. m \in 1..Len(q)
    BY <1>3
  <2>2. e = q[m]
    BY <1>3
  <2>3. q[m] \in Expected
    BY <1>3, <2>1, ElementOfSeq
  <2> QED BY <1>3, <2>1, <2>2, <2>3
<1> HIDE DEF e
<1>5. /\ c \in Expected /\ c.nr = e.nr
      /\ e.log = None => c.log = log /\ c.found = e.found
      /\ e.log # None => c.log = e.log /\ (c.found => e.found \/ c.log = log)
  BY <1>4, Zenon DEF Expected, checked
<1> HIDE DEF c
<1>6. \/ handle_expect_emit(log) = Append(rest, c)
      \/ handle_expect_emit(log) = <<c>> \o rest
  BY <1>1, <1>2, Zenon DEF handle_expect_emit, c, e, Front
<1>7. Rotated(q, Append(rest, c), m, c) /\ Rotated(q, <<c>> \o rest, m, c)
  BY <1>3, <1>5, Rotations, Zenon
<1>8. Rotated(q, handle_expect_emit(log), m, c)
  BY <1>6, <1>7, Zenon
<1> HIDE DEF m
<1> QED BY <1>1, <1>4, <1>5, <1>8, Zenon

-----------------------------------------------------------------------------
(* Type correctness, step by step *)

\* The test starts in its root frame.
LEMMA InitTypes == Init => Types
<1> SUFFICES ASSUME Init PROVE Types
  OBVIOUS
<1>1. Frame(Test, "call", FALSE, 0) \in Frames
  BY DEF Frame, Frames, Address
<1>2. PICK f \in Frames : stack = <<f>>
  BY <1>1, Zenon DEF Init
<1>3. stack \in Seq(Frames) /\ Depth = 1
  BY <1>2 DEF Depth
<1>4. origin \in Address /\ 0 \in Nat
  BY Zenon DEF Init, Address
<1>5. expected_emits \in Seq(Expected) /\ declared \in Seq(Declared) /\ txs \in Seq(Nat)
  BY EmptySeq, Zenon DEF Init
<1>6. Depth > 0
  BY <1>3
<1> QED BY <1>3, <1>4, <1>5, <1>6, Zenon DEF Init, Types

\* A cheatcode leaves the frames and the transactions alone.
LEMMA CheatcodeTypes ==
  ASSUME Types, verdict = "running",
         UNCHANGED evm, UNCHANGED <<lost, swallowed>>,
         prank' \in Prank \cup {None}, broadcast' \in Broadcast \cup {None},
         expected_emits' \in Seq(Expected), declared' \in Seq(Declared),
         recorded' \in Nat \cup {None}, hits' \in Nat, handed' \in BOOLEAN, early' \in BOOLEAN
  PROVE  Types'
<1>1. /\ stack' = stack /\ origin' = origin /\ txs' = txs /\ called' = called
      /\ created' = created /\ verdict' = verdict /\ lost' = lost /\ swallowed' = swallowed
  BY Zenon DEF evm
<1>2. Depth' = Depth
  BY <1>1, Zenon DEF Depth
<1> QED BY <1>1, <1>2, Zenon DEF Types

\* prank and startPrank.
LEMMA PrankTypes ==
  ASSUME Types, NEW single \in BOOLEAN, NEW with_origin \in BOOLEAN,
         prank_call(single, with_origin)
  PROVE  Types'
<1>1. verdict = "running" /\ Depth \in Nat /\ Top \in Frames
  BY Running, Zenon DEF prank_call, Step
<1>2. PICK p : p = [prank_caller |-> Top.target, prank_origin |-> origin,
                    new_origin |-> IF with_origin THEN Pranked ELSE None,
                    depth |-> Depth, single_call |-> single, used |-> FALSE]
  BY Zenon
<1>3. p \in Prank
  BY <1>1, <1>2, ZenonT(60) DEF Prank, Types, Frames, Address
<1>4. prank' = prank \/ prank' = p
  BY <1>2, Zenon DEF prank_call
<1>5. hits' \in Nat /\ handed' \in BOOLEAN
  BY DEF prank_call, Types
<1>6. UNCHANGED <<broadcast, expected_emits, declared, recorded, early, lost, swallowed>>
      /\ UNCHANGED evm
  BY Zenon DEF prank_call
<1> QED BY <1>1, <1>3, <1>4, <1>5, <1>6, CheatcodeTypes, Zenon DEF Types

\* broadcast and startBroadcast.
LEMMA BroadcastTypes ==
  ASSUME Types, NEW single \in BOOLEAN, broadcast_call(single)
  PROVE  Types'
<1>1. verdict = "running" /\ Depth \in Nat /\ Top \in Frames
  BY Running, Zenon DEF broadcast_call, Step
<1>2. PICK b : b = [original_caller |-> Top.target, original_origin |-> origin,
                    depth |-> Depth, single_call |-> single]
  BY Zenon
<1>3. b \in Broadcast
  BY <1>1, <1>2, Zenon DEF Broadcast, Types, Frames
<1>4. broadcast' = broadcast \/ broadcast' = b
  BY <1>2, Zenon DEF broadcast_call
<1>5. hits' \in Nat
  BY DEF broadcast_call, Types
<1>6. UNCHANGED <<prank, expected_emits, declared, recorded, early, lost, swallowed, handed>>
      /\ UNCHANGED evm
  BY Zenon DEF broadcast_call
<1> QED BY <1>1, <1>3, <1>4, <1>5, <1>6, CheatcodeTypes, Zenon DEF Types

\* stopPrank and stopBroadcast.
LEMMA StopTypes ==
  ASSUME Types, stopPrank \/ stopBroadcast
  PROVE  Types'
<1>1. verdict = "running" /\ UNCHANGED evm
      /\ UNCHANGED <<expected_emits, declared, recorded, early, lost, swallowed, hits>>
  BY Zenon DEF stopPrank, stopBroadcast, Step
<1>2. prank' \in {prank, None} /\ broadcast' \in {broadcast, None}
  BY Zenon DEF stopPrank, stopBroadcast
<1>3. handed' \in BOOLEAN
  BY Zenon DEF stopPrank, stopBroadcast, Types
<1> QED BY <1>1, <1>2, <1>3, CheatcodeTypes, Zenon DEF Types

\* The cheatcodes that expect a revert or a call, mock a call or record accesses.
LEMMA ExpectTypes ==
  ASSUME Types,
         \/ \E kind \in {"default", "cheatcode"} : expect_revert(kind)
         \/ \E type \in {"Count", "NonCount"}, count \in 0..1 : expect_call(type, count)
         \/ \E ret_type \in {"ok", "revert", None} : mock_call(ret_type)
         \/ record
  PROVE  Types'
<1>1. verdict = "running" /\ UNCHANGED evm
      /\ UNCHANGED <<prank, broadcast, expected_emits, declared, lost, swallowed, hits, handed>>
  BY Zenon DEF expect_revert, expect_call, mock_call, record, Step, history
<1>2. recorded' \in {recorded, 0}
  BY Zenon DEF expect_revert, expect_call, mock_call, record
<1>3. early' \in BOOLEAN
  BY Zenon DEF expect_revert, expect_call, mock_call, record, history, Types
<1>4. recorded' \in Nat \cup {None}
  BY <1>2 DEF Types
<1> QED BY <1>1, <1>3, <1>4, CheatcodeTypes, Zenon DEF Types

\* expectEmit, and a log.
LEMMA EmitTypes ==
  ASSUME Types, expect_emit \/ \E log \in Logs : Emit(log)
  PROVE  Types'
<1>1. verdict = "running" /\ UNCHANGED evm /\ Depth \in Nat
      /\ UNCHANGED <<prank, broadcast, recorded, early, lost, swallowed, hits, handed>>
  BY Running, Zenon DEF expect_emit, Emit, Step
<1>2. CASE expect_emit
  <2>1. Len(declared) + 1 \in Nat
    BY DEF Types
  <2>2. PICK e : e = [depth |-> Depth, log |-> None, found |-> FALSE, nr |-> Len(declared) + 1]
    BY Zenon
  <2>3. PICK d : d = [log |-> None, came |-> FALSE]
    BY Zenon
  <2>4. e \in Expected /\ d \in Declared
    BY <1>1, <2>1, <2>2, <2>3, Zenon DEF Expected, Declared
  <2>5. expected_emits' = Append(expected_emits, e) /\ declared' = Append(declared, d)
    BY <1>2, <2>2, <2>3, Zenon DEF expect_emit
  <2>6. expected_emits' \in Seq(Expected) /\ declared' \in Seq(Declared)
    BY <2>4, <2>5, AppendProperties, Zenon DEF Types
  <2> QED BY <1>1, <2>6, CheatcodeTypes, Zenon DEF Types
<1>3. ASSUME NEW log \in Logs, Emit(log) PROVE Types'
  <2>1. expected_emits' \in Seq(Expected)
    BY <1>3, Handled, Zenon DEF Emit, Types, Rotated
  <2>2. declared' = [i \in DOMAIN declared |->
            LET filled == \E j \in DOMAIN expected_emits' :
                            expected_emits'[j].nr = i /\ expected_emits'[j].log # None
            IN  IF declared[i].log # None
                THEN [declared[i] EXCEPT !.came = @ \/ declared[i].log = log]
                ELSE [declared[i] EXCEPT !.log = IF filled THEN log ELSE None]]
    BY <1>3, Zenon DEF Emit
  <2>3. PICK n \in Nat : n = Len(declared)
    BY DEF Types
  <2>4. DOMAIN declared = 1..n /\ \A i \in 1..n : declared[i] \in Declared
    BY <2>3, ElementOfSeq, LenProperties DEF Types
  <2>5. \A i \in 1..n : declared'[i] \in Declared
    BY <2>2, <2>4, Zenon DEF Declared
  <2>6. DOMAIN declared' = 1..n
    BY <2>2, <2>4, Zenon
  <2>7. declared' \in [1..n -> Declared]
    BY <2>2, <2>4, <2>5, Zenon
  <2>8. declared' \in Seq(Declared)
    BY <2>7, SeqDef, Zenon
  <2> QED BY <1>1, <2>1, <2>8, CheatcodeTypes, Zenon DEF Types
<1> QED BY <1>2, <1>3, Zenon

\* The records of a prank or a broadcast that are kept.
LEMMA EnteredTypes ==
  ASSUME Types, verdict = "running", NEW of_call \in BOOLEAN, NEW broadcasting \in BOOLEAN,
         apply_prank(of_call), Hit, NewOrigin(broadcasting), push_recorded
  PROVE  /\ prank' \in Prank \cup {None} /\ hits' \in Nat /\ origin' \in Address
         /\ recorded' \in Nat \cup {None}
         /\ prank' = None <=> prank = None
         /\ prank # None => /\ prank'.depth = prank.depth /\ prank'.single_call = prank.single_call
                            /\ prank'.prank_origin = prank.prank_origin
                            /\ prank'.new_origin = prank.new_origin
<1>1. prank # None => prank \in Prank
  BY Zenon DEF Types
<1>2. None \notin Prank
  BY CheatcodesAssumption, Zenon
<1>3. prank' = prank \/ (prank # None /\ prank' = [prank EXCEPT !.used = TRUE])
  BY Zenon DEF apply_prank, pranked
<1>4. prank # None => /\ [prank EXCEPT !.used = TRUE] \in Prank
                      /\ [prank EXCEPT !.used = TRUE].depth = prank.depth
                      /\ [prank EXCEPT !.used = TRUE].single_call = prank.single_call
                      /\ [prank EXCEPT !.used = TRUE].prank_origin = prank.prank_origin
                      /\ [prank EXCEPT !.used = TRUE].new_origin = prank.new_origin
  BY <1>1, Zenon DEF Prank
<1>5. hits' \in Nat
  BY DEF Hit, Types
<1>6. origin' \in Address
  <2>1. prank # None => prank.new_origin \in Address \cup {None}
    BY <1>1, Zenon DEF Prank
  <2>2. Signer \in Address /\ origin \in Address
    BY Zenon DEF Types, Address
  <2> QED BY <2>1, <2>2, Zenon DEF NewOrigin, pranked
<1>7. recorded' \in Nat \cup {None}
  BY DEF push_recorded, Types
<1> QED BY <1>1, <1>2, <1>3, <1>4, <1>5, <1>6, <1>7, Zenon

\* A call enters a frame.
LEMMA CallTypes ==
  ASSUME Types, NEW target \in Contracts, NEW static \in BOOLEAN, call(target, static)
  PROVE  Types' /\ Depth' = Depth + 1
<1>1. verdict = "running" /\ Depth \in Nat \ {0}
  BY Running, Zenon DEF call, Step
<1>2. Frame(target, "call", static, created) \in Frames
  BY Zenon DEF Frame, Frames, Contracts, Address, Types
<1>3. stack' \in Seq(Frames) /\ Depth' = Depth + 1
  BY <1>2, Pushed, Zenon DEF call
<1>4. /\ prank' \in Prank \cup {None} /\ hits' \in Nat /\ origin' \in Address
      /\ recorded' \in Nat \cup {None}
  BY <1>1, EnteredTypes, Zenon DEF call, broadcasts
<1>5. txs' \in Seq(Nat) /\ called' \in Nat
  <2>1. txs \in Seq(Nat) /\ called \in Nat /\ Nonce \in Nat
    BY DEF Types, Nonce
  <2>2. \/ txs' = Append(txs, Nonce) /\ called' = called + 1
        \/ txs' = txs /\ called' = called
    BY Zenon DEF call, collect
  <2>3. Append(txs, Nonce) \in Seq(Nat) /\ called + 1 \in Nat
    BY <2>1
  <2> QED BY <2>1, <2>2, <2>3, Zenon
<1>6. UNCHANGED <<created, broadcast, expected_emits, verdict, handed, lost, declared,
                  swallowed, early>>
  BY Zenon DEF call
<1>7. Depth' > 0
  BY <1>1, <1>3
<1> QED BY <1>3, <1>4, <1>5, <1>6, <1>7, Zenon DEF Types

\* A creation enters a frame.
LEMMA CreateTypes ==
  ASSUME Types, create
  PROVE  Types' /\ Depth' = Depth + 1
<1>1. verdict = "running" /\ Depth \in Nat \ {0}
  BY Running, Zenon DEF create, Step
<1>2. created' \in Nat
  BY DEF create, Types
<1>3. stack' = Append(stack, Frame(Created, "create", FALSE, created'))
  BY Zenon DEF create
<1>4. Frame(Created, "create", FALSE, created') \in Frames
  BY <1>2, Zenon DEF Frame, Frames, Address
<1>5. stack' \in Seq(Frames) /\ Depth' = Depth + 1
  BY <1>3, <1>4, Pushed, Zenon
<1>6. /\ prank' \in Prank \cup {None} /\ hits' \in Nat /\ origin' \in Address
      /\ recorded' \in Nat \cup {None}
  BY <1>1, EnteredTypes, Zenon DEF create, broadcasts
<1>7. txs' \in Seq(Nat)
  <2>1. txs \in Seq(Nat) /\ Nonce \in Nat
    BY DEF Types, Nonce
  <2>2. txs' = Append(txs, Nonce) \/ txs' = txs
    BY Zenon DEF create
  <2>3. Append(txs, Nonce) \in Seq(Nat)
    BY <2>1
  <2> QED BY <2>1, <2>2, <2>3, Zenon
<1>8. UNCHANGED <<called, broadcast, expected_emits, verdict, handed, lost, declared,
                  swallowed, early>>
  BY Zenon DEF create
<1>9. Depth' > 0
  BY <1>1, <1>5
<1> QED BY <1>2, <1>5, <1>6, <1>7, <1>8, <1>9, Zenon DEF Types

\* What the end of a call leaves, back at depth d.
LEMMA Ended ==
  ASSUME Types, NEW kind, NEW static, NEW status, NEW d \in Nat, End(kind, static, status, d)
  PROVE  /\ origin' \in Address
         /\ prank' \in {prank, None} /\ broadcast' \in {broadcast, None}
         /\ expected_emits' \in {expected_emits, << >>}
         /\ recorded' \in Nat \cup {None}
         /\ swallowed' \in BOOLEAN
         /\ verdict' = "running" => d > 0
<1>1. /\ prank # None => prank.prank_origin \in Address
      /\ broadcast # None => broadcast.original_origin \in Address
  BY Zenon DEF Types, Prank, Broadcast
<1>2. /\ origin' \in Address
      /\ prank' \in {prank, None} /\ broadcast' \in {broadcast, None}
  BY <1>1, Zenon DEF End, clean_up, Types
<1>3. expected_emits' \in {expected_emits, << >>}
  BY Zenon DEF End, end_expected, end_missing, end_other
<1>4. recorded' \in Nat \cup {None}
  <2>1. recorded' = recorded \/ (~(recorded = 0 /\ d > 0) /\ recorded' = pop_recorded(d))
    BY Zenon DEF End, end_expected, end_missing, end_other
  <2> QED BY <2>1 DEF pop_recorded, Types
<1>5. swallowed' \in BOOLEAN
  BY Zenon DEF End, end_expected, end_missing, end_other, Types
<1>6. verdict' = "running" => d > 0
  BY Zenon DEF End, end_expected, end_missing, end_other, Verdict
<1> QED BY <1>2, <1>3, <1>4, <1>5, <1>6

\* A frame that ends, with what call_end or create_end do, leaves it.
LEMMA ReturnTypes ==
  ASSUME Types, NEW status, Return(status)
  PROVE  Types' /\ Depth' = Depth - 1 /\ Depth - 1 \in Nat
<1>1. verdict = "running" /\ Depth \in Nat \ {0} /\ Top \in Frames
  BY Running, Zenon DEF Return, Step
<1>2. stack' \in Seq(Frames) /\ Depth' = Depth - 1
  BY <1>1, Popped, Zenon DEF Return
<1>3. Depth - 1 \in Nat
  BY <1>1
<1>4. /\ origin' \in Address
      /\ prank' \in {prank, None} /\ broadcast' \in {broadcast, None}
      /\ expected_emits' \in {expected_emits, << >>}
      /\ recorded' \in Nat \cup {None}
      /\ swallowed' \in BOOLEAN
      /\ verdict' = "running" => Depth - 1 > 0
  BY <1>3, Ended, Zenon DEF Return
<1>5. created' \in Nat /\ lost' \in BOOLEAN
  <2>1. Top.created \in Nat
    BY <1>1, Zenon DEF Frames
  <2> QED BY <2>1, Zenon DEF Return, Types
<1>6. UNCHANGED <<txs, called, hits, handed, declared, early>>
  BY Zenon DEF Return
<1>7. << >> \in Seq(Expected)
  BY EmptySeq
<1> QED BY <1>2, <1>3, <1>4, <1>5, <1>6, <1>7, Zenon DEF Types

\* A call that is answered in `call` enters no frame.
LEMMA AnsweredTypes ==
  ASSUME Types, NEW target, NEW static, answered_call(target, static)
  PROVE  Types' /\ Depth' = Depth
<1>1. verdict = "running" /\ Depth \in Nat \ {0}
  BY Running, Zenon DEF answered_call, Step
<1>2. Depth \in Nat /\ Depth > 0
  BY <1>1
<1>3. /\ origin' \in Address
      /\ prank' \in {prank, None} /\ broadcast' \in {broadcast, None}
      /\ expected_emits' \in {expected_emits, << >>}
      /\ recorded' \in Nat \cup {None}
      /\ swallowed' \in BOOLEAN
  BY <1>2, Ended, Zenon DEF answered_call
<1>4. early' \in BOOLEAN
      /\ UNCHANGED <<stack, txs, called, created, hits, handed, lost, declared>>
  BY Zenon DEF answered_call, Types
<1>5. << >> \in Seq(Expected) /\ Depth' = Depth
  BY <1>4, EmptySeq, Zenon DEF Depth
<1> QED BY <1>2, <1>3, <1>4, <1>5, Zenon DEF Types

\* The steps of the specification, with the calls of expectCall together.
LEMMA Steps ==
  ASSUME Next
  PROVE  \/ \E single, with_origin \in BOOLEAN : prank_call(single, with_origin)
         \/ \E single \in BOOLEAN : broadcast_call(single)
         \/ stopPrank \/ stopBroadcast
         \/ \E kind \in {"default", "cheatcode"} : expect_revert(kind)
         \/ \E type \in {"Count", "NonCount"}, count \in 0..1 : expect_call(type, count)
         \/ \E ret_type \in {"ok", "revert", None} : mock_call(ret_type)
         \/ record
         \/ expect_emit
         \/ \E log \in Logs : Emit(log)
         \/ \E target \in Contracts, static \in BOOLEAN : call(target, static)
         \/ \E target \in Contracts, static \in BOOLEAN : answered_call(target, static)
         \/ create
         \/ \E status \in {"ok", "revert", "other"} : Return(status)
<1>1. 1 \in 0..1
  OBVIOUS
<1> QED BY <1>1, Zenon DEF Next

\* Every step keeps the types.
LEMMA StepTypes == ASSUME Types, [Next]_vars PROVE Types'
<1>1. CASE Next
  BY <1>1, Steps, PrankTypes, BroadcastTypes, StopTypes, ExpectTypes, EmitTypes, CallTypes,
     CreateTypes, ReturnTypes, AnsweredTypes, Zenon
<1>2. CASE UNCHANGED vars
  BY <1>2, Zenon DEF Types, vars, cheats, history, Depth
<1> QED BY <1>1, <1>2

-----------------------------------------------------------------------------
(* The nonces of the transactions collected *)

\* A transaction collected with the next nonce keeps the order.
LEMMA NonceAppended ==
  ASSUME Types, NoncesInv, ~lost, ~lost', txs' = Append(txs, Nonce), Nonce' = Nonce + 1
  PROVE  NoncesInv'
<1>1. txs \in Seq(Nat) /\ Nonce \in Nat /\ Len(txs) = Nonce /\ NoncesFollow
  BY DEF Types, NoncesInv, Nonce
<1>2. PICK n \in Nat : n = Nonce
  BY <1>1, Zenon
<1>3. /\ txs' \in Seq(Nat) /\ Len(txs') = n + 1 /\ txs'[n + 1] = n
      /\ \A i \in 1..n : txs'[i] = txs[i]
  BY <1>1, <1>2, AppendProperties
<1>4. \A i \in 1..n : txs[i] = i - 1
  BY <1>1, <1>2, SMTT(60) DEF NoncesFollow
<1>5. \A i \in 1 .. n + 1 : txs'[i] = i - 1
  BY <1>3, <1>4
<1>6. DOMAIN txs' = 1 .. n + 1
  BY <1>3
<1>7. NoncesFollow'
  BY <1>5, <1>6, Zenon DEF NoncesFollow
<1> QED BY <1>2, <1>3, <1>7, Zenon DEF NoncesInv

\* The nonces of the collected transactions stay without a gap, in every step that
\* no revert undoes.
LEMMA NoncesStep ==
  ASSUME Types, NoncesInv, Next
  PROVE  NoncesInv'
<1>1. CASE UNCHANGED <<txs, called, created, lost>>
  BY <1>1, Zenon DEF NoncesInv, NoncesFollow, Nonce
<1>2. ASSUME NEW target, NEW static, call(target, static) PROVE NoncesInv'
  <2>1. \/ txs' = Append(txs, Nonce) /\ called' = called + 1
        \/ UNCHANGED <<txs, called>>
    BY <1>2, Zenon DEF call, collect
  <2>2. UNCHANGED <<created, lost>>
    BY <1>2, Zenon DEF call
  <2>3. called' = called + 1 => Nonce' = Nonce + 1
    BY <2>2 DEF Types, Nonce
  <2> QED BY <1>1, <2>1, <2>2, <2>3, NonceAppended, Zenon DEF NoncesInv
<1>3. CASE create
  <2>1. \/ txs' = Append(txs, Nonce) /\ created' = created + 1
        \/ UNCHANGED <<txs, created>>
    BY <1>3, Zenon DEF create
  <2>2. UNCHANGED <<called, lost>>
    BY <1>3, Zenon DEF create
  <2>3. created' = created + 1 => Nonce' = Nonce + 1
    BY <2>2 DEF Types, Nonce
  <2> QED BY <1>1, <2>1, <2>2, <2>3, NonceAppended, Zenon DEF NoncesInv
<1>4. ASSUME NEW status, Return(status) PROVE NoncesInv'
  <2>1. UNCHANGED <<txs, called>> /\ lost' = (lost \/ created' # created) /\ lost \in BOOLEAN
    BY <1>4, Zenon DEF Return, Types
  <2>2. ~lost' => UNCHANGED <<created, lost>>
    BY <2>1, Zenon
  <2> QED BY <1>1, <2>1, <2>2, Zenon DEF NoncesInv
<1>5. \/ UNCHANGED <<txs, called, created, lost>>
      \/ \E target \in Contracts, static \in BOOLEAN : call(target, static)
      \/ create
      \/ \E status \in {"ok", "revert", "other"} : Return(status)
  BY Steps, Zenon DEF prank_call, broadcast_call, stopPrank, stopBroadcast, expect_revert,
     expect_call, mock_call, record, expect_emit, Emit, answered_call, evm, history
<1> QED BY <1>1, <1>2, <1>3, <1>4, <1>5, Zenon

-----------------------------------------------------------------------------
(* The recording of state differences *)

\* Accesses are recorded from the root frame on, so the stack of records is not
\* empty in any frame above it.
LEMMA RecorderStep ==
  ASSUME Types, RecorderInv, Next
  PROVE  RecorderInv'
<1>1. CASE UNCHANGED <<stack, verdict, recorded, early>>
  BY <1>1, Zenon DEF RecorderInv, Depth
<1>2. CASE record
  <2>1. /\ UNCHANGED <<stack, verdict>>
        /\ early' = (early \/ Depth > 1)
    BY <1>2, Zenon DEF record, evm
  <2>2. Depth' = Depth /\ Depth \in Nat
    BY <2>1 DEF Depth, Types
  <2>3. ~early' => ~early /\ ~(Depth > 1)
    BY <2>1, Zenon
  <2>4. ~(Depth > 1) => Depth <= 1
    BY <2>2
  <2> QED BY <2>1, <2>2, <2>3, <2>4, Zenon DEF RecorderInv
<1>3. CASE create \/ \E target \in Contracts, static \in BOOLEAN : call(target, static)
  <2>1. push_recorded /\ UNCHANGED <<verdict, early>>
    BY <1>3, Zenon DEF create, call
  <2>2. recorded' # 0
    <3>1. CASE recorded = None
      <4>1. recorded' = None
        BY <2>1, <3>1, Zenon DEF push_recorded
      <4> QED BY <3>1, <4>1, CheatcodesAssumption
    <3>2. CASE recorded # None
      <4>1. recorded \in Nat /\ recorded' = recorded + 1
        BY <2>1, <3>2, Zenon DEF push_recorded, Types
      <4> QED BY <4>1
    <3> QED BY <3>1, <3>2
  <2> QED BY <2>1, <2>2, Zenon DEF RecorderInv
<1>4. ASSUME NEW status, Return(status) PROVE RecorderInv'
  <2>1. verdict = "running" /\ UNCHANGED early /\ End(Top.kind, Top.static, status, Depth - 1)
    BY <1>4, Zenon DEF Return, Step
  <2>2. Depth' = Depth - 1 /\ Depth - 1 \in Nat /\ Depth \in Nat
    BY <1>4, <2>1, ReturnTypes, Running
  <2>3. SUFFICES ASSUME ~early PROVE verdict' # "panic" /\ (recorded' = 0 => Depth' <= 1)
    BY <2>1, Zenon DEF RecorderInv
  <2>4. recorded = 0 => Depth <= 1
    BY <2>3, Zenon DEF RecorderInv
  <2>5. ~(recorded = 0 /\ Depth - 1 > 0)
    BY <2>2, <2>4
  <2>6. verdict' # "panic"
    BY <2>1, <2>5, Zenon DEF End, end_expected, end_missing, end_other, Verdict
  <2>7. recorded' = recorded \/ recorded' = pop_recorded(Depth - 1)
    BY <2>1, Zenon DEF End, end_expected, end_missing, end_other
  <2>8. CASE recorded = 0
    BY <2>2, <2>4, <2>6, <2>8
  <2>9. CASE recorded # 0
    <3>1. recorded = None => recorded' = None
      BY <2>7, Zenon DEF pop_recorded
    <3>2. recorded # None => recorded' # 0
      BY <2>7, <2>9 DEF pop_recorded, Types
    <3>3. None # 0
      BY CheatcodesAssumption
    <3> QED BY <2>6, <3>1, <3>2, <3>3, Zenon
  <2> QED BY <2>8, <2>9
<1>5. ASSUME NEW target, NEW static, answered_call(target, static) PROVE RecorderInv'
  <2>1. /\ early' = (early \/ recorded = 0) /\ early \in BOOLEAN
        /\ verdict = "running"
        /\ \E status : End("call", static, status, Depth)
    BY <1>5, Zenon DEF answered_call, Step, Types
  <2>2. Depth' = Depth
    BY <1>5, AnsweredTypes
  <2>3. SUFFICES ASSUME ~early' PROVE verdict' # "panic" /\ (recorded' = 0 => Depth' <= 1)
    BY Zenon DEF RecorderInv
  <2>4. recorded # 0
    BY <2>1, <2>3, Zenon
  <2>5. verdict' # "panic"
    BY <2>1, <2>4, Zenon DEF End, end_expected, end_missing, end_other, Verdict
  <2>6. recorded' = recorded \/ recorded' = pop_recorded(Depth)
    BY <2>1, Zenon DEF End, end_expected, end_missing, end_other
  <2>7. recorded = None => recorded' = None
    BY <2>6, Zenon DEF pop_recorded
  <2>8. recorded # None => recorded' # 0
    BY <2>4, <2>6 DEF pop_recorded, Types
  <2>9. None # 0
    BY CheatcodesAssumption
  <2> QED BY <2>5, <2>7, <2>8, <2>9, Zenon
<1>6. \/ UNCHANGED <<stack, verdict, recorded, early>>
      \/ record \/ create
      \/ \E target \in Contracts, static \in BOOLEAN : call(target, static)
      \/ \E target \in Contracts, static \in BOOLEAN : answered_call(target, static)
      \/ \E status \in {"ok", "revert", "other"} : Return(status)
  BY Steps, Zenon DEF prank_call, broadcast_call, stopPrank, stopBroadcast, expect_revert,
     expect_call, mock_call, expect_emit, Emit, evm, history
<1> QED BY <1>1, <1>2, <1>3, <1>4, <1>5, <1>6, Zenon

-----------------------------------------------------------------------------
(* Pranks and broadcasts *)

\* What is in force has a depth, and what is restored is kept.
LEMMA InForce ==
  ASSUME Types
  PROVE  /\ Depth \in Nat
         /\ prank # None => prank.depth \in Nat /\ prank.single_call \in BOOLEAN
         /\ broadcast # None => broadcast.depth \in Nat /\ broadcast.single_call \in BOOLEAN
<1>1. Depth \in Nat
  BY DEF Types, Depth
<1> QED BY <1>1, Zenon DEF Types, Prank, Broadcast

\* A prank is set while no broadcast is in force; it replaces only one that was used.
LEMMA PrankCalled ==
  ASSUME Types, PranksInv, NEW single \in BOOLEAN, NEW with_origin \in BOOLEAN,
         prank_call(single, with_origin)
  PROVE  PranksInv'
<1> DEFINE allowed == /\ prank # None => prank.used /\ single = prank.single_call
                      /\ broadcast = None
<1>1. verdict = "running" /\ UNCHANGED <<stack, origin, broadcast>> /\ Depth' = Depth
  BY Zenon DEF prank_call, Step, evm, Depth
<1>2. handed' = (handed \/ (allowed /\ prank # None /\ Depth # prank.depth)) /\ handed \in BOOLEAN
  BY Zenon DEF prank_call, Types
<1>3. CASE ~allowed
  <2>1. UNCHANGED <<prank, hits, handed>>
    BY <1>2, <1>3, Zenon DEF prank_call
  <2> QED BY <1>1, <2>1, Zenon DEF PranksInv, Over
<1>4. CASE allowed
  <2>1. PICK p : p = [prank_caller |-> Top.target, prank_origin |-> origin,
                      new_origin |-> IF with_origin THEN Pranked ELSE None,
                      depth |-> Depth, single_call |-> single, used |-> FALSE]
    BY Zenon
  <2>2. prank' = p /\ hits' = 0 /\ p.prank_origin = origin
    BY <1>4, <2>1, Zenon DEF prank_call
  <2>3. ~(hits' > 0)
    BY <2>2
  <2>4. broadcast = None /\ broadcast' = None
    BY <1>1, <1>4, Zenon
  <2>5. ~handed' => ~handed /\ (prank = None \/ Depth = prank.depth)
    BY <1>2, <1>4, Zenon
  <2>6. prank # None /\ Depth = prank.depth => ~Over(prank)
    BY InForce DEF Over
  <2>7. ~handed' => origin = Sender
    BY <2>4, <2>5, <2>6, Zenon DEF PranksInv, Over
  <2> HIDE DEF allowed
  <2> QED BY <1>1, <2>2, <2>3, <2>4, <2>7, Zenon DEF PranksInv
<1> QED BY <1>3, <1>4

\* A broadcast is set only where no prank and no other broadcast is in force.
LEMMA BroadcastCalled ==
  ASSUME Types, PranksInv, NEW single \in BOOLEAN, broadcast_call(single)
  PROVE  PranksInv'
<1> DEFINE allowed == prank = None /\ broadcast = None
<1>1. UNCHANGED <<stack, origin, prank, handed>> /\ Depth' = Depth
  BY Zenon DEF broadcast_call, Step, evm, Depth
<1>2. CASE ~allowed
  <2>1. UNCHANGED <<broadcast, hits>>
    BY <1>2, Zenon DEF broadcast_call
  <2> QED BY <1>1, <2>1, Zenon DEF PranksInv, Over
<1>3. CASE allowed
  <2>1. PICK b : b = [original_caller |-> Top.target, original_origin |-> origin,
                      depth |-> Depth, single_call |-> single]
    BY Zenon
  <2>2. broadcast' = b /\ hits' = 0 /\ b.original_origin = origin
    BY <1>3, <2>1, Zenon DEF broadcast_call
  <2>3. ~(hits' > 0)
    BY <2>2
  <2>4. prank' = None /\ (~handed => origin = Sender)
    BY <1>1, <1>3, Zenon DEF PranksInv, Over
  <2> QED BY <1>1, <2>2, <2>3, <2>4, Zenon DEF PranksInv
<1> QED BY <1>2, <1>3

\* Stopping takes what is in force away.
LEMMA Stopped ==
  ASSUME Types, PranksInv, stopPrank \/ stopBroadcast
  PROVE  PranksInv'
<1>1. UNCHANGED <<stack, origin, hits>> /\ Depth' = Depth
  BY Zenon DEF stopPrank, stopBroadcast, Step, evm, Depth
<1>2. CASE stopPrank
  <2>1. /\ prank' = None /\ broadcast' = broadcast
        /\ handed' = (handed \/ (prank # None /\ Depth # prank.depth)) /\ handed \in BOOLEAN
    BY <1>2, Zenon DEF stopPrank, Types
  <2>2. prank # None /\ Depth = prank.depth => ~Over(prank)
    BY InForce DEF Over
  <2>3. ~handed' => ~handed /\ ~Over(prank)
    BY <2>1, <2>2, Zenon DEF Over
  <2>4. Over(broadcast)' <=> Over(broadcast)
    BY <1>1, <2>1, Zenon DEF Over
  <2> QED BY <1>1, <2>1, <2>3, <2>4, Zenon DEF PranksInv
<1>3. CASE stopBroadcast
  <2>1. /\ broadcast' = None /\ prank' = prank
        /\ handed' = (handed \/ (broadcast # None /\ Depth # broadcast.depth)) /\ handed \in BOOLEAN
    BY <1>3, Zenon DEF stopBroadcast, Types
  <2>2. broadcast # None /\ Depth = broadcast.depth => ~Over(broadcast)
    BY InForce DEF Over
  <2>3. ~handed' => ~handed /\ ~Over(broadcast)
    BY <2>1, <2>2, Zenon DEF Over
  <2>4. Over(prank)' <=> Over(prank)
    BY <1>1, <2>1, Zenon DEF Over
  <2> QED BY <1>1, <2>1, <2>3, <2>4, Zenon DEF PranksInv
<1> QED BY <1>2, <1>3

\* A call or creation is made one frame above what it hits.
LEMMA Entered ==
  ASSUME Types, Types', PranksInv, verdict = "running",
         NEW of_call \in BOOLEAN, NEW broadcasting \in BOOLEAN,
         broadcasting => broadcasts(Depth >= broadcast.depth),
         apply_prank(of_call), Hit, NewOrigin(broadcasting), push_recorded,
         UNCHANGED <<broadcast, handed>>, Depth' = Depth + 1
  PROVE  PranksInv'
<1>1. /\ prank' = None <=> prank = None
      /\ prank # None => /\ prank'.depth = prank.depth /\ prank'.single_call = prank.single_call
                         /\ prank'.prank_origin = prank.prank_origin
  BY EnteredTypes, Zenon
<1>2. /\ Depth \in Nat
      /\ prank # None => prank.depth \in Nat
      /\ broadcast # None => broadcast.depth \in Nat
  BY InForce, Zenon
<1>3. /\ Over(prank) => Over(prank)'
      /\ Over(broadcast) => Over(broadcast)'
      /\ prank # None /\ Depth >= prank.depth => Over(prank)'
      /\ broadcast # None /\ Depth >= broadcast.depth => Over(broadcast)'
      /\ prank # None /\ Depth = prank.depth => ~Over(prank)
      /\ broadcast # None /\ Depth = broadcast.depth => ~Over(broadcast)
  BY <1>1, <1>2 DEF Over
<1>4. prank' = None \/ broadcast' = None
  BY <1>1, Zenon DEF PranksInv
<1>5. \/ hits' = hits
      \/ hits' = hits + 1 /\ \/ prank # None /\ Depth = prank.depth
                             \/ broadcast # None /\ Depth = broadcast.depth
  BY Zenon DEF Hit, pranked, broadcasts
<1>6. hits \in Nat /\ (hits = 0 \/ hits > 0)
  BY DEF Types
<1>7. hits = 0 => hits + 1 = 1 /\ ~(hits > 0)
  BY <1>6
<1>8. ASSUME prank # None, prank.single_call, hits' > 0
      PROVE  hits' = 1 /\ Over(prank)'
  <2>1. broadcast = None
    BY <1>8, Zenon DEF PranksInv
  <2>2. hits > 0 => hits = 1 /\ Over(prank)
    BY <1>8, Zenon DEF PranksInv
  <2>3. CASE hits' = hits
    BY <1>3, <1>8, <2>2, <2>3, Zenon
  <2>4. CASE hits' = hits + 1 /\ Depth = prank.depth
    <3>1. Depth >= prank.depth
      BY <1>2, <1>8, <2>4
    <3> QED BY <1>3, <1>6, <1>7, <1>8, <2>2, <2>4, <3>1, Zenon
  <2> QED BY <1>5, <1>8, <2>1, <2>3, <2>4, Zenon
<1>9. ASSUME broadcast # None, broadcast.single_call, hits' > 0
      PROVE  hits' = 1 /\ Over(broadcast)'
  <2>1. prank = None
    BY <1>9, Zenon DEF PranksInv
  <2>2. hits > 0 => hits = 1 /\ Over(broadcast)
    BY <1>9, Zenon DEF PranksInv
  <2>3. CASE hits' = hits
    BY <1>3, <1>9, <2>2, <2>3, Zenon
  <2>4. CASE hits' = hits + 1 /\ Depth = broadcast.depth
    <3>1. Depth >= broadcast.depth
      BY <1>2, <1>9, <2>4
    <3> QED BY <1>3, <1>6, <1>7, <1>9, <2>2, <2>4, <3>1, Zenon
  <2> QED BY <1>5, <1>9, <2>1, <2>3, <2>4, Zenon
<1>10. ASSUME ~handed' PROVE origin' = Sender \/ Over(prank)' \/ Over(broadcast)'
  <2>1. origin = Sender \/ Over(prank) \/ Over(broadcast)
    BY <1>10, Zenon DEF PranksInv
  <2>2. origin' = origin \/ (prank # None /\ Depth >= prank.depth) \/ broadcasting
    BY Zenon DEF NewOrigin, pranked
  <2>3. broadcasting => broadcast # None /\ Depth >= broadcast.depth
    BY Zenon DEF broadcasts
  <2> QED BY <1>3, <2>1, <2>2, <2>3, Zenon
<1>11. ~handed' => /\ prank' # None => prank'.prank_origin = Sender
                   /\ broadcast' # None => broadcast'.original_origin = Sender
  BY <1>1, Zenon DEF PranksInv
<1> QED BY <1>1, <1>4, <1>8, <1>9, <1>10, <1>11, Zenon DEF PranksInv

\* Back at depth d what was for a single call is gone, and tx.origin restored.
LEMMA CleanedUp ==
  ASSUME Types, PranksInv, NEW d \in Nat, clean_up(d), Depth' = d, d <= Depth, Depth <= d + 1,
         UNCHANGED <<hits, handed>>
  PROVE  PranksInv'
<1>1. /\ prank' \in {prank, None} /\ broadcast' \in {broadcast, None}
      /\ prank # None /\ prank.depth = d /\ prank.single_call => prank' = None
      /\ broadcast # None /\ broadcast.depth = d /\ broadcast.single_call => broadcast' = None
      /\ prank # None /\ prank.depth # d => prank' = prank
      /\ broadcast # None /\ broadcast.depth # d => broadcast' = broadcast
  BY Zenon DEF clean_up
<1>2. /\ Depth \in Nat
      /\ prank # None => prank.depth \in Nat
      /\ broadcast # None => broadcast.depth \in Nat
  BY InForce, Zenon
<1>3. /\ prank # None /\ Over(prank) => prank.depth = d \/ Over(prank)'
      /\ broadcast # None /\ Over(broadcast) => broadcast.depth = d \/ Over(broadcast)'
  <2>1. prank # None /\ Depth > prank.depth => prank.depth = d \/ d > prank.depth
    BY <1>2
  <2>2. broadcast # None /\ Depth > broadcast.depth => broadcast.depth = d \/ d > broadcast.depth
    BY <1>2
  <2> QED BY <1>1, <2>1, <2>2, Zenon DEF Over
<1>4. prank' = None \/ broadcast' = None
  BY <1>1, Zenon DEF PranksInv
<1>5. ASSUME prank' # None, prank'.single_call, hits' > 0
      PROVE  hits' = 1 /\ Over(prank)'
  <2>1. prank' = prank /\ prank.depth # d /\ prank # None
    BY <1>1, <1>5, Zenon
  <2>2. hits = 1 /\ Over(prank)
    BY <1>5, <2>1, Zenon DEF PranksInv
  <2> QED BY <1>3, <2>1, <2>2, Zenon
<1>6. ASSUME broadcast' # None, broadcast'.single_call, hits' > 0
      PROVE  hits' = 1 /\ Over(broadcast)'
  <2>1. broadcast' = broadcast /\ broadcast.depth # d /\ broadcast # None
    BY <1>1, <1>6, Zenon
  <2>2. hits = 1 /\ Over(broadcast)
    BY <1>6, <2>1, Zenon DEF PranksInv
  <2> QED BY <1>3, <2>1, <2>2, Zenon
<1>7. ASSUME ~handed'
      PROVE  /\ origin' = Sender \/ Over(prank)' \/ Over(broadcast)'
             /\ prank' # None => prank'.prank_origin = Sender
             /\ broadcast' # None => broadcast'.original_origin = Sender
  <2>1. /\ origin = Sender \/ Over(prank) \/ Over(broadcast)
        /\ prank # None => prank.prank_origin = Sender
        /\ broadcast # None => broadcast.original_origin = Sender
    BY <1>7, Zenon DEF PranksInv
  <2>2. CASE (prank # None /\ prank.depth = d) \/ (broadcast # None /\ broadcast.depth = d)
    <3>1. origin' = Sender
      BY <2>1, <2>2, Zenon DEF clean_up
    <3> QED BY <1>1, <2>1, <3>1, Zenon
  <2>3. CASE ~((prank # None /\ prank.depth = d) \/ (broadcast # None /\ broadcast.depth = d))
    <3>1. origin' = origin
      BY <2>3, Zenon DEF clean_up
    <3>2. Over(prank) => Over(prank)'
      BY <1>3, <2>3, Zenon DEF Over
    <3>3. Over(broadcast) => Over(broadcast)'
      BY <1>3, <2>3, Zenon DEF Over
    <3> QED BY <1>1, <2>1, <3>1, <3>2, <3>3, Zenon
  <2> QED BY <2>2, <2>3
<1> QED BY <1>4, <1>5, <1>6, <1>7, Zenon DEF PranksInv

\* Every step preserves what the pranks and broadcasts need.
LEMMA PranksStep ==
  ASSUME Types, PranksInv, Next
  PROVE  PranksInv'
<1>1. CASE UNCHANGED <<stack, origin, prank, broadcast, hits, handed>>
  BY <1>1, Zenon DEF PranksInv, Over, Depth
<1>2. ASSUME NEW target \in Contracts, NEW static \in BOOLEAN, call(target, static)
      PROVE  PranksInv'
  <2>1. Types' /\ Depth' = Depth + 1
    BY <1>2, CallTypes
  <2>2. PICK b \in BOOLEAN : b = broadcasts(Depth = broadcast.depth)
    BY Zenon DEF broadcasts
  <2>3. b => broadcasts(Depth >= broadcast.depth)
    <3>1. broadcast # None /\ Depth = broadcast.depth => Depth >= broadcast.depth
      BY InForce
    <3> QED BY <2>2, <3>1, Zenon DEF broadcasts
  <2>4. /\ verdict = "running" /\ apply_prank(TRUE) /\ Hit /\ NewOrigin(b) /\ push_recorded
        /\ UNCHANGED <<broadcast, handed>>
    BY <1>2, <2>2, Zenon DEF call, Step
  <2> QED BY <2>1, <2>3, <2>4, Entered, Zenon
<1>3. CASE create
  <2>1. Types' /\ Depth' = Depth + 1
    BY <1>3, CreateTypes
  <2>2. PICK b \in BOOLEAN : b = broadcasts(Depth >= broadcast.depth)
    BY Zenon DEF broadcasts
  <2>3. /\ verdict = "running" /\ apply_prank(FALSE) /\ Hit /\ NewOrigin(b) /\ push_recorded
        /\ UNCHANGED <<broadcast, handed>>
    BY <1>3, <2>2, Zenon DEF create, Step
  <2> QED BY <2>1, <2>2, <2>3, Entered, Zenon
<1>4. ASSUME NEW status, Return(status) PROVE PranksInv'
  <2>1. clean_up(Depth - 1) /\ UNCHANGED <<hits, handed>>
    BY <1>4, Zenon DEF Return, End
  <2>2. PICK d : d = Depth - 1
    BY Zenon
  <2>3. Depth' = d /\ d \in Nat
    BY <1>4, <2>2, ReturnTypes, Zenon
  <2>4. d <= Depth /\ Depth <= d + 1
    BY <2>2, <2>3, InForce
  <2> QED BY <2>1, <2>2, <2>3, <2>4, CleanedUp, Zenon
<1>5. ASSUME NEW target, NEW static, answered_call(target, static) PROVE PranksInv'
  <2>1. clean_up(Depth) /\ UNCHANGED <<hits, handed>>
    BY <1>5, Zenon DEF answered_call, End
  <2>2. PICK d : d = Depth
    BY Zenon
  <2>3. Depth' = d /\ d \in Nat
    BY <1>5, <2>2, AnsweredTypes, InForce, Zenon
  <2>4. d <= Depth /\ Depth <= d + 1
    BY <2>2, <2>3
  <2> QED BY <2>1, <2>2, <2>3, <2>4, CleanedUp, Zenon
<1>6. \/ UNCHANGED <<stack, origin, prank, broadcast, hits, handed>>
      \/ \E single, with_origin \in BOOLEAN : prank_call(single, with_origin)
      \/ \E single \in BOOLEAN : broadcast_call(single)
      \/ stopPrank \/ stopBroadcast \/ create
      \/ \E target \in Contracts, static \in BOOLEAN : call(target, static)
      \/ \E target \in Contracts, static \in BOOLEAN : answered_call(target, static)
      \/ \E status \in {"ok", "revert", "other"} : Return(status)
  BY Steps, Zenon DEF expect_revert, expect_call, mock_call, record, expect_emit, Emit, evm,
     history
<1> QED BY <1>1, <1>2, <1>3, <1>4, <1>5, <1>6, PrankCalled, BroadcastCalled, Stopped, Zenon

-----------------------------------------------------------------------------
(* Expected logs *)

\* The queue r is q in the order f, with c in the place of the m-th entry, which was
\* waiting for its log or was compared with it; the queue that stays has no such entry.
Settled(q, r, log, f, m, c) ==
  /\ \A i \in DOMAIN q : f[i] \in DOMAIN q
  /\ \A i, k \in DOMAIN q : f[i] = f[k] => i = k
  /\ \A k \in DOMAIN q : \E i \in DOMAIN q : f[i] = k
  /\ \A i \in DOMAIN q : r[i] = IF f[i] = m THEN c ELSE q[f[i]]
  /\ m \in DOMAIN q =>
       /\ c.nr = q[m].nr
       /\ \/ q[m].log = None /\ c.log = log /\ c.found = q[m].found
          \/ /\ q[m].log # None /\ c.log = q[m].log
             /\ c.found => q[m].found \/ c.log = log

\* The log that is emitted reaches the expectation that waits for it, and the history
\* of what was declared goes along.
LEMMA EmittedLog ==
  ASSUME Types, EmitsInv, NEW log \in Logs, Emit(log)
  PROVE  EmitsInv'
<1>1. PICK q : q = expected_emits
  BY Zenon
<1>2. PICK r : r = expected_emits'
  BY Zenon
<1>3. PICK d : d = declared
  BY Zenon
<1>4. PICK e : e = declared'
  BY Zenon
<1>5. None \notin Logs
  BY CheatcodesAssumption, Zenon
<1>6. /\ DOMAIN e = DOMAIN d
      /\ \A i \in DOMAIN d :
            LET filled == \E j \in DOMAIN r : r[j].nr = i /\ r[j].log # None
            IN  e[i] = IF d[i].log # None
                       THEN [d[i] EXCEPT !.came = @ \/ d[i].log = log]
                       ELSE [d[i] EXCEPT !.log = IF filled THEN log ELSE None]
  BY <1>2, <1>3, <1>4, Zenon DEF Emit
<1>7. \A i \in DOMAIN d : d[i] \in Declared
  BY <1>3, ElementOfSeq, LenProperties DEF Types
<1>8. \A i \in DOMAIN d :
         /\ d[i].log # None => /\ e[i].log = d[i].log
                               /\ e[i].came = (d[i].came \/ d[i].log = log)
         /\ d[i].log = None => /\ e[i].came = d[i].came
                               /\ (\E j \in DOMAIN r : r[j].nr = i /\ r[j].log # None) => e[i].log = log
                               /\ ~(\E j \in DOMAIN r : r[j].nr = i /\ r[j].log # None) => e[i].log = None
  BY <1>6, <1>7, ZenonT(60) DEF Declared
<1>9. /\ \A j, k \in DOMAIN q : q[j].nr = q[k].nr => j = k
      /\ \A j \in DOMAIN q : q[j].nr \in DOMAIN d /\ q[j].log = d[q[j].nr].log
      /\ \A i \in DOMAIN d : ~d[i].came => \E j \in DOMAIN q : q[j].nr = i /\ ~q[j].found
  BY <1>1, <1>3, Zenon DEF EmitsInv
<1>10. DOMAIN r = DOMAIN q /\ \E f, m, c : Settled(q, r, log, f, m, c)
  <2>1. r = handle_expect_emit(log) /\ q \in Seq(Expected)
    BY <1>1, <1>2, Zenon DEF Emit, Types
  <2>2. CASE r = q
    <3>1. PICK f : f = [i \in DOMAIN q |-> i]
      BY Zenon
    <3>2. Len(q) \in Nat /\ DOMAIN q = 1..Len(q) /\ 0 \notin DOMAIN q
      BY <2>1
    <3>3. Settled(q, r, log, f, 0, log)
      BY <2>2, <3>1, <3>2, Zenon DEF Settled
    <3> QED BY <2>2, <3>3, Zenon
  <2>3. CASE r # q
    <3>1. PICK m \in DOMAIN q, c \in Expected :
            /\ Rotated(q, r, m, c)
            /\ c.nr = q[m].nr
            /\ \/ q[m].log = None /\ c.log = log /\ c.found = q[m].found
               \/ /\ q[m].log # None /\ c.log = q[m].log
                  /\ c.found => q[m].found \/ c.log = log
      BY <1>1, <2>1, <2>3, Handled, Zenon
    <3>2. r \in Seq(Expected) /\ Len(r) = Len(q)
      BY <3>1, Zenon DEF Rotated
    <3>3. DOMAIN r = DOMAIN q /\ DOMAIN q = 1..Len(q)
      BY <2>1, <3>2
    <3>4. PICK f : /\ Reorders(f, Len(q))
                   /\ \A i \in DOMAIN q : r[i] = IF f[i] = m THEN c ELSE q[f[i]]
      BY <3>1, <3>3, Zenon DEF Rotated
    <3>5. /\ \A i \in DOMAIN q : f[i] \in DOMAIN q
          /\ \A i, k \in DOMAIN q : f[i] = f[k] => i = k
          /\ \A k \in DOMAIN q : \E i \in DOMAIN q : f[i] = k
      BY <3>3, <3>4, Zenon DEF Reorders
    <3>6. Settled(q, r, log, f, m, c)
      BY <3>1, <3>4, <3>5, Zenon DEF Settled
    <3> QED BY <3>3, <3>6, Zenon
  <2> QED BY <2>2, <2>3
<1>11. PICK f, m, c : Settled(q, r, log, f, m, c)
  BY <1>10, Zenon
<1>12. /\ \A i \in DOMAIN q : f[i] \in DOMAIN q
       /\ \A i, k \in DOMAIN q : f[i] = f[k] => i = k
       /\ \A k \in DOMAIN q : \E i \in DOMAIN q : f[i] = k
       /\ \A i \in DOMAIN q : r[i] = IF f[i] = m THEN c ELSE q[f[i]]
  BY <1>11, Zenon DEF Settled
<1>13. m \in DOMAIN q =>
         /\ c.nr = q[m].nr
         /\ q[m].log = None => c.log = log /\ c.found = q[m].found
         /\ q[m].log # None => c.log = q[m].log /\ (c.found => q[m].found \/ c.log = log)
  BY <1>11, Zenon DEF Settled
<1>14. ASSUME NEW i \in DOMAIN q
       PROVE  /\ r[i].nr = q[f[i]].nr /\ f[i] \in DOMAIN q
              /\ r[i].nr \in DOMAIN d /\ q[f[i]].log = d[r[i].nr].log
              /\ f[i] # m => r[i] = q[f[i]]
              /\ f[i] = m => r[i] = c /\ m \in DOMAIN q
  <2>1. f[i] \in DOMAIN q /\ r[i] = IF f[i] = m THEN c ELSE q[f[i]]
    BY <1>12, Zenon
  <2>2. r[i].nr = q[f[i]].nr
    BY <1>13, <2>1, Zenon
  <2>3. q[f[i]].nr \in DOMAIN d /\ q[f[i]].log = d[q[f[i]].nr].log
    BY <1>9, <2>1, Zenon
  <2> QED BY <2>1, <2>2, <2>3, Zenon
<1>15. ASSUME NEW i \in DOMAIN q, NEW k \in DOMAIN q, r[i].nr = r[k].nr PROVE i = k
  <2>1. q[f[i]].nr = q[f[k]].nr /\ f[i] \in DOMAIN q /\ f[k] \in DOMAIN q
    BY <1>14, <1>15, Zenon
  <2>2. f[i] = f[k]
    BY <1>9, <2>1, ZenonT(60)
  <2> QED BY <1>12, <2>2, Zenon
<1>16. ASSUME NEW i \in DOMAIN q PROVE r[i].log = e[r[i].nr].log
  <2>1. f[i] \in DOMAIN q /\ r[i].nr = q[f[i]].nr /\ r[i].nr \in DOMAIN d
    BY <1>14, Zenon
  <2>2. q[f[i]].log = d[r[i].nr].log
    BY <1>14, Zenon
  <2>3. CASE q[f[i]].log # None
    <3>1. r[i].log = q[f[i]].log
      BY <1>13, <1>14, <2>1, <2>3, Zenon
    <3> QED BY <1>8, <2>1, <2>2, <2>3, <3>1, Zenon
  <2>4. CASE q[f[i]].log = None
    <3>1. r[i].log = log \/ r[i].log = None
      BY <1>13, <1>14, <2>1, <2>4, Zenon
    <3>2. CASE r[i].log = None
      <4>1. ~\E j \in DOMAIN r : r[j].nr = r[i].nr /\ r[j].log # None
        BY <1>10, <1>15, <3>2, Zenon
      <4> QED BY <1>8, <2>1, <2>2, <2>4, <3>2, <4>1, Zenon
    <3>3. CASE r[i].log = log
      <4>1. \E j \in DOMAIN r : r[j].nr = r[i].nr /\ r[j].log # None
        BY <1>5, <1>10, <3>3, Zenon
      <4> QED BY <1>8, <2>1, <2>2, <2>4, <3>3, <4>1, Zenon
    <3> QED BY <3>1, <3>2, <3>3
  <2> QED BY <2>3, <2>4
<1>17. ASSUME NEW i \in DOMAIN d, ~e[i].came
       PROVE  \E j \in DOMAIN q : r[j].nr = i /\ ~r[j].found
  <2>1. ~d[i].came
    BY <1>8, <1>17, Zenon
  <2>2. PICK k \in DOMAIN q : q[k].nr = i /\ ~q[k].found
    BY <1>9, <2>1, Zenon
  <2>3. PICK j \in DOMAIN q : f[j] = k
    BY <1>12, Zenon
  <2>4. r[j].nr = i
    BY <1>14, <2>2, <2>3, Zenon
  <2>5. CASE k # m
    BY <1>14, <2>2, <2>3, <2>4, <2>5, Zenon
  <2>6. CASE k = m
    <3>1. r[j] = c /\ m \in DOMAIN q
      BY <1>14, <2>3, <2>6, Zenon
    <3>2. q[m].log = d[i].log
      BY <1>9, <2>2, <2>6, Zenon
    <3>3. ~(d[i].log # None /\ d[i].log = log)
      BY <1>8, <1>17, Zenon
    <3>4. ~c.found
      BY <1>13, <2>2, <2>6, <3>1, <3>2, <3>3, Zenon
    <3> QED BY <2>4, <3>1, <3>4, Zenon
  <2> QED BY <2>5, <2>6
<1>18. \A j \in DOMAIN r : r[j].nr \in DOMAIN e
  BY <1>6, <1>10, <1>14, Zenon
<1>19. /\ \A j, k \in DOMAIN r : r[j].nr = r[k].nr => j = k
       /\ \A j \in DOMAIN r : r[j].nr \in DOMAIN e /\ r[j].log = e[r[j].nr].log
       /\ \A i \in DOMAIN e : ~e[i].came => \E j \in DOMAIN r : r[j].nr = i /\ ~r[j].found
  BY <1>6, <1>10, <1>16, <1>17, <1>18, <1>15, Zenon
<1> QED BY <1>2, <1>4, <1>19, Zenon DEF EmitsInv

\* vm.expectEmit adds an expectation with a number of its own.
LEMMA ExpectedEmit ==
  ASSUME Types, EmitsInv, expect_emit
  PROVE  EmitsInv'
<1>1. PICK q : q = expected_emits
  BY Zenon
<1>2. PICK d : d = declared
  BY Zenon
<1>3. PICK n \in Nat : n = Len(d)
  BY <1>2 DEF Types
<1>4. PICK k \in Nat : k = Len(q)
  BY <1>1 DEF Types
<1>5. PICK x : x = [depth |-> Depth, log |-> None, found |-> FALSE, nr |-> n + 1]
  BY Zenon
<1>6. PICK y : y = [log |-> None, came |-> FALSE]
  BY Zenon
<1>7. q \in Seq(Expected) /\ d \in Seq(Declared) /\ DOMAIN q = 1..k /\ DOMAIN d = 1..n
  BY <1>1, <1>2, <1>3, <1>4 DEF Types
<1>8. PICK r : r = expected_emits'
  BY Zenon
<1>9. PICK e : e = declared'
  BY Zenon
<1>10. r = Append(q, x) /\ e = Append(d, y)
  BY <1>1, <1>2, <1>3, <1>5, <1>6, <1>8, <1>9, Zenon DEF expect_emit
<1>11. x.log = None /\ ~x.found /\ x.nr = n + 1 /\ y.log = None
  BY <1>5, <1>6, Zenon
<1>12. DOMAIN r = 1 .. k + 1 /\ r[k + 1] = x /\ \A j \in 1..k : r[j] = q[j]
  BY <1>4, <1>7, <1>10
<1>13. DOMAIN e = 1 .. n + 1 /\ e[n + 1] = y /\ \A i \in 1..n : e[i] = d[i]
  BY <1>3, <1>7, <1>10
<1>14. /\ \A i, j \in DOMAIN q : q[i].nr = q[j].nr => i = j
       /\ \A j \in DOMAIN q : q[j].nr \in DOMAIN d /\ q[j].log = d[q[j].nr].log
       /\ \A i \in DOMAIN d : ~d[i].came => \E j \in DOMAIN q : q[j].nr = i /\ ~q[j].found
  BY <1>1, <1>2, Zenon DEF EmitsInv
<1>15. /\ \A i \in 1 .. n + 1 : i \in 1..n \/ i = n + 1
       /\ \A j \in 1 .. k + 1 : j \in 1..k \/ j = k + 1
       /\ n + 1 \notin 1..n /\ n + 1 \in 1 .. n + 1 /\ k + 1 \in 1 .. k + 1
       /\ \A i \in 1..n : i \in 1 .. n + 1
       /\ \A j \in 1..k : j \in 1 .. k + 1
  OBVIOUS
<1>16. ASSUME NEW i \in 1 .. k + 1, NEW j \in 1 .. k + 1, r[i].nr = r[j].nr PROVE i = j
  <2>1. \A l \in 1..k : r[l].nr \in 1..n /\ r[l] = q[l]
    BY <1>7, <1>12, <1>14, ZenonT(60)
  <2>2. r[k + 1].nr = n + 1
    BY <1>11, <1>12, Zenon
  <2>3. CASE i \in 1..k /\ j \in 1..k
    <3>1. q[i].nr = q[j].nr /\ i \in DOMAIN q /\ j \in DOMAIN q
      BY <1>7, <1>16, <2>1, <2>3, Zenon
    <3> QED BY <1>14, <3>1, Zenon
  <2>4. CASE i = k + 1 /\ j = k + 1
    BY <2>4, Zenon
  <2> QED BY <1>15, <1>16, <2>1, <2>2, <2>3, <2>4, Zenon
<1>17. ASSUME NEW j \in 1 .. k + 1 PROVE r[j].nr \in DOMAIN e /\ r[j].log = e[r[j].nr].log
  <2>1. CASE j = k + 1
    BY <1>11, <1>12, <1>13, <1>15, <2>1, Zenon
  <2>2. CASE j \in 1..k
    <3>1. r[j] = q[j] /\ q[j].nr \in 1..n /\ q[j].log = d[q[j].nr].log
      BY <1>7, <1>12, <1>14, <2>2, Zenon
    <3> QED BY <1>13, <1>15, <3>1, Zenon
  <2> QED BY <1>15, <2>1, <2>2, Zenon
<1>18. ASSUME NEW i \in 1 .. n + 1, ~e[i].came
       PROVE  \E j \in DOMAIN r : r[j].nr = i /\ ~r[j].found
  <2>1. CASE i = n + 1
    BY <1>11, <1>12, <1>15, <2>1, Zenon
  <2>2. CASE i \in 1..n
    <3>1. PICK j \in 1..k : q[j].nr = i /\ ~q[j].found
      BY <1>7, <1>13, <1>14, <1>18, <2>2, Zenon
    <3> QED BY <1>12, <1>15, <3>1, Zenon
  <2> QED BY <1>15, <2>1, <2>2, Zenon
<1>19. /\ \A i, j \in DOMAIN r : r[i].nr = r[j].nr => i = j
       /\ \A j \in DOMAIN r : r[j].nr \in DOMAIN e /\ r[j].log = e[r[j].nr].log
       /\ \A i \in DOMAIN e : ~e[i].came => \E j \in DOMAIN r : r[j].nr = i /\ ~r[j].found
  BY <1>12, <1>13, <1>16, <1>17, <1>18, Zenon
<1> QED BY <1>8, <1>9, <1>19, Zenon DEF EmitsInv

\* The end of a call empties the queue once every expectation is found, and then
\* every log has come.
LEMMA EmitsEnded ==
  ASSUME Types, EmitsInv, NEW kind, NEW static, NEW status, NEW d,
         End(kind, static, status, d), UNCHANGED declared
  PROVE  EmitsInv'
<1>1. \/ expected_emits' = expected_emits
      \/ expected_emits' = << >> /\ \A i \in DOMAIN expected_emits : expected_emits[i].found
  BY Zenon DEF End, end_expected, end_missing, end_other, emits_met
<1>2. CASE expected_emits' = expected_emits
  BY <1>2, Zenon DEF EmitsInv
<1>3. CASE expected_emits' = << >> /\ \A i \in DOMAIN expected_emits : expected_emits[i].found
  <2>1. \A i \in DOMAIN declared : declared[i].came
    BY <1>3, Zenon DEF EmitsInv
  <2>2. DOMAIN expected_emits' = {}
    BY <1>3
  <2> QED BY <2>1, <2>2, Zenon DEF EmitsInv
<1> QED BY <1>1, <1>2, <1>3

\* Every step preserves the pairing of expectations with entries.
LEMMA EmitsStep ==
  ASSUME Types, EmitsInv, Next
  PROVE  EmitsInv'
<1>1. CASE UNCHANGED <<expected_emits, declared>>
  BY <1>1, Zenon DEF EmitsInv
<1>2. ASSUME NEW status, Return(status) PROVE EmitsInv'
  BY <1>2, EmitsEnded, Zenon DEF Return
<1>3. ASSUME NEW target, NEW static, answered_call(target, static) PROVE EmitsInv'
  BY <1>3, EmitsEnded, Zenon DEF answered_call
<1>4. \/ UNCHANGED <<expected_emits, declared>>
      \/ expect_emit
      \/ \E log \in Logs : Emit(log)
      \/ \E target \in Contracts, static \in BOOLEAN : answered_call(target, static)
      \/ \E status \in {"ok", "revert", "other"} : Return(status)
  BY Steps, Zenon DEF prank_call, broadcast_call, stopPrank, stopBroadcast, expect_revert,
     expect_call, mock_call, record, call, create, history
<1> QED BY <1>1, <1>2, <1>3, <1>4, ExpectedEmit, EmittedLog, Zenon

\* Only the end of the root call gives the verdict, after the last checks.
LEMMA VerdictStep ==
  ASSUME Types, VerdictInv, Next
  PROVE  VerdictInv'
<1>1. verdict = "running"
  BY Steps, Zenon DEF prank_call, broadcast_call, stopPrank, stopBroadcast, expect_revert,
     expect_call, mock_call, record, call, create, expect_emit, Emit, answered_call, Return, Step
<1>2. CASE verdict' = "running"
  BY <1>2 DEF VerdictInv
<1>3. ASSUME NEW status, Return(status) PROVE VerdictInv'
  <2>1. SUFFICES ASSUME verdict' = "ok", ~swallowed'
                 PROVE  (emits_met(expected_emits) /\ calls_met /\ ~reverts(0))'
    BY Zenon DEF VerdictInv
  <2>2. /\ End(Top.kind, Top.static, status, Depth - 1) /\ UNCHANGED expected_calls
        /\ Depth - 1 \in Nat
    BY <1>3, ReturnTypes, Zenon DEF Return
  <2>3. ~(Depth - 1 > 0)
    BY <2>1, <2>2, Zenon DEF End, end_expected, end_missing, end_other, Verdict
  <2>4. Depth - 1 = 0
    <3>1. PICK d \in Nat : d = Depth - 1
      BY <2>2, Zenon
    <3>2. ~(d > 0)
      BY <2>3, <3>1, Zenon
    <3>3. d = 0
      BY <3>2
    <3> QED BY <3>1, <3>3, Zenon
  <2>5. end_other(Top.kind, Top.static, status, Depth - 1)
    BY <2>1, <2>2, <2>4, Zenon DEF End, end_expected, end_missing
  <2>6. /\ ~reverts(Depth - 1) /\ calls_met /\ emits_met(expected_emits)
        /\ UNCHANGED expected_revert
        /\ expected_emits' \in {expected_emits, << >>}
    BY <2>1, <2>3, <2>5, Zenon DEF end_other, Verdict
  <2>7. calls_met' /\ ~reverts(0)'
    BY <2>2, <2>4, <2>6, Zenon DEF calls_met, reverts
  <2>8. emits_met(<< >>)
    BY DEF emits_met
  <2>9. emits_met(expected_emits)'
    BY <2>6, <2>8, Zenon DEF emits_met
  <2> QED BY <2>7, <2>9
<1>4. ASSUME NEW target, NEW static, answered_call(target, static) PROVE VerdictInv'
  <2>1. Depth \in Nat \ {0}
    BY <1>1, Running
  <2>2. Depth > 0
    BY <2>1
  <2>3. verdict' # "ok"
    BY <1>4, <2>2, Zenon DEF answered_call, End, end_expected, end_missing, end_other, Verdict
  <2> QED BY <2>3, Zenon DEF VerdictInv
<1>5. \/ verdict' = verdict
      \/ \E target \in Contracts, static \in BOOLEAN : answered_call(target, static)
      \/ \E status \in {"ok", "revert", "other"} : Return(status)
  BY Steps, Zenon DEF prank_call, broadcast_call, stopPrank, stopBroadcast, expect_revert,
     expect_call, mock_call, record, call, create, expect_emit, Emit, evm
<1> QED BY <1>1, <1>2, <1>3, <1>4, <1>5, Zenon

-----------------------------------------------------------------------------
(* The theorems *)

\* The inductive invariant.
IInv == Types /\ NoncesInv /\ RecorderInv /\ PranksInv /\ EmitsInv /\ VerdictInv

\* Whatever cheatcodes a test combines, and however deep its calls go, the state of
\* the inspector is one that the invariants describe.
THEOREM CheatcodesInvariant == Spec => []IInv
<1>1. Init => IInv
  <2> SUFFICES ASSUME Init PROVE IInv
    OBVIOUS
  <2>1. Types
    BY InitTypes
  <2>2. Len(txs) = Nonce /\ DOMAIN txs = {} /\ Depth = 1 /\ ~(hits > 0)
    BY DEF Init, Nonce, Depth
  <2>3. NoncesInv
    BY <2>2, Zenon DEF NoncesInv, NoncesFollow
  <2>4. RecorderInv
    BY <2>2 DEF RecorderInv, Init
  <2>5. PranksInv
    BY <2>2, Zenon DEF PranksInv, Init
  <2>6. DOMAIN expected_emits = {} /\ DOMAIN declared = {}
    BY DEF Init
  <2>7. EmitsInv
    BY <2>6, Zenon DEF EmitsInv
  <2>8. VerdictInv
    BY DEF VerdictInv, Init
  <2> QED BY <2>1, <2>3, <2>4, <2>5, <2>7, <2>8 DEF IInv
<1>2. IInv /\ [Next]_vars => IInv'
  <2> SUFFICES ASSUME IInv, [Next]_vars PROVE IInv'
    OBVIOUS
  <2>1. CASE Next
    BY <2>1, StepTypes, NoncesStep, RecorderStep, PranksStep, EmitsStep, VerdictStep, Zenon DEF IInv
  <2>2. CASE UNCHANGED vars
    <3>1. /\ UNCHANGED <<stack, origin, prank, broadcast, expected_revert, expected_calls>>
          /\ UNCHANGED <<expected_emits, recorded, txs, called, created, verdict>>
          /\ UNCHANGED history
      BY <2>2, Zenon DEF vars, cheats
    <3>2. Depth' = Depth /\ Nonce' = Nonce /\ Types'
      BY <2>2, <3>1, StepTypes, Zenon DEF Depth, Nonce, IInv
    <3>3. NoncesInv' /\ RecorderInv'
      BY <3>1, <3>2, Zenon DEF IInv, NoncesInv, NoncesFollow, RecorderInv, history
    <3>4. PranksInv'
      BY <3>1, <3>2, Zenon DEF IInv, PranksInv, Over, history
    <3>5. EmitsInv'
      BY <3>1, Zenon DEF IInv, EmitsInv, history
    <3>6. VerdictInv'
      BY <3>1, Zenon DEF IInv, VerdictInv, emits_met, calls_met, reverts, history
    <3> QED BY <3>2, <3>3, <3>4, <3>5, <3>6, Zenon DEF IInv
  <2> QED BY <2>1, <2>2
<1> QED BY <1>1, <1>2, PTL DEF Spec

\* A prank or broadcast for a single call changes one call and is gone after it, and
\* tx.origin is the test's sender again once none is in force (call_end, create_end).
THEOREM PranksAlwaysEnd == Spec => []PranksEnd
<1>1. IInv => PranksEnd
  <2> SUFFICES ASSUME IInv PROVE PranksEnd
    OBVIOUS
  <2>1. Depth \in Nat
    BY InForce DEF IInv
  <2> QED BY <2>1, Zenon DEF IInv, PranksInv, PranksEnd, Over
<1> QED BY <1>1, CheatcodesInvariant, PTL

\* The nonces of broadcast transactions follow each other (inspector.rs: call, create).
THEOREM NoncesAlwaysFollow == Spec => []NoncesFollow
<1>1. IInv => NoncesFollow
  BY Zenon DEF IInv, NoncesInv, NoncesFollow
<1> QED BY <1>1, CheatcodesInvariant, PTL

\* A test that passes without having reverted itself met every expectation.
THEOREM ExpectationsAlwaysMet == Spec => []ExpectationsMet
<1>1. IInv => ExpectationsMet
  BY Zenon DEF IInv, EmitsInv, VerdictInv, ExpectationsMet, emits_met
<1> QED BY <1>1, CheatcodesInvariant, PTL

\* The end of a call finds the accesses that its start pushed.
THEOREM RecorderAlwaysSafe == Spec => []RecorderSafe
<1>1. IInv => RecorderSafe
  BY Zenon DEF IInv, RecorderInv, RecorderSafe
<1> QED BY <1>1, CheatcodesInvariant, PTL

===========================================================================
