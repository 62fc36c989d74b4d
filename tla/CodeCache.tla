----------------------------- MODULE CodeCache -----------------------------
(***************************************************************************)
(* The cache of account code shared by all forks                           *)
(* (crates/evm/core/src/backend/code_cache.rs).  It is written under the   *)
(* assumption that code is immutable: an account has no code up to some    *)
(* block and the same code from then on.                                   *)
(*                                                                         *)
(* get_code runs in one task per account request.  A task awaits the       *)
(* provider between looking into the cache and updating it, and the update *)
(* is a get_or_insert_with followed by an insert, so other tasks may act   *)
(* in between.  The capacity of the cache evicts any entry at any time.    *)
(***************************************************************************)
EXTENDS Option, Integers

CONSTANTS
  Task,      \* concurrent calls of get_code
  Account,   \* keys (Address, Chain)
  MaxBlock,  \* blocks are 0..MaxBlock
  Code,      \* non-empty code
  Empty,     \* Bytes::new()
  deployed,  \* Account -> first block with code
  code_of    \* Account -> Code

Block == 0..MaxBlock

ASSUME CodeAssumption ==
  /\ MaxBlock \in Nat
  /\ Empty \notin Code
  /\ None \notin Code \cup {Empty} \cup Account \cup Block
  /\ None \notin Block \X Code
  /\ deployed \in [Account -> Nat]
  /\ code_of \in [Account -> Code]

VARIABLES
  cache,   \* Account -> CodeCacheEntry, None when absent
  call     \* Task -> the state of its call

code_vars == <<cache, call>>

\* What the provider answers: code is immutable once deployed.
code_at(a, b) == IF deployed[a] <= b THEN code_of[a] ELSE Empty

NoEntry == [code_detected |-> None, no_code_detected_block_number |-> None]

NoCall == [pc |-> "idle", account |-> None, block |-> None, code |-> None,
           entry |-> NoEntry]

Become(t, c) == call' = [call EXCEPT ![t] = c]

\* Mutant: code counts for the blocks before the one it was seen at.
found_code_reversed(e, b) ==
  e.code_detected # None /\ e.code_detected[1] >= b

\* Code was detected at block b or earlier.
found_code(e, b) ==
  e.code_detected # None /\ e.code_detected[1] <= b

\* No code was detected at block b or later.
found_no_code(e, b) ==
  e.no_code_detected_block_number # None /\ e.no_code_detected_block_number >= b

\* check_cache
check_cache(a, b) ==
  IF cache[a] = None THEN None
  ELSE IF found_code(cache[a], b) THEN cache[a].code_detected[2]
  ELSE IF found_no_code(cache[a], b) THEN Empty
  ELSE None

\* get_code: answered from the cache, or the provider is asked.
get_code(t, a, b) ==
  /\ call[t].pc = "idle"
  /\ LET hit == check_cache(a, b)
     IN  Become(t, [NoCall EXCEPT !.pc = IF hit = None THEN "provider" ELSE "done",
                      !.account = a, !.block = b, !.code = hit])
  /\ UNCHANGED cache

provider_answers(t) ==
  /\ call[t].pc = "provider"
  /\ Become(t, [call[t] EXCEPT !.pc = "cache",
                  !.code = code_at(call[t].account, call[t].block)])
  /\ UNCHANGED cache

\* The error is returned and nothing is cached.
provider_fails(t) ==
  /\ call[t].pc = "provider"
  /\ Become(t, NoCall)
  /\ UNCHANGED cache

\* Mutant: the test for empty code is the wrong way round.
with_code_swapped(e, c) ==
  IF c.code # Empty THEN [e EXCEPT !.no_code_detected_block_number = c.block]
  ELSE [e EXCEPT !.code_detected = <<c.block, c.code>>]

\* An entry with what the call learnt.
with_code(e, c) ==
  IF c.code = Empty THEN [e EXCEPT !.no_code_detected_block_number = c.block]
  ELSE [e EXCEPT !.code_detected = <<c.block, c.code>>]

\* cache_code: get_or_insert_with, a copy of the entry is updated ...
cache_code_get(t) ==
  /\ call[t].pc = "cache"
  /\ LET a == call[t].account
         e == IF cache[a] = None THEN NoEntry ELSE cache[a]
     IN  /\ cache' = [cache EXCEPT ![a] = e]
         /\ Become(t, [call[t] EXCEPT !.pc = "insert", !.entry = with_code(e, call[t])])

\* ... and inserted.
cache_code_insert(t) ==
  /\ call[t].pc = "insert"
  /\ cache' = [cache EXCEPT ![call[t].account] = call[t].entry]
  /\ Become(t, [call[t] EXCEPT !.pc = "done", !.entry = NoEntry])

\* The caller takes the code.
return_code(t) ==
  /\ call[t].pc = "done"
  /\ Become(t, NoCall)
  /\ UNCHANGED cache

\* quick_cache drops an entry when it is full.
evict(a) ==
  /\ cache[a] # None
  /\ cache' = [cache EXCEPT ![a] = None]
  /\ UNCHANGED call

CodeInit ==
  /\ cache = [a \in Account |-> None]
  /\ call = [t \in Task |-> NoCall]

Step(t) ==
  \/ provider_answers(t)
  \/ provider_fails(t)
  \/ cache_code_get(t)
  \/ cache_code_insert(t)
  \/ return_code(t)

CodeNext ==
  \/ \E t \in Task, a \in Account, b \in Block : get_code(t, a, b)
  \/ \E t \in Task : Step(t)
  \/ \E a \in Account : evict(a)

CodeSpec == CodeInit /\ [][CodeNext]_code_vars
-----------------------------------------------------------------------------
(* Correctness *)

Entry == [code_detected : (Block \X Code) \cup {None},
          no_code_detected_block_number : Block \cup {None}]

Call == [pc : {"idle", "provider", "cache", "insert", "done"},
         account : Account \cup {None}, block : Block \cup {None},
         code : Code \cup {Empty, None}, entry : Entry]

\* The cache holds entries, a call that is not idle has its arguments and, from
\* the provider's answer on, its code.
CodeTypeOK ==
  /\ cache \in [Account -> Entry \cup {None}]
  /\ call \in [Task -> Call]
  /\ \A t \in Task :
       /\ call[t].pc # "idle" => call[t].account \in Account /\ call[t].block \in Block
       /\ call[t].pc \in {"cache", "insert", "done"} => call[t].code # None

\* What an entry of account a says is true of a.
Sound(a, e) ==
  /\ e.code_detected # None =>
       code_at(a, e.code_detected[1]) = e.code_detected[2]
  /\ e.no_code_detected_block_number # None =>
       code_at(a, e.no_code_detected_block_number) = Empty

\* Whatever tasks update an entry at the same time, the cache and the copies
\* they work on never claim something false.
CacheSound ==
  /\ \A a \in Account : cache[a] # None => Sound(a, cache[a])
  /\ \A t \in Task : call[t].pc = "insert" => Sound(call[t].account, call[t].entry)

\* get_code returns the code the account had at the block it was asked for,
\* from the cache or not.
CodeExact ==
  \A t \in Task : call[t].pc = "done" =>
    call[t].code = code_at(call[t].account, call[t].block)

-----------------------------------------------------------------------------
(* The calls of get_code as readers of the chain *)

Query == Account \X Block

as_reader(c) ==
  CASE c.pc = "idle" -> [pc |-> "idle", query |-> None, answer |-> None]
    [] c.pc = "done" -> [pc |-> "answered", query |-> <<c.account, c.block>>, answer |-> c.code]
    [] OTHER -> [pc |-> "waiting", query |-> <<c.account, c.block>>, answer |-> None]

Reads == INSTANCE RemoteReads WITH
  Reader <- Task, Source <- {0}, Failed <- "failed",
  right <- [s \in {0} |-> [q \in Query |-> {code_at(q[1], q[2])}]],
  reader <- [t \in Task |-> as_reader(call[t])],
  source <- 0

\* The cache cannot be told from asking the provider: whatever tasks run at the
\* same time and whatever is evicted, get_code returns the code that the account
\* had at the block, or the error of the provider.
ReadsCode == Reads!Spec
=============================================================================
