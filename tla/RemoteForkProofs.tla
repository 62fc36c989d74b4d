------------------------- MODULE RemoteForkProofs -------------------------
(***************************************************************************)
(* What the backends of a process share of a remote chain: the cache of    *)
(* account code (CodeCache) and the handler that creates forks             *)
(* (MultiFork).                                                            *)
(*                                                                         *)
(* get_code is exact for any number of tasks, accounts and blocks,         *)
(* although the tasks overwrite each other's entries. The argument:        *)
(* soundness of every entry and of every copy a task is about to insert    *)
(* (CacheSound) is preserved, and a sound entry answers for other blocks   *)
(* because code is immutable (lemma Immutable).                            *)
(*                                                                         *)
(* Forks are shared and their ids are unique for any number of backends,   *)
(* urls, operations and failures. A backend waits in one place: its only   *)
(* request is queued, or one task serves it (WaitInv). So an answer goes   *)
(* to a backend that waits for it, a task is never without a backend, and  *)
(* the handler is not asked to shut down while one is left (CloseInv).     *)
(* The suffixes of the ids of a fork end below its number of senders,      *)
(* which an answer raises by the ids it gives (IdInv). The latest block of *)
(* a url is looked up by one task at a time and only while it is not       *)
(* known (LatestInv).                                                      *)
(***************************************************************************)
EXTENDS CodeCache, MultiFork, TLAPS

-----------------------------------------------------------------------------
(* The code cache *)

\* Code that was there at a block is there later; an account without code at a
\* block had none before.
LEMMA Immutable ==
  ASSUME NEW a \in Account, NEW b \in Block, NEW c \in Block, b <= c
  PROVE  /\ code_at(a, b) # Empty => code_at(a, c) = code_at(a, b)
         /\ code_at(a, c) = Empty => code_at(a, b) = Empty
BY CodeAssumption DEF code_at, Block

\* The provider's answers are code or empty.
LEMMA CodeAtType ==
  ASSUME NEW a \in Account, NEW b \in Block
  PROVE  code_at(a, b) \in Code \cup {Empty}
BY CodeAssumption DEF code_at, Block

\* A hit of check_cache in a sound entry is the code at the block.
LEMMA HitExact ==
  ASSUME CodeTypeOK, CacheSound, NEW a \in Account, NEW b \in Block,
         check_cache(a, b) # None
  PROVE  /\ check_cache(a, b) = code_at(a, b)
         /\ check_cache(a, b) \in Code \cup {Empty}
<1>1. cache[a] # None /\ cache[a] \in Entry
  BY DEF check_cache, CodeTypeOK
<1>2. Sound(a, cache[a])
  BY <1>1 DEF CacheSound
<1>3. CASE found_code(cache[a], b)
  <2>1. cache[a].code_detected \in Block \X Code
    BY <1>1, <1>3 DEF found_code, Entry
  <2>2. PICK n \in Block, k \in Code : cache[a].code_detected = <<n, k>>
    BY <2>1
  <2>3. n <= b /\ code_at(a, n) = k /\ k # Empty
    BY <1>2, <1>3, <2>2, CodeAssumption DEF found_code, Sound
  <2>4. check_cache(a, b) = k
    BY <1>1, <1>3, <2>2 DEF check_cache
  <2> QED
    BY <2>3, <2>4, Immutable
<1>4. CASE ~found_code(cache[a], b) /\ found_no_code(cache[a], b)
  <2> DEFINE n == cache[a].no_code_detected_block_number
  <2>1. n \in Block /\ n >= b /\ code_at(a, n) = Empty
    BY <1>1, <1>2, <1>4 DEF found_no_code, Entry, Sound
  <2>2. check_cache(a, b) = Empty
    BY <1>1, <1>4 DEF check_cache
  <2>3. b <= n
    BY <2>1 DEF Block
  <2> HIDE DEF n
  <2> QED
    BY <2>1, <2>2, <2>3, Immutable
<1> QED
  BY <1>1, <1>3, <1>4 DEF check_cache

\* The inductive invariant; code received from the provider is exact from then
\* on, and what a cache hit returns is.
CodeIInv ==
  /\ CodeTypeOK
  /\ CacheSound
  /\ \A t \in Task : call[t].pc \in {"cache", "insert", "done"} =>
       call[t].code = code_at(call[t].account, call[t].block)

\* No call runs and nothing is cached at the start.
LEMMA CodeInitIInv == CodeInit => CodeIInv
BY CodeAssumption
   DEF CodeInit, CodeIInv, CodeTypeOK, CacheSound, NoCall, NoEntry, Entry, Call

\* An entry stays sound when a call adds what it learnt.
LEMMA WithCodeSound ==
  ASSUME NEW a \in Account, NEW e \in Entry, Sound(a, e), NEW c \in Call,
         c.block \in Block, c.code \in Code \cup {Empty},
         c.code = code_at(a, c.block)
  PROVE  with_code(e, c) \in Entry /\ Sound(a, with_code(e, c))
<1>1. CASE c.code = Empty
  BY <1>1, Zenon DEF with_code, Entry, Sound
<1>2. CASE c.code # Empty
  <2>1. c.code \in Code /\ with_code(e, c) = [e EXCEPT !.code_detected = <<c.block, c.code>>]
    BY <1>2 DEF with_code
  <2>2. <<c.block, c.code>> \in Block \X Code
    BY <2>1
  <2>3. /\ with_code(e, c).code_detected = <<c.block, c.code>>
        /\ with_code(e, c).no_code_detected_block_number = e.no_code_detected_block_number
        /\ with_code(e, c) \in Entry
    BY <2>1, <2>2 DEF Entry
  <2> QED
    BY <2>1, <2>3 DEF Sound
<1> QED
  BY <1>1, <1>2

\* Every step of a call and every eviction keeps the invariant.
LEMMA CodeNextIInv == CodeIInv /\ [CodeNext]_code_vars => CodeIInv'
<1> SUFFICES ASSUME CodeIInv, [CodeNext]_code_vars PROVE CodeIInv'
  OBVIOUS
<1> USE DEF CodeIInv
<1>a. NoEntry \in Entry /\ NoCall \in Call
  BY DEF NoEntry, NoCall, Entry, Call
<1>1. ASSUME NEW t \in Task, NEW a \in Account, NEW b \in Block, get_code(t, a, b)
      PROVE  CodeIInv'
  <2> DEFINE hit == check_cache(a, b)
             new == [NoCall EXCEPT !.pc = IF hit = None THEN "provider" ELSE "done",
                                   !.account = a, !.block = b, !.code = hit]
  <2>1. call' = [call EXCEPT ![t] = new] /\ cache' = cache
    BY <1>1 DEF get_code, Become
  <2>2. hit \in Code \cup {Empty, None} /\ (hit # None => hit = code_at(a, b))
    BY HitExact
  <2> HIDE DEF hit
  <2>3. /\ new \in Call /\ new.account = a /\ new.block = b /\ new.code = hit
        /\ new.pc = IF hit = None THEN "provider" ELSE "done"
    BY <1>a, <2>2, Zenon DEF Call, NoCall
  <2> HIDE DEF new
  <2> QED
    BY <2>1, <2>2, <2>3, CodeAssumption DEF CodeTypeOK, CacheSound
<1>2. ASSUME NEW t \in Task, provider_answers(t)
      PROVE  CodeIInv'
  <2> DEFINE k == code_at(call[t].account, call[t].block)
             new == [call[t] EXCEPT !.pc = "cache", !.code = k]
  <2>1. call' = [call EXCEPT ![t] = new] /\ cache' = cache /\ call[t].pc = "provider"
    BY <1>2 DEF provider_answers, Become
  <2>2. /\ call[t] \in Call /\ call[t].account \in Account /\ call[t].block \in Block
        /\ k \in Code \cup {Empty}
    BY <2>1, CodeAtType DEF CodeTypeOK
  <2>3. /\ new \in Call /\ new.account = call[t].account /\ new.block = call[t].block
        /\ new.code = k /\ new.pc = "cache" /\ k # None
    BY <2>2, CodeAssumption, Zenon DEF Call
  <2> HIDE DEF new
  <2> QED
    BY <2>1, <2>2, <2>3 DEF CodeTypeOK, CacheSound
<1>3. ASSUME NEW t \in Task, provider_fails(t)
      PROVE  CodeIInv'
  BY <1>3, <1>a DEF provider_fails, Become, NoCall, CodeTypeOK, CacheSound
<1>4. ASSUME NEW t \in Task, cache_code_get(t)
      PROVE  CodeIInv'
  <2> DEFINE a == call[t].account
             e == IF cache[a] = None THEN NoEntry ELSE cache[a]
             f == with_code(e, call[t])
             new == [call[t] EXCEPT !.pc = "insert", !.entry = f]
  <2>1. /\ call' = [call EXCEPT ![t] = new] /\ cache' = [cache EXCEPT ![a] = e]
        /\ call[t].pc = "cache"
    BY <1>4 DEF cache_code_get, Become
  <2>2. /\ call[t] \in Call /\ a \in Account /\ call[t].block \in Block
        /\ call[t].code \in Code \cup {Empty} /\ call[t].code = code_at(a, call[t].block)
    BY <2>1 DEF CodeTypeOK, Call
  <2>3. e \in Entry /\ Sound(a, e)
    BY <2>2, <1>a, SMTT(60) DEF CodeTypeOK, CacheSound, Sound, NoEntry
  <2> HIDE DEF e
  <2>4. f \in Entry /\ Sound(a, f)
    BY <2>2, <2>3, WithCodeSound
  <2> HIDE DEF f
  <2>5. /\ new \in Call /\ new.account = a /\ new.block = call[t].block
        /\ new.code = call[t].code /\ new.pc = "insert" /\ new.entry = f
    BY <2>2, <2>4, Zenon DEF Call
  <2> HIDE DEF new, a
  <2>6. CodeTypeOK'
    BY <2>1, <2>2, <2>3, <2>5, CodeAssumption DEF CodeTypeOK
  <2>7. CacheSound'
    BY <2>1, <2>2, <2>3, <2>4, <2>5, SMTT(60) DEF CodeTypeOK, CacheSound, Sound, code_at
  <2> QED
    BY <2>1, <2>2, <2>5, <2>6, <2>7 DEF CodeTypeOK, code_at
<1>5. ASSUME NEW t \in Task, cache_code_insert(t)
      PROVE  CodeIInv'
  <2> DEFINE a == call[t].account
             f == call[t].entry
             new == [call[t] EXCEPT !.pc = "done", !.entry = NoEntry]
  <2>1. /\ call' = [call EXCEPT ![t] = new] /\ cache' = [cache EXCEPT ![a] = f]
        /\ call[t].pc = "insert"
    BY <1>5 DEF cache_code_insert, Become
  <2>2. call[t] \in Call /\ a \in Account /\ f \in Entry /\ Sound(a, f)
    BY <2>1 DEF CodeTypeOK, CacheSound, Call
  <2>3. /\ new \in Call /\ new.account = a /\ new.block = call[t].block
        /\ new.code = call[t].code /\ new.pc = "done"
    BY <2>2, <1>a, Zenon DEF Call
  <2> HIDE DEF new, a, f
  <2>4. CodeTypeOK'
    BY <2>1, <2>2, <2>3 DEF CodeTypeOK, a
  <2>5. CacheSound'
    BY <2>1, <2>2, <2>3 DEF CodeTypeOK, CacheSound, Sound, code_at
  <2> QED
    BY <2>1, <2>2, <2>3, <2>4, <2>5, SMTT(60) DEF CodeTypeOK, code_at, a
<1>6. ASSUME NEW t \in Task, return_code(t)
      PROVE  CodeIInv'
  BY <1>6, <1>a DEF return_code, Become, NoCall, CodeTypeOK, CacheSound
<1>7. ASSUME NEW a \in Account, evict(a)
      PROVE  CodeIInv'
  BY <1>7 DEF evict, CodeTypeOK, CacheSound
<1>8. CASE UNCHANGED code_vars
  BY <1>8 DEF code_vars, CodeTypeOK, CacheSound, Sound, code_at
<1> QED
  BY <1>1, <1>2, <1>3, <1>4, <1>5, <1>6, <1>7, <1>8 DEF CodeNext, Step

\* The cache and the calls have their types in every reachable state.
THEOREM CodeTypeCorrect == CodeSpec => []CodeTypeOK
<1>1. CodeIInv => CodeTypeOK
  BY DEF CodeIInv
<1> QED
  BY CodeInitIInv, CodeNextIInv, <1>1, PTL DEF CodeSpec

\* No interleaving of get_code calls puts a false claim into the cache.
THEOREM CacheAlwaysSound == CodeSpec => []CacheSound
<1>1. CodeIInv => CacheSound
  BY DEF CodeIInv
<1> QED
  BY CodeInitIInv, CodeNextIInv, <1>1, PTL DEF CodeSpec

\* get_code returns the code of the account at the block, for all tasks,
\* accounts, blocks and deployment histories.
THEOREM GetCodeExact == CodeSpec => []CodeExact
<1>1. CodeIInv => CodeExact
  BY DEF CodeIInv, CodeExact
<1> QED
  BY CodeInitIInv, CodeNextIInv, <1>1, PTL DEF CodeSpec

-----------------------------------------------------------------------------
(* The refinement *)

\* A step of one task that is a move of one reader is a step of the readers.
LEMMA OneReader ==
  ASSUME CodeTypeOK, NEW t \in Task, NEW new, call' = [call EXCEPT ![t] = new],
         Reads!Moves(as_reader(call[t]), as_reader(new))
  PROVE  Reads!Next
<1>1. \A u \in Task : call'[u] = IF u = t THEN new ELSE call[u]
  BY DEF CodeTypeOK
<1>2. \A u \in Task : Reads!Moves(as_reader(call[u]), as_reader(call'[u]))
  BY <1>1 DEF Reads!Moves
<1> QED
  BY <1>2 DEF Reads!Next, Reads!Read

\* A call whose code is exact has a right answer.
LEMMA RightAnswer ==
  ASSUME NEW a \in Account, NEW b \in Block
  PROVE  /\ <<a, b>> \in Query
         /\ code_at(a, b) \in [s \in {0} |-> [q \in Query |-> {code_at(q[1], q[2])}]][0][<<a, b>>]
<1>1. <<a, b>> \in Query
  BY DEF Query
<1> QED
  BY <1>1

\* Every step of a call is a move of its reader, or changes nothing it sees.
LEMMA NextReads == CodeIInv /\ [CodeNext]_code_vars => [Reads!Next]_(Reads!vars)
<1> SUFFICES ASSUME CodeIInv, [CodeNext]_code_vars PROVE Reads!Next \/ UNCHANGED Reads!vars
  OBVIOUS
<1> USE DEF CodeIInv
<1>1. ASSUME NEW t \in Task, NEW a \in Account, NEW b \in Block, get_code(t, a, b)
      PROVE  Reads!Next
  <2> DEFINE hit == check_cache(a, b)
             new == [NoCall EXCEPT !.pc = IF hit = None THEN "provider" ELSE "done",
                                   !.account = a, !.block = b, !.code = hit]
  <2>1. call' = [call EXCEPT ![t] = new] /\ call[t].pc = "idle"
    BY <1>1 DEF get_code, Become
  <2>2. hit # None => hit = code_at(a, b)
    BY HitExact
  <2> HIDE DEF hit
  <2>3. as_reader(new) = IF hit = None
                         THEN [pc |-> "waiting", query |-> <<a, b>>, answer |-> None]
                         ELSE [pc |-> "answered", query |-> <<a, b>>, answer |-> hit]
    BY DEF as_reader, NoCall
  <2>4. as_reader(call[t]) = Reads!Idle
    BY <2>1 DEF as_reader, Reads!Idle
  <2> HIDE DEF new
  <2>5. Reads!Asks(as_reader(call[t]), as_reader(new))
    BY <2>2, <2>3, <2>4, RightAnswer, Zenon DEF Reads!Asks, Reads!Waiting, Reads!Answered
  <2> QED
    BY <2>1, <2>5, OneReader, Zenon DEF Reads!Moves
<1>2. ASSUME NEW t \in Task, provider_answers(t)
      PROVE  Reads!Next
  <2> DEFINE new == [call[t] EXCEPT !.pc = "cache",
                       !.code = code_at(call[t].account, call[t].block)]
  <2>1. call' = [call EXCEPT ![t] = new] /\ call[t] \in Call /\ call[t].pc = "provider"
    BY <1>2 DEF provider_answers, Become, CodeTypeOK
  <2>2. as_reader(new) = as_reader(call[t])
    BY <2>1 DEF as_reader, Call
  <2> QED
    BY <2>1, <2>2, OneReader, Zenon DEF Reads!Moves
<1>3. ASSUME NEW t \in Task, provider_fails(t)
      PROVE  Reads!Next
  <2>1. /\ call' = [call EXCEPT ![t] = NoCall]
        /\ as_reader(call[t]).pc = "waiting" /\ as_reader(NoCall) = Reads!Idle
    BY <1>3 DEF provider_fails, Become, as_reader, NoCall, Reads!Idle
  <2> QED
    BY <2>1, OneReader, Zenon DEF Reads!Moves, Reads!IsAnswered
<1>4. ASSUME NEW t \in Task, cache_code_get(t)
      PROVE  Reads!Next
  <2> DEFINE a == call[t].account
             e == IF cache[a] = None THEN NoEntry ELSE cache[a]
             new == [call[t] EXCEPT !.pc = "insert", !.entry = with_code(e, call[t])]
  <2>1. call' = [call EXCEPT ![t] = new] /\ call[t] \in Call /\ call[t].pc = "cache"
    BY <1>4 DEF cache_code_get, Become, CodeTypeOK
  <2>2. as_reader(new) = as_reader(call[t])
    BY <2>1 DEF as_reader, Call
  <2> QED
    BY <2>1, <2>2, OneReader, Zenon DEF Reads!Moves
<1>5. ASSUME NEW t \in Task, cache_code_insert(t)
      PROVE  Reads!Next
  <2> DEFINE a == call[t].account
             b == call[t].block
             new == [call[t] EXCEPT !.pc = "done", !.entry = NoEntry]
  <2>1. call' = [call EXCEPT ![t] = new] /\ call[t] \in Call /\ call[t].pc = "insert"
    BY <1>5 DEF cache_code_insert, Become, CodeTypeOK
  <2>2. a \in Account /\ b \in Block /\ call[t].code = code_at(a, b)
    BY <2>1 DEF CodeTypeOK
  <2>3. /\ as_reader(call[t]) = [pc |-> "waiting", query |-> <<a, b>>, answer |-> None]
        /\ as_reader(new) = [pc |-> "answered", query |-> <<a, b>>, answer |-> code_at(a, b)]
    BY <2>1, <2>2 DEF as_reader, Call
  <2> HIDE DEF new, a, b
  <2>4. as_reader(call[t]).pc = "waiting" /\ as_reader(call[t]).query = <<a, b>>
    BY <2>3
  <2>5. as_reader(new) = Reads!Answered(<<a, b>>, code_at(a, b))
    BY <2>3 DEF Reads!Answered
  <2>6. Reads!IsAnswered(as_reader(call[t]), as_reader(new))
    BY <2>2, <2>4, <2>5, RightAnswer DEF Reads!IsAnswered
  <2> QED
    BY <2>1, <2>6, OneReader, Zenon DEF Reads!Moves
<1>6. ASSUME NEW t \in Task, return_code(t)
      PROVE  Reads!Next
  <2>1. /\ call' = [call EXCEPT ![t] = NoCall]
        /\ as_reader(call[t]).pc = "answered" /\ as_reader(NoCall) = Reads!Idle
    BY <1>6 DEF return_code, Become, as_reader, NoCall, Reads!Idle
  <2> QED
    BY <2>1, OneReader, Zenon DEF Reads!Moves, Reads!GoesOn
<1>7. CASE UNCHANGED call
  BY <1>7 DEF Reads!vars
<1> QED
  BY <1>1, <1>2, <1>3, <1>4, <1>5, <1>6, <1>7 DEF CodeNext, Step, evict, code_vars

\* The cache implements a direct read of the chain: every behaviour of get_code
\* calls, with its cache, its races and its evictions, is one of readers that ask
\* the chain themselves.
THEOREM ImplementsReads == CodeSpec => ReadsCode
<1>1. CodeInit => Reads!Init
  BY DEF CodeInit, Reads!Init, Reads!Idle, as_reader, NoCall
<1> QED
  BY <1>1, CodeInitIInv, CodeNextIInv, NextReads, PTL DEF CodeSpec, ReadsCode, Reads!Spec

-----------------------------------------------------------------------------
(* The handler of forks: type correctness *)

\* The last element of a sequence.
Last(s) == s[Len(s)]

\* The ids, and what the records of the processes hold.
Ids == [url : Url, number : Number, suffix : Seq(Nat)]
BackendRecord ==
  [at : {"idle", "create", "roll", "get", "missing", "preload", "collect", "closing", "dropped"},
   fork : Ids \cup {None}, lookup : Lookup, preload : Ids \cup {None}, ops : Int]
RequestRecord ==
  [kind : {"CreateFork", "RollFork", "GetFork", "ShutDown"}, from : Backends,
   url : Url \cup {None}, block : Lookup, fork : Ids \cup {None}]
TaskRecord ==
  [url : Url, block : Lookup, senders : Seq(Backends), recording : Backends \cup {None},
   stage : {"new", "latest", "info"}, number : Lookup,
   need : SUBSET {"latest", "chain", "block", "gas"}, found : BOOLEAN]
ForkRecord ==
  [url : Url, number : Number, senders : Nat, lookup : Lookup, recording : Backends \cup {None}]

\* A request to create a fork says for which url, one to look for a fork says which;
\* a backend that found none knows which one it looked for.
Types ==
  /\ head \in [Url -> Number]
  /\ backend \in [Backends -> BackendRecord]
  /\ incoming \in Seq(RequestRecord)
  /\ \A i \in DOMAIN incoming :
       /\ incoming[i].kind = "CreateFork" => incoming[i].url \in Url
       /\ incoming[i].kind = "GetFork" => incoming[i].fork \in Ids
  /\ \A b \in Backends : Doing(b, "missing") => backend[b].preload \in Ids
  /\ status \in {"running", "completed", "panicked"}
  /\ tasks \subseteq TaskRecord
  /\ created \in Seq(ForkRecord)
  /\ DOMAIN forks \subseteq Ids /\ \A f \in DOMAIN forks : forks[f] \in DOMAIN created
  /\ latest_block_map \in [Url -> Lookup]
  /\ given \in Seq([id : Ids, asked : Lookup])
  /\ pinned \subseteq Url

-----------------------------------------------------------------------------
(* The inductive invariant *)

\* The backends that wait for an answer to a request of this kind.
Asks(kind, at) ==
  \/ kind = "CreateFork" /\ at \in {"create", "preload"}
  \/ kind = "RollFork" /\ at = "roll"
  \/ kind = "GetFork" /\ at = "get"
  \/ kind = "ShutDown" /\ at = "closing"

\* A backend waits for a fork; it has a request in the queue; a task works for it.
Wants(b) == backend[b].at \in {"create", "roll", "preload"}
Queued(b) == \E i \in DOMAIN incoming : incoming[i].from = b
Serves(t, b) == \E k \in DOMAIN t.senders : t.senders[k] = b

\* A backend waits in one place: its one request is queued, or one task serves it.
WaitInv ==
  /\ \A i \in DOMAIN incoming :
       Asks(incoming[i].kind, backend[incoming[i].from].at)
  /\ \A i, j \in DOMAIN incoming : incoming[i].from = incoming[j].from => i = j
  /\ \A t \in tasks : \E b \in Backends : Serves(t, b)
  /\ \A t \in tasks, b \in Backends : Serves(t, b) => Wants(b) /\ ~Queued(b)
  /\ \A t, u \in tasks, b \in Backends : Serves(t, b) /\ Serves(u, b) => t = u

\* Every backend is gone.
AllDropped == \A b \in Backends : Doing(b, "dropped")

\* The last backend closes alone; the handler stops with nothing left.
CloseInv ==
  /\ \A b \in Backends : Doing(b, "closing") => \A c \in Backends \ {b} : Doing(c, "dropped")
  /\ status = "panicked" => forks = <<>> /\ handlers = {} /\ tasks = {}
  /\ status = "completed" => AllDropped
  /\ AllDropped => forks = <<>> /\ handlers = {}

\* A fork is found under the id without a suffix, and its consumers have suffixes
\* that end below the number of its senders. What was answered stays known until the
\* handler stops, and no answer repeats an id.
IdInv ==
  /\ \A f \in DOMAIN forks :
       /\ ForkId(f.url, f.number) \in DOMAIN forks
       /\ forks[f] = forks[ForkId(f.url, f.number)]
       /\ f.suffix # <<>> => Last(f.suffix) < created[forks[f]].senders
  /\ status = "running" /\ ~AllDropped => \A j \in DOMAIN given : given[j].id \in DOMAIN forks
  /\ \A j, k \in DOMAIN given : given[j].id = given[k].id => j = k

\* A task goes from its latest block to the block whose data it asks for: the one
\* requested, or the latest one, as long as that is not set from outside.
StageInv(t) ==
  /\ t.stage = "new" => t.need = {}
  /\ t.stage = "latest" => /\ t.block = None /\ t.need = {"latest"}
                           /\ t.url \notin pinned => latest_block_map[t.url] = None
  /\ t.stage = "info" => /\ t.number \in Number
                         /\ t.block # None => t.number = t.block
                         /\ t.block = None /\ t.url \notin pinned =>
                              latest_block_map[t.url] = t.number

\* Tasks of one url look for different blocks; a fork of the latest block is at the
\* block that was looked up for its url.
LatestInv ==
  /\ \A t \in tasks : StageInv(t)
  /\ \A t, u \in tasks : t.url = u.url /\ t.block = u.block => t = u
  /\ \A j \in DOMAIN given :
       /\ given[j].asked \in {None, given[j].id.number}
       /\ given[j].asked = None /\ given[j].id.url \notin pinned =>
            latest_block_map[given[j].id.url] = given[j].id.number

\* The inductive invariant.
IInv == Types /\ WaitInv /\ CloseInv /\ IdInv /\ LatestInv

-----------------------------------------------------------------------------
(* A backend goes on *)

\* Only b goes on, to `at`.
Goes(b, at) ==
  /\ backend' \in [Backends -> BackendRecord]
  /\ backend'[b].at = at
  /\ \A c \in Backends \ {b} : backend'[c] = backend[c]

\* A request is added at the end of the queue.
Adds(req) ==
  /\ incoming' \in Seq(RequestRecord)
  /\ DOMAIN incoming' = 1 .. Len(incoming) + 1
  /\ incoming'[Len(incoming) + 1] = req
  /\ \A i \in DOMAIN incoming : incoming'[i] = incoming[i] /\ i \in DOMAIN incoming'
  /\ \A i \in DOMAIN incoming' : i \in DOMAIN incoming \/ i = Len(incoming) + 1
  /\ Len(incoming) + 1 \in DOMAIN incoming' /\ Len(incoming) + 1 \notin DOMAIN incoming

\* A backend's record stays one wherever the backend goes on to.
LEMMA BackendFields ==
  ASSUME Types, NEW b \in Backends
  PROVE  /\ backend[b] \in BackendRecord
         /\ \A at \in {"idle", "create", "roll", "get", "missing", "preload", "collect",
                       "closing", "dropped"} :
              /\ [backend[b] EXCEPT !.at = at] \in BackendRecord
              /\ [backend[b] EXCEPT !.at = at].at = at
              /\ [backend[b] EXCEPT !.at = at].preload = backend[b].preload
<1>1. backend[b] \in BackendRecord
  BY Zenon DEF Types
<1> QED BY <1>1, Zenon DEF BackendRecord

\* Replacing a backend's record is a step of that backend only.
LEMMA Updated ==
  ASSUME Types, NEW b \in Backends, NEW r \in BackendRecord, backend' = [backend EXCEPT ![b] = r]
  PROVE  Goes(b, r.at) /\ backend'[b] = r
BY Zenon DEF Goes, Types

\* An operation that finished leaves its backend idle.
LEMMA FinishedFields ==
  ASSUME Types, NEW b \in Backends
  PROVE  Finished(b) \in BackendRecord /\ Finished(b).at = "idle"
<1>1. backend[b] \in BackendRecord
  BY Zenon DEF Types
<1>2. backend[b].ops \in Int /\ backend[b].ops - 1 \in Int
  BY <1>1 DEF BackendRecord
<1>3. PICK n \in Int : n = backend[b].ops - 1
  BY <1>2, Zenon
<1>4. Finished(b) = [backend[b] EXCEPT !.at = "idle", !.ops = n]
  BY <1>3, Zenon DEF Finished
<1> QED BY <1>1, <1>4, Zenon DEF BackendRecord

\* What Send does to the backend and to the queue.
LEMMA Sent ==
  ASSUME Types, NEW b \in Backends,
         NEW at \in {"create", "roll", "get", "preload", "closing"},
         NEW kind \in {"CreateFork", "RollFork", "GetFork", "ShutDown"},
         NEW u \in Url \cup {None}, NEW n \in Lookup, NEW id \in Ids \cup {None},
         Send(b, at, Request(kind, u, n, id))
  PROVE  /\ Goes(b, at)
         /\ \E req \in RequestRecord :
              /\ Adds(req)
              /\ req.kind = kind /\ req.from = b /\ req.url = u /\ req.fork = id
<1>1. Goes(b, at)
  <2>1. backend' = [backend EXCEPT ![b] = [backend[b] EXCEPT !.at = at]]
    BY Zenon DEF Send
  <2>2. PICK r : r = [backend[b] EXCEPT !.at = at]
    BY Zenon
  <2>3. at \in {"idle", "create", "roll", "get", "missing", "preload", "collect", "closing",
                "dropped"}
    BY Zenon
  <2>4. r \in BackendRecord /\ r.at = at
    BY <2>2, <2>3, BackendFields, ZenonT(60)
  <2> QED BY <2>1, <2>2, <2>4, Updated, Zenon
<1>2. PICK req : req = [kind |-> kind, from |-> b, url |-> u, block |-> n, fork |-> id]
  BY Zenon
<1>3. req \in RequestRecord
  BY <1>2, Zenon DEF RequestRecord
<1>4. incoming' = Append(incoming, req)
  <2>1. [Request(kind, u, n, id) EXCEPT !.from = b] = req
    BY <1>2 DEF Request
  <2> QED BY <2>1, Zenon DEF Send
<1>5. incoming \in Seq(RequestRecord)
  BY Zenon DEF Types
<1>6. Adds(req)
  BY <1>3, <1>4, <1>5 DEF Adds
<1> QED BY <1>1, <1>2, <1>3, <1>6, Zenon

-----------------------------------------------------------------------------
(* Steps of a backend that no task and no request is about *)

\* A backend that waits for no answer.
Free(b) == backend[b].at \in {"idle", "missing", "collect"}

\* Nothing is queued or worked on for a backend that waits for no answer.
LEMMA FreeBackend ==
  ASSUME Types, WaitInv, NEW b \in Backends, Free(b)
  PROVE  ~Queued(b) /\ ~Wants(b) /\ ~AllDropped /\ \A t \in tasks : ~Serves(t, b)
<1>1. backend[b].at \notin {"create", "roll", "preload", "get", "closing", "dropped"}
  BY DEF Free
<1>2. ~Wants(b) /\ ~AllDropped
  BY <1>1, Zenon DEF Wants, AllDropped, Doing
<1>3. ~Queued(b)
  BY <1>1, Zenon DEF Queued, WaitInv, Asks
<1> QED BY <1>2, <1>3, Zenon DEF WaitInv

\* The elements of a sequence over S are in S.
LEMMA SeqElements == ASSUME NEW S, NEW s \in Seq(S) PROVE \A i \in DOMAIN s : s[i] \in S
OBVIOUS

\* It goes on without a request.
LEMMA GoesWait ==
  ASSUME Types, WaitInv, NEW b \in Backends, Free(b), NEW at, Goes(b, at),
         UNCHANGED <<incoming, tasks>>
  PROVE  WaitInv'
<1>1. ~Queued(b) /\ \A t \in tasks : ~Serves(t, b)
  BY FreeBackend
<1>2. \A i \in DOMAIN incoming : incoming[i].from \in Backends \ {b}
  <2>1. \A i \in DOMAIN incoming : incoming[i] \in RequestRecord
    BY DEF Types
  <2>2. \A i \in DOMAIN incoming : incoming[i].from \in Backends
    BY <2>1, Zenon DEF RequestRecord
  <2> QED BY <1>1, <2>2, Zenon DEF Queued
<1>3. \A c \in Backends : Queued(c)' <=> Queued(c)
  BY Zenon DEF Queued
<1>4. \A c \in Backends \ {b} : Wants(c)' <=> Wants(c)
  BY Zenon DEF Goes, Wants
<1>5. \A i \in DOMAIN incoming' : Asks(incoming'[i].kind, backend'[incoming'[i].from].at)
  BY <1>2, Zenon DEF WaitInv, Goes
<1>6. \A t \in tasks', c \in Backends : Serves(t, c)' => Wants(c)' /\ ~Queued(c)'
  BY <1>1, <1>3, <1>4, Zenon DEF WaitInv, Serves
<1> QED BY <1>5, <1>6, Zenon DEF WaitInv, Serves

\* It sends a request.
LEMMA SendsWait ==
  ASSUME Types, WaitInv, NEW b \in Backends, Free(b), NEW at, Goes(b, at),
         NEW req, Adds(req), req.from = b, Asks(req.kind, at),
         UNCHANGED tasks
  PROVE  WaitInv'
<1>1. ~Queued(b) /\ \A t \in tasks : ~Serves(t, b)
  BY FreeBackend
<1>2. \A i \in DOMAIN incoming : incoming[i].from \in Backends \ {b}
  <2>1. \A i \in DOMAIN incoming : incoming[i] \in RequestRecord
    BY DEF Types
  <2>2. \A i \in DOMAIN incoming : incoming[i].from \in Backends
    BY <2>1, Zenon DEF RequestRecord
  <2> QED BY <1>1, <2>2, Zenon DEF Queued
<1>3. \A c \in Backends \ {b} : Queued(c)' => Queued(c)
  BY ZenonT(60) DEF Queued, Adds
<1>4. \A c \in Backends \ {b} : Wants(c)' <=> Wants(c)
  BY Zenon DEF Goes, Wants
<1>5. \A i \in DOMAIN incoming' : Asks(incoming'[i].kind, backend'[incoming'[i].from].at)
  <2>1. ASSUME NEW i \in DOMAIN incoming
        PROVE  Asks(incoming'[i].kind, backend'[incoming'[i].from].at)
    <3>1. incoming'[i] = incoming[i] /\ backend'[incoming[i].from] = backend[incoming[i].from]
      BY <1>2, Zenon DEF Goes, Adds
    <3>2. Asks(incoming[i].kind, backend[incoming[i].from].at)
      BY Zenon DEF WaitInv
    <3> QED BY <3>1, <3>2, Zenon
  <2>2. Asks(incoming'[Len(incoming) + 1].kind, backend'[incoming'[Len(incoming) + 1].from].at)
    BY Zenon DEF Goes, Adds
  <2> QED BY <2>1, <2>2, Zenon DEF Adds
<1>6. \A t \in tasks', c \in Backends : Serves(t, c)' => Wants(c)' /\ ~Queued(c)'
  BY <1>1, <1>3, <1>4, Zenon DEF WaitInv, Serves
<1>7. \A i, j \in DOMAIN incoming' : incoming'[i].from = incoming'[j].from => i = j
  BY <1>2, ZenonT(60) DEF WaitInv, Adds
<1> QED BY <1>5, <1>6, <1>7, Zenon DEF WaitInv, Serves

\* The other invariants need no more than that the handler's state is left alone.
LEMMA GoesClose ==
  ASSUME Types, WaitInv, CloseInv, NEW b \in Backends, Free(b), NEW at, Goes(b, at),
         at = "closing" => \A c \in Backends \ {b} : Doing(c, "dropped"),
         at = "dropped" => status # "running" \/ ~\A c \in Backends \ {b} : Doing(c, "dropped"),
         UNCHANGED <<status, forks, handlers, tasks>>
  PROVE  CloseInv'
<1>1. ~AllDropped
  BY FreeBackend
<1>2. \A c \in Backends \ {b} : \A x : Doing(c, x)' <=> Doing(c, x)
  BY Zenon DEF Goes, Doing
<1>3. \A x : Doing(b, x)' <=> x = at
  BY Zenon DEF Goes, Doing
<1>4. ASSUME NEW c \in Backends, Doing(c, "closing")'
      PROVE  \A d \in Backends \ {c} : Doing(d, "dropped")'
  <2>1. CASE c = b
    BY <1>2, <1>3, <1>4, <2>1, Zenon
  <2>2. CASE c # b
    <3>1. Doing(c, "closing") /\ b \in Backends \ {c}
      BY <1>2, <1>4, <2>2, Zenon
    <3>2. Doing(b, "dropped")
      BY <3>1, Zenon DEF CloseInv
    <3> QED BY <3>2 DEF Doing, Free
  <2> QED BY <2>1, <2>2
<1>5. status # "completed"
  BY <1>1, Zenon DEF CloseInv
<1>6. AllDropped' => status = "panicked"
  BY <1>2, <1>3, <1>5, Zenon DEF AllDropped, Types
<1>7. status = "panicked" => forks = <<>> /\ handlers = {} /\ tasks = {}
  BY Zenon DEF CloseInv
<1>8. status' # "completed"
  BY <1>5, Zenon
<1> QED BY <1>4, <1>6, <1>7, <1>8, Zenon DEF CloseInv

\* A step of a backend leaves the ids as they are.
LEMMA GoesId ==
  ASSUME Types, WaitInv, IdInv, NEW b \in Backends, Free(b),
         UNCHANGED <<status, forks, created, given>>
  PROVE  IdInv'
<1>1. ~AllDropped
  BY FreeBackend
<1> QED BY <1>1, Zenon DEF IdInv

\* A backend that goes on keeps the types when it has what it looks for.
LEMMA GoesTypes ==
  ASSUME Types, NEW b \in Backends, NEW at, Goes(b, at),
         at = "missing" => backend'[b].preload \in Ids,
         UNCHANGED <<head, incoming, status, tasks, created, forks, latest_block_map, given, pinned>>
  PROVE  Types'
<1>1. \A c \in Backends : Doing(c, "missing")' => backend'[c].preload \in Ids
  BY Zenon DEF Goes, Doing, Types
<1> QED BY <1>1, Zenon DEF Types, Goes

\* A request that is sent is well formed.
LEMMA SendsTypes ==
  ASSUME Types, NEW b \in Backends, NEW at, Goes(b, at), at # "missing",
         NEW req, Adds(req),
         req.kind = "CreateFork" => req.url \in Url,
         req.kind = "GetFork" => req.fork \in Ids,
         latest_block_map' \in [Url -> Lookup], pinned' \subseteq Url,
         UNCHANGED <<head, status, tasks, created, forks, given>>
  PROVE  Types'
<1>1. \A c \in Backends : Doing(c, "missing")' => backend'[c].preload \in Ids
  BY Zenon DEF Goes, Doing, Types
<1>2. \A i \in DOMAIN incoming' :
        /\ incoming'[i].kind = "CreateFork" => incoming'[i].url \in Url
        /\ incoming'[i].kind = "GetFork" => incoming'[i].fork \in Ids
  BY Zenon DEF Adds, Types
<1> QED BY <1>1, <1>2, Zenon DEF Types, Goes, Adds

\* Nothing is looked up, answered or set.
LEMMA LatestKept ==
  ASSUME LatestInv, UNCHANGED <<tasks, given, pinned, latest_block_map>>
  PROVE  LatestInv'
BY Zenon DEF LatestInv, StageInv

\* A request of a backend that was not waiting.
LEMMA SendsInv ==
  ASSUME IInv, NEW b \in Backends, Free(b), NEW at, Goes(b, at), at \notin {"missing", "dropped"},
         at = "closing" => \A c \in Backends \ {b} : Doing(c, "dropped"),
         NEW req, Adds(req), req.from = b, Asks(req.kind, at),
         req.kind = "CreateFork" => req.url \in Url,
         req.kind = "GetFork" => req.fork \in Ids,
         UNCHANGED <<head, server, given, pinned, latest_block_map>>
  PROVE  IInv'
<1>1. UNCHANGED <<status, tasks, created, forks, handlers>>
  BY Zenon DEF server
<1>2. Types'
  BY <1>1, SendsTypes, Zenon DEF IInv, Types
<1>3. WaitInv' /\ CloseInv' /\ IdInv' /\ LatestInv'
  BY <1>1, SendsWait, GoesClose, GoesId, LatestKept, Zenon DEF IInv
<1> QED BY <1>2, <1>3 DEF IInv

\* A step without a request.
LEMMA GoesInv ==
  ASSUME IInv, NEW b \in Backends, Free(b), NEW at, Goes(b, at), at \notin {"missing", "closing"},
         at = "dropped" => status # "running" \/ ~\A c \in Backends \ {b} : Doing(c, "dropped"),
         UNCHANGED <<head, incoming, server, given, pinned, latest_block_map>>
  PROVE  IInv'
<1>1. UNCHANGED <<status, tasks, created, forks, handlers>>
  BY Zenon DEF server
<1>2. Types' /\ WaitInv' /\ CloseInv' /\ IdInv' /\ LatestInv'
  BY <1>1, GoesTypes, GoesWait, GoesClose, GoesId, LatestKept, Zenon DEF IInv
<1> QED BY <1>2 DEF IInv

\* createFork sends a request for the url.
LEMMA CreateInv ==
  ASSUME IInv, NEW b \in Backends, NEW u \in Url, NEW block \in Lookup, create_fork(b, u, block)
  PROVE  IInv'
<1>1. PICK req \in RequestRecord :
        Goes(b, "create") /\ Adds(req) /\ req.kind = "CreateFork" /\ req.from = b /\ req.url = u
  <2>1. Send(b, "create", Request("CreateFork", u, block, None)) /\ Types
    BY Zenon DEF create_fork, IInv
  <2> QED BY <2>1, Sent, SMTT(60)
<1>2. Free(b) /\ UNCHANGED <<head, server, given, pinned, latest_block_map>>
  BY Zenon DEF create_fork, Start, Doing, Free, env_cache
<1>3. Asks(req.kind, "create")
  BY <1>1, Zenon DEF Asks
<1> QED BY <1>1, <1>2, <1>3, SendsInv, Zenon

\* rollFork sends a request for the fork of the backend.
LEMMA RollInv ==
  ASSUME IInv, NEW b \in Backends, NEW block \in Number, roll_fork(b, block)
  PROVE  IInv'
<1>1. PICK req \in RequestRecord :
        Goes(b, "roll") /\ Adds(req) /\ req.kind = "RollFork" /\ req.from = b
  <2>1. Send(b, "roll", Request("RollFork", None, block, backend[b].fork)) /\ Types
    BY Zenon DEF roll_fork, IInv
  <2>2. backend[b].fork \in Ids \cup {None} /\ block \in Lookup
    BY <2>1, BackendFields, Zenon DEF BackendRecord, Lookup
  <2> QED BY <2>1, <2>2, Sent, SMTT(60)
<1>2. Free(b) /\ UNCHANGED <<head, server, given, pinned, latest_block_map>>
  BY Zenon DEF roll_fork, Start, Doing, Free, env_cache
<1>3. Asks(req.kind, "roll")
  BY <1>1, Zenon DEF Asks
<1> QED BY <1>1, <1>2, <1>3, SendsInv, Zenon

\* The id under which a fork is found first.
LEMMA ForkIdType == \A u \in Url, n \in Number : ForkId(u, n) \in Ids
<1>1. <<>> \in Seq(Nat)
  OBVIOUS
<1> QED BY <1>1, Zenon DEF ForkId, Ids

\* The accesses of an earlier run are loaded: the latest block of the url is set
\* and the fork of the first access is looked for.
LEMMA LoadInv ==
  ASSUME IInv, NEW b \in Backends, NEW u \in Url, NEW current \in Number, NEW block \in Number,
         load_accesses(b, u, current, block)
  PROVE  IInv'
<1>1. PICK req \in RequestRecord :
        /\ Goes(b, "get") /\ Adds(req) /\ req.kind = "GetFork" /\ req.from = b
        /\ req.fork = ForkId(u, block)
  <2>1. Send(b, "get", Request("GetFork", u, block, ForkId(u, block))) /\ Types
    BY Zenon DEF load_accesses, IInv
  <2>2. block \in Lookup /\ ForkId(u, block) \in Ids
    BY ForkIdType, Zenon DEF Lookup
  <2> QED BY <2>1, <2>2, Sent, SMT
<1>2. Free(b) /\ UNCHANGED <<head, status, tasks, created, forks, handlers, given>>
  BY Zenon DEF load_accesses, Start, Doing, Free, server
<1>3. Asks(req.kind, "get") /\ req.fork \in Ids
  BY <1>1, ForkIdType, Zenon DEF Asks
<1>4. /\ latest_block_map' = [latest_block_map EXCEPT ![u] = current]
      /\ pinned' = pinned \cup {u}
  BY Zenon DEF load_accesses, set_latest_block_number
<1>5. /\ latest_block_map' \in [Url -> Lookup] /\ pinned' \subseteq Url
      /\ \A v \in Url \ pinned' : v \notin pinned /\ latest_block_map'[v] = latest_block_map[v]
  BY <1>4, Zenon DEF IInv, Types, Lookup
<1>6. Types' /\ WaitInv' /\ CloseInv' /\ IdInv'
  BY <1>1, <1>2, <1>3, <1>5, SendsTypes, SendsWait, GoesClose, GoesId, Zenon DEF IInv
<1>7. \A t \in tasks : t.url \in Url
  BY Zenon DEF IInv, Types, TaskRecord
<1>8. \A j \in DOMAIN given : given[j].id.url \in Url
  <2>1. \A j \in DOMAIN given : given[j] \in [id : Ids, asked : Lookup]
    BY SeqElements, Zenon DEF IInv, Types
  <2> QED BY <2>1, Zenon DEF Ids
<1>9. \A t \in tasks : StageInv(t)'
  BY <1>5, <1>7, Zenon DEF IInv, LatestInv, StageInv
<1>10. LatestInv'
  BY <1>2, <1>5, <1>8, <1>9, Zenon DEF IInv, LatestInv
<1> QED BY <1>6, <1>10 DEF IInv

\* The fork of an access was not found: the backend asks for it.
LEMMA MissingInv ==
  ASSUME IInv, NEW b \in Backends, execute_access(b)
  PROVE  IInv'
<1>1. /\ Free(b) /\ Types /\ UNCHANGED <<head, server, given, pinned, latest_block_map>>
      /\ backend[b].preload \in Ids
  BY Zenon DEF execute_access, Doing, Free, env_cache, IInv, Types
<1>2. CASE status = "running"
  <2>1. backend[b].preload.url \in Url /\ backend[b].preload.number \in Lookup
    BY <1>1, Zenon DEF Ids, Lookup
  <2>2. Send(b, "preload",
             Request("CreateFork", backend[b].preload.url, backend[b].preload.number, None))
    BY <1>2, Zenon DEF execute_access
  <2>3. PICK u \in Url, n \in Lookup : Send(b, "preload", Request("CreateFork", u, n, None))
    BY <2>1, <2>2, Zenon
  <2>4. PICK req \in RequestRecord :
          Goes(b, "preload") /\ Adds(req) /\ req.kind = "CreateFork" /\ req.from = b /\ req.url = u
    BY <1>1, <2>3, Sent, SMT
  <2>5. Asks(req.kind, "preload")
    BY <2>4, Zenon DEF Asks
  <2> QED BY <1>1, <2>4, <2>5, SendsInv, Zenon
<1>3. CASE status # "running"
  <2>1. UNCHANGED incoming
        /\ backend' = [c \in Backends |-> IF c \in {b} THEN Finished(c) ELSE backend[c]]
    BY <1>3, Zenon DEF execute_access, Return
  <2>2. backend' = [backend EXCEPT ![b] = Finished(b)]
    BY <1>1, <2>1, Zenon DEF Types
  <2>3. Goes(b, "idle")
    BY <1>1, <2>2, FinishedFields, Updated, Zenon
  <2> QED BY <1>1, <2>1, <2>3, GoesInv, Zenon
<1> QED BY <1>2, <1>3

\* Steps between two requests: reads and the accesses that are collected.
LEMMA AccessInv ==
  ASSUME IInv, NEW b \in Backends, read(b) \/ get_accesses(b) \/ get_accesses_clear(b)
  PROVE  IInv'
<1>1. /\ Free(b) /\ Types
      /\ UNCHANGED <<head, incoming, server, given, pinned, latest_block_map>>
  BY Zenon DEF read, get_accesses, get_accesses_clear, Start, Doing, Free, env_cache, IInv
<1>2. backend[b] \in BackendRecord /\ backend[b].ops - 1 \in Int
  <2>1. backend[b] \in BackendRecord /\ backend[b].ops \in Int
    BY <1>1, Zenon DEF Types, BackendRecord
  <2> QED BY <2>1
<1>3. PICK n \in Int : n = backend[b].ops - 1
  BY <1>2, Zenon
<1>4. CASE read(b)
  <2>1. backend' = [backend EXCEPT ![b] = [backend[b] EXCEPT !.ops = n]] /\ backend[b].at = "idle"
    BY <1>3, <1>4, Zenon DEF read, Start, Doing
  <2>2. [backend[b] EXCEPT !.ops = n] \in BackendRecord /\ [backend[b] EXCEPT !.ops = n].at = "idle"
    BY <1>2, <2>1, Zenon DEF BackendRecord
  <2>3. Goes(b, "idle")
    BY <1>1, <2>1, <2>2, Updated, Zenon
  <2> QED BY <1>1, <2>3, GoesInv, Zenon
<1>5. CASE get_accesses(b)
  <2>1. backend' = [backend EXCEPT ![b] = [backend[b] EXCEPT !.at = "collect"]]
    BY <1>5, Zenon DEF get_accesses
  <2>2. PICK r : r = [backend[b] EXCEPT !.at = "collect"]
    BY Zenon
  <2>3. r \in BackendRecord /\ r.at = "collect"
    BY <1>1, <2>2, BackendFields, Zenon
  <2>4. Goes(b, "collect")
    BY <1>1, <2>1, <2>2, <2>3, Updated, Zenon
  <2> QED BY <1>1, <2>4, GoesInv, Zenon
<1>6. CASE get_accesses_clear(b)
  <2>1. backend' = [backend EXCEPT ![b] = Finished(b)]
    BY <1>6, Zenon DEF get_accesses_clear, Finished
  <2>2. Goes(b, "idle")
    BY <1>1, <2>1, FinishedFields, Updated, Zenon
  <2> QED BY <1>1, <2>2, GoesInv, Zenon
<1> QED BY <1>4, <1>5, <1>6

\* A backend is dropped; the last one asks the handler to shut down.
LEMMA DropInv ==
  ASSUME IInv, NEW b \in Backends, drop(b)
  PROVE  IInv'
<1>1. /\ Free(b) /\ Types /\ UNCHANGED <<head, server, given, pinned, latest_block_map>>
  BY Zenon DEF drop, Doing, Free, env_cache, IInv
<1>2. CASE status = "running" /\ \A c \in Backends \ {b} : Doing(c, "dropped")
  <2>1. Send(b, "closing", Request("ShutDown", None, None, None)) /\ None \in Lookup
    BY <1>2, Zenon DEF drop, Lookup
  <2>2. PICK req \in RequestRecord :
          Goes(b, "closing") /\ Adds(req) /\ req.kind = "ShutDown" /\ req.from = b
    BY <1>1, <2>1, Sent, SMTT(60)
  <2>3. Asks(req.kind, "closing")
    BY <2>2, Zenon DEF Asks
  <2> QED BY <1>1, <1>2, <2>2, <2>3, SendsInv, Zenon
<1>3. CASE ~(status = "running" /\ \A c \in Backends \ {b} : Doing(c, "dropped"))
  <2>1. UNCHANGED incoming /\ backend' = [backend EXCEPT ![b] = [backend[b] EXCEPT !.at = "dropped"]]
    BY <1>3, Zenon DEF drop
  <2>2. PICK r : r = [backend[b] EXCEPT !.at = "dropped"]
    BY Zenon
  <2>3. r \in BackendRecord /\ r.at = "dropped"
    BY <1>1, <2>2, BackendFields, Zenon
  <2>4. Goes(b, "dropped")
    BY <1>1, <2>1, <2>2, <2>3, Updated, Zenon
  <2> QED BY <1>1, <1>3, <2>1, <2>4, GoesInv, Zenon
<1> QED BY <1>2, <1>3

-----------------------------------------------------------------------------
(* The handler receives a request *)

\* The first request is gone, the others are left.
Takes(req) ==
  /\ incoming' \in Seq(RequestRecord)
  /\ \A i \in DOMAIN incoming' : \E j \in DOMAIN incoming :
       incoming'[i] = incoming[j] /\ incoming[j].from # req.from
  /\ \A i, j \in DOMAIN incoming' : incoming'[i].from = incoming'[j].from => i = j

\* Receiving takes the first request, which a backend sent, off the queue.
LEMMA Received ==
  ASSUME Types, WaitInv, incoming # <<>>, incoming' = Tail(incoming)
  PROVE  \E req \in RequestRecord :
           /\ req = Head(incoming)
           /\ \E i \in DOMAIN incoming : incoming[i] = req
           /\ req.from \in Backends
           /\ Takes(req)
<1>1. incoming \in Seq(RequestRecord)
  BY Zenon DEF Types
<1>2. /\ 1 \in DOMAIN incoming /\ Head(incoming) = incoming[1] /\ incoming[1] \in RequestRecord
      /\ incoming' \in Seq(RequestRecord)
      /\ \A i \in DOMAIN incoming' :
           i + 1 \in DOMAIN incoming /\ i + 1 # 1 /\ incoming'[i] = incoming[i + 1]
      /\ DOMAIN incoming' \subseteq Int
  BY <1>1
<1>3. PICK req \in RequestRecord : req = incoming[1]
  BY <1>2, Zenon
<1>4. \A i \in DOMAIN incoming' : incoming[i + 1].from # req.from
  BY <1>2, <1>3, Zenon DEF WaitInv
<1>5. ASSUME NEW i \in DOMAIN incoming', NEW j \in DOMAIN incoming',
             incoming'[i].from = incoming'[j].from
      PROVE  i + 1 = j + 1
  <2>1. PICK k, l \in DOMAIN incoming :
          k = i + 1 /\ l = j + 1 /\ incoming'[i] = incoming[k] /\ incoming'[j] = incoming[l]
    BY <1>2, Zenon
  <2>2. k = l
    BY <1>5, <2>1, Zenon DEF WaitInv
  <2> QED BY <2>1, <2>2
<1>6. \A i, j \in DOMAIN incoming' : i + 1 = j + 1 => i = j
  BY <1>2
<1>7. Takes(req)
  BY <1>2, <1>4, <1>5, <1>6, ZenonT(60) DEF Takes
<1>8. req.from \in Backends
  BY <1>3, Zenon DEF RequestRecord
<1> QED BY <1>2, <1>3, <1>7, <1>8, Zenon

\* The requests that are left are those of other backends and as before.
LEMMA TakesQueue ==
  ASSUME Types, WaitInv, NEW req \in RequestRecord, Takes(req)
  PROVE  /\ \A c \in Backends : Queued(c)' => Queued(c) /\ c # req.from
         /\ \A i \in DOMAIN incoming' :
              /\ incoming'[i].from \in Backends /\ incoming'[i].from # req.from
              /\ Asks(incoming'[i].kind, backend[incoming'[i].from].at)
         /\ \A i \in DOMAIN incoming' :
              /\ incoming'[i].kind = "CreateFork" => incoming'[i].url \in Url
              /\ incoming'[i].kind = "GetFork" => incoming'[i].fork \in Ids
<1>1. \A i \in DOMAIN incoming' : incoming'[i] \in RequestRecord
  BY SeqElements, Zenon DEF Takes
<1>2. \A i \in DOMAIN incoming' : incoming'[i].from \in Backends
  BY <1>1, Zenon DEF RequestRecord
<1>3. \A c \in Backends : Queued(c)' => Queued(c) /\ c # req.from
  BY ZenonT(60) DEF Takes, Queued
<1>4. \A i \in DOMAIN incoming' :
        /\ incoming'[i].from # req.from
        /\ Asks(incoming'[i].kind, backend[incoming'[i].from].at)
  BY Zenon DEF Takes, WaitInv
<1>5. \A i \in DOMAIN incoming' :
              /\ incoming'[i].kind = "CreateFork" => incoming'[i].url \in Url
              /\ incoming'[i].kind = "GetFork" => incoming'[i].fork \in Ids
  BY Zenon DEF Takes, Types
<1> QED BY <1>2, <1>3, <1>4, <1>5

\* A backend that is told something is not in the tasks and goes on.
LEMMA AnswerWait ==
  ASSUME Types, WaitInv, NEW req \in RequestRecord, Takes(req),
         NEW i \in DOMAIN incoming, incoming[i] = req, NEW at, Goes(req.from, at),
         UNCHANGED tasks
  PROVE  WaitInv'
<1>1. Queued(req.from) /\ req.from \in Backends
  BY Zenon DEF Queued, RequestRecord
<1>2. \A t \in tasks : ~Serves(t, req.from)
  BY <1>1, Zenon DEF WaitInv
<1>3. \A c \in Backends \ {req.from} : Wants(c)' <=> Wants(c)
  BY Zenon DEF Goes, Wants
<1>4. \A j \in DOMAIN incoming' : Asks(incoming'[j].kind, backend'[incoming'[j].from].at)
  BY TakesQueue, Zenon DEF Goes
<1>5. \A t \in tasks', c \in Backends : Serves(t, c)' => Wants(c)' /\ ~Queued(c)'
  BY <1>2, <1>3, TakesQueue, ZenonT(60) DEF WaitInv, Serves
<1> QED BY <1>4, <1>5, Zenon DEF WaitInv, Serves, Takes

\* The tasks change and the backends do not.
LEMMA TasksWait ==
  ASSUME WaitInv, NEW old \in SUBSET tasks, NEW new, tasks' = (tasks \ old) \cup {new},
         UNCHANGED backend,
         \A i \in DOMAIN incoming' : Asks(incoming'[i].kind, backend[incoming'[i].from].at),
         \A i, j \in DOMAIN incoming' : incoming'[i].from = incoming'[j].from => i = j,
         \A c \in Backends : Queued(c)' => Queued(c),
         \E c \in Backends : Serves(new, c),
         \A c \in Backends : Serves(new, c) =>
           Wants(c) /\ ~Queued(c)' /\ \A t \in tasks \ old : ~Serves(t, c)
  PROVE  WaitInv'
<1>1. \A c \in Backends : Wants(c)' <=> Wants(c)
  BY Zenon DEF Wants
<1>2. \A t \in tasks', c \in Backends : Serves(t, c)' => Wants(c)' /\ ~Queued(c)'
  BY <1>1, Zenon DEF WaitInv, Serves
<1>3. \A t \in tasks' : \E b \in Backends : Serves(t, b)'
  BY Zenon DEF WaitInv, Serves
<1>4. ASSUME NEW t \in tasks', NEW u \in tasks', NEW b \in Backends, Serves(t, b)', Serves(u, b)'
      PROVE  t = u
  <2>1. Serves(t, b) /\ Serves(u, b) /\ (t \in tasks \ old \/ t = new)
        /\ (u \in tasks \ old \/ u = new)
    BY <1>4, Zenon DEF Serves
  <2> QED BY <2>1, ZenonT(60) DEF WaitInv
<1> QED BY <1>2, <1>3, <1>4, Zenon DEF WaitInv

\* As long as some backend is neither closing nor dropped, nothing is said of the forks.
LEMMA AwakeClose ==
  ASSUME CloseInv, status' = "running",
         NEW b \in Backends, backend[b].at \notin {"closing", "dropped"},
         backend'[b].at \notin {"closing", "dropped"},
         \A c \in Backends : \/ backend'[c].at = backend[c].at
                             \/ backend'[c].at \notin {"closing", "dropped"}
  PROVE  CloseInv'
<1>1. ASSUME NEW c \in Backends, Doing(c, "closing")'
      PROVE  FALSE
  <2>1. Doing(c, "closing") /\ b \in Backends \ {c}
    BY <1>1 DEF Doing
  <2>2. Doing(b, "dropped")
    BY <2>1, Zenon DEF CloseInv
  <2> QED BY <2>2 DEF Doing
<1>2. ~AllDropped'
  BY Zenon DEF AllDropped, Doing
<1> QED BY <1>1, <1>2, Zenon DEF CloseInv

\* While a backend is left, ids that were given stay known.
LEMMA AwakeId ==
  ASSUME IdInv, NEW b \in Backends, backend[b].at # "dropped",
         UNCHANGED <<status, forks, created, given>>
  PROVE  IdInv'
<1>1. ~AllDropped
  BY Zenon DEF AllDropped, Doing
<1> QED BY <1>1, Zenon DEF IdInv

\* The task that serves b as well as what the tasks of `old` serve.
Joined(b, u, n, old, new) ==
  /\ tasks' = (tasks \ old) \cup {new}
  /\ new.url = u /\ new.block = n
  /\ \A t \in tasks \ old : ~(t.url = u /\ t.block = n)
  /\ \A c \in Backends : Serves(new, c) <=> c = b \/ \E t \in old : Serves(t, c)
  /\ \/ new.stage = "new" /\ new.need = {}
     \/ \E t \in old : /\ new.url = t.url /\ new.block = t.block /\ new.stage = t.stage
                       /\ new.need = t.need /\ new.number = t.number

\* on_create_fork adds the sender to the task for this block of the url, or spawns
\* one for it.
LEMMA Joining ==
  ASSUME Types, LatestInv, NEW b \in Backends, NEW u \in Url, NEW n \in Lookup,
         on_create_fork(b, u, n)
  PROVE  \E new \in TaskRecord, old \in SUBSET tasks : Joined(b, u, n, old, new)
<1>1. CASE find_in_progress_task(u, n) = {}
  <2>1. PICK rec \in Backends \cup {None} :
          rec = IF Doing(b, "preload") THEN None ELSE b
    BY Zenon
  <2>2. PICK new : new =
          [url |-> u, block |-> n, senders |-> <<b>>, recording |-> rec, stage |-> "new",
           number |-> None, need |-> {}, found |-> FALSE]
    BY Zenon
  <2>3. tasks' = tasks \cup {new}
    BY <1>1, <2>1, <2>2, Zenon DEF on_create_fork
  <2>4. new \in TaskRecord
    <3>1. <<b>> \in Seq(Backends)
      OBVIOUS
    <3> QED BY <2>2, <3>1, Zenon DEF TaskRecord, Lookup
  <2>5. \A c \in Backends : Serves(new, c) <=> c = b
    <3>1. DOMAIN <<b>> = {1} /\ <<b>>[1] = b /\ new.senders = <<b>>
      BY <2>2
    <3> QED BY <3>1, Zenon DEF Serves
  <2>6. \A t \in tasks : ~(t.url = u /\ t.block = n)
    BY <1>1, Zenon DEF find_in_progress_task
  <2>7. new.url = u /\ new.block = n /\ new.stage = "new" /\ new.need = {}
    BY <2>2, Zenon
  <2>8. Joined(b, u, n, {}, new)
    BY <2>3, <2>5, <2>6, <2>7, Zenon DEF Joined
  <2> QED BY <2>4, <2>8, Zenon
<1>2. CASE find_in_progress_task(u, n) # {}
  <2>1. PICK t \in tasks : t.url = u /\ t.block = n
    BY <1>2, Zenon DEF find_in_progress_task
  <2>2. find_in_progress_task(u, n) = {t}
    BY <2>1, Zenon DEF find_in_progress_task, LatestInv
  <2>3. PICK new : new = [t EXCEPT !.senders = Append(t.senders, b)]
    BY Zenon
  <2>4. tasks' = {IF s \in {t} THEN [s EXCEPT !.senders = Append(@, b)] ELSE s : s \in tasks}
    BY <1>2, <2>2, Zenon DEF on_create_fork
  <2>5. tasks' = (tasks \ {t}) \cup {new}
    BY <2>1, <2>3, <2>4, Zenon
  <2>6. t \in TaskRecord
    BY <2>1, Zenon DEF Types
  <2>7. t.senders \in Seq(Backends)
    BY <2>6, Zenon DEF TaskRecord
  <2>8. PICK s : s = Append(t.senders, b)
    BY Zenon
  <2>9. /\ s \in Seq(Backends)
        /\ \A c : (\E k \in DOMAIN s : s[k] = c) <=>
                    c = b \/ \E k \in DOMAIN t.senders : t.senders[k] = c
    <3>1. PICK z \in Seq(Backends) : z = t.senders
      BY <2>7, Zenon
    <3>2. s = Append(z, b)
      BY <2>8, <3>1
    <3>3. /\ s \in Seq(Backends) /\ DOMAIN s = 1 .. Len(z) + 1 /\ DOMAIN z = 1 .. Len(z)
          /\ s[Len(z) + 1] = b /\ \A k \in DOMAIN z : s[k] = z[k]
          /\ Len(z) \in Nat
      BY <3>2
    <3>4. /\ \A k \in DOMAIN s : k \in DOMAIN z \/ k = Len(z) + 1
          /\ DOMAIN z \subseteq DOMAIN s /\ Len(z) + 1 \in DOMAIN s
      BY <3>3
    <3> QED BY <3>1, <3>3, <3>4, Zenon
  <2>10. /\ new \in TaskRecord /\ new.senders = s
         /\ new.url = t.url /\ new.block = t.block /\ new.stage = t.stage
         /\ new.need = t.need /\ new.number = t.number
    BY <2>3, <2>6, <2>8, <2>9, Zenon DEF TaskRecord
  <2>11. \A c \in Backends : Serves(new, c) <=> c = b \/ \E r \in {t} : Serves(r, c)
    <3>1. \A c : Serves(new, c) <=> c = b \/ Serves(t, c)
      BY <2>9, <2>10, Zenon DEF Serves
    <3> QED BY <3>1, Zenon
  <2>12. \A r \in tasks \ {t} : ~(r.url = u /\ r.block = n)
    BY <2>1, Zenon DEF LatestInv
  <2>13. Joined(b, u, n, {t}, new)
    BY <2>1, <2>5, <2>10, <2>11, <2>12, Zenon DEF Joined
  <2> QED BY <2>1, <2>10, <2>13, Zenon
<1> QED BY <1>1, <1>2

\* A request to create or to roll a fork has a task after it.
LEMMA JoinInv ==
  ASSUME IInv, NEW req \in RequestRecord, NEW i \in DOMAIN incoming, incoming[i] = req,
         Takes(req), req.kind \in {"CreateFork", "RollFork"},
         NEW u \in Url, NEW n \in Lookup, on_create_fork(req.from, u, n),
         status = "running",
         UNCHANGED <<head, backend, status, created, forks, handlers, latest_block_map, given,
                     pinned>>
  PROVE  IInv'
<1> USE DEF IInv
<1>1. PICK new \in TaskRecord, old \in SUBSET tasks : Joined(req.from, u, n, old, new)
  <2>1. req.from \in Backends
    BY Zenon DEF RequestRecord
  <2> QED BY <2>1, Joining, Zenon
<1>2. PICK b \in Backends : b = req.from
  BY Zenon DEF RequestRecord
<1>3. Asks(req.kind, backend[b].at) /\ Queued(b)
  BY <1>2, Zenon DEF WaitInv, Queued
<1>4. Wants(b)
  <2>1. backend[b].at \in {"create", "preload", "roll"}
    BY <1>3 DEF Asks
  <2> QED BY <2>1, Zenon DEF Wants
<1>5. Types'
  <2>1. \A c \in Backends : Doing(c, "missing")' => backend'[c].preload \in Ids
    BY Zenon DEF Doing, Types
  <2>2. tasks' \subseteq TaskRecord
    BY <1>1, Zenon DEF Joined, Types
  <2>3. /\ incoming' \in Seq(RequestRecord)
        /\ \A j \in DOMAIN incoming' :
              /\ incoming'[j].kind = "CreateFork" => incoming'[j].url \in Url
              /\ incoming'[j].kind = "GetFork" => incoming'[j].fork \in Ids
    BY TakesQueue, Zenon DEF Takes
  <2> QED BY <2>1, <2>2, <2>3, Zenon DEF Types
<1>6. WaitInv'
  <2>1. \A c \in Backends : Serves(new, c) =>
          Wants(c) /\ ~Queued(c)' /\ \A t \in tasks \ old : ~Serves(t, c)
    <3> SUFFICES ASSUME NEW c \in Backends, Serves(new, c)
                 PROVE  Wants(c) /\ ~Queued(c)' /\ \A t \in tasks \ old : ~Serves(t, c)
      OBVIOUS
    <3>1. CASE c = b
      BY <1>2, <1>3, <1>4, <3>1, TakesQueue, Zenon DEF WaitInv
    <3>2. CASE c # b
      <4>1. PICK t \in old : Serves(t, c)
        BY <1>1, <1>2, <3>2, Zenon DEF Joined
      <4>2. t \in tasks
        BY Zenon
      <4>3. Wants(c) /\ ~Queued(c) /\ \A r \in tasks \ old : ~Serves(r, c)
        BY <4>1, <4>2, Zenon DEF WaitInv
      <4> QED BY <4>3, TakesQueue, Zenon
    <3> QED BY <3>1, <3>2
  <2>2. \E c \in Backends : Serves(new, c)
    BY <1>1, <1>2, Zenon DEF Joined
  <2>3. tasks' = (tasks \ old) \cup {new}
    BY <1>1, Zenon DEF Joined
  <2>4. /\ \A j \in DOMAIN incoming' : Asks(incoming'[j].kind, backend[incoming'[j].from].at)
        /\ \A j, k \in DOMAIN incoming' : incoming'[j].from = incoming'[k].from => j = k
        /\ \A c \in Backends : Queued(c)' => Queued(c)
    BY TakesQueue, Zenon DEF Takes
  <2>5. WaitInv /\ UNCHANGED backend
    BY Zenon
  <2> QED BY <2>1, <2>2, <2>3, <2>4, <2>5, TasksWait, Zenon
<1>7. backend[b].at \notin {"closing", "dropped"}
  BY <1>4 DEF Wants
<1>8. CloseInv' /\ IdInv'
  <2>1. /\ backend'[b].at \notin {"closing", "dropped"} /\ status' = "running"
        /\ \A c \in Backends : backend'[c].at = backend[c].at
        /\ backend[b].at # "dropped"
    BY <1>7, Zenon
  <2> QED BY <1>7, <2>1, AwakeClose, AwakeId, Zenon
<1>9. LatestInv'
  <2>1. \A t \in tasks' : StageInv(t)'
    <3>1. \A t \in tasks : StageInv(t)'
      BY Zenon DEF LatestInv, StageInv
    <3>2. StageInv(new)'
      <4>1. CASE new.stage = "new" /\ new.need = {}
        BY <4>1, SMTT(60) DEF StageInv
      <4>2. ASSUME NEW t \in old, new.url = t.url, new.block = t.block, new.stage = t.stage,
                   new.need = t.need, new.number = t.number
            PROVE  StageInv(new)'
        <5>1. StageInv(t)'
          BY <3>1, Zenon
        <5> QED BY <4>2, <5>1, Zenon DEF StageInv
      <4> QED BY <1>1, <4>1, <4>2, Zenon DEF Joined
    <3> QED BY <1>1, <3>1, <3>2, Zenon DEF Joined
  <2>2. \A t, s \in tasks' : t.url = s.url /\ t.block = s.block => t = s
    BY <1>1, ZenonT(60) DEF LatestInv, Joined
  <2> QED BY <2>1, <2>2, Zenon DEF LatestInv
<1> QED BY <1>5, <1>6, <1>8, <1>9, SMTT(60)

\* An answer without a task: the backend goes on.
LEMMA AnswerInv ==
  ASSUME IInv, NEW req \in RequestRecord, NEW i \in DOMAIN incoming, incoming[i] = req,
         Takes(req), req.kind \in {"RollFork", "GetFork"},
         NEW at \in {"idle", "missing"}, Goes(req.from, at),
         at = "missing" => backend'[req.from].preload \in Ids,
         status = "running",
         UNCHANGED <<head, tasks, status, created, forks, handlers, latest_block_map, given,
                     pinned>>
  PROVE  IInv'
<1> USE DEF IInv
<1>1. PICK b \in Backends : b = req.from
  BY Zenon DEF RequestRecord
<1>2. Asks(req.kind, backend[b].at)
  BY <1>1, Zenon DEF WaitInv
<1>3. backend[b].at \notin {"closing", "dropped"} /\ backend[b].at # "dropped"
  BY <1>2 DEF Asks
<1>4. Types'
  <2>1. \A c \in Backends : Doing(c, "missing")' => backend'[c].preload \in Ids
    BY Zenon DEF Doing, Types, Goes
  <2>2. /\ incoming' \in Seq(RequestRecord)
        /\ \A j \in DOMAIN incoming' :
              /\ incoming'[j].kind = "CreateFork" => incoming'[j].url \in Url
              /\ incoming'[j].kind = "GetFork" => incoming'[j].fork \in Ids
    BY TakesQueue, Zenon DEF Takes
  <2> QED BY <2>1, <2>2, Zenon DEF Types, Goes
<1>5. WaitInv'
  BY AnswerWait, Zenon
<1>6. /\ backend'[b].at \notin {"closing", "dropped"} /\ status' = "running"
      /\ \A c \in Backends : \/ backend'[c].at = backend[c].at
                             \/ backend'[c].at \notin {"closing", "dropped"}
  <2>1. at \notin {"closing", "dropped"}
    OBVIOUS
  <2> QED BY <1>1, <2>1, Zenon DEF Goes
<1>7. CloseInv' /\ IdInv'
  BY <1>3, <1>6, AwakeClose, AwakeId, Zenon
<1>8. LatestInv'
  BY LatestKept, Zenon
<1> QED BY <1>4, <1>5, <1>7, <1>8, SMTT(60)

\* The last backend is answered: nothing was left to do.
LEMMA ShutdownInv ==
  ASSUME IInv, NEW req \in RequestRecord, NEW i \in DOMAIN incoming, incoming[i] = req,
         Takes(req), req.kind = "ShutDown", on_shutdown(req), status = "running",
         UNCHANGED <<head, tasks, status, created, latest_block_map, given, pinned>>
  PROVE  IInv'
<1> USE DEF IInv
<1>1. PICK b \in Backends : b = req.from
  BY Zenon DEF RequestRecord
<1>2. Doing(b, "closing")
  <2>1. Asks(req.kind, backend[b].at)
    BY <1>1, Zenon DEF WaitInv
  <2> QED BY <2>1 DEF Asks, Doing
<1>3. \A c \in Backends \ {b} : Doing(c, "dropped")
  BY <1>2, Zenon DEF CloseInv
<1>4. Goes(b, "dropped")
  <2>1. PICK r : r = [backend[b] EXCEPT !.at = "dropped"]
    BY Zenon
  <2>2. r \in BackendRecord /\ r.at = "dropped"
    BY <2>1, BackendFields, Zenon
  <2>3. backend' = [backend EXCEPT ![b] = r]
    BY <1>1, <2>1, Zenon DEF on_shutdown
  <2>4. Goes(b, r.at)
    BY <2>2, <2>3, Updated, Zenon
  <2> QED BY <2>2, <2>4, Zenon
<1>5. AllDropped'
  BY <1>3, <1>4, Zenon DEF AllDropped, Doing, Goes
<1>6. tasks = {}
  <2>1. \A c \in Backends : ~Wants(c)
    <3>1. \A c \in Backends : backend[c].at \in {"closing", "dropped"}
      BY <1>2, <1>3, Zenon DEF Doing
    <3> QED BY <3>1 DEF Wants
  <2> QED BY <2>1, Zenon DEF WaitInv
<1>7. forks' = <<>> /\ handlers' = {} /\ DOMAIN forks' = {}
  BY DEF on_shutdown
<1>8. Types'
  <2>1. \A c \in Backends : ~Doing(c, "missing")'
    BY <1>5 DEF AllDropped, Doing
  <2>2. /\ incoming' \in Seq(RequestRecord)
        /\ \A j \in DOMAIN incoming' :
              /\ incoming'[j].kind = "CreateFork" => incoming'[j].url \in Url
              /\ incoming'[j].kind = "GetFork" => incoming'[j].fork \in Ids
    BY TakesQueue, Zenon DEF Takes
  <2>3. DOMAIN forks' \subseteq Ids /\ \A f \in DOMAIN forks' : forks'[f] \in DOMAIN created'
    BY <1>7, Zenon
  <2> QED BY <1>4, <2>1, <2>2, <2>3, Zenon DEF Types, Goes
<1>9. WaitInv'
  BY <1>1, <1>4, AnswerWait, Zenon
<1>10. CloseInv'
  <2>1. \A c \in Backends : ~Doing(c, "closing")'
    BY <1>5 DEF AllDropped, Doing
  <2> QED BY <1>5, <1>6, <1>7, <2>1, Zenon DEF CloseInv
<1>11. IdInv'
  BY <1>5, <1>7, Zenon DEF IdInv
<1>12. LatestInv'
  BY LatestKept, Zenon
<1> QED BY <1>8, <1>9, <1>10, <1>11, <1>12

\* Backends that return are idle again.
LEMMA Returned ==
  ASSUME Types, NEW bs, Return(bs)
  PROVE  /\ backend' \in [Backends -> BackendRecord]
         /\ \A b \in Backends : IF b \in bs THEN backend'[b].at = "idle"
                                            ELSE backend'[b] = backend[b]
<1>1. backend' = [b \in Backends |-> IF b \in bs THEN Finished(b) ELSE backend[b]]
  BY Zenon DEF Return
<1>2. \A b \in Backends : Finished(b) \in BackendRecord /\ Finished(b).at = "idle"
  BY FinishedFields
<1>3. \A b \in Backends : backend[b] \in BackendRecord
  BY Zenon DEF Types
<1> QED BY <1>1, <1>2, <1>3, Zenon

\* An answer to one backend is a step of that backend.
LEMMA ReturnsOne ==
  ASSUME Types, NEW b \in Backends, Return({b})
  PROVE  Goes(b, "idle")
BY Returned, Zenon DEF Goes

\* on_request: every kind of request the handler takes preserves the invariant.
LEMMA RequestInv ==
  ASSUME IInv, on_request
  PROVE  IInv'
<1>1. /\ status = "running" /\ incoming # <<>> /\ incoming' = Tail(incoming)
      /\ UNCHANGED <<head, status, created, latest_block_map, given, pinned>>
      /\ Types /\ WaitInv
  BY Zenon DEF on_request, env_cache, IInv
<1>2. PICK req \in RequestRecord :
        /\ req = Head(incoming)
        /\ \E i \in DOMAIN incoming : incoming[i] = req
        /\ req.from \in Backends
        /\ Takes(req)
  BY <1>1, Received, Zenon
<1>3. PICK i \in DOMAIN incoming : incoming[i] = req
  BY <1>2, Zenon
<1>4. CASE /\ req.kind = "CreateFork" /\ on_create_fork(req.from, req.url, req.block)
           /\ UNCHANGED <<backend, forks, handlers>>
  <2>1. PICK u \in Url, n \in Lookup : u = req.url /\ n = req.block
    BY <1>1, <1>3, <1>4, Zenon DEF Types, RequestRecord
  <2> QED BY <1>1, <1>2, <1>3, <1>4, <2>1, JoinInv, Zenon
<1>5. CASE /\ req.kind = "RollFork" /\ on_roll_fork(req) /\ UNCHANGED <<forks, handlers>>
  <2>1. CASE req.fork \in DOMAIN forks
    <3>1. created[forks[req.fork]] \in ForkRecord
      <4>1. created \in Seq(ForkRecord) /\ forks[req.fork] \in DOMAIN created
        BY <1>1, <2>1, Zenon DEF Types
      <4> QED BY <4>1, SeqElements, Zenon
    <3>2. PICK u \in Url, n \in Lookup : u = created[forks[req.fork]].url /\ n = req.block
      BY <3>1, Zenon DEF ForkRecord, RequestRecord
    <3>3. on_create_fork(req.from, u, n) /\ UNCHANGED backend
      BY <1>5, <2>1, <3>2, Zenon DEF on_roll_fork
    <3> QED BY <1>1, <1>2, <1>3, <1>5, <3>3, JoinInv, Zenon
  <2>2. CASE req.fork \notin DOMAIN forks
    <3>1. Goes(req.from, "idle") /\ UNCHANGED tasks
      BY <1>1, <1>2, <1>5, <2>2, ReturnsOne, Zenon DEF on_roll_fork
    <3> QED BY <1>1, <1>2, <1>3, <1>5, <3>1, AnswerInv
  <2> QED BY <2>1, <2>2
<1>6. CASE req.kind = "GetFork" /\ on_get_fork(req) /\ UNCHANGED <<tasks, forks, handlers>>
  <2>1. CASE req.fork \in DOMAIN forks
    <3>1. Goes(req.from, "idle")
      BY <1>1, <1>2, <1>6, <2>1, ReturnsOne, Zenon DEF on_get_fork
    <3> QED BY <1>1, <1>2, <1>3, <1>6, <3>1, AnswerInv
  <2>2. CASE req.fork \notin DOMAIN forks
    <3>1. req.fork \in Ids
      BY <1>1, <1>3, <1>6, Zenon DEF Types
    <3>2. PICK b \in Backends, f \in Ids : b = req.from /\ f = req.fork
      BY <1>2, <3>1, Zenon
    <3>3. backend' = [backend EXCEPT ![b].at = "missing", ![b].preload = f]
      BY <1>6, <2>2, <3>2, Zenon DEF on_get_fork
    <3>4. PICK r : r = [backend[b] EXCEPT !.at = "missing", !.preload = f]
      BY Zenon
    <3>5. backend[b] \in BackendRecord
      BY <1>1, Zenon DEF Types
    <3>6. r \in BackendRecord /\ r.at = "missing" /\ r.preload = f
      BY <3>4, <3>5, Zenon DEF BackendRecord
    <3>7. backend' = [backend EXCEPT ![b] = r]
      BY <1>1, <3>3, <3>4, Zenon DEF Types
    <3>8. Goes(b, "missing") /\ backend'[b] = r
      BY <1>1, <3>6, <3>7, Updated, Zenon
    <3>9. Goes(req.from, "missing") /\ backend'[req.from].preload \in Ids
      BY <3>2, <3>6, <3>8, Zenon
    <3> QED BY <1>1, <1>2, <1>3, <1>6, <3>9, AnswerInv
  <2> QED BY <2>1, <2>2
<1>7. CASE req.kind = "ShutDown" /\ on_shutdown(req) /\ UNCHANGED tasks
  BY <1>1, <1>2, <1>3, <1>7, ShutdownInv, Zenon
<1> QED BY <1>2, <1>4, <1>5, <1>6, <1>7, Zenon DEF on_request

-----------------------------------------------------------------------------
(* A fork is there: the ids that are given for it *)

\* An id with a suffix more.
LEMMA Suffixed ==
  ASSUME NEW id \in Ids, NEW k \in Nat
  PROVE  /\ [id EXCEPT !.suffix = Append(id.suffix, k)] \in Ids
         /\ [id EXCEPT !.suffix = Append(id.suffix, k)].url = id.url
         /\ [id EXCEPT !.suffix = Append(id.suffix, k)].number = id.number
         /\ [id EXCEPT !.suffix = Append(id.suffix, k)].suffix # <<>>
         /\ [id EXCEPT !.suffix = Append(id.suffix, k)].suffix # id.suffix
         /\ Last([id EXCEPT !.suffix = Append(id.suffix, k)].suffix) = k
<1>1. PICK p \in Seq(Nat) : p = id.suffix
  BY Zenon DEF Ids
<1>2. PICK q : q = Append(p, k)
  BY Zenon
<1>3. q \in Seq(Nat) /\ q # <<>> /\ q # p /\ q[Len(q)] = k
  BY <1>2
<1>4. PICK r : r = [id EXCEPT !.suffix = q]
  BY Zenon
<1>5. r \in Ids /\ r.url = id.url /\ r.number = id.number /\ r.suffix = q
  BY <1>3, <1>4, Zenon DEF Ids
<1>6. [id EXCEPT !.suffix = Append(id.suffix, k)] = r
  BY <1>1, <1>2, <1>4, Zenon
<1> QED BY <1>1, <1>3, <1>5, <1>6, Zenon DEF Last

\* The ids of n consumers of a fork that has m senders, beginning with id.
Consumers(id, m, n, ids) ==
  /\ ids \in [1 .. n -> Ids] /\ ids[1] = id
  /\ \A k \in 1 .. n : ids[k].url = id.url /\ ids[k].number = id.number
  /\ \A k \in 1 .. n : k # 1 => ids[k].suffix # <<>> /\ Last(ids[k].suffix) = m + k - 2
  /\ \A k, l \in 1 .. n : ids[k] = ids[l] => k = l

\* The ids fork_created gives to the senders of a task are those of consumers: the
\* first one gets the id itself, the others a suffix each.
LEMMA ConsumerIds ==
  ASSUME NEW id \in Ids, NEW fork, NEW m \in Nat \ {0}, m = fork.senders, NEW n \in Nat \ {0},
         NEW ids, ids = [k \in 1 .. n |-> IF k = 1 THEN id ELSE inc_senders(id, fork, k - 2)]
  PROVE  Consumers(id, m, n, ids)
<1>1. \A k \in 1 .. n : k # 1 => m + (k - 2) \in Nat
  OBVIOUS
<1>2. 1 \in 1 .. n
  OBVIOUS
<1>3. ids[1] = id
  BY <1>2, Zenon
<1>4. ASSUME NEW k \in 1 .. n, k # 1
      PROVE  /\ ids[k] \in Ids /\ ids[k].url = id.url /\ ids[k].number = id.number
             /\ ids[k].suffix # <<>> /\ ids[k].suffix # id.suffix
             /\ Last(ids[k].suffix) = m + (k - 2)
  <2>1. PICK j \in Nat : j = m + (k - 2)
    BY <1>1, <1>4, Zenon
  <2>2. ids[k] = [id EXCEPT !.suffix = Append(id.suffix, j)]
    BY <1>4, <2>1, Zenon DEF inc_senders
  <2>3. PICK y : y = [id EXCEPT !.suffix = Append(id.suffix, j)]
    BY Zenon
  <2>4. /\ y \in Ids /\ y.url = id.url /\ y.number = id.number
        /\ y.suffix # <<>> /\ y.suffix # id.suffix /\ Last(y.suffix) = j
    BY <2>3, Suffixed, Zenon
  <2> QED BY <2>1, <2>2, <2>3, <2>4, Zenon
<1>5. ids \in [1 .. n -> Ids]
  BY <1>3, <1>4, Zenon
<1>6. \A k \in 1 .. n : ids[k].url = id.url /\ ids[k].number = id.number
  BY <1>3, <1>4, Zenon
<1>7. \A k \in 1 .. n : m + (k - 2) = m + k - 2
  OBVIOUS
<1>8. \A k \in 1 .. n : k # 1 => ids[k].suffix # <<>> /\ Last(ids[k].suffix) = m + k - 2
  BY <1>4, <1>7, Zenon
<1>9. ASSUME NEW k \in 1 .. n, NEW l \in 1 .. n, ids[k] = ids[l]
      PROVE  k = l
  <2>1. CASE k = 1 \/ l = 1
    BY <1>3, <1>4, <1>9, <2>1, Zenon
  <2>2. CASE k # 1 /\ l # 1
    <3>1. m + k - 2 = m + l - 2
      BY <1>8, <1>9, <2>2, Zenon
    <3> QED BY <3>1
  <2> QED BY <2>1, <2>2
<1> QED BY <1>3, <1>5, <1>6, <1>8, <1>9, Zenon DEF Consumers

\* The backends that a task serves return, the others do not change.
Served(task) ==
  /\ backend' \in [Backends -> BackendRecord]
  /\ \A b \in Backends : IF Serves(task, b) THEN backend'[b].at = "idle"
                                            ELSE backend'[b] = backend[b]

\* The senders of a task are the backends it works for.
LEMMA SendersServed ==
  ASSUME NEW task \in TaskRecord
  PROVE  /\ \A b : b \in Range(task.senders) <=> Serves(task, b)
         /\ Range(task.senders) \subseteq Backends
<1>1. task.senders \in Seq(Backends)
  BY Zenon DEF TaskRecord
<1>2. \A k \in DOMAIN task.senders : task.senders[k] \in Backends
  BY <1>1, SeqElements, Zenon
<1> QED BY <1>2, Zenon DEF Range, Serves

\* A task that fails answers all its senders.
LEMMA FailedServed ==
  ASSUME Types, NEW task \in TaskRecord, fork_failed(task)
  PROVE  Served(task)
BY SendersServed, Returned, Zenon DEF fork_failed, Served

\* A task that succeeds answers all its senders.
LEMMA SucceededServed ==
  ASSUME Types, NEW task \in TaskRecord, NEW ids, DOMAIN ids = Range(task.senders),
         \A b \in DOMAIN ids : ids[b] \in Ids, NEW fork, Succeeded(ids, task, fork)
  PROVE  Served(task)
<1>1. PICK preloading : preloading = {b \in DOMAIN ids : Doing(b, "preload")}
  BY Zenon
<1>2. backend' = [b \in Backends |->
           CASE b \in preloading -> Finished(b)
             [] b \in DOMAIN ids \ preloading ->
                  [Finished(b) EXCEPT !.fork = ids[b], !.lookup = task.block]
             [] OTHER -> backend[b]]
  BY <1>1, Zenon DEF Succeeded
<1>3. \A b \in Backends :
        /\ Serves(task, b) <=> b \in DOMAIN ids
        /\ backend[b] \in BackendRecord
        /\ Finished(b) \in BackendRecord /\ Finished(b).at = "idle"
  BY SendersServed, FinishedFields, Zenon DEF Types
<1>4. ASSUME NEW b \in Backends
      PROVE  /\ backend'[b] \in BackendRecord
             /\ IF Serves(task, b) THEN backend'[b].at = "idle" ELSE backend'[b] = backend[b]
  <2>1. CASE b \in preloading
    <3>1. backend'[b] = Finished(b) /\ b \in DOMAIN ids
      BY <1>1, <1>2, <2>1, Zenon
    <3> QED BY <1>3, <3>1, Zenon
  <2>2. CASE b \in DOMAIN ids \ preloading
    <3>1. PICK r : r = Finished(b)
      BY Zenon
    <3>2. PICK f \in Ids : f = ids[b]
      BY <2>2, Zenon
    <3>3. PICK n \in Lookup : n = task.block
      BY Zenon DEF TaskRecord
    <3>4. backend'[b] = [r EXCEPT !.fork = f, !.lookup = n]
      <4>1. backend'[b] = [Finished(b) EXCEPT !.fork = ids[b], !.lookup = task.block]
        BY <1>2, <2>2, Zenon
      <4> QED BY <3>1, <3>2, <3>3, <4>1, Zenon
    <3>5. r \in BackendRecord /\ r.at = "idle"
      BY <1>3, <3>1, Zenon
    <3>6. backend'[b] \in BackendRecord /\ backend'[b].at = "idle"
      BY <3>1, <3>4, <3>5, Zenon DEF BackendRecord
    <3> QED BY <1>3, <2>2, <3>6, Zenon
  <2>3. CASE b \notin preloading /\ b \notin DOMAIN ids
    <3>1. backend'[b] = backend[b]
      BY <1>2, <2>3, Zenon
    <3> QED BY <1>3, <2>3, <3>1, Zenon
  <2> QED BY <2>1, <2>2, <2>3, Zenon
<1> QED BY <1>2, <1>4, Zenon DEF Served

\* What insert_new_fork does.
Inserts(id, i, all, task, ids) ==
  /\ Consumers(id, all[i].senders, Len(task.senders), ids)
  /\ created' \in Seq(ForkRecord) /\ DOMAIN created' = DOMAIN all
  /\ created'[i].senders = all[i].senders + Len(task.senders) - 1
  /\ \A j \in DOMAIN all \ {i} : created'[j] = all[j]
  /\ forks' = [f \in DOMAIN forks \cup {ids[k] : k \in 1 .. Len(task.senders)} |->
                 IF \E k \in 1 .. Len(task.senders) : f = ids[k] THEN i ELSE forks[f]]
  /\ given' = given \o [k \in 1 .. Len(task.senders) |-> [id |-> ids[k], asked |-> task.block]]
  /\ Served(task)

\* insert_new_fork puts the fork under the ids of all senders.
LEMMA Inserted ==
  ASSUME Types, NEW id \in Ids, NEW all \in Seq(ForkRecord), NEW i \in DOMAIN all,
         all[i].senders # 0, NEW task \in TaskRecord, Len(task.senders) # 0,
         insert_new_fork(id, i, all, task)
  PROVE  \E ids : Inserts(id, i, all, task, ids)
<1> DEFINE n == Len(task.senders)
<1>1. n \in Nat \ {0}
  <2>1. task.senders \in Seq(Backends)
    BY Zenon DEF TaskRecord
  <2>2. Len(task.senders) \in Nat
    BY <2>1
  <2> QED BY <2>2, Zenon
<1> HIDE DEF n
<1>2. all[i] \in ForkRecord
  BY SeqElements, Zenon
<1>3. PICK m \in Nat \ {0} : m = all[i].senders
  BY <1>2, Zenon DEF ForkRecord
<1>4. PICK ids : ids = [k \in 1 .. n |-> IF k = 1 THEN id ELSE inc_senders(id, all[i], k - 2)]
  BY Zenon
<1>5. Consumers(id, m, n, ids)
  BY <1>1, <1>3, <1>4, ConsumerIds, Zenon
<1>6. created' = [all EXCEPT ![i].senders = @ + n - 1]
  BY Zenon DEF insert_new_fork, n
<1>7. forks' = [f \in DOMAIN forks \cup {ids[k] : k \in 1 .. n} |->
                    IF \E k \in 1 .. n : f = ids[k] THEN i ELSE forks[f]]
  BY <1>4, Zenon DEF insert_new_fork, n
<1>8. given' = given \o [k \in 1 .. n |-> [id |-> ids[k], asked |-> task.block]]
  BY <1>4, Zenon DEF insert_new_fork, n
<1>9. Succeeded([b \in Range(task.senders) |-> ids[CHOOSE k \in 1 .. n : task.senders[k] = b]],
                   task, all[i])
  BY <1>4, SMT DEF insert_new_fork, n
<1>10. PICK l \in Nat : l = m + n - 1
  <2>1. m + n - 1 \in Nat
    BY <1>1
  <2> QED BY <2>1, Zenon
<1>11. PICK r : r = [all[i] EXCEPT !.senders = l]
  BY Zenon
<1>12. r \in ForkRecord /\ r.senders = l
  BY <1>2, <1>11, Zenon DEF ForkRecord
<1>13. created' = [all EXCEPT ![i] = r]
  BY <1>3, <1>6, <1>10, <1>11, Zenon
<1>14. /\ created' \in Seq(ForkRecord) /\ DOMAIN created' = DOMAIN all
       /\ created'[i] = r /\ \A j \in DOMAIN all \ {i} : created'[j] = all[j]
  BY <1>12, <1>13
<1>15. created'[i].senders = m + n - 1
  BY <1>10, <1>12, <1>14, Zenon
<1>16. Served(task)
  <2>1. PICK own : own = [b \in Range(task.senders) |->
                            ids[CHOOSE k \in 1 .. n : task.senders[k] = b]]
    BY Zenon
  <2>2. DOMAIN task.senders = 1 .. n
    <3>1. task.senders \in Seq(Backends)
      BY Zenon DEF TaskRecord
    <3> QED BY <3>1 DEF n
  <2>3. \A b \in Range(task.senders) : \E k \in 1 .. n : task.senders[k] = b
    BY <2>2, Zenon DEF Range
  <2>4. \A b \in Range(task.senders) : own[b] \in Ids
    BY <1>5, <2>1, <2>3, Zenon DEF Consumers
  <2>5. DOMAIN own = Range(task.senders) /\ Succeeded(own, task, all[i])
    BY <1>9, <2>1, Zenon
  <2> QED BY <2>4, <2>5, SucceededServed, Zenon
<1>17. Inserts(id, i, all, task, ids)
  BY <1>3, <1>5, <1>7, <1>8, <1>14, <1>15, <1>16, Zenon DEF Inserts, n
<1> QED BY <1>17, Zenon

\* The ids given for a fork that is found at i are new ones of its url and number, and
\* the id without a suffix is known.
Issues(task, i, ids) ==
  /\ ids \in [1 .. Len(task.senders) -> Ids]
  /\ \A k \in 1 .. Len(task.senders) :
       /\ ids[k].url = task.url /\ ids[k].number = task.number
       /\ ids[k] \notin DOMAIN forks
       /\ ids[k].suffix # <<>> => Last(ids[k].suffix) < created'[i].senders
  /\ \A k, l \in 1 .. Len(task.senders) : ids[k] = ids[l] => k = l
  /\ created' \in Seq(ForkRecord) /\ i \in DOMAIN created'
  /\ \A j \in DOMAIN created :
       /\ j \in DOMAIN created'
       /\ \A x \in Nat : x < created[j].senders => x < created'[j].senders
  /\ \/ ForkId(task.url, task.number) \in DOMAIN forks /\ forks[ForkId(task.url, task.number)] = i
     \/ \E k \in 1 .. Len(task.senders) : ids[k] = ForkId(task.url, task.number)
  /\ \A f \in DOMAIN forks : f.url = task.url /\ f.number = task.number => forks[f] = i
  /\ forks' = [f \in DOMAIN forks \cup {ids[k] : k \in 1 .. Len(task.senders)} |->
                 IF \E k \in 1 .. Len(task.senders) : f = ids[k] THEN i ELSE forks[f]]
  /\ given' = given \o [k \in 1 .. Len(task.senders) |-> [id |-> ids[k], asked |-> task.block]]
  /\ Served(task)

\* A task that works for a backend has senders.
LEMMA TaskSenders ==
  ASSUME NEW task \in TaskRecord, NEW b, Serves(task, b)
  PROVE  Len(task.senders) \in Nat \ {0} /\ DOMAIN task.senders = 1 .. Len(task.senders)
<1>1. PICK s \in Seq(Backends) : s = task.senders
  BY Zenon DEF TaskRecord
<1>2. PICK k \in DOMAIN s : TRUE
  BY <1>1, Zenon DEF Serves
<1>3. Len(s) \in Nat \ {0} /\ DOMAIN s = 1 .. Len(s)
  BY <1>2
<1> QED BY <1>1, <1>3

\* fork_created when the fork is there already: another task created it.
LEMMA ExistingFork ==
  ASSUME Types, IdInv, NEW task \in TaskRecord, NEW b, Serves(task, b),
         task.number \in Number,
         ForkId(task.url, task.number) \in DOMAIN forks, fork_created(task)
  PROVE  \E i, ids : Issues(task, i, ids)
<1>1. PICK id \in Ids : id = ForkId(task.url, task.number)
  BY ForkIdType, Zenon DEF TaskRecord
<1>2. id.url = task.url /\ id.number = task.number /\ id.suffix = <<>>
  BY <1>1, Zenon DEF ForkId
<1>3. PICK i \in DOMAIN created : i = forks[id]
  BY <1>1, Zenon DEF Types
<1>4. created \in Seq(ForkRecord)
  BY Zenon DEF Types
<1>5. created[i] \in ForkRecord
  BY <1>4, SeqElements, Zenon
<1>6. PICK s \in Nat : s = created[i].senders
  BY <1>5, Zenon DEF ForkRecord
<1>7. PICK r : r = [created[i] EXCEPT !.senders = s + 1]
  BY Zenon
<1>8. r \in ForkRecord /\ r.senders = s + 1
  <2>1. s + 1 \in Nat
    OBVIOUS
  <2> QED BY <1>5, <1>7, <2>1, Zenon DEF ForkRecord
<1>9. PICK all : all = [created EXCEPT ![i].senders = @ + 1]
  BY Zenon
<1>10. all = [created EXCEPT ![i] = r]
  BY <1>6, <1>7, <1>9, Zenon
<1>11. /\ all \in Seq(ForkRecord) /\ DOMAIN all = DOMAIN created /\ all[i] = r
       /\ \A j \in DOMAIN created \ {i} : all[j] = created[j]
  BY <1>4, <1>8, <1>10
<1>12. PICK id1 : id1 = [id EXCEPT !.suffix = Append(id.suffix, s)]
  BY Zenon
<1>13. /\ id1 \in Ids /\ id1.url = id.url /\ id1.number = id.number
       /\ id1.suffix # <<>> /\ Last(id1.suffix) = s
  BY <1>12, Suffixed, Zenon
<1>14. insert_new_fork(id1, i, all, task)
  <2>1. s + 0 = s
    OBVIOUS
  <2>2. inc_senders(id, created[i], 0) = id1
    BY <1>6, <1>12, <2>1, Zenon DEF inc_senders
  <2> QED BY <1>1, <1>3, <1>9, <2>2, Zenon DEF fork_created
<1>15. PICK n \in Nat \ {0} : n = Len(task.senders)
  BY TaskSenders, Zenon
<1>16. PICK ids : Inserts(id1, i, all, task, ids)
  <2>1. all[i].senders # 0 /\ Len(task.senders) # 0 /\ i \in DOMAIN all
    BY <1>8, <1>11, <1>15
  <2> QED BY <1>11, <1>13, <1>14, <2>1, Inserted, Zenon
<1>17. Consumers(id1, s + 1, n, ids) /\ created'[i].senders = (s + 1) + n - 1
  BY <1>8, <1>11, <1>15, <1>16, Zenon DEF Inserts
<1>18. \A k \in 1 .. n : ids[k].suffix # <<>> /\ Last(ids[k].suffix) = s + k - 1
  <2>1. \A k \in 1 .. n : k # 1 => (s + 1) + k - 2 = s + k - 1
    OBVIOUS
  <2>2. s = s + 1 - 1
    OBVIOUS
  <2> QED BY <1>13, <1>17, <2>1, <2>2, Zenon DEF Consumers
<1>19. \A k \in 1 .. n : s + k - 1 < created'[i].senders /\ ~(s + k - 1 < s)
  BY <1>17
<1>20. \A f \in DOMAIN forks : f.url = task.url /\ f.number = task.number => forks[f] = i
  BY <1>1, <1>3, Zenon DEF IdInv
<1>21. \A k \in 1 .. n : ids[k].url = task.url /\ ids[k].number = task.number
  BY <1>2, <1>13, <1>17, Zenon DEF Consumers
<1>22. ASSUME NEW k \in 1 .. n, ids[k] \in DOMAIN forks
       PROVE  FALSE
  <2>1. Last(ids[k].suffix) < created[forks[ids[k]]].senders
    BY <1>18, <1>22, Zenon DEF IdInv
  <2>2. forks[ids[k]] = i
    BY <1>20, <1>21, <1>22, Zenon
  <2>3. s + k - 1 < s
    BY <1>6, <1>18, <2>1, <2>2, Zenon
  <2> QED BY <1>19, <2>3, Zenon
<1>23. ASSUME NEW j \in DOMAIN created, NEW x \in Nat, x < created[j].senders
       PROVE  x < created'[j].senders
  <2>1. CASE j = i
    <3>1. x < s
      BY <1>6, <1>23, <2>1, Zenon
    <3>2. x < (s + 1) + n - 1
      BY <3>1
    <3> QED BY <1>17, <2>1, <3>2, Zenon
  <2>2. CASE j # i
    BY <1>11, <1>16, <1>23, <2>2, Zenon DEF Inserts
  <2> QED BY <2>1, <2>2
<1>24. /\ ids \in [1 .. n -> Ids]
       /\ \A k, l \in 1 .. n : ids[k] = ids[l] => k = l
  BY <1>17, Zenon DEF Consumers
<1>25. Issues(task, i, ids)
  <2>1. \A k \in 1 .. n :
          /\ ids[k].url = task.url /\ ids[k].number = task.number
          /\ ids[k] \notin DOMAIN forks
          /\ ids[k].suffix # <<>> => Last(ids[k].suffix) < created'[i].senders
    BY <1>18, <1>19, <1>21, <1>22, Zenon
  <2>2. created' \in Seq(ForkRecord) /\ i \in DOMAIN created' /\ DOMAIN created' = DOMAIN created
    BY <1>11, <1>16, Zenon DEF Inserts
  <2>3. ForkId(task.url, task.number) \in DOMAIN forks /\ forks[ForkId(task.url, task.number)] = i
    BY <1>1, <1>3, Zenon
  <2> QED BY <1>15, <1>16, <1>20, <1>23, <1>24, <2>1, <2>2, <2>3, Zenon DEF Issues, Inserts
<1> QED BY <1>25, Zenon

\* fork_created when the fork is new.
LEMMA FirstFork ==
  ASSUME Types, IdInv, NEW task \in TaskRecord, NEW b, Serves(task, b),
         task.number \in Number,
         ForkId(task.url, task.number) \notin DOMAIN forks, fork_created(task)
  PROVE  \E i, ids : Issues(task, i, ids)
<1>1. PICK id \in Ids : id = ForkId(task.url, task.number)
  BY ForkIdType, Zenon DEF TaskRecord
<1>2. id.url = task.url /\ id.number = task.number /\ id.suffix = <<>>
  BY <1>1, Zenon DEF ForkId
<1>3. created \in Seq(ForkRecord)
  BY Zenon DEF Types
<1>4. PICK new : new = NewFork(task)
  BY Zenon
<1>5. new \in ForkRecord /\ new.senders = 1
  <2>1. /\ task.url \in Url /\ task.block \in Lookup /\ task.recording \in Backends \cup {None}
        /\ 1 \in Nat
    BY Zenon DEF TaskRecord
  <2> QED BY <1>4, <2>1, Zenon DEF NewFork, ForkRecord
<1>6. PICK all : all = Append(created, new)
  BY Zenon
<1>7. PICK i : i = Len(created) + 1
  BY Zenon
<1>8. /\ all \in Seq(ForkRecord) /\ i \in DOMAIN all /\ all[i] = new
      /\ \A j \in DOMAIN created : j \in DOMAIN all \ {i} /\ all[j] = created[j]
  BY <1>3, <1>5, <1>6, <1>7
<1>9. insert_new_fork(id, i, all, task)
  BY <1>1, <1>4, <1>6, <1>7, Zenon DEF fork_created
<1>10. PICK n \in Nat \ {0} : n = Len(task.senders)
  BY TaskSenders, Zenon
<1>11. PICK ids : Inserts(id, i, all, task, ids)
  <2>1. all[i].senders # 0 /\ Len(task.senders) # 0
    BY <1>5, <1>8, <1>10
  <2> QED BY <1>8, <1>9, <2>1, Inserted, Zenon
<1>12. Consumers(id, 1, n, ids) /\ created'[i].senders = 1 + n - 1
  BY <1>5, <1>8, <1>10, <1>11, Zenon DEF Inserts
<1>13. \A k \in 1 .. n : ids[k].suffix # <<>> => Last(ids[k].suffix) < created'[i].senders
  <2>1. \A k \in 1 .. n : 1 + k - 2 < 1 + n - 1
    OBVIOUS
  <2> QED BY <1>2, <1>12, <2>1, Zenon DEF Consumers
<1>14. \A k \in 1 .. n : ids[k].url = task.url /\ ids[k].number = task.number
  BY <1>2, <1>12, Zenon DEF Consumers
<1>15. \A f \in DOMAIN forks : ~(f.url = task.url /\ f.number = task.number)
  BY Zenon DEF IdInv
<1>16. /\ ids \in [1 .. n -> Ids] /\ ids[1] = id
       /\ \A k, l \in 1 .. n : ids[k] = ids[l] => k = l
  BY <1>12, Zenon DEF Consumers
<1>17. /\ created' \in Seq(ForkRecord) /\ i \in DOMAIN created'
       /\ \A j \in DOMAIN created : j \in DOMAIN created' /\ created'[j] = created[j]
  BY <1>8, <1>11, Zenon DEF Inserts
<1>18. \A k \in 1 .. n :
          /\ ids[k].url = task.url /\ ids[k].number = task.number
          /\ ids[k] \notin DOMAIN forks
          /\ ids[k].suffix # <<>> => Last(ids[k].suffix) < created'[i].senders
  BY <1>13, <1>14, <1>15, Zenon
<1>19. \E k \in 1 .. n : ids[k] = ForkId(task.url, task.number)
  <2>1. 1 \in 1 .. n
    OBVIOUS
  <2> QED BY <1>1, <1>16, <2>1, Zenon
<1>20. \A j \in DOMAIN created : \A x \in Nat :
         x < created[j].senders => x < created'[j].senders
  BY <1>17, Zenon
<1>21. Issues(task, i, ids)
  BY <1>10, <1>11, <1>15, <1>16, <1>17, <1>18, <1>19, <1>20, Zenon DEF Issues, Inserts
<1> QED BY <1>21, Zenon

\* In both cases the senders get ids of one fork.
LEMMA ForkCreated ==
  ASSUME Types, IdInv, NEW task \in TaskRecord, NEW b, Serves(task, b),
         task.number \in Number, fork_created(task)
  PROVE  \E i, ids : Issues(task, i, ids)
BY ExistingFork, FirstFork, Zenon

\* A function on 1..n is a sequence.
LEMMA FunctionSeq ==
  ASSUME NEW S, NEW n \in Nat, NEW g \in [1 .. n -> S]
  PROVE  g \in Seq(S) /\ Len(g) = n
OBVIOUS

\* h is s, followed by g.
Extended(s, g, h) ==
  \A j \in DOMAIN h : \/ j \in DOMAIN s /\ h[j] = s[j]
                      \/ \E k \in 1 .. Len(g) : j = Len(s) + k /\ h[j] = g[k]

\* The elements of two sequences put together.
LEMMA ConcatElements ==
  ASSUME NEW S, NEW s \in Seq(S), NEW g \in Seq(S)
  PROVE  s \o g \in Seq(S) /\ Extended(s, g, s \o g)
<1>1. /\ s \o g \in Seq(S)
      /\ DOMAIN (s \o g) = 1 .. Len(s) + Len(g) /\ DOMAIN s = 1 .. Len(s)
      /\ Len(s) \in Nat /\ Len(g) \in Nat
      /\ \A j \in 1 .. Len(s) : (s \o g)[j] = s[j]
      /\ \A j \in Len(s) + 1 .. Len(s) + Len(g) : (s \o g)[j] = g[j - Len(s)]
  OBVIOUS
<1>2. ASSUME NEW j \in DOMAIN (s \o g), j \notin DOMAIN s
      PROVE  \E k \in 1 .. Len(g) : j = Len(s) + k /\ (s \o g)[j] = g[k]
  <2>1. /\ j \in Len(s) + 1 .. Len(s) + Len(g) /\ j - Len(s) \in 1 .. Len(g)
        /\ j = Len(s) + (j - Len(s))
    BY <1>1, <1>2
  <2> QED BY <1>1, <2>1, Zenon
<1> QED BY <1>1, <1>2, Zenon DEF Extended

\* What the new ids do to the answers.
LEMMA IssuedGiven ==
  ASSUME Types, NEW task \in TaskRecord, NEW i, NEW ids, Issues(task, i, ids),
         NEW n \in Nat, n = Len(task.senders)
  PROVE  /\ given' \in Seq([id : Ids, asked : Lookup])
         /\ \A j \in DOMAIN given' :
              \/ j \in DOMAIN given /\ given'[j] = given[j]
              \/ \E k \in 1 .. n :
                   j = Len(given) + k /\ given'[j].id = ids[k] /\ given'[j].asked = task.block
<1>1. PICK g : g = [k \in 1 .. n |-> [id |-> ids[k], asked |-> task.block]]
  BY Zenon
<1>2. \A k \in 1 .. n : [id |-> ids[k], asked |-> task.block] \in [id : Ids, asked : Lookup]
  <2>1. \A k \in 1 .. n : ids[k] \in Ids
    BY Zenon DEF Issues
  <2>2. task.block \in Lookup
    BY Zenon DEF TaskRecord
  <2> QED BY <2>1, <2>2, Zenon
<1>3. g \in [1 .. n -> [id : Ids, asked : Lookup]]
  BY <1>1, <1>2, Zenon
<1>4. g \in Seq([id : Ids, asked : Lookup]) /\ Len(g) = n
  BY <1>3, FunctionSeq, Zenon
<1>5. given' = given \o g
  <2>1. given' = given \o [k \in 1 .. n |-> [id |-> ids[k], asked |-> task.block]]
    BY Zenon DEF Issues
  <2> QED BY <1>1, <2>1, Zenon
<1>6. given \in Seq([id : Ids, asked : Lookup])
  BY Zenon DEF Types
<1>7. /\ given' \in Seq([id : Ids, asked : Lookup])
      /\ \A j \in DOMAIN given' :
           \/ j \in DOMAIN given /\ given'[j] = given[j]
           \/ \E k \in 1 .. n : j = Len(given) + k /\ given'[j] = g[k]
  <2>1. given' \in Seq([id : Ids, asked : Lookup]) /\ Extended(given, g, given')
    BY <1>4, <1>5, <1>6, ConcatElements, Zenon
  <2> QED BY <1>4, <2>1, Zenon DEF Extended
<1>8. \A k \in 1 .. n : g[k].id = ids[k] /\ g[k].asked = task.block
  BY <1>1, Zenon
<1>9. ASSUME NEW j \in DOMAIN given', j \notin DOMAIN given \/ given'[j] # given[j]
      PROVE  \E k \in 1 .. n :
               j = Len(given) + k /\ given'[j].id = ids[k] /\ given'[j].asked = task.block
  <2>1. PICK k \in 1 .. n : j = Len(given) + k /\ given'[j] = g[k]
    BY <1>7, <1>9, Zenon
  <2> QED BY <1>8, <2>1, Zenon
<1> QED BY <1>7, <1>9, Zenon

\* After ids were given every fork is still found under its own id, and suffixes end
\* below the number of senders.
LEMMA IssuedForks ==
  ASSUME Types, IdInv, NEW task \in TaskRecord, NEW i, NEW ids, Issues(task, i, ids)
  PROVE  /\ DOMAIN forks' \subseteq Ids /\ \A f \in DOMAIN forks' : forks'[f] \in DOMAIN created'
         /\ \A f \in DOMAIN forks' :
              /\ ForkId(f.url, f.number) \in DOMAIN forks'
              /\ forks'[f] = forks'[ForkId(f.url, f.number)]
              /\ f.suffix # <<>> => Last(f.suffix) < created'[forks'[f]].senders
         /\ DOMAIN forks \subseteq DOMAIN forks'
         /\ \A k \in 1 .. Len(task.senders) : ids[k] \in DOMAIN forks'
<1>1. /\ DOMAIN forks' = DOMAIN forks \cup {ids[k] : k \in 1 .. Len(task.senders)}
      /\ \A k \in 1 .. Len(task.senders) : ids[k] \in DOMAIN forks' /\ forks'[ids[k]] = i
      /\ \A f \in DOMAIN forks : f \in DOMAIN forks' /\ forks'[f] = forks[f]
  BY Zenon DEF Issues
<1>2. DOMAIN forks' \subseteq Ids
  <2>1. DOMAIN forks \subseteq Ids
    BY Zenon DEF Types
  <2>2. \A k \in 1 .. Len(task.senders) : ids[k] \in Ids
    BY Zenon DEF Issues
  <2> QED BY <1>1, <2>1, <2>2, Zenon
<1>3. \A f \in DOMAIN forks' : forks'[f] \in DOMAIN created'
  <2>1. \A f \in DOMAIN forks : forks[f] \in DOMAIN created'
    BY Zenon DEF Types, Issues
  <2>2. i \in DOMAIN created'
    BY Zenon DEF Issues
  <2> QED BY <1>1, <2>1, <2>2, Zenon
<1>4. ASSUME NEW f \in DOMAIN forks
      PROVE  /\ ForkId(f.url, f.number) \in DOMAIN forks'
             /\ forks'[f] = forks'[ForkId(f.url, f.number)]
             /\ f.suffix # <<>> => Last(f.suffix) < created'[forks'[f]].senders
  <2>1. /\ ForkId(f.url, f.number) \in DOMAIN forks
        /\ forks[f] = forks[ForkId(f.url, f.number)]
        /\ f.suffix # <<>> => Last(f.suffix) < created[forks[f]].senders
    BY Zenon DEF IdInv
  <2>2. ASSUME f.suffix # <<>>
        PROVE  Last(f.suffix) < created'[forks'[f]].senders
    <3>1. PICK s \in Seq(Nat) : s = f.suffix
      BY Zenon DEF Types, Ids
    <3>2. s[Len(s)] \in Nat
      BY <2>2, <3>1
    <3>3. Last(f.suffix) \in Nat
      BY <3>1, <3>2, Zenon DEF Last
    <3>4. forks[f] \in DOMAIN created
      BY Zenon DEF Types
    <3>5. Last(f.suffix) < created'[forks[f]].senders
      BY <2>1, <2>2, <3>3, <3>4, Zenon DEF Issues
    <3> QED BY <1>1, <3>5, Zenon
  <2> QED BY <1>1, <2>1, <2>2, Zenon
<1>5. ASSUME NEW k \in 1 .. Len(task.senders), NEW f, f = ids[k]
      PROVE  /\ ForkId(f.url, f.number) \in DOMAIN forks'
             /\ forks'[f] = forks'[ForkId(f.url, f.number)]
             /\ f.suffix # <<>> => Last(f.suffix) < created'[forks'[f]].senders
  <2>1. f.url = task.url /\ f.number = task.number /\ forks'[f] = i
    BY <1>1, <1>5, Zenon DEF Issues
  <2>2. /\ ForkId(task.url, task.number) \in DOMAIN forks'
        /\ forks'[ForkId(task.url, task.number)] = i
    BY <1>1, ZenonT(60) DEF Issues
  <2>3. f.suffix # <<>> => Last(f.suffix) < created'[i].senders
    BY <1>5, Zenon DEF Issues
  <2> QED BY <2>1, <2>2, <2>3, Zenon
<1> QED BY <1>1, <1>2, <1>3, <1>4, <1>5, Zenon

\* The ids a task gives are new, and known from then on.
LEMMA IssuedId ==
  ASSUME Types, IdInv, NEW task \in TaskRecord, NEW i, NEW ids, Issues(task, i, ids),
         NEW n \in Nat, n = Len(task.senders), status = "running", ~AllDropped
  PROVE  IdInv'
<1>1. \A j \in DOMAIN given : given[j].id \in DOMAIN forks
  BY Zenon DEF IdInv
<1>2. \A j \in DOMAIN given' :
        \/ j \in DOMAIN given /\ given'[j] = given[j]
        \/ \E k \in 1 .. n :
             j = Len(given) + k /\ given'[j].id = ids[k] /\ given'[j].asked = task.block
  BY IssuedGiven, Zenon
<1>3. \A j \in DOMAIN given' : given'[j].id \in DOMAIN forks'
  <2>1. DOMAIN forks \subseteq DOMAIN forks' /\ \A k \in 1 .. n : ids[k] \in DOMAIN forks'
    BY IssuedForks, Zenon
  <2> QED BY <1>1, <1>2, <2>1, Zenon
<1>4. ASSUME NEW j \in DOMAIN given', NEW l \in DOMAIN given', given'[j].id = given'[l].id
      PROVE  j = l
  <2>1. \A k \in 1 .. n : ids[k] \notin DOMAIN forks
    BY Zenon DEF Issues
  <2>2. CASE given'[j].id \in DOMAIN forks
    <3>1. j \in DOMAIN given /\ given'[j] = given[j] /\ l \in DOMAIN given /\ given'[l] = given[l]
      BY <1>2, <1>4, <2>1, <2>2, Zenon
    <3> QED BY <1>4, <3>1, Zenon DEF IdInv
  <2>3. CASE given'[j].id \notin DOMAIN forks
    <3>1. PICK k \in 1 .. n : j = Len(given) + k /\ given'[j].id = ids[k]
      BY <1>1, <1>2, <2>3, Zenon
    <3>2. PICK m \in 1 .. n : l = Len(given) + m /\ given'[l].id = ids[m]
      BY <1>1, <1>2, <1>4, <2>3, ZenonT(60)
    <3>3. k = m
      BY <1>4, <3>1, <3>2, ZenonT(60) DEF Issues
    <3> QED BY <3>1, <3>2, <3>3, Zenon
  <2> QED BY <2>2, <2>3
<1> QED BY <1>3, <1>4, IssuedForks, Zenon DEF IdInv

\* A task ends.
LEMMA ServedSenders ==
  ASSUME NEW old, NEW new, new.senders = old.senders
  PROVE  /\ \A b : Serves(new, b) <=> Serves(old, b)
         /\ Served(new) => Served(old)
BY Zenon DEF Serves, Served

\* A task that answered its senders is gone and they do not wait any more.
LEMMA FinishWait ==
  ASSUME Types, WaitInv, NEW old \in tasks, tasks' = tasks \ {old}, Served(old),
         UNCHANGED incoming
  PROVE  WaitInv'
<1>1. \A i \in DOMAIN incoming : incoming[i].from \in Backends /\ Queued(incoming[i].from)
  <2>1. incoming \in Seq(RequestRecord)
    BY Zenon DEF Types
  <2>2. \A i \in DOMAIN incoming : incoming[i] \in RequestRecord
    BY <2>1, SeqElements, Zenon
  <2> QED BY <2>2, Zenon DEF RequestRecord, Queued
<1>2. \A i \in DOMAIN incoming : backend'[incoming[i].from] = backend[incoming[i].from]
  BY <1>1, Zenon DEF WaitInv, Served
<1>3. \A i \in DOMAIN incoming' : Asks(incoming'[i].kind, backend'[incoming'[i].from].at)
  <2>1. \A i \in DOMAIN incoming : Asks(incoming[i].kind, backend'[incoming[i].from].at)
    BY <1>2, Zenon DEF WaitInv
  <2> QED BY <2>1, Zenon
<1>4. ASSUME NEW t \in tasks', NEW c \in Backends, Serves(t, c)
      PROVE  Wants(c)' /\ ~Queued(c)'
  <2>1. ~Serves(old, c) /\ Wants(c) /\ ~Queued(c)
    BY <1>4, Zenon DEF WaitInv
  <2>2. backend'[c] = backend[c]
    BY <2>1, Zenon DEF Served
  <2> QED BY <2>1, <2>2, Zenon DEF Wants, Queued
<1> QED BY <1>3, <1>4, Zenon DEF WaitInv, Serves

\* Its senders were waiting, so neither the last backend nor the handler stops.
LEMMA FinishRest ==
  ASSUME Types, WaitInv, CloseInv, NEW old \in tasks, Served(old), status' = "running"
  PROVE  /\ CloseInv' /\ ~AllDropped
         /\ \A c \in Backends : Doing(c, "missing")' => backend'[c].preload \in Ids
         /\ \E b \in Backends : Serves(old, b) /\ backend[b].at # "dropped"
<1>1. PICK b \in Backends : Serves(old, b)
  BY Zenon DEF WaitInv
<1>2. Wants(b)
  BY <1>1, Zenon DEF WaitInv
<1>3. backend[b].at \notin {"closing", "dropped"} /\ backend[b].at # "dropped"
  BY <1>2 DEF Wants
<1>4. "idle" \notin {"closing", "dropped"} /\ "idle" # "missing"
  OBVIOUS
<1>5. /\ backend'[b].at \notin {"closing", "dropped"}
      /\ \A c \in Backends : \/ backend'[c].at = backend[c].at
                             \/ backend'[c].at \notin {"closing", "dropped"}
  BY <1>1, <1>4, Zenon DEF Served
<1>6. CloseInv'
  BY <1>3, <1>5, AwakeClose, Zenon
<1>7. ~AllDropped
  BY <1>3, Zenon DEF AllDropped, Doing
<1>8. \A c \in Backends : Doing(c, "missing")' => backend'[c].preload \in Ids
  BY <1>4, Zenon DEF Types, Doing, Served
<1> QED BY <1>1, <1>3, <1>6, <1>7, <1>8, Zenon

\* What a step of a task keeps of the other tasks and of what was answered.
Unharmed(old) ==
  /\ latest_block_map' \in [Url -> Lookup]
  /\ \A t \in tasks \ {old} : StageInv(t)'
  /\ \A j \in DOMAIN given :
       given[j].asked = None /\ given[j].id.url \notin pinned' =>
         latest_block_map'[given[j].id.url] = given[j].id.number

\* A task goes on: it waits, or ends with or without a fork.
LEMMA WaitingInv ==
  ASSUME IInv, NEW old \in tasks, NEW new \in TaskRecord,
         new.url = old.url, new.block = old.block, new.senders = old.senders,
         StageInv(new)', Unharmed(old), status = "running",
         tasks' = (tasks \ {old}) \cup {new},
         UNCHANGED <<head, incoming, status, pinned, backend, created, forks, handlers, given>>
  PROVE  IInv'
<1> USE DEF IInv
<1>1. Types'
  <2>1. tasks' \subseteq TaskRecord
    BY Zenon DEF Types
  <2>2. \A c \in Backends : Doing(c, "missing")' => backend'[c].preload \in Ids
    BY Zenon DEF Types, Doing
  <2> QED BY <2>1, <2>2, Zenon DEF Types, Unharmed
<1>2. \A c : Serves(new, c) <=> Serves(old, c)
  BY ServedSenders, Zenon
<1>3. WaitInv'
  <2>1. \E c \in Backends : Serves(new, c)
    BY <1>2, Zenon DEF WaitInv
  <2>2. \A c \in Backends : Queued(c)' <=> Queued(c)
    BY Zenon DEF Queued
  <2>3. \A c \in Backends : Serves(new, c) =>
           Wants(c) /\ ~Queued(c)' /\ \A t \in tasks \ {old} : ~Serves(t, c)
    BY <1>2, <2>2, Zenon DEF WaitInv
  <2>4. /\ \A i \in DOMAIN incoming' : Asks(incoming'[i].kind, backend[incoming'[i].from].at)
        /\ \A i, j \in DOMAIN incoming' : incoming'[i].from = incoming'[j].from => i = j
    BY Zenon DEF WaitInv
  <2>5. WaitInv /\ {old} \in SUBSET tasks /\ UNCHANGED backend
    BY Zenon
  <2> QED BY <2>1, <2>2, <2>3, <2>4, <2>5, TasksWait, Zenon
<1>4. PICK b \in Backends : Serves(old, b) /\ Wants(b)
  BY Zenon DEF WaitInv
<1>5. backend[b].at \notin {"closing", "dropped"} /\ backend[b].at # "dropped"
  BY <1>4, SMTT(60) DEF Wants
<1>6. CloseInv' /\ IdInv'
  <2>1. /\ backend'[b].at \notin {"closing", "dropped"} /\ status' = "running"
        /\ \A c \in Backends : backend'[c].at = backend[c].at
    BY <1>5, Zenon
  <2> QED BY <1>5, <2>1, AwakeClose, AwakeId, Zenon
<1>7. LatestInv'
  <2>1. \A t \in tasks' : StageInv(t)'
    BY Zenon DEF Unharmed
  <2>2. \A t, u \in tasks' : t.url = u.url /\ t.block = u.block => t = u
    <3>1. \A t \in tasks : t.url = new.url /\ t.block = new.block => t = old
      BY Zenon DEF LatestInv
    <3> QED BY <3>1, ZenonT(60) DEF LatestInv
  <2>3. \A j \in DOMAIN given' :
          /\ given'[j].asked \in {None, given'[j].id.number}
          /\ given'[j].asked = None /\ given'[j].id.url \notin pinned' =>
               latest_block_map'[given'[j].id.url] = given'[j].id.number
    BY Zenon DEF LatestInv, Unharmed
  <2> QED BY <2>1, <2>2, <2>3, Zenon DEF LatestInv
<1> QED BY <1>1, <1>3, <1>6, <1>7

\* A task ends with an error.
LEMMA FailedInv ==
  ASSUME IInv, NEW old \in tasks, Unharmed(old), status = "running",
         tasks' = tasks \ {old}, Served(old),
         UNCHANGED <<head, incoming, status, pinned, created, forks, handlers, given>>
  PROVE  IInv'
<1> USE DEF IInv
<1>1. status' = "running"
  BY Zenon
<1>2. Types'
  <2>1. \A c \in Backends : Doing(c, "missing")' => backend'[c].preload \in Ids
    BY <1>1, FinishRest, Zenon
  <2>2. tasks' \subseteq TaskRecord /\ backend' \in [Backends -> BackendRecord]
    BY Zenon DEF Types, Served
  <2> QED BY <2>1, <2>2, Zenon DEF Types, Unharmed
<1>3. WaitInv' /\ CloseInv'
  BY <1>1, FinishWait, FinishRest, Zenon
<1>4. IdInv'
  BY <1>1, FinishRest, AwakeId, Zenon
<1>5. LatestInv'
  <2>1. \A t \in tasks' : StageInv(t)'
    BY Zenon DEF Unharmed
  <2>2. \A t, u \in tasks' : t.url = u.url /\ t.block = u.block => t = u
    BY Zenon DEF LatestInv
  <2>3. \A j \in DOMAIN given' :
          /\ given'[j].asked \in {None, given'[j].id.number}
          /\ given'[j].asked = None /\ given'[j].id.url \notin pinned' =>
               latest_block_map'[given'[j].id.url] = given'[j].id.number
    BY Zenon DEF LatestInv, Unharmed
  <2> QED BY <2>1, <2>2, <2>3, Zenon DEF LatestInv
<1> QED BY <1>2, <1>3, <1>4, <1>5

\* A task ends with a fork.
LEMMA CreatedInv ==
  ASSUME IInv, NEW old \in tasks, NEW new \in TaskRecord,
         new.url = old.url, new.block = old.block, new.senders = old.senders,
         StageInv(new)', new.stage = "info", Unharmed(old), status = "running",
         tasks' = tasks \ {old}, fork_created(new),
         UNCHANGED <<head, incoming, status, pinned>>
  PROVE  IInv'
<1> USE DEF IInv
<1>1. status' = "running" /\ new.number \in Number
  BY Zenon DEF StageInv
<1>2. PICK b \in Backends : Serves(new, b) /\ Serves(old, b)
  BY ServedSenders, Zenon DEF WaitInv
<1>3. PICK i, ids : Issues(new, i, ids)
  BY <1>1, <1>2, ForkCreated, Zenon
<1>4. PICK n \in Nat : n = Len(new.senders)
  BY <1>2, TaskSenders, Zenon
<1>5. Served(old)
  BY <1>3, ServedSenders, Zenon DEF Issues
<1>6. /\ CloseInv' /\ WaitInv' /\ ~AllDropped
      /\ \A c \in Backends : Doing(c, "missing")' => backend'[c].preload \in Ids
  BY <1>1, <1>5, FinishWait, FinishRest, Zenon
<1>7. IdInv'
  BY <1>3, <1>4, <1>6, IssuedId, Zenon
<1>8. Types'
  <2>1. /\ tasks' \subseteq TaskRecord /\ backend' \in [Backends -> BackendRecord]
        /\ created' \in Seq(ForkRecord)
    BY <1>3, <1>5, Zenon DEF Types, Served, Issues
  <2>2. DOMAIN forks' \subseteq Ids /\ \A f \in DOMAIN forks' : forks'[f] \in DOMAIN created'
    BY <1>3, IssuedForks, Zenon
  <2>3. given' \in Seq([id : Ids, asked : Lookup])
    BY <1>3, <1>4, IssuedGiven, Zenon
  <2> QED BY <1>6, <2>1, <2>2, <2>3, Zenon DEF Types, Unharmed
<1>9. LatestInv'
  <2>1. \A t \in tasks' : StageInv(t)'
    BY Zenon DEF Unharmed
  <2>2. \A t, u \in tasks' : t.url = u.url /\ t.block = u.block => t = u
    BY Zenon DEF LatestInv
  <2>3. ASSUME NEW j \in DOMAIN given'
        PROVE  /\ given'[j].asked \in {None, given'[j].id.number}
               /\ given'[j].asked = None /\ given'[j].id.url \notin pinned' =>
                    latest_block_map'[given'[j].id.url] = given'[j].id.number
    <3>1. \/ j \in DOMAIN given /\ given'[j] = given[j]
          \/ \E k \in 1 .. n : j = Len(given) + k /\ given'[j].id = ids[k]
                               /\ given'[j].asked = new.block
      BY <1>3, <1>4, IssuedGiven, ZenonT(60)
    <3>2. CASE j \in DOMAIN given /\ given'[j] = given[j]
      <4>1. /\ given[j].asked \in {None, given[j].id.number}
            /\ given[j].asked = None /\ given[j].id.url \notin pinned' =>
                 latest_block_map'[given[j].id.url] = given[j].id.number
        BY <3>2, Zenon DEF LatestInv, Unharmed
      <4> QED BY <3>2, <4>1, Zenon
    <3>3. ASSUME NEW k \in 1 .. n, given'[j].id = ids[k], given'[j].asked = new.block
          PROVE  /\ given'[j].asked \in {None, given'[j].id.number}
                 /\ given'[j].asked = None /\ given'[j].id.url \notin pinned' =>
                      latest_block_map'[given'[j].id.url] = given'[j].id.number
      <4>1. given'[j].id.url = new.url /\ given'[j].id.number = new.number
        BY <1>3, <1>4, <3>3, ZenonT(60) DEF Issues
      <4>2. /\ new.block # None => new.number = new.block
            /\ new.block = None /\ new.url \notin pinned' =>
                 latest_block_map'[new.url] = new.number
        BY Zenon DEF StageInv
      <4> QED BY <3>3, <4>1, <4>2, Zenon
    <3> QED BY <3>1, <3>2, <3>3, Zenon
  <2> QED BY <2>1, <2>2, <2>3, Zenon DEF LatestInv
<1> QED BY <1>6, <1>7, <1>8, <1>9, SMTT(60)

\* A task went on: it waits for more answers, or it failed, or it created its fork.
LEMMA EnvironmentInv ==
  ASSUME IInv, NEW old \in tasks, NEW new \in TaskRecord,
         new.url = old.url, new.block = old.block, new.senders = old.senders,
         StageInv(new)', new.stage # "new", Unharmed(old), status = "running",
         environment(old, new), UNCHANGED <<head, incoming, status, pinned>>
  PROVE  IInv'
<1>1. CASE new.need # {}
  BY <1>1, WaitingInv, Zenon DEF environment
<1>2. CASE new.need = {} /\ new.found
  <2>1. tasks' = tasks \ {old} /\ fork_created(new)
    BY <1>2, Zenon DEF environment
  <2>2. new.stage = "info"
    <3>1. new.stage \in {"new", "latest", "info"}
      BY Zenon DEF TaskRecord
    <3>2. new.stage = "latest" => new.need = {"latest"}
      BY Zenon DEF StageInv
    <3> QED BY <1>2, <3>1, <3>2, SMTT(60)
  <2> QED BY <2>1, <2>2, CreatedInv, Zenon
<1>3. CASE new.need = {} /\ ~new.found
  <2>1. tasks' = tasks \ {old} /\ fork_failed(new)
    BY <1>3, Zenon DEF environment
  <2>2. Served(new)
    BY <2>1, FailedServed, Zenon DEF IInv
  <2>3. Served(old)
    BY <2>2, ServedSenders, Zenon
  <2>4. UNCHANGED <<created, forks, handlers, given>>
    BY <2>1, Zenon DEF fork_failed
  <2> QED BY <2>1, <2>3, <2>4, FailedInv, Zenon
<1>4. new.found \in BOOLEAN
  BY Zenon DEF TaskRecord
<1> QED BY <1>1, <1>2, <1>3, <1>4, Zenon

-----------------------------------------------------------------------------
(* The provider answers *)

\* Only the stage, the block and the answers that are missing change.
LEMMA InfoFields ==
  ASSUME NEW task \in TaskRecord, NEW n \in Number
  PROVE  /\ get_fork_info(task, n) \in TaskRecord
         /\ get_fork_info(task, n).url = task.url /\ get_fork_info(task, n).block = task.block
         /\ get_fork_info(task, n).senders = task.senders
         /\ get_fork_info(task, n).stage = "info" /\ get_fork_info(task, n).number = n
<1>1. PICK need, found :
        get_fork_info(task, n) =
          [task EXCEPT !.stage = "info", !.number = n, !.need = need, !.found = found]
        /\ need \in SUBSET {"latest", "chain", "block", "gas"} /\ found \in BOOLEAN
  <2>1. PICK entry : entry = block_env_map[task.url][n]
    BY Zenon
  <2>2. PICK chain : chain = IF task.url \in chain_ids THEN {} ELSE {"chain"}
    BY Zenon
  <2>3. PICK block : block = IF entry = None THEN {"block", "gas"}
                             ELSE IF entry = "block" THEN {} ELSE {"block"}
    BY Zenon
  <2>4. chain \cup block \in SUBSET {"latest", "chain", "block", "gas"}
        /\ (entry = "block") \in BOOLEAN
    BY <2>2, <2>3
  <2>5. get_fork_info(task, n) =
          [task EXCEPT !.stage = "info", !.number = n, !.need = chain \cup block,
                       !.found = entry = "block"]
    BY <2>1, <2>2, <2>3, Zenon DEF get_fork_info
  <2> QED BY <2>4, <2>5, Zenon
<1>2. PICK new : new = get_fork_info(task, n)
  BY Zenon
<1>3. /\ new \in TaskRecord /\ new.url = task.url /\ new.block = task.block
      /\ new.senders = task.senders /\ new.stage = "info" /\ new.number = n
  BY <1>1, <1>2, ZenonT(60) DEF TaskRecord, Lookup
<1> QED BY <1>2, <1>3, Zenon

\* No latest block is set: what the others rely on is as before.
LEMMA UnharmedKept ==
  ASSUME Types, LatestInv, NEW old, UNCHANGED <<latest_block_map, pinned>>
  PROVE  Unharmed(old)
<1>1. \A t \in tasks : StageInv(t)'
  BY Zenon DEF LatestInv, StageInv
<1>2. \A j \in DOMAIN given :
       given[j].asked = None /\ given[j].id.url \notin pinned' =>
         latest_block_map'[given[j].id.url] = given[j].id.number
  BY Zenon DEF LatestInv
<1> QED BY <1>1, <1>2, Zenon DEF Unharmed, Types

\* A task looks up its block, or finds that it knows it already.
LEMMA StartInv ==
  ASSUME IInv, NEW task \in tasks, task_start(task)
  PROVE  IInv'
<1> USE DEF IInv
<1>1. /\ status = "running" /\ UNCHANGED <<head, incoming, status, latest_block_map, pinned>>
      /\ task \in TaskRecord /\ task.url \in Url
  BY Zenon DEF task_start, env_cache, Types, TaskRecord
<1>2. Unharmed(task)
  BY <1>1, UnharmedKept, Zenon
<1>3. PICK n \in Lookup :
        n = IF task.block # None THEN task.block ELSE latest_block_map[task.url]
  BY <1>1, Zenon DEF Types, TaskRecord
<1>4. CASE n = None
  <2>1. PICK new : new = [task EXCEPT !.stage = "latest", !.need = {"latest"}]
    BY Zenon
  <2>2. environment(task, new)
    BY <1>3, <1>4, <2>1, Zenon DEF task_start
  <2>3. /\ new \in TaskRecord /\ new.url = task.url /\ new.block = task.block
        /\ new.senders = task.senders /\ new.stage = "latest" /\ new.need = {"latest"}
    <3>1. {"latest"} \in SUBSET {"latest", "chain", "block", "gas"}
      OBVIOUS
    <3> QED BY <1>1, <2>1, <3>1, Zenon DEF TaskRecord
  <2>4. new.block = None /\ latest_block_map'[new.url] = None
    BY <1>1, <1>3, <1>4, <2>3, Zenon
  <2>5. new.stage # "new" /\ new.stage # "info"
    BY <2>3
  <2>6. StageInv(new)'
    BY <2>3, <2>4, <2>5, Zenon DEF StageInv
  <2> QED BY <1>1, <1>2, <2>2, <2>3, <2>5, <2>6, EnvironmentInv, Zenon
<1>5. CASE n # None
  <2>1. PICK new : new = get_fork_info(task, n)
    BY Zenon
  <2>2. environment(task, new)
    BY <1>3, <1>5, <2>1, Zenon DEF task_start
  <2>3. n \in Number
    BY <1>5, Zenon DEF Lookup
  <2>4. /\ new \in TaskRecord /\ new.url = task.url /\ new.block = task.block
        /\ new.senders = task.senders /\ new.stage = "info" /\ new.number = n
    BY <1>1, <2>1, <2>3, InfoFields, Zenon
  <2>5. /\ new.block # None => new.number = new.block
        /\ new.block = None => latest_block_map'[new.url] = new.number
    BY <1>1, <1>3, <2>4, Zenon
  <2>6. new.stage # "new" /\ new.stage # "latest"
    BY <2>4
  <2>7. StageInv(new)'
    BY <2>3, <2>4, <2>5, <2>6, Zenon DEF StageInv
  <2> QED BY <1>1, <1>2, <2>2, <2>4, <2>6, <2>7, EnvironmentInv, Zenon
<1> QED BY <1>4, <1>5

\* The latest block of the url came: every other task of the url asked for a block
\* by number, so none relies on what the map said before.
LEMMA LatestBlockInv ==
  ASSUME IInv, NEW task \in tasks, get_latest_block_number(task)
  PROVE  IInv'
<1> USE DEF IInv
<1>1. /\ status = "running" /\ UNCHANGED <<head, incoming, status, pinned>>
      /\ task \in TaskRecord /\ task.url \in Url /\ task.stage = "latest"
      /\ head[task.url] \in Number
      /\ latest_block_map' = [latest_block_map EXCEPT ![task.url] = head[task.url]]
  BY Zenon DEF get_latest_block_number, set_latest_block_number, Types, TaskRecord
<1>2. PICK n \in Number : n = head[task.url]
  BY <1>1, Zenon
<1>3. /\ task.block = None
      /\ task.url \notin pinned => latest_block_map[task.url] = None
  BY <1>1, Zenon DEF LatestInv, StageInv
<1>4. latest_block_map' \in [Url -> Lookup] /\ latest_block_map'[task.url] = n
      /\ \A v \in Url : v # task.url => latest_block_map'[v] = latest_block_map[v]
  BY <1>1, <1>2, Zenon DEF Types, Lookup
<1>5. Unharmed(task)
  <2>1. ASSUME NEW t \in tasks \ {task}
        PROVE  StageInv(t)'
    <3>1. StageInv(t) /\ ~(t.url = task.url /\ t.block = None) /\ t.url \in Url
      BY <1>3, Zenon DEF LatestInv, Types, TaskRecord
    <3>2. CASE t.url = task.url
      <4>1. t.block # None
        BY <3>1, <3>2
      <4> QED BY <3>1, <4>1, Zenon DEF StageInv
    <3>3. CASE t.url # task.url
      <4>1. latest_block_map'[t.url] = latest_block_map[t.url] /\ pinned' = pinned
        BY <1>1, <1>4, <3>1, <3>3, Zenon
      <4> QED BY <3>1, <4>1, Zenon DEF StageInv
    <3> QED BY <3>2, <3>3
  <2>2. ASSUME NEW j \in DOMAIN given, given[j].asked = None, given[j].id.url \notin pinned'
        PROVE  latest_block_map'[given[j].id.url] = given[j].id.number
    <3>1. given[j].id.url \in Url /\ given[j].id.number \in Number
      <4>1. given \in Seq([id : Ids, asked : Lookup])
        BY Zenon DEF Types
      <4>2. given[j] \in [id : Ids, asked : Lookup]
        BY <4>1, SeqElements, Zenon
      <4> QED BY <4>2, Zenon DEF Ids
    <3>2. latest_block_map[given[j].id.url] = given[j].id.number /\ given[j].id.url \notin pinned
      BY <1>1, <2>2, Zenon DEF LatestInv
    <3>3. given[j].id.url # task.url
      <4>1. None \notin Number
        BY MultiForkAssumption
      <4> QED BY <1>3, <3>1, <3>2, <4>1, Zenon
    <3> QED BY <1>4, <3>1, <3>2, <3>3, Zenon
  <2> QED BY <1>4, <2>1, <2>2, Zenon DEF Unharmed
<1>6. PICK new : new = get_fork_info(task, n)
  BY Zenon
<1>7. environment(task, new)
  BY <1>2, <1>6, Zenon DEF get_latest_block_number
<1>8. /\ new \in TaskRecord /\ new.url = task.url /\ new.block = task.block
      /\ new.senders = task.senders /\ new.stage = "info" /\ new.number = n
  BY <1>1, <1>6, InfoFields, Zenon
<1>9. new.stage # "new" /\ new.stage # "latest"
  BY <1>8
<1>10. StageInv(new)'
  BY <1>3, <1>4, <1>8, <1>9, Zenon DEF StageInv
<1> QED BY <1>1, <1>5, <1>7, <1>8, <1>9, <1>10, EnvironmentInv, Zenon

\* A task whose block is known asks for less.
LEMMA AnsweredInv ==
  ASSUME IInv, NEW task \in tasks, NEW need \in SUBSET task.need, NEW found \in BOOLEAN,
         task.stage = "info", status = "running",
         environment(task, [task EXCEPT !.need = need, !.found = found]),
         UNCHANGED <<head, incoming, status, latest_block_map, pinned>>
  PROVE  IInv'
<1> USE DEF IInv
<1>1. task \in TaskRecord
  BY Zenon DEF Types
<1>2. PICK new : new = [task EXCEPT !.need = need, !.found = found]
  BY Zenon
<1>3. need \in SUBSET {"latest", "chain", "block", "gas"}
  BY <1>1, Zenon DEF TaskRecord
<1>4. /\ new \in TaskRecord /\ new.url = task.url /\ new.block = task.block
      /\ new.senders = task.senders /\ new.stage = "info" /\ new.number = task.number
  BY <1>1, <1>2, <1>3, Zenon DEF TaskRecord
<1>5. new.stage # "new" /\ new.stage # "latest"
  BY <1>4
<1>6. StageInv(new)'
  <2>1. StageInv(task)
    BY Zenon DEF LatestInv
  <2>2. /\ task.number \in Number
        /\ task.block # None => task.number = task.block
        /\ task.block = None /\ task.url \notin pinned' =>
             latest_block_map'[task.url] = task.number
    BY <2>1, Zenon DEF StageInv
  <2> QED BY <1>4, <1>5, <2>2, Zenon DEF StageInv
<1>7. Unharmed(task) /\ environment(task, new)
  BY <1>2, UnharmedKept, Zenon
<1> QED BY <1>4, <1>5, <1>6, <1>7, EnvironmentInv, Zenon

\* A task asks for a block or a gas price when it knows the number.
LEMMA NeedsInfo ==
  ASSUME IInv, NEW task \in tasks, "block" \in task.need \/ "gas" \in task.need
  PROVE  task.stage = "info"
<1>1. StageInv(task) /\ task.stage \in {"new", "latest", "info"}
  BY Zenon DEF IInv, LatestInv, Types, TaskRecord
<1>2. task.need # {} /\ task.need # {"latest"}
  OBVIOUS
<1>3. task.stage # "new" /\ task.stage # "latest"
  BY <1>1, <1>2, Zenon DEF StageInv
<1> QED BY <1>1, <1>3

\* An answer of the provider to a task came.
LEMMA AdvanceInv ==
  ASSUME IInv, NEW task \in tasks, Advance(task)
  PROVE  IInv'
<1>1. PICK need, found : need = task.need /\ found = task.found
  BY Zenon
<1>2. task \in TaskRecord /\ found \in BOOLEAN
  BY <1>1, Zenon DEF IInv, Types, TaskRecord
<1>3. \A n : [task EXCEPT !.need = n] = [task EXCEPT !.need = n, !.found = found]
  BY <1>1, <1>2, Zenon DEF TaskRecord
<1>4. CASE get_chain_id(task)
  <2>1. PICK n \in SUBSET task.need : n = task.need \ {"chain"}
    BY Zenon
  <2>2. environment(task, [task EXCEPT !.need = n, !.found = found])
    <3>1. environment(task, [task EXCEPT !.need = n])
      BY <1>4, <2>1, Zenon DEF get_chain_id
    <3>2. [task EXCEPT !.need = n] = [task EXCEPT !.need = n, !.found = found]
      BY <1>3, Zenon
    <3> QED BY <3>1, <3>2
  <2>3. /\ task.stage = "info" /\ status = "running"
        /\ UNCHANGED <<head, incoming, status, latest_block_map, pinned>>
    BY <1>4, Zenon DEF get_chain_id
  <2> QED BY <1>2, <2>2, <2>3, AnsweredInv, Zenon
<1>5. CASE get_block_by_number(task)
  <2>1. PICK n \in SUBSET task.need : n = task.need \ {"block"}
    BY Zenon
  <2>2. PICK f \in BOOLEAN : f = (task.number <= head[task.url])
    <3>1. (task.number <= head[task.url]) \in BOOLEAN
      OBVIOUS
    <3> QED BY <3>1, Zenon
  <2>3. environment(task, [task EXCEPT !.need = n, !.found = f])
    BY <1>5, <2>1, <2>2, Zenon DEF get_block_by_number, get_block_env_by_number
  <2>4. /\ status = "running" /\ UNCHANGED <<head, incoming, status, latest_block_map, pinned>>
        /\ task.stage = "info"
    BY <1>5, NeedsInfo, Zenon DEF get_block_by_number, get_block_env_by_number
  <2> QED BY <2>3, <2>4, AnsweredInv, Zenon
<1>6. CASE get_gas_price(task)
  <2>1. PICK n \in SUBSET task.need : n = task.need \ {"gas"}
    BY Zenon
  <2>2. environment(task, [task EXCEPT !.need = n, !.found = found])
    <3>1. environment(task, [task EXCEPT !.need = n])
      BY <1>6, <2>1, Zenon DEF get_gas_price, get_block_env_by_number
    <3>2. [task EXCEPT !.need = n] = [task EXCEPT !.need = n, !.found = found]
      BY <1>3, Zenon
    <3> QED BY <3>1, <3>2
  <2>3. /\ status = "running" /\ UNCHANGED <<head, incoming, status, latest_block_map, pinned>>
        /\ task.stage = "info"
    BY <1>6, NeedsInfo, Zenon DEF get_gas_price, get_block_env_by_number
  <2> QED BY <1>2, <2>2, <2>3, AnsweredInv, Zenon
<1> QED BY <1>4, <1>5, <1>6, StartInv, LatestBlockInv, Zenon DEF Advance

\* A request of a task to the provider failed.
LEMMA FailsInv ==
  ASSUME IInv, NEW task \in tasks, task_fails(task)
  PROVE  IInv'
<1>1. /\ status = "running" /\ tasks' = tasks \ {task} /\ fork_failed(task)
      /\ UNCHANGED <<head, incoming, status, latest_block_map, pinned, created, forks, handlers,
                     given>>
  BY Zenon DEF task_fails, env_cache, fork_failed
<1>2. task \in TaskRecord
  BY Zenon DEF IInv, Types
<1>3. Served(task)
  BY <1>1, <1>2, FailedServed, Zenon DEF IInv
<1>4. Unharmed(task)
  BY <1>1, UnharmedKept, Zenon DEF IInv
<1> QED BY <1>1, <1>3, <1>4, FailedInv, Zenon

\* The latest block could not be looked up: the handler is gone, with its forks.
LEMMA PanicInv ==
  ASSUME IInv, NEW task \in tasks, latest_panics(task)
  PROVE  IInv'
<1> USE DEF IInv
<1>1. /\ status' = "panicked" /\ tasks' = {} /\ handlers' = {} /\ incoming' = <<>>
      /\ forks' = <<>>
      /\ UNCHANGED <<head, created, latest_block_map, given, pinned>>
  BY Zenon DEF latest_panics, env_cache
<1>2. DOMAIN forks' = {} /\ DOMAIN incoming' = {} /\ incoming' \in Seq(RequestRecord)
  BY <1>1
<1>3. PICK bs : Return(bs) /\ bs = {b \in Backends : backend[b].at \in {"create", "roll", "get", "preload"}}
  BY Zenon DEF latest_panics
<1>4. /\ backend' \in [Backends -> BackendRecord]
      /\ \A b \in Backends : IF b \in bs THEN backend'[b].at = "idle"
                                         ELSE backend'[b] = backend[b]
  BY <1>3, Returned, Zenon
<1>5. Types'
  <2>1. \A c \in Backends : Doing(c, "missing")' => backend'[c].preload \in Ids
    <3>1. "idle" # "missing"
      OBVIOUS
    <3> QED BY <1>4, <3>1, Zenon DEF Types, Doing
  <2> QED BY <1>1, <1>2, <1>4, <2>1, Zenon DEF Types
<1>6. WaitInv'
  BY <1>1, <1>2, Zenon DEF WaitInv
<1>7. CloseInv'
  <2>1. PICK b \in Backends : Serves(task, b) /\ Wants(b)
    BY Zenon DEF WaitInv
  <2>2. b \in bs
    BY <1>3, <2>1 DEF Wants
  <2>3. \A c \in Backends : ~Doing(c, "closing")'
    <3> SUFFICES ASSUME NEW c \in Backends, backend'[c].at = "closing"
                 PROVE  FALSE
      BY Zenon DEF Doing
    <3>1. c \notin bs
      BY <1>4
    <3>2. Doing(c, "closing") /\ b \in Backends \ {c}
      BY <1>4, <2>2, <3>1, Zenon DEF Doing
    <3>3. Doing(b, "dropped")
      BY <3>2, Zenon DEF CloseInv
    <3> QED BY <2>1, <3>3 DEF Wants, Doing
  <2>4. status' # "completed"
    BY <1>1
  <2> QED BY <1>1, <2>3, <2>4, Zenon DEF CloseInv
<1>8. IdInv'
  <2>1. status' # "running"
    BY <1>1
  <2> QED BY <1>1, <1>2, <2>1, Zenon DEF IdInv
<1>9. LatestInv'
  BY <1>1, Zenon DEF LatestInv
<1> QED BY <1>5, <1>6, <1>7, <1>8, <1>9

-----------------------------------------------------------------------------
(* The rest *)

\* Steps that leave alone what the invariants relate.
LEMMA KeptInv ==
  ASSUME IInv, head' \in [Url -> Number],
         UNCHANGED <<backend, incoming, server, latest_block_map, given, pinned>>
  PROVE  IInv'
<1> USE DEF IInv
<1>1. UNCHANGED <<status, tasks, created, forks, handlers>>
  BY Zenon DEF server
<1>2. Types'
  BY <1>1, Zenon DEF Types, Doing
<1>3. WaitInv'
  BY <1>1, ZenonT(60) DEF WaitInv, Queued, Wants, Serves
<1>4. CloseInv' /\ IdInv'
  BY <1>1, Zenon DEF CloseInv, IdInv, AllDropped, Doing
<1>5. LatestInv'
  BY <1>1, LatestKept, Zenon
<1> QED BY <1>2, <1>3, <1>4, <1>5

\* The handler stops when all channels to it are closed.
LEMMA CompletedInv ==
  ASSUME IInv, completed
  PROVE  IInv'
<1> USE DEF IInv
<1>1. /\ UNCHANGED <<head, backend, incoming, tasks, created, forks, handlers, latest_block_map,
                     given, pinned>>
      /\ status' = "completed" /\ AllDropped
  BY Zenon DEF completed, env_cache, AllDropped
<1>2. Types'
  BY <1>1, Zenon DEF Types, Doing
<1>3. WaitInv'
  BY <1>1, ZenonT(60) DEF WaitInv, Queued, Wants, Serves
<1>4. AllDropped'
  BY <1>1, Zenon DEF AllDropped, Doing
<1>5. CloseInv'
  <2>1. status' # "panicked"
    BY <1>1
  <2>2. \A c \in Backends : Doing(c, "closing")' <=> Doing(c, "closing")
    BY <1>1, Zenon DEF Doing
  <2>3. \A c \in Backends : Doing(c, "dropped")'
    BY <1>4, Zenon DEF AllDropped
  <2> QED BY <1>1, <1>4, <2>1, <2>2, <2>3, Zenon DEF CloseInv
<1>6. IdInv'
  BY <1>1, <1>4, Zenon DEF IdInv
<1>7. LatestInv'
  BY <1>1, LatestKept, Zenon
<1> QED BY <1>2, <1>3, <1>5, <1>6, <1>7

\* Nothing was asked for yet.
LEMMA InitInv ==
  ASSUME Init
  PROVE  IInv
<1>1. 1 \in Number /\ None \in Lookup /\ MaxOps \in Int
  BY MultiForkAssumption DEF Number, Lookup
<1>2. \A b \in Backends : backend[b] = Idle
  BY Zenon DEF Init
<1>3. Idle \in BackendRecord /\ Idle.at = "idle"
  BY <1>1, Zenon DEF Idle, BackendRecord
<1>4. /\ DOMAIN incoming = {} /\ incoming \in Seq(RequestRecord)
      /\ created \in Seq(ForkRecord) /\ DOMAIN forks = {}
      /\ DOMAIN given = {} /\ given \in Seq([id : Ids, asked : Lookup])
  <2>1. incoming = <<>> /\ created = <<>> /\ forks = <<>> /\ given = <<>>
    BY Zenon DEF Init
  <2>2. \A S : <<>> \in Seq(S)
    OBVIOUS
  <2>3. DOMAIN <<>> = {}
    OBVIOUS
  <2> QED BY <2>1, <2>2, <2>3, Zenon
<1>5. Types
  <2>1. \A b \in Backends : ~Doing(b, "missing")
    BY <1>2, <1>3 DEF Doing
  <2>2. head \in [Url -> Number] /\ backend \in [Backends -> BackendRecord]
        /\ latest_block_map \in [Url -> Lookup]
    BY <1>1, <1>3, Zenon DEF Init
  <2>3. status = "running" /\ tasks = {} /\ pinned = {}
    BY Zenon DEF Init
  <2> QED BY <1>4, <2>1, <2>2, <2>3, Zenon DEF Types
<1>6. WaitInv
  BY <1>4, Zenon DEF Init, WaitInv
<1>7. CloseInv
  <2>1. \A b \in Backends : ~Doing(b, "closing")
    BY <1>2, <1>3 DEF Doing
  <2>2. status # "panicked" /\ status # "completed"
    BY DEF Init
  <2> QED BY <2>1, <2>2, Zenon DEF CloseInv, Init
<1>8. IdInv
  BY <1>4, Zenon DEF IdInv
<1>9. LatestInv
  BY <1>4, Zenon DEF Init, LatestInv
<1> QED BY <1>5, <1>6, <1>7, <1>8, <1>9 DEF IInv

\* Every step preserves the invariant.
LEMMA StepInv ==
  ASSUME IInv, [Next]_vars
  PROVE  IInv'
<1>1. ASSUME NEW b \in Backends, Operation(b) \/ Continue(b) \/ drop(b)
      PROVE  IInv'
  BY <1>1, CreateInv, RollInv, LoadInv, AccessInv, MissingInv, DropInv, Zenon
     DEF Operation, Continue
<1>2. ASSUME NEW task \in tasks, Advance(task) \/ task_fails(task) \/ latest_panics(task)
      PROVE  IInv'
  BY <1>2, AdvanceInv, FailsInv, PanicInv, Zenon
<1>3. ASSUME NEW u \in Url, Grow(u)
      PROVE  IInv'
  <2>1. head \in [Url -> Number] /\ head[u] < MaxHead /\ head' = [head EXCEPT ![u] = @ + 1]
    BY <1>3, Zenon DEF Grow, IInv, Types
  <2>2. head[u] + 1 \in Number
    BY <2>1, MultiForkAssumption DEF Number
  <2>3. head' \in [Url -> Number]
    BY <2>1, <2>2, Zenon
  <2>4. UNCHANGED <<backend, incoming, server, latest_block_map, given, pinned>>
    BY <1>3, Zenon DEF Grow, env_cache
  <2> QED BY <2>3, <2>4, KeptInv, Zenon
<1>4. ASSUME UNCHANGED vars
      PROVE  IInv'
  <2>1. head' \in [Url -> Number]
    BY <1>4, Zenon DEF vars, IInv, Types
  <2>2. UNCHANGED <<backend, incoming, server, latest_block_map, given, pinned>>
    BY <1>4, Zenon DEF vars, env_cache
  <2> QED BY <2>1, <2>2, KeptInv, Zenon
<1>5. CASE Ended
  BY <1>4, <1>5, Zenon DEF Ended
<1> QED BY <1>1, <1>2, <1>3, <1>4, <1>5, RequestInv, CompletedInv, Zenon DEF Next

\* Whatever the backends ask for and whichever requests fail, each backend waits in
\* one place, no id is given twice and the latest block of a url is looked up once.
THEOREM MultiForkInvariant == Spec => []IInv
BY InitInv, StepInv, PTL DEF Spec

\* MultiFork hands out one fork per url and block, under ids that are all different,
\* for any number of backends, urls, blocks and operations (Shared).
THEOREM ForksAlwaysShared == Spec => []Shared
<1>1. IInv => Shared
  <2> SUFFICES ASSUME IInv PROVE Shared
    OBVIOUS
  <2>1. \A f, g \in DOMAIN forks :
          f.url = g.url /\ f.number = g.number => forks[f] = forks[g]
    BY Zenon DEF IInv, IdInv
  <2>2. \A j, k \in DOMAIN given : given[j].id = given[k].id => j = k
    BY Zenon DEF IInv, IdInv
  <2>3. \A j \in DOMAIN given : given[j].asked \in {None, given[j].id.number}
    BY Zenon DEF IInv, LatestInv
  <2>4. \A j, k \in DOMAIN given :
          /\ given[j].asked = None /\ given[k].asked = None
          /\ given[j].id.url = given[k].id.url /\ given[j].id.url \notin pinned
          => given[j].id.number = given[k].id.number
    BY Zenon DEF IInv, LatestInv
  <2> QED BY <2>1, <2>2, <2>3, <2>4, Zenon DEF Shared
<1> QED BY <1>1, MultiForkInvariant, PTL

\* When every backend is dropped the handler has let go of all forks and of their
\* own handlers, and no task is left, so every cache was flushed (Flushed).
THEOREM AlwaysFlushed == Spec => []Flushed
<1>1. IInv => Flushed
  <2> SUFFICES ASSUME IInv, \A b \in Backends : Doing(b, "dropped")
               PROVE  forks = <<>> /\ handlers = {} /\ tasks = {}
    BY Zenon DEF Flushed
  <2>1. forks = <<>> /\ handlers = {}
    BY Zenon DEF IInv, CloseInv, AllDropped
  <2>2. \A b \in Backends : ~Wants(b)
    BY DEF Wants, Doing
  <2> QED BY <2>1, <2>2, Zenon DEF IInv, WaitInv
<1> QED BY <1>1, MultiForkInvariant, PTL
=============================================================================
