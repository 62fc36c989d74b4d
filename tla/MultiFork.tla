----------------------------- MODULE MultiFork -----------------------------
(***************************************************************************)
(* The handler that creates forks of remote chains for all the backends of *)
(* a process (crates/evm/core/src/fork/multi.rs), the environment cache it *)
(* fills while it waits for providers, and the data accesses that the      *)
(* backends record through the forks they share. Backends run on threads   *)
(* of their own and block until they are answered.                         *)
(***************************************************************************)
EXTENDS Option, Integers, Sequences, FiniteSets, Functions

CONSTANTS
  Backends,   \* the backends, clones of one another
  Url,        \* endpoints
  MaxHead,    \* bound: number of the last block of a chain
  MaxOps,     \* bound: operations of each backend
  MaxFaults   \* bound: failures of providers

Number == 1..MaxHead
\* The source's "{url}@{number}", then a "-{n}" for each further consumer.
ForkId(u, n) == [url |-> u, number |-> n, suffix |-> <<>>]
\* A block number, or the latest block.
Lookup == Number \cup {None}

ASSUME MultiForkAssumption ==
  /\ MaxHead \in Nat \ {0} /\ MaxOps \in Nat
  /\ None \notin Number

VARIABLES
  head,       \* latest block of each chain
  backend,    \* each backend: what it does, its fork, operations left
  incoming,   \* requests sent and not received
  status,     \* of the handler: running, completed or panicked
  tasks,      \* pending_tasks
  created,    \* the forks created: url, number, who records, senders
  forks,      \* index in created of each fork id
  handlers,   \* indices of the forks whose handler is polled
  latest_block_map,
  chain_ids,  \* urls whose chain id is cached
  block_env_map,
  given,      \* history: what was answered to create and roll requests
  pinned,     \* history: urls whose latest block was set from outside
  accesses,   \* data_accesses of each backend, and of a clone that preloads
  made,       \* history: the accesses each backend made
  collected,  \* history: the accesses each backend returned
  faults

env_cache == <<latest_block_map, chain_ids, block_env_map>>
recorded == <<accesses, made, collected>>
server == <<status, tasks, created, forks, handlers>>
vars == <<head, backend, incoming, server, env_cache, given, pinned, recorded, faults>>

Idle == [at |-> "idle", fork |-> None, lookup |-> None, preload |-> None,
         ops |-> MaxOps]
Doing(b, at) == backend[b].at = at
Fault == faults < MaxFaults /\ faults' = faults + 1

-----------------------------------------------------------------------------
(* The backends *)

Access(u, lookup, what) == [url |-> u, lookup |-> lookup, what |-> what]

\* A request is sent and the thread waits; a clone of the sender always has a
\* slot of the channel.
Send(b, at, req) ==
  /\ status = "running"
  /\ incoming' = Append(incoming, [req EXCEPT !.from = b])
  /\ backend' = [backend EXCEPT ![b].at = at]

Request(kind, u, n, id) ==
  [kind |-> kind, from |-> None, url |-> u, block |-> n, fork |-> id]

Start(b) == Doing(b, "idle") /\ backend[b].ops > 0

Finished(b) == [backend[b] EXCEPT !.at = "idle", !.ops = @ - 1]

Return(bs) ==
  backend' = [b \in Backends |-> IF b \in bs THEN Finished(b) ELSE backend[b]]

create_fork(b, u, block) ==
  /\ Start(b)
  /\ Send(b, "create", Request("CreateFork", u, block, None))
  /\ UNCHANGED <<head, server, env_cache, given, pinned, recorded, faults>>

roll_fork(b, block) ==
  /\ Start(b) /\ backend[b].fork # None
  /\ Send(b, "roll", Request("RollFork", None, block, backend[b].fork))
  /\ UNCHANGED <<head, server, env_cache, given, pinned, recorded, faults>>

set_latest_block_number(u, n) ==
  latest_block_map' = [latest_block_map EXCEPT ![u] = n]

\* An access is preloaded: the latest block is set, then a clone of the backend
\* looks for the fork of the access.
load_accesses(b, u, current, block) ==
  /\ Start(b)
  /\ set_latest_block_number(u, current)
  /\ pinned' = pinned \cup {u}
  /\ Send(b, "get", Request("GetFork", u, block, ForkId(u, block)))
  /\ UNCHANGED <<head, server, chain_ids, block_env_map, given, recorded, faults>>

\* There is none: the clone creates it, and the accesses of the clone are lost.
execute_access(b) ==
  /\ Doing(b, "missing")
  /\ IF status = "running"
     THEN Send(b, "preload",
               Request("CreateFork", backend[b].preload.url, backend[b].preload.number, None))
     ELSE Return({b}) /\ UNCHANGED incoming
  /\ UNCHANGED <<head, server, env_cache, given, pinned, recorded, faults>>

\* A read through a fork is recorded by the backend that the fork was created
\* for, with the block that was asked for then.
record_revm_data_access(i) ==
  IF created[i].recording = None
  THEN UNCHANGED accesses
  ELSE accesses' = [accesses EXCEPT ![created[i].recording] =
         @ \cup {Access(created[i].url, created[i].lookup, "read")}]

read(b) ==
  /\ Start(b) /\ backend[b].fork # None /\ status = "running"
  /\ record_revm_data_access(forks[backend[b].fork])
  /\ made' = [made EXCEPT ![b] =
       @ \cup {Access(backend[b].fork.url, backend[b].lookup, "read")}]
  /\ backend' = [backend EXCEPT ![b].ops = @ - 1]
  /\ UNCHANGED <<head, incoming, server, env_cache, given, pinned, collected, faults>>

\* The set is iterated, then cleared.
get_accesses(b) ==
  /\ Start(b)
  /\ collected' = [collected EXCEPT ![b] = @ \cup accesses[b]]
  /\ backend' = [backend EXCEPT ![b].at = "collect"]
  /\ UNCHANGED <<head, incoming, server, env_cache, given, pinned, accesses, made, faults>>

get_accesses_clear(b) ==
  /\ Doing(b, "collect")
  /\ accesses' = [accesses EXCEPT ![b] = {}]
  /\ backend' = [backend EXCEPT ![b].at = "idle", ![b].ops = @ - 1]
  /\ UNCHANGED <<head, incoming, server, env_cache, given, pinned, made, collected, faults>>

\* A backend is dropped; the last one sends ShutDown and waits, unless the
\* handler is gone.
drop(b) ==
  /\ Doing(b, "idle")
  /\ IF status = "running" /\ \A c \in Backends \ {b} : Doing(c, "dropped")
     THEN Send(b, "closing", Request("ShutDown", None, None, None))
     ELSE /\ backend' = [backend EXCEPT ![b].at = "dropped"]
          /\ UNCHANGED incoming
  /\ UNCHANGED <<head, server, env_cache, given, pinned, recorded, faults>>

-----------------------------------------------------------------------------
(* Answers *)

\* Each sender gets the fork under an id of its own; what it then does with it.
Succeeded(ids, task, fork) ==
  LET own == {b \in DOMAIN ids : Doing(b, "create")}
      preloading == {b \in DOMAIN ids : Doing(b, "preload")}
      create == Access(task.url, task.block, "create")
      access == Access(fork.url, fork.lookup, "read")
  IN  /\ backend' = [b \in Backends |->
           CASE b \in preloading -> Finished(b)
             [] b \in DOMAIN ids \ preloading ->
                  [Finished(b) EXCEPT !.fork = ids[b], !.lookup = task.block]
             [] OTHER -> backend[b]]
      /\ made' = [b \in Backends |->
           made[b] \cup (IF b \in own THEN {create} ELSE {})]
      /\ accesses' = [b \in Backends |->
           accesses[b] \cup (IF b \in own THEN {create} ELSE {})
             \cup (IF preloading # {} /\ b = fork.recording THEN {access} ELSE {})]
      /\ UNCHANGED collected

\* The id of another consumer of a fork, after k others.
inc_senders(id, fork, k) == [id EXCEPT !.suffix = Append(@, fork.senders + k)]

insert_new_fork(id, i, all, task) ==
  LET n == Len(task.senders)
      fork == all[i]
      ids == [k \in 1..n |-> IF k = 1 THEN id ELSE inc_senders(id, fork, k - 2)]
      Of(b) == CHOOSE k \in 1..n : task.senders[k] = b
  IN  /\ created' = [all EXCEPT ![i].senders = @ + n - 1]
      /\ forks' = [f \in DOMAIN forks \cup {ids[k] : k \in 1..n} |->
                    IF \E k \in 1..n : f = ids[k] THEN i ELSE forks[f]]
      /\ given' = given \o [k \in 1..n |-> [id |-> ids[k], asked |-> task.block]]
      /\ Succeeded([b \in Range(task.senders) |-> ids[Of(b)]], task, fork)

-----------------------------------------------------------------------------
(* Tasks: the future of create_fork *)

NewFork(task) ==
  [url |-> task.url, number |-> task.number, senders |-> 1,
   lookup |-> task.block, recording |-> task.recording]

\* If there is a fork of this url and number it is used, and the one just created
\* is dropped.
fork_created(task) ==
  LET id == ForkId(task.url, task.number)
      i == IF id \in DOMAIN forks THEN forks[id] ELSE Len(created) + 1
  IN  IF id \in DOMAIN forks
      THEN /\ insert_new_fork(inc_senders(id, created[i], 0), i,
                              [created EXCEPT ![i].senders = @ + 1], task)
           /\ UNCHANGED handlers
      ELSE /\ insert_new_fork(id, i, Append(created, NewFork(task)), task)
           /\ handlers' = handlers \cup {i}

fork_failed(task) ==
  /\ Return(Range(task.senders))
  /\ UNCHANGED <<created, forks, handlers, given, recorded>>

\* A task goes on after an answer: it waits for others, or the block is there
\* and the fork is created, or the provider does not have the block.
environment(old, task) ==
  IF task.need # {}
  THEN /\ tasks' = (tasks \ {old}) \cup {task}
       /\ UNCHANGED <<backend, created, forks, handlers, given, recorded>>
  ELSE /\ tasks' = tasks \ {old}
       /\ IF task.found THEN fork_created(task) ELSE fork_failed(task)

\* What has to be asked for, with the chain id and the entry of the block as they
\* are cached now.
get_fork_info(task, n) ==
  LET entry == block_env_map[task.url][n]
      chain == IF task.url \in chain_ids THEN {} ELSE {"chain"}
      block == IF entry = None THEN {"block", "gas"}
               ELSE IF entry = "block" THEN {} ELSE {"block"}
  IN  [task EXCEPT !.stage = "info", !.number = n, !.need = chain \cup block,
                   !.found = entry = "block"]

task_start(task) ==
  /\ status = "running" /\ task.stage = "new"
  /\ LET n == IF task.block # None THEN task.block ELSE latest_block_map[task.url]
     IN  environment(task, IF n = None
                           THEN [task EXCEPT !.stage = "latest", !.need = {"latest"}]
                           ELSE get_fork_info(task, n))
  /\ UNCHANGED <<head, incoming, status, env_cache, pinned, faults>>

get_latest_block_number(task) ==
  /\ status = "running" /\ task.stage = "latest"
  /\ set_latest_block_number(task.url, head[task.url])
  /\ environment(task, get_fork_info(task, head[task.url]))
  /\ UNCHANGED <<head, incoming, status, chain_ids, block_env_map, pinned, faults>>

get_chain_id(task) ==
  /\ status = "running" /\ task.stage = "info" /\ "chain" \in task.need
  /\ chain_ids' = chain_ids \cup {task.url}
  /\ environment(task, [task EXCEPT !.need = @ \ {"chain"}])
  /\ UNCHANGED <<head, incoming, status, latest_block_map, block_env_map, pinned, faults>>

\* The entry is written when block and gas price are there.
get_block_env_by_number(task, new) ==
  /\ block_env_map' = IF new.need \cap {"block", "gas"} # {} THEN block_env_map
       ELSE [block_env_map EXCEPT ![task.url][task.number] =
               IF new.found THEN "block" ELSE "empty"]
  /\ environment(task, new)
  /\ UNCHANGED <<head, incoming, status, latest_block_map, chain_ids, pinned, faults>>

get_block_by_number(task) ==
  /\ status = "running" /\ "block" \in task.need
  /\ get_block_env_by_number(task,
       [task EXCEPT !.need = @ \ {"block"}, !.found = task.number <= head[task.url]])

get_gas_price(task) ==
  /\ status = "running" /\ "gas" \in task.need
  /\ get_block_env_by_number(task, [task EXCEPT !.need = @ \ {"gas"}])

\* A request of a task fails.
task_fails(task) ==
  /\ status = "running" /\ task.stage = "info"
  /\ tasks' = tasks \ {task}
  /\ fork_failed(task)
  /\ Fault
  /\ UNCHANGED <<head, incoming, status, env_cache, pinned>>

\* The latest number is expected: without it the thread of the handler panics,
\* and every backend that waits is told so by its channel.
latest_panics(task) ==
  /\ status = "running" /\ task.stage = "latest"
  /\ status' = "panicked"
  /\ tasks' = {} /\ handlers' = {} /\ incoming' = <<>> /\ forks' = <<>>
  /\ Return({b \in Backends : backend[b].at \in {"create", "roll", "get", "preload"}})
  /\ Fault
  /\ UNCHANGED <<head, created, env_cache, given, pinned, recorded>>

-----------------------------------------------------------------------------
(* Requests *)

\* Mutant: tasks for the latest block are not joined.
find_in_progress_task_numbered(u, block) ==
  {t \in tasks : t.url = u /\ t.block = block /\ block # None}

\* A task for the same url and the same number, or both for the latest block.
find_in_progress_task(u, block) == {t \in tasks : t.url = u /\ t.block = block}

\* The request joins a task in progress or gets one of its own.
on_create_fork(b, u, block) ==
  IF find_in_progress_task(u, block) # {}
  THEN tasks' = {IF t \in find_in_progress_task(u, block)
                 THEN [t EXCEPT !.senders = Append(@, b)] ELSE t : t \in tasks}
  ELSE tasks' = tasks \cup
    {[url |-> u, block |-> block, senders |-> <<b>>,
      recording |-> IF Doing(b, "preload") THEN None ELSE b, stage |-> "new",
      number |-> None, need |-> {}, found |-> FALSE]}

on_roll_fork(req) ==
  IF req.fork \in DOMAIN forks
  THEN /\ on_create_fork(req.from, created[forks[req.fork]].url, req.block)
       /\ UNCHANGED backend
  ELSE /\ Return({req.from})
       /\ UNCHANGED tasks

\* The fork of an access is read, or the backend is told that there is none.
on_get_fork(req) ==
  IF req.fork \in DOMAIN forks
  THEN record_revm_data_access(forks[req.fork]) /\ Return({req.from})
  ELSE /\ backend' = [backend EXCEPT ![req.from].at = "missing",
                                     ![req.from].preload = req.fork]
       /\ UNCHANGED accesses

\* Mutant: the forks and handlers are left to the end of the process.
on_shutdown_kept(req) ==
  /\ backend' = [backend EXCEPT ![req.from].at = "dropped"]
  /\ UNCHANGED <<forks, handlers>>

on_shutdown(req) ==
  /\ forks' = <<>> /\ handlers' = {}
  /\ backend' = [backend EXCEPT ![req.from].at = "dropped"]

on_request ==
  /\ status = "running" /\ incoming # <<>>
  /\ LET req == Head(incoming)
     IN  \/ /\ req.kind = "CreateFork"
            /\ on_create_fork(req.from, req.url, req.block)
            /\ UNCHANGED <<backend, forks, handlers, accesses>>
         \/ /\ req.kind = "RollFork"
            /\ on_roll_fork(req)
            /\ UNCHANGED <<forks, handlers, accesses>>
         \/ /\ req.kind = "GetFork"
            /\ on_get_fork(req)
            /\ UNCHANGED <<tasks, forks, handlers>>
         \/ /\ req.kind = "ShutDown"
            /\ on_shutdown(req)
            /\ UNCHANGED <<tasks, accesses>>
  /\ incoming' = Tail(incoming)
  /\ UNCHANGED <<head, status, created, env_cache, given, pinned, made, collected, faults>>

\* All senders are gone and no handler is left.
completed ==
  /\ status = "running" /\ incoming = <<>> /\ handlers = {}
  /\ \A b \in Backends : Doing(b, "dropped")
  /\ status' = "completed"
  /\ UNCHANGED <<head, backend, incoming, tasks, created, forks, handlers, env_cache, given,
                 pinned, recorded, faults>>

-----------------------------------------------------------------------------
\* A chain grows.
Grow(u) ==
  /\ head[u] < MaxHead
  /\ head' = [head EXCEPT ![u] = @ + 1]
  /\ UNCHANGED <<backend, incoming, server, env_cache, given, pinned, recorded, faults>>

Init ==
  /\ head = [u \in Url |-> 1]
  /\ backend = [b \in Backends |-> Idle]
  /\ incoming = <<>> /\ status = "running"
  /\ tasks = {} /\ created = <<>> /\ forks = <<>> /\ handlers = {}
  /\ latest_block_map = [u \in Url |-> None]
  /\ chain_ids = {}
  /\ block_env_map = [u \in Url |-> [n \in Number |-> None]]
  /\ given = <<>> /\ pinned = {}
  /\ accesses = [b \in Backends |-> {}]
  /\ made = [b \in Backends |-> {}]
  /\ collected = [b \in Backends |-> {}]
  /\ faults = 0

\* All threads have ended, which is the only place to stop.
Ended ==
  /\ status \in {"completed", "panicked"}
  /\ \A b \in Backends : Doing(b, "dropped")
  /\ UNCHANGED vars

Operation(b) ==
  \/ \E u \in Url, block \in Lookup : create_fork(b, u, block)
  \/ \E block \in Number : roll_fork(b, block)
  \/ \E u \in Url, current, block \in Number : load_accesses(b, u, current, block)
  \/ read(b) \/ get_accesses(b)

Continue(b) == execute_access(b) \/ get_accesses_clear(b)

\* The provider answers what a task waits for.
Advance(task) ==
  \/ task_start(task)
  \/ get_latest_block_number(task) \/ get_chain_id(task)
  \/ get_block_by_number(task) \/ get_gas_price(task)

Next ==
  \/ \E b \in Backends : Operation(b) \/ Continue(b) \/ drop(b)
  \/ on_request
  \/ \E task \in tasks : Advance(task) \/ task_fails(task) \/ latest_panics(task)
  \/ completed \/ Ended
  \/ \E u \in Url : Grow(u)

Spec == Init /\ [][Next]_vars

-----------------------------------------------------------------------------
(* Properties *)

\* However creations of the same fork, by number or as the latest block, start
\* and finish, all ids of one url and number stand for one fork, with one
\* environment and one cache of remote data (MultiForkHandler::poll uses the fork
\* that exists).  Yet no two create or roll requests are answered with the same id,
\* so that the local forks of two backends, or two of one, are never taken for one
\* another (CreatedFork::inc_senders: "return unique identifier of the fork").
\* All backends that ask for the latest block of a url get the same number, and a
\* request for a number gets that one, while the chain grows; setting the latest
\* block from outside is the only way to another number.
Shared ==
  /\ \A f, g \in DOMAIN forks :
       f.url = g.url /\ f.number = g.number => forks[f] = forks[g]
  /\ \A j, k \in DOMAIN given :
       /\ given[j].id = given[k].id => j = k
       /\ given[j].asked \in {None, given[j].id.number}
       /\ /\ given[j].asked = None /\ given[k].asked = None
          /\ given[j].id.url = given[k].id.url /\ given[j].id.url \notin pinned
          => given[j].id.number = given[k].id.number

\* When the last backend is dropped, ShutDownMultiFork::drop has returned only
\* after the handler let go of every fork, so that all RPC caches are flushed
\* ("essentially a sync on drop").
Flushed ==
  (\A b \in Backends : Doing(b, "dropped")) => forks = <<>> /\ handlers = {} /\ tasks = {}

\* Backend::data_accesses: "The data accesses made by this backend instance."
AccessesOwn ==
  \A b \in Backends : made[b] \subseteq accesses[b] \cup collected[b]
=============================================================================
