---------------------------- MODULE BlockStates ----------------------------
(***************************************************************************)
(* The states of historic blocks: InMemoryBlockStates (mem/storage.rs) and *)
(* the files of DiskStateCache (mem/cache.rs). Callers hold the lock of    *)
(* the whole structure; the files are written by tasks of their own, which *)
(* interleave with everything else. The iterations of enforce_limits are   *)
(* steps, so that a loop that does not end can be seen.                    *)
(*                                                                         *)
(* The state stored by an insertion is the ordinal of the insertion.       *)
(***************************************************************************)
EXTENDS Option, Integers, Sequences, FiniteSets

CONSTANTS
  Limits,          \* in_memory_limit a node is created with
  DiskLimits,      \* max_on_disk_limit; 0: memory_only
  MinHistoryLimit, \* MIN_HISTORY_LIMIT
  IntervalLimit,   \* DEFAULT_HISTORY_LIMIT * 3
  Reinsert,        \* whether a block is built on again, after a revert
  MaxInserts       \* bound: insertions

\* Blocks are named in the order in which they are first built on.
Hash == 1..MaxInserts

ASSUME BlockStatesAssumption ==
  /\ Limits \subseteq Nat
  /\ DiskLimits \subseteq Nat
  /\ MinHistoryLimit \in Nat
  /\ IntervalLimit \in Nat \ {0}
  /\ MinHistoryLimit <= IntervalLimit
  /\ Reinsert \in BOOLEAN
  /\ MaxInserts \in Nat
  /\ None \notin Nat

VARIABLES
  states,           \* hash -> state in memory
  on_disk_states,   \* hashes of the states moved to disk
  loaded,           \* those of them whose data was read back into memory
  in_memory_limit,
  min_in_memory_limit,
  max_on_disk_limit,
  oldest_on_disk,
  present,
  files,            \* hash -> state in the file
  writes,           \* tasks that have yet to write a file
  pc, arg,          \* the operation in progress, the hash it inserts
  count,            \* insertions so far
  last,             \* history: hash -> ordinal of its last insertion
  cleared           \* history: insertions before the last clear

limit_vars == <<min_in_memory_limit, max_on_disk_limit>>
disk_vars == <<on_disk_states, loaded, oldest_on_disk, files>>
states_vars == <<states, disk_vars, in_memory_limit, limit_vars, present, writes, pc, arg, count, last, cleared>>

is_memory_only == max_on_disk_limit = 0

-----------------------------------------------------------------------------
decreased_limit ==
  IF in_memory_limit - 1 > min_in_memory_limit THEN in_memory_limit - 1 ELSE min_in_memory_limit

\* The next block that nothing was built on.
Fresh == 1 + Cardinality({h \in Hash : last[h] # None})

\* A state is inserted when a block is built on the block h.
insert(h) ==
  /\ pc = "idle"
  /\ count < MaxInserts
  /\ h = Fresh \/ (Reinsert /\ last[h] # None)
  /\ in_memory_limit' = IF ~is_memory_only /\ Len(present) >= in_memory_limit
                        THEN decreased_limit ELSE in_memory_limit
  /\ pc' = "memory"
  /\ arg' = h
  /\ UNCHANGED <<states, disk_vars, limit_vars, present, writes, count, last, cleared>>

\* For block times of at most two seconds.
update_interval_mine_block_time ==
  /\ pc = "idle"
  /\ in_memory_limit' = IntervalLimit
  /\ pc' = "memory"
  /\ arg' = None
  /\ UNCHANGED <<states, disk_vars, limit_vars, present, writes, count, last, cleared>>

\* Mutant: one state too many.
over_memory_limit_late == Len(present) > in_memory_limit

over_memory_limit == Len(present) >= in_memory_limit

\* Mutant: the state is forgotten instead of moved.
moves_to_disk_never(h) == FALSE

moves_to_disk(h) == states[h] # None /\ ~is_memory_only

\* The oldest state leaves the memory.
pop_front ==
  LET h == Head(present)
  IN  /\ present' = Tail(present)
      /\ states' = [states EXCEPT ![h] = None]
      /\ IF moves_to_disk(h)
         THEN /\ writes' = writes \cup {<<h, states[h]>>}
              /\ on_disk_states' = on_disk_states \cup {h}
              /\ loaded' = loaded \ {h}
              /\ oldest_on_disk' = Append(oldest_on_disk, h)
         ELSE UNCHANGED <<writes, on_disk_states, loaded, oldest_on_disk>>
      /\ UNCHANGED <<in_memory_limit, limit_vars, files, pc, arg, count, last, cleared>>

\* One iteration of the first loop of enforce_limits. Popping from an empty
\* queue changes nothing, and the loop goes on.
evict ==
  /\ pc = "memory"
  /\ over_memory_limit
  /\ IF present = <<>> THEN UNCHANGED states_vars ELSE pop_front

memory_enforced ==
  /\ pc = "memory"
  /\ ~over_memory_limit
  /\ pc' = "disk"
  /\ UNCHANGED <<states, disk_vars, in_memory_limit, limit_vars, present, writes, arg, count, last, cleared>>

over_disk_limit == ~is_memory_only /\ Len(oldest_on_disk) >= max_on_disk_limit

purged == Head(oldest_on_disk)

\* One iteration of the second loop; removing a file that is not there is only
\* logged.
purge ==
  /\ pc = "disk"
  /\ over_disk_limit
  /\ oldest_on_disk' = Tail(oldest_on_disk)
  /\ on_disk_states' = on_disk_states \ {purged}
  /\ loaded' = loaded \ {purged}
  /\ files' = [files EXCEPT ![purged] = None]
  /\ UNCHANGED <<states, in_memory_limit, limit_vars, present, writes, pc, arg, count, last, cleared>>

\* The limits are enforced; an insertion now stores its state.
disk_enforced ==
  /\ pc = "disk"
  /\ ~over_disk_limit
  /\ pc' = "idle"
  /\ IF arg = None
     THEN UNCHANGED <<states, present, count, last>>
     ELSE /\ states' = [states EXCEPT ![arg] = count + 1]
          /\ present' = Append(present, arg)
          /\ count' = count + 1
          /\ last' = [last EXCEPT ![arg] = count + 1]
  /\ UNCHANGED <<disk_vars, in_memory_limit, limit_vars, writes, arg, cleared>>

-----------------------------------------------------------------------------
\* Mutant: the task of a state does not write.
written_never(h, s) == files

written(h, s) == [files EXCEPT ![h] = s]

\* The task of DiskStateCache::write.
write_file(h, s) ==
  /\ <<h, s>> \in writes
  /\ files' = written(h, s)
  /\ writes' = writes \ {<<h, s>>}
  /\ UNCHANGED <<states, on_disk_states, loaded, oldest_on_disk, in_memory_limit, limit_vars,
                 present, pc, arg, count, last, cleared>>

\* A state on disk is read into the entry of on_disk_states.
get(h) ==
  /\ pc = "idle"
  /\ states[h] = None
  /\ h \in on_disk_states
  /\ files[h] # None
  /\ loaded' = loaded \cup {h}
  /\ UNCHANGED <<states, on_disk_states, oldest_on_disk, files, in_memory_limit, limit_vars,
                 present, writes, pc, arg, count, last, cleared>>

\* On a reset of the fork.
clear ==
  /\ pc = "idle"
  /\ states' = [h \in Hash |-> None]
  /\ on_disk_states' = {}
  /\ loaded' = {}
  /\ present' = <<>>
  /\ files' = [h \in Hash |->
       IF \E i \in 1..Len(oldest_on_disk) : oldest_on_disk[i] = h THEN None ELSE files[h]]
  /\ oldest_on_disk' = <<>>
  /\ cleared' = count
  /\ UNCHANGED <<in_memory_limit, limit_vars, writes, pc, arg, count, last>>

StatesInit ==
  /\ states = [h \in Hash |-> None]
  /\ on_disk_states = {}
  /\ loaded = {}
  /\ in_memory_limit \in Limits
  /\ min_in_memory_limit = IF in_memory_limit < MinHistoryLimit
                           THEN in_memory_limit ELSE MinHistoryLimit
  /\ max_on_disk_limit \in DiskLimits
  /\ oldest_on_disk = <<>>
  /\ present = <<>>
  /\ files = [h \in Hash |-> None]
  /\ writes = {}
  /\ pc = "idle"
  /\ arg = None
  /\ count = 0
  /\ last = [h \in Hash |-> None]
  /\ cleared = 0

Enforce == evict \/ memory_enforced \/ purge \/ disk_enforced

StatesNext ==
  \/ \E h \in Hash : insert(h) \/ get(h)
  \/ update_interval_mine_block_time
  \/ Enforce
  \/ clear
  \/ \E w \in writes : write_file(w[1], w[2])

StatesSpec == StatesInit /\ [][StatesNext]_states_vars

\* The loops run on, and the runtime runs the tasks that were spawned.
StatesFairSpec == StatesSpec /\ WF_states_vars(Enforce) /\ WF_states_vars(\E w \in writes : write_file(w[1], w[2]))

-----------------------------------------------------------------------------
(* Properties *)

Ordinal == 1..MaxInserts

\* The fields of InMemoryBlockStates have their types; the limit never drops below
\* its minimum.
StatesTypeOK ==
  /\ states \in [Hash -> Ordinal \cup {None}]
  /\ on_disk_states \subseteq Hash
  /\ loaded \subseteq on_disk_states
  /\ in_memory_limit \in Nat
  /\ min_in_memory_limit \in 0..in_memory_limit
  /\ max_on_disk_limit \in Nat
  /\ oldest_on_disk \in Seq(Hash)
  /\ present \in Seq(Hash)
  /\ files \in [Hash -> Ordinal \cup {None}]
  /\ writes \subseteq Hash \X Ordinal
  /\ pc \in {"idle", "memory", "disk"}
  /\ arg \in Hash \cup {None}
  /\ count \in 0..MaxInserts
  /\ last \in [Hash -> Ordinal \cup {None}]
  /\ cleared \in 0..count

Entries(q) == {q[i] : i \in 1..Len(q)}

in_memory == {h \in Hash : states[h] # None}

kept == in_memory \cup on_disk_states

\* in_memory_limit bounds the states in memory, and each of them is in the queue
\* from which it will be evicted: none stays for ever. The same holds of the
\* states on disk and max_on_disk_limit.
Bounded ==
  /\ in_memory \subseteq Entries(present)
  /\ on_disk_states \subseteq Entries(oldest_on_disk)
  /\ pc = "idle" => Len(present) <= in_memory_limit
  /\ (pc = "idle" /\ ~is_memory_only) => Len(oldest_on_disk) < max_on_disk_limit

\* "When the configured limit [...] is reached, the oldest state is removed": a
\* state is given up only after all states that were inserted before it.
OldestFirst ==
  \A g, h \in Hash :
    (pc = "idle" /\ h \in kept /\ last[g] # None /\ last[g] > last[h]) => g \in kept

\* States are given up only at the limits: below them everything since the last
\* clear is in memory or on disk, while limits shrink, grow with the interval
\* and states move to disk.
KeptEnough ==
  LET enough == (IF is_memory_only THEN 0 ELSE max_on_disk_limit - 1) + min_in_memory_limit - 1
      inserted == count - cleared
  IN  pc = "idle" => Cardinality(kept) >= (IF inserted < enough THEN inserted ELSE enough)

\* The history gives up the oldest states first, and none before it has to.
NewestKept == OldestFirst /\ KeptEnough

\* A state that was moved to disk can be read from there in the end, unless it
\* is given up or back in memory.
Written ==
  \A h \in Hash : h \in on_disk_states ~> (files[h] # None \/ h \notin on_disk_states)

\* Every insertion returns: the loops of enforce_limits end.
InsertReturns == pc # "idle" ~> pc = "idle"

\* What an insertion starts comes to its end: the call itself, which holds the lock
\* of the history, and the tasks it spawns.
InsertSettles == InsertReturns /\ Written

=============================================================================
