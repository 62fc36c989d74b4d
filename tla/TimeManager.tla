---------------------------- MODULE TimeManager ----------------------------
(***************************************************************************)
(* The block time of anvil (eth/backend/time.rs). Each field has its own   *)
(* lock and each operation takes them one after the other, so that an      *)
(* operation is several steps. The callers are the tasks that mine and the *)
(* handlers of evm_setNextBlockTimestamp, evm_increaseTime, evm_setTime    *)
(* and of the block timestamp interval.                                    *)
(***************************************************************************)
EXTENDS Option, Integers

CONSTANTS
  Miner, Handler,  \* tasks
  Calls,           \* operations that handlers use
  ExclusiveReset,  \* whether a reset starts only when no other operation runs
  Start,           \* timestamps the node is created with or reset to
  MaxTime          \* bound: times and timestamps

ASSUME TimeAssumption ==
  /\ ExclusiveReset \in BOOLEAN
  /\ MaxTime \in Nat
  /\ Start \subseteq 0..MaxTime
  /\ Miner \cap Handler = {}
  /\ None \notin Int

Task == Miner \cup Handler
Time == 0..MaxTime

VARIABLES
  exclusive,            \* whether all operations do, fixed at the start
  clock,                \* seconds since the epoch
  offset,
  last_timestamp,
  next_exact_timestamp,
  interval,
  task,                 \* what each task is doing
  prev,                 \* history: timestamp of the block before the next one
  exact,                \* history: timestamp that was set for the next block
  jumps,                \* bound: the seconds added by evm_increaseTime
  anchor                \* history: how far the last exact timestamp, or the last
                        \* reset, was ahead of the clock

fields == <<offset, last_timestamp, next_exact_timestamp, interval>>
history == <<prev, exact, jumps, anchor>>
time_vars == <<exclusive, clock, fields, task, history>>

Free == [pc |-> "free", current |-> 0, last |-> 0, next |-> 0, offset |-> None,
         promise |-> None]

Idle == \A t \in Task : task[t].pc = "free"

Become(t, s) == task' = [task EXCEPT ![t] = s]

Begin(t, s) ==
  /\ task[t].pc = "free"
  /\ exclusive => Idle
  /\ Become(t, s)

-----------------------------------------------------------------------------
(* next_timestamp *)

\* compute_next_timestamp: the time and the last timestamp are read.
next_timestamp(t) ==
  /\ last_timestamp < MaxTime
  /\ Begin(t, [Free EXCEPT !.pc = "compute", !.current = clock, !.last = last_timestamp,
                             !.promise = exact])
  /\ UNCHANGED <<clock, fields, history>>

\* Mutant: a timestamp may repeat.
always_increasing_or_equal(n, last) == IF n < last THEN last ELSE n

always_increasing(n, last) == IF n <= last THEN last + 1 ELSE n

\* Mutant: an interval takes precedence.
computed_interval_first(s) ==
  always_increasing(IF interval # None THEN s.last + interval
                    ELSE IF next_exact_timestamp # None THEN next_exact_timestamp
                    ELSE s.current + offset, s.last)

computed(s) ==
  always_increasing(IF next_exact_timestamp # None THEN next_exact_timestamp
                    ELSE IF interval # None THEN s.last + interval
                    ELSE s.current + offset, s.last)

\* next_offset, when an exact timestamp is used.
computed_offset(s) ==
  IF next_exact_timestamp # None THEN computed(s) - s.current ELSE None

compute(t) ==
  /\ task[t].pc = "compute"
  /\ computed(task[t]) <= MaxTime
  /\ Become(t, [task[t] EXCEPT !.pc = "take", !.next = computed(task[t]),
                               !.offset = computed_offset(task[t])])
  /\ UNCHANGED <<clock, fields, history>>

take_exact(t) ==
  /\ task[t].pc = "take"
  /\ next_exact_timestamp' = None
  /\ Become(t, [task[t] EXCEPT !.pc = IF task[t].offset = None THEN "last" ELSE "offset"])
  /\ UNCHANGED <<clock, offset, last_timestamp, interval, history>>

write_offset(t) ==
  /\ task[t].pc = "offset"
  /\ offset' = task[t].offset
  /\ Become(t, [task[t] EXCEPT !.pc = "last"])
  /\ UNCHANGED <<clock, last_timestamp, next_exact_timestamp, interval, history>>

\* The block has its timestamp.
write_last(t) ==
  /\ task[t].pc = "last"
  /\ last_timestamp' = task[t].next
  /\ prev' = task[t].next
  /\ exact' = IF exact \in {task[t].next, task[t].promise} THEN None ELSE exact
  /\ anchor' = IF task[t].promise = None THEN anchor ELSE task[t].next - task[t].current
  /\ Become(t, Free)
  /\ UNCHANGED <<clock, offset, next_exact_timestamp, interval, jumps>>

-----------------------------------------------------------------------------
(* The calls of the handlers *)

too_early(n) == n <= last_timestamp

\* The last timestamp is checked, then the lock is given up.
set_next_block_timestamp(t, n) ==
  /\ "exact" \in Calls
  /\ ~too_early(n)
  /\ Begin(t, [Free EXCEPT !.pc = "replace", !.next = n])
  /\ UNCHANGED <<clock, fields, history>>

replace_exact(t) ==
  /\ task[t].pc = "replace"
  /\ next_exact_timestamp' = task[t].next
  /\ exact' = task[t].next
  /\ Become(t, Free)
  /\ UNCHANGED <<clock, offset, last_timestamp, interval, prev, jumps, anchor>>

increase_time(t, n) ==
  /\ "increase" \in Calls
  /\ jumps + n <= MaxTime
  /\ Begin(t, Free)
  /\ offset' = offset + n
  /\ jumps' = jumps + n
  /\ UNCHANGED <<clock, last_timestamp, next_exact_timestamp, interval, prev, exact, anchor>>

set_block_timestamp_interval(t, n) ==
  /\ "interval" \in Calls
  /\ Begin(t, Free)
  /\ interval' = n
  /\ UNCHANGED <<clock, offset, last_timestamp, next_exact_timestamp, history>>

remove_block_timestamp_interval(t) ==
  /\ interval # None
  /\ Begin(t, Free)
  /\ interval' = None
  /\ UNCHANGED <<clock, offset, last_timestamp, next_exact_timestamp, history>>

\* reset, for evm_setTime, a revert or a reset of the fork: three locks.
reset(t, n) ==
  /\ "reset" \in Calls
  /\ ExclusiveReset => Idle
  /\ Begin(t, [Free EXCEPT !.pc = "reset_offset", !.current = clock, !.next = n])
  /\ last_timestamp' = n
  /\ prev' = n
  /\ UNCHANGED <<clock, offset, next_exact_timestamp, interval, exact, jumps, anchor>>

reset_offset(t) ==
  /\ task[t].pc = "reset_offset"
  /\ offset' = task[t].next - task[t].current
  /\ anchor' = task[t].next - task[t].current
  /\ Become(t, [task[t] EXCEPT !.pc = "reset_exact"])
  /\ UNCHANGED <<clock, last_timestamp, next_exact_timestamp, interval, prev, exact, jumps>>

reset_exact(t) ==
  /\ task[t].pc = "reset_exact"
  /\ next_exact_timestamp' = None
  /\ exact' = None
  /\ Become(t, Free)
  /\ UNCHANGED <<clock, offset, last_timestamp, interval, prev, jumps, anchor>>

Tick ==
  /\ clock < MaxTime
  /\ clock' = clock + 1
  /\ UNCHANGED <<fields, task, history>>

TimeInit ==
  /\ exclusive \in BOOLEAN
  /\ clock \in Time
  /\ last_timestamp \in Start
  /\ offset = last_timestamp - clock
  /\ next_exact_timestamp = None
  /\ interval = None
  /\ task = [t \in Task |-> Free]
  /\ prev = last_timestamp
  /\ exact = None
  /\ jumps = 0
  /\ anchor = offset

Mine(t) ==
  \/ next_timestamp(t)
  \/ compute(t)
  \/ take_exact(t)
  \/ write_offset(t)
  \/ write_last(t)

Handle(t) ==
  \/ \E n \in Time : set_next_block_timestamp(t, n)
  \/ replace_exact(t)
  \/ \E n \in 1..2 : increase_time(t, n) \/ set_block_timestamp_interval(t, n)
  \/ remove_block_timestamp_interval(t)
  \/ \E n \in Start : reset(t, n)
  \/ reset_offset(t)
  \/ reset_exact(t)

TimeNext ==
  /\ \/ \E t \in Miner : Mine(t)
     \/ \E t \in Handler : Handle(t)
     \/ Tick
  /\ UNCHANGED exclusive

TimeSpec == TimeInit /\ [][TimeNext]_time_vars

-----------------------------------------------------------------------------
(* Properties *)

\* The fields of TimeManager have their types: in particular no timestamp that is
\* computed is below zero.
TimeTypeOK ==
  /\ exclusive \in BOOLEAN
  /\ clock \in Time
  /\ offset \in Int
  /\ last_timestamp \in Time
  /\ next_exact_timestamp \in Time \cup {None}
  /\ interval \in Nat \cup {None}
  /\ \A t \in Task : task[t].next \in Time /\ task[t].last \in Time
  /\ prev \in Time
  /\ exact \in Time \cup {None}
  /\ jumps \in Time
  /\ anchor \in Int

\* A block gets its timestamp in this step.
Stamped(t) == task[t].pc = "last" /\ task'[t].pc = "free"

\* "Ensures that the timestamp is always increasing": each block is later than
\* the one before it or the time of the last reset, whatever the handlers set
\* meanwhile, also for an exact timestamp that is in the past when it is used.
Increasing == [][\A t \in Miner : Stamped(t) => prev' > prev]_time_vars

\* "Sets the exact timestamp to use in the next block. After which the `offset` will
\* be updated accordingly": without overlapping operations, the block that follows
\* the call has this timestamp, whatever offset and interval are set, and time goes
\* on from it: the offset never falls below the one of the last exact timestamp or
\* reset.  (Set while a block is mined, the timestamp can be lost.)
ExactUsed ==
  [][exclusive =>
       /\ \A t \in Miner : (Stamped(t) /\ task[t].promise # None /\ exact # None) =>
            prev' \in {task[t].promise, exact}
       /\ Idle' => offset' >= anchor']_time_vars
=============================================================================
