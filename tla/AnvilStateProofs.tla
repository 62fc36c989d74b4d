------------------------- MODULE AnvilStateProofs -------------------------
(***************************************************************************)
(* The parts of anvil's backend that keep what a block is made from: the   *)
(* block time (TimeManager) and the states of historic blocks              *)
(* (BlockStates).                                                          *)
(*                                                                         *)
(* Block timestamps increase. A task that mines has read the last          *)
(* timestamp and writes it some steps later, so that the argument needs    *)
(* what holds between: the value that was read is still the last one, and  *)
(* the timestamp that was computed is above it. This is where one miner    *)
(* and a reset that does not run meanwhile are needed.                     *)
(* A timestamp that was set is used when operations do not overlap: here   *)
(* the invariant follows the one operation in progress from step to step.  *)
(*                                                                         *)
(* StatesTypeOK and Bounded hold for all limits and any number of          *)
(* insertions. Bounded speaks of the states between operations; it is      *)
(* inductive with what the first loop of enforce_limits leaves to the      *)
(* second, and with the bound on the minimum limit that keeps limits       *)
(* natural numbers. NewestKept holds when no block is built on twice; its  *)
(* inductive invariant, Queues, gives the contents of the two queues and   *)
(* both maps.                                                              *)
(***************************************************************************)
EXTENDS TimeManager, BlockStates, FiniteSetTheorems, TLAPS

-----------------------------------------------------------------------------
(* Block time *)

OneMiner == \A m, n \in Miner : m = n

Record ==
  [pc : {"free", "compute", "take", "offset", "last", "replace", "reset_offset",
         "reset_exact"},
   current : Time, last : Time, next : Time, offset : Int \cup {None},
   promise : Time \cup {None}]

-----------------------------------------------------------------------------
(* Type correctness *)

\* What the fields and the tasks hold. A task that writes the offset has one.
TimeTypes ==
  /\ TimeTypeOK
  /\ task \in [Task -> Record]
  /\ \A t \in Task : task[t].pc = "offset" => task[t].offset # None

\* A task that does nothing has a record of the right form, and so have those that
\* begin an operation.
LEMMA FreeRecord ==
  /\ Free \in Record
  /\ \A n \in Time : [Free EXCEPT !.pc = "replace", !.next = n] \in Record
  /\ \A n, m \in Time :
       [Free EXCEPT !.pc = "reset_offset", !.current = m, !.next = n] \in Record
  /\ \A n, m \in Time, e \in Time \cup {None} :
       [Free EXCEPT !.pc = "compute", !.current = m, !.last = n, !.promise = e] \in Record
<1>1. 0 \in Time
  BY TimeAssumption DEF Time
<1> QED BY <1>1, Zenon DEF Free, Record

\* A task that goes on to a record of the right form leaves the others as they are.
LEMMA BecomeTypes ==
  ASSUME TimeTypes, NEW t \in Task, NEW s \in Record, Become(t, s),
         s.pc = "offset" => s.offset # None
  PROVE  /\ (task \in [Task -> Record])'
         /\ (\A u \in Task : task[u].pc = "offset" => task[u].offset # None)'
         /\ (\A u \in Task : task[u].next \in Time /\ task[u].last \in Time)'
<1>1. task' \in [Task -> Record] /\ task'[t] = s /\ \A u \in Task \ {t} : task'[u] = task[u]
  BY Zenon DEF Become, TimeTypes
<1>2. \A u \in Task : task'[u].next \in Time /\ task'[u].last \in Time
  BY <1>1, Zenon DEF Record
<1> QED BY <1>1, <1>2, Zenon DEF TimeTypes

\* compute_next_timestamp returns an integer above the last timestamp it read.
LEMMA ComputedAbove ==
  ASSUME TimeTypes, NEW t \in Task
  PROVE  /\ computed(task[t]) \in Int
         /\ computed(task[t]) > task[t].last
         /\ computed_offset(task[t]) \in Int \cup {None}
<1>1. task[t].last \in Int /\ task[t].current \in Int
  BY DEF TimeTypes, Record, Time
<1>2. computed(task[t]) \in Int /\ computed(task[t]) > task[t].last
  BY <1>1, SMTT(40) DEF computed, always_increasing, TimeTypes, TimeTypeOK, Time
<1> QED BY <1>1, <1>2 DEF computed_offset

\* The node is created with no task in an operation.
LEMMA TimeInitTypes == TimeInit => TimeTypes
<1> SUFFICES ASSUME TimeInit PROVE TimeTypes
  OBVIOUS
<1>1. /\ task = [u \in Task |-> Free]
      /\ Free.pc = "free" /\ Free.next = 0 /\ Free.last = 0 /\ 0 \in Time
  BY TimeAssumption DEF TimeInit, Free, Time
<1>2. /\ last_timestamp \in Time /\ clock \in Time /\ offset \in Int /\ anchor \in Int
      /\ prev \in Time /\ jumps \in Time
  BY <1>1, TimeAssumption DEF TimeInit, Time
<1> QED BY <1>1, <1>2, FreeRecord, Zenon DEF TimeInit, TimeTypes, TimeTypeOK

\* A step of a task that mines; a timestamp is computed only up to the bound.
LEMMA MineTypes ==
  ASSUME TimeTypes, NEW t \in Miner, Mine(t), UNCHANGED exclusive
  PROVE  TimeTypes'
<1> t \in Task BY Zenon DEF Task
<1>r. task[t] \in Record
  BY Zenon DEF TimeTypes
<1>1. CASE next_timestamp(t)
  <2>1. clock \in Time /\ last_timestamp \in Time /\ exact \in Time \cup {None}
    BY Zenon DEF TimeTypes, TimeTypeOK
  <2> DEFINE s == [Free EXCEPT !.pc = "compute", !.current = clock, !.last = last_timestamp,
                               !.promise = exact]
  <2>2. s \in Record /\ s.pc # "offset"
    BY <2>1, FreeRecord, Zenon DEF Free
  <2>3. Become(t, s)
    BY <1>1, Zenon DEF next_timestamp, Begin
  <2> HIDE DEF s
  <2> QED BY <1>1, <2>2, <2>3, BecomeTypes, Zenon DEF next_timestamp, TimeTypes, TimeTypeOK, fields, history
<1>2. CASE compute(t)
  <2> DEFINE s == [task[t] EXCEPT !.pc = "take", !.next = computed(task[t]),
                                  !.offset = computed_offset(task[t])]
  <2>1. computed(task[t]) \in Time
    BY <1>2, <1>r, ComputedAbove, TimeAssumption DEF compute, Record, Time
  <2>2. s \in Record /\ s.pc # "offset"
    BY <1>r, <2>1, ComputedAbove, Zenon DEF Record
  <2>3. Become(t, s)
    BY <1>2, Zenon DEF compute
  <2> HIDE DEF s
  <2> QED BY <1>2, <2>2, <2>3, BecomeTypes, Zenon DEF compute, TimeTypes, TimeTypeOK, fields, history
<1>3. CASE take_exact(t)
  <2> DEFINE s == [task[t] EXCEPT !.pc = IF task[t].offset = None THEN "last" ELSE "offset"]
  <2>1. s \in Record /\ (s.pc = "offset" => s.offset # None)
    BY <1>r, Zenon DEF Record
  <2>2. Become(t, s)
    BY <1>3, Zenon DEF take_exact
  <2> HIDE DEF s
  <2> QED BY <1>3, <2>1, <2>2, BecomeTypes, Zenon DEF take_exact, TimeTypes, TimeTypeOK, history
<1>4. CASE write_offset(t)
  <2> DEFINE s == [task[t] EXCEPT !.pc = "last"]
  <2>1. s \in Record /\ s.pc # "offset"
    BY <1>r, Zenon DEF Record
  <2>2. Become(t, s) /\ offset' \in Int
    BY <1>4, <1>r, Zenon DEF write_offset, TimeTypes, Record
  <2> HIDE DEF s
  <2> QED BY <1>4, <2>1, <2>2, BecomeTypes, Zenon DEF write_offset, TimeTypes, TimeTypeOK, history
<1>5. CASE write_last(t)
  <2>1. Free.pc # "offset" /\ Become(t, Free)
    BY <1>5, Zenon DEF write_last, Free
  <2>2. /\ last_timestamp' \in Time /\ prev' \in Time /\ exact' \in Time \cup {None}
        /\ anchor' \in Int
    BY <1>5, <1>r DEF write_last, TimeTypes, TimeTypeOK, Record, Time
  <2> QED BY <1>5, <2>1, <2>2, FreeRecord, BecomeTypes, Zenon DEF write_last, TimeTypes, TimeTypeOK
<1> QED BY <1>1, <1>2, <1>3, <1>4, <1>5, Zenon DEF Mine

\* A step of a handler.
LEMMA HandleTypes ==
  ASSUME TimeTypes, NEW t \in Handler, Handle(t), UNCHANGED exclusive
  PROVE  TimeTypes'
<1> t \in Task BY Zenon DEF Task
<1>r. task[t] \in Record /\ Free \in Record /\ Free.pc # "offset"
  BY FreeRecord, Zenon DEF TimeTypes, Free
<1>1. ASSUME NEW n \in Time, set_next_block_timestamp(t, n) PROVE TimeTypes'
  <2> DEFINE s == [Free EXCEPT !.pc = "replace", !.next = n]
  <2>1. s \in Record /\ s.pc # "offset"
    BY FreeRecord, Zenon DEF Free
  <2>2. Become(t, s)
    BY <1>1, Zenon DEF set_next_block_timestamp, Begin
  <2> HIDE DEF s
  <2> QED BY <1>1, <2>1, <2>2, BecomeTypes, Zenon
          DEF set_next_block_timestamp, TimeTypes, TimeTypeOK, fields, history
<1>2. CASE replace_exact(t)
  <2>1. next_exact_timestamp' \in Time /\ exact' \in Time
    BY <1>2, <1>r, Zenon DEF replace_exact, Record
  <2> QED BY <1>2, <1>r, <2>1, BecomeTypes, Zenon DEF replace_exact, TimeTypes, TimeTypeOK
<1>3. ASSUME NEW n \in 1..2, increase_time(t, n) PROVE TimeTypes'
  <2>1. offset' \in Int /\ jumps' \in Time
    BY <1>3, TimeAssumption DEF increase_time, TimeTypes, TimeTypeOK, Time
  <2> QED BY <1>3, <1>r, <2>1, BecomeTypes, Zenon DEF increase_time, Begin, TimeTypes, TimeTypeOK
<1>4. ASSUME NEW n \in 1..2, set_block_timestamp_interval(t, n) PROVE TimeTypes'
  BY <1>4, <1>r, BecomeTypes
     DEF set_block_timestamp_interval, Begin, TimeTypes, TimeTypeOK, history
<1>5. CASE remove_block_timestamp_interval(t)
  BY <1>5, <1>r, BecomeTypes, Zenon
     DEF remove_block_timestamp_interval, Begin, TimeTypes, TimeTypeOK, history
<1>6. ASSUME NEW n \in Start, reset(t, n) PROVE TimeTypes'
  <2> DEFINE s == [Free EXCEPT !.pc = "reset_offset", !.current = clock, !.next = n]
  <2>1. n \in Time /\ clock \in Time
    BY TimeAssumption, Zenon DEF TimeTypes, TimeTypeOK, Time
  <2>2. s \in Record /\ s.pc # "offset"
    BY <2>1, FreeRecord, Zenon DEF Free
  <2>3. Become(t, s)
    BY <1>6, Zenon DEF reset, Begin
  <2> HIDE DEF s
  <2> QED BY <1>6, <2>1, <2>2, <2>3, BecomeTypes, Zenon DEF reset, TimeTypes, TimeTypeOK
<1>7. CASE reset_offset(t)
  <2> DEFINE s == [task[t] EXCEPT !.pc = "reset_exact"]
  <2>1. s \in Record /\ s.pc # "offset"
    BY <1>r, Zenon DEF Record
  <2>2. Become(t, s) /\ offset' \in Int /\ anchor' \in Int
    BY <1>7, <1>r DEF reset_offset, Record, Time
  <2> HIDE DEF s
  <2> QED BY <1>7, <2>1, <2>2, BecomeTypes, Zenon DEF reset_offset, TimeTypes, TimeTypeOK
<1>8. CASE reset_exact(t)
  BY <1>8, <1>r, BecomeTypes, Zenon DEF reset_exact, TimeTypes, TimeTypeOK
<1> QED BY <1>1, <1>2, <1>3, <1>4, <1>5, <1>6, <1>7, <1>8, Zenon DEF Handle

\* Every step keeps the types.
LEMMA TimeNextTypes == TimeTypes /\ [TimeNext]_time_vars => TimeTypes'
<1> SUFFICES ASSUME TimeTypes, [TimeNext]_time_vars PROVE TimeTypes'
  OBVIOUS
<1>1. ASSUME Tick, UNCHANGED exclusive PROVE TimeTypes'
  <2>1. clock' \in Time
    BY <1>1, TimeAssumption DEF Tick, TimeTypes, TimeTypeOK, Time
  <2> QED BY <1>1, <2>1, Zenon DEF Tick, TimeTypes, TimeTypeOK, fields, history
<1>2. CASE UNCHANGED time_vars
  BY <1>2, Zenon DEF time_vars, fields, history, TimeTypes, TimeTypeOK
<1> QED BY <1>1, <1>2, MineTypes, HandleTypes, Zenon DEF TimeNext

\* The fields of TimeManager keep their types, for any miners and handlers and any
\* overlap of their steps: no timestamp drops below zero.
THEOREM TimeTypeCorrect == TimeSpec => []TimeTypeOK
<1>1. TimeTypes => TimeTypeOK
  BY Zenon DEF TimeTypes
<1> QED BY TimeInitTypes, TimeNextTypes, <1>1, PTL DEF TimeSpec

-----------------------------------------------------------------------------
(* Timestamps increase *)

\* A miner is at the steps of next_timestamp only, and what it has read and
\* computed is up to date.
UpToDate ==
  \A t \in Miner :
    /\ task[t].pc \in {"free", "compute", "take", "offset", "last"}
    /\ task[t].pc = "compute" => task[t].last = last_timestamp
    /\ task[t].pc \in {"take", "offset", "last"} => task[t].next > last_timestamp

TimeIInv == TimeTypes /\ UpToDate /\ prev = last_timestamp

\* The node is created with no task in an operation.
LEMMA TimeInitIInv == TimeInit => TimeIInv
  BY TimeInitTypes DEF TimeInit, TimeIInv, UpToDate, Free, Task

\* A step of the task that mines.
LEMMA MineIInv ==
  ASSUME TimeIInv, OneMiner, NEW t \in Miner, Mine(t)
  PROVE  UpToDate' /\ prev' = last_timestamp'
<1> t \in Task BY Zenon DEF Task
<1>t. task \in [Task -> Record] /\ task[t] \in Record
  BY Zenon DEF TimeIInv, TimeTypes
<1>1. CASE next_timestamp(t)
  <2>1. task'[t].pc = "compute" /\ task'[t].last = last_timestamp'
    BY <1>1, <1>t, Zenon DEF next_timestamp, Begin, Become, Free, fields
  <2> QED BY <1>1, <2>1, Zenon DEF next_timestamp, fields, history, TimeIInv, UpToDate, OneMiner
<1>2. CASE compute(t)
  <2>1. task'[t].pc = "take" /\ task'[t].next = computed(task[t])
    BY <1>2, <1>t, Zenon DEF compute, Become, Record
  <2>2. task'[t].next > last_timestamp'
    BY <1>2, <2>1, ComputedAbove, Zenon DEF compute, TimeIInv, UpToDate, fields
  <2> QED BY <1>2, <2>1, <2>2, Zenon DEF compute, fields, history, TimeIInv, UpToDate, OneMiner
<1>3. CASE take_exact(t)
  <2>1. task'[t].pc \in {"last", "offset"} /\ task'[t].next = task[t].next
    BY <1>3, <1>t, Zenon DEF take_exact, Become, Record
  <2> QED BY <1>3, <2>1, Zenon DEF take_exact, history, TimeIInv, UpToDate, OneMiner
<1>4. CASE write_offset(t)
  <2>1. task'[t].pc = "last" /\ task'[t].next = task[t].next
    BY <1>4, <1>t, Zenon DEF write_offset, Become, Record
  <2> QED BY <1>4, <2>1, Zenon DEF write_offset, history, TimeIInv, UpToDate, OneMiner
<1>5. CASE write_last(t)
  <2>1. task'[t].pc = "free"
    BY <1>5, <1>t, Zenon DEF write_last, Become, Free
  <2> QED BY <1>5, <2>1, Zenon DEF write_last, TimeIInv, UpToDate, OneMiner
<1> QED BY <1>1, <1>2, <1>3, <1>4, <1>5, Zenon DEF Mine

\* A step of a handler. Only reset writes the last timestamp, when no task mines.
LEMMA HandleIInv ==
  ASSUME TimeIInv, ExclusiveReset, NEW t \in Handler, Handle(t)
  PROVE  UpToDate' /\ prev' = last_timestamp'
<1> t \in Task /\ t \notin Miner BY TimeAssumption, Zenon DEF Task
<1>1. \A u \in Miner : task'[u] = task[u]
  <2>1. \E s : task' = [task EXCEPT ![t] = s]
    BY Zenon DEF Handle, set_next_block_timestamp, replace_exact, increase_time,
      set_block_timestamp_interval, remove_block_timestamp_interval, reset,
      reset_offset, reset_exact, Begin, Become
  <2> QED BY <2>1, Zenon DEF TimeIInv, TimeTypes, Task
<1>2. ASSUME NEW n \in Start, reset(t, n) PROVE UpToDate' /\ prev' = last_timestamp'
  <2>1. \A u \in Miner : task[u].pc = "free"
    BY <1>2, Zenon DEF reset, Idle, Task
  <2> QED BY <1>1, <1>2, <2>1, Zenon DEF reset, UpToDate
<1>3. CASE ~\E n \in Start : reset(t, n)
  <2>1. UNCHANGED <<last_timestamp, prev>>
    BY <1>3, Zenon DEF Handle, set_next_block_timestamp, replace_exact, increase_time,
      set_block_timestamp_interval, remove_block_timestamp_interval,
      reset_offset, reset_exact, fields, history
  <2> QED BY <1>1, <2>1, Zenon DEF TimeIInv, UpToDate
<1> QED BY <1>2, <1>3, Zenon

\* Every step keeps the invariant.
LEMMA TimeNextIInv ==
  ASSUME TimeIInv, OneMiner, ExclusiveReset, [TimeNext]_time_vars
  PROVE  TimeIInv'
<1>1. TimeTypes'
  BY TimeNextTypes, Zenon DEF TimeIInv
<1>2. CASE Tick
  BY <1>1, <1>2, Zenon DEF Tick, TimeIInv, UpToDate, fields, history
<1>3. CASE UNCHANGED time_vars
  BY <1>1, <1>3, Zenon DEF time_vars, fields, history, TimeIInv, UpToDate
<1> QED BY <1>1, <1>2, <1>3, MineIInv, HandleIInv, Zenon DEF TimeNext, TimeIInv

\* A block gets its timestamp in the last step of next_timestamp.
LEMMA StampedLast ==
  ASSUME TimeTypes, [TimeNext]_time_vars, NEW t \in Miner, Stamped(t)
  PROVE  write_last(t)
<1> t \in Task BY Zenon DEF Task
<1>1. task'[t] # task[t]
  BY Zenon DEF Stamped
<1>2. ASSUME NEW u \in Handler, Handle(u) PROVE FALSE
  <2>1. u # t
    BY TimeAssumption, Zenon
  <2>2. \E s : task' = [task EXCEPT ![u] = s]
    BY <1>2, Zenon DEF Handle, set_next_block_timestamp, replace_exact, increase_time,
      set_block_timestamp_interval, remove_block_timestamp_interval, reset,
      reset_offset, reset_exact, Begin, Become
  <2> QED BY <1>1, <2>1, <2>2, Zenon DEF TimeTypes
<1>3. ASSUME NEW u \in Miner, Mine(u) PROVE u = t
  <2>1. \E s : task' = [task EXCEPT ![u] = s]
    BY <1>3, Zenon DEF Mine, next_timestamp, compute, take_exact, write_offset, write_last,
      Begin, Become
  <2> QED BY <1>1, <2>1, Zenon DEF TimeTypes
<1>4. Mine(t)
  BY <1>1, <1>2, <1>3, Zenon DEF TimeNext, Tick, time_vars
<1>5. ~next_timestamp(t)
  BY Zenon DEF next_timestamp, Begin, Stamped
<1>6. ~compute(t) /\ ~take_exact(t) /\ ~write_offset(t)
  BY Zenon DEF compute, take_exact, write_offset, Stamped
<1> QED BY <1>4, <1>5, <1>6, Zenon DEF Mine

\* A block that gets its timestamp is later than the one before it.
LEMMA StampIncreases ==
  ASSUME TimeIInv, [TimeNext]_time_vars, NEW t \in Miner, Stamped(t)
  PROVE  prev' > prev
<1> t \in Task BY Zenon DEF Task
<1>1. write_last(t)
  BY StampedLast, Zenon DEF TimeIInv
<1> QED BY <1>1, Zenon DEF write_last, TimeIInv, TimeTypes, UpToDate, Record

\* Under one miner, and resets that do not run while it mines, every block is
\* later than the one before it.
THEOREM AlwaysIncreasing ==
  ASSUME OneMiner, ExclusiveReset
  PROVE  TimeSpec => Increasing
<1>1. TimeIInv /\ [TimeNext]_time_vars => TimeIInv'
  BY TimeNextIInv, Zenon
<1>2. TimeIInv /\ [TimeNext]_time_vars => [\A t \in Miner : Stamped(t) => prev' > prev]_time_vars
  BY StampIncreases, Zenon
<1> QED BY TimeInitIInv, <1>1, <1>2, PTL DEF TimeSpec, Increasing
-----------------------------------------------------------------------------
(* An exact timestamp is used, when operations do not overlap *)

\* Between operations: the timestamp that was set is the one that will be used and
\* is still ahead, and the offset is at least that of the last one.
Quiet ==
  /\ next_exact_timestamp = exact
  /\ exact # None => exact > last_timestamp
  /\ offset >= anchor

\* What the operation in progress, at the record s, has left of this.
Stage(s) ==
  /\ s.pc = "compute" => Quiet /\ s.promise = exact /\ s.last = last_timestamp
  /\ s.pc = "take" => /\ s.promise = exact
                      /\ exact # None => s.next = exact /\ s.offset = s.next - s.current
                      /\ exact = None => s.offset = None /\ offset >= anchor
  /\ s.pc = "offset" => /\ s.promise = exact /\ exact # None
                        /\ next_exact_timestamp = None
                        /\ s.next = exact /\ s.offset = s.next - s.current
  /\ s.pc = "last" => /\ s.promise = exact
                      /\ next_exact_timestamp = None
                      /\ exact # None => s.next = exact /\ offset = s.next - s.current
                      /\ exact = None => offset >= anchor
  /\ s.pc = "replace" => s.next > last_timestamp /\ offset >= anchor
  /\ s.pc = "reset_exact" => offset >= anchor

\* At most one task is in an operation, and it is as far as its record says.
OneByOne ==
  exclusive =>
    /\ \A t, u \in Task : task[t].pc # "free" /\ task[u].pc # "free" => t = u
    /\ Idle => Quiet
    /\ \A t \in Task : task[t].pc # "free" => Stage(task[t])

\* A step of the task in the operation, or of one that begins one, needs to be
\* looked at for this task alone.
LEMMA Alone ==
  ASSUME TimeTypes, OneByOne, exclusive, exclusive', NEW t \in Task, NEW s, Become(t, s),
         task[t].pc # "free" \/ Idle,
         task'[t] = s => IF s.pc = "free" THEN Quiet' ELSE Stage(task[t])'
  PROVE  OneByOne'
<1>1. task'[t] = s /\ \A u \in Task \ {t} : task'[u] = task[u]
  BY Zenon DEF Become, TimeTypes
<1>2. \A u \in Task \ {t} : task[u].pc = "free" /\ task'[u].pc = "free"
  BY <1>1, Zenon DEF OneByOne, Idle
<1>3. Idle' => s.pc = "free"
  BY <1>1, Zenon DEF Idle
<1>4. Idle' => Quiet'
  BY <1>1, <1>3, Zenon
<1>5. \A u \in Task : task'[u].pc # "free" => Stage(task[u])'
  <2> SUFFICES ASSUME NEW u \in Task, task'[u].pc # "free" PROVE Stage(task[u])'
    OBVIOUS
  <2>1. u = t
    BY <1>2, Zenon
  <2> QED BY <1>1, <2>1, Zenon
<1>6. \A u, v \in Task : task'[u].pc # "free" /\ task'[v].pc # "free" => u = v
  BY <1>2, Zenon
<1> QED BY <1>4, <1>5, <1>6, Zenon DEF OneByOne

\* The node is created with no timestamp set.
LEMMA InitOneByOne == TimeInit => OneByOne
<1> SUFFICES ASSUME TimeInit PROVE OneByOne
  OBVIOUS
<1>1. \A t \in Task : task[t].pc = "free"
  BY Zenon DEF TimeInit, Free
<1>2. Quiet
  BY TimeAssumption DEF TimeInit, Quiet, Time
<1> QED BY <1>1, <1>2, Zenon DEF OneByOne

\* What the types say of one task, for the arithmetic on its record.
LEMMA TaskFields ==
  ASSUME TimeTypes, NEW t \in Task
  PROVE  /\ task[t] \in Record
         /\ task[t].current \in Int /\ task[t].last \in Int /\ task[t].next \in Int
         /\ task[t].offset \in Int \cup {None} /\ task[t].promise \in Int \cup {None}
         /\ offset \in Int /\ anchor \in Int /\ last_timestamp \in Int /\ clock \in Int
         /\ exact \in Int \cup {None} /\ next_exact_timestamp \in Int \cup {None}
         /\ None \notin Int
<1>1. task[t] \in Record
  BY Zenon DEF TimeTypes
<1>2. /\ task[t].current \in Int /\ task[t].last \in Int /\ task[t].next \in Int
      /\ task[t].offset \in Int \cup {None} /\ task[t].promise \in Int \cup {None}
  BY <1>1 DEF Record, Time
<1> QED BY <1>1, <1>2, TimeAssumption DEF TimeTypes, TimeTypeOK, Time

\* compute_next_timestamp takes the exact timestamp, which is ahead.
LEMMA ComputeExact ==
  ASSUME TimeTypes, NEW t \in Task, Quiet, task[t].last = last_timestamp
  PROVE  /\ exact # None => computed(task[t]) = exact
                            /\ computed_offset(task[t]) = exact - task[t].current
         /\ exact = None => computed_offset(task[t]) = None
<1>1. exact # None => computed(task[t]) = exact
  BY TaskFields DEF Quiet, computed, always_increasing
<1> QED BY <1>1, Zenon DEF Quiet, computed_offset

\* A step of next_timestamp.
LEMMA MineOneByOne ==
  ASSUME TimeTypes, OneByOne, exclusive, exclusive', NEW t \in Task, Mine(t)
  PROVE  OneByOne'
<1>t. task \in [Task -> Record] /\ task[t] \in Record
  BY Zenon DEF TimeTypes
<1>1. CASE next_timestamp(t)
  <2> DEFINE s == [Free EXCEPT !.pc = "compute", !.current = clock, !.last = last_timestamp,
                               !.promise = exact]
  <2>1. Become(t, s) /\ Idle /\ UNCHANGED <<fields, history>>
    BY <1>1, Zenon DEF next_timestamp, Begin
  <2>2. s.pc = "compute" /\ s.last = last_timestamp /\ s.promise = exact
    BY Zenon DEF Free
  <2> HIDE DEF s
  <2>3. Quiet'
    BY <2>1, Zenon DEF OneByOne, Quiet, fields, history
  <2>4. task'[t] = s => Stage(task[t])'
    BY <2>1, <2>2, <2>3, Zenon DEF Stage, fields, history
  <2> QED BY <2>1, <2>2, <2>4, Alone, Zenon
<1>2. CASE compute(t)
  <2> DEFINE s == [task[t] EXCEPT !.pc = "take", !.next = computed(task[t]),
                                  !.offset = computed_offset(task[t])]
  <2>1. Become(t, s) /\ task[t].pc = "compute" /\ UNCHANGED <<fields, history>>
    BY <1>2, Zenon DEF compute
  <2>2. /\ s.pc = "take" /\ s.next = computed(task[t]) /\ s.promise = task[t].promise
        /\ s.offset = computed_offset(task[t]) /\ s.current = task[t].current
    BY <1>t, Zenon DEF Record
  <2> HIDE DEF s
  <2>3. Quiet /\ task[t].promise = exact /\ task[t].last = last_timestamp
    BY <2>1, Zenon DEF OneByOne, Stage
  <2>4. /\ exact # None => s.next = exact /\ s.offset = exact - task[t].current
        /\ exact = None => s.offset = None
    BY <2>2, <2>3, ComputeExact, Zenon
  <2>5. task'[t] = s => Stage(task[t])'
    BY <2>1, <2>2, <2>3, <2>4, Zenon DEF Quiet, Stage, fields, history
  <2> QED BY <2>1, <2>2, <2>5, Alone, Zenon
<1>3. CASE take_exact(t)
  <2> DEFINE s == [task[t] EXCEPT !.pc = IF task[t].offset = None THEN "last" ELSE "offset"]
  <2>1. /\ Become(t, s) /\ task[t].pc = "take" /\ UNCHANGED <<offset, exact, anchor>>
        /\ next_exact_timestamp' = None
    BY <1>3, Zenon DEF take_exact, history
  <2>2. /\ s.pc = IF task[t].offset = None THEN "last" ELSE "offset"
        /\ s.next = task[t].next /\ s.promise = task[t].promise
        /\ s.offset = task[t].offset /\ s.current = task[t].current
    BY <1>t, Zenon DEF Record
  <2> HIDE DEF s
  <2>3. Stage(task[t])
    BY <2>1, Zenon DEF OneByOne
  <2>4. exact # None => task[t].offset # None
    BY <2>1, <2>3, TaskFields DEF Stage
  <2>5. task'[t] = s => Stage(task[t])'
    BY <2>1, <2>2, <2>3, <2>4, Zenon DEF Stage
  <2> QED BY <2>1, <2>2, <2>5, Alone, Zenon
<1>4. CASE write_offset(t)
  <2> DEFINE s == [task[t] EXCEPT !.pc = "last"]
  <2>1. /\ Become(t, s) /\ task[t].pc = "offset" /\ UNCHANGED <<exact, next_exact_timestamp>>
        /\ offset' = task[t].offset
    BY <1>4, Zenon DEF write_offset, history
  <2>2. /\ s.pc = "last" /\ s.next = task[t].next /\ s.promise = task[t].promise
        /\ s.current = task[t].current
    BY <1>t, Zenon DEF Record
  <2> HIDE DEF s
  <2>3. Stage(task[t])
    BY <2>1, Zenon DEF OneByOne
  <2>4. task'[t] = s => Stage(task[t])'
    BY <2>1, <2>2, <2>3, Zenon DEF Stage
  <2> QED BY <2>1, <2>2, <2>4, Alone, Zenon
<1>5. CASE write_last(t)
  <2>1. Become(t, Free) /\ task[t].pc = "last" /\ UNCHANGED <<offset, next_exact_timestamp>>
    BY <1>5, Zenon DEF write_last
  <2>2. Stage(task[t])
    BY <2>1, Zenon DEF OneByOne
  <2>3. exact' = None
    BY <1>5, <2>1, <2>2, Zenon DEF write_last, Stage
  <2>4. offset' >= anchor'
    BY <1>5, <2>1, <2>2, TaskFields DEF write_last, Stage
  <2>5. Quiet'
    BY <2>1, <2>2, <2>3, <2>4, Zenon DEF Quiet, Stage
  <2>6. Free.pc = "free"
    BY Zenon DEF Free
  <2> QED BY <2>1, <2>5, <2>6, Alone, Zenon
<1> QED BY <1>1, <1>2, <1>3, <1>4, <1>5, Zenon DEF Mine

\* A step of a handler.
LEMMA HandleOneByOne ==
  ASSUME TimeTypes, OneByOne, exclusive, exclusive', NEW t \in Task, Handle(t)
  PROVE  OneByOne'
<1>t. task \in [Task -> Record] /\ task[t] \in Record /\ Free.pc = "free"
  BY Zenon DEF TimeTypes, Free
<1>1. ASSUME NEW n \in Time, set_next_block_timestamp(t, n) PROVE OneByOne'
  <2> DEFINE s == [Free EXCEPT !.pc = "replace", !.next = n]
  <2>1. Become(t, s) /\ Idle /\ UNCHANGED <<fields, history>> /\ ~(n <= last_timestamp)
    BY <1>1, Zenon DEF set_next_block_timestamp, Begin, too_early
  <2>2. s.pc = "replace" /\ s.next = n
    BY Zenon DEF Free
  <2> HIDE DEF s
  <2>3. Quiet /\ n \in Int /\ last_timestamp \in Int
    BY <2>1, TaskFields DEF OneByOne, Time
  <2>4. task'[t] = s => Stage(task[t])'
    BY <2>1, <2>2, <2>3 DEF Quiet, Stage, fields, history
  <2> QED BY <2>1, <2>2, <2>4, Alone, Zenon
<1>2. CASE replace_exact(t)
  <2>1. Become(t, Free) /\ task[t].pc = "replace" /\ UNCHANGED <<offset, anchor, last_timestamp>>
    BY <1>2, Zenon DEF replace_exact
  <2>2. Stage(task[t])
    BY <2>1, Zenon DEF OneByOne
  <2>3. Quiet'
    BY <1>2, <2>1, <2>2, Zenon DEF replace_exact, Quiet, Stage
  <2> QED BY <1>t, <2>1, <2>3, Alone, Zenon
<1>3. ASSUME NEW n \in 1..2,
             increase_time(t, n) \/ set_block_timestamp_interval(t, n)
               \/ remove_block_timestamp_interval(t)
      PROVE  OneByOne'
  <2>1. /\ Become(t, Free) /\ Idle
        /\ UNCHANGED <<exact, next_exact_timestamp, last_timestamp, anchor>>
        /\ offset' = offset + n \/ offset' = offset
    BY <1>3, Zenon DEF increase_time, set_block_timestamp_interval,
      remove_block_timestamp_interval, Begin, history
  <2>2. Quiet
    BY <2>1, Zenon DEF OneByOne
  <2>3. Quiet'
    BY <2>1, <2>2, TaskFields DEF Quiet
  <2> QED BY <1>t, <2>1, <2>3, Alone, Zenon
<1>4. ASSUME NEW n \in Start, reset(t, n) PROVE OneByOne'
  <2> DEFINE s == [Free EXCEPT !.pc = "reset_offset", !.current = clock, !.next = n]
  <2>1. Become(t, s) /\ Idle
    BY <1>4, Zenon DEF reset, Begin
  <2>2. s.pc = "reset_offset"
    BY Zenon DEF Free
  <2> HIDE DEF s
  <2>3. task'[t] = s => Stage(task[t])'
    BY <2>2, Zenon DEF Stage
  <2> QED BY <2>1, <2>2, <2>3, Alone, Zenon
<1>5. CASE reset_offset(t)
  <2> DEFINE s == [task[t] EXCEPT !.pc = "reset_exact"]
  <2>1. Become(t, s) /\ task[t].pc = "reset_offset" /\ offset' = anchor' /\ offset' \in Int
    BY <1>5, TaskFields DEF reset_offset
  <2>2. s.pc = "reset_exact"
    BY <1>t, Zenon DEF Record
  <2> HIDE DEF s
  <2>3. task'[t] = s => Stage(task[t])'
    BY <2>1, <2>2 DEF Stage
  <2> QED BY <2>1, <2>2, <2>3, Alone, Zenon
<1>6. CASE reset_exact(t)
  <2>1. /\ Become(t, Free) /\ task[t].pc = "reset_exact" /\ UNCHANGED <<offset, anchor>>
        /\ next_exact_timestamp' = None /\ exact' = None
    BY <1>6, Zenon DEF reset_exact
  <2>2. offset >= anchor
    BY <2>1, Zenon DEF OneByOne, Stage
  <2> QED BY <1>t, <2>1, <2>2, Alone, Zenon DEF Quiet
<1> QED
  BY <1>1, <1>2, <1>3, <1>4, <1>5, <1>6 DEF Handle

\* Every step keeps the invariant.
LEMMA NextOneByOne ==
  ASSUME TimeTypes, OneByOne, [TimeNext]_time_vars
  PROVE  OneByOne'
<1>1. UNCHANGED exclusive
  BY Zenon DEF TimeNext, time_vars
<1>2. CASE ~exclusive
  BY <1>1, <1>2, Zenon DEF OneByOne
<1>3. CASE exclusive /\ (UNCHANGED time_vars \/ Tick)
  <2>1. UNCHANGED <<exclusive, fields, task, history>>
    BY <1>1, <1>3, Zenon DEF time_vars, Tick
  <2> QED BY <2>1, ZenonT(60) DEF OneByOne, Idle, Quiet, Stage, fields, history
<1>4. ASSUME exclusive, NEW t \in Miner, Mine(t) PROVE OneByOne'
  BY <1>1, <1>4, MineOneByOne, Zenon DEF Task
<1>5. ASSUME exclusive, NEW t \in Handler, Handle(t) PROVE OneByOne'
  BY <1>1, <1>5, HandleOneByOne, Zenon DEF Task
<1> QED BY <1>2, <1>3, <1>4, <1>5, Zenon DEF TimeNext

\* The block after a timestamp was set has it.
LEMMA StampExact ==
  ASSUME TimeTypes, OneByOne, exclusive, [TimeNext]_time_vars, NEW t \in Miner, Stamped(t), exact # None
  PROVE  prev' = exact
<1> t \in Task BY Zenon DEF Task
<1>1. write_last(t)
  BY StampedLast, Zenon
<1>2. task[t].pc = "last" /\ prev' = task[t].next
  BY <1>1, Zenon DEF write_last
<1> QED BY <1>2, Zenon DEF OneByOne, Stage

\* When operations do not overlap, the block that follows evm_setNextBlockTimestamp
\* has the timestamp that was set, whatever offset and interval are set, and the
\* offset goes on from it, for any miners and handlers.
THEOREM AlwaysExact == TimeSpec => ExactUsed
<1>1. TimeInit => TimeTypes /\ OneByOne
  BY TimeInitTypes, InitOneByOne, Zenon
<1>2. TimeTypes /\ OneByOne /\ [TimeNext]_time_vars => TimeTypes' /\ OneByOne'
  BY TimeNextTypes, NextOneByOne, Zenon
<1>3. ASSUME TimeTypes, OneByOne, TimeTypes', OneByOne', [TimeNext]_time_vars
      PROVE  exclusive =>
               /\ \A t \in Miner : (Stamped(t) /\ task[t].promise # None /\ exact # None) =>
                    prev' \in {task[t].promise, exact}
               /\ Idle' => offset' >= anchor'
  <2> SUFFICES ASSUME exclusive
               PROVE  /\ \A t \in Miner : (Stamped(t) /\ exact # None) => prev' = exact
                      /\ Idle' => offset' >= anchor'
    OBVIOUS
  <2>1. \A t \in Miner : (Stamped(t) /\ exact # None) => prev' = exact
    BY <1>3, StampExact, Zenon
  <2>2. UNCHANGED exclusive
    BY <1>3, Zenon DEF TimeNext, time_vars
  <2>3. Idle' => offset' >= anchor'
    BY <1>3, <2>2, Zenon DEF OneByOne, Quiet
  <2> QED BY <2>1, <2>3, Zenon
<1> QED BY <1>1, <1>2, <1>3, PTL DEF TimeSpec, ExactUsed

-----------------------------------------------------------------------------
(* The states of historic blocks *)

\* The first loop leaves room for one state, and an insertion that has begun is
\* within the bound on insertions.
StatesIInv ==
  /\ StatesTypeOK
  /\ Bounded
  /\ min_in_memory_limit <= MinHistoryLimit
  /\ pc = "disk" => Len(present) < in_memory_limit
  /\ (pc # "idle" /\ arg # None) => count < MaxInserts

-----------------------------------------------------------------------------
\* Popping the front of a queue loses no other entry.
LEMMA EntriesTail ==
  ASSUME NEW S, NEW q \in Seq(S), q # <<>>
  PROVE  /\ Head(q) \in S
         /\ Tail(q) \in Seq(S)
         /\ Len(Tail(q)) = Len(q) - 1
         /\ Entries(q) \ {Head(q)} \subseteq Entries(Tail(q))
<1>1. /\ Head(q) \in S
      /\ Tail(q) \in Seq(S)
      /\ Len(Tail(q)) = Len(q) - 1
  OBVIOUS
<1>2. ASSUME NEW i \in 1..Len(q), q[i] # Head(q)
      PROVE  q[i] \in Entries(Tail(q))
  <2>1. i # 1
    BY <1>2
  <2>2. i - 1 \in 1..Len(Tail(q)) /\ Tail(q)[i - 1] = q[i]
    BY <1>1, <2>1
  <2> QED
    BY <2>2, Zenon DEF Entries
<1> QED
  BY <1>1, <1>2, Zenon DEF Entries

\* Pushing adds the entry and keeps the others.
LEMMA EntriesAppend ==
  ASSUME NEW S, NEW q \in Seq(S), NEW x \in S
  PROVE  /\ Append(q, x) \in Seq(S)
         /\ Len(Append(q, x)) = Len(q) + 1
         /\ Entries(q) \cup {x} \subseteq Entries(Append(q, x))
<1>1. /\ Append(q, x) \in Seq(S)
      /\ Len(Append(q, x)) = Len(q) + 1
      /\ Append(q, x)[Len(q) + 1] = x
      /\ \A i \in 1..Len(q) : Append(q, x)[i] = q[i]
  OBVIOUS
<1>2. Len(q) \in Nat
  OBVIOUS
<1>3. x \in Entries(Append(q, x))
  BY <1>1, <1>2 DEF Entries
<1>4. ASSUME NEW i \in 1..Len(q)
      PROVE  q[i] \in Entries(Append(q, x))
  <2>1. i \in 1..Len(Append(q, x))
    BY <1>1, <1>2
  <2> QED
    BY <1>1, <2>1, Zenon DEF Entries
<1> QED
  BY <1>1, <1>3, <1>4, Zenon DEF Entries

-----------------------------------------------------------------------------
\* The empty structure has the invariant, for every configured limit.
LEMMA StatesInitIInv == StatesInit => StatesIInv
<1> SUFFICES ASSUME StatesInit
             PROVE  StatesIInv
  OBVIOUS
<1> USE BlockStatesAssumption
<1>1. in_memory_limit \in Nat /\ max_on_disk_limit \in Nat
  BY Zenon DEF StatesInit
<1>2. min_in_memory_limit \in 0..in_memory_limit /\ min_in_memory_limit <= MinHistoryLimit
  BY <1>1 DEF StatesInit
<1>3. StatesTypeOK
  BY <1>1, <1>2 DEF StatesInit, StatesTypeOK, Ordinal
<1>4. Bounded
  BY <1>1 DEF StatesInit, Bounded, in_memory, Entries, is_memory_only
<1> QED
  BY <1>2, <1>3, <1>4, Zenon DEF StatesIInv, StatesInit

\* insert first lowers the limit, never below the minimum.
LEMMA InsertIInv ==
  ASSUME StatesIInv, NEW h \in Hash, insert(h)
  PROVE  StatesIInv'
<1> USE BlockStatesAssumption
<1>1. in_memory_limit' \in Nat /\ min_in_memory_limit' \in 0..in_memory_limit'
  BY DEF StatesIInv, StatesTypeOK, insert, decreased_limit, limit_vars
<1>2. StatesTypeOK'
  BY <1>1, Zenon DEF StatesIInv, StatesTypeOK, insert, limit_vars, disk_vars
<1>3. Bounded'
  BY DEF StatesIInv, Bounded, insert, disk_vars, in_memory, Entries
<1> QED
  BY <1>2, <1>3, Zenon DEF StatesIInv, insert, limit_vars

\* The limit of interval mining is not below the minimum.
LEMMA IntervalIInv ==
  ASSUME StatesIInv, update_interval_mine_block_time
  PROVE  StatesIInv'
<1> USE BlockStatesAssumption
<1>1. in_memory_limit' \in Nat /\ min_in_memory_limit' \in 0..in_memory_limit'
  BY DEF StatesIInv, StatesTypeOK, update_interval_mine_block_time, limit_vars
<1>2. StatesTypeOK'
  BY <1>1, Zenon DEF StatesIInv, StatesTypeOK, update_interval_mine_block_time, limit_vars, disk_vars
<1>3. Bounded'
  BY DEF StatesIInv, Bounded, update_interval_mine_block_time, disk_vars, in_memory, Entries
<1> QED
  BY <1>2, <1>3, Zenon DEF StatesIInv, update_interval_mine_block_time, limit_vars

\* The evicted state leaves the queue and the memory together, and is queued on
\* disk when it is moved there.
LEMMA PopIInv ==
  ASSUME StatesIInv, pc = "memory", present # <<>>, pop_front
  PROVE  StatesIInv'
<1> DEFINE h == Head(present)
<1>1. /\ h \in Hash
      /\ present' \in Seq(Hash)
      /\ Entries(present) \ {h} \subseteq Entries(present')
  BY EntriesTail, Zenon DEF StatesIInv, StatesTypeOK, pop_front
<1>2. states' = [states EXCEPT ![h] = None]
  BY Zenon DEF pop_front
<1>3. in_memory' \subseteq Entries(present')
  BY <1>1, <1>2, Zenon DEF StatesIInv, StatesTypeOK, Bounded, in_memory
<1>4. /\ writes' \subseteq Hash \X Ordinal
      /\ oldest_on_disk' \in Seq(Hash)
      /\ on_disk_states' \subseteq Hash
      /\ loaded' \subseteq on_disk_states'
      /\ on_disk_states' \subseteq Entries(oldest_on_disk')
  <2>1. CASE moves_to_disk(h)
    <3>1. /\ writes' = writes \cup {<<h, states[h]>>}
          /\ on_disk_states' = on_disk_states \cup {h}
          /\ loaded' = loaded \ {h}
          /\ oldest_on_disk' = Append(oldest_on_disk, h)
      BY <2>1, Zenon DEF pop_front
    <3>2. states[h] \in Ordinal
      BY <1>1, <2>1, Zenon DEF StatesIInv, StatesTypeOK, moves_to_disk
    <3>3. /\ oldest_on_disk' \in Seq(Hash)
          /\ Entries(oldest_on_disk) \cup {h} \subseteq Entries(oldest_on_disk')
      BY <1>1, <3>1, EntriesAppend, Zenon DEF StatesIInv, StatesTypeOK
    <3> QED
      BY <1>1, <3>1, <3>2, <3>3 DEF StatesIInv, StatesTypeOK, Bounded
  <2>2. CASE ~moves_to_disk(h)
    <3>1. UNCHANGED <<writes, on_disk_states, loaded, oldest_on_disk>>
      BY <2>2, Zenon DEF pop_front
    <3> QED
      BY <3>1, ZenonT(60) DEF StatesIInv, StatesTypeOK, Bounded, Entries
  <2> QED
    BY <2>1, <2>2, Zenon
<1>5. states' \in [Hash -> Ordinal \cup {None}]
  BY <1>1, <1>2, Zenon DEF StatesIInv, StatesTypeOK
<1>6. /\ pc = "memory"
      /\ UNCHANGED <<in_memory_limit, min_in_memory_limit, max_on_disk_limit, files, pc, arg,
                     count, last, cleared>>
  BY Zenon DEF pop_front, limit_vars
<1>7. StatesTypeOK'
  BY <1>1, <1>4, <1>5, <1>6, Zenon DEF StatesIInv, StatesTypeOK
<1>8. Bounded'
  BY <1>3, <1>4, <1>6, Zenon DEF Bounded
<1> QED
  BY <1>6, <1>7, <1>8, Zenon DEF StatesIInv

\* A step that changes nothing, such as an iteration on an empty queue.
LEMMA StatesStutterIInv ==
  ASSUME StatesIInv, UNCHANGED states_vars
  PROVE  StatesIInv'
<1>1. StatesTypeOK'
  BY Zenon DEF StatesIInv, StatesTypeOK, states_vars, disk_vars, limit_vars
<1>2. Bounded'
  BY DEF StatesIInv, Bounded, states_vars, disk_vars, limit_vars, in_memory, Entries, is_memory_only
<1> QED
  BY <1>1, <1>2, Zenon DEF StatesIInv, states_vars, limit_vars

\* An iteration of the first loop.
LEMMA EvictIInv ==
  ASSUME StatesIInv, evict
  PROVE  StatesIInv'
BY PopIInv, StatesStutterIInv, Zenon DEF evict

\* The first loop of enforce_limits ends below the limit.
LEMMA MemoryEnforcedIInv ==
  ASSUME StatesIInv, memory_enforced
  PROVE  StatesIInv'
<1>1. StatesTypeOK'
  BY Zenon DEF StatesIInv, StatesTypeOK, memory_enforced, limit_vars, disk_vars
<1>2. Bounded'
  BY ZenonT(60) DEF StatesIInv, Bounded, memory_enforced, disk_vars, in_memory, Entries
<1>3. Len(present') < in_memory_limit'
  BY DEF StatesIInv, StatesTypeOK, memory_enforced, over_memory_limit
<1>4. /\ pc = "memory"
      /\ pc' = "disk"
      /\ UNCHANGED <<arg, count, min_in_memory_limit>>
  BY Zenon DEF memory_enforced, limit_vars
<1> QED
  BY <1>1, <1>2, <1>3, <1>4, Zenon DEF StatesIInv

\* The purged state leaves its queue and on_disk_states together.
LEMMA PurgeIInv ==
  ASSUME StatesIInv, purge
  PROVE  StatesIInv'
<1>1. /\ UNCHANGED <<states, in_memory_limit, min_in_memory_limit, max_on_disk_limit, present,
                     writes, pc, arg, count, last, cleared>>
      /\ pc = "disk"
      /\ on_disk_states' = on_disk_states \ {purged}
      /\ loaded' = loaded \ {purged}
      /\ oldest_on_disk' = Tail(oldest_on_disk)
      /\ files' = [files EXCEPT ![purged] = None]
  BY Zenon DEF purge, limit_vars
<1>2. oldest_on_disk # <<>>
  BY DEF StatesIInv, StatesTypeOK, purge, over_disk_limit, is_memory_only
<1>3. /\ oldest_on_disk' \in Seq(Hash)
      /\ Entries(oldest_on_disk) \ {purged} \subseteq Entries(oldest_on_disk')
  BY <1>1, <1>2, EntriesTail, Zenon DEF StatesIInv, StatesTypeOK, purged
<1>4. StatesTypeOK'
  BY <1>1, <1>3, Zenon DEF StatesIInv, StatesTypeOK
<1>5. in_memory' = in_memory /\ Entries(present') = Entries(present)
  BY <1>1, Zenon DEF in_memory, Entries
<1>6. on_disk_states' \subseteq Entries(oldest_on_disk')
  BY <1>1, <1>3, Zenon DEF StatesIInv, Bounded
<1>7. Bounded'
  BY <1>1, <1>5, <1>6, Zenon DEF StatesIInv, Bounded
<1> QED
  BY <1>1, <1>4, <1>7, Zenon DEF StatesIInv

\* There is room for the state that is inserted.
LEMMA DiskEnforcedIInv ==
  ASSUME StatesIInv, disk_enforced
  PROVE  StatesIInv'
<1>1. /\ UNCHANGED <<on_disk_states, loaded, oldest_on_disk, files, in_memory_limit,
                     min_in_memory_limit, max_on_disk_limit, writes, arg, cleared>>
      /\ pc = "disk"
      /\ pc' = "idle"
      /\ ~over_disk_limit
  BY Zenon DEF disk_enforced, disk_vars, limit_vars
<1>2. is_memory_only' \/ Len(oldest_on_disk') < max_on_disk_limit'
  BY <1>1 DEF StatesIInv, StatesTypeOK, over_disk_limit, is_memory_only
<1>3. CASE arg = None
  <2>1. UNCHANGED <<states, present, count, last>>
    BY <1>3, Zenon DEF disk_enforced
  <2>2. StatesTypeOK'
    BY <1>1, <2>1, Zenon DEF StatesIInv, StatesTypeOK
  <2>3. Bounded'
    BY <1>1, <1>2, <2>1 DEF StatesIInv, StatesTypeOK, Bounded, in_memory, Entries
  <2> QED
    BY <1>1, <2>2, <2>3, Zenon DEF StatesIInv
<1>4. CASE arg # None
  <2>1. /\ states' = [states EXCEPT ![arg] = count + 1]
        /\ present' = Append(present, arg)
        /\ count' = count + 1
        /\ last' = [last EXCEPT ![arg] = count + 1]
    BY <1>4, Zenon DEF disk_enforced
  <2>2. arg \in Hash
    BY <1>4, Zenon DEF StatesIInv, StatesTypeOK
  <2>3. /\ present' \in Seq(Hash)
        /\ Len(present') = Len(present) + 1
        /\ Entries(present) \cup {arg} \subseteq Entries(present')
    BY <2>1, <2>2, EntriesAppend, Zenon DEF StatesIInv, StatesTypeOK
  <2>4. count + 1 \in Ordinal
    BY <1>1, <1>4, BlockStatesAssumption DEF StatesIInv, StatesTypeOK, Ordinal
  <2>5. StatesTypeOK'
    BY <1>1, <2>1, <2>2, <2>3, <2>4, BlockStatesAssumption DEF StatesIInv, StatesTypeOK, Ordinal
  <2>6. in_memory' \subseteq Entries(present')
    BY <2>1, <2>2, <2>3, Zenon DEF StatesIInv, StatesTypeOK, Bounded, in_memory
  <2>7. Len(present') <= in_memory_limit'
    BY <1>1, <2>3 DEF StatesIInv, StatesTypeOK
  <2>8. Bounded'
    BY <1>1, <1>2, <2>6, <2>7, Zenon DEF StatesIInv, Bounded, Entries
  <2> QED
    BY <1>1, <2>5, <2>8, Zenon DEF StatesIInv
<1> QED
  BY <1>3, <1>4, Zenon

\* The write tasks touch only files.
LEMMA WriteIInv ==
  ASSUME StatesIInv, NEW w \in writes, write_file(w[1], w[2])
  PROVE  StatesIInv'
<1>1. w[1] \in Hash /\ w[2] \in Ordinal
  BY Zenon DEF StatesIInv, StatesTypeOK
<1>2. /\ files' = [files EXCEPT ![w[1]] = w[2]]
      /\ writes' \subseteq writes
      /\ UNCHANGED <<states, on_disk_states, loaded, oldest_on_disk, in_memory_limit,
                     min_in_memory_limit, max_on_disk_limit, present, pc, arg, count, last, cleared>>
  BY Zenon DEF write_file, written, limit_vars
<1>3. StatesTypeOK'
  BY <1>1, <1>2, Zenon DEF StatesIInv, StatesTypeOK
<1>4. Bounded'
  BY <1>2 DEF StatesIInv, Bounded, in_memory, Entries, is_memory_only
<1> QED
  BY <1>2, <1>3, <1>4, Zenon DEF StatesIInv

\* get moves nothing between the queues.
LEMMA GetIInv ==
  ASSUME StatesIInv, NEW h \in Hash, get(h)
  PROVE  StatesIInv'
<1>1. StatesTypeOK'
  BY Zenon DEF StatesIInv, StatesTypeOK, get, limit_vars
<1>2. Bounded'
  BY DEF StatesIInv, Bounded, get, limit_vars, in_memory, Entries, is_memory_only
<1> QED
  BY <1>1, <1>2, Zenon DEF StatesIInv, get, limit_vars

\* clear empties the queues with the maps.
LEMMA ClearIInv ==
  ASSUME StatesIInv, clear
  PROVE  StatesIInv'
<1> USE BlockStatesAssumption
<1>1. StatesTypeOK'
  BY DEF StatesIInv, StatesTypeOK, clear, limit_vars
<1>2. /\ in_memory' = {}
      /\ on_disk_states' = {}
      /\ Len(present') = 0
      /\ Len(oldest_on_disk') = 0
      /\ UNCHANGED <<in_memory_limit, max_on_disk_limit>>
  BY Zenon DEF clear, in_memory, limit_vars
<1>3. Bounded'
  BY <1>2 DEF StatesIInv, StatesTypeOK, Bounded, is_memory_only
<1> QED
  BY <1>1, <1>3, Zenon DEF StatesIInv, clear, limit_vars

\* Every operation, loop iteration and write task keeps the invariant.
LEMMA StatesNextIInv == StatesIInv /\ [StatesNext]_states_vars => StatesIInv'
<1> SUFFICES ASSUME StatesIInv, [StatesNext]_states_vars
             PROVE  StatesIInv'
  OBVIOUS
<1>1. CASE UNCHANGED states_vars
  BY <1>1, StatesStutterIInv, Zenon
<1>2. CASE \E h \in Hash : insert(h) \/ get(h)
  BY <1>2, InsertIInv, GetIInv, Zenon
<1>3. CASE update_interval_mine_block_time
  BY <1>3, IntervalIInv, Zenon
<1>4. CASE Enforce
  BY <1>4, EvictIInv, MemoryEnforcedIInv, PurgeIInv, DiskEnforcedIInv, Zenon DEF Enforce
<1>5. CASE clear
  BY <1>5, ClearIInv, Zenon
<1>6. CASE \E w \in writes : write_file(w[1], w[2])
  BY <1>6, WriteIInv, Zenon
<1> QED
  BY <1>1, <1>2, <1>3, <1>4, <1>5, <1>6, Zenon DEF StatesNext

\* The fields of InMemoryBlockStates keep their types; no limit underflows.
THEOREM StatesTypeCorrect == StatesSpec => []StatesTypeOK
<1>1. StatesIInv => StatesTypeOK
  BY Zenon DEF StatesIInv
<1> QED
  BY StatesInitIInv, StatesNextIInv, <1>1, PTL DEF StatesSpec

\* The memory and disk limits hold for every history of insertions, reads,
\* interval changes and clears, also when a block is built on repeatedly, and
\* every state kept is still queued for eviction.
THEOREM AlwaysBounded == StatesSpec => []Bounded
<1>1. StatesIInv => Bounded
  BY Zenon DEF StatesIInv
<1> QED
  BY StatesInitIInv, StatesNextIInv, <1>1, PTL DEF StatesSpec
-----------------------------------------------------------------------------
(***************************************************************************)
(* Which states are kept, when no block is built on twice.  Blocks then    *)
(* enter the queues in the order of their names, so the two queues hold    *)
(* the newest blocks without a gap, the disk those before the memory's.    *)
(***************************************************************************)

\* The states in memory and on disk.
queued == Len(present) + Len(oldest_on_disk)

\* Blocks were inserted in the order of their names.
InOrder ==
  /\ \A h \in Hash : last[h] = IF h <= count THEN h ELSE None
  /\ (pc # "idle" /\ arg # None) => arg = count + 1

\* The queues hold consecutive blocks up to the newest.
Consecutive ==
  /\ \A i \in 1..Len(present) : present[i] = count - Len(present) + i
  /\ \A i \in 1..Len(oldest_on_disk) : oldest_on_disk[i] = count - queued + i

\* The maps hold the states of exactly the blocks in the queues.
Held ==
  /\ \A h \in Hash : states[h] # None <=> count - Len(present) < h /\ h <= count
  /\ \A h \in Hash : h \in on_disk_states <=> count - queued < h /\ h <= count - Len(present)

\* The memory is full when something is on disk, and both are full when
\* something was given up since the last clear.
Filled ==
  /\ is_memory_only => Len(oldest_on_disk) = 0
  /\ queued <= count - cleared
  /\ Len(oldest_on_disk) > 0 => Len(present) >= min_in_memory_limit - 1
  /\ \/ queued = count - cleared
     \/ /\ Len(present) >= min_in_memory_limit - 1
        /\ is_memory_only \/ Len(oldest_on_disk) >= max_on_disk_limit - 1

Queues == InOrder /\ Consecutive /\ Held /\ Filled

\* The lengths and counters are natural numbers.
LEMMA QueueTypes ==
  ASSUME StatesTypeOK
  PROVE  /\ Len(present) \in Nat /\ Len(oldest_on_disk) \in Nat /\ queued \in Nat
         /\ count \in Nat /\ cleared \in Nat /\ cleared <= count
         /\ in_memory_limit \in Nat /\ min_in_memory_limit \in Nat /\ max_on_disk_limit \in Nat
         /\ min_in_memory_limit <= in_memory_limit
         /\ MaxInserts \in Nat /\ count <= MaxInserts
<1>1. Len(present) \in Nat /\ Len(oldest_on_disk) \in Nat
  BY DEF StatesTypeOK
<1> QED
  BY <1>1, BlockStatesAssumption DEF StatesTypeOK, queued

\* The block that is built on next is the one after the newest.
LEMMA FreshNext ==
  ASSUME StatesTypeOK, InOrder
  PROVE  Fresh = count + 1
<1>1. {h \in Hash : last[h] # None} = 1..count
  BY QueueTypes, BlockStatesAssumption DEF InOrder, Hash
<1>2. count \in Int /\ 1 \in Int /\ count >= 0
  BY QueueTypes
<1>3. Cardinality(1..count) = IF 1 > count THEN 0 ELSE count - 1 + 1
  BY <1>2, FS_Interval, Zenon
<1>4. Fresh = 1 + Cardinality(1..count)
  BY <1>1, Zenon DEF Fresh
<1> QED
  BY <1>2, <1>3, <1>4

\* The empty structure has the invariant.
LEMMA InitQueues == StatesInit => Queues
<1> SUFFICES ASSUME StatesInit
             PROVE  Queues
  OBVIOUS
<1>1. /\ Len(present) = 0 /\ Len(oldest_on_disk) = 0 /\ count = 0 /\ cleared = 0
      /\ pc = "idle" /\ on_disk_states = {}
  BY Zenon DEF StatesInit
<1>2. \A h \in Hash : last[h] = None /\ states[h] = None /\ ~(h <= 0)
  BY DEF StatesInit, Hash
<1> QED
  BY <1>1, <1>2 DEF Queues, InOrder, Consecutive, Held, Filled, queued

\* insert and update_interval_mine_block_time only change the limit.
LEMMA BeginQueues ==
  ASSUME StatesTypeOK, Queues, Reinsert = FALSE,
         (\E h \in Hash : insert(h)) \/ update_interval_mine_block_time
  PROVE  Queues'
<1>1. UNCHANGED <<states, on_disk_states, oldest_on_disk, min_in_memory_limit,
                  max_on_disk_limit, present, count, last, cleared>>
  BY Zenon DEF insert, update_interval_mine_block_time, disk_vars, limit_vars
<1>2. arg' \in {None, Fresh}
  BY Zenon DEF insert, update_interval_mine_block_time
<1>3. arg' # None => arg' = count' + 1
  BY <1>1, <1>2, FreshNext, Zenon DEF Queues
<1> QED
  BY <1>1, <1>3, Zenon DEF Queues, InOrder, Consecutive, Held, Filled, queued, is_memory_only

\* The state evicted from the memory is the oldest there, and the newest on disk.
LEMMA PopQueues ==
  ASSUME StatesTypeOK, Queues, pc = "memory", over_memory_limit, present # <<>>, pop_front
  PROVE  Queues'
<1> DEFINE h == Head(present)
           p == Len(present)
           d == Len(oldest_on_disk)
<1>0. /\ present \in Seq(Hash) /\ oldest_on_disk \in Seq(Hash)
      /\ states \in [Hash -> Ordinal \cup {None}]
      /\ p \in Nat /\ d \in Nat /\ count \in Nat /\ cleared \in Nat
      /\ min_in_memory_limit \in Nat /\ max_on_disk_limit \in Nat /\ p >= min_in_memory_limit
  BY QueueTypes DEF StatesTypeOK, over_memory_limit
<1>1. p > 0 /\ h \in Hash /\ h = count - p + 1
  <2>1. p > 0 /\ h = present[1] /\ h \in Hash
    BY <1>0
  <2> QED BY <1>0, <2>1 DEF Queues, Consecutive
<1>2. /\ Len(present') = p - 1
      /\ \A i \in 1..p - 1 : present'[i] = present[i + 1]
  BY <1>0, <1>1 DEF pop_front
<1>3. UNCHANGED <<min_in_memory_limit, max_on_disk_limit, pc, arg, count, last, cleared>>
  BY Zenon DEF pop_front, limit_vars
<1>4. \A i \in 1..Len(present') : present'[i] = count' - Len(present') + i
  BY <1>0, <1>2, <1>3 DEF Queues, Consecutive
<1>5. \A g \in Hash : g \in Nat
  BY DEF Hash
<1>6. ASSUME NEW g \in Hash
      PROVE  states'[g] # None <=> count' - Len(present') < g /\ g <= count'
  <2>1. states'[g] = IF g = h THEN None ELSE states[g]
    BY <1>0, <1>1, Zenon DEF pop_front
  <2>2. states[g] # None <=> count - p < g /\ g <= count
    BY Zenon DEF Queues, Held
  <2> QED BY <1>0, <1>1, <1>2, <1>3, <1>5, <2>1, <2>2, SMTT(40)
<1>7. moves_to_disk(h) <=> ~is_memory_only
  BY <1>0, <1>1 DEF moves_to_disk, Queues, Held
<1>8. InOrder'
  BY <1>3, Zenon DEF Queues, InOrder
<1>9. CASE is_memory_only
  <2>1. UNCHANGED <<on_disk_states, oldest_on_disk>> /\ d = 0
    BY <1>7, <1>9, Zenon DEF pop_front, Queues, Filled
  <2>2. \A g \in Hash : g \notin on_disk_states
    BY <1>0, <1>5, <2>1 DEF Queues, Held, queued
  <2>3. queued' = p - 1 /\ queued = p
    BY <1>0, <1>2, <2>1 DEF queued
  <2>4. Consecutive'
    BY <1>4, <2>1 DEF Consecutive
  <2>5. Held'
    BY <1>0, <1>2, <1>3, <1>5, <1>6, <2>1, <2>2, <2>3, SMTT(60) DEF Held
  <2>6. Filled'
    BY <1>0, <1>1, <1>2, <1>3, <1>9, <2>1, <2>3 DEF Queues, Filled, is_memory_only
  <2> QED BY <1>8, <2>4, <2>5, <2>6, Zenon DEF Queues
<1>10. CASE ~is_memory_only
  <2>1. on_disk_states' = on_disk_states \cup {h} /\ oldest_on_disk' = Append(oldest_on_disk, h)
    BY <1>7, <1>10, Zenon DEF pop_front
  <2>2. /\ Len(oldest_on_disk') = d + 1 /\ oldest_on_disk'[d + 1] = h
        /\ \A i \in 1..d : oldest_on_disk'[i] = oldest_on_disk[i]
    BY <1>0, <1>1, <2>1
  <2>3. queued' = queued /\ queued = p + d
    BY <1>0, <1>2, <2>2 DEF queued
  <2>4. ASSUME NEW i \in 1..d + 1 PROVE oldest_on_disk'[i] = count - (p + d) + i
    <3>1. CASE i = d + 1
      BY <1>0, <1>1, <2>2, <3>1
    <3>2. CASE i # d + 1
      <4>1. i \in 1..d
        BY <1>0, <3>2
      <4> QED BY <2>2, <2>3, <4>1, Zenon DEF Queues, Consecutive
    <3> QED BY <3>1, <3>2, Zenon
  <2>5. Consecutive'
    BY <1>3, <1>4, <2>2, <2>3, <2>4, Zenon DEF Consecutive
  <2>6. ASSUME NEW g \in Hash
        PROVE  g \in on_disk_states' <=> count' - queued' < g /\ g <= count' - Len(present')
    <3>1. g \in on_disk_states <=> count - queued < g /\ g <= count - p
      BY Zenon DEF Queues, Held
    <3> QED BY <1>0, <1>1, <1>2, <1>3, <1>5, <2>1, <2>3, <3>1, SMTT(40)
  <2>7. Held'
    BY <1>6, <2>6, Zenon DEF Held
  <2>8. Filled'
    BY <1>0, <1>1, <1>2, <1>3, <1>10, <2>2, <2>3, SMTT(40) DEF Queues, Filled, is_memory_only
  <2> QED BY <1>8, <2>5, <2>7, <2>8, Zenon DEF Queues
<1> QED BY <1>9, <1>10, Zenon

\* The state purged from disk is the oldest of all.
LEMMA PurgeQueues ==
  ASSUME StatesTypeOK, Queues, purge
  PROVE  Queues'
<1> DEFINE h == Head(oldest_on_disk)
           p == Len(present)
           d == Len(oldest_on_disk)
<1>0. /\ oldest_on_disk \in Seq(Hash)
      /\ p \in Nat /\ d \in Nat /\ count \in Nat /\ cleared \in Nat
      /\ min_in_memory_limit \in Nat /\ max_on_disk_limit \in Nat
      /\ ~is_memory_only /\ d >= max_on_disk_limit
  BY QueueTypes, Zenon DEF StatesTypeOK, purge, over_disk_limit
<1>1. d > 0 /\ h \in Hash /\ h = count - (p + d) + 1
  <2>1. d > 0
    BY <1>0 DEF is_memory_only
  <2>2. h = oldest_on_disk[1] /\ h \in Hash
    BY <1>0, <2>1
  <2> QED BY <1>0, <2>1, <2>2 DEF Queues, Consecutive, queued
<1>2. /\ Len(oldest_on_disk') = d - 1
      /\ \A i \in 1..d - 1 : oldest_on_disk'[i] = oldest_on_disk[i + 1]
  BY <1>0, <1>1 DEF purge
<1>3. UNCHANGED <<states, present, min_in_memory_limit, max_on_disk_limit, pc, arg, count, last, cleared>>
  BY Zenon DEF purge, limit_vars
<1>4. queued = p + d /\ queued' = p + d - 1
  BY <1>0, <1>2, <1>3, Zenon DEF queued
<1>5. InOrder'
  BY <1>3, Zenon DEF Queues, InOrder
<1>6. ASSUME NEW i \in 1..d - 1
      PROVE  oldest_on_disk'[i] = count' - queued' + i
  <2>1. i + 1 \in 1..d /\ i \in Int
    BY <1>0
  <2>2. oldest_on_disk[i + 1] = count - queued + (i + 1)
    BY <2>1, Zenon DEF Queues, Consecutive
  <2> QED BY <1>0, <1>2, <1>3, <1>4, <2>1, <2>2, SMTT(60)
<1>7. Consecutive'
  BY <1>2, <1>3, <1>6, Zenon DEF Queues, Consecutive
<1>8. ASSUME NEW g \in Hash
      PROVE  g \in on_disk_states' <=> count' - queued' < g /\ g <= count' - Len(present')
  <2>1. g \in on_disk_states <=> count - queued < g /\ g <= count - p
    BY Zenon DEF Queues, Held
  <2>2. g \in on_disk_states' <=> g \in on_disk_states /\ g # h
    BY Zenon DEF purge, purged
  <2>3. g \in Nat
    BY DEF Hash
  <2> QED BY <1>0, <1>1, <1>3, <1>4, <2>1, <2>2, <2>3, SMTT(40)
<1>9. Held'
  BY <1>3, <1>8, Zenon DEF Queues, Held
<1>10. Filled'
  BY <1>0, <1>1, <1>2, <1>3, <1>4 DEF Queues, Filled, is_memory_only
<1> QED BY <1>5, <1>7, <1>9, <1>10, Zenon DEF Queues

\* An insertion stores the state of the block after the newest.
LEMMA StoreQueues ==
  ASSUME StatesTypeOK, Queues, disk_enforced, arg # None
  PROVE  Queues'
<1> DEFINE p == Len(present)
           d == Len(oldest_on_disk)
<1>0. /\ present \in Seq(Hash) /\ arg \in Hash
      /\ states \in [Hash -> Ordinal \cup {None}] /\ last \in [Hash -> Ordinal \cup {None}]
      /\ p \in Nat /\ d \in Nat /\ count \in Nat /\ cleared \in Nat
      /\ min_in_memory_limit \in Nat /\ max_on_disk_limit \in Nat
  BY QueueTypes, Zenon DEF StatesTypeOK
<1>1. arg = count + 1 /\ count' = count + 1 /\ pc' = "idle"
  BY Zenon DEF disk_enforced, Queues, InOrder
<1>2. /\ Len(present') = p + 1 /\ present'[p + 1] = arg
      /\ \A i \in 1..p : present'[i] = present[i]
  BY <1>0 DEF disk_enforced
<1>3. UNCHANGED <<on_disk_states, oldest_on_disk, min_in_memory_limit, max_on_disk_limit, cleared>>
  BY Zenon DEF disk_enforced, disk_vars, limit_vars
<1>4. queued = p + d /\ queued' = p + d + 1
  BY <1>0, <1>2, <1>3 DEF queued
<1>5. \A g \in Hash : g \in Nat
  BY DEF Hash
<1>6. ASSUME NEW g \in Hash
      PROVE  last'[g] = IF g <= count' THEN g ELSE None
  <2>1. last'[g] = IF g = arg THEN count + 1 ELSE last[g]
    BY <1>0, Zenon DEF disk_enforced
  <2>2. last[g] = IF g <= count THEN g ELSE None
    BY Zenon DEF Queues, InOrder
  <2>3. g \in Nat /\ (g <= count' <=> g <= count \/ g = arg) /\ ~(arg <= count)
    BY <1>0, <1>1, <1>5
  <2> QED BY <1>1, <2>1, <2>2, <2>3, Zenon
<1>7. InOrder'
  BY <1>1, <1>6, Zenon DEF InOrder
<1>8. ASSUME NEW i \in 1..p + 1
      PROVE  present'[i] = count' - Len(present') + i
  <2>1. CASE i = p + 1
    BY <1>0, <1>1, <1>2, <2>1
  <2>2. CASE i # p + 1
    <3>1. i \in 1..p
      BY <1>0, <2>2
    <3>2. present[i] = count - p + i
      BY <3>1, Zenon DEF Queues, Consecutive
    <3>3. present'[i] = count - p + i
      BY <1>2, <3>1, <3>2, Zenon
    <3>4. i \in Int /\ count' - Len(present') = count - p
      BY <1>0, <1>1, <1>2
    <3> QED BY <3>3, <3>4, Zenon
  <2> QED BY <2>1, <2>2, Zenon
<1>9. \A i \in 1..Len(oldest_on_disk') : oldest_on_disk'[i] = count' - queued' + i
  BY <1>0, <1>1, <1>3, <1>4 DEF Queues, Consecutive
<1>10. Consecutive'
  BY <1>2, <1>8, <1>9, Zenon DEF Consecutive
<1>11. ASSUME NEW g \in Hash
       PROVE  states'[g] # None <=> count' - Len(present') < g /\ g <= count'
  <2>1. states'[g] = IF g = arg THEN count + 1 ELSE states[g]
    BY <1>0, Zenon DEF disk_enforced
  <2>2. states[g] # None <=> count - p < g /\ g <= count
    BY Zenon DEF Queues, Held
  <2>3. count + 1 # None
    BY <1>0, BlockStatesAssumption
  <2> QED BY <1>0, <1>1, <1>2, <1>5, <2>1, <2>2, <2>3
<1>12. ASSUME NEW g \in Hash
       PROVE  g \in on_disk_states' <=> count' - queued' < g /\ g <= count' - Len(present')
  <2>1. g \in on_disk_states <=> count - queued < g /\ g <= count - p
    BY Zenon DEF Queues, Held
  <2> QED BY <1>0, <1>1, <1>2, <1>3, <1>4, <1>5, <2>1, SMTT(40)
<1>13. Held'
  BY <1>11, <1>12, Zenon DEF Held
<1>14. Filled'
  BY <1>0, <1>1, <1>2, <1>3, <1>4, SMTT(40) DEF Queues, Filled, is_memory_only
<1> QED BY <1>7, <1>10, <1>13, <1>14, Zenon DEF Queues

\* After a clear nothing is held, and nothing was inserted since.
LEMMA ClearQueues ==
  ASSUME StatesTypeOK, Queues, clear
  PROVE  Queues'
<1>1. /\ Len(present') = 0 /\ Len(oldest_on_disk') = 0 /\ on_disk_states' = {}
      /\ cleared' = count /\ UNCHANGED <<count, last, pc, arg>> /\ queued' = 0
  BY DEF clear, queued
<1>2. \A h \in Hash : states'[h] = None /\ h \in Nat
  BY DEF clear, Hash
<1>3. count \in Nat
  BY QueueTypes, Zenon
<1>4. InOrder'
  BY <1>1, Zenon DEF Queues, InOrder
<1>5. Consecutive'
  BY <1>1 DEF Consecutive
<1>6. Held'
  BY <1>1, <1>2, <1>3 DEF Held
<1>7. Filled'
  BY <1>1, <1>3 DEF Filled
<1> QED BY <1>4, <1>5, <1>6, <1>7, Zenon DEF Queues

\* No other step changes what the invariant speaks of.
LEMMA OtherQueues ==
  ASSUME Queues,
         \/ UNCHANGED states_vars
         \/ memory_enforced
         \/ disk_enforced /\ arg = None
         \/ \E h \in Hash : get(h)
         \/ \E w \in writes : write_file(w[1], w[2])
  PROVE  Queues'
<1>1. UNCHANGED <<states, on_disk_states, oldest_on_disk, min_in_memory_limit,
                  max_on_disk_limit, present, arg, count, last, cleared>>
  BY Zenon DEF states_vars, memory_enforced, disk_enforced, get, write_file, disk_vars, limit_vars
<1>2. (pc' # "idle" /\ arg' # None) => pc # "idle" /\ arg # None
  BY Zenon DEF states_vars, memory_enforced, disk_enforced, get, write_file
<1> QED
  BY <1>1, <1>2, Zenon DEF Queues, InOrder, Consecutive, Held, Filled, queued, is_memory_only

\* Every step keeps the queues in order, when no block is built on twice.
LEMMA NextQueues ==
  ASSUME Reinsert = FALSE, StatesTypeOK, Queues, [StatesNext]_states_vars
  PROVE  Queues'
<1>1. CASE (\E h \in Hash : insert(h)) \/ update_interval_mine_block_time
  BY <1>1, BeginQueues, Zenon
<1>2. CASE evict
  <2>1. CASE present = <<>>
    BY <1>2, <2>1, OtherQueues, Zenon DEF evict
  <2>2. CASE present # <<>>
    BY <1>2, <2>2, PopQueues, Zenon DEF evict
  <2> QED BY <2>1, <2>2, Zenon
<1>3. CASE purge
  BY <1>3, PurgeQueues, Zenon
<1>4. CASE disk_enforced
  BY <1>4, StoreQueues, OtherQueues, Zenon
<1>5. CASE clear
  BY <1>5, ClearQueues, Zenon
<1>6. CASE \/ UNCHANGED states_vars
           \/ memory_enforced
           \/ \E h \in Hash : get(h)
           \/ \E w \in writes : write_file(w[1], w[2])
  BY <1>6, OtherQueues, Zenon
<1> QED
  BY <1>1, <1>2, <1>3, <1>4, <1>5, <1>6, Zenon DEF StatesNext, Enforce

\* The states kept are those of the newest blocks, as many as are queued.
LEMMA KeptInterval ==
  ASSUME StatesTypeOK, Queues
  PROVE  /\ kept = (count - queued + 1)..count
         /\ Cardinality(kept) = queued
<1>1. /\ Len(present) \in Nat /\ Len(oldest_on_disk) \in Nat /\ count \in Nat /\ queued \in Nat
      /\ queued = Len(present) + Len(oldest_on_disk) /\ queued <= count
  BY QueueTypes DEF Queues, Filled, queued
<1>2. on_disk_states \subseteq Hash /\ MaxInserts \in Nat /\ count <= MaxInserts
  BY QueueTypes, Zenon DEF StatesTypeOK
<1>3. ASSUME NEW h \in Hash
      PROVE  h \in kept <=> count - queued < h /\ h <= count
  <2>1. h \in kept <=> states[h] # None \/ h \in on_disk_states
    BY Zenon DEF kept, in_memory
  <2>2. h \in Nat
    BY DEF Hash
  <2> QED BY <1>1, <2>1, <2>2 DEF Queues, Held
<1>4. kept \subseteq Hash
  BY <1>2, Zenon DEF kept, in_memory
<1>5. kept = (count - queued + 1)..count
  <2>1. ASSUME NEW h PROVE h \in kept => h \in (count - queued + 1)..count
    BY <1>1, <1>3, <1>4 DEF Hash
  <2>2. ASSUME NEW h PROVE h \in (count - queued + 1)..count => h \in kept
    <3> SUFFICES ASSUME h \in (count - queued + 1)..count PROVE h \in kept
      OBVIOUS
    <3>1. h \in Hash
      BY <1>1, <1>2 DEF Hash
    <3> QED BY <1>1, <1>3, <3>1
  <2> QED BY <2>1, <2>2, Zenon
<1>6. count - queued + 1 \in Int /\ count \in Int
  BY <1>1
<1>7. Cardinality((count - queued + 1)..count)
        = IF count - queued + 1 > count THEN 0 ELSE count - (count - queued + 1) + 1
  BY <1>6, FS_Interval, Zenon
<1>8. Cardinality(kept) = Cardinality((count - queued + 1)..count)
  BY <1>5, Zenon
<1> QED BY <1>1, <1>5, <1>7, <1>8

\* Such an interval has no gaps, and is as long as the limits ask.
LEMMA QueuesKeep == StatesTypeOK /\ Queues => NewestKept
<1> SUFFICES ASSUME StatesTypeOK, Queues PROVE NewestKept
  OBVIOUS
<1>1. /\ kept = (count - queued + 1)..count /\ Cardinality(kept) = queued
      /\ count \in Nat /\ queued \in Nat /\ cleared \in Nat
      /\ min_in_memory_limit \in Nat /\ max_on_disk_limit \in Nat
      /\ Len(present) \in Nat /\ Len(oldest_on_disk) \in Nat
      /\ queued = Len(present) + Len(oldest_on_disk)
  BY KeptInterval, QueueTypes, Zenon DEF queued
<1>2. OldestFirst
  <2> SUFFICES ASSUME NEW g \in Hash, NEW h \in Hash,
                      h \in kept, last[g] # None, last[g] > last[h]
               PROVE  g \in kept
    BY Zenon DEF OldestFirst
  <2>1. g \in Int /\ h \in Int /\ count - queued + 1 <= h /\ h <= count
    BY <1>1 DEF Hash
  <2>2. last[h] = h /\ last[g] = g /\ g <= count
    BY <2>1, Zenon DEF Queues, InOrder
  <2> QED BY <1>1, <2>1, <2>2
<1>3. KeptEnough
  BY <1>1, SMTT(60) DEF Queues, Filled, KeptEnough, is_memory_only
<1> QED BY <1>2, <1>3, Zenon DEF NewestKept

\* When no block is built on twice, the history holds the states of the newest
\* blocks without a gap, and all since the last clear up to its limits, for all
\* limits and any number of insertions.
THEOREM KeepsNewest == ASSUME Reinsert = FALSE PROVE StatesSpec => []NewestKept
<1>1. StatesInit => StatesIInv /\ Queues
  BY StatesInitIInv, InitQueues, Zenon
<1>2. StatesIInv /\ Queues /\ [StatesNext]_states_vars => StatesIInv' /\ Queues'
  <2>1. StatesIInv => StatesTypeOK
    BY Zenon DEF StatesIInv
  <2> QED BY <2>1, StatesNextIInv, NextQueues, Zenon
<1>3. StatesIInv /\ Queues => NewestKept
  BY QueuesKeep, Zenon DEF StatesIInv
<1> QED
  BY <1>1, <1>2, <1>3, PTL DEF StatesSpec
=============================================================================
