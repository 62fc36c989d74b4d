---------------------------- MODULE ForkBackend ----------------------------
(***************************************************************************)
(* The remote state of a fork: the BackendHandler task that owns the       *)
(* provider and fills the shared cache, the SharedBackend handles whose    *)
(* threads send it requests and block on the answer, and the reset of the  *)
(* fork to another block (crates/evm/core/src/fork/backend.rs,             *)
(* database.rs).                                                           *)
(*                                                                         *)
(* A future is lazy: the provider sees a request when the handler polls it *)
(* for the first time, and its reply wakes the task through the waker that *)
(* poll registered.  The channel keeps a waker the same way.  Whether the  *)
(* task may sleep is therefore part of what is checked.                    *)
(***************************************************************************)
EXTENDS Naturals, Sequences, FiniteSets

CONSTANTS
  Client,       \* threads, each with its own SharedBackend
  State,        \* accounts and storage slots: their value is that of a block
  Number,       \* block numbers whose hash is looked up
  Item,         \* full blocks and transactions: neither cached nor bundled
  Block,        \* the blocks the fork may be pinned to
  None,         \* no value
  Failed,       \* the error the provider returns
  MaxMessages   \* bound: messages not handled yet when a reset is started

Cached == State \union Number
Key == Cached \union Item

\* What the remote client has for a key: only state depends on the block.
Fixed == 0
Fetch(k, b) == IF k \in State THEN b ELSE Fixed
Value == Block \union {Fixed}

ASSUME ForkAssumption ==
  /\ Block \subseteq Nat \ {0} /\ Block # {}
  /\ None \notin Nat \union {"ok"} /\ Failed \notin Nat \union {"ok", None}
  /\ State \intersect Number = {} /\ Cached \intersect Item = {}
  /\ MaxMessages \in Nat

VARIABLES
  locked,        \* rigid: the requests and resets hold the lock of one database
  client,        \* what each thread is doing
  pinned,        \* history: the block of the latest reset
  incoming,      \* the channel
  queued,        \* queued_requests
  listeners,     \* account_requests, storage_requests and block_requests
  pending,       \* pending_requests, by the client whose request made them
  db,            \* the cache shared by the handler and the resets
  block_number,  \* the block the handler fetches from
  task,          \* where the handler is in poll
  to_poll,       \* the requests the current pass has not polled yet
  woken,         \* the executor has been told to poll the handler
  rx_waker       \* the channel holds the handler's waker

client_vars == <<client, pinned>>
handler_vars == <<queued, listeners, pending, block_number, task, to_poll>>
wakers == <<woken, rx_waker>>
vars == <<client_vars, incoming, handler_vars, db, wakers>>

Get == [kind : {"get"}, client : Client, key : Key]
Pin == [kind : {"pin"}, block : Block]
Request == Get \union Pin
Future == [key : Key, value : Value, polled : BOOLEAN,
           reply : {None, Failed, "ok"}]
Thread == [pc : {"idle", "waiting", "answered", "clear", "dropped"},
           key : Key \union {None}, answer : Value \union {None, Failed}]
Idle == [pc |-> "idle", key |-> None, answer |-> None]

ASSUME NoFuture == None \notin Future

-----------------------------------------------------------------------------
(* SharedBackend and ForkedDatabase: the threads *)

\* Every message is sent on a fresh clone of the sender, which has a slot of its
\* own: try_send finds the channel full in no state.
send(m) ==
  /\ incoming' = Append(incoming, m)
  /\ woken' = (woken \/ rx_waker)
  /\ rx_waker' = FALSE

no_reset == \A d \in Client : client[d].pc # "clear"
no_reader == \A d \in Client : client[d].pc \in {"idle", "dropped"}

\* basic_ref, storage_ref, block_hash_ref, get_full_block, get_transaction: send
\* the request, then block on the answer.
do_get(c, k) ==
  /\ client[c].pc = "idle"
  /\ locked => no_reset
  /\ client' = [client EXCEPT ![c] = [Idle EXCEPT !.pc = "waiting", !.key = k]]
  /\ send([kind |-> "get", client |-> c, key |-> k])
  /\ UNCHANGED <<pinned, handler_vars, db>>

recv(c) ==
  /\ client[c].pc = "answered"
  /\ client' = [client EXCEPT ![c] = Idle]
  /\ UNCHANGED <<pinned, incoming, handler_vars, db, wakers>>

\* ForkedDatabase::reset, first half: the handler is told, not waited for.
set_pinned_block(c, b) ==
  /\ client[c].pc = "idle"
  /\ locked => no_reader
  /\ Len(incoming) + Len(queued) < MaxMessages
  /\ client' = [client EXCEPT ![c] = [Idle EXCEPT !.pc = "clear"]]
  /\ pinned' = b
  /\ send([kind |-> "pin", block |-> b])
  /\ UNCHANGED <<handler_vars, db>>

\* Mutant: the accounts and slots are not wiped.
cleared_but_state == [k \in Cached |-> IF k \in State THEN db[k] ELSE None]

cleared == [k \in Cached |-> None]

\* ForkedDatabase::reset, second half: wipe what was retrieved from remote.
clear(c) ==
  /\ client[c].pc = "clear"
  /\ db' = cleared
  /\ client' = [client EXCEPT ![c] = Idle]
  /\ UNCHANGED <<pinned, incoming, handler_vars, wakers>>

\* The last SharedBackend to go closes the channel, which wakes the receiver.
drop(c) ==
  /\ client[c].pc = "idle"
  /\ client' = [client EXCEPT ![c] = [Idle EXCEPT !.pc = "dropped"]]
  /\ IF \A d \in Client \ {c} : client[d].pc = "dropped"
       THEN woken' = (woken \/ rx_waker) /\ rx_waker' = FALSE
       ELSE UNCHANGED wakers
  /\ UNCHANGED <<pinned, incoming, handler_vars, db>>

-----------------------------------------------------------------------------
(* BackendHandler *)

answered(cs, v) ==
  [c \in Client |-> IF c \in cs
                    THEN [client[c] EXCEPT !.pc = "answered", !.answer = v]
                    ELSE client[c]]

new_future(k) ==
  [key |-> k, value |-> Fetch(k, block_number), polled |-> FALSE, reply |-> None]

\* Mutant: the map of listeners is not consulted.
in_progress_ignored(k) == FALSE

in_progress(k) == listeners[k] # {}

\* request_account, request_account_storage, request_hash: join the request that
\* is in progress for the key, or make one.
request_cached(c, k) ==
  /\ listeners' = [listeners EXCEPT ![k] = @ \union {c}]
  /\ pending' = IF in_progress(k) THEN pending
                ELSE [pending EXCEPT ![c] = new_future(k)]

\* request_full_block, request_transaction: the future owns the sender.
request_item(c, k) ==
  /\ pending' = [pending EXCEPT ![c] = new_future(k)]
  /\ UNCHANGED listeners

on_get(c, k) ==
  \/ /\ k \in Cached /\ db[k] # None
     /\ client' = answered({c}, db[k])
     /\ UNCHANGED <<listeners, pending>>
  \/ /\ k \in Cached /\ db[k] = None
     /\ request_cached(c, k)
     /\ UNCHANGED client
  \/ /\ k \in Item
     /\ request_item(c, k)
     /\ UNCHANGED client

\* One turn of the loop that drains the queue.
on_request ==
  /\ task = "drain" /\ queued # <<>>
  /\ queued' = Tail(queued)
  /\ LET req == Head(queued) IN
       \/ /\ req.kind = "get"
          /\ on_get(req.client, req.key)
          /\ UNCHANGED block_number
       \/ /\ req.kind = "pin"
          /\ block_number' = req.block
          /\ UNCHANGED <<client, listeners, pending>>
  /\ UNCHANGED <<pinned, incoming, db, task, to_poll, wakers>>

drained ==
  /\ task = "drain" /\ queued = <<>>
  /\ task' = "receive"
  /\ UNCHANGED <<client_vars, incoming, queued, listeners, pending, block_number,
                 to_poll, db, wakers>>

\* poll_next of the channel returns Ready(Some(req)).
receive ==
  /\ task = "receive" /\ incoming # <<>>
  /\ queued' = Append(queued, Head(incoming))
  /\ incoming' = Tail(incoming)
  /\ UNCHANGED <<client_vars, listeners, pending, block_number, task, to_poll, db,
                 wakers>>

closed == \A c \in Client : client[c].pc = "dropped"

\* poll_next returns Ready(None), and the handler with all it holds is gone.
finish ==
  /\ task = "receive" /\ incoming = <<>> /\ closed
  /\ task' = "done"
  /\ UNCHANGED <<client_vars, incoming, queued, listeners, pending, block_number,
                 to_poll, db, wakers>>

\* Mutant: the futures that are new are left for another poll.
requests_polled == {c \in Client : pending[c] # None /\ pending[c].polled}

requests == {c \in Client : pending[c] # None}

\* poll_next returns Pending, and keeps the waker.
received ==
  /\ task = "receive" /\ incoming = <<>> /\ ~closed
  /\ rx_waker' = TRUE
  /\ task' = "poll"
  /\ to_poll' = requests
  /\ UNCHANGED <<client_vars, incoming, queued, listeners, pending, block_number,
                 db, woken>>

\* Mutant: only the thread that made the request is told.
listeners_first(c) == {c}

listeners_of(c) ==
  IF pending[c].key \in Cached THEN listeners[pending[c].key] ELSE {c}

answer_of(c) == IF pending[c].reply = "ok" THEN pending[c].value ELSE Failed

cached(c) ==
  IF pending[c].key \in Cached /\ pending[c].reply = "ok"
  THEN [db EXCEPT ![pending[c].key] = answer_of(c)] ELSE db

\* The arm of a request that is ready: cache a value that is to be cached, take the
\* request and its entry out, and answer every listener.
poll_ready(c) ==
  /\ pending[c].reply # None
  /\ db' = cached(c)
  /\ client' = answered(listeners_of(c), answer_of(c))
  /\ listeners' = IF pending[c].key \in Cached
                  THEN [listeners EXCEPT ![pending[c].key] = {}] ELSE listeners
  /\ pending' = [pending EXCEPT ![c] = None]

\* Not ready: the future keeps the waker.
poll_not_ready(c) ==
  /\ pending[c].reply = None
  /\ pending' = [pending EXCEPT ![c].polled = TRUE]
  /\ UNCHANGED <<client, listeners, db>>

\* One turn of the loop over the requests in progress.  The order of the vector
\* decides nothing that is checked, and is left open.
poll_request(c) ==
  /\ task = "poll" /\ c \in to_poll
  /\ to_poll' = to_poll \ {c}
  /\ poll_ready(c) \/ poll_not_ready(c)
  /\ UNCHANGED <<pinned, incoming, queued, block_number, task, wakers>>

again == IF queued = <<>> THEN "sleep" ELSE "drain"

\* The end of the outer loop: sleep only when nothing has been queued.
poll_end ==
  /\ task = "poll" /\ to_poll = {}
  /\ task' = again
  /\ UNCHANGED <<client_vars, incoming, queued, listeners, pending, block_number,
                 to_poll, db, wakers>>

\* The executor polls a task that has been woken.
poll ==
  /\ task = "sleep" /\ woken
  /\ woken' = FALSE
  /\ task' = "drain"
  /\ UNCHANGED <<client_vars, incoming, queued, listeners, pending, block_number,
                 to_poll, db, rx_waker>>

\* The remote client answers, or the transport gives up.
provider_replies(c) ==
  /\ pending[c] # None /\ pending[c].polled /\ pending[c].reply = None
  /\ task # "done"
  /\ \E r \in {"ok", Failed} : pending' = [pending EXCEPT ![c].reply = r]
  /\ woken' = TRUE
  /\ UNCHANGED <<client_vars, incoming, queued, listeners, block_number, task,
                 to_poll, db, rx_waker>>

-----------------------------------------------------------------------------
Init ==
  /\ locked \in BOOLEAN
  /\ client = [c \in Client |-> Idle]
  /\ block_number \in Block /\ pinned = block_number
  /\ incoming = <<>> /\ queued = <<>>
  /\ listeners = [k \in Cached |-> {}]
  /\ pending = [c \in Client |-> None]
  /\ db = [k \in Cached |-> None]
  /\ task = "sleep" /\ to_poll = {}
  /\ woken = TRUE /\ rx_waker = FALSE

Handler ==
  \/ poll \/ on_request \/ drained \/ receive \/ received \/ finish
  \/ \E c \in Client : poll_request(c)
  \/ poll_end

Threads ==
  \E c \in Client :
    \/ \E k \in Key : do_get(c, k)
    \/ \E b \in Block : set_pinned_block(c, b)
    \/ recv(c) \/ clear(c) \/ drop(c)

Next ==
  /\ \/ Handler \/ Threads
     \/ \E c \in Client : provider_replies(c)
  /\ UNCHANGED locked

Spec == Init /\ [][Next]_<<locked, vars>>

\* The runtime polls a woken task, and the provider answers or fails in the end.
Fairness ==
  /\ WF_vars(Handler)
  /\ \A c \in Client : WF_vars(provider_replies(c))

FairSpec == Spec /\ Fairness

-----------------------------------------------------------------------------
(* Properties *)

\* The state of the handler, its threads and the cache has its types: in particular
\* an error of the provider is never cached.
TypeOK ==
  /\ locked \in BOOLEAN
  /\ client \in [Client -> Thread]
  /\ pinned \in Block /\ block_number \in Block
  /\ incoming \in Seq(Request) /\ queued \in Seq(Request)
  /\ listeners \in [Cached -> SUBSET Client]
  /\ pending \in [Client -> Future \union {None}]
  /\ db \in [Cached -> Value \union {None}]
  /\ task \in {"sleep", "drain", "receive", "poll", "done"}
  /\ to_poll \subseteq Client
  /\ woken \in BOOLEAN /\ rx_waker \in BOOLEAN

in_flight == {c \in Client : pending[c] # None}
all_dropped == \A c \in Client : client[c].pc = "dropped"

\* Duplicate requests are bundled "so that always only one provider request is
\* executed" (backend.rs:514): for an account, slot or block hash at most one
\* request is in flight, and there is one exactly when listeners are registered,
\* so that no entry outlives its request and no request is left without an entry.
Bundled ==
  \A k \in Cached :
    /\ \A c, d \in in_flight : pending[c].key = k /\ pending[d].key = k => c = d
    /\ listeners[k] # {} <=> \E c \in in_flight : pending[c].key = k

\* The handler returns Pending only when every source of work holds its waker: the
\* channel and the queue are empty, the channel is open, and each request has been
\* polled and has no reply.  This is what the loop around the three phases is for.
SleepsIdle ==
  task = "sleep" /\ ~woken =>
    /\ incoming = <<>> /\ queued = <<>> /\ ~all_dropped /\ rx_waker
    /\ \A c \in in_flight : pending[c].polled /\ pending[c].reply = None

\* A thread that blocks on the handler is answered, whether the provider answers or
\* fails and whatever the other threads do; and "The spawned `BackendHandler` finishes
\* once the last `SharedBackend` connected to it is dropped" (backend.rs:556).
Served ==
  /\ \A c \in Client : client[c].pc = "waiting" ~> client[c].pc = "answered"
  /\ all_dropped ~> task = "done"

-----------------------------------------------------------------------------
(* The threads as readers of the chain *)

\* Without the lock a read that overlaps a reset is of either block.
AnyBlock == 0
pinned_source == IF locked THEN pinned ELSE AnyBlock

as_reader(c) ==
  IF c.pc \in {"waiting", "answered"} THEN [pc |-> c.pc, query |-> c.key, answer |-> c.answer]
  ELSE [pc |-> "idle", query |-> None, answer |-> None]

Reads == INSTANCE RemoteReads WITH
  Reader <- Client, Query <- Key, Source <- Block \union {AnyBlock},
  right <- [s \in Block \union {AnyBlock} |-> [k \in Key |->
              IF s = AnyBlock THEN {Fetch(k, b) : b \in Block} ELSE {Fetch(k, s)}]],
  reader <- [c \in Client |-> as_reader(client[c])],
  source <- pinned_source

\* "Reset the fork to a fresh forked state" (database.rs:66): when readers and resets
\* exclude one another, the cache, the bundling of requests and the channel through
\* which the handler learns of the block cannot be told from a chain that is read
\* directly: nobody is answered with the state of another block.
ReadsFresh == Reads!Spec
=============================================================================
