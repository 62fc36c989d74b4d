------------------------- MODULE ForkBackendProofs -------------------------
(***************************************************************************)
(* The handler bundles requests, sleeps only when every source of work     *)
(* holds its waker, and implements a direct read of the chain, for any     *)
(* number of threads, keys and blocks.  For the last: wherever the request *)
(* of a thread is, it is for the key the thread waits for                  *)
(* (KeyKept), and what is fetched or cached is right for the block that is *)
(* pinned (Fresh), because no request is ahead of a reset in the queues    *)
(* (PinsFirst).                                                            *)
(***************************************************************************)
EXTENDS ForkBackend, TLAPS

-----------------------------------------------------------------------------
(* Type correctness *)

\* A thread that does nothing, and one that starts an operation.
LEMMA IdleThread ==
  /\ Idle \in Thread
  /\ \A k \in Key : [Idle EXCEPT !.pc = "waiting", !.key = k] \in Thread
  /\ [Idle EXCEPT !.pc = "clear"] \in Thread
  /\ [Idle EXCEPT !.pc = "dropped"] \in Thread
  BY Zenon DEF Idle, Thread

\* Both kinds of message are requests.
LEMMA MessageTypes ==
  /\ \A c \in Client, k \in Key : [kind |-> "get", client |-> c, key |-> k] \in Request
  /\ \A b \in Block : [kind |-> "pin", block |-> b] \in Request
  BY Zenon DEF Request, Get, Pin

\* A message is read by its kind.
LEMMA MessageFields ==
  ASSUME NEW m \in Request
  PROVE  /\ m.kind = "get" => m.client \in Client /\ m.key \in Key
         /\ m.kind = "pin" => m.block \in Block
  BY Zenon DEF Request, Get, Pin

\* The queue operations of the handler keep the type of the queues.
LEMMA QueueTypes ==
  ASSUME NEW q \in Seq(Request)
  PROVE  /\ \A m \in Request : Append(q, m) \in Seq(Request)
         /\ q # <<>> => Head(q) \in Request /\ Tail(q) \in Seq(Request)
  OBVIOUS

\* A value is an answer, and what is fetched for a key is a value.
LEMMA FetchType == \A k \in Key, b \in Block : Fetch(k, b) \in Value
  BY Zenon DEF Fetch, Value

\* answered changes the threads it names to threads with that answer.
LEMMA AnsweredType ==
  ASSUME TypeOK, NEW cs \in SUBSET Client, NEW v \in Value \union {None, Failed}
  PROVE  answered(cs, v) \in [Client -> Thread]
<1> SUFFICES ASSUME NEW c \in Client
             PROVE  /\ client[c] \in Thread
                    /\ [client[c] EXCEPT !.pc = "answered", !.answer = v] \in Thread
  BY Zenon DEF answered
<1>1. client[c] \in Thread
  BY Zenon DEF TypeOK
<1> QED BY <1>1, Zenon DEF Thread

\* The futures that are made have the type of the pending requests.
LEMMA NewFutureType ==
  ASSUME TypeOK, NEW k \in Key
  PROVE  new_future(k) \in Future
  BY FetchType, Zenon DEF new_future, Future, TypeOK

\* A future is not the absence of one: it has a value, which is a number.
LEMMA FutureTypes ==
  ASSUME TypeOK, NEW c \in Client, pending[c] # None
  PROVE  /\ pending[c] \in Future
         /\ pending[c].key \in Key /\ pending[c].value \in Value
         /\ pending[c].reply \in {None, Failed, "ok"}
         /\ \A r \in {"ok", Failed} : [pending[c] EXCEPT !.reply = r] \in Future
         /\ [pending[c] EXCEPT !.polled = TRUE] \in Future
  BY Zenon DEF TypeOK, Future

\* The node creates a fork with empty queues and an empty cache.
LEMMA InitTypeOK == Init => TypeOK
<1> SUFFICES ASSUME Init PROVE TypeOK
  OBVIOUS
<1>1. client \in [Client -> Thread]
  BY IdleThread, Zenon DEF Init
<1>2. incoming \in Seq(Request) /\ queued \in Seq(Request)
  BY DEF Init
<1>3. /\ listeners \in [Cached -> SUBSET Client]
      /\ pending \in [Client -> Future \union {None}]
      /\ db \in [Cached -> Value \union {None}]
  BY Zenon DEF Init
<1> QED BY <1>1, <1>2, <1>3, Zenon DEF Init, TypeOK

\* A step of a thread.
LEMMA ThreadsTypeOK ==
  ASSUME TypeOK, Threads, UNCHANGED locked
  PROVE  TypeOK'
<1> USE DEF TypeOK, client_vars, handler_vars, wakers
<1>1. ASSUME NEW c \in Client, NEW k \in Key, do_get(c, k) PROVE TypeOK'
  <2>1. client' \in [Client -> Thread]
    BY <1>1, IdleThread, Zenon DEF do_get
  <2>2. incoming' \in Seq(Request) /\ woken' \in BOOLEAN /\ rx_waker' \in BOOLEAN
    BY <1>1, MessageTypes, QueueTypes, Zenon DEF do_get, send
  <2> QED BY <1>1, <2>1, <2>2, Zenon DEF do_get
<1>2. ASSUME NEW c \in Client, NEW b \in Block, set_pinned_block(c, b) PROVE TypeOK'
  <2>1. client' \in [Client -> Thread]
    BY <1>2, IdleThread, Zenon DEF set_pinned_block
  <2>2. incoming' \in Seq(Request) /\ woken' \in BOOLEAN /\ rx_waker' \in BOOLEAN
    BY <1>2, MessageTypes, QueueTypes, Zenon DEF set_pinned_block, send
  <2> QED BY <1>2, <2>1, <2>2, Zenon DEF set_pinned_block
<1>3. ASSUME NEW c \in Client, recv(c) PROVE TypeOK'
  BY <1>3, IdleThread, Zenon DEF recv
<1>4. ASSUME NEW c \in Client, clear(c) PROVE TypeOK'
  BY <1>4, IdleThread, Zenon DEF clear, cleared
<1>5. ASSUME NEW c \in Client, drop(c) PROVE TypeOK'
  <2>1. woken' \in BOOLEAN /\ rx_waker' \in BOOLEAN
    BY <1>5, Zenon DEF drop
  <2> QED BY <1>5, <2>1, IdleThread, Zenon DEF drop
<1> QED BY <1>1, <1>2, <1>3, <1>4, <1>5, Zenon DEF Threads

\* A turn of the loop that drains the queue.
LEMMA OnRequestTypeOK ==
  ASSUME TypeOK, on_request, UNCHANGED locked
  PROVE  TypeOK'
<1> DEFINE req == Head(queued)
<1>1. req \in Request /\ queued' \in Seq(Request)
  BY QueueTypes, Zenon DEF on_request, TypeOK
<1>2. CASE req.kind = "pin"
  BY <1>1, <1>2, MessageFields, Zenon DEF on_request, TypeOK, wakers
<1>3. CASE req.kind = "get"
  <2> DEFINE c == req.client
             k == req.key
  <2>1. c \in Client /\ k \in Key
    BY <1>1, <1>3, MessageFields, Zenon
  <2>2. on_get(c, k) /\ block_number' = block_number
    BY <1>3, Zenon DEF on_request
  <2> HIDE DEF c, k
  <2>3. client' \in [Client -> Thread]
    <3>1. CASE k \in Cached /\ db[k] # None /\ client' = answered({c}, db[k])
      <4>1. db[k] \in Value \union {None, Failed} /\ {c} \in SUBSET Client
        BY <2>1, <3>1, Zenon DEF TypeOK
      <4> QED BY <3>1, <4>1, AnsweredType, Zenon
    <3>2. CASE UNCHANGED client
      BY <3>2, Zenon DEF TypeOK
    <3> QED BY <2>2, <3>1, <3>2, Zenon DEF on_get
  <2>4. pending' \in [Client -> Future \union {None}]
    BY <2>1, <2>2, NewFutureType, Zenon DEF on_get, request_cached, request_item, TypeOK
  <2>5. listeners' \in [Cached -> SUBSET Client]
    BY <2>1, <2>2 DEF on_get, request_cached, request_item, TypeOK
  <2> QED BY <1>1, <2>2, <2>3, <2>4, <2>5, Zenon DEF on_request, TypeOK, wakers
<1> QED BY <1>2, <1>3, Zenon DEF on_request

\* A turn of the loop over the requests in progress.
LEMMA PollRequestTypeOK ==
  ASSUME TypeOK, UNCHANGED locked, NEW c \in Client, poll_request(c), pending[c] # None
  PROVE  TypeOK'
<1>1. CASE poll_not_ready(c)
  <2>1. pending' \in [Client -> Future \union {None}]
    BY <1>1, FutureTypes, Zenon DEF poll_not_ready, TypeOK
  <2> QED BY <1>1, <2>1, Zenon DEF poll_request, poll_not_ready, TypeOK, wakers
<1>2. CASE poll_ready(c)
  <2>1. answer_of(c) \in Value \union {None, Failed} /\ listeners_of(c) \in SUBSET Client
    BY FutureTypes, Zenon DEF answer_of, listeners_of, TypeOK
  <2>2. client' \in [Client -> Thread]
    BY <1>2, <2>1, AnsweredType, Zenon DEF poll_ready
  <2>3. db' \in [Cached -> Value \union {None}]
    BY <1>2, FutureTypes, Zenon DEF poll_ready, cached, answer_of, TypeOK
  <2>4. /\ listeners' \in [Cached -> SUBSET Client]
        /\ pending' \in [Client -> Future \union {None}]
    BY <1>2, Zenon DEF poll_ready, TypeOK
  <2> QED BY <2>2, <2>3, <2>4, Zenon DEF poll_request, TypeOK, wakers
<1> QED BY <1>1, <1>2, Zenon DEF poll_request

\* A pass polls requests that are still there: only the pass takes one out.
ToPoll ==
  /\ TypeOK
  /\ \A c \in to_poll : pending[c] # None
  /\ task # "poll" => to_poll = {}

\* A step of the handler.
LEMMA HandlerTypeOK ==
  ASSUME ToPoll, Handler, UNCHANGED locked
  PROVE  TypeOK'
<1> USE DEF ToPoll
<1>1. CASE on_request
  BY <1>1, OnRequestTypeOK, Zenon
<1>2. ASSUME NEW c \in Client, poll_request(c) PROVE TypeOK'
  <2>1. pending[c] # None
    BY <1>2, Zenon DEF poll_request
  <2> QED BY <1>2, <2>1, PollRequestTypeOK, Zenon
<1>3. CASE receive
  <2>1. incoming' \in Seq(Request) /\ queued' \in Seq(Request)
    BY <1>3, QueueTypes, Zenon DEF receive, TypeOK
  <2> QED BY <1>3, <2>1, Zenon DEF receive, TypeOK, client_vars, wakers
<1>4. CASE received
  BY <1>4, Zenon DEF received, requests, TypeOK, client_vars
<1>5. CASE poll \/ drained \/ finish \/ poll_end
  BY <1>5, Zenon DEF poll, drained, finish, poll_end, again, TypeOK, client_vars, wakers
<1> QED BY <1>1, <1>2, <1>3, <1>4, <1>5, Zenon DEF Handler

\* A reply of the provider.
LEMMA ProviderTypeOK ==
  ASSUME TypeOK, UNCHANGED locked, NEW c \in Client, provider_replies(c)
  PROVE  TypeOK'
<1>1. PICK r \in {"ok", Failed} : pending' = [pending EXCEPT ![c].reply = r]
  BY Zenon DEF provider_replies
<1>2. [pending[c] EXCEPT !.reply = r] \in Future
  BY FutureTypes, Zenon DEF provider_replies
<1>3. pending' \in [Client -> Future \union {None}]
  BY <1>1, <1>2, Zenon DEF TypeOK
<1> QED BY <1>3, Zenon DEF provider_replies, TypeOK, client_vars

\* Type correctness with what it needs of the pass over the requests is inductive.
LEMMA ToPollStep == ToPoll /\ [Next]_<<locked, vars>> => ToPoll'
<1> SUFFICES ASSUME ToPoll, [Next]_<<locked, vars>> PROVE ToPoll'
  OBVIOUS
<1>1. CASE Threads /\ UNCHANGED locked
  <2>1. UNCHANGED <<pending, to_poll, task>>
    BY <1>1, Zenon DEF Threads, do_get, recv, set_pinned_block, clear, drop, handler_vars
  <2> QED BY <1>1, <2>1, ThreadsTypeOK, Zenon DEF ToPoll
<1>2. CASE Handler /\ UNCHANGED locked
  <2>1. TypeOK'
    BY <1>2, HandlerTypeOK, Zenon
  <2>2. CASE on_request \/ drained \/ receive \/ finish \/ poll
    BY <2>1, <2>2, Zenon DEF ToPoll, on_request, drained, receive, finish, poll
  <2>3. CASE received
    BY <2>1, <2>3, Zenon DEF ToPoll, received, requests
  <2>4. CASE poll_end
    BY <2>1, <2>4, Zenon DEF ToPoll, poll_end
  <2>5. ASSUME NEW c \in Client, poll_request(c) PROVE ToPoll'
    <3>1. \A d \in Client \ {c} : pending'[d] = pending[d]
      BY <2>5, Zenon DEF poll_request, poll_ready, poll_not_ready, ToPoll, TypeOK
    <3> QED BY <2>1, <2>5, <3>1, Zenon DEF ToPoll, TypeOK, poll_request
  <2> QED BY <1>2, <2>2, <2>3, <2>4, <2>5, Zenon DEF Handler
<1>3. ASSUME NEW c \in Client, provider_replies(c), UNCHANGED locked PROVE ToPoll'
  <2>1. TypeOK'
    BY <1>3, ProviderTypeOK, Zenon DEF ToPoll
  <2>2. PICK r \in {"ok", Failed} : pending' = [pending EXCEPT ![c].reply = r]
    BY <1>3, Zenon DEF provider_replies
  <2>3. [pending[c] EXCEPT !.reply = r] # None
    <3>1. pending[c] # None /\ TypeOK
      BY <1>3, Zenon DEF provider_replies, ToPoll
    <3>2. [pending[c] EXCEPT !.reply = r] \in Future
      BY <3>1, FutureTypes, Zenon
    <3> QED BY <3>2, NoFuture, Zenon
  <2>4. \A d \in Client : pending[d] # None => pending'[d] # None
    BY <2>2, <2>3, Zenon DEF ToPoll, TypeOK
  <2> QED BY <1>3, <2>1, <2>4, Zenon DEF provider_replies, ToPoll, TypeOK
<1>4. CASE UNCHANGED <<locked, vars>>
  BY <1>4, Zenon DEF ToPoll, TypeOK, vars, client_vars, handler_vars, wakers
<1> QED BY <1>1, <1>2, <1>3, <1>4, Zenon DEF Next

\* Type correctness, for any threads, keys and blocks.
THEOREM TypeCorrect == Spec => []TypeOK
<1>1. Init => ToPoll
  BY InitTypeOK, Zenon DEF Init, ToPoll
<1>2. ToPoll => TypeOK
  BY Zenon DEF ToPoll
<1> QED BY <1>1, <1>2, ToPollStep, PTL DEF Spec

-----------------------------------------------------------------------------
(* The task sleeps only when it will be woken *)

\* From the moment the channel has taken the waker, what has not woken the task is
\* not there: no message, no reply to a request that the pass is done with.
Awake ==
  /\ task \in {"poll", "sleep"} /\ ~woken =>
       /\ incoming = <<>> /\ ~all_dropped /\ rx_waker
       /\ \A c \in in_flight \ to_poll : pending[c].polled /\ pending[c].reply = None
  /\ task = "sleep" => queued = <<>> /\ to_poll = {}

\* A message, and the end of the last handle, wake a task whose waker is held.
LEMMA ThreadsAwake ==
  ASSUME TypeOK, Awake, Threads
  PROVE  Awake'
<1>1. UNCHANGED <<pending, to_poll, task, queued>> /\ in_flight' = in_flight
  BY Zenon DEF Threads, do_get, recv, set_pinned_block, clear, drop, handler_vars, in_flight
<1>2. ASSUME task \in {"poll", "sleep"}, ~woken'
      PROVE  ~woken /\ incoming' = <<>> /\ ~all_dropped' /\ rx_waker'
  <2>1. ASSUME NEW c \in Client, NEW k \in Key, do_get(c, k) PROVE FALSE
    BY <1>2, <2>1, Zenon DEF do_get, send, Awake
  <2>2. ASSUME NEW c \in Client, NEW b \in Block, set_pinned_block(c, b) PROVE FALSE
    BY <1>2, <2>2, Zenon DEF set_pinned_block, send, Awake
  <2>3. ASSUME NEW c \in Client, recv(c) \/ clear(c)
        PROVE  ~woken /\ incoming' = <<>> /\ ~all_dropped' /\ rx_waker'
    <3>1. client'[c].pc = "idle"
      BY <2>3 DEF recv, clear, Idle, TypeOK
    <3> QED BY <1>2, <2>3, <3>1 DEF recv, clear, Awake, all_dropped, wakers
  <2>4. ASSUME NEW c \in Client, drop(c)
        PROVE  ~woken /\ incoming' = <<>> /\ ~all_dropped' /\ rx_waker'
    <3>1. ~woken /\ rx_waker /\ incoming = <<>>
      BY <1>2, <2>4, Zenon DEF drop, wakers, Awake
    <3>2. PICK d \in Client \ {c} : client[d].pc # "dropped"
      BY <1>2, <2>4, <3>1, Zenon DEF drop
    <3>3. client'[d].pc # "dropped" /\ UNCHANGED <<incoming, wakers>>
      BY <2>4, <3>2, Zenon DEF drop, TypeOK
    <3> QED BY <3>1, <3>3, Zenon DEF all_dropped, wakers
  <2> QED BY <2>1, <2>2, <2>3, <2>4, Zenon DEF Threads
<1> QED BY <1>1, <1>2, Zenon DEF Awake

\* The pass registers the waker of every request it leaves, and a turn of the outer
\* loop follows when something was queued.
LEMMA HandlerAwake ==
  ASSUME ToPoll, Awake, Handler
  PROVE  Awake'
<1>1. CASE poll \/ on_request \/ drained \/ receive \/ finish
  BY <1>1, Zenon DEF poll, on_request, drained, receive, finish, Awake
<1>2. CASE received
  BY <1>2, Zenon DEF received, Awake, requests, in_flight, all_dropped, closed, client_vars
<1>3. ASSUME NEW c \in Client, poll_request(c) PROVE Awake'
  <2>1. \A d \in Client \ {c} : pending'[d] = pending[d]
    BY <1>3, Zenon DEF poll_request, poll_ready, poll_not_ready, ToPoll, TypeOK
  <2>2. pending'[c] # None => pending'[c].polled /\ pending'[c].reply = None
    <3>1. CASE poll_ready(c)
      BY <3>1, Zenon DEF poll_ready, ToPoll, TypeOK
    <3>2. CASE poll_not_ready(c)
      <4>1. pending[c] \in Future
        BY <1>3, FutureTypes, Zenon DEF poll_request, ToPoll
      <4>2. pending'[c] = [pending[c] EXCEPT !.polled = TRUE]
        BY <3>2, Zenon DEF poll_not_ready, ToPoll, TypeOK
      <4> QED BY <3>2, <4>1, <4>2, Zenon DEF poll_not_ready, Future
    <3> QED BY <1>3, <3>1, <3>2, Zenon DEF poll_request
  <2>3. \A d \in Client : client'[d].pc = "dropped" => client[d].pc = "dropped"
    <3>1. CASE poll_ready(c)
      <4> SUFFICES ASSUME NEW d \in Client, client'[d].pc = "dropped"
                   PROVE  client[d].pc = "dropped"
        OBVIOUS
      <4>1. client[d] \in Thread
        BY Zenon DEF ToPoll, TypeOK
      <4>2. CASE d \in listeners_of(c)
        <5>1. client'[d] = [client[d] EXCEPT !.pc = "answered", !.answer = answer_of(c)]
          BY <3>1, <4>2, Zenon DEF poll_ready, answered
        <5> QED BY <4>1, <5>1, Zenon DEF Thread
      <4>3. CASE d \notin listeners_of(c)
        BY <3>1, <4>3, Zenon DEF poll_ready, answered
      <4> QED BY <4>2, <4>3, Zenon
    <3>2. CASE poll_not_ready(c)
      BY <3>2, Zenon DEF poll_not_ready
    <3> QED BY <1>3, <3>1, <3>2, Zenon DEF poll_request
  <2>4. ~all_dropped => ~all_dropped'
    BY <2>3, Zenon DEF all_dropped
  <2> QED BY <1>3, <2>1, <2>2, <2>4, Zenon DEF poll_request, Awake, in_flight, wakers
<1>4. CASE poll_end
  BY <1>4, Zenon DEF poll_end, again, Awake, in_flight, all_dropped, client_vars, wakers
<1> QED BY <1>1, <1>2, <1>3, <1>4, Zenon DEF Handler

\* The handler returns Pending on no work: however its polls interleave with the
\* messages, the replies and the end of the last handle, it sleeps only when each
\* source of work holds its waker.
THEOREM NeverSleepsOnWork == Spec => []SleepsIdle
<1> DEFINE Inv == ToPoll /\ Awake
<1>1. Init => Inv
  BY InitTypeOK, Zenon DEF Init, ToPoll, Awake
<1>2. Inv /\ [Next]_<<locked, vars>> => Inv'
  <2> SUFFICES ASSUME Inv, [Next]_<<locked, vars>> PROVE Awake'
    BY ToPollStep, Zenon
  <2>1. ASSUME NEW c \in Client, provider_replies(c) PROVE Awake'
    BY <2>1, Zenon DEF provider_replies, Awake
  <2>2. CASE UNCHANGED <<locked, vars>>
    BY <2>2, Zenon DEF Awake, in_flight, all_dropped, vars, client_vars, handler_vars, wakers
  <2> QED BY <2>1, <2>2, ThreadsAwake, HandlerAwake, Zenon DEF Next, ToPoll
<1>3. Inv => SleepsIdle
  BY Zenon DEF Awake, SleepsIdle
<1> QED BY <1>1, <1>2, <1>3, PTL DEF Spec

-----------------------------------------------------------------------------
(* Requests are bundled *)

\* Message i of queue q is a request of thread c.
From(q, i, c) == i \in DOMAIN q /\ q[i].kind = "get" /\ q[i].client = c

unsent(c) ==
  \A i \in Nat : ~From(incoming, i, c) /\ ~From(queued, i, c)
unlisted(c) == \A k \in Cached : c \notin listeners[k]

\* The request of a thread is in one place: this is what lets a future be made for a
\* thread without losing one it has.
SentOnce(inc, que, c) ==
  /\ \A i, j \in Nat : From(inc, i, c) => ~From(que, j, c)
  /\ \A i, j \in Nat : From(inc, i, c) /\ From(inc, j, c) => i = j
  /\ \A i, j \in Nat : From(que, i, c) /\ From(que, j, c) => i = j

OnePlace(c) ==
  /\ SentOnce(incoming, queued, c)
  /\ ~unsent(c) => pending[c] = None /\ unlisted(c)
  /\ pending[c] # None /\ pending[c].key \in Cached => c \in listeners[pending[c].key]
  /\ pending[c] # None /\ pending[c].key \in Item => unlisted(c)
  /\ \A k, l \in Cached : c \in listeners[k] /\ c \in listeners[l] => k = l
  /\ client[c].pc # "waiting" => unsent(c) /\ pending[c] = None /\ unlisted(c)

Tracked == \A c \in Client : OnePlace(c)

\* The messages of a queue after one is appended.
LEMMA FromAppend ==
  ASSUME NEW q \in Seq(Request), NEW m \in Request, NEW i \in Nat, NEW c \in Client
  PROVE  From(Append(q, m), i, c) <=>
           \/ From(q, i, c)
           \/ i = Len(q) + 1 /\ m.kind = "get" /\ m.client = c
  BY DEF From

\* The messages of a queue after the first is taken.
LEMMA FromTail ==
  ASSUME NEW q \in Seq(Request), q # <<>>, NEW i \in Nat, NEW c \in Client
  PROVE  /\ From(Tail(q), i, c) <=> i # 0 /\ From(q, i + 1, c)
         /\ From(q, 1, c) <=> Head(q).kind = "get" /\ Head(q).client = c
         /\ ~From(q, 0, c)
  BY DEF From

\* A thread whose request stays where it is, but for its position in a queue.
LEMMA PlaceKept ==
  ASSUME NEW c \in Client, OnePlace(c),
         SentOnce(incoming', queued', c), unsent(c)' <=> unsent(c),
         pending[c] # None <=> pending'[c] # None,
         pending'[c] # None => pending'[c].key = pending[c].key,
         \A k \in Cached : c \in listeners'[k] <=> c \in listeners[k],
         client'[c].pc = "waiting" <=> client[c].pc = "waiting"
  PROVE  OnePlace(c)'
  BY Zenon DEF OnePlace, unlisted

\* A step that leaves the queues and the handler's tables alone, and makes no thread
\* wait or stop waiting.
LEMMA QuietKept ==
  ASSUME Tracked, UNCHANGED <<incoming, queued, pending, listeners>>,
         \A c \in Client : client'[c].pc = "waiting" <=> client[c].pc = "waiting"
  PROVE  Tracked'
  BY Zenon DEF Tracked, OnePlace, unsent, unlisted

\* A thread sends a request when it has none.
LEMMA ThreadsTracked ==
  ASSUME TypeOK, Tracked, Threads
  PROVE  Tracked'
<1> USE DEF handler_vars
<1>1. ASSUME NEW c \in Client, NEW k \in Key, do_get(c, k) PROVE Tracked'
  <2> DEFINE m == [kind |-> "get", client |-> c, key |-> k]
  <2>1. m \in Request /\ m.kind = "get" /\ m.client = c
    BY MessageTypes, Zenon
  <2>2. incoming' = Append(incoming, m) /\ UNCHANGED <<queued, pending, listeners>>
    BY <1>1, Zenon DEF do_get, send
  <2> HIDE DEF m
  <2>3. \A d \in Client, i \in Nat :
          From(incoming', i, d) <=> From(incoming, i, d) \/ (i = Len(incoming) + 1 /\ d = c)
    <3> TAKE d \in Client, i \in Nat
    <3>1. From(Append(incoming, m), i, d) <=>
            From(incoming, i, d) \/ (i = Len(incoming) + 1 /\ m.kind = "get" /\ m.client = d)
      BY <2>1, FromAppend, Zenon DEF TypeOK
    <3> QED BY <2>1, <2>2, <3>1, Zenon
  <2>4. ASSUME NEW d \in Client, d # c PROVE OnePlace(d)'
    <3>1. client'[d] = client[d]
      BY <1>1, <2>4, Zenon DEF do_get, TypeOK
    <3>2. \A i \in Nat : From(incoming', i, d) <=> From(incoming, i, d)
      BY <2>3, <2>4, Zenon
    <3>3. SentOnce(incoming, queued, d) /\ OnePlace(d)
      BY Zenon DEF Tracked, OnePlace
    <3>4. SentOnce(incoming', queued', d)
      BY <2>2, <3>2, <3>3, Zenon DEF SentOnce
    <3>5. unsent(d)' <=> unsent(d)
      BY <2>2, <3>2, Zenon DEF unsent
    <3> QED BY <2>2, <3>1, <3>3, <3>4, <3>5, PlaceKept, Zenon
  <2>5. OnePlace(c)'
    <3>1. unsent(c) /\ pending[c] = None /\ unlisted(c)
      BY <1>1, Zenon DEF do_get, Tracked, OnePlace
    <3>2. SentOnce(incoming', queued', c)
      BY <2>2, <2>3, <3>1, Zenon DEF unsent, SentOnce
    <3>3. client'[c].pc = "waiting"
      BY <1>1, Zenon DEF do_get, TypeOK, Idle
    <3> QED BY <2>2, <3>1, <3>2, <3>3, Zenon DEF OnePlace, unlisted
  <2> QED BY <2>4, <2>5, Zenon DEF Tracked
<1>2. ASSUME NEW c \in Client, NEW b \in Block, set_pinned_block(c, b) PROVE Tracked'
  <2> DEFINE m == [kind |-> "pin", block |-> b]
  <2>1. m \in Request /\ m.kind # "get"
    BY MessageTypes, Zenon
  <2>2. incoming' = Append(incoming, m) /\ UNCHANGED <<queued, pending, listeners>>
    BY <1>2, Zenon DEF set_pinned_block, send
  <2> HIDE DEF m
  <2>3. \A d \in Client, i \in Nat : From(incoming', i, d) <=> From(incoming, i, d)
    BY <2>1, <2>2, FromAppend, Zenon DEF TypeOK
  <2>4. ASSUME NEW d \in Client PROVE OnePlace(d)'
    <3>1. client'[d].pc = "waiting" <=> client[d].pc = "waiting"
      BY <1>2, Zenon DEF set_pinned_block, TypeOK, Idle
    <3>2. SentOnce(incoming', queued', d) /\ (unsent(d)' <=> unsent(d))
      BY <2>2, <2>3, Zenon DEF Tracked, OnePlace, SentOnce, unsent
    <3> QED BY <2>2, <3>1, <3>2, PlaceKept, Zenon DEF Tracked
  <2> QED BY <2>4, Zenon DEF Tracked
<1>3. ASSUME NEW c \in Client, recv(c) \/ clear(c) \/ drop(c) PROVE Tracked'
  <2>1. \A d \in Client : client'[d].pc = "waiting" <=> client[d].pc = "waiting"
    <3>1. client[c].pc # "waiting"
      BY <1>3, Zenon DEF recv, clear, drop
    <3>2. client'[c].pc # "waiting"
      BY <1>3 DEF recv, clear, drop, Idle, TypeOK
    <3>3. \A d \in Client \ {c} : client'[d] = client[d]
      BY <1>3, Zenon DEF recv, clear, drop, TypeOK
    <3> QED BY <3>1, <3>2, <3>3, Zenon
  <2> QED BY <1>3, <2>1, QuietKept, Zenon DEF recv, clear, drop
<1> QED BY <1>1, <1>2, <1>3, Zenon DEF Threads

\* A message goes from the channel to the queue.
LEMMA ReceiveTracked ==
  ASSUME TypeOK, Tracked, receive
  PROVE  Tracked'
<1> DEFINE m == Head(incoming)
<1>1. m \in Request
  BY QueueTypes, Zenon DEF receive, TypeOK
<1>2. /\ queued' = Append(queued, m) /\ incoming' = Tail(incoming) /\ incoming # <<>>
      /\ UNCHANGED <<pending, listeners, client>>
  BY Zenon DEF receive, client_vars
<1> SUFFICES ASSUME NEW c \in Client PROVE OnePlace(c)'
  BY Zenon DEF Tracked
<1>3. \A i \in Nat : From(incoming', i, c) <=> i # 0 /\ From(incoming, i + 1, c)
  BY <1>2, FromTail, Zenon DEF TypeOK
<1>4. From(incoming, 1, c) <=> m.kind = "get" /\ m.client = c
  BY <1>2, FromTail, Zenon DEF TypeOK
<1> HIDE DEF m
<1>5. \A i \in Nat : From(queued', i, c) <=>
        From(queued, i, c) \/ (i = Len(queued) + 1 /\ From(incoming, 1, c))
  <2> TAKE i \in Nat
  <2>1. From(Append(queued, m), i, c) <=>
          From(queued, i, c) \/ (i = Len(queued) + 1 /\ m.kind = "get" /\ m.client = c)
    BY <1>1, FromAppend, Zenon DEF TypeOK
  <2> QED BY <1>2, <1>4, <2>1, Zenon
<1>6. SentOnce(incoming, queued, c)
  BY Zenon DEF Tracked, OnePlace
<1>7. SentOnce(incoming', queued', c)
  BY <1>3, <1>5, <1>6 DEF SentOnce
<1>8. unsent(c)' <=> unsent(c)
  <2>1. ASSUME unsent(c) PROVE unsent(c)'
    BY <1>3, <1>5, <2>1 DEF unsent
  <2>2. ASSUME unsent(c)', NEW i \in Nat PROVE ~From(queued, i, c) /\ ~From(incoming, i, c)
    <3>0. \A j \in Nat : ~From(incoming', j, c) /\ ~From(queued', j, c)
      BY <2>2, Zenon DEF unsent
    <3>1. ~From(incoming, 1, c)
      <4>1. Len(queued) + 1 \in Nat
        BY DEF TypeOK
      <4> QED BY <1>5, <3>0, <4>1, Zenon
    <3>2. ~From(incoming, 0, c)
      BY <1>2, FromTail, Zenon DEF TypeOK
    <3>3. CASE i \in {0, 1}
      BY <1>5, <3>0, <3>1, <3>2, <3>3, Zenon
    <3>4. CASE i \notin {0, 1}
      <4>1. i - 1 \in Nat /\ i - 1 # 0 /\ (i - 1) + 1 = i
        BY <3>4
      <4>2. ~From(incoming, (i - 1) + 1, c)
        BY <1>3, <3>0, <4>1, Zenon
      <4> QED BY <1>5, <3>0, <4>1, <4>2, Zenon
    <3> QED BY <3>3, <3>4, Zenon
  <2> QED BY <2>1, <2>2, Zenon DEF unsent
<1> QED BY <1>2, <1>7, <1>8, PlaceKept, Zenon DEF Tracked
\* A request leaves the queue: its thread is answered from the cache, listed, or has
\* a future of its own.  Bundled is kept since a future is made for a key only when
\* no listener is registered.
LEMMA OnRequestTracked ==
  ASSUME TypeOK, Tracked, Bundled, on_request
  PROVE  Tracked' /\ Bundled'
<1> DEFINE m == Head(queued)
<1>1. m \in Request
  BY QueueTypes, Zenon DEF on_request, TypeOK
<1>2. queued' = Tail(queued) /\ queued # <<>> /\ incoming' = incoming
  BY Zenon DEF on_request
<1>3. ASSUME NEW d \in Client
      PROVE  /\ \A i \in Nat : From(queued', i, d) <=> i # 0 /\ From(queued, i + 1, d)
             /\ From(queued, 1, d) <=> m.kind = "get" /\ m.client = d
             /\ ~From(queued, 0, d)
  BY <1>2, FromTail, Zenon DEF TypeOK
<1>4. ASSUME NEW d \in Client PROVE SentOnce(incoming', queued', d)
  <2>1. SentOnce(incoming, queued, d)
    BY Zenon DEF Tracked, OnePlace
  <2> QED BY <1>2, <1>3, <2>1, SMTT(40) DEF SentOnce
<1>5. ASSUME NEW d \in Client, ~From(queued, 1, d) PROVE unsent(d)' <=> unsent(d)
  <2>1. ASSUME unsent(d) PROVE unsent(d)'
    BY <1>2, <1>3, <2>1 DEF unsent
  <2>2. ASSUME unsent(d)', NEW i \in Nat PROVE ~From(queued, i, d) /\ ~From(incoming, i, d)
    <3>1. \A j \in Nat : ~From(incoming', j, d) /\ ~From(queued', j, d)
      BY <2>2, Zenon DEF unsent
    <3>2. CASE i \in {0, 1}
      BY <1>2, <1>3, <1>5, <3>1, <3>2, Zenon
    <3>3. CASE i \notin {0, 1}
      <4>1. i - 1 \in Nat /\ i - 1 # 0 /\ (i - 1) + 1 = i
        BY <3>3
      <4>2. ~From(queued, (i - 1) + 1, d)
        BY <1>3, <3>1, <4>1, Zenon
      <4> QED BY <1>2, <3>1, <4>1, <4>2, Zenon
    <3> QED BY <3>2, <3>3, Zenon
  <2> QED BY <2>1, <2>2, Zenon DEF unsent
<1>6. CASE m.kind = "pin"
  <2>1. UNCHANGED <<client, listeners, pending>>
    BY <1>6, Zenon DEF on_request
  <2>2. \A d \in Client : ~From(queued, 1, d)
    BY <1>3, <1>6, Zenon
  <2>3. Tracked'
    BY <1>4, <1>5, <2>1, <2>2, PlaceKept, Zenon DEF Tracked
  <2> QED BY <2>1, <2>3, Zenon DEF Bundled, in_flight
<1>7. CASE m.kind = "get"
  <2>1. PICK c \in Client, k \in Key : c = m.client /\ k = m.key
    BY <1>1, <1>7, MessageFields, Zenon
  <2>2. on_get(c, k)
    BY <1>7, <2>1, Zenon DEF on_request
  <2>3. From(queued, 1, c) /\ \A d \in Client \ {c} : ~From(queued, 1, d)
    BY <1>3, <1>7, <2>1, Zenon
  <2> HIDE DEF m
  <2>4. pending[c] = None /\ unlisted(c)
    BY <2>1, <2>3, Zenon DEF Tracked, OnePlace, unsent
  <2>5. unsent(c)'
    <3>1. SentOnce(incoming, queued, c)
      BY <2>1, Zenon DEF Tracked, OnePlace
    <3>2. \A i \in Nat : ~From(incoming, i, c)
      BY <2>3, <3>1, Zenon DEF SentOnce
    <3>3. \A i \in Nat : ~From(queued', i, c)
      <4> SUFFICES ASSUME NEW i \in Nat, From(queued', i, c) PROVE FALSE
        OBVIOUS
      <4>1. i # 0 /\ From(queued, i + 1, c)
        BY <1>3, <2>1, Zenon
      <4>2. i + 1 = 1
        BY <2>3, <3>1, <4>1 DEF SentOnce
      <4> QED BY <4>1, <4>2
    <3> QED BY <1>2, <3>2, <3>3, Zenon DEF unsent
  <2>6. CASE UNCHANGED <<listeners, pending>> /\ client' = answered({c}, db[k])
    <3>1. client'[c].pc = "answered" /\ \A d \in Client \ {c} : client'[d] = client[d]
      <4>1. client[c] \in Thread
        BY <2>1, Zenon DEF TypeOK
      <4>2. client'[c] = [client[c] EXCEPT !.pc = "answered", !.answer = db[k]]
        BY <2>1, <2>6, Zenon DEF answered
      <4>3. client'[c].pc = "answered"
        BY <4>1, <4>2, Zenon DEF Thread
      <4> QED BY <2>6, <4>3, Zenon DEF answered
    <3>2. OnePlace(c)'
      BY <1>4, <2>1, <2>4, <2>5, <2>6, Zenon DEF OnePlace, unlisted
    <3>3. \A d \in Client \ {c} : OnePlace(d)'
      BY <1>4, <1>5, <2>3, <2>6, <3>1, PlaceKept, Zenon DEF Tracked
    <3> QED BY <2>6, <3>2, <3>3, Zenon DEF Tracked, Bundled, in_flight
  <2>7. CASE k \in Cached /\ request_cached(c, k) /\ UNCHANGED client
    <3>1. listeners' = [listeners EXCEPT ![k] = @ \union {c}]
      BY <2>7, Zenon DEF request_cached
    <3>2. pending' = IF listeners[k] # {} THEN pending ELSE [pending EXCEPT ![c] = new_future(k)]
      BY <2>7, Zenon DEF request_cached, in_progress
    <3>3. new_future(k) # None /\ new_future(k).key = k
      BY <2>1, NewFutureType, NoFuture, Zenon DEF new_future
    <3>4. client[c].pc = "waiting"
      BY <2>1, <2>3, Zenon DEF Tracked, OnePlace, unsent
    <3>5. OnePlace(c)'
      <4>1. \A l \in Cached : c \in listeners'[l] <=> l = k
        BY <2>1, <2>4, <2>7, <3>1, Zenon DEF unlisted, TypeOK
      <4>2. pending'[c] # None => pending'[c].key = k
        BY <2>1, <2>4, <3>2, <3>3, Zenon DEF TypeOK
      <4>3. k \notin Item
        BY <2>7, ForkAssumption, Zenon
      <4> QED BY <1>4, <2>1, <2>5, <2>7, <3>4, <4>1, <4>2, <4>3, Zenon DEF OnePlace
    <3>6. \A d \in Client \ {c} : OnePlace(d)'
      <4> TAKE d \in Client \ {c}
      <4>1. pending'[d] = pending[d] /\ client'[d] = client[d]
        BY <2>1, <2>7, <3>2, Zenon DEF TypeOK
      <4>2. \A l \in Cached : d \in listeners'[l] <=> d \in listeners[l]
        BY <2>7, <3>1, Zenon DEF TypeOK
      <4> QED BY <1>4, <1>5, <2>3, <4>1, <4>2, PlaceKept, Zenon DEF Tracked
    <3>7. Bundled'
      <4> SUFFICES ASSUME NEW l \in Cached
                   PROVE  /\ \A d, e \in in_flight' :
                               pending'[d].key = l /\ pending'[e].key = l => d = e
                          /\ listeners'[l] # {} <=> \E d \in in_flight' : pending'[d].key = l
        BY Zenon DEF Bundled
      <4>1. CASE listeners[k] # {}
        BY <2>1, <2>7, <3>1, <3>2, <4>1, ZenonT(60) DEF Bundled, in_flight, TypeOK
      <4>2. CASE listeners[k] = {}
        <5>1. /\ in_flight' = in_flight \union {c} /\ c \notin in_flight
              /\ pending'[c].key = k /\ \A d \in in_flight : pending'[d] = pending[d]
          BY <2>1, <2>4, <3>2, <3>3, <4>2, Zenon DEF in_flight, TypeOK
        <5>2. \A d \in in_flight : pending[d].key # k
          BY <2>7, <4>2, Zenon DEF Bundled
        <5>3. CASE l = k
          BY <2>7, <3>1, <5>1, <5>2, <5>3, Zenon DEF TypeOK
        <5>4. CASE l # k
          <6>1. listeners'[l] = listeners[l]
            BY <3>1, <5>4, Zenon DEF TypeOK
          <6> QED BY <5>1, <5>4, <6>1 DEF Bundled
        <5> QED BY <5>3, <5>4, Zenon
      <4> QED BY <4>1, <4>2, Zenon
    <3> QED BY <3>5, <3>6, <3>7, Zenon DEF Tracked
  <2>8. CASE k \in Item /\ request_item(c, k) /\ UNCHANGED client
    <3>1. listeners' = listeners /\ pending' = [pending EXCEPT ![c] = new_future(k)]
      BY <2>8, Zenon DEF request_item
    <3>2. new_future(k) # None /\ new_future(k).key = k
      BY <2>1, NewFutureType, NoFuture, Zenon DEF new_future
    <3>3. client[c].pc = "waiting" /\ k \notin Cached
      BY <2>1, <2>3, <2>8, ForkAssumption, Zenon DEF Tracked, OnePlace, unsent
    <3>4. pending'[c].key = k /\ \A d \in Client \ {c} : pending'[d] = pending[d]
      BY <2>1, <3>1, <3>2, Zenon DEF TypeOK
    <3>5. OnePlace(c)'
      BY <1>4, <2>1, <2>4, <2>5, <2>8, <3>1, <3>3, <3>4, Zenon DEF OnePlace, unlisted
    <3>6. \A d \in Client \ {c} : OnePlace(d)'
      BY <1>4, <1>5, <2>3, <2>8, <3>1, <3>4, PlaceKept, Zenon DEF Tracked
    <3>7. Bundled'
      BY <2>1, <2>4, <3>1, <3>3, <3>4 DEF Bundled, in_flight
    <3> QED BY <3>5, <3>6, <3>7, Zenon DEF Tracked
  <2> QED BY <2>2, <2>6, <2>7, <2>8, Zenon DEF on_get
<1> QED BY <1>1, <1>6, <1>7, Zenon DEF Request, Get, Pin
\* An answer goes to the listeners of the entry and takes the entry out with its
\* request: no listener has a request of its own elsewhere.
LEMMA PollRequestTracked ==
  ASSUME TypeOK, Tracked, Bundled, NEW c \in Client, pending[c] # None, poll_request(c)
  PROVE  Tracked' /\ Bundled'
<1>1. UNCHANGED <<incoming, queued>> /\ \A d \in Client : unsent(d)' <=> unsent(d)
  BY Zenon DEF poll_request, unsent
<1>2. \A d \in Client \ {c} : pending'[d] = pending[d]
  BY Zenon DEF poll_request, poll_ready, poll_not_ready, TypeOK
<1>3. \A d \in Client : SentOnce(incoming', queued', d)
  BY <1>1, Zenon DEF Tracked, OnePlace
<1>4. CASE poll_not_ready(c)
  <2>1. pending[c] \in Future /\ pending'[c] = [pending[c] EXCEPT !.polled = TRUE]
    BY <1>4, FutureTypes, Zenon DEF poll_not_ready, TypeOK
  <2>2. pending'[c] # None /\ pending'[c].key = pending[c].key
    <3>1. pending'[c] \in Future
      BY <2>1, FutureTypes, Zenon
    <3> QED BY <2>1, <3>1, NoFuture, Zenon DEF Future
  <2>3. UNCHANGED <<client, listeners>>
    BY <1>4, Zenon DEF poll_not_ready
  <2>4. Tracked'
    BY <1>1, <1>2, <1>3, <2>2, <2>3, PlaceKept, Zenon DEF Tracked
  <2>5. in_flight' = in_flight /\ \A d \in in_flight : pending'[d].key = pending[d].key
    BY <1>2, <2>2, Zenon DEF in_flight
  <2> QED BY <2>3, <2>4, <2>5 DEF Bundled
<1>5. CASE poll_ready(c)
  <2> DEFINE k == pending[c].key
             L == listeners_of(c)
  <2>1. k \in Key /\ L \subseteq Client
    BY FutureTypes, Zenon DEF listeners_of, TypeOK
  <2>2. c \in L
    BY Zenon DEF listeners_of, Tracked, OnePlace
  <2>3. pending'[c] = None
    BY <1>5, Zenon DEF poll_ready, TypeOK
  <2>4. /\ \A d \in L : client'[d].pc = "answered"
        /\ \A d \in Client \ L : client'[d] = client[d]
    <3>1. ASSUME NEW d \in L PROVE client'[d].pc = "answered"
      <4>1. client[d] \in Thread /\ d \in Client
        BY <2>1, Zenon DEF TypeOK
      <4>2. client'[d] = [client[d] EXCEPT !.pc = "answered", !.answer = answer_of(c)]
        BY <1>5, <4>1, Zenon DEF poll_ready, answered
      <4> QED BY <4>1, <4>2, Zenon DEF Thread
    <3> QED BY <1>5, <3>1, Zenon DEF poll_ready, answered
  <2>5. CASE k \in Cached
    <3>1. L = listeners[k] /\ listeners' = [listeners EXCEPT ![k] = {}]
      BY <1>5, <2>5, Zenon DEF poll_ready, listeners_of
    <3>2. ASSUME NEW d \in L PROVE OnePlace(d)'
      <4>1. d \in Client /\ unsent(d)
        BY <2>1, <2>5, <3>1, Zenon DEF Tracked, OnePlace, unlisted
      <4>2. pending[d] # None => d = c
        <5> SUFFICES ASSUME pending[d] # None PROVE d = c
          OBVIOUS
        <5>1. pending[d].key \in Cached
          <6>1. pending[d].key \in Key
            BY <4>1, FutureTypes, Zenon
          <6>2. ~unlisted(d) /\ OnePlace(d)
            BY <2>5, <3>1, <4>1, Zenon DEF unlisted, Tracked
          <6> QED BY <6>1, <6>2, Zenon DEF OnePlace, Key
        <5>2. pending[d].key = k
          BY <2>5, <3>1, <4>1, <5>1, Zenon DEF Tracked, OnePlace
        <5> QED BY <2>5, <4>1, <5>2, ZenonT(60) DEF Bundled, in_flight
      <4>3. pending'[d] = None
        BY <1>2, <2>3, <4>1, <4>2, Zenon
      <4>4. unlisted(d)'
        BY <2>5, <3>1, <4>1, SMTT(40) DEF Tracked, OnePlace, unlisted, TypeOK
      <4> QED BY <1>1, <1>3, <4>1, <4>3, <4>4, Zenon DEF OnePlace, unlisted
    <3>3. ASSUME NEW d \in Client \ L PROVE OnePlace(d)'
      <4>1. d # c /\ pending'[d] = pending[d] /\ client'[d] = client[d]
        BY <1>2, <2>2, <2>4, Zenon
      <4>2. \A l \in Cached : d \in listeners'[l] <=> d \in listeners[l]
        BY <2>5, <3>1, Zenon DEF TypeOK
      <4> QED BY <1>1, <1>3, <4>1, <4>2, PlaceKept, Zenon DEF Tracked
    <3>4. Bundled'
      <4>1. in_flight' = in_flight \ {c} /\ \A d \in in_flight' : pending'[d] = pending[d]
        BY <1>2, <2>3, Zenon DEF in_flight
      <4>2. \A d \in in_flight' : pending[d].key # k
        BY <2>5, <4>1, Zenon DEF Bundled, in_flight
      <4>3. \A l \in Cached : listeners'[l] = IF l = k THEN {} ELSE listeners[l]
        BY <2>5, <3>1, Zenon DEF TypeOK
      <4> HIDE DEF L
      <4> QED BY <4>1, <4>2, <4>3 DEF Bundled
    <3> QED BY <3>2, <3>3, <3>4, Zenon DEF Tracked
  <2>6. CASE k \in Item
    <3>1. k \notin Cached
      BY <2>6, ForkAssumption, Zenon
    <3>2. L = {c} /\ listeners' = listeners
      BY <1>5, <3>1, Zenon DEF poll_ready, listeners_of
    <3>3. OnePlace(c)'
      <4>1. unsent(c) /\ unlisted(c)
        BY <2>6, Zenon DEF Tracked, OnePlace
      <4> QED BY <1>1, <1>3, <2>3, <3>2, <4>1, Zenon DEF OnePlace, unlisted
    <3>4. ASSUME NEW d \in Client \ {c} PROVE OnePlace(d)'
      BY <1>1, <1>2, <1>3, <2>4, <3>2, PlaceKept, Zenon DEF Tracked
    <3>5. in_flight' = in_flight \ {c} /\ \A d \in in_flight' : pending'[d] = pending[d]
      BY <1>2, <2>3, Zenon DEF in_flight
    <3>6. Bundled'
      BY <3>1, <3>2, <3>5 DEF Bundled
    <3> QED BY <3>3, <3>4, <3>6, Zenon DEF Tracked
  <2> QED BY <2>1, <2>5, <2>6, Zenon DEF Key
<1> QED BY <1>4, <1>5, Zenon DEF poll_request

\* The provider replies to a request that stays where it is.
LEMMA ProviderTracked ==
  ASSUME TypeOK, Tracked, Bundled, NEW c \in Client, provider_replies(c)
  PROVE  Tracked' /\ Bundled'
<1>1. PICK r \in {"ok", Failed} : pending' = [pending EXCEPT ![c].reply = r]
  BY Zenon DEF provider_replies
<1>2. pending[c] # None /\ pending[c] \in Future /\ [pending[c] EXCEPT !.reply = r] \in Future
  BY FutureTypes, Zenon DEF provider_replies
<1>3. pending'[c] = [pending[c] EXCEPT !.reply = r]
  BY <1>1, Zenon DEF TypeOK
<1>4. pending'[c] # None /\ pending'[c].key = pending[c].key
  BY <1>2, <1>3, NoFuture, Zenon DEF Future
<1>5. \A d \in Client \ {c} : pending'[d] = pending[d]
  BY <1>1, Zenon DEF TypeOK
<1>6. UNCHANGED <<client, incoming, queued, listeners>>
  BY Zenon DEF provider_replies, client_vars
<1>7. \A d \in Client : SentOnce(incoming', queued', d) /\ (unsent(d)' <=> unsent(d))
  BY <1>6, Zenon DEF Tracked, OnePlace, unsent
<1>8. Tracked'
  BY <1>2, <1>4, <1>5, <1>6, <1>7, PlaceKept, Zenon DEF Tracked
<1>9. in_flight' = in_flight /\ \A d \in in_flight : pending'[d].key = pending[d].key
  BY <1>2, <1>4, <1>5, Zenon DEF in_flight
<1> QED BY <1>6, <1>8, <1>9 DEF Bundled

BundledInv == ToPoll /\ Tracked /\ Bundled

\* At the start there is no request.
LEMMA InitBundled == Init => BundledInv
<1> SUFFICES ASSUME Init PROVE BundledInv
  OBVIOUS
<1>1. ToPoll
  BY InitTypeOK, Zenon DEF Init, ToPoll
<1>2. \A c \in Client, i \in Nat : ~From(incoming, i, c) /\ ~From(queued, i, c)
  BY DEF Init, From
<1>3. Tracked
  BY <1>2, Zenon DEF Init, Tracked, OnePlace, SentOnce, unsent, unlisted
<1>4. Bundled
  BY Zenon DEF Init, Bundled, in_flight
<1> QED BY <1>1, <1>3, <1>4, Zenon DEF BundledInv

\* Every step keeps each request in its one place.
LEMMA BundledStep == BundledInv /\ [Next]_<<locked, vars>> => BundledInv'
<1> USE DEF BundledInv
<1> SUFFICES ASSUME BundledInv, [Next]_<<locked, vars>> PROVE Tracked' /\ Bundled'
  BY ToPollStep, Zenon
<1> TypeOK
  BY Zenon DEF ToPoll
<1>1. CASE Threads
  <2>1. UNCHANGED <<pending, listeners>>
    BY <1>1, Zenon DEF Threads, do_get, recv, set_pinned_block, clear, drop, handler_vars
  <2> QED BY <1>1, <2>1, ThreadsTracked, Zenon DEF Bundled, in_flight
<1>2. CASE poll \/ drained \/ received \/ finish \/ poll_end \/ UNCHANGED <<locked, vars>>
  <2>1. UNCHANGED <<client, incoming, queued, pending, listeners>>
    BY <1>2, Zenon DEF poll, drained, received, finish, poll_end, vars, client_vars, handler_vars
  <2> QED BY <2>1, QuietKept, Zenon DEF Bundled, in_flight
<1>3. CASE receive
  <2>1. UNCHANGED <<pending, listeners>>
    BY <1>3, Zenon DEF receive
  <2> QED BY <1>3, <2>1, ReceiveTracked, Zenon DEF Bundled, in_flight
<1>4. CASE on_request
  BY <1>4, OnRequestTracked, Zenon
<1>5. ASSUME NEW c \in Client, poll_request(c) PROVE Tracked' /\ Bundled'
  <2>1. pending[c] # None
    BY <1>5, Zenon DEF poll_request, ToPoll
  <2> QED BY <1>5, <2>1, PollRequestTracked, Zenon
<1>6. ASSUME NEW c \in Client, provider_replies(c) PROVE Tracked' /\ Bundled'
  BY <1>6, ProviderTracked, Zenon
<1> QED BY <1>1, <1>2, <1>3, <1>4, <1>5, <1>6, Zenon DEF Next, Handler

\* Whatever the threads ask for and in whatever order, at most one request is in
\* flight for an account, a slot or a block hash, and there is one exactly when
\* threads listen for it.
THEOREM AlwaysBundled == Spec => []Bundled
<1>1. BundledInv => Bundled
  BY Zenon DEF BundledInv
<1> QED BY <1>1, InitBundled, BundledStep, PTL DEF Spec

-----------------------------------------------------------------------------
(* The forked backend reads the chain *)

\* The answers that are right for a key.
Right(k) == IF locked THEN {Fetch(k, pinned)} ELSE {Fetch(k, b) : b \in Block}

\* Thread c has a request for key k somewhere.
AtKey(c, k) ==
  \/ \E i \in Nat : From(incoming, i, c) /\ incoming[i].key = k
  \/ \E i \in Nat : From(queued, i, c) /\ queued[i].key = k
  \/ k \in Cached /\ c \in listeners[k]
  \/ pending[c] # None /\ k \in Item /\ pending[c].key = k

KeyKept == \A c \in Client, k \in Key : AtKey(c, k) => client[c].key = k

\* Message i of queue q is a reset ("pin") or a request ("get").
Kind(q, i, x) == i \in DOMAIN q /\ q[i].kind = x

NoPin(q) == \A i \in Nat : ~Kind(q, i, "pin")
LastPinIs(q, b) ==
  \A i \in Nat : Kind(q, i, "pin") /\ (\A j \in Nat : j > i => ~Kind(q, j, "pin"))
                   => q[i].block = b
GetsLast(q) == \A i, j \in Nat : Kind(q, i, "get") /\ Kind(q, j, "pin") => j < i

\* The last reset that was sent decides, and no request is ahead of a reset.
PinsFirst(inc, que, number, b) ==
  /\ LastPinIs(inc, b)
  /\ NoPin(inc) => LastPinIs(que, b)
  /\ NoPin(inc) /\ NoPin(que) => number = b
  /\ GetsLast(inc) /\ GetsLast(que)
  /\ \A i \in Nat : Kind(que, i, "get") => NoPin(inc)

\* While one thread resets the fork, no other reads it.
ResetAlone ==
  \A c, d \in Client :
    client[c].pc = "clear" /\ d # c => client[d].pc \in {"idle", "dropped"}

FetchedRight ==
  \A c \in Client : pending[c] # None => pending[c].value \in Right(pending[c].key)
CachedRight ==
  (locked => no_reset) => \A k \in Cached : db[k] # None => db[k] \in Right(k)

Fresh ==
  /\ FetchedRight /\ CachedRight
  /\ locked => PinsFirst(incoming, queued, block_number, pinned) /\ ResetAlone

ReadInv == BundledInv /\ KeyKept /\ Fresh

-----------------------------------------------------------------------------
(* The order of resets and requests *)

\* The messages of a queue after one is appended.
LEMMA KindAppend ==
  ASSUME NEW q \in Seq(Request), NEW m \in Request, NEW i \in Nat, NEW x
  PROVE  /\ Kind(Append(q, m), i, x) <=> Kind(q, i, x) \/ (i = Len(q) + 1 /\ m.kind = x)
         /\ Kind(q, i, x) => Append(q, m)[i] = q[i] /\ i < Len(q) + 1
         /\ Append(q, m)[Len(q) + 1] = m /\ Len(q) + 1 \in Nat
  BY DEF Kind

\* The messages of a queue after the first is taken.
LEMMA KindTail ==
  ASSUME NEW q \in Seq(Request), q # <<>>, NEW i \in Nat, NEW x
  PROVE  /\ Kind(Tail(q), i, x) <=> i # 0 /\ Kind(q, i + 1, x)
         /\ Kind(Tail(q), i, x) => Tail(q)[i] = q[i + 1]
         /\ Kind(q, 1, x) <=> Head(q).kind = x
         /\ ~Kind(q, 0, x) /\ q[1] = Head(q)
  BY DEF Kind

\* A reset that is sent while there is no request is the last that decides.
LEMMA PinSent ==
  ASSUME NEW inc \in Seq(Request), NEW que \in Seq(Request), NEW n, NEW b, NEW new,
         PinsFirst(inc, que, n, b), NEW m \in Request, m.kind = "pin", m.block = new,
         \A i \in Nat : ~Kind(inc, i, "get") /\ ~Kind(que, i, "get")
  PROVE  PinsFirst(Append(inc, m), que, n, new)
<1> DEFINE q == Append(inc, m)
           l == Len(inc) + 1
<1>1. /\ l \in Nat /\ q[l] = m /\ Kind(q, l, "pin")
      /\ \A i \in Nat : Kind(q, i, "pin") <=> Kind(inc, i, "pin") \/ i = l
      /\ \A i \in Nat : Kind(inc, i, "pin") => i < l
      /\ \A i \in Nat : ~Kind(q, i, "get")
  BY KindAppend
<1> HIDE DEF q, l
<1>2. LastPinIs(q, new)
  BY <1>1, Zenon DEF LastPinIs
<1>3. ~NoPin(q) /\ GetsLast(q)
  BY <1>1, Zenon DEF NoPin, GetsLast
<1>4. PinsFirst(q, que, n, new)
  BY <1>2, <1>3, Zenon DEF PinsFirst
<1> QED BY <1>4, Zenon DEF q

\* A request is sent behind all resets.
LEMMA GetSent ==
  ASSUME NEW inc \in Seq(Request), NEW que \in Seq(Request), NEW n, NEW b,
         PinsFirst(inc, que, n, b), NEW m \in Request, m.kind = "get"
  PROVE  PinsFirst(Append(inc, m), que, n, b)
<1> DEFINE q == Append(inc, m)
           l == Len(inc) + 1
<1>1. /\ l \in Nat
      /\ \A i \in Nat : Kind(q, i, "pin") <=> Kind(inc, i, "pin")
      /\ \A i \in Nat : Kind(inc, i, "pin") => i < l /\ q[i] = inc[i]
      /\ \A i \in Nat : Kind(q, i, "get") <=> Kind(inc, i, "get") \/ i = l
  <2>1. ASSUME NEW i \in Nat, NEW x \in {"get", "pin"}
        PROVE  /\ Kind(q, i, x) <=> Kind(inc, i, x) \/ (i = l /\ m.kind = x)
               /\ Kind(inc, i, x) => q[i] = inc[i] /\ i < l
               /\ l \in Nat
    BY DEF Kind
  <2> QED BY <2>1, Zenon
<1> HIDE DEF q, l
<1>2. LastPinIs(q, b)
  BY <1>1, ZenonT(60) DEF LastPinIs, PinsFirst
<1>3. GetsLast(q)
  <2> SUFFICES ASSUME NEW i \in Nat, NEW j \in Nat, Kind(q, i, "get"), Kind(q, j, "pin")
               PROVE  j < i
    BY Zenon DEF GetsLast
  <2>1. Kind(inc, j, "pin") /\ j < l
    BY <1>1, Zenon
  <2>2. CASE Kind(inc, i, "get")
    BY <2>1, <2>2, Zenon DEF GetsLast, PinsFirst
  <2> QED BY <1>1, <2>1, <2>2, Zenon
<1>4. NoPin(q) <=> NoPin(inc)
  BY <1>1, Zenon DEF NoPin
<1>5. PinsFirst(q, que, n, b)
  BY <1>2, <1>3, <1>4, Zenon DEF PinsFirst
<1> QED BY <1>5, Zenon DEF q

\* The queue keeps the order of the channel.
LEMMA MessageReceived ==
  ASSUME NEW inc \in Seq(Request), NEW que \in Seq(Request), NEW n, NEW b,
         PinsFirst(inc, que, n, b), inc # <<>>
  PROVE  PinsFirst(Tail(inc), Append(que, Head(inc)), n, b)
<1> DEFINE m == Head(inc)
           i1 == Tail(inc)
           q1 == Append(que, m)
           l == Len(que) + 1
<1>1. m \in Request /\ m.kind \in {"get", "pin"}
  BY DEF Request, Get, Pin
<1>2. \A i \in Nat, x \in {"get", "pin"} :
        /\ Kind(i1, i, x) <=> i # 0 /\ Kind(inc, i + 1, x)
        /\ Kind(i1, i, x) => i1[i] = inc[i + 1]
        /\ Kind(inc, 1, x) <=> m.kind = x
        /\ ~Kind(inc, 0, x) /\ inc[1] = m
  BY KindTail, ZenonT(60)
<1>3. \A i \in Nat, x \in {"get", "pin"} :
        /\ Kind(q1, i, x) <=> Kind(que, i, x) \/ (i = l /\ m.kind = x)
        /\ Kind(que, i, x) => q1[i] = que[i] /\ i < l
        /\ q1[l] = m /\ l \in Nat
  BY <1>1, KindAppend, Zenon
<1> HIDE DEF m, i1, q1, l
<1>4. \A j \in Nat, x \in {"get", "pin"} : Kind(inc, j, x) /\ j # 1 =>
        j - 1 \in Nat /\ Kind(i1, j - 1, x)
  <2> TAKE j \in Nat, x \in {"get", "pin"}
  <2> HAVE Kind(inc, j, x) /\ j # 1
  <2>1. j # 0
    BY <1>2, Zenon
  <2>2. j - 1 \in Nat /\ j - 1 # 0 /\ (j - 1) + 1 = j
    BY <2>1
  <2> QED BY <1>2, <2>2, Zenon
<1>5. LastPinIs(i1, b)
  <2> SUFFICES ASSUME NEW i \in Nat, Kind(i1, i, "pin"), \A j \in Nat : j > i => ~Kind(i1, j, "pin")
               PROVE  i1[i].block = b
    BY Zenon DEF LastPinIs
  <2>1. i + 1 \in Nat /\ Kind(inc, i + 1, "pin") /\ i1[i] = inc[i + 1] /\ i # 0
    BY <1>2
  <2>2. ASSUME NEW j \in Nat, j > i + 1 PROVE ~Kind(inc, j, "pin")
    BY <1>4, <2>2
  <2> QED BY <2>1, <2>2, Zenon DEF LastPinIs, PinsFirst
<1>6. GetsLast(i1)
  <2> SUFFICES ASSUME NEW i \in Nat, NEW j \in Nat, Kind(i1, i, "get"), Kind(i1, j, "pin")
               PROVE  j < i
    BY Zenon DEF GetsLast
  <2>1. Kind(inc, i + 1, "get") /\ Kind(inc, j + 1, "pin")
    BY <1>2, Zenon
  <2>2. j + 1 < i + 1
    BY <2>1 DEF GetsLast, PinsFirst
  <2> QED BY <2>2
<1>7. CASE m.kind = "pin"
  <2>1. Kind(inc, 1, "pin")
    BY <1>2, <1>7, Zenon
  <2>2. \A i \in Nat : ~Kind(que, i, "get")
    BY <2>1, Zenon DEF PinsFirst, NoPin
  <2>3. GetsLast(q1) /\ \A i \in Nat : ~Kind(q1, i, "get")
    BY <1>3, <1>7, <2>2, Zenon DEF GetsLast
  <2>4. ASSUME NoPin(i1) PROVE LastPinIs(q1, b)
    <3>1. \A j \in Nat : j > 1 => ~Kind(inc, j, "pin")
      BY <1>4, <2>4 DEF NoPin
    <3>2. m.block = b
      BY <1>2, <2>1, <3>1 DEF LastPinIs, PinsFirst
    <3>3. \A i \in Nat : Kind(q1, i, "pin") /\ i # l => l > i
      BY <1>3, Zenon
    <3>4. Kind(q1, l, "pin") /\ q1[l] = m /\ l \in Nat
      BY <1>3, <1>7, Zenon
    <3> QED BY <3>2, <3>3, <3>4, Zenon DEF LastPinIs
  <2>5. ~NoPin(q1)
    BY <1>3, <1>7, Zenon DEF NoPin
  <2>6. PinsFirst(i1, q1, n, b)
    BY <1>5, <1>6, <2>3, <2>4, <2>5, Zenon DEF PinsFirst
  <2> QED BY <2>6, Zenon DEF i1, q1, m
<1>8. CASE m.kind = "get"
  <2>1. Kind(inc, 1, "get") /\ ~Kind(inc, 1, "pin") /\ ~Kind(inc, 0, "pin")
    BY <1>2, <1>8, Zenon
  <2>2. NoPin(inc)
    <3> SUFFICES ASSUME NEW j \in Nat, Kind(inc, j, "pin") PROVE FALSE
      BY Zenon DEF NoPin
    <3>1. j < 1
      BY <2>1, Zenon DEF PinsFirst, GetsLast
    <3> QED BY <2>1, <3>1
  <2>3. NoPin(i1)
    BY <1>2, <2>2, SMTT(60) DEF NoPin
  <2>4. \A i \in Nat : Kind(q1, i, "pin") <=> Kind(que, i, "pin")
    BY <1>3, <1>8, Zenon
  <2>5. LastPinIs(q1, b) /\ (NoPin(q1) <=> NoPin(que))
    BY <1>3, <2>2, <2>4, Zenon DEF LastPinIs, NoPin, PinsFirst
  <2>6. GetsLast(q1)
    BY <1>3, <2>4, Zenon DEF GetsLast, PinsFirst
  <2>7. PinsFirst(i1, q1, n, b)
    BY <1>5, <1>6, <2>2, <2>3, <2>5, <2>6, Zenon DEF PinsFirst
  <2> QED BY <2>7, Zenon DEF i1, q1, m
<1> QED BY <1>1, <1>7, <1>8, Zenon

\* When a request is handled, no reset is left: the handler's block is the pinned one.
\* When a reset is handled, its block is, unless another reset is left.
LEMMA MessageHandled ==
  ASSUME NEW inc \in Seq(Request), NEW que \in Seq(Request), NEW n, NEW b,
         PinsFirst(inc, que, n, b), que # <<>>
  PROVE  /\ Head(que).kind = "get" => n = b /\ PinsFirst(inc, Tail(que), n, b)
         /\ Head(que).kind = "pin" => PinsFirst(inc, Tail(que), Head(que).block, b)
<1> DEFINE m == Head(que)
           q1 == Tail(que)
<1>1. \A i \in Nat, x \in {"get", "pin"} :
        /\ Kind(q1, i, x) <=> i # 0 /\ Kind(que, i + 1, x)
        /\ Kind(q1, i, x) => q1[i] = que[i + 1]
        /\ Kind(que, 1, x) <=> m.kind = x
        /\ ~Kind(que, 0, x) /\ que[1] = m
  BY KindTail, Zenon
<1> HIDE DEF m, q1
<1>2. \A j \in Nat, x \in {"get", "pin"} : Kind(que, j, x) /\ j # 1 =>
        j - 1 \in Nat /\ Kind(q1, j - 1, x)
  <2> TAKE j \in Nat, x \in {"get", "pin"}
  <2> HAVE Kind(que, j, x) /\ j # 1
  <2>1. j # 0
    BY <1>1, Zenon
  <2>2. j - 1 \in Nat /\ j - 1 # 0 /\ (j - 1) + 1 = j
    BY <2>1
  <2> QED BY <1>1, <2>2, Zenon
<1>3. GetsLast(q1)
  <2> SUFFICES ASSUME NEW i \in Nat, NEW j \in Nat, Kind(q1, i, "get"), Kind(q1, j, "pin")
               PROVE  j < i
    BY Zenon DEF GetsLast
  <2>1. Kind(que, i + 1, "get") /\ Kind(que, j + 1, "pin")
    BY <1>1, Zenon
  <2>2. j + 1 < i + 1
    BY <2>1 DEF GetsLast, PinsFirst
  <2> QED BY <2>2
<1>4. ASSUME NoPin(inc) PROVE LastPinIs(q1, b)
  <2> SUFFICES ASSUME NEW i \in Nat, Kind(q1, i, "pin"), \A j \in Nat : j > i => ~Kind(q1, j, "pin")
               PROVE  q1[i].block = b
    BY Zenon DEF LastPinIs
  <2>1. i + 1 \in Nat /\ Kind(que, i + 1, "pin") /\ q1[i] = que[i + 1] /\ i # 0
    BY <1>1
  <2>2. ASSUME NEW j \in Nat, j > i + 1 PROVE ~Kind(que, j, "pin")
    BY <1>2, <2>2
  <2> QED BY <1>4, <2>1, <2>2, Zenon DEF LastPinIs, PinsFirst
<1>5. ASSUME NEW i \in Nat, Kind(q1, i, "get") PROVE NoPin(inc)
  BY <1>1, <1>5 DEF PinsFirst
<1>6. ASSUME m.kind = "get" PROVE n = b /\ PinsFirst(inc, q1, n, b)
  <2>1. Kind(que, 1, "get") /\ ~Kind(que, 1, "pin") /\ ~Kind(que, 0, "pin")
    BY <1>1, <1>6, Zenon
  <2>2. NoPin(inc)
    BY <2>1, Zenon DEF PinsFirst
  <2>3. NoPin(que)
    <3> SUFFICES ASSUME NEW j \in Nat, Kind(que, j, "pin") PROVE FALSE
      BY Zenon DEF NoPin
    <3>1. j < 1
      BY <2>1, Zenon DEF PinsFirst, GetsLast
    <3> QED BY <2>1, <3>1
  <2> QED BY <1>3, <1>4, <1>5, <2>2, <2>3, Zenon DEF PinsFirst
<1>7. ASSUME m.kind = "pin" PROVE PinsFirst(inc, q1, m.block, b)
  <2>1. ASSUME NoPin(inc), NoPin(q1) PROVE m.block = b
    <3>1. Kind(que, 1, "pin") /\ que[1] = m
      BY <1>1, <1>7, Zenon
    <3>2. \A j \in Nat : j > 1 => ~Kind(que, j, "pin")
      BY <1>2, <2>1 DEF NoPin
    <3> QED BY <2>1, <3>1, <3>2, Zenon DEF LastPinIs, PinsFirst
  <2> QED BY <1>3, <1>4, <1>5, <2>1, Zenon DEF PinsFirst
<1> QED BY <1>6, <1>7, Zenon DEF m, q1

-----------------------------------------------------------------------------
(* The keys of requests *)

\* Only a thread that waits has a request.
LEMMA AtKeyWaits ==
  ASSUME Tracked, NEW c \in Client, NEW k \in Key, AtKey(c, k)
  PROVE  client[c].pc = "waiting"
  BY Zenon DEF Tracked, OnePlace, AtKey, unsent, unlisted

\* A step that makes no request, and leaves the key of threads that wait alone.
LEMMA KeysKept ==
  ASSUME Tracked, KeyKept,
         \A c \in Client, k \in Key : AtKey(c, k)' => AtKey(c, k),
         \A c \in Client : client[c].pc = "waiting" => client'[c].key = client[c].key
  PROVE  KeyKept'
  BY AtKeyWaits, Zenon DEF KeyKept

\* A thread has no request when it sends one.
LEMMA DoGetKeys ==
  ASSUME TypeOK, Tracked, KeyKept, NEW c \in Client, NEW k \in Key, do_get(c, k)
  PROVE  KeyKept'
<1> DEFINE m == [kind |-> "get", client |-> c, key |-> k]
<1>1. m \in Request /\ m.kind = "get" /\ m.client = c /\ m.key = k
  BY MessageTypes, Zenon
<1>2. /\ incoming' = Append(incoming, m) /\ UNCHANGED <<queued, pending, listeners>>
      /\ client[c].pc = "idle"
  BY Zenon DEF do_get, send, handler_vars
<1> HIDE DEF m
<1>3. ASSUME NEW d \in Client, NEW l \in Key, AtKey(d, l)'
      PROVE  AtKey(d, l) \/ (d = c /\ l = k)
  <2>1. ASSUME NEW i \in Nat, From(incoming', i, d), incoming'[i].key = l
        PROVE  AtKey(d, l) \/ (d = c /\ l = k)
    <3>1. CASE From(incoming, i, d)
      <4>1. incoming'[i] = incoming[i]
        BY <1>1, <1>2, <3>1 DEF From, TypeOK
      <4> QED BY <2>1, <3>1, <4>1, Zenon DEF AtKey
    <3>2. CASE i = Len(incoming) + 1 /\ m.kind = "get" /\ m.client = d
      BY <1>1, <1>2, <2>1, <3>2 DEF TypeOK
    <3>3. incoming \in Seq(Request) /\ From(Append(incoming, m), i, d)
      BY <1>2, <2>1, Zenon DEF TypeOK
    <3>4. From(incoming, i, d) \/ (i = Len(incoming) + 1 /\ m.kind = "get" /\ m.client = d)
      BY <1>1, <3>3, FromAppend, ZenonT(60)
    <3> QED BY <3>1, <3>2, <3>4, Zenon
  <2> QED BY <1>2, <1>3, <2>1, Zenon DEF AtKey
<1>4. \A l \in Key : ~AtKey(c, l)
  BY <1>2, AtKeyWaits, Zenon
<1>5. client'[c].key = k /\ \A d \in Client \ {c} : client'[d] = client[d]
  BY Zenon DEF do_get, TypeOK, Idle
<1> QED BY <1>3, <1>4, <1>5, Zenon DEF KeyKept

\* A message that moves from the channel to the queue keeps its key.
LEMMA ReceiveKeys ==
  ASSUME TypeOK, Tracked, KeyKept, receive
  PROVE  KeyKept'
<1>1. /\ queued' = Append(queued, Head(incoming)) /\ incoming' = Tail(incoming)
      /\ incoming # <<>> /\ UNCHANGED <<pending, listeners, client>>
      /\ Head(incoming) \in Request
  BY QueueTypes, Zenon DEF receive, client_vars, TypeOK
<1>2. ASSUME NEW d \in Client, NEW l \in Key, AtKey(d, l)' PROVE AtKey(d, l)
  <2>1. ASSUME NEW i \in Nat, From(incoming', i, d), incoming'[i].key = l PROVE AtKey(d, l)
    <3>1. From(incoming, i + 1, d) /\ i + 1 \in Nat
      BY <1>1, <2>1, FromTail DEF TypeOK
    <3>2. incoming'[i] = incoming[i + 1]
      BY <1>1, <2>1 DEF From, TypeOK
    <3> QED BY <2>1, <3>1, <3>2, Zenon DEF AtKey
  <2>2. ASSUME NEW i \in Nat, From(queued', i, d), queued'[i].key = l PROVE AtKey(d, l)
    <3>1. CASE From(queued, i, d)
      <4>1. queued'[i] = queued[i]
        BY <1>1, <3>1 DEF From, TypeOK
      <4> QED BY <2>2, <3>1, <4>1, Zenon DEF AtKey
    <3>2. CASE /\ i = Len(queued) + 1
               /\ Head(incoming).kind = "get" /\ Head(incoming).client = d
      <4>1. From(incoming, 1, d)
        BY <1>1, <3>2, FromTail, Zenon DEF TypeOK
      <4>2. queued'[i] = Head(incoming) /\ Head(incoming) = incoming[1]
        BY <1>1, <3>2 DEF TypeOK
      <4> QED BY <2>2, <4>1, <4>2, Zenon DEF AtKey
    <3> QED BY <1>1, <2>2, <3>1, <3>2, FromAppend, Zenon DEF TypeOK
  <2> QED BY <1>1, <1>2, <2>1, <2>2, Zenon DEF AtKey
<1> QED BY <1>1, <1>2, KeysKept, Zenon

\* A request that is handled joins the listeners of its key, or has a future for it.
LEMMA OnRequestKeys ==
  ASSUME TypeOK, Tracked, KeyKept, on_request
  PROVE  KeyKept'
<1> DEFINE m == Head(queued)
<1>1. /\ queued' = Tail(queued) /\ incoming' = incoming
      /\ queued # <<>> /\ m \in Request
  BY QueueTypes, Zenon DEF on_request, TypeOK
<1>2. ASSUME NEW d \in Client, NEW l \in Key, NEW i \in Nat, From(queued', i, d),
             queued'[i].key = l
      PROVE  AtKey(d, l)
  <2>1. From(queued, i + 1, d) /\ i + 1 \in Nat
    BY <1>1, <1>2, FromTail DEF TypeOK
  <2>2. queued'[i] = queued[i + 1]
    BY <1>1, <1>2 DEF From, TypeOK
  <2> QED BY <1>2, <2>1, <2>2, Zenon DEF AtKey
<1>3. CASE m.kind = "pin"
  <2>1. UNCHANGED <<client, listeners, pending>>
    BY <1>3, Zenon DEF on_request
  <2>2. \A d \in Client, l \in Key : AtKey(d, l)' => AtKey(d, l)
    BY <1>1, <1>2, <2>1, ZenonT(60) DEF AtKey
  <2> QED BY <2>1, <2>2, KeysKept, Zenon
<1>4. CASE m.kind = "get"
  <2>1. PICK c \in Client, k \in Key : c = m.client /\ k = m.key
    BY <1>1, <1>4, MessageFields, Zenon
  <2>2. on_get(c, k)
    BY <1>4, <2>1, Zenon DEF on_request
  <2>3. AtKey(c, k)
    <3>1. From(queued, 1, c)
      BY <1>1, <1>4, <2>1, FromTail, Zenon DEF TypeOK
    <3>2. queued[1] = m
      BY <1>1 DEF TypeOK
    <3> QED BY <2>1, <3>1, <3>2, Zenon DEF AtKey
  <2> HIDE DEF m
  <2>4. \A d \in Client : client'[d].key = client[d].key
    <3>1. CASE UNCHANGED client
      BY <3>1, Zenon
    <3>2. CASE client' = answered({c}, db[k])
      BY <3>2, ZenonT(60) DEF answered, TypeOK, Thread
    <3> QED BY <2>2, <3>1, <3>2, Zenon DEF on_get
  <2>5. ASSUME NEW d \in Client, NEW l \in Key, AtKey(d, l)' PROVE AtKey(d, l)
    <3>1. CASE UNCHANGED <<listeners, pending>>
      BY <1>1, <1>2, <2>5, <3>1, Zenon DEF AtKey
    <3>2. CASE k \in Cached /\ request_cached(c, k)
      <4>1. l \in Cached /\ d \in listeners'[l] => d \in listeners[l] \/ (d = c /\ l = k)
        BY <3>2, Zenon DEF request_cached, TypeOK
      <4>2. pending'[d] # None /\ l \in Item /\ pending'[d].key = l =>
              pending[d] # None /\ pending[d].key = l
        <5>1. l \in Item => l # k
          BY <3>2, ForkAssumption, Zenon
        <5> QED BY <3>2, <5>1, Zenon DEF request_cached, new_future, TypeOK
      <4> QED BY <1>1, <1>2, <2>3, <2>5, <4>1, <4>2, Zenon DEF AtKey
    <3>3. CASE k \in Item /\ request_item(c, k)
      <4>1. UNCHANGED listeners
        BY <3>3, Zenon DEF request_item
      <4>2. pending'[d] # None /\ pending'[d].key = l =>
              (pending[d] # None /\ pending[d].key = l) \/ (d = c /\ l = k)
        BY <3>3, Zenon DEF request_item, new_future, TypeOK
      <4> QED BY <1>1, <1>2, <2>3, <2>5, <4>1, <4>2, ZenonT(60) DEF AtKey
    <3> QED BY <2>2, <3>1, <3>2, <3>3, Zenon DEF on_get
  <2> QED BY <2>4, <2>5, KeysKept, Zenon
<1> QED BY <1>1, <1>3, <1>4, Zenon DEF Request, Get, Pin

\* The answers leave the keys of the threads alone, and so does the provider.
LEMMA PollKeys ==
  ASSUME TypeOK, Tracked, KeyKept, NEW c \in Client, pending[c] # None,
         poll_request(c) \/ provider_replies(c)
  PROVE  KeyKept'
<1>1. UNCHANGED <<incoming, queued>>
  BY Zenon DEF poll_request, provider_replies
<1>2. \A d \in Client : client'[d].key = client[d].key
  <2>1. CASE UNCHANGED client
    BY <2>1, Zenon
  <2>2. ASSUME NEW cs, NEW v, client' = answered(cs, v)
        PROVE  \A d \in Client : client'[d].key = client[d].key
    BY <2>2, Zenon DEF answered, TypeOK, Thread
  <2> QED BY <2>1, <2>2, Zenon DEF poll_request, poll_ready, poll_not_ready, provider_replies,
                            client_vars
<1>3. \A d \in Client, l \in Cached : d \in listeners'[l] => d \in listeners[l]
  BY Zenon DEF poll_request, poll_ready, poll_not_ready, provider_replies, TypeOK
<1>4. \A d \in Client : pending'[d] # None => pending[d] # None /\ pending'[d].key = pending[d].key
  <2>1. pending[c] \in Future
    BY FutureTypes, Zenon
  <2>2. CASE pending' = [pending EXCEPT ![c] = None]
    BY <2>2, Zenon DEF TypeOK
  <2>3. CASE pending' = [pending EXCEPT ![c].polled = TRUE]
    BY <2>1, <2>3, Zenon DEF TypeOK, Future
  <2>4. ASSUME NEW r, pending' = [pending EXCEPT ![c].reply = r]
        PROVE  \A d \in Client : pending'[d] # None =>
                 pending[d] # None /\ pending'[d].key = pending[d].key
    BY <2>1, <2>4, Zenon DEF TypeOK, Future
  <2> QED BY <2>2, <2>3, <2>4, Zenon DEF poll_request, poll_ready, poll_not_ready, provider_replies
<1>5. \A d \in Client, l \in Key : AtKey(d, l)' => AtKey(d, l)
  BY <1>1, <1>3, <1>4, Zenon DEF AtKey
<1> QED BY <1>2, <1>5, KeysKept, Zenon

-----------------------------------------------------------------------------
(* What is fetched and cached is right *)

\* When nobody reads, no request is on its way.
LEMMA NoRequests ==
  ASSUME TypeOK, Tracked, no_reader
  PROVE  /\ \A i \in Nat : ~Kind(incoming, i, "get") /\ ~Kind(queued, i, "get")
         /\ \A c \in Client : pending[c] = None
<1>1. \A c \in Client : unsent(c) /\ pending[c] = None
  BY Zenon DEF no_reader, Tracked, OnePlace
<1>2. ASSUME NEW q \in Seq(Request), NEW i \in Nat, Kind(q, i, "get")
      PROVE  \E c \in Client : From(q, i, c)
  <2>1. q[i] \in Request
    BY <1>2 DEF Kind
  <2> QED BY <1>2, <2>1, MessageFields, Zenon DEF Kind, From
<1> QED BY <1>1, <1>2, Zenon DEF unsent, TypeOK

\* A step that changes neither the block nor what is fetched.
LEMMA RightKept ==
  ASSUME UNCHANGED <<locked, pinned, pending>>, FetchedRight
  PROVE  FetchedRight' /\ \A k \in Key : Right(k)' = Right(k)
  BY Zenon DEF FetchedRight, Right

\* The steps of the threads.
LEMMA ThreadsFresh ==
  ASSUME TypeOK, Tracked, Fresh, Threads, UNCHANGED locked
  PROVE  Fresh'
<1> USE DEF handler_vars
<1>1. ASSUME NEW c \in Client, NEW k \in Key, do_get(c, k) PROVE Fresh'
  <2>1. /\ UNCHANGED <<pinned, pending, db, queued, block_number>>
        /\ incoming' = Append(incoming, [kind |-> "get", client |-> c, key |-> k])
        /\ locked => no_reset
    BY <1>1, Zenon DEF do_get, send
  <2>2. FetchedRight' /\ \A l \in Key : Right(l)' = Right(l)
    BY <2>1, RightKept, Zenon DEF Fresh
  <2>3. no_reset => no_reset'
    BY <1>1, Zenon DEF do_get, no_reset, TypeOK, Idle
  <2>4. CachedRight'
    BY <2>1, <2>2, Zenon DEF Fresh, CachedRight, Key
  <2>5. locked => PinsFirst(incoming, queued, block_number, pinned)'
    BY <2>1, MessageTypes, GetSent, Zenon DEF Fresh, TypeOK
  <2>6. locked => ResetAlone'
    BY <2>1, <2>3, Zenon DEF no_reset, ResetAlone
  <2> QED BY <2>2, <2>4, <2>5, <2>6, Zenon DEF Fresh
<1>2. ASSUME NEW c \in Client, NEW b \in Block, set_pinned_block(c, b) PROVE Fresh'
  <2>1. /\ UNCHANGED <<pending, db, queued, block_number>>
        /\ incoming' = Append(incoming, [kind |-> "pin", block |-> b])
        /\ pinned' = b /\ (locked => no_reader)
        /\ client' = [client EXCEPT ![c] = [Idle EXCEPT !.pc = "clear"]]
    BY <1>2, Zenon DEF set_pinned_block, send
  <2>2. client'[c].pc = "clear" /\ \A d \in Client \ {c} : client'[d] = client[d]
    BY <2>1, Zenon DEF TypeOK, Idle
  <2>3. CASE locked
    <3>1. FetchedRight' /\ CachedRight'
      BY <2>1, <2>2, <2>3, NoRequests, Zenon DEF FetchedRight, CachedRight, no_reset
    <3>2. ResetAlone'
      BY <1>2, <2>2, <2>3, Zenon DEF ResetAlone, no_reader, set_pinned_block
    <3>3. PinsFirst(incoming', queued, block_number, b)
      <4> DEFINE m == [kind |-> "pin", block |-> b]
      <4>1. m \in Request /\ m.kind = "pin" /\ m.block = b
        BY MessageTypes, Zenon
      <4>2. incoming' = Append(incoming, m)
        BY <2>1, Zenon
      <4> HIDE DEF m
      <4>3. no_reader
        BY <1>2, <2>3, Zenon DEF set_pinned_block
      <4>4. \A i \in Nat : ~Kind(incoming, i, "get") /\ ~Kind(queued, i, "get")
        BY <4>3, NoRequests, Zenon
      <4> QED BY <2>3, <4>1, <4>2, <4>4, PinSent, Zenon DEF Fresh, TypeOK
    <3> QED BY <2>1, <2>3, <3>1, <3>2, <3>3, Zenon DEF Fresh
  <2>4. CASE ~locked
    BY <2>1, <2>4, Zenon DEF Fresh, FetchedRight, CachedRight, Right
  <2> QED BY <2>3, <2>4, Zenon
<1>3. ASSUME NEW c \in Client, recv(c) \/ drop(c) PROVE Fresh'
  <2>1. UNCHANGED <<pinned, pending, db, queued, block_number, incoming>>
    BY <1>3, Zenon DEF recv, drop
  <2>2. FetchedRight' /\ \A l \in Key : Right(l)' = Right(l)
    BY <2>1, RightKept, Zenon DEF Fresh
  <2>3. /\ client[c].pc # "clear" /\ client'[c].pc \in {"idle", "dropped"}
        /\ \A d \in Client \ {c} : client'[d] = client[d]
    BY <1>3 DEF recv, drop, TypeOK, Idle
  <2>4. CachedRight'
    BY <2>1, <2>2, <2>3, Zenon DEF Fresh, CachedRight, Key, no_reset
  <2>5. locked => ResetAlone'
    BY <2>3, Zenon DEF Fresh, ResetAlone
  <2> QED BY <2>1, <2>2, <2>4, <2>5, Zenon DEF Fresh
<1>4. ASSUME NEW c \in Client, clear(c) PROVE Fresh'
  <2>1. UNCHANGED <<pinned, pending, queued, block_number, incoming>> /\ db' = cleared
    BY <1>4, Zenon DEF clear
  <2>2. FetchedRight'
    BY <2>1, RightKept, Zenon DEF Fresh
  <2>3. CachedRight'
    BY <2>1, Zenon DEF CachedRight, cleared
  <2>4. /\ client[c].pc = "clear" /\ client'[c].pc = "idle"
        /\ \A d \in Client \ {c} : client'[d] = client[d]
    BY <1>4, Zenon DEF clear, TypeOK, Idle
  <2>5. locked => ResetAlone'
    BY <2>4, Zenon DEF Fresh, ResetAlone
  <2> QED BY <2>1, <2>2, <2>3, <2>5, Zenon DEF Fresh
<1> QED BY <1>1, <1>2, <1>3, <1>4, Zenon DEF Threads

\* Threads that wait are answered, which starts and ends no reset.
LEMMA AnswerAlone ==
  ASSUME TypeOK, NEW cs \in SUBSET Client, NEW v, client' = answered(cs, v),
         \A d \in cs : client[d].pc = "waiting"
  PROVE  (no_reset' <=> no_reset) /\ (ResetAlone => ResetAlone')
<1>1. \A d \in cs : client'[d].pc = "answered"
  BY Zenon DEF answered, TypeOK, Thread
<1>2. \A d \in Client \ cs : client'[d] = client[d]
  BY Zenon DEF answered
<1>3. no_reset' <=> no_reset
  BY <1>1, <1>2, Zenon DEF no_reset
<1>4. ResetAlone => ResetAlone'
  BY <1>1, <1>2, ZenonT(60) DEF ResetAlone
<1> QED BY <1>3, <1>4, Zenon

\* A message goes from the channel to the queue.
LEMMA ReceiveFresh ==
  ASSUME TypeOK, Fresh, receive, UNCHANGED locked
  PROVE  Fresh'
<1>1. /\ queued' = Append(queued, Head(incoming)) /\ incoming' = Tail(incoming)
      /\ incoming # <<>> /\ UNCHANGED <<client, pinned, pending, db, block_number>>
  BY Zenon DEF receive, client_vars
<1>2. FetchedRight' /\ \A l \in Key : Right(l)' = Right(l)
  BY <1>1, RightKept, Zenon DEF Fresh
<1>3. CachedRight' /\ (ResetAlone => ResetAlone')
  BY <1>1, <1>2, Zenon DEF Fresh, CachedRight, Key, no_reset, ResetAlone
<1>4. locked => PinsFirst(incoming, queued, block_number, pinned)'
  BY <1>1, MessageReceived, Zenon DEF Fresh, TypeOK
<1> QED BY <1>2, <1>3, <1>4, Zenon DEF Fresh

\* A request is fetched from the pinned block, since no reset is behind it.
LEMMA OnRequestFresh ==
  ASSUME TypeOK, Tracked, Fresh, on_request, UNCHANGED locked
  PROVE  Fresh'
<1> DEFINE m == Head(queued)
<1>1. /\ queued' = Tail(queued) /\ queued # <<>>
      /\ UNCHANGED <<incoming, pinned, db>> /\ m \in Request
  BY QueueTypes, Zenon DEF on_request, TypeOK
<1>2. \A l \in Key : Right(l)' = Right(l)
  BY <1>1, Zenon DEF Right
<1>3. locked => /\ m.kind = "get" => /\ block_number = pinned
                                     /\ PinsFirst(incoming, queued', block_number, pinned)
                /\ m.kind = "pin" => PinsFirst(incoming, queued', m.block, pinned)
  BY <1>1, MessageHandled, Zenon DEF Fresh, TypeOK
<1>4. CASE m.kind = "pin"
  <2>1. UNCHANGED <<client, pending>> /\ block_number' = m.block
    BY <1>4, Zenon DEF on_request
  <2>2. FetchedRight' /\ CachedRight' /\ (ResetAlone => ResetAlone')
    BY <1>1, <1>2, <2>1, RightKept, Zenon DEF Fresh, CachedRight, Key, no_reset, ResetAlone
  <2> QED BY <1>1, <1>3, <1>4, <2>1, <2>2, Zenon DEF Fresh
<1>5. CASE m.kind = "get"
  <2>1. PICK c \in Client, k \in Key : c = m.client /\ k = m.key
    BY <1>1, <1>5, MessageFields, Zenon
  <2>2. on_get(c, k) /\ UNCHANGED block_number
    BY <1>5, <2>1, Zenon DEF on_request
  <2>3. client[c].pc = "waiting"
    <3>1. From(queued, 1, c)
      BY <1>1, <1>5, <2>1, FromTail, ZenonT(60) DEF TypeOK
    <3> QED BY <2>1, <3>1, Zenon DEF Tracked, OnePlace, unsent
  <2>4. locked => PinsFirst(incoming, queued, block_number, pinned)' /\ block_number = pinned
    BY <1>1, <1>3, <1>5, <2>2, Zenon
  <2> HIDE DEF m
  <2>5. (no_reset' <=> no_reset) /\ (ResetAlone => ResetAlone')
    <3>1. CASE UNCHANGED client
      BY <3>1, Zenon DEF no_reset, ResetAlone
    <3>2. CASE client' = answered({c}, db[k])
      BY <2>1, <2>3, <3>2, AnswerAlone
    <3> QED BY <2>2, <3>1, <3>2, Zenon DEF on_get
  <2>6. CachedRight'
    BY <1>1, <1>2, <2>5, Zenon DEF Fresh, CachedRight, Key
  <2>7. Fetch(k, block_number) \in Right(k)
    BY <2>4, Zenon DEF Right, TypeOK
  <2>8. FetchedRight'
    <3>1. CASE UNCHANGED pending
      BY <1>1, <3>1, RightKept, Zenon DEF Fresh
    <3>2. CASE pending' = [pending EXCEPT ![c] = new_future(k)]
      <4> SUFFICES ASSUME NEW d \in Client, pending'[d] # None
                   PROVE  pending'[d].value \in Right(pending'[d].key)
        BY <1>1, Zenon DEF FetchedRight, Right
      <4>1. CASE d = c
        <5>1. pending'[d].key = k /\ pending'[d].value = Fetch(k, block_number)
          BY <3>2, <4>1, Zenon DEF new_future, TypeOK
        <5> QED BY <2>7, <5>1, Zenon
      <4>2. CASE d # c
        <5>1. pending'[d] = pending[d]
          BY <3>2, <4>2, Zenon DEF TypeOK
        <5> QED BY <5>1, Zenon DEF Fresh, FetchedRight
      <4> QED BY <4>1, <4>2, Zenon
    <3> QED BY <2>2, <3>1, <3>2, Zenon DEF on_get, request_cached, request_item
  <2> QED BY <2>4, <2>5, <2>6, <2>8, Zenon DEF Fresh
<1> QED BY <1>1, <1>4, <1>5, Zenon DEF Request, Get, Pin

\* The threads that an answer is for wait for its key.
LEMMA ListenersWait ==
  ASSUME TypeOK, Tracked, KeyKept, NEW c \in Client, pending[c] # None
  PROVE  /\ listeners_of(c) \subseteq Client
         /\ \A d \in listeners_of(c) :
              client[d].pc = "waiting" /\ client[d].key = pending[c].key
<1>1. pending[c].key \in Key
  BY FutureTypes, Zenon
<1>2. listeners_of(c) \subseteq Client
  BY Zenon DEF listeners_of, TypeOK
<1>3. \A d \in listeners_of(c) : AtKey(d, pending[c].key)
  BY <1>1, Zenon DEF listeners_of, AtKey, Key
<1> QED BY <1>1, <1>2, <1>3, AtKeyWaits, Zenon DEF KeyKept

\* A future keeps its key and value until it is taken out.
LEMMA FutureKept ==
  ASSUME TypeOK, NEW c \in Client, pending[c] # None,
         poll_request(c) \/ provider_replies(c)
  PROVE  \A d \in Client : pending'[d] # None =>
           /\ pending[d] # None
           /\ pending'[d].key = pending[d].key /\ pending'[d].value = pending[d].value
<1>1. pending[c] \in Future
  BY FutureTypes, Zenon
<1>2. CASE pending' = [pending EXCEPT ![c] = None]
  BY <1>2, Zenon DEF TypeOK
<1>3. CASE pending' = [pending EXCEPT ![c].polled = TRUE]
  BY <1>1, <1>3, Zenon DEF TypeOK, Future
<1>4. ASSUME NEW r, pending' = [pending EXCEPT ![c].reply = r]
      PROVE  \A d \in Client : pending'[d] # None =>
               /\ pending[d] # None
               /\ pending'[d].key = pending[d].key /\ pending'[d].value = pending[d].value
  BY <1>1, <1>4, Zenon DEF TypeOK, Future
<1> QED BY <1>2, <1>3, <1>4, Zenon DEF poll_request, poll_ready, poll_not_ready, provider_replies

\* What is cached is what was fetched.
LEMMA PollFresh ==
  ASSUME TypeOK, Tracked, KeyKept, Fresh, NEW c \in Client, pending[c] # None,
         poll_request(c) \/ provider_replies(c), UNCHANGED locked
  PROVE  Fresh'
<1>1. UNCHANGED <<incoming, queued, block_number, pinned>>
  BY Zenon DEF poll_request, provider_replies, client_vars
<1>2. \A l \in Key : Right(l)' = Right(l)
  BY <1>1, Zenon DEF Right
<1>3. FetchedRight'
  <2> SUFFICES ASSUME NEW d \in Client, pending'[d] # None
               PROVE  pending'[d].value \in Right(pending'[d].key)
    BY <1>1, Zenon DEF FetchedRight, Right
  <2> QED BY FutureKept, Zenon DEF Fresh, FetchedRight
<1>4. CASE UNCHANGED <<client, db>>
  <2>1. CachedRight' /\ (ResetAlone => ResetAlone')
    BY <1>2, <1>4, Zenon DEF Fresh, CachedRight, Key, no_reset, ResetAlone
  <2> QED BY <1>1, <1>3, <2>1, Zenon DEF Fresh
<1>5. CASE poll_ready(c)
  <2>1. (no_reset' <=> no_reset) /\ (ResetAlone => ResetAlone')
    BY <1>5, ListenersWait, AnswerAlone, Zenon DEF poll_ready
  <2>2. CachedRight'
    <3> SUFFICES ASSUME locked => no_reset, NEW k \in Cached, db'[k] # None
                 PROVE  db'[k] \in Right(k)
      BY <1>1, <2>1, Zenon DEF CachedRight, Right
    <3>1. CASE db'[k] = db[k]
      BY <3>1, Zenon DEF Fresh, CachedRight
    <3>2. CASE pending[c].key = k /\ db'[k] = pending[c].value
      BY <3>2, Zenon DEF Fresh, FetchedRight
    <3> QED BY <1>5, <3>1, <3>2, Zenon DEF poll_ready, cached, answer_of, TypeOK
  <2> QED BY <1>1, <1>3, <2>1, <2>2, Zenon DEF Fresh
<1> QED BY <1>4, <1>5, Zenon DEF poll_request, poll_not_ready, provider_replies, client_vars

\* Requests keep their keys, and what is fetched and cached is right.
LEMMA ReadStep == ReadInv /\ [Next]_<<locked, vars>> => ReadInv'
<1> SUFFICES ASSUME ReadInv, [Next]_<<locked, vars>> PROVE KeyKept' /\ Fresh'
  BY BundledStep, Zenon DEF ReadInv
<1> TypeOK /\ Tracked /\ KeyKept /\ Fresh /\ UNCHANGED locked
  BY Zenon DEF ReadInv, BundledInv, ToPoll, Next
<1>1. CASE Threads
  <2>1. ASSUME NEW c \in Client, NEW k \in Key, do_get(c, k) PROVE KeyKept'
    BY <2>1, DoGetKeys, Zenon
  <2>2. ASSUME NEW c \in Client, recv(c) \/ clear(c) \/ drop(c) PROVE KeyKept'
    <3>1. UNCHANGED <<incoming, queued, pending, listeners>>
      BY <2>2, Zenon DEF recv, clear, drop, handler_vars
    <3>2. \A d \in Client : client[d].pc = "waiting" => client'[d].key = client[d].key
      BY <2>2, Zenon DEF recv, clear, drop, TypeOK
    <3>3. \A d \in Client, k \in Key : AtKey(d, k)' => AtKey(d, k)
      BY <3>1, Zenon DEF AtKey
    <3> QED BY <3>2, <3>3, KeysKept, Zenon
  <2>3. ASSUME NEW c \in Client, NEW b \in Block, set_pinned_block(c, b) PROVE KeyKept'
    <3> DEFINE m == [kind |-> "pin", block |-> b]
    <3>1. m \in Request /\ m.kind = "pin"
      BY MessageTypes, Zenon
    <3>2. incoming' = Append(incoming, m) /\ UNCHANGED <<queued, pending, listeners>>
      BY <2>3, Zenon DEF set_pinned_block, send, handler_vars
    <3> HIDE DEF m
    <3>3. \A d \in Client : client[d].pc = "waiting" => client'[d].key = client[d].key
      BY <2>3, Zenon DEF set_pinned_block, TypeOK
    <3>4. ASSUME NEW d \in Client, NEW i \in Nat, From(incoming', i, d)
          PROVE  From(incoming, i, d) /\ incoming'[i] = incoming[i]
      <4>1. From(incoming, i, d)
        BY <3>1, <3>2, <3>4, FromAppend, Zenon DEF TypeOK
      <4> QED BY <3>1, <3>2, <4>1 DEF From, TypeOK
    <3>5. \A d \in Client, k \in Key : AtKey(d, k)' => AtKey(d, k)
      BY <3>2, <3>4, Zenon DEF AtKey
    <3> QED BY <3>3, <3>5, KeysKept, Zenon
  <2> QED BY <1>1, <2>1, <2>2, <2>3, ThreadsFresh, Zenon DEF Threads
<1>2. CASE poll \/ drained \/ received \/ finish \/ poll_end \/ UNCHANGED <<locked, vars>>
  <2>1. UNCHANGED <<client, incoming, queued, pending, listeners, block_number, pinned, db>>
    BY <1>2, Zenon DEF poll, drained, received, finish, poll_end, vars, client_vars, handler_vars
  <2>2. KeyKept'
    BY <2>1, Zenon DEF KeyKept, AtKey
  <2>3. FetchedRight' /\ \A l \in Key : Right(l)' = Right(l)
    BY <2>1, RightKept, Zenon DEF Fresh
  <2>4. CachedRight' /\ (ResetAlone => ResetAlone')
    BY <2>1, <2>3, Zenon DEF Fresh, CachedRight, Key, no_reset, ResetAlone
  <2> QED BY <2>1, <2>2, <2>3, <2>4, Zenon DEF Fresh
<1>3. CASE receive
  BY <1>3, ReceiveKeys, ReceiveFresh, Zenon
<1>4. CASE on_request
  BY <1>4, OnRequestKeys, OnRequestFresh, Zenon
<1>5. ASSUME NEW c \in Client, poll_request(c) \/ provider_replies(c)
      PROVE  KeyKept' /\ Fresh'
  <2>1. pending[c] # None
    BY <1>5, Zenon DEF poll_request, provider_replies, ReadInv, BundledInv, ToPoll
  <2> QED BY <1>5, <2>1, PollKeys, PollFresh, Zenon
<1> QED BY <1>1, <1>2, <1>3, <1>4, <1>5, Zenon DEF Next, Handler

\* At the start nothing is requested or cached.
LEMMA InitRead == Init => ReadInv
<1> SUFFICES ASSUME Init PROVE KeyKept /\ Fresh
  BY InitBundled, Zenon DEF ReadInv
<1>1. \A i \in Nat : /\ \A x : ~Kind(incoming, i, x) /\ ~Kind(queued, i, x)
                     /\ \A c \in Client : ~From(incoming, i, c) /\ ~From(queued, i, c)
  BY DEF Init, Kind, From
<1>2. KeyKept
  BY <1>1, Zenon DEF Init, KeyKept, AtKey
<1>3. PinsFirst(incoming, queued, block_number, pinned)
  BY <1>1, Zenon DEF Init, PinsFirst, LastPinIs, GetsLast, NoPin
<1>4. ResetAlone /\ FetchedRight /\ CachedRight
  BY Zenon DEF Init, ResetAlone, FetchedRight, CachedRight, Idle
<1> QED BY <1>2, <1>3, <1>4, Zenon DEF Fresh

-----------------------------------------------------------------------------
(* The refinement *)

\* The answers of the abstract chain are those that are right here.
LEMMA SourceRight ==
  ASSUME TypeOK, NEW k \in Key
  PROVE  [s \in Block \union {AnyBlock} |-> [l \in Key |->
            IF s = AnyBlock THEN {Fetch(l, b) : b \in Block} ELSE {Fetch(l, s)}]]
           [pinned_source][k] = Right(k)
<1>1. pinned_source \in Block \union {AnyBlock} /\ AnyBlock \notin Block
  BY ForkAssumption, Zenon DEF pinned_source, AnyBlock, TypeOK
<1> QED BY <1>1, Zenon DEF pinned_source, Right, TypeOK

\* A step in which each thread moves as a reader does.
LEMMA AllMove ==
  ASSUME \A d \in Client : Reads!Moves(as_reader(client[d]), as_reader(client'[d])),
         UNCHANGED pinned_source
  PROVE  Reads!Next
  BY Zenon DEF Reads!Next, Reads!Read

\* A thread that is answered with a right value, or told of a failure.
LEMMA AnswerMoves ==
  ASSUME TypeOK, NEW cs \in SUBSET Client, NEW k \in Key, NEW v \in Right(k) \union {Failed},
         client' = answered(cs, v), UNCHANGED pinned_source,
         \A d \in cs : client[d].pc = "waiting" /\ client[d].key = k
  PROVE  Reads!Next
<1>1. ASSUME NEW d \in cs
      PROVE  Reads!IsAnswered(as_reader(client[d]), as_reader(client'[d]))
  <2>1. client[d] \in Thread /\ client[d].pc = "waiting" /\ client[d].key = k
    BY Zenon DEF TypeOK
  <2>2. client'[d] = [client[d] EXCEPT !.pc = "answered", !.answer = v]
    BY Zenon DEF answered
  <2>3. client'[d].pc = "answered" /\ client'[d].key = k /\ client'[d].answer = v
    BY <2>1, <2>2, Zenon DEF Thread
  <2>4. as_reader(client'[d]) = Reads!Answered(k, v)
    BY <2>3, Zenon DEF as_reader, Reads!Answered
  <2>5. as_reader(client[d]).pc = "waiting" /\ as_reader(client[d]).query = k
    BY <2>1, Zenon DEF as_reader
  <2> QED BY <2>4, <2>5, SourceRight, Zenon DEF Reads!IsAnswered
<1>2. \A d \in Client \ cs : client'[d] = client[d]
  BY Zenon DEF answered
<1>3. \A d \in Client : Reads!Moves(as_reader(client[d]), as_reader(client'[d]))
  BY <1>1, <1>2, Zenon DEF Reads!Moves
<1> QED BY <1>3, AllMove, Zenon

\* A step of one thread that is a move of its reader.
LEMMA OneMoves ==
  ASSUME TypeOK, NEW c \in Client, NEW new, client' = [client EXCEPT ![c] = new],
         Reads!Moves(as_reader(client[c]), as_reader(new)), UNCHANGED pinned_source
  PROVE  Reads!Next
<1>1. \A d \in Client : client'[d] = IF d = c THEN new ELSE client[d]
  BY Zenon DEF TypeOK
<1>2. \A d \in Client : Reads!Moves(as_reader(client[d]), as_reader(client'[d]))
  BY <1>1, Zenon DEF Reads!Moves
<1> QED BY <1>2, AllMove, Zenon

\* What the threads do.
LEMMA ThreadsMove ==
  ASSUME TypeOK, Threads, UNCHANGED locked
  PROVE  Reads!Next \/ UNCHANGED Reads!vars
<1>1. ASSUME NEW c \in Client, NEW k \in Key, do_get(c, k) PROVE Reads!Next
  <2> DEFINE new == [Idle EXCEPT !.pc = "waiting", !.key = k]
  <2>1. client' = [client EXCEPT ![c] = new] /\ client[c].pc = "idle"
        /\ UNCHANGED pinned_source
    BY <1>1, Zenon DEF do_get, pinned_source
  <2>2. as_reader(new) = Reads!Waiting(k) /\ as_reader(client[c]) = Reads!Idle
    BY <2>1, Zenon DEF as_reader, Idle, Reads!Waiting, Reads!Idle
  <2> HIDE DEF new
  <2>3. Reads!Moves(as_reader(client[c]), as_reader(new))
    BY <2>2, Zenon DEF Reads!Moves, Reads!Asks
  <2> QED BY <2>1, <2>3, OneMoves, Zenon
<1>2. ASSUME NEW c \in Client, recv(c) PROVE Reads!Next
  <2>1. client' = [client EXCEPT ![c] = Idle] /\ client[c].pc = "answered"
        /\ UNCHANGED pinned_source
    BY <1>2, Zenon DEF recv, pinned_source
  <2>2. as_reader(client[c]).pc = "answered" /\ as_reader(Idle) = Reads!Idle
    BY <2>1, Zenon DEF as_reader, Idle, Reads!Idle
  <2>3. Reads!Moves(as_reader(client[c]), as_reader(Idle))
    BY <2>2, Zenon DEF Reads!Moves, Reads!GoesOn
  <2> QED BY <2>1, <2>3, OneMoves, Zenon
<1>3. ASSUME NEW c \in Client, clear(c) \/ drop(c) PROVE Reads!Next
  <2>1. PICK new \in {Idle, [Idle EXCEPT !.pc = "dropped"]} :
          client' = [client EXCEPT ![c] = new]
    BY <1>3, Zenon DEF clear, drop
  <2>2. client[c].pc \in {"idle", "clear"} /\ UNCHANGED pinned_source
    BY <1>3, Zenon DEF clear, drop, pinned_source
  <2>3. as_reader(new) = as_reader(client[c])
    BY <2>2 DEF as_reader, Idle
  <2> QED BY <2>1, <2>2, <2>3, OneMoves, Zenon DEF Reads!Moves
<1>4. ASSUME NEW c \in Client, NEW b \in Block, set_pinned_block(c, b)
      PROVE  Reads!Next
  <2> DEFINE new == [Idle EXCEPT !.pc = "clear"]
  <2>1. client' = [client EXCEPT ![c] = new] /\ client[c].pc = "idle" /\ pinned' = b
    BY <1>4, Zenon DEF set_pinned_block
  <2>2. as_reader(new) = as_reader(client[c])
    BY <2>1, Zenon DEF as_reader, Idle
  <2> HIDE DEF new
  <2>3. CASE ~locked
    <3>1. UNCHANGED pinned_source
      BY <2>3, Zenon DEF pinned_source
    <3> QED BY <2>1, <2>2, <3>1, OneMoves, Zenon DEF Reads!Moves
  <2>4. CASE locked
    <3>1. \A d \in Client : client'[d] = IF d = c THEN new ELSE client[d]
      BY <2>1, Zenon DEF TypeOK
    <3>2. \A d \in Client : as_reader(client'[d]) = as_reader(client[d])
      BY <2>2, <3>1, Zenon
    <3>3. \A d \in Client : as_reader(client[d]) = Reads!Idle
      BY <1>4, <2>4, Zenon DEF set_pinned_block, no_reader, as_reader, Reads!Idle
    <3>4. pinned_source' \in Block \union {AnyBlock}
      BY <2>1, <2>4, Zenon DEF pinned_source
    <3> QED BY <3>2, <3>3, <3>4, Zenon DEF Reads!Next, Reads!ChangeBlock
  <2> QED BY <2>3, <2>4, Zenon
<1> QED BY <1>1, <1>2, <1>3, <1>4, Zenon DEF Threads

\* What the handler does.
LEMMA NextReads ==
  ReadInv /\ [Next]_<<locked, vars>> => [Reads!Next]_(Reads!vars)
<1> SUFFICES ASSUME ReadInv, [Next]_<<locked, vars>>
             PROVE  Reads!Next \/ UNCHANGED Reads!vars
  OBVIOUS
<1> TypeOK /\ Tracked /\ KeyKept /\ Fresh /\ UNCHANGED locked
  BY Zenon DEF ReadInv, BundledInv, ToPoll, Next
<1>1. CASE UNCHANGED client_vars
  <2>1. UNCHANGED <<client, pinned_source>>
    BY <1>1, Zenon DEF client_vars, pinned_source
  <2> QED BY <2>1, Zenon DEF Reads!vars
<1>2. CASE on_request /\ ~UNCHANGED client
  <2> DEFINE m == Head(queued)
  <2>1. m \in Request /\ queued # <<>> /\ m.kind = "get" /\ UNCHANGED pinned_source
    BY <1>2, QueueTypes, Zenon DEF on_request, TypeOK, pinned_source
  <2>2. PICK c \in Client, k \in Key : c = m.client /\ k = m.key
    BY <2>1, MessageFields, Zenon
  <2>3. /\ on_get(c, k)
        /\ From(queued, 1, c) /\ queued[1] = m
    BY <1>2, <2>1, <2>2, FromTail, SMTT(40) DEF on_request, TypeOK
  <2>4. client[c].pc = "waiting" /\ client[c].key = k
    BY <2>2, <2>3, AtKeyWaits, SMTT(60) DEF AtKey, KeyKept
  <2> HIDE DEF m
  <2>5. k \in Cached /\ db[k] # None /\ client' = answered({c}, db[k])
    BY <1>2, <2>3, Zenon DEF on_get
  <2>6. db[k] \in Right(k)
    BY <2>4, <2>5, Zenon DEF Fresh, CachedRight, ResetAlone, no_reset
  <2> QED BY <2>1, <2>2, <2>4, <2>5, <2>6, AnswerMoves
<1>3. ASSUME NEW c \in Client, poll_request(c), poll_ready(c) PROVE Reads!Next
  <2>1. pending[c] # None /\ UNCHANGED pinned_source
    BY <1>3, Zenon DEF poll_request, ReadInv, BundledInv, ToPoll, pinned_source
  <2>2. pending[c].key \in Key
    BY <2>1, FutureTypes, Zenon
  <2>3. answer_of(c) \in Right(pending[c].key) \union {Failed}
    BY <2>1, Zenon DEF answer_of, Fresh, FetchedRight
  <2>4. client' = answered(listeners_of(c), answer_of(c))
    BY <1>3, Zenon DEF poll_ready
  <2> QED BY <2>1, <2>2, <2>3, <2>4, ListenersWait, AnswerMoves
<1>4. CASE Handler
  BY <1>1, <1>2, <1>3, <1>4, Zenon DEF Handler, poll, drained, received, receive, finish,
     poll_end, poll_request, poll_not_ready, on_request, client_vars
<1> QED BY <1>1, <1>4, ThreadsMove, Zenon DEF Next, provider_replies, vars

\* The forked backend implements a direct read of the chain: with the cache, the
\* bundling of requests, the channel and the resets, every behaviour of the threads is
\* one of readers that ask the chain at the block that is pinned.
THEOREM ImplementsReads == Spec => ReadsFresh
<1>1. Init => Reads!Init
  BY DEF Init, Reads!Init, Reads!Idle, as_reader, Idle, pinned_source
<1> QED
  BY <1>1, InitRead, ReadStep, NextReads, PTL DEF Spec, ReadsFresh, Reads!Spec
=============================================================================
