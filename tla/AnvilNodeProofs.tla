--------------------------- MODULE AnvilNodeProofs ---------------------------
(***************************************************************************)
(* The pool, and the node around it, for any transactions, senders, prices,*)
(* clients and workers.                                                    *)
(*                                                                         *)
(* The pool is consistent, its iterator reaches every ready transaction    *)
(* and no operation loses one.  The links between ready transactions do go *)
(* stale; what is needed of them is that they lead from a nonce to the     *)
(* next one, and that a transaction is independent or linked to the ready  *)
(* one that provides what it requires.                                     *)
(*                                                                         *)
(* In the node, the pool keeps these properties, and as long as clients    *)
(* submit raw transactions what it offers to a block is right: independent *)
(* transactions are due, a block takes transactions in the order of their  *)
(* nonces, and what it reports as invalid is used up.                      *)
(***************************************************************************)
EXTENDS AnvilNode, TLAPS

\* The operation in progress.
Operations ==
  [name : {"idle", "add", "prune"}, markers : Seq(Marker), imports : Seq(SUBSET Hash),
   head : Hash \cup {None}, queue : Seq(SUBSET Hash), is_new_tx : BOOLEAN,
   promoted : SUBSET Hash, removed : SUBSET Hash]

\* The types of what the properties depend on.  A transaction requires nothing or
\* the marker before its own.
Types ==
  /\ requires \in [Hash -> Marker \cup {None}]
  /\ \A h \in Hash : requires[h] \in required_marker_choices(h)
  /\ required_markers \in [Marker -> SUBSET Hash]
  /\ waiting_queue \subseteq Hash
  /\ provided_markers \in [Marker -> Hash \cup {None}]
  /\ ready_tx \subseteq Hash
  /\ unlocks \in [Hash -> [Hash -> Nat]]
  /\ requires_offset \in [Hash -> Nat]
  /\ op \in Operations

\* The transactions that a new one brings with it have higher nonces, so that none
\* of them replaces it.  The transaction an operation is for is looked at first.
Stage(o) ==
  /\ o.head = None => o.queue = <<>>
  /\ o.markers # <<>> => o.head = None
  /\ o.name # "prune" => o.markers = <<>>
  /\ o.is_new_tx => o.head # None /\ o.queue = <<{o.head}>> /\ o.removed = {}
  /\ ~o.is_new_tx => \A k \in InBatches(o.queue) :
                       sender[k] = sender[o.head] /\ nonce[k] > nonce[o.head]

\* A link leads to the next nonce of the sender.
Links ==
  \A p, k \in Hash : unlocks[p][k] > 0 => sender[k] = sender[p] /\ nonce[k] = nonce[p] + 1

\* A ready transaction is independent, or follows the one that provides what it
\* requires.
Follows(k) ==
  provider(k) # None /\ unlocks[provider(k)][k] > 0 /\ requires_offset[k] = 0

Reached == \A k \in ready_tx : k \in independent_transactions \/ Follows(k)

IInv == Types /\ PoolConsistent /\ Stage(op) /\ Links /\ Reached

\* What the lemmas use of numbers and of finite sets: a non-empty set of natural numbers
\* has a least one, and the sets of transactions have a size, one less without a member.
\* CountingHolds shows it at the end of the module, from the library.
Counting ==
  /\ \A T \in SUBSET Nat : T # {} => \E n \in T : \A k \in T : ~(k < n)
  /\ \A U \in SUBSET Hash : /\ Cardinality(U) \in Nat
                            /\ \A h \in U : Cardinality(U \ {h}) = Cardinality(U) - 1

-----------------------------------------------------------------------------
(* Work lists *)

Disjoint(q) == \A i, j \in DOMAIN q : i # j => q[i] \cap q[j] = {}

\* The transactions of a list.
LEMMA Members == \A q, x : x \in InBatches(q) <=> \E i \in DOMAIN q : x \in q[i]
  BY Zenon DEF InBatches

\* The batches of short lists.
LEMMA ShortLists ==
  /\ InBatches(<<>>) = {}
  /\ \A h : InBatches(<<{h}>>) = {h}
  /\ Disjoint(<<>>) /\ \A h : Disjoint(<<{h}>>)
  BY DEF InBatches, Disjoint

\* Short lists are work lists.
LEMMA ListTypes ==
  /\ <<>> \in Seq(SUBSET Hash) /\ \A h \in Hash : <<{h}>> \in Seq(SUBSET Hash)
  /\ {} \in SUBSET Hash /\ TRUE \in BOOLEAN /\ FALSE \in BOOLEAN
  OBVIOUS

\* A batch is put at the end of a list, unless it is empty.
LEMMA Enqueued ==
  ASSUME NEW q \in Seq(SUBSET Hash), NEW batch \in SUBSET Hash
  PROVE  /\ Enqueue(q, batch) \in Seq(SUBSET Hash)
         /\ InBatches(Enqueue(q, batch)) = InBatches(q) \cup batch
         /\ Disjoint(q) /\ batch \cap InBatches(q) = {} => Disjoint(Enqueue(q, batch))
<1>1. CASE batch = {}
  BY <1>1 DEF Enqueue
<1>2. CASE batch # {}
  <2> DEFINE e == Append(q, batch)
  <2>1. /\ e \in Seq(SUBSET Hash) /\ Enqueue(q, batch) = e /\ Len(e) = Len(q) + 1
        /\ \A i \in 1..Len(q) : e[i] = q[i]
        /\ e[Len(q) + 1] = batch
        /\ DOMAIN q = 1..Len(q) /\ DOMAIN e = 1..(Len(q) + 1) /\ Len(q) \in Nat
    BY <1>2 DEF Enqueue
  <2> HIDE DEF e
  <2>2. \A i \in DOMAIN e : i \in DOMAIN q \/ i = Len(q) + 1
    BY <2>1
  <2>3. \A i \in DOMAIN q : i \in DOMAIN e /\ e[i] = q[i]
    BY <2>1
  <2>4. Len(q) + 1 \in DOMAIN e
    BY <2>1
  <2>5. InBatches(e) = InBatches(q) \cup batch
    BY <2>1, <2>2, <2>3, <2>4, ZenonT(60) DEF InBatches
  <2>6. ASSUME Disjoint(q), batch \cap InBatches(q) = {} PROVE Disjoint(e)
    <3>1. \A i \in DOMAIN q : q[i] \cap batch = {}
      BY <2>6, ZenonT(60) DEF InBatches
    <3> QED BY <2>1, <2>2, <2>3, <2>6, <3>1, ZenonT(60) DEF Disjoint
  <2> QED BY <2>1, <2>5, <2>6
<1> QED BY <1>1, <1>2

\* A transaction is taken from the first batch of a list.
LEMMA Dequeued ==
  ASSUME NEW q \in Seq(SUBSET Hash), q # <<>>, NEW h \in q[1], Disjoint(q)
  PROVE  /\ Dequeue(q, h) \in Seq(SUBSET Hash)
         /\ InBatches(Dequeue(q, h)) = InBatches(q) \ {h}
         /\ Disjoint(Dequeue(q, h))
         /\ h \in InBatches(q)
         /\ q = <<{h}>> => Dequeue(q, h) = <<>>
<1>1. /\ Len(q) \in Nat /\ Len(q) >= 1 /\ DOMAIN q = 1..Len(q) /\ 1 \in DOMAIN q
      /\ \A i \in DOMAIN q : q[i] \in SUBSET Hash
  OBVIOUS
<1>2. \A i \in DOMAIN q : i # 1 => h \notin q[i]
  BY <1>1, Zenon DEF Disjoint
<1>3. CASE q[1] = {h}
  <2> DEFINE t == Tail(q)
  <2>1. /\ t \in Seq(SUBSET Hash) /\ Dequeue(q, h) = t
        /\ DOMAIN t = 1..(Len(q) - 1) /\ \A i \in 1..(Len(q) - 1) : t[i] = q[i + 1]
    BY <1>1, <1>3 DEF Dequeue
  <2> HIDE DEF t
  <2>2. \A i \in DOMAIN t : i + 1 \in DOMAIN q /\ i + 1 # 1 /\ t[i] = q[i + 1]
    BY <1>1, <2>1
  <2>3. \A j \in DOMAIN q : j # 1 => \E i \in DOMAIN t : t[i] = q[j]
    <3> SUFFICES ASSUME NEW j \in DOMAIN q, j # 1 PROVE \E i \in DOMAIN t : t[i] = q[j]
      OBVIOUS
    <3>1. j - 1 \in DOMAIN t /\ t[j - 1] = q[(j - 1) + 1] /\ (j - 1) + 1 = j
      BY <1>1, <2>1
    <3> QED BY <3>1
  <2>4. InBatches(t) = InBatches(q) \ {h}
    <3>1. ASSUME NEW x \in InBatches(t) PROVE x \in InBatches(q) \ {h}
      <4>1. PICK i \in DOMAIN t : x \in t[i]
        BY <3>1, Members, Zenon
      <4>2. i + 1 \in DOMAIN q /\ x \in q[i + 1] /\ h \notin q[i + 1]
        BY <1>2, <2>2, <4>1, Zenon
      <4> QED BY <4>2, Members, Zenon
    <3>2. ASSUME NEW x \in InBatches(q), x # h PROVE x \in InBatches(t)
      <4>1. PICK j \in DOMAIN q : x \in q[j]
        BY <3>2, Members, Zenon
      <4>2. j # 1
        BY <1>3, <3>2, <4>1
      <4> QED BY <2>3, <4>1, <4>2, Members, Zenon
    <3> QED BY <3>1, <3>2, Zenon
  <2>5. Disjoint(t)
    <3> SUFFICES ASSUME NEW i \in DOMAIN t, NEW j \in DOMAIN t, i # j
                 PROVE  t[i] \cap t[j] = {}
      BY DEF Disjoint
    <3>1. i + 1 # j + 1
      BY <2>1
    <3> QED BY <2>2, <3>1 DEF Disjoint
  <2>6. q = <<{h}>> => t = <<>>
    BY DEF t
  <2>7. h \in InBatches(q)
    BY <1>1, Members, Zenon
  <2> QED BY <2>1, <2>4, <2>5, <2>6, <2>7, Zenon
<1>4. CASE q[1] # {h}
  <2> DEFINE t == [q EXCEPT ![1] = @ \ {h}]
  <2>1. /\ t \in Seq(SUBSET Hash) /\ Dequeue(q, h) = t /\ DOMAIN t = DOMAIN q
        /\ t[1] = q[1] \ {h} /\ \A i \in DOMAIN q : i # 1 => t[i] = q[i]
    BY <1>1, <1>4 DEF Dequeue
  <2> HIDE DEF t
  <2>2. InBatches(t) = InBatches(q) \ {h}
    <3>1. \A i \in DOMAIN q : t[i] = q[i] \ {h}
      BY <1>1, <1>2, <2>1
    <3>2. ASSUME NEW x \in InBatches(t) PROVE x \in InBatches(q) \ {h}
      <4>1. PICK i \in DOMAIN t : x \in t[i]
        BY <3>2, Members, Zenon
      <4>2. i \in DOMAIN q /\ x \in q[i] /\ x # h
        BY <2>1, <3>1, <4>1
      <4> QED BY <4>2, Members, Zenon
    <3>3. ASSUME NEW x \in InBatches(q), x # h PROVE x \in InBatches(t)
      <4>1. PICK i \in DOMAIN q : x \in q[i]
        BY <3>3, Members, Zenon
      <4>2. i \in DOMAIN t /\ x \in t[i]
        BY <2>1, <3>1, <3>3, <4>1
      <4> QED BY <4>2, Members, Zenon
    <3> QED BY <3>2, <3>3, Zenon
  <2>3. \A i \in DOMAIN q : t[i] \subseteq q[i]
    BY <1>1, <2>1, Zenon
  <2>4. Disjoint(t)
    BY <2>1, <2>3 DEF Disjoint
  <2>5. q # <<{h}>>
    BY <1>4
  <2>6. h \in InBatches(q)
    BY <1>1, Members, Zenon
  <2> QED BY <2>1, <2>2, <2>4, <2>5, <2>6, Zenon
<1> QED BY <1>3, <1>4

-----------------------------------------------------------------------------
(* Operations *)

\* An operation that is finished.
LEMMA IdleOperation ==
  /\ Idle \in Operations /\ Stage(Idle)
  /\ Idle.name = "idle" /\ Idle.markers = <<>> /\ Idle.imports = <<>> /\ Idle.queue = <<>>
  /\ Idle.head = None /\ Idle.removed = {} /\ Idle.is_new_tx = FALSE
  /\ InFlight(Idle) = {}
<1>1. /\ Idle \in Operations
      /\ Idle.name = "idle" /\ Idle.markers = <<>> /\ Idle.imports = <<>> /\ Idle.queue = <<>>
      /\ Idle.head = None /\ Idle.removed = {} /\ Idle.is_new_tx = FALSE
  BY DEF Idle, Operations
<1> QED BY <1>1, ShortLists DEF Stage, InFlight

\* Releasing the lock changes nothing that is left to do.
LEMMA Resumed ==
  ASSUME NEW o \in Operations, Stage(o)
  PROVE  /\ Resume(o) \in Operations /\ Stage(Resume(o))
         /\ Resume(o).queue = o.queue /\ Resume(o).imports = o.imports
         /\ Resume(o).removed \subseteq o.removed /\ Resume(o).head = o.head
         /\ InFlight(Resume(o)) = InFlight(o)
  BY IdleOperation, Zenon DEF Resume, InFlight

-----------------------------------------------------------------------------
(* Markers *)

\* The marker of a transaction.
LEMMA Provides ==
  /\ \A h \in Hash : /\ provides(h) \in Marker /\ provides(h) # None
                     /\ provides(h)[1] = nonce[h] /\ provides(h)[2] = sender[h]
                     /\ nonce[h] \in Nat
  /\ \A h, k \in Hash : provides(h) = provides(k) <=> nonce[h] = nonce[k] /\ sender[h] = sender[k]
  BY TxAssumption DEF provides, to_marker, Marker, Nonce

\* The marker a transaction may require.
LEMMA Choices ==
  ASSUME NEW h \in Hash, NEW r \in required_marker_choices(h)
  PROVE  \/ r = None
         \/ r \in Marker /\ r # None /\ r[1] = nonce[h] - 1 /\ r[2] = sender[h]
  BY TxAssumption DEF required_marker_choices

\* A required marker is that of the nonce before.
LEMMA RequiredIs ==
  ASSUME NEW p \in Hash, NEW k \in Hash, provides(p) \in required_marker_choices(k)
  PROVE  sender[k] = sender[p] /\ nonce[k] = nonce[p] + 1
<1>1. provides(p)[1] = nonce[k] - 1 /\ provides(p)[2] = sender[k]
  BY Provides, Choices
<1>2. provides(p)[1] = nonce[p] /\ provides(p)[2] = sender[p] /\ nonce[p] \in Nat /\ nonce[k] \in Nat
  BY Provides
<1> QED BY <1>1, <1>2

\* The transaction that provides what another one requires.
LEMMA ProviderIs ==
  ASSUME Types, MarkersExact, NEW k \in Hash, provider(k) # None
  PROVE  /\ provider(k) \in ready_tx /\ provider(k) \in Hash
         /\ requires[k] # None /\ requires[k] \in Marker
         /\ provided_markers[requires[k]] = provider(k)
         /\ provides(provider(k)) = requires[k]
         /\ sender[k] = sender[provider(k)] /\ nonce[k] = nonce[provider(k)] + 1
         /\ nonce[provider(k)] \in Nat
<1>1. /\ requires[k] # None /\ provider(k) = provided_markers[requires[k]]
      /\ requires[k] \in Marker /\ requires[k] \in required_marker_choices(k)
  BY Zenon DEF provider, Types
<1>2. provider(k) \in ready_tx /\ provides(provider(k)) = requires[k] /\ provider(k) \in Hash
  BY <1>1, Zenon DEF MarkersExact, Types
<1> QED BY <1>1, <1>2, RequiredIs, Provides

\* Two ready transactions have different markers.
LEMMA OneProvider ==
  ASSUME MarkersExact, NEW p \in ready_tx, NEW q \in ready_tx, provides(p) = provides(q)
  PROVE  p = q
  BY Zenon DEF MarkersExact

\* Requirements of the transactions that stay are kept.
LEMMA Forgotten ==
  ASSUME Types, ForgetDropped
  PROVE  /\ requires' \in [Hash -> Marker \cup {None}]
         /\ \A h \in Hash : requires'[h] \in required_marker_choices(h)
         /\ \A h \in Hash : h \in waiting_queue' \cup ready_tx' \cup InFlight(op') =>
                              requires'[h] = requires[h]
<1>1. \A h \in Hash : None \in required_marker_choices(h)
  BY Zenon DEF required_marker_choices
<1>2. requires' \in [Hash -> Marker \cup {None}]
  BY DEF ForgetDropped, Types
<1>3. \A h \in Hash : requires'[h] = IF h \in waiting_queue' \cup ready_tx' \cup InFlight(op')
                                     THEN requires[h] ELSE None
  BY DEF ForgetDropped
<1> QED BY <1>1, <1>2, <1>3, Zenon DEF Types

-----------------------------------------------------------------------------
(* ReadyTransactions *)

ReadyTypes ==
  /\ provided_markers \in [Marker -> Hash \cup {None}]
  /\ ready_tx \subseteq Hash
  /\ unlocks \in [Hash -> [Hash -> Nat]]
  /\ requires_offset \in [Hash -> Nat]

\* What holds of the ready transactions alone.
ReadyInv == ReadyTypes /\ MarkersExact /\ Links /\ Reached

\* The requirements of the ready transactions are kept.
Kept == \A k \in ready_tx' : requires'[k] = requires[k]

\* Taking removed transactions out of the links touches no link between others.
LEMMA Unlinked ==
  ASSUME Types, NEW removed, NEW provided, NEW f, f = unlink(removed, provided)
  PROVE  /\ f \in [Hash -> [Hash -> Nat]]
         /\ \A p, k \in Hash : /\ f[p][k] > 0 => unlocks[p][k] > 0
                               /\ p \notin removed /\ k # p => f[p][k] = unlocks[p][k]
<1>1. \A n \in Nat : Dec(n) \in Nat /\ (Dec(n) > 0 => n > 0)
  BY DEF Dec
<1>2. \A p, k \in Hash : unlocks[p][k] \in Nat
  BY DEF Types
<1>3. \A p, k \in Hash :
         f[p][k] = IF p \in removed THEN 0
                   ELSE IF k = p /\ \E h \in removed : requires[h] # None
                                                       /\ provided[requires[h]] = p
                   THEN Dec(unlocks[p][k]) ELSE unlocks[p][k]
  BY DEF unlink
<1>4. \A p, k \in Hash : f[p][k] \in Nat
  BY <1>1, <1>2, <1>3
<1>5. f = [p \in Hash |-> [k \in Hash |-> f[p][k]]]
  BY DEF unlink
<1>6. f \in [Hash -> [Hash -> Nat]]
  BY <1>4, <1>5, Zenon
<1> QED BY <1>1, <1>2, <1>3, <1>6

\* A transaction becomes ready and takes the place of the one with its marker.
LEMMA AddedReady ==
  ASSUME Types, MarkersExact, Links, Reached, NEW h \in Hash, h \notin ready_tx,
         ready_add_transaction(h), Kept
  PROVE  /\ ReadyInv' /\ h \in ready_tx' /\ ready_tx' \subseteq ready_tx \cup {h}
         /\ \A k \in ready_tx \ ready_tx' : k = provided_markers[provides(h)]
         /\ \A m \in Marker : m # provides(h) => provided_markers'[m] = provided_markers[m]
<1> DEFINE old == provided_markers[provides(h)]
           p == provider(h)
           gone == {old} \ {None}
           links == unlink(gone, provided_markers)
<1>1. /\ unlocks' = [q \in Hash |->
           IF q = h THEN inherited_unlocks(old)
           ELSE IF q = p THEN [links[q] EXCEPT ![h] = @ + 1]
           ELSE links[q]]
      /\ requires_offset' = [k \in Hash |->
           IF k = h THEN (IF p = None THEN requires_len(h) ELSE 0)
           ELSE IF k \in gone THEN 0 ELSE requires_offset[k]]
      /\ independent_transactions' =
           (independent_transactions \ gone) \cup (IF p = None THEN {h} ELSE {})
      /\ provided_markers' = [provided_markers EXCEPT ![provides(h)] = h]
      /\ ready_tx' = (ready_tx \ gone) \cup {h}
  BY Zenon DEF ready_add_transaction
<1>2. old = None \/ (old \in ready_tx /\ old \in Hash /\ provides(old) = provides(h) /\ old # h)
  BY Provides, ZenonT(60) DEF MarkersExact, Types
<1>3. p # None => /\ p \in ready_tx /\ p \in Hash /\ p # h
                  /\ provided_markers[requires[h]] = p /\ requires[h] # None
                  /\ requires[h] \in Marker /\ provides(p) = requires[h]
                  /\ sender[h] = sender[p] /\ nonce[h] = nonce[p] + 1 /\ nonce[p] \in Nat
  BY ProviderIs
<1>4. p # None => requires[h] # provides(h) /\ p # old
  <2> SUFFICES ASSUME p # None PROVE requires[h] # provides(h) /\ p # old
    OBVIOUS
  <2>1. nonce[p] # nonce[h]
    BY <1>3
  <2> QED BY <1>2, <1>3, <2>1, Provides
<1>5. /\ links \in [Hash -> [Hash -> Nat]]
      /\ \A q, k \in Hash : /\ links[q][k] > 0 => unlocks[q][k] > 0
                            /\ q \notin gone /\ k # q => links[q][k] = unlocks[q][k]
  BY Unlinked
<1>6. /\ inherited_unlocks(old) \in [Hash -> Nat]
      /\ old = None => \A k \in Hash : inherited_unlocks(old)[k] = 0
      /\ old # None => \A k \in Hash : inherited_unlocks(old)[k] = unlocks[old][k]
  BY <1>2 DEF inherited_unlocks, NoUnlocks, Types
<1>7. \A k \in Hash : k \in gone <=> k = old /\ old # None
  OBVIOUS
<1> HIDE DEF old, p, gone, links
<1>8. /\ \A k \in Hash : unlocks'[h][k] = inherited_unlocks(old)[k]
      /\ \A q, k \in Hash : q # h =>
           unlocks'[q][k] = IF q = p /\ k = h THEN links[q][k] + 1 ELSE links[q][k]
  BY <1>1, <1>5
<1>9. ReadyTypes'
  <2>1. provided_markers' \in [Marker -> Hash \cup {None}]
    BY <1>1, Provides DEF Types
  <2>2. ready_tx' \subseteq Hash
    BY <1>1 DEF Types
  <2>3. unlocks' \in [Hash -> [Hash -> Nat]]
    BY <1>1, <1>5, <1>6
  <2>4. requires_offset' \in [Hash -> Nat]
    BY <1>1 DEF Types, requires_len
  <2> QED BY <2>1, <2>2, <2>3, <2>4 DEF ReadyTypes
<1>10. \A m \in Marker : provided_markers'[m] = IF m = provides(h) THEN h ELSE provided_markers[m]
  BY <1>1 DEF Types
<1>11. \A k \in ready_tx : k # old => provides(k) # provides(h) /\ k \notin gone
  BY <1>7, Zenon DEF MarkersExact, old, Types
<1>12. MarkersExact'
  <2>1. ASSUME NEW m \in Marker, provided_markers'[m] # None
        PROVE  provided_markers'[m] \in ready_tx' /\ provides(provided_markers'[m]) = m
    <3>1. CASE m = provides(h)
      BY <1>1, <1>10, <3>1
    <3>2. CASE m # provides(h)
      <4>1. provided_markers'[m] = provided_markers[m] /\ provided_markers[m] \in ready_tx
            /\ provides(provided_markers[m]) = m
        BY <1>10, <2>1, <3>2, Zenon DEF MarkersExact
      <4>2. provided_markers[m] # old \/ old = None
        BY <1>2, <3>2, <4>1, Zenon
      <4>3. provided_markers[m] \notin gone
        BY <1>7, <4>1, <4>2, Zenon DEF Types
      <4> QED BY <1>1, <4>1, <4>3
    <3> QED BY <3>1, <3>2
  <2>2. ASSUME NEW k \in ready_tx' PROVE provided_markers'[provides(k)] = k
    <3>1. CASE k = h
      BY <1>10, <3>1, Provides, Zenon
    <3>2. CASE k # h
      <4>1. k \in ready_tx /\ k \in Hash /\ (k # old \/ old = None)
        BY <1>1, <1>7, <2>2, <3>2, Zenon DEF Types
      <4>2. k # old
        BY <4>1, TxAssumption, Zenon
      <4> QED BY <1>10, <1>11, <4>1, <4>2, Provides, Zenon DEF MarkersExact
    <3> QED BY <3>1, <3>2
  <2> QED BY <2>1, <2>2, Zenon DEF MarkersExact
<1>13. Links'
  <2> SUFFICES ASSUME NEW q \in Hash, NEW k \in Hash, unlocks'[q][k] > 0
               PROVE  sender[k] = sender[q] /\ nonce[k] = nonce[q] + 1
    BY DEF Links
  <2>1. CASE q = h
    <3>1. old # None /\ unlocks[old][k] > 0
      BY <1>6, <1>8, <2>1
    <3>2. sender[k] = sender[old] /\ nonce[k] = nonce[old] + 1
      BY <1>2, <3>1, Zenon DEF Links
    <3>3. sender[old] = sender[h] /\ nonce[old] = nonce[h]
      BY <1>2, <3>1, Provides, Zenon
    <3> QED BY <2>1, <3>2, <3>3, Zenon
  <2>2. CASE q # h /\ q = p /\ k = h
    BY <1>3, <2>2, TxAssumption, Zenon
  <2>3. CASE q # h /\ ~(q = p /\ k = h)
    <3>1. links[q][k] > 0
      BY <1>8, <2>3
    <3> QED BY <1>5, <3>1, Zenon DEF Links
  <2> QED BY <2>1, <2>2, <2>3
<1>14. Reached'
  <2> SUFFICES ASSUME NEW k \in ready_tx', k \notin independent_transactions' PROVE Follows(k)'
    BY DEF Reached
  <2>0. requires'[k] = requires[k] /\ k \in Hash
    BY <1>9, Zenon DEF Kept, ReadyTypes
  <2>1. CASE k = h
    <3>1. p # None
      BY <1>1, <2>1, Zenon
    <3>2. provider(k)' = p
      BY <1>3, <1>4, <1>10, <2>0, <2>1, <3>1, Zenon DEF provider
    <3>3. unlocks'[p][k] > 0
      <4>1. unlocks'[p][h] = links[p][h] + 1 /\ links[p][h] \in Nat
        BY <1>3, <1>5, <1>8, <3>1
      <4> QED BY <2>1, <4>1
    <3>4. requires_offset'[k] = 0
      BY <1>1, <2>0, <2>1, <3>1
    <3> QED BY <3>1, <3>2, <3>3, <3>4, Zenon DEF Follows
  <2>2. CASE k # h
    <3>1. k \in ready_tx /\ k \notin gone /\ k \notin independent_transactions
      BY <1>1, <2>2, Zenon
    <3> DEFINE q == provider(k)
    <3>2. q # None /\ unlocks[q][k] > 0 /\ requires_offset[k] = 0
      BY <3>1, Zenon DEF Reached, Follows
    <3>3. /\ q \in ready_tx /\ q \in Hash /\ requires[k] # None /\ requires[k] \in Marker
          /\ provided_markers[requires[k]] = q /\ provides(q) = requires[k]
          /\ nonce[k] = nonce[q] + 1 /\ nonce[q] \in Nat
      BY <2>0, <3>2, ProviderIs
    <3>4. q # k /\ q # h
      BY <3>3
    <3> HIDE DEF q
    <3>5. requires_offset'[k] = 0
      BY <1>1, <2>0, <2>2, <3>1, <3>2
    <3>6. CASE q = old
      <4>1. provider(k)' = h
        BY <1>2, <1>10, <2>0, <3>2, <3>3, <3>6, Zenon DEF provider
      <4>2. unlocks'[h][k] > 0
        BY <1>6, <1>8, <2>0, <3>2, <3>6
      <4> QED BY <3>5, <4>1, <4>2, TxAssumption, Zenon DEF Follows
    <3>7. CASE q # old
      <4>1. provider(k)' = q
        BY <1>10, <1>11, <2>0, <3>2, <3>3, <3>7, Zenon DEF provider
      <4>2. unlocks'[q][k] > 0
        <5>1. unlocks'[q][k] = links[q][k]
          BY <1>8, <2>0, <2>2, <3>3, <3>4
        <5>2. links[q][k] = unlocks[q][k]
          BY <1>5, <1>11, <2>0, <3>3, <3>4, <3>7, Zenon
        <5> QED BY <3>2, <5>1, <5>2
      <4> QED BY <3>2, <3>5, <4>1, <4>2, Zenon DEF Follows
    <3> QED BY <3>6, <3>7
  <2> QED BY <2>1, <2>2
<1> QED BY <1>1, <1>7, <1>9, <1>10, <1>12, <1>13, <1>14, Zenon DEF ReadyInv, old, Types


\* What depends on a removed transaction is removed.
LEMMA DependentsClosed ==
  ASSUME NEW hashes
  PROVE  /\ dependents(hashes) \subseteq ready_tx
         /\ \A p \in dependents(hashes), k \in ready_tx :
              unlocks[p][k] > 0 => k \in dependents(hashes)
  BY Zenon DEF dependents

\* Transactions leave together with those that depend on them.
LEMMA RemovedReady ==
  ASSUME Types, MarkersExact, Links, Reached, NEW hashes, remove_with_markers(hashes), Kept
  PROVE  /\ ReadyInv' /\ ready_tx' \subseteq ready_tx
         /\ \A m \in Marker : provided_markers[m] = None => provided_markers'[m] = None
<1> DEFINE removed == dependents(hashes)
           provided == without_markers(removed)
           links == unlink(removed, provided)
<1>1. /\ ready_tx' = ready_tx \ removed
      /\ provided_markers' = provided
      /\ unlocks' = links
      /\ requires_offset' = [h \in Hash |-> IF h \in removed THEN 0 ELSE requires_offset[h]]
      /\ independent_transactions' = independent_transactions \ removed
  BY Zenon DEF remove_with_markers
<1>2. /\ removed \subseteq ready_tx
      /\ \A p \in removed, k \in ready_tx : unlocks[p][k] > 0 => k \in removed
  BY DependentsClosed, Zenon
<1>3. /\ links \in [Hash -> [Hash -> Nat]]
      /\ \A q, k \in Hash : /\ links[q][k] > 0 => unlocks[q][k] > 0
                            /\ q \notin removed /\ k # q => links[q][k] = unlocks[q][k]
  BY Unlinked
<1>4. \A m \in Marker :
        provided[m] = IF \E h \in removed : provides(h) = m THEN None ELSE provided_markers[m]
  BY Zenon DEF without_markers
<1>5. provided \in [Marker -> Hash \cup {None}]
  BY Zenon DEF without_markers, Types
<1> HIDE DEF removed, provided, links
<1>6. ReadyTypes'
  <2>1. requires_offset' \in [Hash -> Nat]
    BY <1>1 DEF Types
  <2> QED BY <1>1, <1>3, <1>5, <2>1, Zenon DEF ReadyTypes, Types
<1>7. MarkersExact'
  <2>1. ASSUME NEW m \in Marker, provided_markers'[m] # None
        PROVE  provided_markers'[m] \in ready_tx' /\ provides(provided_markers'[m]) = m
    <3>1. provided_markers'[m] = provided_markers[m] /\ ~ \E h \in removed : provides(h) = m
      BY <1>1, <1>4, <2>1, Zenon
    <3>2. provided_markers[m] \in ready_tx /\ provides(provided_markers[m]) = m
      BY <2>1, <3>1, Zenon DEF MarkersExact
    <3> QED BY <1>1, <3>1, <3>2, Zenon
  <2>2. ASSUME NEW k \in ready_tx' PROVE provided_markers'[provides(k)] = k
    <3>1. k \in ready_tx /\ k \notin removed /\ k \in Hash
      BY <1>1, <2>2, Zenon DEF Types
    <3>2. ~ \E h \in removed : provides(h) = provides(k)
      BY <1>2, <3>1, OneProvider, Zenon
    <3> QED BY <1>1, <1>4, <3>1, <3>2, Provides, Zenon DEF MarkersExact
  <2> QED BY <2>1, <2>2, Zenon DEF MarkersExact
<1>8. Links'
  BY <1>1, <1>3, Zenon DEF Links
<1>9. Reached'
  <2> SUFFICES ASSUME NEW k \in ready_tx', k \notin independent_transactions' PROVE Follows(k)'
    BY DEF Reached
  <2>1. /\ requires'[k] = requires[k] /\ k \in Hash /\ k \in ready_tx /\ k \notin removed
        /\ k \notin independent_transactions
    BY <1>1, Zenon DEF Kept, Types
  <2> DEFINE q == provider(k)
  <2>2. q # None /\ unlocks[q][k] > 0 /\ requires_offset[k] = 0
    BY <2>1, Zenon DEF Reached, Follows
  <2>3. /\ q \in ready_tx /\ q \in Hash /\ requires[k] # None /\ requires[k] \in Marker
        /\ provided_markers[requires[k]] = q /\ provides(q) = requires[k]
        /\ nonce[k] = nonce[q] + 1 /\ nonce[q] \in Nat
    BY <2>1, <2>2, ProviderIs
  <2>4. q # k
    BY <2>3
  <2> HIDE DEF q
  <2>5. q \notin removed
    BY <1>2, <2>1, <2>2, Zenon
  <2>6. ~ \E h \in removed : provides(h) = requires[k]
    BY <1>2, <2>3, <2>5, OneProvider, Zenon
  <2>7. provider(k)' = q
    BY <1>1, <1>4, <2>1, <2>3, <2>6, Zenon DEF provider
  <2>8. unlocks'[q][k] > 0
    BY <1>1, <1>3, <2>1, <2>2, <2>3, <2>4, <2>5, Zenon
  <2>9. requires_offset'[k] = 0
    BY <1>1, <2>1, <2>2
  <2> QED BY <2>2, <2>7, <2>8, <2>9, Zenon DEF Follows
<1> QED BY <1>1, <1>4, <1>6, <1>7, <1>8, <1>9, Zenon DEF ReadyInv

\* What pruning a marker removes: its transaction, and transactions that only led
\* to removed ones.
LEMMA PrunedBy ==
  ASSUME Types, MarkersExact, NEW m \in Marker
  PROVE  /\ pruned_by(m) \subseteq ready_tx
         /\ provided_markers[m] # None => provided_markers[m] \in pruned_by(m)
         /\ \A p \in pruned_by(m) : p # provided_markers[m] =>
              \E q \in pruned_by(m) : provider(q) = p /\ only_unlock(p, q)
         /\ \A p \in pruned_by(m) : sender[p] = m[2] /\ nonce[p] <= m[1]
<1> DEFINE pruned == pruned_by(m)
           closed(C) == /\ \A k \in ready_tx : provided_markers[m] = k => k \in C
                        /\ \A k \in C : /\ provider(k) \in ready_tx
                                        /\ only_unlock(provider(k), k)
                                        => provider(k) \in C
<1>1. pruned \subseteq ready_tx /\ \A C \in SUBSET ready_tx : closed(C) => pruned \subseteq C
  BY Zenon DEF pruned_by
<1>2. closed(pruned)
  <2>1. \A k \in ready_tx : (\A C \in SUBSET ready_tx : closed(C) => k \in C) => k \in pruned
    BY Zenon DEF pruned_by
  <2>2. ASSUME NEW k \in ready_tx, provided_markers[m] = k PROVE k \in pruned
    BY <2>1, <2>2, Zenon
  <2>3. ASSUME NEW k \in pruned, provider(k) \in ready_tx, only_unlock(provider(k), k)
        PROVE  provider(k) \in pruned
    BY <1>1, <2>1, <2>3, Zenon
  <2> QED BY <2>2, <2>3, Zenon
<1>3. provided_markers[m] # None => provided_markers[m] \in pruned
  BY <1>2, Zenon DEF MarkersExact
<1>4. ASSUME NEW p \in pruned, p # provided_markers[m]
      PROVE  \E q \in pruned : provider(q) = p /\ only_unlock(p, q)
  <2> SUFFICES ASSUME \A q \in pruned : ~(provider(q) = p /\ only_unlock(p, q)) PROVE FALSE
    BY Zenon
  <2>1. closed(pruned \ {p})
    BY <1>2, <1>4, Zenon
  <2>2. pruned \subseteq pruned \ {p}
    BY <1>1, <2>1, Zenon
  <2> QED BY <1>4, <2>2, Zenon
<1>5. ASSUME NEW p \in pruned PROVE sender[p] = m[2] /\ nonce[p] <= m[1]
  <2> DEFINE C == {h \in ready_tx : sender[h] = m[2] /\ nonce[h] <= m[1]}
  <2>0. m[1] \in Nat
    BY TxAssumption DEF Marker, Nonce
  <2>1. ASSUME NEW k \in ready_tx, provided_markers[m] = k PROVE k \in C
    <3>1. provides(k) = m /\ k \in Hash
      BY <2>1, TxAssumption, Zenon DEF MarkersExact, Types
    <3>2. nonce[k] = m[1] /\ sender[k] = m[2]
      BY <3>1, Provides, Zenon
    <3> QED BY <2>0, <2>1, <3>2
  <2>2. ASSUME NEW k \in C, provider(k) \in ready_tx PROVE provider(k) \in C
    <3>1. k \in Hash /\ provider(k) # None
      BY <2>2, TxAssumption, Zenon DEF Types
    <3>2. sender[k] = sender[provider(k)] /\ nonce[k] = nonce[provider(k)] + 1
          /\ nonce[provider(k)] \in Nat
      BY <3>1, ProviderIs
    <3>3. sender[k] = m[2] /\ nonce[k] <= m[1]
      BY <2>2, Zenon
    <3>4. sender[provider(k)] = m[2] /\ nonce[provider(k)] <= m[1]
      BY <2>0, <3>2, <3>3
    <3> QED BY <2>2, <3>4, Zenon
  <2>3. closed(C) /\ C \in SUBSET ready_tx
    BY <2>1, <2>2, Zenon
  <2>4. p \in C
    BY <1>1, <1>5, <2>3, Zenon
  <2> QED BY <2>4, Zenon
<1> QED BY <1>1, <1>3, <1>4, <1>5, Zenon


\* A marker is pruned: the transactions linked to its transaction become independent,
\* and those that leave are of its sender and have no higher nonce.
LEMMA PrunedReady ==
  ASSUME Types, MarkersExact, Links, Reached, NEW m \in Marker, prune_tags(m), Kept
  PROVE  /\ ReadyInv' /\ ready_tx' \subseteq ready_tx
         /\ \A k \in Marker : provided_markers[k] = None => provided_markers'[k] = None
         /\ \A h \in ready_tx \ ready_tx' : sender[h] = m[2] /\ nonce[h] <= m[1]
<1> DEFINE pruned == pruned_by(m)
           top == provided_markers[m]
           unlocked == IF top = None THEN NoUnlocks ELSE unlocks[top]
           offset == [h \in Hash |-> requires_offset[h] + unlocked[h]]
<1>1. /\ provided_markers' = [k \in Marker |->
           IF k = m \/ \E h \in pruned : provides(h) = k
           THEN None ELSE provided_markers[k]]
      /\ ready_tx' = ready_tx \ pruned
      /\ unlocks' = [p \in Hash |-> [k \in Hash |->
           IF p \in pruned THEN 0
           ELSE IF k \in pruned /\ provider(k) = p
           THEN Dec(unlocks[p][k]) ELSE unlocks[p][k]]]
      /\ requires_offset' = [h \in Hash |->
           IF h \in ready_tx \ pruned THEN offset[h] ELSE 0]
      /\ independent_transactions' =
           (independent_transactions \ pruned)
           \cup {h \in ready_tx \ pruned :
                   requires_offset[h] < requires_len(h) /\ requires_len(h) <= offset[h]}
  BY Zenon DEF prune_tags
<1>2. /\ pruned \subseteq ready_tx
      /\ top # None => top \in pruned
      /\ \A p \in pruned : p # top => \E q \in pruned : provider(q) = p /\ only_unlock(p, q)
      /\ \A p \in pruned : sender[p] = m[2] /\ nonce[p] <= m[1]
  BY PrunedBy, Zenon
<1>3. /\ top # None => top \in ready_tx /\ top \in Hash /\ provides(top) = m
      /\ top = None => \A k \in Hash : unlocked[k] = 0
      /\ top # None => \A k \in Hash : unlocked[k] = unlocks[top][k]
      /\ \A k \in Hash : unlocked[k] \in Nat
  BY DEF MarkersExact, Types, NoUnlocks
<1>4. \A k \in Hash : offset[k] = requires_offset[k] + unlocked[k] /\ offset[k] \in Nat
  BY <1>3 DEF Types
<1> HIDE DEF pruned, top, unlocked, offset
<1>5. \A p, k \in Hash :
        /\ unlocks'[p][k] \in Nat
        /\ unlocks'[p][k] > 0 => unlocks[p][k] > 0
        /\ p \notin pruned /\ k \notin pruned => unlocks'[p][k] = unlocks[p][k]
  <2>1. \A n \in Nat : Dec(n) \in Nat /\ (Dec(n) > 0 => n > 0)
    BY DEF Dec
  <2>2. \A p, k \in Hash : unlocks[p][k] \in Nat
    BY DEF Types
  <2>3. \A p, k \in Hash :
          unlocks'[p][k] = IF p \in pruned THEN 0
                           ELSE IF k \in pruned /\ provider(k) = p
                           THEN Dec(unlocks[p][k]) ELSE unlocks[p][k]
    BY <1>1, SMTT(60)
  <2> QED BY <2>1, <2>2, <2>3
<1>6. \A k \in Marker :
        provided_markers'[k] = IF k = m \/ \E h \in pruned : provides(h) = k
                               THEN None ELSE provided_markers[k]
  BY <1>1, Zenon
<1>7. ReadyTypes'
  <2>1. provided_markers' \in [Marker -> Hash \cup {None}]
    BY <1>1, Zenon DEF Types
  <2>2. unlocks' = [p \in Hash |-> [k \in Hash |-> unlocks'[p][k]]]
    BY <1>1
  <2>3. unlocks' \in [Hash -> [Hash -> Nat]]
    BY <1>5, <2>2, Zenon
  <2>4. requires_offset' \in [Hash -> Nat]
    BY <1>1, <1>4
  <2> QED BY <1>1, <2>1, <2>3, <2>4, Zenon DEF ReadyTypes, Types
<1>8. MarkersExact'
  <2>1. ASSUME NEW k \in Marker, provided_markers'[k] # None
        PROVE  provided_markers'[k] \in ready_tx' /\ provides(provided_markers'[k]) = k
    <3>1. provided_markers'[k] = provided_markers[k] /\ ~ \E h \in pruned : provides(h) = k
      BY <1>6, <2>1, Zenon
    <3>2. provided_markers[k] \in ready_tx /\ provides(provided_markers[k]) = k
      BY <2>1, <3>1, Zenon DEF MarkersExact
    <3> QED BY <1>1, <3>1, <3>2, Zenon
  <2>2. ASSUME NEW k \in ready_tx' PROVE provided_markers'[provides(k)] = k
    <3>1. k \in ready_tx /\ k \notin pruned /\ k \in Hash
      BY <1>1, <2>2, Zenon DEF Types
    <3>2. ~ \E h \in pruned : provides(h) = provides(k)
      BY <1>2, <3>1, OneProvider, Zenon
    <3>3. provided_markers[provides(k)] = k /\ provides(k) # m
      BY <1>2, <3>1, TxAssumption DEF MarkersExact, top, Types
    <3> QED BY <1>6, <3>1, <3>2, <3>3, Provides, Zenon
  <2> QED BY <2>1, <2>2, Zenon DEF MarkersExact
<1>9. Links'
  BY <1>5, Zenon DEF Links
<1>10. Reached'
  <2> SUFFICES ASSUME NEW k \in ready_tx', k \notin independent_transactions' PROVE Follows(k)'
    BY DEF Reached
  <2>1. /\ requires'[k] = requires[k] /\ k \in Hash /\ k \in ready_tx /\ k \notin pruned
        /\ k \notin independent_transactions
    BY <1>1, Zenon DEF Kept, Types
  <2> DEFINE q == provider(k)
  <2>2. q # None /\ unlocks[q][k] > 0 /\ requires_offset[k] = 0
    BY <2>1, Zenon DEF Reached, Follows
  <2>3. /\ q \in ready_tx /\ q \in Hash /\ requires[k] # None /\ requires[k] \in Marker
        /\ provided_markers[requires[k]] = q /\ provides(q) = requires[k]
        /\ sender[k] = sender[q] /\ nonce[k] = nonce[q] + 1 /\ nonce[q] \in Nat
    BY <2>1, <2>2, ProviderIs, SMTT(60)
  <2> HIDE DEF q
  <2>4. unlocks[q][k] \in Nat
    BY <2>1, <2>3 DEF Types
  <2>5. q # top
    <3> SUFFICES ASSUME q = top PROVE FALSE
      OBVIOUS
    <3>1. unlocked[k] = unlocks[q][k] /\ requires_len(k) = 1
      BY <1>3, <2>1, <2>2, <2>3, SMTT(60) DEF requires_len
    <3>2. requires_offset[k] < requires_len(k) /\ requires_len(k) <= offset[k]
      BY <1>4, <2>1, <2>2, <2>4, <3>1
    <3> QED BY <1>1, <2>1, <3>2, Zenon
  <2>6. q \notin pruned
    <3> SUFFICES ASSUME q \in pruned PROVE FALSE
      OBVIOUS
    <3>1. PICK r \in pruned : provider(r) = q /\ only_unlock(q, r)
      BY <1>2, <2>5, Zenon
    <3>2. unlocks[q][k] <= (IF k = r THEN 1 ELSE 0) /\ k # r
      BY <2>1, <3>1, Zenon DEF only_unlock
    <3> QED BY <2>2, <2>4, <3>2
  <2>7. provider(k)' = q
    <3>1. ~ \E h \in pruned : provides(h) = requires[k]
      BY <1>2, <2>3, <2>6, OneProvider, Zenon
    <3>2. requires[k] # m
      BY <2>3, <2>5, Zenon DEF top
    <3> QED BY <1>6, <2>1, <2>3, <3>1, <3>2, Zenon DEF provider
  <2>8. unlocks'[q][k] > 0
    BY <1>5, <2>1, <2>2, <2>3, <2>6, Zenon
  <2>9. unlocked[k] = 0
    <3> SUFFICES ASSUME unlocked[k] # 0 PROVE FALSE
      OBVIOUS
    <3>1. top # None /\ unlocks[top][k] > 0 /\ top \in Hash /\ top \in ready_tx
      BY <1>3, <2>1
    <3>2. sender[k] = sender[top] /\ nonce[k] = nonce[top] + 1 /\ nonce[top] \in Nat
      BY <2>1, <3>1, Provides, Zenon DEF Links
    <3>3. sender[q] = sender[top] /\ nonce[q] = nonce[top]
      BY <2>3, <3>2
    <3> QED BY <2>3, <2>5, <3>1, <3>3, Provides, OneProvider, Zenon
  <2>10. requires_offset'[k] = 0
    BY <1>1, <1>4, <2>1, <2>2, <2>9, SMTT(60)
  <2> QED BY <2>2, <2>7, <2>8, <2>10, Zenon DEF Follows
<1> QED BY <1>1, <1>2, <1>6, <1>7, <1>8, <1>9, <1>10, Zenon DEF ReadyInv


-----------------------------------------------------------------------------
(* The actions *)

\* The transactions that miss a marker stop waiting.
LEMMA Unlocked ==
  ASSUME Types, WaitingIndexed, NEW m \in Marker, mark_and_unlock(m)
  PROVE  /\ required_markers' \in [Marker -> SUBSET Hash] /\ waiting_queue' \subseteq Hash
         /\ unlocked_by(m) \in SUBSET Hash /\ unlocked_by(m) \subseteq waiting_queue
         /\ waiting_queue' = waiting_queue \ unlocked_by(m)
         /\ \A k \in Marker : required_markers'[k] = {h \in waiting_queue' : requires[h] = k}
         /\ required_markers'[m] = {}
         /\ \A k \in Marker : k # m => required_markers'[k] = required_markers[k]
         /\ \A h \in unlocked_by(m) : requires[h] = m
         /\ provided_markers[m] # None => unlocked_by(m) = {}
<1>1. /\ required_markers' = [required_markers EXCEPT ![m] = {}]
      /\ waiting_queue' = waiting_queue \ unlocked_by(m)
      /\ unlocked_by(m) = required_markers[m]
  BY Zenon DEF mark_and_unlock, unlocked_by
<1>2. /\ required_markers' \in [Marker -> SUBSET Hash]
      /\ required_markers'[m] = {}
      /\ \A k \in Marker : k # m => required_markers'[k] = required_markers[k]
  BY <1>1 DEF Types
<1>3. /\ \A k \in Marker : required_markers[k] = {h \in waiting_queue : requires[h] = k}
      /\ required_markers[m] # {} => provided_markers[m] = None
  BY Zenon DEF WaitingIndexed
<1>4. ASSUME NEW k \in Marker
      PROVE  required_markers'[k] = {h \in waiting_queue' : requires[h] = k}
  <2>1. CASE k = m
    BY <1>1, <1>2, <1>3, <2>1
  <2>2. CASE k # m
    BY <1>1, <1>2, <1>3, <2>2
  <2> QED BY <2>1, <2>2
<1> QED BY <1>1, <1>2, <1>3, <1>4 DEF Types

\* The index of the waiting transactions is kept with them.
LEMMA StillWaiting ==
  ASSUME Types, WaitingIndexed, UNCHANGED pending_vars,
         \A k \in waiting_queue : requires'[k] = requires[k],
         \A m \in Marker : provided_markers[m] = None => provided_markers'[m] = None
  PROVE  /\ WaitingIndexed' /\ waiting_queue' = waiting_queue
         /\ required_markers' \in [Marker -> SUBSET Hash] /\ waiting_queue' \subseteq Hash
<1>1. required_markers' = required_markers /\ waiting_queue' = waiting_queue
  BY DEF pending_vars
<1>2. required_markers' \in [Marker -> SUBSET Hash] /\ waiting_queue' \subseteq Hash
  BY <1>1, Zenon DEF Types
<1>3. WaitingIndexed'
  BY <1>1, Zenon DEF WaitingIndexed
<1> QED BY <1>1, <1>2, <1>3

\* The ready transactions are as they were.
LEMMA SameReady ==
  ASSUME ReadyInv, UNCHANGED ready_vars, \A k \in ready_tx : requires'[k] = requires[k]
  PROVE  /\ ReadyInv' /\ ready_tx' = ready_tx
         /\ provided_markers' = provided_markers
<1>1. UNCHANGED <<provided_markers, ready_tx, unlocks, requires_offset, independent_transactions>>
  BY DEF ready_vars
<1>2. ReadyTypes' /\ MarkersExact' /\ Links'
  BY <1>1, Zenon DEF ReadyTypes, MarkersExact, Links, ReadyInv
<1>3. Reached'
  <2> SUFFICES ASSUME NEW k \in ready_tx, k \notin independent_transactions PROVE Follows(k)'
    BY <1>1, Zenon DEF Reached
  <2>1. Follows(k)
    BY Zenon DEF Reached, ReadyInv
  <2> QED BY <1>1, <2>1, Zenon DEF Follows, provider
<1> QED BY <1>1, <1>2, <1>3 DEF ReadyInv

\* The invariant of the next state, put together.
LEMMA Assemble ==
  ASSUME requires' \in [Hash -> Marker \cup {None}],
         \A h \in Hash : requires'[h] \in required_marker_choices(h),
         required_markers' \in [Marker -> SUBSET Hash],
         waiting_queue' \subseteq Hash,
         op' \in Operations, Stage(op'), op'.head \notin op'.removed,
         ReadyInv', WaitingIndexed', InOnePlace'
  PROVE  IInv'
<1>1. Types'
  BY Zenon DEF Types, ReadyInv, ReadyTypes
<1>2. PoolConsistent'
  BY Zenon DEF PoolConsistent, ReadyInv, is_cyclic
<1>3. Stage(op)' /\ Links' /\ Reached'
  BY Zenon DEF Stage, ReadyInv
<1> QED BY <1>1, <1>2, <1>3, Zenon DEF IInv

\* When no operation is in progress nothing is taken out on the way.
LEMMA IdleForReason == op = Idle => ForReason
  BY IdleOperation, Zenon DEF ForReason

\* What the invariant says, for the provers.
LEMMA Facts ==
  ASSUME IInv
  PROVE  /\ Types /\ MarkersExact /\ WaitingIndexed /\ InOnePlace /\ Stage(op) /\ Links /\ Reached
         /\ op.head \notin op.removed
         /\ op \in Operations /\ ReadyInv
         /\ Disjoint(op.queue) /\ Disjoint(op.imports)
         /\ waiting_queue \cap ready_tx = {}
         /\ InFlight(op) \cap (waiting_queue \cup ready_tx) = {}
         /\ InBatches(op.imports) \cap InBatches(op.queue) = {}
  BY Zenon DEF IInv, PoolConsistent, is_cyclic, Types, InOnePlace, Disjoint, ReadyInv, ReadyTypes

\* A transaction is added: it waits, or an operation begins for it.
LEMMA AddIInv ==
  ASSUME IInv, NEW h \in Hash, NEW r \in required_marker_choices(h), add_transaction(h, r)
  PROVE  IInv' /\ ForReason
<1>1. /\ op = Idle /\ h \notin waiting_queue /\ h \notin ready_tx
      /\ requires' = [requires EXCEPT ![h] = r]
  BY Zenon DEF add_transaction, contains
<1>2. /\ requires' \in [Hash -> Marker \cup {None}]
      /\ requires'[h] = r /\ \A k \in Hash : k # h => requires'[k] = requires[k]
  BY <1>1, Facts, Choices, SMTT(60) DEF Types
<1>3. \A k \in Hash : requires'[k] \in required_marker_choices(k)
  BY <1>2, Facts, Zenon DEF Types
<1>4. ASSUME UNCHANGED ready_vars PROVE ReadyInv'
  <2>1. \A k \in ready_tx : requires'[k] = requires[k]
    BY <1>1, <1>2, Facts, Zenon DEF Types
  <2> QED BY <1>4, <2>1, Facts, SameReady, SMTT(60)
<1>5. CASE /\ r # None /\ provided_markers[r] = None
           /\ pending_add_transaction(h, r)
           /\ UNCHANGED <<ready_vars, op>>
  <2>1. /\ required_markers' = [required_markers EXCEPT ![r] = @ \cup {h}]
        /\ waiting_queue' = waiting_queue \cup {h}
        /\ r \in Marker /\ op' = op /\ ready_tx' = ready_tx /\ provided_markers' = provided_markers
    BY <1>5, Choices, SMTT(60) DEF pending_add_transaction, ready_vars
  <2>2. /\ required_markers' \in [Marker -> SUBSET Hash]
        /\ required_markers'[r] = required_markers[r] \cup {h}
        /\ \A m \in Marker : m # r => required_markers'[m] = required_markers[m]
    BY <2>1, Facts, SMTT(60) DEF Types
  <2>3. waiting_queue' \subseteq Hash
    BY <2>1, Facts, Zenon DEF Types
  <2>4. WaitingIndexed'
    <3> SUFFICES ASSUME NEW m \in Marker
                 PROVE  /\ required_markers'[m] = {k \in waiting_queue' : requires'[k] = m}
                        /\ required_markers'[m] # {} => provided_markers'[m] = None
      BY Zenon DEF WaitingIndexed
    <3>1. /\ required_markers[m] = {k \in waiting_queue : requires[k] = m}
          /\ required_markers[m] # {} => provided_markers[m] = None
          /\ waiting_queue \subseteq Hash
      BY Facts, Zenon DEF WaitingIndexed, Types
    <3>2. \A k \in waiting_queue : requires'[k] = requires[k]
      BY <1>1, <1>2, <3>1, Zenon
    <3>3. CASE m = r
      BY <1>2, <1>5, <2>1, <2>2, <3>1, <3>2, <3>3, SMTT(60)
    <3>4. CASE m # r
      BY <1>2, <2>1, <2>2, <3>1, <3>2, <3>4, SMTT(60)
    <3> QED BY <3>3, <3>4
  <2>5. InOnePlace'
    <3>1. InFlight(op) = {}
      BY <1>1, IdleOperation, Zenon
    <3> QED BY <1>1, <2>1, <3>1, Facts, SMTT(60) DEF InOnePlace
  <2>6. op' \in Operations /\ Stage(op') /\ op'.head \notin op'.removed
    BY <2>1, Facts, Zenon
  <2>7. ReadyInv'
    BY <1>4, <1>5
  <2> QED BY <1>1, <1>2, <1>3, <2>2, <2>3, <2>4, <2>5, <2>6, <2>7, Assemble, IdleForReason, Zenon
<1>6. CASE /\ op' = [Idle EXCEPT !.name = "add", !.head = h, !.queue = <<{h}>>,
                                 !.is_new_tx = TRUE]
           /\ UNCHANGED <<pending_vars, ready_vars>>
  <2>1. /\ required_markers' = required_markers /\ waiting_queue' = waiting_queue
        /\ ready_tx' = ready_tx /\ provided_markers' = provided_markers
    BY <1>6 DEF pending_vars, ready_vars
  <2>2. /\ op' \in Operations
        /\ op'.name = "add" /\ op'.markers = <<>> /\ op'.imports = <<>> /\ op'.head = h
        /\ op'.queue = <<{h}>> /\ op'.is_new_tx = TRUE /\ op'.removed = {}
    <3>1. /\ op'.name = "add" /\ op'.markers = <<>> /\ op'.imports = <<>> /\ op'.head = h
          /\ op'.queue = <<{h}>> /\ op'.is_new_tx = TRUE /\ op'.removed = {}
      BY <1>6 DEF Idle
    <3>2. op' \in Operations
      BY <1>6, IdleOperation, ListTypes, Zenon DEF Operations
    <3> QED BY <3>1, <3>2, SMTT(60)
  <2>3. Stage(op')
    BY <2>2, TxAssumption, Zenon DEF Stage
  <2>4. InOnePlace'
    <3>1. /\ InBatches(op'.queue) = {h} /\ InBatches(op'.imports) = {}
          /\ Disjoint(op'.queue) /\ Disjoint(op'.imports)
      BY <2>2, ShortLists, Zenon
    <3> QED BY <1>1, <2>1, <3>1, Facts, ZenonT(60) DEF InOnePlace, InFlight, Disjoint
  <2>5. WaitingIndexed'
    <3>1. \A k \in waiting_queue : requires'[k] = requires[k]
      BY <1>1, <1>2, Facts, Zenon DEF Types
    <3> QED BY <2>1, <3>1, Facts, SMTT(60) DEF WaitingIndexed
  <2>6. ReadyInv' /\ op'.head \notin op'.removed
    BY <1>4, <1>6, <2>2
  <2>7. required_markers' \in [Marker -> SUBSET Hash] /\ waiting_queue' \subseteq Hash
    BY <2>1, Facts, Zenon DEF Types
  <2> QED BY <1>1, <1>2, <1>3, <2>2, <2>3, <2>4, <2>5, <2>6, <2>7, Assemble, IdleForReason, Zenon
<1> QED BY <1>5, <1>6, Zenon DEF add_transaction


\* One iteration of add_ready_transaction: the transaction becomes ready, or is dropped
\* for a ready one that pays no less.
LEMMA AddReadyIInv ==
  ASSUME IInv, add_ready_transaction
  PROVE  IInv' /\ ForReason
<1>1. PICK h \in op.queue[1] :
        LET queue == Enqueue(Dequeue(op.queue, h), unlocked_by(provides(h)))
        IN  mark_and_unlock(provides(h)) /\ (add_ready_ok(h, queue) \/ add_ready_err(h, queue))
  BY Zenon DEF add_ready_transaction
<1> DEFINE m == provides(h)
           U == unlocked_by(m)
           rest == Dequeue(op.queue, h)
           queue == Enqueue(rest, U)
           old == provided_markers[m]
<1>2. /\ mark_and_unlock(m) /\ (add_ready_ok(h, queue) \/ add_ready_err(h, queue))
      /\ ForgetDropped /\ op.queue # <<>>
  BY <1>1, Zenon DEF add_ready_transaction
<1>3. /\ op \in Operations /\ op.queue \in Seq(SUBSET Hash) /\ op.imports \in Seq(SUBSET Hash)
      /\ op.head \in Hash /\ op.markers = <<>> /\ op.removed \subseteq Hash
  <2>1. op \in Operations /\ Stage(op)
    BY Facts, Zenon
  <2>2. op.head # None /\ op.markers = <<>>
    BY <1>2, <2>1, Zenon DEF Stage
  <2> QED BY <2>1, <2>2, Zenon DEF Operations
<1>4. /\ rest \in Seq(SUBSET Hash) /\ InBatches(rest) = InBatches(op.queue) \ {h}
      /\ Disjoint(rest) /\ h \in InBatches(op.queue)
      /\ op.queue = <<{h}>> => rest = <<>>
  BY <1>2, <1>3, Facts, Dequeued, Zenon
<1>5. h \in Hash /\ h \in op.queue[1]
  BY <1>2, <1>3, SMTT(60)
<1>6. m \in Marker
  BY <1>5, Provides, Zenon
<1>7. /\ required_markers' \in [Marker -> SUBSET Hash] /\ waiting_queue' \subseteq Hash
      /\ U \in SUBSET Hash /\ U \subseteq waiting_queue
      /\ waiting_queue' = waiting_queue \ U
      /\ \A k \in Marker : required_markers'[k] = {x \in waiting_queue' : requires[x] = k}
      /\ required_markers'[m] = {}
      /\ \A k \in Marker : k # m => required_markers'[k] = required_markers[k]
      /\ \A x \in U : requires[x] = m
      /\ provided_markers[m] # None => U = {}
  BY <1>2, <1>6, Facts, Unlocked, Zenon
<1>8. /\ h \notin waiting_queue /\ h \notin ready_tx /\ h \notin InBatches(op.imports)
      /\ InBatches(op.queue) \cap waiting_queue = {}
  BY <1>4, Facts, Zenon DEF InFlight
<1>9. /\ queue \in Seq(SUBSET Hash) /\ InBatches(queue) = InBatches(rest) \cup U
      /\ Disjoint(queue)
  <2>1. U \cap InBatches(rest) = {}
    BY <1>4, <1>7, <1>8, Zenon
  <2> QED BY <1>4, <1>7, <2>1, Enqueued, Zenon
<1>10. op.is_new_tx => h = op.head /\ op.queue = <<{h}>> /\ op.removed = {}
  <2> SUFFICES ASSUME op.is_new_tx PROVE h = op.head /\ op.queue = <<{h}>> /\ op.removed = {}
    OBVIOUS
  <2>1. op.queue = <<{op.head}>> /\ op.removed = {}
    BY Facts, Zenon DEF Stage
  <2>2. h = op.head
    BY <1>5, <2>1
  <2> QED BY <2>1, <2>2
<1>11. ~op.is_new_tx => \A k \in InBatches(op.queue) :
                          sender[k] = sender[op.head] /\ nonce[k] > nonce[op.head]
  BY Facts, Zenon DEF Stage
<1>12. \A k \in InBatches(queue) : sender[k] = sender[op.head] /\ nonce[k] > nonce[op.head]
  <2> SUFFICES ASSUME NEW k \in InBatches(queue)
               PROVE  sender[k] = sender[op.head] /\ nonce[k] > nonce[op.head]
    BY SMTT(60)
  <2>1. CASE k \in U
    <3>1. sender[k] = sender[h] /\ nonce[k] = nonce[h] + 1
      <4>1. k \in Hash /\ m \in required_marker_choices(k)
        BY <1>7, <2>1, Facts, SMTT(60) DEF Types
      <4> QED BY <1>5, <4>1, RequiredIs
    <3>2. h = op.head \/ (sender[h] = sender[op.head] /\ nonce[h] > nonce[op.head])
      BY <1>4, <1>10, <1>11, Zenon
    <3>3. nonce[h] \in Nat /\ nonce[op.head] \in Nat
      BY <1>3, <1>5, Provides, Zenon
    <3> QED BY <3>1, <3>2, <3>3, SMTT(60)
  <2>2. CASE k \notin U
    <3>1. k \in InBatches(rest) /\ k \in InBatches(op.queue)
      BY <1>4, <1>9, <2>2, Zenon
    <3>2. ~op.is_new_tx
      BY <1>4, <1>10, <3>1, ShortLists, Zenon
    <3> QED BY <1>11, <3>1, <3>2, Zenon
  <2> QED BY <2>1, <2>2, SMTT(60)
<1>13. /\ old = None \/ (old \in ready_tx /\ old \in Hash /\ provides(old) = m /\ old # h)
       /\ old # None => old # op.head
  <2>1. old = None \/ (old \in ready_tx /\ old \in Hash /\ provides(old) = m /\ old # h)
    BY <1>6, <1>8, Facts, ZenonT(60) DEF MarkersExact, Types
  <2>2. ASSUME old # None PROVE old # op.head
    <3>1. CASE op.is_new_tx
      BY <1>10, <2>1, <2>2, <3>1, Zenon
    <3>2. CASE ~op.is_new_tx
      <4>1. nonce[old] = nonce[h] /\ nonce[h] > nonce[op.head]
        BY <1>4, <1>5, <1>11, <2>1, <2>2, <3>2, Provides, Zenon
      <4>2. nonce[h] \in Nat /\ nonce[op.head] \in Nat
        BY <1>3, <1>5, Provides, Zenon
      <4> QED BY <4>1, <4>2
    <3> QED BY <3>1, <3>2, SMTT(60)
  <2> QED BY <2>1, <2>2
<1> HIDE DEF m, U, rest, queue, old
<1>14. /\ requires' \in [Hash -> Marker \cup {None}]
       /\ \A x \in Hash : requires'[x] \in required_marker_choices(x)
       /\ \A x \in Hash : x \in waiting_queue' \cup ready_tx' => requires'[x] = requires[x]
  BY <1>2, Facts, Forgotten, Zenon
\* The invariant, from what the three outcomes have in common.
<1>15. ASSUME op' \in Operations, Stage(op'), op'.head \notin op'.removed,
              op'.imports = op.imports, Disjoint(op'.queue),
              InBatches(op'.queue) = (InBatches(op.queue) \ {h}) \cup U,
              ReadyInv', ready_tx' \subseteq ready_tx \cup {h},
              \A k \in Marker : k # m => provided_markers'[k] = provided_markers[k]
       PROVE  IInv'
  <2>1. WaitingIndexed'
    <3> SUFFICES ASSUME NEW k \in Marker
                 PROVE  /\ required_markers'[k] = {x \in waiting_queue' : requires'[x] = k}
                        /\ required_markers'[k] # {} => provided_markers'[k] = None
      BY Zenon DEF WaitingIndexed
    <3>1. required_markers'[k] = {x \in waiting_queue' : requires'[x] = k}
      BY <1>7, <1>14
    <3>2. required_markers'[k] # {} => provided_markers'[k] = None
      BY <1>7, <1>15, Facts, Zenon DEF WaitingIndexed
    <3> QED BY <3>1, <3>2
  <2>2. InOnePlace'
    <3>1. InBatches(op'.queue) \cap (waiting_queue' \cup ready_tx') = {}
      BY <1>7, <1>8, <1>15, Facts, SMTT(60) DEF InFlight
    <3>2. InBatches(op'.imports) \cap (waiting_queue' \cup ready_tx') = {}
      BY <1>7, <1>8, <1>15, Facts, SMTT(60) DEF InFlight
    <3>3. InBatches(op'.imports) \cap InBatches(op'.queue) = {}
      BY <1>7, <1>15, Facts, Zenon DEF InFlight
    <3>4. waiting_queue' \cap ready_tx' = {}
      <4>1. waiting_queue' \subseteq waiting_queue /\ ready_tx' \subseteq ready_tx \cup {h}
        BY <1>7, <1>15, Zenon
      <4>2. h \notin waiting_queue /\ waiting_queue \cap ready_tx = {}
        BY <1>8, Facts, Zenon
      <4> QED BY <4>1, <4>2, Zenon
    <3>5. Disjoint(op'.queue) /\ Disjoint(op'.imports)
      BY <1>15, Facts, Zenon
    <3> QED BY <3>1, <3>2, <3>3, <3>4, <3>5, Zenon DEF InOnePlace, InFlight, Disjoint
  <2> QED BY <1>7, <1>14, <1>15, <2>1, <2>2, Assemble, Zenon
\* Everything but the transaction at hand stays where it was or goes to the queue.
<1>16. ASSUME op'.imports = op.imports,
              InBatches(op'.queue) = (InBatches(op.queue) \ {h}) \cup U,
              NEW x \in waiting_queue \cup InFlight(op),
              x \notin waiting_queue' \cup ready_tx' \cup InFlight(op')
       PROVE  x = h /\ h \notin ready_tx'
  BY <1>7, <1>16, Zenon DEF InFlight
<1>17. CASE add_ready_ok(h, queue)
  <2>1. /\ ~ready_underpriced(h) /\ ready_add_transaction(h)
        /\ op' = [op EXCEPT !.queue = queue, !.is_new_tx = FALSE,
                    !.promoted = IF op.is_new_tx THEN @ ELSE @ \cup {h},
                    !.removed = @ \cup ({old} \ {None})]
    BY <1>17, Zenon DEF add_ready_ok, old, m
  <2>2. /\ op' \in Operations
        /\ op'.name = op.name /\ op'.markers = op.markers /\ op'.imports = op.imports
        /\ op'.head = op.head /\ op'.queue = queue /\ op'.is_new_tx = FALSE
        /\ op'.removed = op.removed \cup ({old} \ {None})
    BY <1>3, <1>5, <1>9, <1>13, <2>1, Zenon DEF Operations
  <2>3. Stage(op')
    BY <1>3, <1>12, <2>2, TxAssumption, Zenon DEF Stage
  <2>4. op'.head \notin op'.removed
    BY <1>13, <2>2, Facts, Zenon
  <2>5. Kept
    <3>1. ready_tx' \subseteq Hash
      BY <1>5, <2>1, Facts, Zenon DEF ready_add_transaction, Types
    <3> QED BY <1>14, <3>1, Zenon DEF Kept
  <2>6. /\ ReadyInv' /\ h \in ready_tx' /\ ready_tx' \subseteq ready_tx \cup {h}
        /\ \A k \in ready_tx \ ready_tx' : k = old
        /\ \A k \in Marker : k # m => provided_markers'[k] = provided_markers[k]
    BY <1>5, <1>8, <2>1, <2>5, Facts, AddedReady, Zenon DEF old, m
  <2>7. InBatches(op'.queue) = (InBatches(op.queue) \ {h}) \cup U /\ Disjoint(op'.queue)
    BY <1>4, <1>9, <2>2, Zenon
  <2>8. IInv'
    BY <1>15, <2>2, <2>3, <2>4, <2>6, <2>7, Zenon
  <2>9. ASSUME NEW k \in ready_tx \ ready_tx'
        PROVE  \E t \in ready_tx' : provides(t) = provides(k) /\ gas_price[t] > gas_price[k]
    <3>1. k = old /\ old # None /\ k \in Hash /\ provides(h) = provides(k)
      BY <1>13, <2>6, <2>9, TxAssumption, Facts, ZenonT(60) DEF m, Types
    <3>2. ~(gas_price[h] <= gas_price[old])
      BY <2>1, <3>1, Zenon DEF ready_underpriced, old, m
    <3>3. gas_price[h] > gas_price[k]
      BY <1>5, <3>1, <3>2, TxAssumption
    <3> QED BY <2>6, <3>1, <3>3, Zenon
  <2> QED BY <1>3, <1>16, <2>2, <2>6, <2>7, <2>8, <2>9, Zenon DEF ForReason, Taken
<1>18. CASE add_ready_err(h, queue)
  <2>1. /\ old # None /\ gas_price[h] <= gas_price[old] /\ UNCHANGED ready_vars
        /\ op' = IF op.is_new_tx
                 THEN Resume([op EXCEPT !.queue = <<>>, !.head = None, !.is_new_tx = FALSE])
                 ELSE [op EXCEPT !.queue = queue]
    BY <1>18, Zenon DEF add_ready_err, ready_underpriced, old, m
  <2>2. U = {}
    BY <1>7, <2>1, Zenon DEF old
  <2>3. /\ op' \in Operations /\ Stage(op') /\ op'.head \notin op'.removed
        /\ op'.imports = op.imports /\ Disjoint(op'.queue)
        /\ InBatches(op'.queue) = (InBatches(op.queue) \ {h}) \cup U
    <3>1. CASE op.is_new_tx
      <4> DEFINE o == [op EXCEPT !.queue = <<>>, !.head = None, !.is_new_tx = FALSE]
      <4>1. /\ o \in Operations
            /\ o.name = op.name /\ o.markers = op.markers /\ o.imports = op.imports
            /\ o.head = None /\ o.queue = <<>> /\ o.is_new_tx = FALSE /\ o.removed = op.removed
        <5>1. /\ o.name = op.name /\ o.markers = op.markers /\ o.imports = op.imports
              /\ o.head = None /\ o.queue = <<>> /\ o.is_new_tx = FALSE /\ o.removed = op.removed
          BY <1>3, Zenon DEF Operations
        <5>2. o \in Operations
          BY <1>3, ListTypes, Zenon DEF Operations
        <5> QED BY <5>1, <5>2
      <4>2. op' = Resume(o)
        BY <2>1, <3>1, Zenon
      <4> HIDE DEF o
      <4>3. Stage(o)
        BY <1>3, <4>1, ShortLists, Facts, Zenon DEF Stage
      <4>4. /\ op' \in Operations /\ Stage(op') /\ op'.queue = <<>> /\ op'.imports = op.imports
            /\ op'.removed \subseteq op.removed /\ op'.head = None
        BY <4>1, <4>2, <4>3, Resumed, Zenon
      <4>5. None \notin op'.removed
        BY <1>3, <4>4, TxAssumption, Zenon
      <4>6. InBatches(op.queue) = {h}
        BY <1>10, <3>1, ShortLists, Zenon
      <4> QED BY <2>2, <4>4, <4>5, <4>6, ShortLists, Zenon
    <3>2. CASE ~op.is_new_tx
      <4>1. op' = [op EXCEPT !.queue = queue]
        BY <2>1, <3>2, Zenon
      <4>2. /\ op' \in Operations
            /\ op'.name = op.name /\ op'.markers = op.markers /\ op'.imports = op.imports
            /\ op'.head = op.head /\ op'.queue = queue /\ op'.is_new_tx = op.is_new_tx
            /\ op'.removed = op.removed
        BY <1>3, <1>9, <4>1, Zenon DEF Operations
      <4>3. Stage(op')
        BY <1>3, <1>12, <3>2, <4>2, TxAssumption, Zenon DEF Stage
      <4> QED BY <1>4, <1>9, <4>2, <4>3, Facts, Zenon
    <3> QED BY <3>1, <3>2, SMTT(60)
  <2>4. ready_tx' = ready_tx /\ provided_markers' = provided_markers
    BY <2>1 DEF ready_vars
  <2>5. ReadyInv'
    <3>1. \A k \in ready_tx : requires'[k] = requires[k]
      BY <1>14, <2>4, Facts, Zenon DEF Types
    <3> QED BY <2>1, <3>1, Facts, SameReady
  <2>6. IInv'
    BY <1>15, <2>3, <2>4, <2>5, Zenon
  <2>7. \E t \in ready_tx' : provides(t) = provides(h) /\ gas_price[t] >= gas_price[h]
    <3>1. gas_price[old] >= gas_price[h]
      BY <1>5, <1>13, <2>1, TxAssumption
    <3> QED BY <1>13, <2>1, <2>4, <3>1, Zenon DEF m
  <2> QED BY <1>3, <1>16, <2>3, <2>4, <2>6, <2>7, Zenon DEF ForReason, Taken
<1> QED BY <1>2, <1>17, <1>18, Zenon


\* The loop of add_ready_transaction ends; it has not removed the transaction it was for.
LEMMA AddDoneIInv ==
  ASSUME IInv, add_ready_done
  PROVE  IInv' /\ ForReason
<1> DEFINE o == [op EXCEPT !.head = None, !.promoted = {}, !.removed = {}]
<1>1. /\ op.head # None /\ op.queue = <<>> /\ op' = Resume(o)
      /\ UNCHANGED ready_vars /\ UNCHANGED pending_vars /\ ForgetDropped
  BY Facts, Zenon DEF add_ready_done, is_cyclic
<1>2. /\ o \in Operations
      /\ o.name = op.name /\ o.markers = op.markers /\ o.imports = op.imports
      /\ o.head = None /\ o.queue = <<>> /\ o.is_new_tx = op.is_new_tx /\ o.removed = {}
  BY <1>1, Facts, Zenon DEF Operations
<1> HIDE DEF o
<1>3. op.markers = <<>> /\ ~op.is_new_tx
  BY <1>1, Facts, SMTT(60) DEF Stage
<1>4. Stage(o)
  BY <1>2, <1>3, ShortLists, Zenon DEF Stage
<1>5. /\ op' \in Operations /\ Stage(op') /\ op'.queue = <<>> /\ op'.imports = op.imports
      /\ op'.head = None /\ op'.removed = {}
  BY <1>1, <1>2, <1>4, Resumed, Zenon
<1>6. InFlight(op') = InFlight(op)
  BY <1>1, <1>5, Zenon DEF InFlight
<1>7. /\ requires' \in [Hash -> Marker \cup {None}]
      /\ \A x \in Hash : requires'[x] \in required_marker_choices(x)
      /\ \A x \in Hash : x \in waiting_queue' \cup ready_tx' => requires'[x] = requires[x]
  BY <1>1, Facts, Forgotten, Zenon
<1>8. /\ ReadyInv' /\ ready_tx' = ready_tx /\ provided_markers' = provided_markers
  <2>1. ready_tx' = ready_tx /\ ready_tx \subseteq Hash
    BY <1>1, Facts, SMTT(60) DEF ready_vars, Types
  <2> QED BY <1>1, <1>7, <2>1, Facts, SameReady, Zenon
<1>9. /\ WaitingIndexed' /\ waiting_queue' = waiting_queue
      /\ required_markers' \in [Marker -> SUBSET Hash] /\ waiting_queue' \subseteq Hash
  <2>1. waiting_queue' = waiting_queue /\ waiting_queue \subseteq Hash
    BY <1>1, Facts, SMTT(60) DEF pending_vars, Types
  <2> QED BY <1>1, <1>7, <1>8, <2>1, Facts, StillWaiting, Zenon
<1>10. InOnePlace'
  <2>1. Disjoint(op'.queue) /\ Disjoint(op'.imports) /\ InBatches(op'.queue) = {}
    BY <1>5, Facts, ShortLists, Zenon
  <2> QED BY <1>6, <1>8, <1>9, <2>1, Facts, Zenon DEF InOnePlace, Disjoint
<1>11. ForReason
  BY <1>6, <1>8, <1>9, Zenon DEF ForReason
<1> QED BY <1>5, <1>7, <1>8, <1>9, <1>10, <1>11, Assemble, Zenon

\* The markers a block can prune are a list of markers.
LEMMA ListOfMarkers ==
  ASSUME NEW ms \in MarkerLists
  PROVE  ms \in Seq(Marker)
<1>1. PICK n \in 1..MaxMarkers : ms \in [1..n -> Marker]
  BY Zenon DEF MarkerLists
<1>2. n \in Nat
  BY <1>1, TxAssumption
<1> QED BY <1>1, <1>2

\* Pruning begins.
LEMMA PruneIInv ==
  ASSUME IInv, NEW ms \in Seq(Marker), prune_markers(ms)
  PROVE  IInv' /\ ForReason
<1> DEFINE o == [Idle EXCEPT !.name = "prune", !.markers = ms]
<1>1. /\ op = Idle /\ op' = Resume(o) /\ requires' = requires
      /\ UNCHANGED pending_vars /\ UNCHANGED ready_vars
  BY Zenon DEF prune_markers
<1>2. /\ o \in Operations
      /\ o.name = "prune" /\ o.markers = ms /\ o.imports = <<>> /\ o.queue = <<>>
      /\ o.head = None /\ o.is_new_tx = FALSE /\ o.removed = {}
  <2>1. /\ o.name = "prune" /\ o.markers = ms /\ o.imports = <<>> /\ o.queue = <<>>
        /\ o.head = None /\ o.is_new_tx = FALSE /\ o.removed = {}
    BY DEF Idle
  <2>2. o \in Operations
    BY IdleOperation, Zenon DEF Operations
  <2> QED BY <2>1, <2>2
<1> HIDE DEF o
<1>3. Stage(o)
  BY <1>2, ShortLists, Zenon DEF Stage
<1>4. /\ op' \in Operations /\ Stage(op') /\ op'.queue = <<>> /\ op'.imports = <<>>
      /\ op'.head = None /\ op'.removed = {}
  BY <1>1, <1>2, <1>3, Resumed, Zenon
<1>5. /\ ReadyInv' /\ ready_tx' = ready_tx /\ provided_markers' = provided_markers
  BY <1>1, Facts, SameReady, Zenon
<1>6. /\ WaitingIndexed' /\ waiting_queue' = waiting_queue
      /\ required_markers' \in [Marker -> SUBSET Hash] /\ waiting_queue' \subseteq Hash
  BY <1>1, <1>5, Facts, StillWaiting, Zenon
<1>7. InOnePlace'
  <2>1. /\ InFlight(op') = {} /\ InBatches(op'.queue) = {}
        /\ Disjoint(op'.queue) /\ Disjoint(op'.imports)
    BY <1>4, ShortLists, Zenon DEF InFlight
  <2> QED BY <1>5, <1>6, <2>1, Facts, Zenon DEF InOnePlace, Disjoint
<1>8. /\ requires' \in [Hash -> Marker \cup {None}]
      /\ \A x \in Hash : requires'[x] \in required_marker_choices(x)
  BY <1>1, Facts, Zenon DEF Types
<1> QED BY <1>1, <1>4, <1>5, <1>6, <1>7, <1>8, Assemble, IdleForReason, Zenon

\* One marker is pruned; what waited for it will be imported.
LEMMA PruneOneIInv ==
  ASSUME IInv, prune_marker
  PROVE  IInv' /\ ForReason
<1> DEFINE m == Head(op.markers)
           U == unlocked_by(m)
           imports == Enqueue(op.imports, U)
           o == [op EXCEPT !.markers = Tail(op.markers), !.imports = imports]
<1>1. /\ op.markers # <<>> /\ mark_and_unlock(m) /\ prune_tags(m) /\ op' = Resume(o)
      /\ ForgetDropped
  BY DEF prune_marker
<1>2. /\ op.markers \in Seq(Marker) /\ op.imports \in Seq(SUBSET Hash)
      /\ op.head = None /\ op.queue = <<>> /\ op.name = "prune" /\ ~op.is_new_tx
      /\ op.removed \subseteq Hash
  BY <1>1, Facts DEF Operations, Stage
<1>3. m \in Marker /\ Tail(op.markers) \in Seq(Marker)
  BY <1>1, <1>2
<1>4. /\ required_markers' \in [Marker -> SUBSET Hash] /\ waiting_queue' \subseteq Hash
      /\ U \in SUBSET Hash /\ U \subseteq waiting_queue
      /\ waiting_queue' = waiting_queue \ U
      /\ \A k \in Marker : required_markers'[k] = {x \in waiting_queue' : requires[x] = k}
      /\ required_markers'[m] = {}
      /\ \A k \in Marker : k # m => required_markers'[k] = required_markers[k]
  BY <1>1, <1>3, Facts, Unlocked, Zenon
<1>5. /\ imports \in Seq(SUBSET Hash) /\ InBatches(imports) = InBatches(op.imports) \cup U
      /\ Disjoint(imports)
  <2>1. U \cap InBatches(op.imports) = {}
    BY <1>4, Facts, Zenon DEF InFlight
  <2> QED BY <1>2, <1>4, <2>1, Facts, Enqueued, Zenon
<1> HIDE DEF m, U, imports
<1>6. /\ o \in Operations
      /\ o.name = "prune" /\ o.imports = imports /\ o.queue = <<>>
      /\ o.head = None /\ o.is_new_tx = op.is_new_tx /\ o.removed = op.removed
  BY <1>2, <1>3, <1>5, Facts, Zenon DEF Operations
<1> HIDE DEF o
<1>7. Stage(o)
  BY <1>2, <1>6, ShortLists, Zenon DEF Stage
<1>8. /\ op' \in Operations /\ Stage(op') /\ op'.queue = <<>> /\ op'.imports = imports
      /\ op'.head = None /\ op'.removed \subseteq op.removed
  BY <1>1, <1>6, <1>7, Resumed, Zenon
<1>9. op'.head \notin op'.removed
  BY <1>2, <1>8, TxAssumption, Zenon
<1>10. /\ requires' \in [Hash -> Marker \cup {None}]
       /\ \A x \in Hash : requires'[x] \in required_marker_choices(x)
       /\ \A x \in Hash : x \in waiting_queue' \cup ready_tx' => requires'[x] = requires[x]
  BY <1>1, Facts, Forgotten, Zenon
<1>11. Kept
  <2>1. ready_tx' \subseteq Hash
    BY <1>1, Facts, Zenon DEF prune_tags, Types
  <2> QED BY <1>10, <2>1, Zenon DEF Kept
<1>12. /\ ReadyInv' /\ ready_tx' \subseteq ready_tx
       /\ \A k \in Marker : provided_markers[k] = None => provided_markers'[k] = None
       /\ \A h \in ready_tx \ ready_tx' : sender[h] = m[2] /\ nonce[h] <= m[1]
  BY <1>1, <1>3, <1>11, Facts, PrunedReady, Zenon
<1>13. WaitingIndexed'
  <2> SUFFICES ASSUME NEW k \in Marker
               PROVE  /\ required_markers'[k] = {x \in waiting_queue' : requires'[x] = k}
                      /\ required_markers'[k] # {} => provided_markers'[k] = None
    BY Zenon DEF WaitingIndexed
  <2>1. required_markers'[k] = {x \in waiting_queue' : requires'[x] = k}
    BY <1>4, <1>10
  <2>2. required_markers'[k] # {} => provided_markers'[k] = None
    BY <1>4, <1>12, Facts, Zenon DEF WaitingIndexed
  <2> QED BY <2>1, <2>2, Zenon
<1>14. InFlight(op') = InFlight(op) \cup U
  BY <1>2, <1>5, <1>8, Zenon DEF InFlight
<1>15. InOnePlace'
  <2>1. /\ InBatches(op'.queue) = {} /\ Disjoint(op'.queue) /\ Disjoint(op'.imports)
    BY <1>5, <1>8, ShortLists, Zenon
  <2>2. InFlight(op') \cap (waiting_queue' \cup ready_tx') = {}
    BY <1>4, <1>12, <1>14, Facts, Zenon
  <2>3. waiting_queue' \cap ready_tx' = {}
    BY <1>4, <1>12, Facts, Zenon
  <2> QED BY <2>1, <2>2, <2>3, Zenon DEF InOnePlace, Disjoint
<1>16. ForReason
  <2>1. \A h \in waiting_queue \cup InFlight(op) :
          h \in waiting_queue' \cup ready_tx' \cup InFlight(op')
    BY <1>4, <1>14, Zenon
  <2>2. op.name # "add"
    BY <1>2
  <2> QED BY <1>12, <2>1, <2>2, Zenon DEF ForReason, m
<1> QED BY <1>4, <1>8, <1>9, <1>10, <1>12, <1>13, <1>15, <1>16, Assemble, Zenon

\* An unlocked transaction is imported: an operation for it begins.
LEMMA ImportIInv ==
  ASSUME IInv, import_unlocked
  PROVE  IInv' /\ ForReason
<1>1. PICK h \in op.imports[1] :
        op' = [op EXCEPT !.imports = Dequeue(@, h), !.head = h, !.queue = <<{h}>>,
                         !.is_new_tx = TRUE, !.promoted = {}, !.removed = {}]
  BY Zenon DEF import_unlocked
<1> DEFINE rest == Dequeue(op.imports, h)
<1>2. /\ op.markers = <<>> /\ op.imports # <<>> /\ op.head = None /\ requires' = requires
      /\ UNCHANGED pending_vars /\ UNCHANGED ready_vars
  BY Zenon DEF import_unlocked
<1>3. op.imports \in Seq(SUBSET Hash) /\ op.queue = <<>>
  BY <1>2, Facts, SMTT(60) DEF Operations, Stage
<1>4. /\ rest \in Seq(SUBSET Hash) /\ InBatches(rest) = InBatches(op.imports) \ {h}
      /\ Disjoint(rest) /\ h \in InBatches(op.imports)
  BY <1>2, <1>3, Facts, Dequeued, Zenon
<1>5. h \in Hash
  BY <1>2, <1>3
<1>6. op' = [op EXCEPT !.imports = rest, !.head = h, !.queue = <<{h}>>,
                       !.is_new_tx = TRUE, !.promoted = {}, !.removed = {}]
  BY <1>1
<1> HIDE DEF rest
<1>7. /\ op' \in Operations
      /\ op'.name = op.name /\ op'.markers = <<>> /\ op'.imports = rest /\ op'.head = h
      /\ op'.queue = <<{h}>> /\ op'.is_new_tx = TRUE /\ op'.removed = {}
  <2>1. op \in Operations
    BY Facts
  <2>2. /\ op'.name = op.name /\ op'.markers = <<>> /\ op'.imports = rest /\ op'.head = h
        /\ op'.queue = <<{h}>> /\ op'.is_new_tx = TRUE /\ op'.removed = {}
    BY <1>2, <1>6, <2>1 DEF Operations
  <2>3. op' \in Operations
    BY <1>4, <1>5, <1>6, <2>1, ListTypes, Zenon DEF Operations
  <2> QED BY <2>2, <2>3
<1>8. Stage(op')
  BY <1>5, <1>7, TxAssumption, Zenon DEF Stage
<1>9. /\ ReadyInv' /\ ready_tx' = ready_tx /\ provided_markers' = provided_markers
  BY <1>2, Facts, SameReady, Zenon
<1>10. /\ WaitingIndexed' /\ waiting_queue' = waiting_queue
       /\ required_markers' \in [Marker -> SUBSET Hash] /\ waiting_queue' \subseteq Hash
  BY <1>2, <1>9, Facts, StillWaiting, Zenon
<1>11. InFlight(op') = InFlight(op)
  <2>1. InBatches(op'.queue) = {h} /\ InBatches(op.queue) = {}
    BY <1>3, <1>7, ShortLists, Zenon
  <2> QED BY <1>4, <1>7, <2>1, Zenon DEF InFlight
<1>12. InOnePlace'
  <2>1. /\ InBatches(op'.queue) = {h} /\ Disjoint(op'.queue) /\ Disjoint(op'.imports)
        /\ InBatches(op'.imports) = InBatches(op.imports) \ {h}
    BY <1>4, <1>7, ShortLists, ZenonT(60)
  <2> QED BY <1>9, <1>10, <1>11, <2>1, Facts, Zenon DEF InOnePlace, Disjoint
<1>13. /\ requires' \in [Hash -> Marker \cup {None}]
       /\ \A x \in Hash : requires'[x] \in required_marker_choices(x)
  BY <1>2, Facts, Zenon DEF Types
<1>14. ForReason
  BY <1>9, <1>10, <1>11, Zenon DEF ForReason
<1>15. op'.head \notin op'.removed
  BY <1>7, Zenon
<1> QED BY <1>7, <1>8, <1>9, <1>10, <1>12, <1>13, <1>14, <1>15, Assemble, Zenon


\* Transactions are removed on request, when no operation is in progress: whichever
\* of the waiting ones leave, the index forgets them.
LEMMA RemoveIInv ==
  ASSUME IInv, op = Idle, op' = op, NEW hashes, remove_with_markers(hashes), ForgetDropped,
         pending_remove(hashes) \/ UNCHANGED pending_vars
  PROVE  IInv' /\ ForReason
<1>1. /\ requires' \in [Hash -> Marker \cup {None}]
      /\ \A x \in Hash : requires'[x] \in required_marker_choices(x)
      /\ \A x \in Hash : x \in waiting_queue' \cup ready_tx' => requires'[x] = requires[x]
  BY Facts, Forgotten, Zenon
<1>2. Kept
  <2>1. ready_tx' \subseteq Hash
    BY Facts, Zenon DEF remove_with_markers, Types
  <2> QED BY <1>1, <2>1, Zenon DEF Kept
<1>3. /\ ReadyInv' /\ ready_tx' \subseteq ready_tx
      /\ \A m \in Marker : provided_markers[m] = None => provided_markers'[m] = None
  BY <1>2, Facts, RemovedReady, Zenon
<1>4. /\ WaitingIndexed' /\ waiting_queue' \subseteq waiting_queue
      /\ required_markers' \in [Marker -> SUBSET Hash] /\ waiting_queue' \subseteq Hash
  <2>1. CASE pending_remove(hashes)
    <3> DEFINE gone == hashes \cap waiting_queue
    <3>1. /\ waiting_queue' = waiting_queue \ gone
          /\ required_markers' = [m \in Marker |-> required_markers[m] \ gone]
      BY <2>1, Zenon DEF pending_remove
    <3> HIDE DEF gone
    <3>2. waiting_queue' \subseteq Hash /\ waiting_queue' \subseteq waiting_queue
      BY <3>1, Facts, Zenon DEF Types
    <3>3. \A m \in Marker : /\ required_markers'[m] = required_markers[m] \ gone
                            /\ required_markers[m] \subseteq Hash
      BY <3>1, Facts, Zenon DEF Types
    <3>4. required_markers' \in [Marker -> SUBSET Hash]
      BY <3>1, <3>3
    <3>5. WaitingIndexed'
      <4> SUFFICES ASSUME NEW m \in Marker
                   PROVE  /\ required_markers'[m] = {x \in waiting_queue' : requires'[x] = m}
                          /\ required_markers'[m] # {} => provided_markers'[m] = None
        BY Zenon DEF WaitingIndexed
      <4>1. /\ required_markers[m] = {x \in waiting_queue : requires[x] = m}
            /\ required_markers[m] # {} => provided_markers[m] = None
        BY Facts, Zenon DEF WaitingIndexed
      <4>2. \A x \in waiting_queue' : requires'[x] = requires[x]
        BY <1>1, <3>2, Zenon
      <4>3. required_markers'[m] = {x \in waiting_queue' : requires'[x] = m}
        BY <3>1, <3>3, <4>1, <4>2, Zenon
      <4>4. required_markers'[m] # {} => provided_markers'[m] = None
        BY <1>3, <3>3, <4>1, Zenon
      <4> QED BY <4>3, <4>4
    <3> QED BY <3>2, <3>4, <3>5
  <2>2. CASE UNCHANGED pending_vars
    <3>1. waiting_queue' = waiting_queue /\ waiting_queue \subseteq Hash
      BY <2>2, Facts, SMTT(60) DEF pending_vars, Types
    <3> QED BY <1>1, <1>3, <2>2, <3>1, Facts, StillWaiting, Zenon
  <2> QED BY <2>1, <2>2
<1>5. InOnePlace'
  <2>1. InFlight(op') = {}
    BY IdleOperation, Zenon
  <2>2. waiting_queue' \cap ready_tx' = {}
    BY <1>3, <1>4, Facts, Zenon
  <2> QED BY <2>1, <2>2, Facts, ZenonT(60) DEF InOnePlace
<1>6. op' \in Operations /\ Stage(op') /\ op'.head \notin op'.removed
  BY Facts, Zenon
<1> QED BY <1>1, <1>3, <1>4, <1>5, <1>6, Assemble, IdleForReason, Zenon

\* The empty pool, as after clear.
EmptyPool ==
  /\ requires = [h \in Hash |-> None]
  /\ required_markers = [m \in Marker |-> {}]
  /\ waiting_queue = {}
  /\ provided_markers = [m \in Marker |-> None]
  /\ ready_tx = {}
  /\ unlocks = [h \in Hash |-> NoUnlocks]
  /\ requires_offset = [h \in Hash |-> 0]
  /\ independent_transactions = {}
  /\ op = Idle

\* An empty pool is consistent.
LEMMA EmptyIInv ==
  ASSUME EmptyPool
  PROVE  IInv
<1>1. Types
  <2>1. \A h \in Hash : requires[h] \in required_marker_choices(h)
    BY Zenon DEF EmptyPool, required_marker_choices
  <2>2. unlocks \in [Hash -> [Hash -> Nat]] /\ requires_offset \in [Hash -> Nat]
    BY DEF EmptyPool, NoUnlocks
  <2>3. /\ requires \in [Hash -> Marker \cup {None}]
        /\ required_markers \in [Marker -> SUBSET Hash]
        /\ provided_markers \in [Marker -> Hash \cup {None}]
    BY Zenon DEF EmptyPool
  <2> QED BY <2>1, <2>2, <2>3, IdleOperation, Zenon DEF Types, EmptyPool
<1>2. MarkersExact /\ WaitingIndexed /\ Reached
  BY Zenon DEF MarkersExact, WaitingIndexed, Reached, EmptyPool
<1>3. InOnePlace
  BY IdleOperation, ShortLists, Zenon DEF InOnePlace, EmptyPool, Disjoint
<1>4. Links
  <2>1. \A p, k \in Hash : unlocks[p][k] = 0
    BY DEF EmptyPool, NoUnlocks
  <2> QED BY <2>1 DEF Links
<1>5. Stage(op) /\ ~is_cyclic
  BY IdleOperation, Zenon DEF EmptyPool, is_cyclic
<1> QED BY <1>1, <1>2, <1>3, <1>4, <1>5, Zenon DEF IInv, PoolConsistent

\* Everything is dropped.
LEMMA ClearIInv ==
  ASSUME IInv, clear
  PROVE  IInv' /\ ForReason
<1>1. EmptyPool' /\ op = Idle
  BY Zenon DEF EmptyPool, clear
<1>2. EmptyPool' => IInv'
  BY EmptyIInv, PTL
<1> QED BY <1>1, <1>2, IdleForReason, Zenon

\* Nothing changes.
LEMMA StutterIInv ==
  ASSUME IInv, UNCHANGED vars
  PROVE  IInv'
<1>1. UNCHANGED <<requires, required_markers, waiting_queue, provided_markers, ready_tx, unlocks,
                  requires_offset, independent_transactions, op>>
  BY DEF vars, pending_vars, ready_vars
<1> QED BY <1>1, ZenonT(60) DEF IInv, Types, PoolConsistent, MarkersExact, WaitingIndexed, InOnePlace,
             InFlight, is_cyclic, Stage, Links, Reached, Follows, provider

\* Every step keeps the invariant and takes out only what there is a reason for.
LEMMA NextIInv ==
  ASSUME IInv, Next
  PROVE  IInv' /\ ForReason
<1>1. ASSUME NEW h \in Hash, NEW r \in required_marker_choices(h), add_transaction(h, r)
      PROVE  IInv' /\ ForReason
  BY <1>1, AddIInv
<1>2. ASSUME NEW ms \in MarkerLists, prune_markers(ms) PROVE IInv' /\ ForReason
  BY <1>2, ListOfMarkers, PruneIInv
<1>3. ASSUME NEW hashes, remove_invalid(hashes) PROVE IInv' /\ ForReason
  BY <1>3, RemoveIInv, Zenon DEF remove_invalid, remove_listed
<1>4. ASSUME NEW a \in Sender, remove_transactions_by_address(a) PROVE IInv' /\ ForReason
  BY <1>4, RemoveIInv, Zenon DEF remove_transactions_by_address, remove_listed
<1>5. ASSUME NEW h \in Hash, drop_transaction(h) PROVE IInv' /\ ForReason
  BY <1>5, RemoveIInv DEF drop_transaction
<1>6. CASE clear
  BY <1>6, ClearIInv
<1>7. CASE Continue
  BY <1>7, AddReadyIInv, AddDoneIInv, PruneOneIInv, ImportIInv, Zenon DEF Continue
<1> QED BY <1>1, <1>2, <1>3, <1>4, <1>5, <1>6, <1>7, Zenon DEF Next

-----------------------------------------------------------------------------
(* The theorems about the pool *)

\* The invariant that the proofs go through.
LEMMA PoolInvariant == Spec => []IInv
<1>1. Init => IInv
  BY EmptyIInv, Zenon DEF Init, EmptyPool
<1>2. IInv /\ [Next]_vars => IInv'
  BY NextIInv, StutterIInv, Zenon
<1> QED BY <1>1, <1>2, PTL DEF Spec

\* The maps and queues of the pool agree with one another in every state, also between
\* the iterations of add_ready_transaction and prune_markers, so that none of the pool's
\* asserts and expects fails, and no addition ends as a cyclic transaction.
THEOREM PoolIsConsistent == Spec => []PoolConsistent
<1>1. IInv => PoolConsistent
  BY DEF IInv
<1> QED BY <1>1, PoolInvariant, PTL

\* No operation of the pool loses a transaction: one leaves only for a ready transaction
\* of its sender and nonce that pays enough, or because its marker was pruned.
THEOREM TransactionsLeaveForReason == Spec => LeavesForReason
<1>1. IInv /\ [Next]_vars => [ForReason]_vars
  BY NextIInv, Zenon
<1> QED BY <1>1, PoolInvariant, PTL DEF Spec, LeavesForReason

\* A set of ready transactions that holds the independent ones and is closed under the
\* links holds them all: a missing one of least nonce would follow one that is not missing.
LEMMA ClosedHoldsAll ==
  ASSUME Counting, IInv, NEW C \in SUBSET ready_tx,
         independent_transactions \cap ready_tx \subseteq C,
         \A p \in C, k \in ready_tx : unlocks[p][k] > 0 => k \in C
  PROVE  ready_tx \subseteq C
<1> SUFFICES ASSUME ready_tx \ C # {} PROVE FALSE
  BY Zenon
<1> DEFINE T == {nonce[h] : h \in ready_tx \ C}
<1>1. ready_tx \subseteq Hash
  BY Facts, Zenon DEF Types
<1>2. T \subseteq Nat /\ T # {}
  BY <1>1, Provides, SMTT(60)
<1>3. PICK n \in T : \A y \in T : ~(y < n)
  BY <1>2, Zenon DEF Counting
<1>4. PICK h \in ready_tx \ C : nonce[h] = n
  BY <1>3, Zenon
<1>5. Follows(h)
  BY <1>4, Facts, Zenon DEF Reached
<1>6. /\ provider(h) \in ready_tx /\ provider(h) \in Hash
      /\ nonce[h] = nonce[provider(h)] + 1 /\ nonce[provider(h)] \in Nat
  BY <1>1, <1>4, <1>5, Facts, ProviderIs, Zenon DEF Follows
<1>7. provider(h) \notin C
  BY <1>4, <1>5, Zenon DEF Follows
<1>8. nonce[provider(h)] \in T
  BY <1>6, <1>7, Zenon
<1>9. nonce[provider(h)] < n
  BY <1>4, <1>6
<1> QED BY <1>3, <1>8, <1>9, Zenon

-----------------------------------------------------------------------------
(* The node around the pool *)

\* A block from the choice of its transactions to the end of its pruning.
Jobs ==
  [pc : {"none", "mining", "mined", "prune", "pruning"}, txs : Seq(Hash),
   included : Seq(Hash), invalid : SUBSET Hash]

\* A submission in progress.
Requests ==
  [pc : {"idle", "raw", "account_nonce", "validate", "add", "adding", "notify"},
   hash : Hash \cup {None}, nonce : Nat, requires : Marker \cup {None}, notify : Int]

\* The types of the index of the independent transactions.
IndexTypes ==
  independent_transactions \subseteq Hash /\ ref_id \in [Hash -> Nat] /\ id \in Nat

\* The types of what the node does with the pool.
NodeTypes ==
  /\ config \in Configs
  /\ chain_nonce \in [Sender -> Nat]
  /\ queued \in Seq(Seq(Hash))
  /\ job \in [Worker -> Jobs]
  /\ req \in [Client -> Requests]

\* The nonce of a transaction is not ahead of its account.
Due(h) == nonce[h] <= chain_nonce[sender[h]]

\* The nonce of a transaction is used up.
Used(h) == nonce[h] < chain_nonce[sender[h]]

\* In a list of transactions, the nonce before that of the i-th.
Before(txs, i) ==
  \E j \in 1..(i - 1) : sender[txs[j]] = sender[txs[i]] /\ nonce[txs[i]] = nonce[txs[j]] + 1

\* Every transaction of a list is due or comes after the one before it.
InNonceOrder(txs) == \A i \in DOMAIN txs : Due(txs[i]) \/ Before(txs, i)

\* Raw transactions enter the pool as what they are: the operation in progress prunes
\* markers that are used up, imports transactions that are due, and adds transactions
\* that are due or whose predecessor is ready.
PoolDue ==
  /\ \A h \in independent_transactions : Due(h)
  /\ \A i \in DOMAIN op.markers : op.markers[i][1] < chain_nonce[op.markers[i][2]]
  /\ \A h \in InBatches(op.imports) : Due(h)
  /\ \A h \in InBatches(op.queue) : Due(h) \/ provider(h) # None

\* Clients submit raw transactions only.
OnlyRaw == "send" \notin config.calls

\* A submission that is about to be added requires nothing or the marker before its
\* own; a raw one requires nothing only if it is due.
Submission(r) ==
  /\ r.pc \in {"raw", "account_nonce", "validate", "add"} => r.hash \in Hash
  /\ r.pc = "add" => r.requires \in required_marker_choices(r.hash)
  /\ OnlyRaw => /\ r.pc \notin {"account_nonce", "validate"}
                /\ r.pc = "add" /\ r.requires = None => Due(r.hash)

\* The transactions chosen for a block.
Chosen(txs) == OnlyRaw => InNonceOrder(txs)

\* The exception of InvalidOnlyStale.
LeftOut(j, h) == \E k \in exhausted(j) : sender[k] = sender[h] /\ nonce[k] < nonce[h]

\* A block that is being mined and pruned.
Block(j) ==
  /\ Chosen(j.txs)
  /\ \A h \in Elements(j.included) : Used(h)
  /\ OnlyRaw => \A h \in j.invalid : Used(h) \/ LeftOut(j, h)

\* The blocks that wait for the producer, and the ones in progress.
Blocks ==
  /\ \A i \in DOMAIN queued : Chosen(queued[i])
  /\ \A w \in Worker : Block(job[w])

\* The inductive invariant of the node.
NodeInv ==
  /\ IInv /\ IndexTypes /\ NodeTypes
  /\ OnlyRaw => PoolDue
  /\ \A c \in Client : Submission(req[c])
  /\ Blocks

-----------------------------------------------------------------------------
(* Recursion *)

\* A set of naturals that holds 0, and with a number its successor up to a bound,
\* holds all up to the bound.
LEMMA UpTo ==
  ASSUME Counting, NEW S, NEW n \in Nat, 0 \in S, \A k \in 0..n : k \in S /\ k < n => k + 1 \in S
  PROVE  0..n \subseteq S
<1> SUFFICES ASSUME 0..n \ S # {} PROVE FALSE
  BY Zenon
<1> DEFINE T == 0..n \ S
<1>1. T \subseteq Nat /\ T # {}
  OBVIOUS
<1> HIDE DEF T
<1>2. PICK k \in T : \A y \in T : ~(y < k)
  BY <1>1, Zenon DEF Counting
<1>3. k \in 0..n /\ k \notin S
  BY <1>2, Zenon DEF T
<1>4. k # 0
  BY <1>3, Zenon
<1>5. k - 1 \in 0..n /\ k - 1 < n /\ k - 1 \in Nat /\ k \in Nat /\ k - 1 < k /\ (k - 1) + 1 = k
  BY <1>3, <1>4
<1>6. k - 1 \notin S
  BY <1>3, <1>5
<1>7. k - 1 \in T
  BY <1>5, <1>6 DEF T
<1> QED BY <1>2, <1>5, <1>7, Zenon

\* A non-empty set of transactions has a best one.
LEMMA BestIs ==
  ASSUME Counting, IndexTypes, NEW T \in SUBSET Hash, T # {}
  PROVE  best(T) \in T
<1> DEFINE Best(U, h) == h \in U /\ \A k \in U : ~comes_before(k, h)
           Bad == {n \in Nat : \E U \in SUBSET T : /\ Cardinality(U) = n /\ U # {}
                                                   /\ ~\E h \in U : Best(U, h)}
<1>1. \A U \in SUBSET T : /\ Cardinality(U) \in Nat
                           /\ \A h \in U : Cardinality(U \ {h}) = Cardinality(U) - 1
  BY Zenon DEF Counting
<1>2. \A h \in T : priority(h) \in Nat /\ ref_id[h] \in Nat
  BY TxAssumption DEF priority, IndexTypes
<1>3. \A h, k, l \in T : comes_before(h, k) /\ comes_before(k, l) => comes_before(h, l)
  BY <1>2 DEF comes_before
<1>4. \A h \in T : ~comes_before(h, h)
  BY <1>2 DEF comes_before
<1>5. Bad = {}
  <2> SUFFICES ASSUME Bad # {} PROVE FALSE
    BY Zenon
  <2>1. PICK n \in Bad : \A y \in Bad : ~(y < n)
    <3>1. Bad \subseteq Nat
      BY Zenon
    <3> HIDE DEF Bad
    <3> QED BY <3>1, Zenon DEF Counting
  <2>2. PICK U \in SUBSET T : Cardinality(U) = n /\ U # {} /\ ~\E h \in U : Best(U, h)
    BY <2>1, Zenon
  <2>3. PICK x \in U : TRUE
    BY <2>2, Zenon
  <2> DEFINE V == U \ {x}
  <2>4. Cardinality(V) = n - 1 /\ n \in Nat /\ Cardinality(V) \in Nat /\ V \in SUBSET T
    <3>1. V \in SUBSET T
      BY Zenon
    <3>2. Cardinality(V) = Cardinality(U) - 1
      BY <1>1, Zenon
    <3> QED BY <1>1, <2>2, <3>1, <3>2
  <2>5. V # {}
    <3> SUFFICES ASSUME V = {} PROVE FALSE
      BY Zenon
    <3>1. x \in T /\ \A k \in U : k = x
      BY Zenon
    <3>2. \A k \in U : ~comes_before(k, x)
      BY <1>4, <3>1, Zenon
    <3> QED BY <2>2, <3>2, Zenon
  <2>6. n - 1 \notin Bad
    <3>1. n - 1 < n /\ n - 1 \in Nat /\ n \in Nat
      BY <2>4
    <3> QED BY <2>1, <3>1, Zenon
  <2>7. PICK b \in V : Best(V, b)
    <3>1. n - 1 \in Nat
      BY <2>4
    <3> QED BY <2>4, <2>5, <2>6, <3>1, Zenon
  <2>8. CASE comes_before(x, b)
    <3>1. \A k \in U : ~comes_before(k, x)
      BY <1>3, <1>4, <2>7, <2>8, Zenon
    <3> QED BY <2>2, <3>1, Zenon
  <2>9. CASE ~comes_before(x, b)
    <3>1. \A k \in U : ~comes_before(k, b)
      BY <2>7, <2>9, Zenon
    <3> QED BY <2>2, <2>7, <3>1, Zenon
  <2> QED BY <2>8, <2>9
<1>6. \E h \in T : \A k \in T : ~comes_before(k, h)
  <2>1. Cardinality(T) \in Nat /\ Cardinality(T) \notin Bad
    <3> HIDE DEF Bad
    <3> QED BY <1>1, <1>5
  <2> QED BY <2>1, Zenon
<1> QED BY <1>6, Zenon DEF best

\* The iterator before the first transaction.
FirstIter == [independent |-> independent_transactions, txs |-> <<>>]

\* The recursion of get_transactions has a value.
LEMMA IteratorIs ==
  ASSUME Counting, MaxYields \in Nat
  PROVE  /\ get_transactions[0] = FirstIter
         /\ \A i \in 1..MaxYields : get_transactions[i] = next[get_transactions[i - 1]]
<1> DEFINE A(v, i) == next[v]
           Is(f, n) == f = [i \in 0..n |-> IF i = 0 THEN FirstIter ELSE A(f[i - 1], i)]
           e == get_transactions
           S == {n \in Nat : \E f : Is(f, n)}
<1>1. e = CHOOSE f : Is(f, MaxYields)
  BY Zenon DEF get_transactions, FirstIter
<1> HIDE DEF e
<1>2. 0 \in S
  <2> DEFINE f == [i \in 0..0 |-> FirstIter]
  <2>1. Is(f, 0)
    OBVIOUS
  <2> QED BY <2>1, Zenon
<1>3. ASSUME NEW n \in Nat, n \in S PROVE n + 1 \in S
  <2>1. PICK f : Is(f, n)
    BY <1>3
  <2> DEFINE g == [i \in 0..(n + 1) |-> IF i = n + 1 THEN A(f[n], n + 1) ELSE f[i]]
  <2>2. Is(g, n + 1)
    <3> HIDE DEF A
    <3>1. \A i \in 0..(n + 1) : g[i] = IF i = 0 THEN FirstIter ELSE A(g[i - 1], i)
      <4> SUFFICES ASSUME NEW i \in 0..(n + 1)
                   PROVE  g[i] = IF i = 0 THEN FirstIter ELSE A(g[i - 1], i)
        BY Zenon
      <4>1. CASE i = n + 1
        BY <4>1
      <4>2. CASE i # n + 1
        <5>1. i \in 0..n /\ (i # 0 => i - 1 \in 0..n)
          BY <4>2
        <5>2. g[i] = f[i] /\ (i # 0 => g[i - 1] = f[i - 1])
          BY <5>1
        <5>3. f[i] = IF i = 0 THEN FirstIter ELSE A(f[i - 1], i)
          BY <2>1, <5>1
        <5> QED BY <5>2, <5>3, SMTT(60)
      <4> QED BY <4>1, <4>2
    <3> QED BY <3>1
  <2> HIDE DEF g
  <2>3. \E h : Is(h, n + 1)
    BY <2>2, Zenon
  <2> QED BY <2>3
<1>4. MaxYields \in S
  <2> HIDE DEF S
  <2>1. \A k \in 0..MaxYields : k \in S /\ k < MaxYields => k + 1 \in S
    BY <1>3
  <2>2. 0..MaxYields \subseteq S
    BY <1>2, <2>1, UpTo, Zenon
  <2> QED BY <2>2
<1>5. Is(e, MaxYields)
  <2> HIDE DEF A
  <2> QED BY <1>1, <1>4, Zenon
<1>6. e[0] = FirstIter /\ \A i \in 1..MaxYields : e[i] = A(e[i - 1], i)
  <2> HIDE DEF A
  <2> QED BY <1>5
<1> QED BY <1>6, Zenon DEF e

\* The outcome after one more transaction.
Executed(out, h) == execute_one[h][out]

\* The recursion of execute has a value.
LEMMA OutcomeIs ==
  ASSUME Counting, NEW txs, Len(txs) \in Nat
  PROVE  /\ execute(txs)[0] = NoOutcome
         /\ \A i \in 1..Len(txs) : execute(txs)[i] = Executed(execute(txs)[i - 1], txs[i])
<1> DEFINE A(v, i) == Executed(v, txs[i])
           Is(f, n) == f = [i \in 0..n |-> IF i = 0 THEN NoOutcome ELSE A(f[i - 1], i)]
           e == execute(txs)
           S == {n \in Nat : \E f : Is(f, n)}
<1>1. e = CHOOSE f : Is(f, Len(txs))
  BY Zenon DEF execute, Executed
<1> HIDE DEF e
<1>2. 0 \in S
  <2> DEFINE f == [i \in 0..0 |-> NoOutcome]
  <2>1. Is(f, 0)
    OBVIOUS
  <2> QED BY <2>1, Zenon
<1>3. ASSUME NEW n \in Nat, n \in S PROVE n + 1 \in S
  <2>1. PICK f : Is(f, n)
    BY <1>3
  <2> DEFINE g == [i \in 0..(n + 1) |-> IF i = n + 1 THEN A(f[n], n + 1) ELSE f[i]]
  <2>2. Is(g, n + 1)
    <3> HIDE DEF A
    <3>1. \A i \in 0..(n + 1) : g[i] = IF i = 0 THEN NoOutcome ELSE A(g[i - 1], i)
      <4> SUFFICES ASSUME NEW i \in 0..(n + 1)
                   PROVE  g[i] = IF i = 0 THEN NoOutcome ELSE A(g[i - 1], i)
        BY Zenon
      <4>1. CASE i = n + 1
        BY <4>1, SMTT(60)
      <4>2. CASE i # n + 1
        <5>1. i \in 0..n /\ (i # 0 => i - 1 \in 0..n)
          BY <4>2
        <5>2. g[i] = f[i] /\ (i # 0 => g[i - 1] = f[i - 1])
          BY <5>1, SMTT(60)
        <5>3. f[i] = IF i = 0 THEN NoOutcome ELSE A(f[i - 1], i)
          BY <2>1, <5>1
        <5> QED BY <5>2, <5>3, SMTT(60)
      <4> QED BY <4>1, <4>2, SMTT(60)
    <3> QED BY <3>1, SMTT(60)
  <2> HIDE DEF g
  <2>3. \E h : Is(h, n + 1)
    BY <2>2, Zenon
  <2> QED BY <2>3
<1>4. Len(txs) \in S
  <2> HIDE DEF S
  <2>1. \A k \in 0..Len(txs) : k \in S /\ k < Len(txs) => k + 1 \in S
    BY <1>3
  <2>2. 0..Len(txs) \subseteq S
    BY <1>2, <2>1, UpTo, Zenon
  <2> QED BY <2>2
<1>5. Is(e, Len(txs))
  <2> HIDE DEF A
  <2> QED BY <1>1, <1>4, SMTT(60)
<1>6. e[0] = NoOutcome /\ \A i \in 1..Len(txs) : e[i] = A(e[i - 1], i)
  <2> HIDE DEF A
  <2> QED BY <1>5
<1> QED BY <1>6, Zenon DEF e

\* The iterator, with the transactions it has returned.
Iterators == [independent : SUBSET Hash, txs : Seq(Hash)]

\* A transaction is independent, or one before the i-th of a list unlocks it.
Unlocking(h, txs, i) ==
  h \in independent_transactions \/ \E j \in 1..(i - 1) : unlocks[txs[j]][h] > 0

\* What the iterator has yielded, and what it will yield next.
Linked(iter) ==
  /\ iter \in Iterators
  /\ \A i \in 1..Len(iter.txs) : Unlocking(iter.txs[i], iter.txs, i)
  /\ \A h \in iter.independent : Unlocking(h, iter.txs, Len(iter.txs) + 1)

\* The next call of the iterator.
LEMMA NextLinked ==
  ASSUME Counting, IndexTypes, ready_tx \subseteq Hash, NEW iter, Linked(iter)
  PROVE  Linked(next[iter])
<1> DEFINE h == best(iter.independent)
           unlocked == {k \in ready_tx : unlocks[h][k] > 0}
<1>1. /\ iter \in Iterators /\ iter.independent \in SUBSET Hash /\ iter.txs \in Seq(Hash)
      /\ Len(iter.txs) \in Nat
  BY DEF Linked, Iterators
<1>2. next[iter] = IF iter.independent = {} THEN iter
                   ELSE [independent |-> (iter.independent \ {h}) \cup unlocked,
                         txs |-> Append(iter.txs, h)]
  BY <1>1, Zenon DEF next, Iterators
<1>3. CASE iter.independent = {}
  BY <1>2, <1>3, Zenon
<1>4. CASE iter.independent # {}
  <2>1. h \in iter.independent /\ h \in Hash
    BY <1>1, <1>4, BestIs, Zenon
  <2> HIDE DEF h
  <2>2. unlocked \subseteq Hash /\ \A k \in unlocked : unlocks[h][k] > 0
    BY Zenon
  <2> HIDE DEF unlocked
  <2> DEFINE rest == (iter.independent \ {h}) \cup unlocked
             txs == Append(iter.txs, h)
             n == Len(iter.txs)
  <2>3. next[iter] = [independent |-> rest, txs |-> txs]
    BY <1>2, <1>4, Zenon
  <2>4. /\ txs \in Seq(Hash) /\ Len(txs) = n + 1 /\ txs[n + 1] = h
        /\ \A i \in 1..n : txs[i] = iter.txs[i]
    BY <1>1, <2>1
  <2>5. rest \in SUBSET Hash
    BY <1>1, <2>2, Zenon
  <2> HIDE DEF txs, rest
  <2>6. [independent |-> rest, txs |-> txs] \in Iterators
    BY <2>4, <2>5, Zenon DEF Iterators
  <2>7. ASSUME NEW i \in 1..(n + 1), NEW k, Unlocking(k, iter.txs, i)
        PROVE  Unlocking(k, txs, i)
    <3>1. \A j \in 1..(i - 1) : txs[j] = iter.txs[j]
      BY <1>1, <2>4
    <3> QED BY <2>7, <3>1, Zenon DEF Unlocking
  <2>8. \A i \in 1..Len(txs) : Unlocking(txs[i], txs, i)
    <3> SUFFICES ASSUME NEW i \in 1..(n + 1) PROVE Unlocking(txs[i], txs, i)
      BY <2>4, Zenon
    <3>1. CASE i = n + 1
      <4>1. Unlocking(h, iter.txs, n + 1)
        BY <2>1, Zenon DEF Linked
      <4> QED BY <2>4, <2>7, <3>1, <4>1, Zenon
    <3>2. CASE i # n + 1
      <4>1. i \in 1..n
        BY <1>1, <3>2
      <4>2. Unlocking(iter.txs[i], iter.txs, i)
        BY <4>1, Zenon DEF Linked
      <4> QED BY <2>4, <2>7, <4>1, <4>2, Zenon
    <3> QED BY <3>1, <3>2
  <2>9. ASSUME NEW k \in rest PROVE Unlocking(k, txs, Len(txs) + 1)
    <3>1. n + 1 \in 1..(n + 1) /\ \A j \in 1..((n + 1) - 1) : j \in 1..((Len(txs) + 1) - 1)
      BY <1>1, <2>4
    <3>2. n + 1 \in 1..((Len(txs) + 1) - 1)
      BY <1>1, <2>4
    <3>3. CASE k \in unlocked
      BY <2>2, <2>4, <3>2, <3>3, Zenon DEF Unlocking
    <3>4. CASE k \in iter.independent
      <4>1. Unlocking(k, txs, n + 1)
        BY <2>7, <3>1, <3>4, Zenon DEF Linked
      <4> QED BY <3>1, <4>1, Zenon DEF Unlocking
    <3> QED BY <2>9, <3>3, <3>4, Zenon DEF rest
  <2>10. /\ [independent |-> rest, txs |-> txs].independent = rest
         /\ [independent |-> rest, txs |-> txs].txs = txs
    BY Zenon
  <2> QED BY <2>3, <2>6, <2>8, <2>9, <2>10, Zenon DEF Linked
<1> QED BY <1>3, <1>4

\* What the iterator yields, over all its calls.
LEMMA YieldedLinked ==
  ASSUME Counting, IndexTypes, ready_tx \subseteq Hash
  PROVE  /\ ready_transactions \in Seq(Hash)
         /\ \A i \in 1..Len(ready_transactions) :
              Unlocking(ready_transactions[i], ready_transactions, i)
<1>1. MaxYields \in Nat
  <2>1. Cardinality(ready_tx) \in Nat
    BY Zenon DEF Counting
  <2> QED BY <2>1, TxAssumption DEF MaxYields
<1> DEFINE S == {n \in Nat : Linked(get_transactions[n])}
<1>2. 0 \in S
  <2>1. FirstIter \in Iterators /\ FirstIter.independent = independent_transactions
        /\ FirstIter.txs = <<>>
    BY DEF FirstIter, Iterators, IndexTypes
  <2>2. 1..Len(<<>>) = {}
    OBVIOUS
  <2>3. Linked(FirstIter)
    BY <2>1, <2>2, Zenon DEF Linked, Unlocking
  <2> QED BY <1>1, <2>3, IteratorIs
<1>3. ASSUME NEW k \in 0..MaxYields, k \in S, k < MaxYields PROVE k + 1 \in S
  <2>1. k + 1 \in Nat /\ k + 1 \in 1..MaxYields /\ (k + 1) - 1 = k
    BY <1>1, <1>3
  <2>2. get_transactions[k + 1] = next[get_transactions[k]]
    BY <1>1, <2>1, IteratorIs
  <2>3. Linked(get_transactions[k + 1])
    BY <1>3, <2>2, NextLinked, Zenon
  <2> QED BY <2>1, <2>3, Zenon
<1>4. MaxYields \in S
  <2> HIDE DEF S
  <2>1. 0..MaxYields \subseteq S
    BY <1>1, <1>2, <1>3, UpTo, Zenon
  <2> QED BY <1>1, <2>1
<1> QED BY <1>4, SMTT(60) DEF ready_transactions, Linked, Iterators

\* The iterator yields due transactions, and others after the ones before them.
LEMMA YieldedInOrder ==
  ASSUME Counting, Types, Links, IndexTypes, \A h \in independent_transactions : Due(h)
  PROVE  InNonceOrder(ready_transactions)
<1> DEFINE txs == ready_transactions
<1>1. /\ txs \in Seq(Hash)
      /\ \A i \in 1..Len(txs) : Unlocking(txs[i], txs, i)
  BY YieldedLinked, Zenon DEF Types
<1> HIDE DEF txs
<1> SUFFICES ASSUME NEW i \in DOMAIN txs PROVE Due(txs[i]) \/ Before(txs, i)
  BY Zenon DEF InNonceOrder, txs
<1>2. /\ i \in 1..Len(txs) /\ txs[i] \in Hash
      /\ \A j \in 1..(i - 1) : txs[j] \in Hash
  BY <1>1
<1>3. CASE txs[i] \in independent_transactions
  BY <1>3
<1>4. ASSUME NEW j \in 1..(i - 1), unlocks[txs[j]][txs[i]] > 0 PROVE Before(txs, i)
  BY <1>2, <1>4, SMTT(60) DEF Before, Links
<1> QED BY <1>1, <1>2, <1>3, <1>4, Zenon DEF Unlocking

\* The beginning of a list.
LEMMA TakeIs ==
  ASSUME NEW txs \in Seq(Hash), NEW n \in Nat
  PROVE  /\ Take(txs, n) \in Seq(Hash)
         /\ InNonceOrder(txs) => InNonceOrder(Take(txs, n))
<1> DEFINE t == Take(txs, n)
<1>1. /\ t \in Seq(Hash)
      /\ \A i \in DOMAIN t : /\ i \in DOMAIN txs /\ t[i] = txs[i]
                             /\ \A j \in 1..(i - 1) : t[j] = txs[j]
  BY DEF Take
<1> HIDE DEF t
<1>2. InNonceOrder(txs) => InNonceOrder(t)
  <2> SUFFICES ASSUME InNonceOrder(txs), NEW i \in DOMAIN t PROVE Due(t[i]) \/ Before(t, i)
    BY Zenon DEF InNonceOrder
  <2>1. Due(txs[i]) \/ Before(txs, i)
    BY <1>1, Zenon DEF InNonceOrder
  <2> QED BY <1>1, <2>1, Zenon DEF Before
<1> QED BY <1>1, <1>2, Zenon DEF t

-----------------------------------------------------------------------------
(* Executing a block *)

\* The first n transactions of a list that did not fit.
Skipped(out, txs, n) ==
  {k \in Hash : /\ \E i \in 1..n : txs[i] = k
                /\ out.gas_used + gas[k] > config.gas_limit
                /\ k \notin Elements(out.included) \cup out.invalid}

\* The block has used up the nonce of a transaction.
Past(out, h) == nonce[h] < out.nonces[sender[h]]

\* After the first n transactions of a list: those that are not executed or used up
\* come after one that did not fit.
Executing(out, txs, n) ==
  /\ out \in Outcome
  /\ \A a \in Sender : chain_nonce[a] <= out.nonces[a]
  /\ \A h \in Elements(out.included) : Past(out, h)
  /\ InNonceOrder(txs) =>
       /\ \A h \in out.invalid :
            Past(out, h) \/ \E k \in Skipped(out, txs, n) :
                              sender[k] = sender[h] /\ nonce[k] < nonce[h]
       /\ \A i \in 1..n :
            Past(out, txs[i]) \/ \E k \in Skipped(out, txs, n) :
                                   sender[k] = sender[txs[i]] /\ nonce[k] <= nonce[txs[i]]

\* What one transaction does.
LEMMA ExecutedOne ==
  ASSUME config \in Configs, NEW out \in Outcome, NEW h \in Hash
  PROVE  /\ Executed(out, h) \in Outcome
         /\ \A a \in Sender : out.nonces[a] <= Executed(out, h).nonces[a]
         /\ out.gas_used <= Executed(out, h).gas_used
         /\ \/ /\ out.gas_used + gas[h] > config.gas_limit
               /\ Executed(out, h) = out
            \/ /\ ~(out.gas_used + gas[h] > config.gas_limit)
               /\ nonce[h] # out.nonces[sender[h]]
               /\ Executed(out, h).nonces = out.nonces
               /\ Executed(out, h).included = out.included
               /\ Executed(out, h).invalid = out.invalid \cup {h}
            \/ /\ ~(out.gas_used + gas[h] > config.gas_limit)
               /\ Past(Executed(out, h), h)
               /\ Elements(Executed(out, h).included) = Elements(out.included) \cup {h}
               /\ Executed(out, h).invalid = out.invalid
<1> DEFINE new == Executed(out, h)
           s == sender[h]
<1>1. /\ out.nonces \in [Sender -> Nat] /\ out.gas_used \in Nat
      /\ out.included \in Seq(Hash) /\ out.invalid \in SUBSET Hash
      /\ s \in Sender /\ nonce[h] \in Nat /\ gas[h] \in Nat
      /\ config.gas_limit \in Nat
  BY TxAssumption, NodeAssumption, Provides, Zenon DEF Outcome
<1>2. new = IF out.gas_used + gas[h] > config.gas_limit THEN out
            ELSE IF nonce[h] # out.nonces[s]
            THEN [out EXCEPT !.invalid = @ \cup {h}]
            ELSE [out EXCEPT !.nonces[s] = @ + 1, !.gas_used = @ + gas[h],
                             !.included = Append(@, h)]
  BY Zenon DEF Executed, execute_one
<1> HIDE DEF new, s
<1>3. CASE out.gas_used + gas[h] > config.gas_limit
  <2>1. new = out
    BY <1>2, <1>3, Zenon
  <2>2. \A a \in Sender : out.nonces[a] <= out.nonces[a]
    BY <1>1
  <2>3. out.gas_used <= out.gas_used
    BY <1>1
  <2> QED BY <1>3, <2>1, <2>2, <2>3, Zenon DEF new
<1>4. CASE ~(out.gas_used + gas[h] > config.gas_limit) /\ nonce[h] # out.nonces[s]
  <2>1. new = [out EXCEPT !.invalid = @ \cup {h}]
    BY <1>2, <1>4, Zenon
  <2>2. /\ new \in Outcome /\ new.nonces = out.nonces /\ new.gas_used = out.gas_used
        /\ new.included = out.included /\ new.invalid = out.invalid \cup {h}
    BY <2>1 DEF Outcome
  <2>3. \A a \in Sender : out.nonces[a] <= out.nonces[a]
    BY <1>1
  <2>4. out.gas_used <= out.gas_used
    BY <1>1
  <2> QED BY <1>4, <2>2, <2>3, <2>4, Zenon DEF new, s
<1>5. CASE ~(out.gas_used + gas[h] > config.gas_limit) /\ nonce[h] = out.nonces[s]
  <2>1. new = [out EXCEPT !.nonces[s] = @ + 1, !.gas_used = @ + gas[h],
                          !.included = Append(@, h)]
    BY <1>2, <1>5, Zenon
  <2>2. /\ new \in Outcome
        /\ new.nonces = [out.nonces EXCEPT ![s] = @ + 1]
        /\ new.gas_used = out.gas_used + gas[h]
        /\ new.included = Append(out.included, h) /\ new.invalid = out.invalid
    <3> DEFINE nonces == [out.nonces EXCEPT ![s] = @ + 1]
               included == Append(out.included, h)
    <3>1. nonces \in [Sender -> Nat] /\ included \in Seq(Hash) /\ out.gas_used + gas[h] \in Nat
      BY <1>1, SMTT(60)
    <3>2. /\ new.nonces = nonces /\ new.gas_used = out.gas_used + gas[h]
          /\ new.included = included /\ new.invalid = out.invalid
      BY <2>1 DEF Outcome
    <3>3. new = [nonces |-> new.nonces, gas_used |-> new.gas_used,
                 included |-> new.included, invalid |-> new.invalid]
      BY <2>1, Zenon DEF Outcome
    <3> HIDE DEF nonces, included
    <3>4. [nonces |-> new.nonces, gas_used |-> new.gas_used,
           included |-> new.included, invalid |-> new.invalid] \in Outcome
      BY <1>1, <3>1, <3>2, Zenon DEF Outcome
    <3> QED BY <3>2, <3>3, <3>4, Zenon DEF nonces, included
  <2>3. /\ \A a \in Sender : out.nonces[a] <= new.nonces[a]
        /\ out.gas_used <= new.gas_used
    BY <1>1, <2>2, SMTT(60)
  <2>4. Past(new, h)
    BY <1>1, <1>5, <2>2, SMTT(60) DEF Past, s
  <2>5. Elements(new.included) = Elements(out.included) \cup {h}
    <3> DEFINE t == Append(out.included, h)
               n == Len(out.included)
    <3>1. /\ n \in Nat /\ DOMAIN t = 1..(n + 1) /\ DOMAIN out.included = 1..n
          /\ t[n + 1] = h /\ \A i \in 1..n : t[i] = out.included[i]
      BY <1>1, SMTT(60)
    <3> HIDE DEF t, n
    <3>2. \A i \in DOMAIN t : i \in DOMAIN out.included \/ i = n + 1
      BY <3>1
    <3>3. n + 1 \in DOMAIN t /\ \A i \in DOMAIN out.included : i \in DOMAIN t /\ t[i] = out.included[i]
      BY <3>1, SMTT(60)
    <3>4. ASSUME NEW x \in Elements(t) PROVE x \in Elements(out.included) \cup {h}
      BY <3>1, <3>2, <3>3, <3>4, Zenon DEF Elements
    <3>5. ASSUME NEW x \in Elements(out.included) PROVE x \in Elements(t)
      BY <3>3, <3>5, Zenon DEF Elements
    <3>6. h \in Elements(t)
      BY <3>1, <3>3, Zenon DEF Elements
    <3>7. Elements(t) = Elements(out.included) \cup {h}
      BY <3>4, <3>5, <3>6, Zenon
    <3> QED BY <2>2, <3>7, Zenon DEF t
  <2> QED BY <1>5, <2>2, <2>3, <2>4, <2>5, Zenon DEF new
<1> QED BY <1>3, <1>4, <1>5, Zenon

\* A transaction that did not fit does not fit later, and is executed no more.
LEMMA StillSkipped ==
  ASSUME config \in Configs, NEW out \in Outcome, NEW txs, NEW n \in Nat, txs[n + 1] \in Hash
  PROVE  Skipped(out, txs, n) \subseteq Skipped(Executed(out, txs[n + 1]), txs, n + 1)
<1> DEFINE h == txs[n + 1]
           new == Executed(out, h)
<1>1. h \in Hash
  OBVIOUS
<1> HIDE DEF h
<1>2. /\ new \in Outcome /\ out.gas_used <= new.gas_used
      /\ \/ out.gas_used + gas[h] > config.gas_limit /\ new = out
         \/ /\ ~(out.gas_used + gas[h] > config.gas_limit)
            /\ Elements(new.included) \subseteq Elements(out.included) \cup {h}
            /\ new.invalid \subseteq out.invalid \cup {h}
  BY <1>1, ExecutedOne, Zenon
<1> HIDE DEF new
<1> SUFFICES ASSUME NEW k \in Skipped(out, txs, n) PROVE k \in Skipped(new, txs, n + 1)
  BY Zenon DEF new, h
<1>3. /\ k \in Hash /\ out.gas_used + gas[k] > config.gas_limit
      /\ k \notin Elements(out.included) \cup out.invalid
      /\ \E i \in 1..n : txs[i] = k
  BY Zenon DEF Skipped
<1>4. \E i \in 1..(n + 1) : txs[i] = k
  BY <1>3, SMTT(60)
<1>5. new.gas_used + gas[k] > config.gas_limit
  BY <1>2, <1>3, NodeAssumption, SMTT(60) DEF Outcome
<1>6. k \notin Elements(new.included) \cup new.invalid
  <2>1. CASE out.gas_used + gas[h] > config.gas_limit
    BY <1>2, <1>3, <2>1, Zenon
  <2>2. CASE ~(out.gas_used + gas[h] > config.gas_limit)
    BY <1>2, <1>3, <2>2, Zenon
  <2> QED BY <2>1, <2>2, SMTT(60)
<1> QED BY <1>3, <1>4, <1>5, <1>6, Zenon DEF Skipped

\* The next transaction of a block is executed.
LEMMA ExecutingNext ==
  ASSUME config \in Configs, chain_nonce \in [Sender -> Nat], NEW txs \in Seq(Hash),
         NEW n \in Nat, n + 1 \in DOMAIN txs, NEW out, Executing(out, txs, n)
  PROVE  Executing(Executed(out, txs[n + 1]), txs, n + 1)
<1> DEFINE h == txs[n + 1]
           new == Executed(out, h)
           S == Skipped(out, txs, n)
           T == Skipped(new, txs, n + 1)
<1>1. h \in Hash
  OBVIOUS
<1>2. out \in Outcome
  BY Zenon DEF Executing
<1>3. S \subseteq T
  BY <1>1, <1>2, StillSkipped, Zenon
<1>4. /\ new \in Outcome
      /\ \A a \in Sender : out.nonces[a] <= new.nonces[a]
      /\ \/ out.gas_used + gas[h] > config.gas_limit /\ new = out
         \/ /\ ~(out.gas_used + gas[h] > config.gas_limit)
            /\ nonce[h] # out.nonces[sender[h]]
            /\ new.nonces = out.nonces
            /\ new.included = out.included
            /\ new.invalid = out.invalid \cup {h}
         \/ /\ ~(out.gas_used + gas[h] > config.gas_limit)
            /\ Past(new, h)
            /\ Elements(new.included) = Elements(out.included) \cup {h}
            /\ new.invalid = out.invalid
  <2> HIDE DEF h
  <2> QED BY <1>1, <1>2, ExecutedOne, Zenon
<1>5. \A a \in Sender : /\ chain_nonce[a] \in Nat /\ out.nonces[a] \in Nat /\ new.nonces[a] \in Nat
                        /\ chain_nonce[a] <= out.nonces[a] /\ out.nonces[a] <= new.nonces[a]
  BY <1>2, <1>4, Zenon DEF Outcome, Executing
<1>6. \A k \in Hash : sender[k] \in Sender /\ nonce[k] \in Nat
  BY TxAssumption, Provides, SMTT(60)
<1>7. \A k \in Hash : Past(out, k) => Past(new, k)
  BY <1>5, <1>6, SMTT(60) DEF Past
<1>8. /\ \A i \in 1..(n + 1) : txs[i] \in Hash
      /\ Elements(out.included) \subseteq Hash /\ out.invalid \subseteq Hash
  BY <1>2, SMTT(60) DEF Outcome, Elements
<1>9. \A a \in Sender : chain_nonce[a] <= new.nonces[a]
  BY <1>5, SMTT(60)
<1> HIDE DEF h, new, S, T
<1>10. ASSUME NEW k \in Elements(new.included) PROVE Past(new, k)
  <2>1. \A l \in Elements(out.included) : Past(new, l)
    BY <1>7, <1>8, Zenon DEF Executing
  <2> QED BY <1>4, <1>10, <2>1, Zenon
<1>11. ASSUME InNonceOrder(txs)
       PROVE  /\ \A k \in new.invalid :
                   Past(new, k) \/ \E l \in T : sender[l] = sender[k] /\ nonce[l] < nonce[k]
              /\ \A i \in 1..(n + 1) :
                   Past(new, txs[i]) \/ \E l \in T : /\ sender[l] = sender[txs[i]]
                                                     /\ nonce[l] <= nonce[txs[i]]
  <2>1. /\ \A k \in out.invalid :
             Past(out, k) \/ \E l \in S : sender[l] = sender[k] /\ nonce[l] < nonce[k]
        /\ \A i \in 1..n :
             Past(out, txs[i]) \/ \E l \in S : /\ sender[l] = sender[txs[i]]
                                               /\ nonce[l] <= nonce[txs[i]]
    BY <1>11, Zenon DEF Executing, S
  <2>2. /\ \A k \in out.invalid :
             Past(new, k) \/ \E l \in T : sender[l] = sender[k] /\ nonce[l] < nonce[k]
        /\ \A i \in 1..n :
             Past(new, txs[i]) \/ \E l \in T : /\ sender[l] = sender[txs[i]]
                                               /\ nonce[l] <= nonce[txs[i]]
    <3>1. \A i \in 1..n : txs[i] \in Hash
      BY <1>8, SMTT(60)
    <3> QED BY <1>3, <1>7, <1>8, <2>1, <3>1, Zenon
  <2>3. ASSUME ~(out.gas_used + gas[h] > config.gas_limit), nonce[h] # out.nonces[sender[h]]
        PROVE  Past(new, h) \/ \E l \in T : sender[l] = sender[h] /\ nonce[l] < nonce[h]
    <3>1. CASE nonce[h] < out.nonces[sender[h]]
      BY <1>1, <1>7, <3>1, Zenon DEF Past
    <3>2. CASE nonce[h] > out.nonces[sender[h]]
      <4>1. ~Due(h)
        BY <1>1, <1>5, <1>6, <3>2, SMTT(60) DEF Due
      <4>2. Before(txs, n + 1)
        BY <1>11, <4>1, Zenon DEF InNonceOrder, h
      <4>3. PICK j \in 1..n : sender[txs[j]] = sender[h] /\ nonce[h] = nonce[txs[j]] + 1
        BY <4>2, SMTT(60) DEF Before, h
      <4>4. txs[j] \in Hash
        BY <1>8, <4>3, SMTT(60)
      <4>5. ~Past(out, txs[j])
        BY <1>1, <1>5, <1>6, <3>2, <4>3, <4>4, SMTT(60) DEF Past
      <4>6. PICK l \in S : sender[l] = sender[txs[j]] /\ nonce[l] <= nonce[txs[j]]
        BY <2>1, <4>5, Zenon
      <4>7. l \in Hash
        BY <4>6, Zenon DEF S, Skipped
      <4>8. nonce[l] < nonce[h]
        BY <1>1, <1>6, <4>3, <4>4, <4>6, <4>7, SMTT(60)
      <4> QED BY <1>3, <4>3, <4>6, <4>8, Zenon
    <3> QED BY <1>1, <1>5, <1>6, <2>3, <3>1, <3>2, SMTT(60)
  <2>4. \A k \in new.invalid :
          Past(new, k) \/ \E l \in T : sender[l] = sender[k] /\ nonce[l] < nonce[k]
    BY <1>4, <2>2, <2>3, Zenon
  <2>5. \A k, l \in Hash : nonce[l] < nonce[k] => nonce[l] <= nonce[k]
    BY <1>6, SMTT(60)
  <2>6. T \subseteq Hash
    BY Zenon DEF T, Skipped
  <2>7. Past(new, h) \/ \E l \in T : sender[l] = sender[h] /\ nonce[l] <= nonce[h]
    <3>1. CASE h \in Elements(new.included)
      BY <1>10, <3>1, Zenon
    <3>2. CASE h \in new.invalid
      BY <1>1, <2>4, <2>5, <2>6, <3>2, Zenon
    <3>3. CASE h \notin Elements(new.included) \cup new.invalid
      <4>1. new = out /\ out.gas_used + gas[h] > config.gas_limit
        BY <1>4, <3>3, Zenon
      <4>2. \E i \in 1..(n + 1) : txs[i] = h
        BY DEF h
      <4>3. h \in T
        BY <1>1, <3>3, <4>1, <4>2, Zenon DEF T, Skipped
      <4>4. nonce[h] <= nonce[h]
        BY <1>1, <1>6, SMTT(60)
      <4> QED BY <4>3, <4>4, Zenon
    <3> QED BY <3>1, <3>2, <3>3, Zenon
  <2>8. ASSUME NEW i \in 1..(n + 1)
        PROVE  Past(new, txs[i]) \/ \E l \in T : /\ sender[l] = sender[txs[i]]
                                                 /\ nonce[l] <= nonce[txs[i]]
    <3>1. i \in 1..n \/ i = n + 1
      BY <2>8
    <3> QED BY <2>2, <2>7, <3>1, Zenon DEF h
  <2> QED BY <2>4, <2>8, Zenon
<1>12. Executing(new, txs, n + 1)
  BY <1>4, <1>9, <1>10, <1>11, Zenon DEF Executing, T
<1> QED BY <1>12, Zenon DEF new, h

\* A block.
LEMMA BlockExecuted ==
  ASSUME Counting, config \in Configs, chain_nonce \in [Sender -> Nat], NEW txs \in Seq(Hash)
  PROVE  Executing(execute(txs)[Len(txs)], txs, Len(txs))
<1> DEFINE S == {n \in Nat : Executing(execute(txs)[n], txs, n)}
           N == Len(txs)
<1>1. N \in Nat /\ DOMAIN txs = 1..N
  OBVIOUS
<1>2. /\ execute(txs)[0] = NoOutcome
      /\ \A i \in 1..N : execute(txs)[i] = Executed(execute(txs)[i - 1], txs[i])
  BY <1>1, OutcomeIs, Zenon
<1>3. 0 \in S
  <2>1. /\ NoOutcome \in Outcome /\ NoOutcome.nonces = chain_nonce
        /\ NoOutcome.included = <<>> /\ NoOutcome.invalid = {}
    BY SMTT(60) DEF NoOutcome, Outcome
  <2>2. Elements(<<>>) = {} /\ 1..0 = {}
    BY DEF Elements
  <2>3. \A a \in Sender : chain_nonce[a] <= chain_nonce[a]
    OBVIOUS
  <2>4. Executing(NoOutcome, txs, 0)
    BY <2>1, <2>2, <2>3, Zenon DEF Executing
  <2> QED BY <1>2, <2>4
<1>4. ASSUME NEW k \in 0..N, k \in S, k < N PROVE k + 1 \in S
  <2>1. k \in Nat /\ k + 1 \in Nat /\ k + 1 \in 1..N /\ (k + 1) - 1 = k
    BY <1>1, <1>4
  <2>2. execute(txs)[k + 1] = Executed(execute(txs)[k], txs[k + 1])
    BY <1>2, <2>1
  <2>3. Executing(execute(txs)[k + 1], txs, k + 1)
    BY <1>1, <1>4, <2>1, <2>2, ExecutingNext, Zenon
  <2> QED BY <2>1, <2>3, Zenon
<1>5. N \in S
  <2> HIDE DEF S, N
  <2>1. 0..N \subseteq S
    BY <1>1, <1>3, <1>4, UpTo, Zenon
  <2> QED BY <1>1, <2>1
<1> QED BY <1>5, Zenon

-----------------------------------------------------------------------------
(* The operations of the pool, for raw transactions *)

\* What a step of the pool keeps.
DueKept == IndexTypes' /\ (PoolDue /\ chain_nonce' = chain_nonce => PoolDue')

\* The index of the independent transactions after a change of the ready half.
LEMMA AddedIndex ==
  ASSUME IndexTypes, NEW h \in Hash, ready_add_transaction(h)
  PROVE  /\ IndexTypes'
         /\ \A k \in independent_transactions' :
              k \in independent_transactions \/ (k = h /\ provider(h) = None)
<1>1. ref_id' \in [Hash -> Nat] /\ id' \in Nat
  <2> DEFINE gone == {provided_markers[provides(h)]} \ {None}
  <2>1. /\ id' = id + 1
        /\ ref_id' = [k \in Hash |->
             IF k = h THEN id ELSE IF k \in gone THEN 0 ELSE ref_id[k]]
    BY Zenon DEF ready_add_transaction
  <2> HIDE DEF gone
  <2> QED BY <2>1 DEF IndexTypes
<1>2. \A k \in independent_transactions' :
        k \in independent_transactions \/ (k = h /\ provider(h) = None)
  BY Zenon DEF ready_add_transaction
<1>3. independent_transactions' \subseteq Hash
  BY <1>2, Zenon DEF IndexTypes
<1> QED BY <1>1, <1>2, <1>3, Zenon DEF IndexTypes

\* remove_with_markers makes no transaction independent.
LEMMA RemovedIndex ==
  ASSUME IndexTypes, NEW hashes, remove_with_markers(hashes)
  PROVE  IndexTypes' /\ independent_transactions' \subseteq independent_transactions
<1> DEFINE removed == dependents(hashes)
<1>1. /\ ref_id' = [h \in Hash |-> IF h \in removed THEN 0 ELSE ref_id[h]]
      /\ independent_transactions' = independent_transactions \ removed
      /\ id' = id
  BY Zenon DEF remove_with_markers
<1> HIDE DEF removed
<1>2. ref_id' \in [Hash -> Nat]
  BY <1>1 DEF IndexTypes
<1> QED BY <1>1, <1>2, Zenon DEF IndexTypes

\* A transaction requires a number of markers.
LEMMA RequiresLen == \A k : requires_len(k) \in Nat
  BY DEF requires_len

\* prune_tags makes only the successor of the pruned marker independent.
LEMMA PrunedIndex ==
  ASSUME IndexTypes, Types, MarkersExact, Links, NEW m \in Marker, prune_tags(m)
  PROVE  /\ IndexTypes'
         /\ \A k \in independent_transactions' :
              \/ k \in independent_transactions
              \/ k \in Hash /\ sender[k] = m[2] /\ nonce[k] = m[1] + 1
<1> DEFINE pruned == pruned_by(m)
           top == provided_markers[m]
           unlocked == IF top = None THEN NoUnlocks ELSE unlocks[top]
           offset == [h \in Hash |-> requires_offset[h] + unlocked[h]]
<1>1. /\ ref_id' = [h \in Hash |-> IF h \in pruned THEN 0 ELSE ref_id[h]]
      /\ id' = id
      /\ independent_transactions' =
           (independent_transactions \ pruned)
           \cup {h \in ready_tx \ pruned :
                   requires_offset[h] < requires_len(h) /\ requires_len(h) <= offset[h]}
  BY Zenon DEF prune_tags
<1>2. /\ top # None => top \in Hash /\ provides(top) = m
      /\ top = None => \A k \in Hash : unlocked[k] = 0
      /\ top # None => \A k \in Hash : unlocked[k] = unlocks[top][k]
      /\ \A k \in Hash : unlocked[k] \in Nat
  BY SMTT(60) DEF MarkersExact, Types, NoUnlocks
<1>3. \A k \in Hash : offset[k] = requires_offset[k] + unlocked[k] /\ requires_offset[k] \in Nat
  BY <1>2, SMTT(60) DEF Types
<1> HIDE DEF pruned, top, unlocked, offset
<1>4. ref_id' \in [Hash -> Nat]
  BY <1>1 DEF IndexTypes
<1>5. ASSUME NEW k \in Hash, requires_offset[k] < requires_len(k), requires_len(k) <= offset[k]
      PROVE  sender[k] = m[2] /\ nonce[k] = m[1] + 1
  <2>1. requires_len(k) \in Nat
    BY RequiresLen, Zenon
  <2>2. unlocked[k] > 0 /\ unlocked[k] # 0
    <3>1. /\ offset[k] = requires_offset[k] + unlocked[k]
          /\ requires_offset[k] \in Nat /\ unlocked[k] \in Nat
      BY <1>2, <1>3, Zenon
    <3>2. PICK o, r, u : o = offset[k] /\ r = requires_offset[k] /\ u = unlocked[k]
      BY Zenon
    <3>3. r < requires_len(k) /\ requires_len(k) <= o /\ o = r + u /\ r \in Nat /\ u \in Nat
      BY <1>5, <3>1, <3>2, Zenon
    <3>4. u > 0 /\ u # 0
      BY <2>1, <3>3
    <3> QED BY <3>2, <3>4, Zenon
  <2>3. top # None /\ top \in Hash /\ unlocks[top][k] > 0
    BY <1>2, <2>2, Zenon
  <2>4. sender[k] = sender[top] /\ nonce[k] = nonce[top] + 1
    BY <2>3, Zenon DEF Links
  <2>5. provides(top)[1] = nonce[top] /\ provides(top)[2] = sender[top] /\ provides(top) = m
    BY <1>2, <2>3, Provides, Zenon
  <2> QED BY <2>4, <2>5, Zenon
<1>6. \A k \in ready_tx : k \in Hash
  BY DEF Types
<1>7. \A k \in independent_transactions' :
        \/ k \in independent_transactions
        \/ k \in Hash /\ sender[k] = m[2] /\ nonce[k] = m[1] + 1
  BY <1>1, <1>5, <1>6, Zenon
<1>8. independent_transactions' \subseteq Hash
  BY <1>7, Zenon DEF IndexTypes
<1> QED BY <1>1, <1>4, <1>7, <1>8, Zenon DEF IndexTypes

\* A step that leaves the ready transactions alone.
LEMMA SameIndex ==
  ASSUME IndexTypes, UNCHANGED ready_vars
  PROVE  /\ IndexTypes' /\ independent_transactions' = independent_transactions
         /\ provided_markers' = provided_markers
  BY DEF IndexTypes, ready_vars

\* With the same account nonces.
LEMMA SameDue == ASSUME chain_nonce' = chain_nonce PROVE \A h : Due(h)' <=> Due(h)
  BY Zenon DEF Due

\* A finished or resumed operation has the same markers left.
LEMMA ResumedMarkers == ASSUME NEW o PROVE Resume(o).markers = o.markers
  BY SMTT(60) DEF Resume, Idle

\* A raw transaction is added: it requires nothing only if it is due.
LEMMA AddDue ==
  ASSUME IInv, IndexTypes, NEW h \in Hash, NEW r \in required_marker_choices(h),
         add_transaction(h, r)
  PROVE  /\ IndexTypes'
         /\ PoolDue /\ chain_nonce' = chain_nonce /\ (r = None => Due(h)) => PoolDue'
<1>1. /\ op = Idle /\ requires' = [requires EXCEPT ![h] = r] /\ UNCHANGED ready_vars
      /\ \/ op' = op
         \/ /\ r # None => provided_markers[r] # None
            /\ op' = [Idle EXCEPT !.name = "add", !.head = h, !.queue = <<{h}>>,
                                  !.is_new_tx = TRUE]
  BY Zenon DEF add_transaction
<1>2. /\ IndexTypes' /\ independent_transactions' = independent_transactions
      /\ provided_markers' = provided_markers
  BY <1>1, SameIndex, Zenon
<1>3. requires'[h] = r
  BY <1>1, Facts DEF Types
<1> SUFFICES ASSUME PoolDue, chain_nonce' = chain_nonce, r = None => Due(h) PROVE PoolDue'
  BY <1>2, Zenon
<1>4. \A k \in independent_transactions' : Due(k)'
  BY <1>2, SameDue, Zenon DEF PoolDue
<1>5. CASE op' = op
  <2>1. op'.markers = <<>> /\ op'.imports = <<>> /\ op'.queue = <<>> /\ DOMAIN op'.markers = {}
    BY <1>1, <1>5 DEF Idle
  <2> QED BY <1>4, <2>1, ShortLists, Zenon DEF PoolDue
<1>6. CASE /\ r # None => provided_markers[r] # None
           /\ op' = [Idle EXCEPT !.name = "add", !.head = h, !.queue = <<{h}>>,
                                 !.is_new_tx = TRUE]
  <2>1. op'.markers = <<>> /\ op'.imports = <<>> /\ op'.queue = <<{h}>> /\ DOMAIN op'.markers = {}
    BY <1>6 DEF Idle
  <2>2. InBatches(op'.queue) = {h} /\ InBatches(op'.imports) = {}
    BY <2>1, ShortLists, Zenon
  <2>3. Due(h)' \/ provider(h)' # None
    BY <1>2, <1>3, <1>6, SameDue, Zenon DEF provider
  <2> QED BY <1>4, <2>1, <2>2, <2>3, Zenon DEF PoolDue
<1> QED BY <1>1, <1>5, <1>6

\* An iteration of add_ready_transaction: what becomes independent was due, and what
\* was unlocked has its predecessor ready.
LEMMA AddReadyDue ==
  ASSUME IInv, IndexTypes, add_ready_transaction
  PROVE  DueKept
<1>1. PICK h \in op.queue[1] :
        LET queue == Enqueue(Dequeue(op.queue, h), unlocked_by(provides(h)))
        IN  mark_and_unlock(provides(h)) /\ (add_ready_ok(h, queue) \/ add_ready_err(h, queue))
  BY Zenon DEF add_ready_transaction
<1> DEFINE m == provides(h)
           U == unlocked_by(m)
           rest == Dequeue(op.queue, h)
           queue == Enqueue(rest, U)
<1>2. /\ mark_and_unlock(m) /\ (add_ready_ok(h, queue) \/ add_ready_err(h, queue))
      /\ ForgetDropped /\ op.queue # <<>>
  BY <1>1, Zenon DEF add_ready_transaction
<1>3. op \in Operations /\ op.queue \in Seq(SUBSET Hash)
  BY Facts, Zenon DEF Operations
<1>4. /\ rest \in Seq(SUBSET Hash) /\ InBatches(rest) = InBatches(op.queue) \ {h}
      /\ h \in InBatches(op.queue)
  BY <1>2, <1>3, Facts, Dequeued, Zenon
<1>5. h \in Hash /\ m \in Marker /\ m # None
  <2>1. h \in Hash
    BY <1>2, <1>3, SMTT(60)
  <2> QED BY <2>1, Provides, TxAssumption, Zenon
<1>6. /\ U \in SUBSET Hash /\ \A x \in U : requires[x] = m
      /\ provided_markers[m] # None => U = {}
  BY <1>2, <1>5, Facts, Unlocked, Zenon
<1>7. InBatches(queue) = InBatches(rest) \cup U
  BY <1>4, <1>6, Enqueued, Zenon
<1>8. provided_markers \in [Marker -> Hash \cup {None}] /\ requires \in [Hash -> Marker \cup {None}]
  BY Facts, Zenon DEF Types
<1>9. \A x \in Hash : x \in InFlight(op') => requires'[x] = requires[x]
  BY <1>2, Facts, Forgotten, Zenon
<1>10. InBatches(op.queue) \subseteq Hash
  <2>1. \A i \in DOMAIN op.queue : op.queue[i] \subseteq Hash
    BY <1>3, SMTT(60)
  <2> QED BY <2>1, Members, Zenon
<1> HIDE DEF m, U, rest, queue
<1>11. CASE add_ready_ok(h, queue)
  <2>1. /\ ready_add_transaction(h)
        /\ op' = [op EXCEPT !.queue = queue, !.is_new_tx = FALSE,
                    !.promoted = IF op.is_new_tx THEN @ ELSE @ \cup {h},
                    !.removed = @ \cup ({provided_markers[provides(h)]} \ {None})]
    BY <1>11, Zenon DEF add_ready_ok
  <2>2. op'.queue = queue /\ op'.imports = op.imports /\ op'.markers = op.markers
    BY <1>3, <2>1, Zenon DEF Operations
  <2>3. /\ IndexTypes'
        /\ \A k \in independent_transactions' :
             k \in independent_transactions \/ (k = h /\ provider(h) = None)
    BY <1>5, <2>1, AddedIndex, Zenon
  <2>4. provided_markers' = [provided_markers EXCEPT ![m] = h]
    BY <2>1, Zenon DEF ready_add_transaction, m
  <2>5. /\ provided_markers'[m] = h /\ h # None
        /\ \A x \in Marker : provided_markers[x] # None => provided_markers'[x] # None
    BY <1>5, <1>8, <2>4, TxAssumption
  <2> SUFFICES ASSUME PoolDue, chain_nonce' = chain_nonce PROVE PoolDue'
    BY <2>3, Zenon DEF DueKept
  <2>6. ASSUME NEW k \in InBatches(op'.queue) PROVE Due(k)' \/ provider(k)' # None
    <3>1. k \in Hash /\ (k \in InBatches(op.queue) \/ k \in U)
      BY <1>4, <1>6, <1>7, <1>10, <2>2, <2>6, Zenon
    <3>2. requires'[k] = requires[k]
      BY <1>9, <2>6, <3>1, Zenon DEF InFlight
    <3>3. requires[k] \in Marker \cup {None}
      BY <1>8, <3>1, SMTT(60)
    <3>4. CASE k \in U
      BY <1>5, <1>6, <2>5, <3>2, <3>4, Zenon DEF provider
    <3>5. CASE k \in InBatches(op.queue)
      <4>1. Due(k) \/ provider(k) # None
        BY <3>5, Zenon DEF PoolDue
      <4>2. provider(k) # None => provider(k)' # None
        BY <2>5, <3>2, <3>3, Zenon DEF provider
      <4> QED BY <4>1, <4>2, SameDue, Zenon
    <3> QED BY <3>1, <3>4, <3>5
  <2>7. \A k \in independent_transactions' : Due(k)'
    BY <1>4, <2>3, SameDue, Zenon DEF PoolDue
  <2>8. \A k \in InBatches(op'.imports) : Due(k)'
    BY <2>2, SameDue, Zenon DEF PoolDue
  <2> QED BY <2>2, <2>6, <2>7, <2>8, Zenon DEF PoolDue
<1>12. CASE add_ready_err(h, queue)
  <2> DEFINE o == [op EXCEPT !.queue = <<>>, !.head = None, !.is_new_tx = FALSE]
  <2>1. /\ UNCHANGED ready_vars
        /\ op' = IF op.is_new_tx THEN Resume(o) ELSE [op EXCEPT !.queue = queue]
        /\ U = {}
    BY <1>6, <1>12, Zenon DEF add_ready_err, ready_underpriced, m
  <2>2. /\ o \in Operations /\ o.queue = <<>> /\ o.imports = op.imports /\ o.markers = op.markers
        /\ o.head = None /\ o.is_new_tx = FALSE /\ o.name = op.name
    BY <1>3, ListTypes, Zenon DEF Operations
  <2>3. Stage(o)
    <3>1. Stage(op) /\ InBatches(<<>>) = {}
      BY Facts, ShortLists, Zenon
    <3> HIDE DEF o
    <3> QED BY <2>2, <3>1, Zenon DEF Stage
  <2> HIDE DEF o
  <2>4. /\ op'.queue = <<>> \/ op'.queue = queue
        /\ op'.imports = op.imports /\ op'.markers = op.markers
    <3>1. CASE op.is_new_tx
      BY <2>1, <2>2, <2>3, <3>1, Resumed, ResumedMarkers, Zenon
    <3>2. CASE ~op.is_new_tx
      BY <1>3, <2>1, <3>2, Zenon DEF Operations
    <3> QED BY <3>1, <3>2, SMTT(60)
  <2>5. \A k \in InBatches(op'.queue) : k \in InBatches(op.queue)
    BY <1>4, <1>7, <2>1, <2>4, ShortLists, Zenon
  <2>6. /\ IndexTypes' /\ independent_transactions' = independent_transactions
        /\ provided_markers' = provided_markers
    BY <2>1, SameIndex, Zenon
  <2> SUFFICES ASSUME PoolDue, chain_nonce' = chain_nonce PROVE PoolDue'
    BY <2>6, Zenon DEF DueKept
  <2>7. ASSUME NEW k \in InBatches(op'.queue) PROVE Due(k)' \/ provider(k)' # None
    <3>1. requires'[k] = requires[k]
      BY <1>9, <1>10, <2>5, <2>7, Zenon DEF InFlight
    <3> QED BY <2>5, <2>6, <2>7, <3>1, SameDue, Zenon DEF PoolDue, provider
  <2>8. /\ \A k \in independent_transactions' : Due(k)'
        /\ \A k \in InBatches(op'.imports) : Due(k)'
    BY <2>4, <2>6, SameDue, Zenon DEF PoolDue
  <2> QED BY <2>4, <2>7, <2>8, Zenon DEF PoolDue
<1> QED BY <1>2, <1>11, <1>12

\* The loop of add_ready_transaction ends.
LEMMA AddDoneDue ==
  ASSUME IInv, IndexTypes, add_ready_done
  PROVE  DueKept
<1> DEFINE o == [op EXCEPT !.head = None, !.promoted = {}, !.removed = {}]
<1>1. op.head # None /\ op.queue = <<>> /\ op' = Resume(o) /\ UNCHANGED ready_vars
  BY Facts, Zenon DEF add_ready_done, is_cyclic
<1>2. /\ o \in Operations
      /\ o.name = op.name /\ o.markers = op.markers /\ o.imports = op.imports
      /\ o.head = None /\ o.queue = <<>> /\ o.is_new_tx = op.is_new_tx
  BY <1>1, Facts, Zenon DEF Operations
<1> HIDE DEF o
<1>3. op.markers = <<>> /\ ~op.is_new_tx
  BY <1>1, Facts, SMTT(60) DEF Stage
<1>4. Stage(o)
  BY <1>2, <1>3, ShortLists, Zenon DEF Stage
<1>5. op'.queue = <<>> /\ op'.imports = op.imports /\ op'.markers = op.markers
  BY <1>1, <1>2, <1>4, Resumed, ResumedMarkers, ZenonT(60)
<1>6. IndexTypes' /\ independent_transactions' = independent_transactions
  BY <1>1, SameIndex, Zenon
<1> QED BY <1>5, <1>6, SameDue, ShortLists, Zenon DEF DueKept, PoolDue

\* Pruning begins, with markers that are used up.
LEMMA PruneDue ==
  ASSUME IInv, IndexTypes, NEW ms \in Seq(Marker), prune_markers(ms)
  PROVE  /\ IndexTypes'
         /\ PoolDue /\ chain_nonce' = chain_nonce
            /\ (\A i \in DOMAIN ms : ms[i][1] < chain_nonce[ms[i][2]]) => PoolDue'
<1> DEFINE o == [Idle EXCEPT !.name = "prune", !.markers = ms]
<1>1. op' = Resume(o) /\ UNCHANGED ready_vars
  BY Zenon DEF prune_markers
<1>2. /\ o.markers = ms /\ o.imports = <<>> /\ o.queue = <<>>
  BY DEF Idle
<1>3. op'.imports = <<>> /\ op'.queue = <<>>
  BY <1>1, <1>2, IdleOperation DEF Resume
<1>4. op'.markers = ms
  BY <1>1, <1>2, ResumedMarkers, Zenon
<1>5. IndexTypes' /\ independent_transactions' = independent_transactions
  BY <1>1, SameIndex, Zenon
<1> HIDE DEF o
<1> QED BY <1>3, <1>4, <1>5, SameDue, ShortLists, Zenon DEF PoolDue

\* One marker is pruned: what required it is due, whether it waited or was ready.
LEMMA PruneOneDue ==
  ASSUME IInv, IndexTypes, chain_nonce \in [Sender -> Nat], prune_marker
  PROVE  DueKept
<1> DEFINE m == Head(op.markers)
           U == unlocked_by(m)
           imports == Enqueue(op.imports, U)
           o == [op EXCEPT !.markers = Tail(op.markers), !.imports = imports]
<1>1. op.markers # <<>> /\ mark_and_unlock(m) /\ prune_tags(m) /\ op' = Resume(o)
  BY DEF prune_marker
<1>2. /\ op.markers \in Seq(Marker) /\ op.imports \in Seq(SUBSET Hash) /\ op.queue = <<>>
  BY <1>1, Facts DEF Operations, Stage
<1>3. /\ m \in Marker /\ Tail(op.markers) \in Seq(Marker) /\ m = op.markers[1]
      /\ 1 \in DOMAIN op.markers
      /\ \A i \in DOMAIN Tail(op.markers) : /\ i + 1 \in DOMAIN op.markers
                                            /\ Tail(op.markers)[i] = op.markers[i + 1]
  BY <1>1, <1>2
<1>4. U \in SUBSET Hash /\ \A x \in U : requires[x] = m
  BY <1>1, <1>3, Facts, Unlocked, Zenon
<1>5. imports \in Seq(SUBSET Hash) /\ InBatches(imports) = InBatches(op.imports) \cup U
  BY <1>2, <1>4, Enqueued, Zenon
<1> HIDE DEF m, U, imports
<1>6. /\ o \in Operations /\ o.markers = Tail(op.markers)
      /\ o.name = op.name /\ o.imports = imports /\ o.queue = <<>>
      /\ o.head = op.head /\ o.is_new_tx = op.is_new_tx
  BY <1>2, <1>3, <1>5, Facts, Zenon DEF Operations
<1> HIDE DEF o
<1>7. Stage(o)
  <2>1. Stage(op) /\ op.head = None /\ op.name = "prune" /\ ~op.is_new_tx
    BY <1>1, <1>2, Facts, Zenon DEF Stage
  <2> QED BY <1>6, <2>1, ShortLists, Zenon DEF Stage
<1>8. op'.queue = <<>> /\ op'.imports = imports /\ op'.markers = Tail(op.markers)
  BY <1>1, <1>6, <1>7, Resumed, ResumedMarkers, Zenon
<1>9. /\ IndexTypes'
      /\ \A k \in independent_transactions' :
           \/ k \in independent_transactions
           \/ k \in Hash /\ sender[k] = m[2] /\ nonce[k] = m[1] + 1
  BY <1>1, <1>3, Facts, PrunedIndex, Zenon
<1> SUFFICES ASSUME PoolDue, chain_nonce' = chain_nonce PROVE PoolDue'
  BY <1>9, Zenon DEF DueKept
<1>10. /\ m[1] < chain_nonce[m[2]] /\ m[1] \in Nat /\ chain_nonce[m[2]] \in Nat
  <2>1. m[1] \in Nat /\ m[2] \in Sender
    BY <1>3, TxAssumption, SMTT(60) DEF Marker, Nonce
  <2>2. m[1] < chain_nonce[m[2]]
    BY <1>3, Zenon DEF PoolDue
  <2> QED BY <2>1, <2>2
<1>11. \A k \in Hash : sender[k] = m[2] /\ nonce[k] = m[1] + 1 => Due(k)
  BY <1>10 DEF Due
<1>12. \A k \in U : Due(k)
  <2> SUFFICES ASSUME NEW k \in U PROVE Due(k)
    OBVIOUS
  <2>1. k \in Hash /\ requires[k] = m /\ requires[k] \in required_marker_choices(k)
    BY <1>4, Facts, Zenon DEF Types
  <2>2. m = None \/ (m[1] = nonce[k] - 1 /\ m[2] = sender[k])
    BY <2>1, Choices, Zenon
  <2>3. m # None /\ nonce[k] \in Nat
    BY <1>3, <2>1, TxAssumption, Provides, SMTT(60)
  <2>4. nonce[k] = m[1] + 1 /\ sender[k] = m[2]
    BY <1>10, <2>2, <2>3, SMTT(60)
  <2> QED BY <1>11, <2>1, <2>4, Zenon
<1>13. \A k \in independent_transactions' : Due(k)'
  BY <1>9, <1>11, SameDue, Zenon DEF PoolDue
<1>14. \A k \in InBatches(op'.imports) : Due(k)'
  BY <1>5, <1>8, <1>12, SameDue, Zenon DEF PoolDue
<1>15. \A i \in DOMAIN op'.markers : op'.markers[i][1] < chain_nonce'[op'.markers[i][2]]
  BY <1>3, <1>8, Zenon DEF PoolDue
<1> QED BY <1>8, <1>13, <1>14, <1>15, ShortLists, Zenon DEF PoolDue

\* An unlocked transaction is imported.
LEMMA ImportDue ==
  ASSUME IInv, IndexTypes, import_unlocked
  PROVE  DueKept
<1>1. PICK h \in op.imports[1] :
        op' = [op EXCEPT !.imports = Dequeue(@, h), !.head = h, !.queue = <<{h}>>,
                         !.is_new_tx = TRUE, !.promoted = {}, !.removed = {}]
  BY Zenon DEF import_unlocked
<1> DEFINE rest == Dequeue(op.imports, h)
<1>2. op.imports # <<>> /\ requires' = requires /\ UNCHANGED ready_vars
  BY Zenon DEF import_unlocked
<1>3. op \in Operations /\ op.imports \in Seq(SUBSET Hash)
  BY Facts, Zenon DEF Operations
<1>4. InBatches(rest) = InBatches(op.imports) \ {h} /\ h \in InBatches(op.imports)
  BY <1>2, <1>3, Facts, Dequeued, Zenon
<1>5. op'.markers = op.markers /\ op'.imports = rest /\ op'.queue = <<{h}>>
  BY <1>1, <1>3 DEF Operations
<1> HIDE DEF rest
<1>6. /\ IndexTypes' /\ independent_transactions' = independent_transactions
      /\ provided_markers' = provided_markers
  BY <1>2, SameIndex, Zenon
<1>7. InBatches(op'.queue) = {h}
  BY <1>5, ShortLists, Zenon
<1> QED BY <1>4, <1>5, <1>6, <1>7, SameDue, Zenon DEF DueKept, PoolDue

\* Transactions are removed on request.
LEMMA RemoveDue ==
  ASSUME IInv, IndexTypes, op = Idle, op' = op, NEW hashes, remove_with_markers(hashes)
  PROVE  DueKept
<1>1. IndexTypes' /\ independent_transactions' \subseteq independent_transactions
  BY RemovedIndex, Zenon
<1>2. op'.markers = <<>> /\ op'.imports = <<>> /\ op'.queue = <<>> /\ DOMAIN op'.markers = {}
  BY SMTT(60) DEF Idle
<1> QED BY <1>1, <1>2, SameDue, ShortLists, Zenon DEF DueKept, PoolDue

\* clear leaves no transaction that could be early.
LEMMA ClearDue ==
  ASSUME IInv, IndexTypes, clear
  PROVE  DueKept
<1>1. /\ op' = Idle /\ independent_transactions' = {} /\ id' = id
      /\ ref_id' = [h \in Hash |-> 0]
  BY Zenon DEF clear
<1>2. op'.markers = <<>> /\ op'.imports = <<>> /\ op'.queue = <<>> /\ DOMAIN op'.markers = {}
  BY <1>1 DEF Idle
<1>3. IndexTypes'
  BY <1>1 DEF IndexTypes
<1> QED BY <1>1, <1>2, <1>3, ShortLists, Zenon DEF DueKept, PoolDue

-----------------------------------------------------------------------------
(* What a step of the node leaves alone *)

\* The account nonces of a chain that is never rolled back.
Grows ==
  /\ config' = config
  /\ chain_nonce \in [Sender -> Nat] /\ chain_nonce' \in [Sender -> Nat]
  /\ \A a \in Sender : chain_nonce[a] <= chain_nonce'[a]

\* A step without a block.
LEMMA SameGrows ==
  ASSUME NodeTypes, UNCHANGED <<config, chain_nonce>>
  PROVE  Grows
  BY DEF NodeTypes, Grows

\* What is due or used up stays so.
LEMMA GrownDue ==
  ASSUME Grows
  PROVE  /\ OnlyRaw' <=> OnlyRaw
         /\ \A h \in Hash : (Due(h) => Due(h)') /\ (Used(h) => Used(h)')
<1>1. OnlyRaw' <=> OnlyRaw
  BY Zenon DEF Grows, OnlyRaw
<1>2. \A h \in Hash : sender[h] \in Sender /\ nonce[h] \in Nat
  BY TxAssumption, Provides, SMTT(60)
<1>3. \A h \in Hash : (Due(h) => Due(h)') /\ (Used(h) => Used(h)')
  BY <1>2, SMTT(60) DEF Grows, Due, Used
<1> QED BY <1>1, <1>3

\* The pool, when the step does not touch it.
LEMMA SamePool ==
  ASSUME IInv, IndexTypes, OnlyRaw => PoolDue, UNCHANGED vars, Grows
  PROVE  IInv' /\ IndexTypes' /\ (OnlyRaw' => PoolDue')
<1>1. IInv'
  BY StutterIInv, Zenon
<1>2. /\ UNCHANGED ready_vars /\ op' = op /\ requires' = requires
  BY DEF vars
<1>3. /\ IndexTypes' /\ independent_transactions' = independent_transactions
      /\ provided_markers' = provided_markers
  BY <1>2, SameIndex, Zenon
<1>4. ASSUME PoolDue PROVE PoolDue'
  <2>1. /\ op \in Operations /\ op.markers \in Seq(Marker)
        /\ InBatches(op.imports) \subseteq Hash /\ InBatches(op.queue) \subseteq Hash
    <3>1. op \in Operations
      BY Facts, Zenon
    <3>2. /\ \A i \in DOMAIN op.imports : op.imports[i] \subseteq Hash
          /\ \A i \in DOMAIN op.queue : op.queue[i] \subseteq Hash
          /\ op.markers \in Seq(Marker)
      BY <3>1, SMTT(60) DEF Operations
    <3> QED BY <3>1, <3>2, Members, Zenon
  <2>2. ASSUME NEW i \in DOMAIN op.markers
        PROVE  op.markers[i][1] < chain_nonce'[op.markers[i][2]]
    <3>1. op.markers[i] \in Marker
      BY <2>1, SMTT(60)
    <3>2. op.markers[i][1] \in Nat /\ op.markers[i][2] \in Sender
      BY <3>1, TxAssumption, SMTT(60) DEF Marker, Nonce
    <3>3. op.markers[i][1] < chain_nonce[op.markers[i][2]]
      BY <1>4, Zenon DEF PoolDue
    <3> QED BY <3>2, <3>3, SMTT(60) DEF Grows
  <2>3. \A h \in independent_transactions' : Due(h)'
    BY <1>3, <1>4, GrownDue, Zenon DEF PoolDue, IndexTypes
  <2>4. \A h \in InBatches(op'.imports) : Due(h)'
    BY <1>2, <1>4, <2>1, GrownDue, Zenon DEF PoolDue
  <2>5. \A h \in InBatches(op'.queue) : Due(h)' \/ provider(h)' # None
    BY <1>2, <1>3, <1>4, <2>1, GrownDue, Zenon DEF PoolDue, provider
  <2> QED BY <1>2, <2>2, <2>3, <2>4, <2>5, Zenon DEF PoolDue
<1> QED BY <1>1, <1>3, <1>4, GrownDue, Zenon

\* The submissions, but for the one of the client that takes a step.
LEMMA OtherRequests ==
  ASSUME NodeInv, Grows, NEW d \in Client, req'[d] = req[d]
  PROVE  Submission(req[d])'
<1>1. Submission(req[d])
  BY Zenon DEF NodeInv
<1> QED BY <1>1, GrownDue, Zenon DEF Submission

\* A step that leaves the submissions alone.
LEMMA SameRequests ==
  ASSUME NodeInv, Grows, req' = req
  PROVE  req' \in [Client -> Requests] /\ \A c \in Client : Submission(req[c])'
<1>1. req \in [Client -> Requests]
  BY Zenon DEF NodeInv, NodeTypes
<1>2. \A c \in Client : req'[c] = req[c]
  OBVIOUS
<1> QED BY <1>1, <1>2, OtherRequests, Zenon

\* A step that changes one submission.
LEMMA OneRequest ==
  ASSUME NodeInv, Grows, NEW c, NEW r, r \in Requests, Goto(c, r), req'[c] = r => Submission(req[c])'
  PROVE  req' \in [Client -> Requests] /\ \A d \in Client : Submission(req[d])'
<1>1. req \in [Client -> Requests] /\ req' = [req EXCEPT ![c] = r]
  BY Zenon DEF NodeInv, NodeTypes, Goto
<1>2. req' \in [Client -> Requests]
  BY <1>1, Zenon
<1>3. \A d \in Client : IF d = c THEN req'[d] = r ELSE req'[d] = req[d]
  BY <1>1
<1> QED BY <1>2, <1>3, OtherRequests, Zenon

\* The blocks, but for the one that the step is about.
LEMMA OtherChosen ==
  ASSUME Grows, NEW txs \in Seq(Hash), Chosen(txs)
  PROVE  Chosen(txs)'
<1>1. \A i \in DOMAIN txs : txs[i] \in Hash
  OBVIOUS
<1>2. InNonceOrder(txs) => InNonceOrder(txs)'
  BY <1>1, GrownDue, Zenon DEF InNonceOrder, Before
<1> QED BY <1>2, GrownDue, Zenon DEF Chosen

\* A block stays right while others are mined.
LEMMA OtherBlock ==
  ASSUME Grows, NEW j \in Jobs, Block(j)
  PROVE  Block(j)'
<1>1. j.txs \in Seq(Hash) /\ j.included \in Seq(Hash) /\ j.invalid \in SUBSET Hash
  BY DEF Jobs
<1>2. \A h \in Elements(j.included) : h \in Hash
  BY <1>1 DEF Elements
<1>3. Chosen(j.txs)'
  BY <1>1, OtherChosen, Zenon DEF Block
<1>4. \A h \in Elements(j.included) : Used(h)'
  BY <1>2, GrownDue, Zenon DEF Block
<1>5. OnlyRaw' => \A h \in j.invalid : Used(h)' \/ LeftOut(j, h)'
  BY <1>1, GrownDue, Zenon DEF Block, LeftOut, exhausted, Elements
<1> QED BY <1>3, <1>4, <1>5, Zenon DEF Block, Elements

\* A step that leaves the queue of the producer alone.
LEMMA SameQueue ==
  ASSUME NodeInv, Grows, queued' = queued
  PROVE  queued' \in Seq(Seq(Hash)) /\ \A i \in DOMAIN queued' : Chosen(queued[i])'
<1>1. queued \in Seq(Seq(Hash)) /\ \A i \in DOMAIN queued : Chosen(queued[i])
  BY Zenon DEF NodeInv, NodeTypes, Blocks
<1> SUFFICES ASSUME NEW i \in DOMAIN queued PROVE Chosen(queued[i])'
  BY <1>1, Zenon
<1>2. PICK txs : txs = queued[i]
  BY Zenon
<1>3. txs \in Seq(Hash)
  BY <1>1, <1>2
<1>4. Chosen(txs)'
  BY <1>1, <1>2, <1>3, OtherChosen, Zenon
<1> QED BY <1>2, <1>4, Zenon

\* A step that changes one block.
LEMMA OneJob ==
  ASSUME NodeInv, Grows, NEW w, NEW j \in Jobs, job' = [job EXCEPT ![w] = j], Block(j)'
  PROVE  job' \in [Worker -> Jobs] /\ \A v \in Worker : Block(job[v])'
<1>1. job \in [Worker -> Jobs] /\ \A v \in Worker : Block(job[v])
  BY Zenon DEF NodeInv, NodeTypes, Blocks
<1>2. job' \in [Worker -> Jobs] /\ \A v \in Worker : job'[v] = IF v = w THEN j ELSE job[v]
  BY <1>1, Zenon
<1> SUFFICES ASSUME NEW v \in Worker PROVE Block(job[v])'
  BY <1>2, Zenon
<1>3. CASE v = w
  BY <1>2, <1>3, Zenon
<1>4. CASE v # w
  <2>1. PICK k : k = job[v]
    BY Zenon
  <2>2. k \in Jobs
    BY <1>1, <2>1
  <2>3. Block(k)'
    BY <1>1, <2>1, <2>2, OtherBlock, Zenon
  <2> QED BY <1>2, <1>4, <2>1, <2>3, Zenon
<1> QED BY <1>3, <1>4

\* A step that leaves the blocks in progress alone.
LEMMA SameJobs ==
  ASSUME NodeInv, Grows, job' = job
  PROVE  job' \in [Worker -> Jobs] /\ \A v \in Worker : Block(job[v])'
<1>1. job \in [Worker -> Jobs] /\ \A v \in Worker : Block(job[v])
  BY Zenon DEF NodeInv, NodeTypes, Blocks
<1> SUFFICES ASSUME NEW v \in Worker PROVE Block(job[v])'
  BY <1>1, Zenon
<1>2. PICK k : k = job[v]
  BY Zenon
<1>3. k \in Jobs
  BY <1>1, <1>2
<1>4. Block(k)'
  BY <1>1, <1>2, <1>3, OtherBlock, Zenon
<1> QED BY <1>2, <1>4, Zenon

\* The invariant from its parts.
LEMMA AssembleNode ==
  ASSUME NodeInv, Grows, IInv', IndexTypes', OnlyRaw' => PoolDue',
         req' \in [Client -> Requests], \A c \in Client : Submission(req[c])',
         job' \in [Worker -> Jobs], \A v \in Worker : Block(job[v])',
         queued' \in Seq(Seq(Hash)), \A i \in DOMAIN queued' : Chosen(queued[i])'
  PROVE  NodeInv'
<1>1. config' \in Configs
  BY Zenon DEF NodeInv, NodeTypes, Grows
<1>2. NodeTypes'
  BY <1>1, Zenon DEF NodeTypes, Grows
<1> QED BY <1>2, Zenon DEF NodeInv, Blocks

\* A step of a handler that touches nothing but its own submission.
LEMMA RequestStep ==
  ASSUME NodeInv, NEW c, NEW r \in Requests, Goto(c, r), Submission(r),
         UNCHANGED <<config, vars, chain_nonce, queued, job>>
  PROVE  NodeInv'
<1>1. Grows
  BY SameGrows, Zenon DEF NodeInv
<1>2. req'[c] = r => Submission(req[c])'
  BY <1>1, GrownDue, Zenon DEF Submission
<1>3. req' \in [Client -> Requests] /\ \A d \in Client : Submission(req[d])'
  BY <1>1, <1>2, OneRequest, Zenon
<1>4. IInv' /\ IndexTypes' /\ (OnlyRaw' => PoolDue')
  BY <1>1, SamePool, Zenon DEF NodeInv
<1> QED BY <1>1, <1>3, <1>4, SameJobs, SameQueue, AssembleNode, Zenon

-----------------------------------------------------------------------------
(* Submitting a transaction *)

\* No submission.
LEMMA NoRequest == NoReq \in Requests /\ Submission(NoReq) /\ NoReq.pc = "idle"
<1>1. NoReq \in Requests /\ NoReq.pc = "idle"
  BY DEF NoReq, Requests
<1> QED BY <1>1 DEF Submission

\* What required_marker returns for a nonce that was read.
LEMMA RequiredMarker ==
  ASSUME NEW h \in Hash, NEW n \in Nat
  PROVE  /\ required_marker(nonce[h], n, sender[h]) \in required_marker_choices(h)
         /\ required_marker(nonce[h], n, sender[h]) \in Marker \cup {None}
         /\ required_marker(nonce[h], n, sender[h]) = None => nonce[h] <= n
<1>1. nonce[h] \in 0..MaxNonce /\ MaxNonce \in Nat /\ sender[h] \in Sender
  BY TxAssumption DEF Nonce
<1> DEFINE prev == IF nonce[h] = 0 THEN 0 ELSE nonce[h] - 1
           r == required_marker(nonce[h], n, sender[h])
<1>2. r = IF nonce[h] # n /\ n <= prev THEN <<prev, sender[h]>> ELSE None
  BY Zenon DEF required_marker, to_marker
<1>3. CASE nonce[h] # n /\ n <= prev
  <2>1. prev \in 0..MaxNonce /\ prev = nonce[h] - 1
    BY <1>1, <1>3, SMTT(60)
  <2>2. r = <<prev, sender[h]>>
    BY <1>2, <1>3, Zenon
  <2> HIDE DEF prev, r
  <2>3. r \in Marker /\ r[1] = prev /\ r[2] = sender[h]
    BY <1>1, <2>1, <2>2, SMTT(60) DEF Marker, Nonce
  <2>4. r # None
    BY <2>3, TxAssumption, Zenon
  <2>5. r \in required_marker_choices(h)
    BY <2>1, <2>3 DEF required_marker_choices
  <2> QED BY <2>3, <2>4, <2>5, Zenon DEF r
<1>4. CASE ~(nonce[h] # n /\ n <= prev)
  <2>1. r = None
    BY <1>2, <1>4, Zenon
  <2>2. nonce[h] <= n
    BY <1>1, <1>4
  <2>3. None \in required_marker_choices(h)
    BY Zenon DEF required_marker_choices
  <2> HIDE DEF prev, r
  <2> QED BY <2>1, <2>2, <2>3, Zenon DEF r
<1> QED BY <1>3, <1>4, SMTT(60)

\* eth_sendRawTransaction
LEMMA SendRawInv ==
  ASSUME NodeInv, config' = config, NEW c \in Client, NEW h \in Hash, send_raw_transaction(c, h)
  PROVE  NodeInv'
<1>1. PICK r : r = IF validated(h) THEN [NoReq EXCEPT !.pc = "raw", !.hash = h] ELSE NoReq
  BY Zenon
<1>2. Goto(c, r) /\ UNCHANGED <<config, vars, chain_nonce, queued, job>>
  BY <1>1, Zenon DEF send_raw_transaction
<1>3. r \in Requests /\ Submission(r)
  <2>1. CASE r = NoReq
    BY <2>1, NoRequest, Zenon
  <2>2. CASE r = [NoReq EXCEPT !.pc = "raw", !.hash = h]
    <3>1. r \in Requests /\ r.pc = "raw" /\ r.hash = h
      BY <2>2, NoRequest, Zenon DEF Requests
    <3> QED BY <3>1 DEF Submission
  <2> QED BY <1>1, <2>1, <2>2, Zenon
<1> QED BY <1>2, <1>3, RequestStep, Zenon

\* The nonce of the account is read: a raw transaction that requires nothing is due.
LEMMA CurrentNonceInv ==
  ASSUME NodeInv, config' = config, NEW c \in Client, current_nonce(c)
  PROVE  NodeInv'
<1> DEFINE h == req[c].hash
           m == required_marker(nonce[h], chain_nonce[sender[h]], sender[h])
<1>1. req[c].pc = "raw" /\ req[c] \in Requests /\ Submission(req[c])
  BY DEF current_nonce, NodeInv, NodeTypes
<1>2. h \in Hash
  BY <1>1, SMTT(60) DEF Submission
<1>3. chain_nonce[sender[h]] \in Nat
  BY <1>2, TxAssumption, SMTT(60) DEF NodeInv, NodeTypes
<1>4. /\ m \in required_marker_choices(h) /\ m \in Marker \cup {None}
      /\ m = None => Due(h)
  <2> HIDE DEF h
  <2> QED BY <1>2, <1>3, RequiredMarker, Zenon DEF Due
<1>5. PICK r : r = [req[c] EXCEPT !.pc = "add", !.requires = m]
  BY Zenon
<1>6. Goto(c, r) /\ UNCHANGED <<config, vars, chain_nonce, queued, job>>
  BY <1>5, Zenon DEF current_nonce
<1> HIDE DEF h, m
<1>7. r \in Requests /\ r.pc = "add" /\ r.hash = h /\ r.requires = m
  BY <1>1, <1>4, <1>5, Zenon DEF Requests, h
<1>8. Submission(r)
  BY <1>2, <1>4, <1>7, SMTT(60) DEF Submission
<1> QED BY <1>6, <1>7, <1>8, RequestStep, Zenon

\* The nonce that request_nonce takes from the ready transactions.
LEMMA PoolNonces ==
  ASSUME Counting, NodeInv, NEW a, pool_nonces(a) # {}
  PROVE  (CHOOSE n \in pool_nonces(a) : \A k \in pool_nonces(a) : k <= n) + 1 \in Nat
<1> DEFINE ns == pool_nonces(a)
           T == {MaxNonce - n : n \in ns}
<1>1. ready_transactions \in Seq(Hash)
  BY Facts, YieldedLinked, Zenon DEF NodeInv, Types
<1>2. Elements(ready_transactions) \subseteq Hash
  BY <1>1 DEF Elements
<1>3. \A n \in ns : n \in 0..MaxNonce
  BY <1>2, TxAssumption, ZenonT(60) DEF pool_nonces, Nonce
<1> HIDE DEF ns
<1>4. T \subseteq Nat /\ T # {}
  <2>1. \A n \in ns : MaxNonce - n \in Nat
    BY <1>3, TxAssumption
  <2> QED BY <2>1, Zenon DEF ns
<1> HIDE DEF T
<1>5. PICK t \in T : \A y \in T : ~(y < t)
  BY <1>4, Zenon DEF Counting
<1>6. PICK n \in ns : t = MaxNonce - n
  BY <1>5, Zenon DEF T
<1>7. ASSUME NEW k \in ns PROVE k <= n
  <2>1. MaxNonce - k \in T
    BY Zenon DEF T
  <2>2. ~(MaxNonce - k < t)
    BY <1>5, <2>1, Zenon
  <2> QED BY <1>3, <1>6, <2>2, TxAssumption, SMTT(60)
<1>8. (CHOOSE x \in ns : \A k \in ns : k <= x) \in ns
  BY <1>6, <1>7, Zenon
<1>9. \A x \in ns : x + 1 \in Nat
  BY <1>3
<1> QED BY <1>8, <1>9, Zenon DEF ns

\* eth_sendTransaction
LEMMA SendInv ==
  ASSUME Counting, NodeInv, config' = config, NEW c \in Client, NEW h \in Hash,
         send_transaction(c, h)
  PROVE  NodeInv'
<1> DEFINE ns == pool_nonces(sender[h])
           n == (CHOOSE x \in ns : \A k \in ns : k <= x) + 1
<1> HIDE DEF ns, n
<1>1. PICK r : r = IF ns = {}
                   THEN [NoReq EXCEPT !.pc = "account_nonce", !.hash = h]
                   ELSE [NoReq EXCEPT !.pc = "validate", !.hash = h, !.nonce = n]
  BY Zenon
<1>2. Goto(c, r) /\ UNCHANGED <<config, vars, chain_nonce, queued, job>> /\ ~OnlyRaw
  <2>1. UNCHANGED <<config, vars, chain_nonce, queued, job>> /\ ~OnlyRaw
    BY Zenon DEF send_transaction, StartCall, OnlyRaw
  <2>2. Goto(c, r)
    BY <1>1, Zenon DEF send_transaction, ns, n
  <2> QED BY <2>1, <2>2, Zenon
<1>3. ns # {} => n \in Nat
  BY PoolNonces, Zenon DEF ns, n
<1>4. r \in Requests /\ r.pc # "add" /\ r.hash = h
  <2>1. CASE ns = {}
    <3>1. r = [NoReq EXCEPT !.pc = "account_nonce", !.hash = h]
      BY <1>1, <2>1
    <3>2. r \in Requests /\ r.pc = "account_nonce" /\ r.hash = h
      BY <3>1, NoRequest, Zenon DEF Requests
    <3> QED BY <3>2
  <2>2. CASE ns # {}
    <3>1. r = [NoReq EXCEPT !.pc = "validate", !.hash = h, !.nonce = n]
      BY <1>1, <2>2
    <3>2. r \in Requests /\ r.pc = "validate" /\ r.hash = h
      BY <1>3, <2>2, <3>1, NoRequest, Zenon DEF Requests
    <3> QED BY <3>2
  <2> QED BY <2>1, <2>2
<1>5. Submission(r)
  BY <1>2, <1>4, Zenon DEF Submission
<1> QED BY <1>2, <1>4, <1>5, RequestStep, Zenon

\* eth_sendTransaction, its read of the account nonce
LEMMA AccountNonceInv ==
  ASSUME NodeInv, config' = config, NEW c \in Client, account_nonce(c)
  PROVE  NodeInv'
<1> DEFINE h == req[c].hash
           n == chain_nonce[sender[h]]
<1>1. req[c].pc = "account_nonce" /\ req[c] \in Requests /\ Submission(req[c])
  BY DEF account_nonce, NodeInv, NodeTypes
<1>2. h \in Hash /\ ~OnlyRaw
  BY <1>1, SMTT(60) DEF Submission
<1>3. n \in Nat
  BY <1>2, TxAssumption, SMTT(60) DEF NodeInv, NodeTypes
<1>4. PICK r : r = [req[c] EXCEPT !.pc = "validate", !.nonce = n]
  BY Zenon
<1>5. Goto(c, r) /\ UNCHANGED <<config, vars, chain_nonce, queued, job>>
  BY <1>4, Zenon DEF account_nonce
<1> HIDE DEF h, n
<1>6. r \in Requests /\ r.pc = "validate" /\ r.hash = h
  BY <1>1, <1>3, <1>4, Zenon DEF Requests, h
<1>7. Submission(r)
  <2>1. r.pc # "add"
    BY <1>6
  <2> QED BY <1>2, <1>6, <2>1, Zenon DEF Submission
<1> QED BY <1>5, <1>6, <1>7, RequestStep, Zenon

\* eth_sendTransaction, the marker it requires
LEMMA ValidateInv ==
  ASSUME NodeInv, config' = config, NEW c \in Client, validate(c)
  PROVE  NodeInv'
<1> DEFINE h == req[c].hash
           m == required_marker(nonce[h], req[c].nonce, sender[h])
<1>1. req[c].pc = "validate" /\ req[c] \in Requests /\ Submission(req[c])
  BY DEF validate, NodeInv, NodeTypes
<1>2. h \in Hash /\ ~OnlyRaw /\ req[c].nonce \in Nat
  BY <1>1, SMTT(60) DEF Submission, Requests
<1>3. m \in required_marker_choices(h) /\ m \in Marker \cup {None}
  <2> HIDE DEF h
  <2> QED BY <1>2, RequiredMarker, Zenon
<1>4. PICK r : r = IF ~validated(h) THEN NoReq
                   ELSE [req[c] EXCEPT !.pc = "add", !.requires = m]
  BY Zenon
<1>5. Goto(c, r) /\ UNCHANGED <<config, vars, chain_nonce, queued, job>>
  BY <1>4, Zenon DEF validate
<1> HIDE DEF h, m
<1>6. CASE r = NoReq
  BY <1>5, <1>6, NoRequest, RequestStep, Zenon
<1>7. CASE r = [req[c] EXCEPT !.pc = "add", !.requires = m]
  <2>1. r \in Requests /\ r.pc = "add" /\ r.hash = h /\ r.requires = m
    BY <1>1, <1>3, <1>7, Zenon DEF Requests, h
  <2>2. Submission(r)
    BY <1>2, <1>3, <2>1, Zenon DEF Submission
  <2> QED BY <1>5, <2>1, <2>2, RequestStep, Zenon
<1> QED BY <1>4, <1>6, <1>7, Zenon

\* An addition that the pool refuses.
LEMMA AddRejectedInv ==
  ASSUME NodeInv, config' = config, NEW c \in Client, add_rejected(c)
  PROVE  NodeInv'
<1>1. PICK r : r = NoReq
  BY Zenon
<1>2. Goto(c, r) /\ UNCHANGED <<config, vars, chain_nonce, queued, job>>
  BY <1>1, Zenon DEF add_rejected
<1> QED BY <1>1, <1>2, NoRequest, RequestStep, Zenon

\* The notification of a listener.
LEMMA NotifyInv ==
  ASSUME NodeInv, config' = config, NEW c \in Client, notify_listener(c)
  PROVE  NodeInv'
<1>1. req[c].pc = "notify" /\ req[c] \in Requests
  BY DEF notify_listener, NodeInv, NodeTypes
<1>2. PICK r : r = IF req[c].notify = 1 THEN NoReq ELSE [req[c] EXCEPT !.notify = @ - 1]
  BY Zenon
<1>3. Goto(c, r) /\ UNCHANGED <<config, vars, chain_nonce, queued, job>>
  BY <1>2, Zenon DEF notify_listener
<1>4. CASE r = NoReq
  BY <1>3, <1>4, NoRequest, RequestStep, Zenon
<1>5. CASE r = [req[c] EXCEPT !.notify = @ - 1]
  <2>1. req[c].notify - 1 \in Int
    BY <1>1 DEF Requests
  <2>2. r \in Requests /\ r.pc = "notify"
    BY <1>1, <1>5, <2>1, Zenon DEF Requests
  <2>3. Submission(r)
    BY <2>2 DEF Submission
  <2> QED BY <1>3, <2>2, <2>3, RequestStep, Zenon
<1> QED BY <1>2, <1>4, <1>5, Zenon

\* Pool::add_transaction
LEMMA NodeAddInv ==
  ASSUME NodeInv, config' = config, NEW c \in Client, add(c)
  PROVE  NodeInv' /\ ForReason
<1>1. PICK h, m : h = req[c].hash /\ m = req[c].requires
  BY Zenon
<1>2. /\ req[c].pc = "add" /\ req[c] \in Requests /\ Submission(req[c])
      /\ add_transaction(h, m) /\ UNCHANGED <<chain_nonce, queued, job>>
  <2>1. /\ req[c].pc = "add" /\ add_transaction(h, m) /\ UNCHANGED <<chain_nonce, queued, job>>
    BY <1>1, Zenon DEF add
  <2> QED BY <2>1 DEF NodeInv, NodeTypes
<1>3. h \in Hash /\ m \in required_marker_choices(h) /\ (OnlyRaw /\ m = None => Due(h))
  BY <1>1, <1>2, SMTT(60) DEF Submission
<1>4. IInv /\ IndexTypes /\ (OnlyRaw => PoolDue)
  BY Zenon DEF NodeInv
<1>5. IInv' /\ ForReason
  BY <1>2, <1>3, <1>4, AddIInv, Zenon
<1>6. Grows
  BY <1>2, SameGrows, Zenon DEF NodeInv
<1>7. IndexTypes' /\ (OnlyRaw' => PoolDue')
  BY <1>2, <1>3, <1>4, <1>6, AddDue, GrownDue, Zenon
<1>8. PICK r : r = IF op' = Idle THEN NoReq ELSE [req[c] EXCEPT !.pc = "adding"]
  BY Zenon
<1>9. Goto(c, r)
  BY <1>8, Zenon DEF add
<1>10. r \in Requests /\ (req'[c] = r => Submission(req[c])')
  <2>1. CASE r = NoReq
    <3>1. r \in Requests /\ r.pc = "idle"
      BY <2>1, NoRequest, Zenon
    <3> QED BY <3>1, SMTT(60) DEF Submission
  <2>2. CASE r = [req[c] EXCEPT !.pc = "adding"]
    <3>1. r \in Requests /\ r.pc = "adding"
      BY <1>2, <2>2, Zenon DEF Requests
    <3> QED BY <3>1, SMTT(60) DEF Submission
  <2> QED BY <1>8, <2>1, <2>2, Zenon
<1>11. req' \in [Client -> Requests] /\ \A d \in Client : Submission(req[d])'
  BY <1>6, <1>9, <1>10, OneRequest, Zenon
<1>12. job' = job /\ queued' = queued
  BY <1>2
<1> QED BY <1>5, <1>6, <1>7, <1>11, <1>12, SameJobs, SameQueue, AssembleNode, Zenon

-----------------------------------------------------------------------------
(* The thread that holds the pool's lock *)

\* A step of a loop of the pool.
LEMMA ContinueDue ==
  ASSUME IInv, IndexTypes, chain_nonce \in [Sender -> Nat], Continue
  PROVE  IInv' /\ ForReason /\ DueKept
  BY AddReadyIInv, AddDoneIInv, PruneOneIInv, ImportIInv, AddReadyDue, AddDoneDue, PruneOneDue,
     ImportDue, Zenon DEF Continue

\* No block.
LEMMA NoBlock == NoJob \in Jobs /\ Block(NoJob) /\ Block(NoJob)'
<1>1. NoJob \in Jobs /\ NoJob.txs = <<>> /\ NoJob.included = <<>> /\ NoJob.invalid = {}
  BY SMTT(60) DEF NoJob, Jobs
<1>2. DOMAIN <<>> = {}
  OBVIOUS
<1>3. Elements(<<>>) = {} /\ Chosen(<<>>) /\ Chosen(<<>>)'
  BY <1>2, Zenon DEF Elements, Chosen, InNonceOrder
<1> QED BY <1>1, <1>3, Zenon DEF Block

\* A step of a loop of the pool, in the node
LEMMA PoolStepInv ==
  ASSUME Counting, NodeInv, config' = config, pool_step
  PROVE  NodeInv' /\ ForReason
<1>1. Continue /\ UNCHANGED <<chain_nonce, queued>>
  BY Zenon DEF pool_step
<1>2. /\ IInv /\ IndexTypes /\ (OnlyRaw => PoolDue)
      /\ chain_nonce \in [Sender -> Nat] /\ req \in [Client -> Requests] /\ op \in Operations
  BY Facts, Zenon DEF NodeInv, NodeTypes
<1>3. Grows
  BY <1>1, SameGrows, Zenon DEF NodeInv
<1>4. IInv' /\ ForReason /\ IndexTypes' /\ (OnlyRaw' => PoolDue')
  BY <1>1, <1>2, <1>3, ContinueDue, GrownDue, Zenon DEF DueKept
<1>5. queued' \in Seq(Seq(Hash)) /\ \A i \in DOMAIN queued' : Chosen(queued[i])'
  BY <1>1, <1>3, SameQueue, Zenon
<1>6. CASE job' = job /\ op' # Idle /\ Goto(lock_owner, req[lock_owner])
  <2>1. req' = req
    BY <1>2, <1>6, SMTT(60) DEF Goto
  <2> QED BY <1>3, <1>4, <1>5, <1>6, <2>1, SameRequests, SameJobs, AssembleNode, Zenon
<1>7. CASE /\ job' = job
           /\ Goto(lock_owner,
                   IF op.queue = <<>> /\ ~is_cyclic
                   THEN [NoReq EXCEPT !.pc = "notify", !.notify = 1 + Cardinality(op.promoted)]
                   ELSE NoReq)
  <2>1. PICK l, n : l = lock_owner /\ n = 1 + Cardinality(op.promoted)
    BY Zenon
  <2>2. n \in Int
    <3>1. op.promoted \in SUBSET Hash
      BY <1>2, SMTT(60) DEF Operations
    <3>2. Cardinality(op.promoted) \in Nat
      BY <3>1, Zenon DEF Counting
    <3> QED BY <2>1, <3>2
  <2>3. PICK r : r = IF op.queue = <<>> /\ ~is_cyclic
                     THEN [NoReq EXCEPT !.pc = "notify", !.notify = n] ELSE NoReq
    BY Zenon
  <2>4. Goto(l, r)
    BY <1>7, <2>1, <2>3, Zenon
  <2>5. r \in Requests /\ r.pc \in {"idle", "notify"}
    <3>1. CASE r = NoReq
      BY <3>1, NoRequest, Zenon
    <3>2. CASE r = [NoReq EXCEPT !.pc = "notify", !.notify = n]
      BY <2>2, <3>2, NoRequest, Zenon DEF Requests
    <3> QED BY <2>3, <3>1, <3>2, Zenon
  <2>6. req'[l] = r => Submission(req[l])'
    BY <2>5, SMTT(60) DEF Submission
  <2>7. req' \in [Client -> Requests] /\ \A d \in Client : Submission(req[d])'
    BY <1>3, <2>4, <2>5, <2>6, OneRequest, Zenon
  <2> QED BY <1>3, <1>4, <1>5, <1>7, <2>7, SameJobs, AssembleNode, Zenon
<1>8. CASE req' = req /\ job' = job
  BY <1>3, <1>4, <1>5, <1>8, SameRequests, SameJobs, AssembleNode, Zenon
<1>9. CASE req' = req /\ job' = [job EXCEPT ![lock_owner] = NoJob]
  <2>1. PICK l, j : l = lock_owner /\ j = NoJob
    BY Zenon
  <2>2. job' = [job EXCEPT ![l] = j] /\ j \in Jobs /\ Block(j)'
    BY <1>9, <2>1, NoBlock, Zenon
  <2>3. job' \in [Worker -> Jobs] /\ \A v \in Worker : Block(job[v])'
    BY <1>3, <2>2, OneJob, Zenon
  <2> QED BY <1>3, <1>4, <1>5, <1>9, <2>3, SameRequests, AssembleNode, Zenon
<1>10. \/ /\ job' = job
          /\ Goto(lock_owner,
                  IF op' # Idle THEN req[lock_owner]
                  ELSE IF op.queue = <<>> /\ ~is_cyclic
                  THEN [NoReq EXCEPT !.pc = "notify", !.notify = 1 + Cardinality(op.promoted)]
                  ELSE NoReq)
       \/ req' = req /\ job' = IF op' # Idle THEN job ELSE [job EXCEPT ![lock_owner] = NoJob]
  BY Zenon DEF pool_step
<1> QED BY <1>6, <1>7, <1>8, <1>9, <1>10, Zenon

-----------------------------------------------------------------------------
(* Mining a block *)

\* The ready transactions, chosen for a block.
LEMMA ReadyChosen ==
  ASSUME Counting, NodeInv
  PROVE  ready_transactions \in Seq(Hash) /\ Chosen(ready_transactions)
<1>1. Types /\ Links /\ IndexTypes /\ (OnlyRaw => PoolDue)
  BY Facts, Zenon DEF NodeInv
<1>2. ready_transactions \in Seq(Hash)
  BY <1>1, YieldedLinked, Zenon DEF Types
<1> QED BY <1>1, <1>2, YieldedInOrder, Zenon DEF Chosen, PoolDue

\* A step that touches nothing but one block.
LEMMA JobStep ==
  ASSUME NodeInv, Grows, NEW w, NEW j \in Jobs, job' = [job EXCEPT ![w] = j], Block(j)',
         queued' \in Seq(Seq(Hash)), \A i \in DOMAIN queued' : Chosen(queued[i])',
         UNCHANGED <<vars, req>>
  PROVE  NodeInv'
<1>1. UNCHANGED vars /\ req' = req
  BY Zenon
<1>2. IInv' /\ IndexTypes' /\ (OnlyRaw' => PoolDue')
  BY <1>1, SamePool, Zenon DEF NodeInv
<1> QED BY <1>1, <1>2, OneJob, SameRequests, AssembleNode, Zenon

\* A block is begun.
LEMMA Begun ==
  ASSUME NEW txs \in Seq(Hash), NEW j, j = [NoJob EXCEPT !.pc = "mining", !.txs = txs],
         Grows, Chosen(txs)
  PROVE  j \in Jobs /\ Block(j)'
<1>1. /\ j \in Jobs /\ j.txs = txs /\ j.included = <<>> /\ j.invalid = {}
  <2>1. NoJob.included = <<>> /\ NoJob.invalid = {} /\ NoJob \in Jobs
    BY NoBlock DEF NoJob
  <2> QED BY <2>1, Zenon DEF Jobs
<1>2. Elements(<<>>) = {}
  BY DEF Elements
<1>3. Chosen(txs)'
  BY OtherChosen, Zenon
<1> QED BY <1>1, <1>2, <1>3, Zenon DEF Block

\* evm_mine
LEMMA MineOneInv ==
  ASSUME Counting, NodeInv, config' = config, NEW c \in Client, mine_one(c)
  PROVE  NodeInv'
<1>1. PICK txs : txs = ready_transactions
  BY Zenon
<1>2. PICK j : j = [NoJob EXCEPT !.pc = "mining", !.txs = txs]
  BY Zenon
<1>3. /\ job' = [job EXCEPT ![c] = j] /\ UNCHANGED <<vars, req>>
      /\ UNCHANGED <<config, chain_nonce>> /\ queued' = queued
  BY <1>1, <1>2, Zenon DEF mine_one
<1>4. Grows
  BY <1>3, SameGrows, Zenon DEF NodeInv
<1>5. j \in Jobs /\ Block(j)'
  BY <1>1, <1>2, <1>4, ReadyChosen, Begun, Zenon
<1>6. queued' \in Seq(Seq(Hash)) /\ \A i \in DOMAIN queued' : Chosen(queued[i])'
  BY <1>3, <1>4, SameQueue, Zenon
<1> QED BY <1>3, <1>4, <1>5, <1>6, JobStep, Zenon

\* Backend::mine_block
LEMMA MineBlockInv ==
  ASSUME Counting, NodeInv, config' = config, NEW w \in Worker, mine_block(w)
  PROVE  NodeInv'
<1>1. PICK before : before = job[w]
  BY Zenon
<1>2. PICK out : out = execute(before.txs)[Len(before.txs)]
  BY Zenon
<1> DEFINE txs == before.txs
<1>3. /\ chain_nonce' = out.nonces
      /\ job' = [job EXCEPT ![w].pc = "mined", ![w].included = out.included,
                            ![w].invalid = out.invalid]
      /\ UNCHANGED <<vars, req>> /\ queued' = queued
  BY <1>1, <1>2, Zenon DEF mine_block
<1>4. /\ job \in [Worker -> Jobs] /\ before \in Jobs /\ txs \in Seq(Hash) /\ Block(before)
      /\ config \in Configs /\ chain_nonce \in [Sender -> Nat]
  <2>1. /\ job \in [Worker -> Jobs] /\ Block(before)
        /\ config \in Configs /\ chain_nonce \in [Sender -> Nat]
    BY <1>1, Zenon DEF NodeInv, NodeTypes, Blocks
  <2>2. before \in Jobs
    BY <1>1, <2>1
  <2> QED BY <2>1, <2>2, Zenon DEF Jobs
<1>5. Executing(out, txs, Len(txs))
  BY <1>2, <1>4, BlockExecuted, Zenon
<1>6. /\ out.nonces \in [Sender -> Nat] /\ out.included \in Seq(Hash)
      /\ out.invalid \in SUBSET Hash
      /\ \A a \in Sender : chain_nonce[a] <= out.nonces[a]
      /\ \A h \in Elements(out.included) : Past(out, h)
      /\ InNonceOrder(txs) =>
           \A h \in out.invalid :
             Past(out, h) \/ \E k \in Skipped(out, txs, Len(txs)) :
                               sender[k] = sender[h] /\ nonce[k] < nonce[h]
  <2>1. out \in Outcome
    BY <1>5, Zenon DEF Executing
  <2>2. /\ out.nonces \in [Sender -> Nat] /\ out.included \in Seq(Hash)
        /\ out.invalid \in SUBSET Hash
    BY <2>1 DEF Outcome
  <2> QED BY <1>5, <2>2, Zenon DEF Executing
<1>7. Grows
  BY <1>3, <1>4, <1>6, Zenon DEF Grows
<1>8. PICK j : j = [before EXCEPT !.pc = "mined", !.included = out.included,
                                  !.invalid = out.invalid]
  BY Zenon
<1>9. /\ j \in Jobs /\ j.txs = txs /\ j.included = out.included /\ j.invalid = out.invalid
  BY <1>4, <1>6, <1>8, Zenon DEF Jobs
<1>10. job' = [job EXCEPT ![w] = j]
  BY <1>1, <1>3, <1>4, <1>8, Zenon
<1>11. Chosen(txs)'
  BY <1>4, <1>7, OtherChosen, Zenon DEF Block
<1>12. \A h : Past(out, h) <=> Used(h)'
  BY <1>3, Zenon DEF Past, Used
<1>13. ASSUME NEW k \in Skipped(out, txs, Len(txs)) PROVE k \in exhausted(j)
  <2>1. PICK i \in 1..Len(txs) : txs[i] = k
    BY Zenon DEF Skipped
  <2>2. i \in DOMAIN txs
    BY <1>4, <2>1, SMTT(60)
  <2>3. k \in Elements(txs)
    BY <2>1, <2>2, Zenon DEF Elements
  <2> QED BY <1>9, <2>3, Zenon DEF Skipped, exhausted
<1>14. OnlyRaw => InNonceOrder(txs)
  BY <1>4, Zenon DEF Block, Chosen
<1>15. OnlyRaw' => \A h \in j.invalid : Used(h)' \/ LeftOut(j, h)
  BY <1>6, <1>7, <1>9, <1>12, <1>13, <1>14, GrownDue, Zenon DEF LeftOut
<1>16. Block(j)'
  BY <1>6, <1>9, <1>11, <1>12, <1>15, ZenonT(60) DEF Block, LeftOut, exhausted, Elements
<1>17. queued' \in Seq(Seq(Hash)) /\ \A i \in DOMAIN queued' : Chosen(queued[i])'
  BY <1>3, <1>7, SameQueue, Zenon
<1> QED BY <1>3, <1>7, <1>9, <1>10, <1>16, <1>17, JobStep, Zenon

\* A block after the step in which only part of it was forgotten.
LEMMA LaterBlock ==
  ASSUME Grows, NEW b \in Jobs, Block(b), NEW j, j.txs = b.txs,
         j.included = b.included, j.invalid = {}
  PROVE  Block(j)'
<1>1. b.txs \in Seq(Hash) /\ b.included \in Seq(Hash)
  BY SMTT(60) DEF Jobs
<1>2. Chosen(b.txs)'
  BY <1>1, OtherChosen, Zenon DEF Block
<1>3. \A h \in Elements(b.included) : h \in Hash
  BY <1>1, SMTT(60) DEF Elements
<1> QED BY <1>2, <1>3, GrownDue, Zenon DEF Block

\* Transactions are removed from the pool.
LEMMA Removal ==
  ASSUME NodeInv, Grows, chain_nonce' = chain_nonce, op = Idle, op' = op, NEW hashes,
         remove_with_markers(hashes), ForgetDropped,
         pending_remove(hashes) \/ UNCHANGED pending_vars
  PROVE  IInv' /\ IndexTypes' /\ (OnlyRaw' => PoolDue') /\ ForReason
<1>1. IInv /\ IndexTypes /\ (OnlyRaw => PoolDue)
  BY Zenon DEF NodeInv
<1>2. IInv' /\ ForReason
  BY <1>1, RemoveIInv, Zenon
<1>3. DueKept
  BY <1>1, RemoveDue, Zenon
<1> QED BY <1>1, <1>2, <1>3, GrownDue, Zenon DEF DueKept

\* remove_invalid, after a block was mined.
LEMMA MinedInvalidInv ==
  ASSUME NodeInv, config' = config, NEW w \in Worker, on_mined_invalid(w)
  PROVE  NodeInv' /\ (ForReason \/ UNCHANGED vars)
<1>1. PICK b : b = job[w]
  BY Zenon
<1>2. /\ job' = [job EXCEPT ![w].pc = "prune", ![w].invalid = {}]
      /\ UNCHANGED <<config, chain_nonce>> /\ queued' = queued /\ req' = req
      /\ UNCHANGED vars \/ remove_invalid(b.invalid)
  BY <1>1, Zenon DEF on_mined_invalid
<1>3. job \in [Worker -> Jobs] /\ b \in Jobs /\ Block(b)
  <2>1. job \in [Worker -> Jobs] /\ Block(b)
    BY <1>1, Zenon DEF NodeInv, NodeTypes, Blocks
  <2> QED BY <1>1, <2>1
<1>4. Grows
  BY <1>2, SameGrows, Zenon DEF NodeInv
<1>5. PICK j : j = [b EXCEPT !.pc = "prune", !.invalid = {}]
  BY Zenon
<1>6. j \in Jobs /\ j.txs = b.txs /\ j.included = b.included /\ j.invalid = {}
  BY <1>3, <1>5, Zenon DEF Jobs
<1>7. job' = [job EXCEPT ![w] = j]
  BY <1>1, <1>2, <1>3, <1>5, Zenon
<1>8. job' \in [Worker -> Jobs] /\ \A v \in Worker : Block(job[v])'
  BY <1>3, <1>4, <1>6, <1>7, LaterBlock, OneJob, Zenon
<1>9. CASE UNCHANGED vars
  <2>1. IInv' /\ IndexTypes' /\ (OnlyRaw' => PoolDue')
    BY <1>4, <1>9, SamePool, Zenon DEF NodeInv
  <2> QED BY <1>2, <1>4, <1>8, <1>9, <2>1, SameRequests, SameQueue, AssembleNode, Zenon
<1>10. CASE remove_invalid(b.invalid)
  <2>1. /\ op = Idle /\ op' = op /\ remove_with_markers(b.invalid) /\ pending_remove(b.invalid)
        /\ ForgetDropped /\ chain_nonce' = chain_nonce
    BY <1>2, <1>10, Zenon DEF remove_invalid, remove_listed
  <2>2. IInv' /\ IndexTypes' /\ (OnlyRaw' => PoolDue') /\ ForReason
    BY <1>4, <2>1, Removal, Zenon
  <2> QED BY <1>2, <1>4, <1>8, <2>2, SameRequests, SameQueue, AssembleNode, Zenon
<1> QED BY <1>2, <1>9, <1>10

\* The markers of transactions are their senders and nonces.
LEMMA MarkersOf ==
  ASSUME NEW txs \in Seq(Hash), NEW ms, ms = [i \in DOMAIN txs |-> provides(txs[i])]
  PROVE  /\ ms \in Seq(Marker) /\ DOMAIN ms = DOMAIN txs
         /\ \A i \in DOMAIN txs : /\ txs[i] \in Elements(txs)
                                 /\ ms[i][1] = nonce[txs[i]] /\ ms[i][2] = sender[txs[i]]
<1>1. Len(txs) \in Nat /\ DOMAIN txs = 1..Len(txs)
  OBVIOUS
<1>2. \A i \in DOMAIN txs : txs[i] \in Hash /\ txs[i] \in Elements(txs)
  BY SMTT(60) DEF Elements
<1>3. \A i \in DOMAIN txs : /\ ms[i] = provides(txs[i]) /\ ms[i] \in Marker
                            /\ ms[i][1] = nonce[txs[i]] /\ ms[i][2] = sender[txs[i]]
  BY <1>2, Provides, SMTT(60)
<1>4. ms \in [1..Len(txs) -> Marker]
  BY <1>1, <1>3, SMTT(60)
<1>5. ms \in Seq(Marker)
  BY <1>1, <1>4
<1> QED BY <1>2, <1>3, <1>5, Zenon

\* The markers of the mined transactions are used up.
LEMMA MinedMarkers ==
  ASSUME NodeInv, NEW w \in Worker
  PROVE  /\ mined_markers(w) \in Seq(Marker)
         /\ \A i \in DOMAIN mined_markers(w) :
              mined_markers(w)[i][1] < chain_nonce[mined_markers(w)[i][2]]
<1>1. PICK included : included = job[w].included
  BY Zenon
<1>2. included \in Seq(Hash) /\ \A h \in Elements(included) : Used(h)
  <2>1. job \in [Worker -> Jobs] /\ Block(job[w])
    BY Zenon DEF NodeInv, NodeTypes, Blocks
  <2>2. included \in Seq(Hash)
    BY <1>1, <2>1 DEF Jobs
  <2> QED BY <1>1, <2>1, <2>2, Zenon DEF Block
<1>3. PICK ms : ms = [i \in DOMAIN included |-> provides(included[i])]
  BY Zenon
<1>4. mined_markers(w) = ms
  BY <1>1, <1>3, Zenon DEF mined_markers
<1>5. /\ ms \in Seq(Marker) /\ DOMAIN ms = DOMAIN included
      /\ \A i \in DOMAIN included : /\ included[i] \in Elements(included)
                                    /\ ms[i][1] = nonce[included[i]]
                                    /\ ms[i][2] = sender[included[i]]
  BY <1>2, <1>3, MarkersOf, Zenon
<1>6. \A i \in DOMAIN ms : ms[i][1] < chain_nonce[ms[i][2]]
  BY <1>2, <1>5, Zenon DEF Used
<1> QED BY <1>4, <1>5, <1>6, Zenon

\* prune_markers, after a block was mined.
LEMMA MinedPruneInv ==
  ASSUME NodeInv, config' = config, NEW w \in Worker, on_mined_prune(w)
  PROVE  NodeInv' /\ ForReason
<1>1. PICK ms, b : ms = mined_markers(w) /\ b = job[w]
  BY Zenon
<1>2. /\ prune_markers(ms) /\ UNCHANGED <<config, chain_nonce>> /\ queued' = queued /\ req' = req
      /\ \/ job' = [job EXCEPT ![w] = NoJob]
         \/ job' = [job EXCEPT ![w].pc = "pruning"]
  BY <1>1, Zenon DEF on_mined_prune
<1>3. ms \in Seq(Marker) /\ \A i \in DOMAIN ms : ms[i][1] < chain_nonce[ms[i][2]]
  BY <1>1, MinedMarkers, Zenon
<1>4. Grows
  BY <1>2, SameGrows, Zenon DEF NodeInv
<1>5. IInv' /\ ForReason /\ IndexTypes' /\ (OnlyRaw' => PoolDue')
  BY <1>2, <1>3, <1>4, PruneIInv, PruneDue, GrownDue, Zenon DEF NodeInv
<1>6. job' \in [Worker -> Jobs] /\ \A v \in Worker : Block(job[v])'
  <2>1. CASE job' = [job EXCEPT ![w] = NoJob]
    <3>1. PICK j : j = NoJob
      BY Zenon
    <3> QED BY <1>4, <2>1, <3>1, NoBlock, OneJob, Zenon
  <2>2. CASE job' = [job EXCEPT ![w].pc = "pruning"]
    <3>1. job \in [Worker -> Jobs] /\ b \in Jobs /\ Block(b)
      <4>1. job \in [Worker -> Jobs] /\ Block(b)
        BY <1>1, Zenon DEF NodeInv, NodeTypes, Blocks
      <4> QED BY <1>1, <4>1
    <3>2. PICK j : j = [b EXCEPT !.pc = "pruning"]
      BY Zenon
    <3>3. j \in Jobs /\ j.txs = b.txs /\ j.included = b.included /\ j.invalid = b.invalid
      BY <3>1, <3>2, Zenon DEF Jobs
    <3>4. job' = [job EXCEPT ![w] = j]
      BY <1>1, <2>2, <3>1, <3>2
    <3>5. Block(b)'
      BY <1>4, <3>1, OtherBlock, Zenon
    <3>6. Block(j)'
      BY <3>3, <3>5, Zenon DEF Block, LeftOut, exhausted
    <3> QED BY <1>4, <3>3, <3>4, <3>6, OneJob, Zenon
  <2> QED BY <1>2, <2>1, <2>2
<1> QED BY <1>2, <1>4, <1>5, <1>6, SameRequests, SameQueue, AssembleNode, Zenon

-----------------------------------------------------------------------------
(* NodeService and Miner *)

\* BlockProducer::poll_next
LEMMA StartBlockInv ==
  ASSUME NodeInv, config' = config, start_block
  PROVE  NodeInv'
<1>1. PICK txs, w : txs = Head(queued) /\ w = Producer
  BY Zenon
<1>2. PICK j : j = [NoJob EXCEPT !.pc = "mining", !.txs = txs]
  BY Zenon
<1>3. /\ queued # <<>> /\ queued' = Tail(queued) /\ job' = [job EXCEPT ![w] = j]
      /\ UNCHANGED <<vars, req>> /\ UNCHANGED <<config, chain_nonce>>
  BY <1>1, <1>2, Zenon DEF start_block
<1>4. queued \in Seq(Seq(Hash)) /\ \A i \in DOMAIN queued : Chosen(queued[i])
  BY Zenon DEF NodeInv, NodeTypes, Blocks
<1>5. /\ txs \in Seq(Hash) /\ 1 \in DOMAIN queued /\ txs = queued[1]
      /\ Tail(queued) \in Seq(Seq(Hash))
      /\ \A i \in DOMAIN Tail(queued) : /\ i + 1 \in DOMAIN queued
                                        /\ Tail(queued)[i] = queued[i + 1]
                                        /\ Tail(queued)[i] \in Seq(Hash)
  BY <1>1, <1>3, <1>4, SMTT(60)
<1>6. Grows
  BY <1>3, SameGrows, Zenon DEF NodeInv
<1>7. j \in Jobs /\ Block(j)'
  BY <1>2, <1>4, <1>5, <1>6, Begun, Zenon
<1>8. ASSUME NEW i \in DOMAIN queued' PROVE Chosen(queued[i])'
  <2>1. PICK t : t = Tail(queued)[i]
    BY Zenon
  <2>2. t \in Seq(Hash) /\ Chosen(t)
    BY <1>3, <1>4, <1>5, <2>1, Zenon
  <2>3. Chosen(t)'
    BY <1>6, <2>2, OtherChosen, Zenon
  <2> QED BY <1>3, <2>1, <2>3, Zenon
<1>9. queued' \in Seq(Seq(Hash))
  BY <1>3, <1>5
<1> QED BY <1>3, <1>6, <1>7, <1>8, <1>9, JobStep, Zenon

\* The miner chooses transactions for a block.
LEMMA QueueStep ==
  ASSUME NodeInv, UNCHANGED <<config, vars, chain_nonce, req, job>>, NEW txs \in Seq(Hash),
         Chosen(txs), queued' = queued \/ queued' = Append(queued, txs)
  PROVE  NodeInv'
<1>1. Grows /\ req' = req /\ job' = job /\ UNCHANGED vars
  BY SameGrows, Zenon DEF NodeInv
<1>2. IInv' /\ IndexTypes' /\ (OnlyRaw' => PoolDue')
  BY <1>1, SamePool, Zenon DEF NodeInv
<1>3. queued' \in Seq(Seq(Hash)) /\ \A i \in DOMAIN queued' : Chosen(queued[i])'
  <2>1. CASE queued' = queued
    BY <1>1, <2>1, SameQueue, Zenon
  <2>2. CASE queued' = Append(queued, txs)
    <3>1. queued \in Seq(Seq(Hash)) /\ \A i \in DOMAIN queued : Chosen(queued[i])
      BY Zenon DEF NodeInv, NodeTypes, Blocks
    <3>2. /\ queued' \in Seq(Seq(Hash))
          /\ \A i \in DOMAIN queued' : queued'[i] \in Seq(Hash)
          /\ \A i \in DOMAIN queued' : \/ queued'[i] = txs
                                       \/ i \in DOMAIN queued /\ queued'[i] = queued[i]
      BY <2>2, <3>1, SMTT(60)
    <3>3. ASSUME NEW i \in DOMAIN queued' PROVE Chosen(queued[i])'
      <4>1. PICK t : t = queued'[i]
        BY Zenon
      <4>2. t \in Seq(Hash) /\ Chosen(t)
        BY <3>1, <3>2, <4>1, Zenon
      <4>3. Chosen(t)'
        BY <1>1, <4>2, OtherChosen, Zenon
      <4> QED BY <4>1, <4>3, Zenon
    <3> QED BY <3>2, <3>3, Zenon
  <2> QED BY <2>1, <2>2, SMTT(60)
<1> QED BY <1>1, <1>2, <1>3, SameRequests, SameJobs, AssembleNode, Zenon

\* Miner::poll, for the two modes that mine
LEMMA PollInv ==
  ASSUME Counting, NodeInv, config' = config, poll_auto \/ poll_interval
  PROVE  NodeInv'
<1>1. PICK all : all = ready_transactions
  BY Zenon
<1>2. PICK first : first = Take(all, max_transactions)
  BY Zenon
<1>3. all \in Seq(Hash) /\ Chosen(all)
  BY <1>1, ReadyChosen, Zenon
<1>4. first \in Seq(Hash) /\ Chosen(first)
  <2>1. max_transactions \in Nat
    BY NodeAssumption, SMTT(60)
  <2> QED BY <1>2, <1>3, <2>1, TakeIs, Zenon DEF Chosen
<1>5. CASE poll_auto
  <2>1. /\ queued' = queued \/ queued' = Append(queued, first)
        /\ UNCHANGED <<config, vars, chain_nonce, req, job>>
    BY <1>1, <1>2, <1>5, Zenon DEF poll_auto
  <2> QED BY <1>4, <2>1, QueueStep, Zenon
<1>6. CASE poll_interval
  <2>1. /\ queued' = Append(queued, all)
        /\ UNCHANGED <<config, vars, chain_nonce, req, job>>
    BY <1>1, <1>6, Zenon DEF poll_interval
  <2> QED BY <1>3, <2>1, QueueStep, Zenon
<1> QED BY <1>5, <1>6

-----------------------------------------------------------------------------
(* Managing the pool and the miner *)

\* Nothing that the invariant speaks of changes.
LEMMA SameNode ==
  ASSUME NodeInv, UNCHANGED <<config, vars, chain_nonce, req, job, queued>>
  PROVE  NodeInv'
<1>1. Grows /\ req' = req /\ job' = job /\ queued' = queued /\ UNCHANGED vars
  BY SameGrows, Zenon DEF NodeInv
<1>2. IInv' /\ IndexTypes' /\ (OnlyRaw' => PoolDue')
  BY <1>1, SamePool, Zenon DEF NodeInv
<1> QED BY <1>1, <1>2, SameRequests, SameJobs, SameQueue, AssembleNode, Zenon

\* Removing transactions, and clearing the pool.
LEMMA RemovalInv ==
  ASSUME NodeInv, config' = config, NEW c \in Client,
         \/ \E h \in Hash : anvil_drop_transaction(c, h)
         \/ anvil_drop_all_transactions(c)
         \/ \E a \in Sender : anvil_remove_pool_transactions(c, a)
  PROVE  NodeInv' /\ ForReason
<1>1. UNCHANGED <<config, chain_nonce>> /\ req' = req /\ job' = job /\ queued' = queued
  BY Zenon DEF anvil_drop_transaction, anvil_drop_all_transactions, anvil_remove_pool_transactions
<1>2. Grows /\ chain_nonce' = chain_nonce
  BY <1>1, SameGrows, Zenon DEF NodeInv
<1>3. ASSUME NEW h \in Hash, drop_transaction(h)
      PROVE  IInv' /\ IndexTypes' /\ (OnlyRaw' => PoolDue') /\ ForReason
  BY <1>2, <1>3, Removal, Zenon DEF drop_transaction
<1>4. ASSUME NEW a \in Sender, remove_transactions_by_address(a)
      PROVE  IInv' /\ IndexTypes' /\ (OnlyRaw' => PoolDue') /\ ForReason
  <2>1. PICK hashes : hashes = transactions_by_sender(a)
    BY Zenon
  <2>2. /\ op = Idle /\ op' = op /\ remove_with_markers(hashes) /\ pending_remove(hashes)
        /\ ForgetDropped
    BY <1>4, <2>1, Zenon DEF remove_transactions_by_address, remove_listed
  <2> QED BY <1>2, <2>2, Removal, Zenon
<1>5. ASSUME clear PROVE IInv' /\ IndexTypes' /\ (OnlyRaw' => PoolDue') /\ ForReason
  <2>1. IInv /\ IndexTypes /\ (OnlyRaw => PoolDue)
    BY Zenon DEF NodeInv
  <2>2. IInv' /\ ForReason /\ DueKept
    BY <1>5, <2>1, ClearIInv, ClearDue, Zenon
  <2> QED BY <1>2, <2>1, <2>2, GrownDue, Zenon DEF DueKept
<1>6. IInv' /\ IndexTypes' /\ (OnlyRaw' => PoolDue') /\ ForReason
  BY <1>3, <1>4, <1>5, Zenon DEF anvil_drop_transaction, anvil_drop_all_transactions,
     anvil_remove_pool_transactions
<1> QED BY <1>1, <1>2, <1>6, SameRequests, SameJobs, SameQueue, AssembleNode, Zenon

\* Every step of the node.
LEMMA NextNodeInv ==
  ASSUME Counting, NodeInv, NodeNext
  PROVE  NodeInv' /\ (ForReason \/ UNCHANGED vars)
<1>1. config' = config
  BY Zenon DEF NodeNext
<1>2. ASSUME NEW c \in Client, Submit(c) PROVE NodeInv' /\ UNCHANGED vars
  <2>1. ASSUME NEW h \in Hash, send_raw_transaction(c, h) PROVE NodeInv' /\ UNCHANGED vars
    BY <1>1, <2>1, SendRawInv, Zenon DEF send_raw_transaction
  <2>2. ASSUME NEW h \in Hash, send_transaction(c, h) PROVE NodeInv' /\ UNCHANGED vars
    BY <1>1, <2>2, SendInv, Zenon DEF send_transaction
  <2> QED BY <1>2, <2>1, <2>2, Zenon DEF Submit
<1>3. ASSUME NEW c \in Client, Manage(c) PROVE NodeInv' /\ (ForReason \/ UNCHANGED vars)
  <2>1. CASE mine_one(c)
    BY <1>1, <2>1, MineOneInv, Zenon DEF mine_one
  <2>2. ASSUME NEW enable \in BOOLEAN, anvil_set_auto_mine(c, enable)
        PROVE  NodeInv' /\ UNCHANGED vars
    BY <1>1, <2>2, SameNode, Zenon DEF anvil_set_auto_mine
  <2>3. ASSUME NEW secs \in 0..1, anvil_set_interval_mining(c, secs)
        PROVE  NodeInv' /\ UNCHANGED vars
    BY <1>1, <2>3, SameNode, Zenon DEF anvil_set_interval_mining
  <2> QED BY <1>1, <1>3, <2>1, <2>2, <2>3, RemovalInv, Zenon DEF Manage
<1>4. ASSUME NEW c \in Client, Handle(c) PROVE NodeInv' /\ (ForReason \/ UNCHANGED vars)
  <2>1. CASE add(c)
    BY <1>1, <2>1, NodeAddInv, Zenon
  <2>2. CASE current_nonce(c)
    BY <1>1, <2>2, CurrentNonceInv, Zenon DEF current_nonce
  <2>3. CASE account_nonce(c)
    BY <1>1, <2>3, AccountNonceInv, Zenon DEF account_nonce
  <2>4. CASE validate(c)
    BY <1>1, <2>4, ValidateInv, Zenon DEF validate
  <2>5. CASE add_rejected(c)
    BY <1>1, <2>5, AddRejectedInv, Zenon DEF add_rejected
  <2>6. CASE notify_listener(c)
    BY <1>1, <2>6, NotifyInv, Zenon DEF notify_listener
  <2> QED BY <1>4, <2>1, <2>2, <2>3, <2>4, <2>5, <2>6, Zenon DEF Handle
<1>5. ASSUME NEW w \in Worker, Mine(w) PROVE NodeInv' /\ (ForReason \/ UNCHANGED vars)
  <2>1. CASE mine_block(w)
    BY <1>1, <2>1, MineBlockInv, Zenon DEF mine_block
  <2> QED BY <1>1, <1>5, <2>1, MinedInvalidInv, MinedPruneInv, Zenon DEF Mine
<1>6. CASE pool_step
  BY <1>1, <1>6, PoolStepInv, Zenon
<1>7. CASE Service
  <2>1. CASE start_block
    BY <1>1, <2>1, StartBlockInv, Zenon DEF start_block
  <2>2. CASE poll_auto
    BY <1>1, <2>2, PollInv, Zenon DEF poll_auto
  <2>3. CASE poll_interval
    BY <1>1, <2>3, PollInv, Zenon DEF poll_interval
  <2> QED BY <1>7, <2>1, <2>2, <2>3, Zenon DEF Service
<1> QED BY <1>2, <1>3, <1>4, <1>5, <1>6, <1>7, Zenon DEF NodeNext

\* A node starts with an empty pool.
LEMMA NodeInitInv == NodeInit => NodeInv
<1> SUFFICES ASSUME NodeInit PROVE NodeInv
  OBVIOUS
<1>1. /\ Init /\ config \in Configs /\ chain_nonce = [a \in Sender |-> 0] /\ queued = <<>>
      /\ job = [w \in Worker |-> NoJob] /\ req = [c \in Client |-> NoReq]
  BY Zenon DEF NodeInit
<1>2. IInv
  BY <1>1, EmptyIInv, Zenon DEF Init, EmptyPool
<1>3. IndexTypes
  BY <1>1 DEF Init, IndexTypes
<1>4. NodeTypes
  <2>1. queued \in Seq(Seq(Hash)) /\ chain_nonce \in [Sender -> Nat]
    BY <1>1
  <2>2. job \in [Worker -> Jobs] /\ req \in [Client -> Requests]
    BY <1>1, NoBlock, NoRequest
  <2> QED BY <1>1, <2>1, <2>2, Zenon DEF NodeTypes
<1>5. PoolDue
  <2>1. /\ op.markers = <<>> /\ op.imports = <<>> /\ op.queue = <<>> /\ DOMAIN op.markers = {}
        /\ independent_transactions = {}
    BY <1>1, SMTT(60) DEF Init, Idle
  <2> QED BY <2>1, ShortLists, Zenon DEF PoolDue
<1>6. \A c \in Client : Submission(req[c])
  BY <1>1, NoRequest, Zenon
<1>7. Blocks
  <2>1. DOMAIN queued = {}
    BY <1>1
  <2> QED BY <1>1, <2>1, NoBlock, Zenon DEF Blocks
<1> QED BY <1>2, <1>3, <1>4, <1>5, <1>6, <1>7, Zenon DEF NodeInv

-----------------------------------------------------------------------------
(* The theorems about the iterator and the node *)

INSTANCE FiniteSetTheorems

\* Sets of natural numbers have least elements, and Hash is finite.
LEMMA CountingHolds == Counting
<1>1. ASSUME NEW T \in SUBSET Nat, T # {} PROVE \E n \in T : \A k \in T : ~(k < n)
  <2>1. PICK n \in T : \A k \in T : ~(<<k, n>> \in OpToRel(<, Nat))
    BY <1>1, NatLessThanWellFounded, WFMin, Zenon
  <2>2. \A k \in T : ~(k < n)
    BY <2>1, Zenon DEF OpToRel
  <2> QED BY <2>1, <2>2, Zenon
<1>2. ASSUME NEW U \in SUBSET Hash
      PROVE  /\ Cardinality(U) \in Nat
             /\ \A h \in U : Cardinality(U \ {h}) = Cardinality(U) - 1
  <2>1. IsFiniteSet(U)
    BY NodeAssumption, FS_Subset, Zenon
  <2> QED BY <2>1, FS_CardinalityType, FS_RemoveElement, Zenon
<1> QED BY <1>1, <1>2, Zenon DEF Counting

\* The iterator reaches every ready transaction in every state.
THEOREM IteratorReachesAll == Spec => []IteratorYieldsAll
<1>1. IInv => IteratorYieldsAll
  BY CountingHolds, ClosedHoldsAll, Zenon DEF IteratorYieldsAll, yielded
<1> QED BY <1>1, PoolInvariant, PTL

\* The invariant that the proofs go through.
LEMMA NodeInvariant == NodeSpec => []NodeInv
<1>1. NodeInv /\ UNCHANGED <<config, all_vars>> => NodeInv'
  BY SameNode, Zenon DEF all_vars, node_vars
<1>2. NodeInv /\ [NodeNext]_<<config, all_vars>> => NodeInv'
  BY <1>1, CountingHolds, NextNodeInv, Zenon
<1> QED BY <1>2, NodeInitInv, PTL DEF NodeSpec

\* In a node whose clients submit raw transactions, the nonce of an independent
\* transaction is not ahead of its account, however submissions, replacements, blocks,
\* prunes, drops and changes of the mining mode interleave.
THEOREM IndependentAreIncludable == NodeSpec => []IndependentIncludable
<1>1. NodeInv => IndependentIncludable
  BY Zenon DEF NodeInv, OnlyRaw, PoolDue, Due, IndependentIncludable
<1> QED BY <1>1, NodeInvariant, PTL

\* In such a node, a transaction that a block reports as invalid has used up its nonce,
\* or the block had no room for an earlier one of its sender.
THEOREM InvalidAreStale == NodeSpec => []InvalidOnlyStale
<1>1. NodeInv => InvalidOnlyStale
  BY Zenon DEF NodeInv, OnlyRaw, Blocks, Block, Used, LeftOut, InvalidOnlyStale
<1> QED BY <1>1, NodeInvariant, PTL

\* The pool is consistent in the node as well: with the markers that required_marker
\* returns, with the markers of executed blocks, and with any interleaving of the two.
THEOREM PoolInNodeIsConsistent == NodeSpec => []PoolConsistent
<1>1. NodeInv => PoolConsistent
  BY Zenon DEF NodeInv, IInv
<1> QED BY <1>1, NodeInvariant, PTL

\* The miner's iterator over the ready transactions leaves none out, in every state of
\* the node.
THEOREM NodeIteratorReachesAll == NodeSpec => []IteratorYieldsAll
<1>1. NodeInv => IteratorYieldsAll
  BY CountingHolds, ClosedHoldsAll, Zenon DEF NodeInv, IteratorYieldsAll, yielded
<1> QED BY <1>1, NodeInvariant, PTL

\* And no step of the node loses a transaction of the pool on the way.
THEOREM NodeLosesNoTransaction == NodeSpec => LeavesForReason
<1>1. NodeInv /\ [NodeNext]_<<config, all_vars>> => [ForReason]_vars
  BY CountingHolds, NextNodeInv, Zenon DEF all_vars
<1> QED BY <1>1, NodeInvariant, PTL DEF NodeSpec, LeavesForReason

=============================================================================
