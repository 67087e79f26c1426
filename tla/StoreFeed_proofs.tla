-------------------------- MODULE StoreFeed_proofs --------------------------
(* What holds of EventStore, and then of LiveFeed, for every set of streams,   *)
(* payloads, queues and campaigns and for every bound: the two views of the    *)
(* history agree, subscribers receive in storage order and the store           *)
(* implements the abstract log.  The feed is one more user of the store, so    *)
(* that what is proved of every use holds of its queues; what reaches the      *)
(* clients follows from that.                                                  *)
EXTENDS LiveFeed, SequenceTheorems, TLAPS

-----------------------------------------------------------------------------
(* EventStore *)

\* A batch of append is a non-empty sequence of payloads.
LEMMA BatchType ==
    ASSUME NEW batch \in Batches
    PROVE  batch \in Seq(Payloads) /\ Len(batch) \in Nat \ {0}
<1>1. PICK n \in 1..MaxBatch : batch \in [1..n -> Payloads]
  BY BoundsAssumption DEF Batches
<1>. QED  BY <1>1

\* The stored events are events, numbered on from the ends of both lists.
LEMMA StampedType ==
    ASSUME TypeOK, NEW s \in Streams, NEW batch \in Batches
    PROVE  /\ Stamped(s, batch) \in Seq(Event)
           /\ Len(Stamped(s, batch)) = Len(batch)
           /\ \A i \in 1..Len(batch) :
                 /\ Stamped(s, batch)[i] \in Event
                 /\ Stamped(s, batch)[i].stream = s
                 /\ Stamped(s, batch)[i].version = Len(streams[s]) + i
                 /\ Stamped(s, batch)[i].sequence = Len(events) + i
                 /\ Stamped(s, batch)[i].payload = batch[i]
<1>1. batch \in Seq(Payloads) /\ Len(batch) \in Nat
  BY BatchType
<1>2. Len(streams[s]) \in Nat /\ Len(events) \in Nat
  BY DEF TypeOK
<1>3. \A i \in 1..Len(batch) : batch[i] \in Payloads
  BY <1>1, ElementOfSeq
<1>4. \A i \in 1..Len(batch) : Stamped(s, batch)[i] \in Event
  BY <1>1, <1>2, <1>3 DEF Stamped, Event
<1>. QED  BY <1>1, <1>2, <1>4 DEF Stamped

\* What concatenation does, element by element.
LEMMA ConcatEffect ==
    ASSUME NEW a \in Seq(Event), NEW b \in Seq(Event), NEW c, c = a \o b
    PROVE  /\ c \in Seq(Event)
           /\ Len(c) = Len(a) + Len(b)
           /\ \A i \in 1..Len(a) : c[i] = a[i]
           /\ \A i \in 1..Len(b) : c[Len(a) + i] = b[i]
OBVIOUS

\* What a committed batch makes of the two lists, element by element.
LEMMA StoreEffect ==
    ASSUME TypeOK, NEW s \in Streams, NEW batch \in Batches, Store(s, batch)
    PROVE  /\ events' \in Seq(Event)
           /\ streams' \in [Streams -> Seq(Event)]
           /\ Len(events') = Len(events) + Len(batch)
           /\ \A n \in 1..Len(events) : events'[n] = events[n]
           /\ \A i \in 1..Len(batch) : events'[Len(events) + i] = Stamped(s, batch)[i]
           /\ \A t \in Streams \ {s} : streams'[t] = streams[t]
           /\ Len(streams'[s]) = Len(streams[s]) + Len(batch)
           /\ \A v \in 1..Len(streams[s]) : streams'[s][v] = streams[s][v]
           /\ \A i \in 1..Len(batch) : streams'[s][Len(streams[s]) + i] = Stamped(s, batch)[i]
<1>. DEFINE st == Stamped(s, batch)
            old == streams[s]
<1>1. st \in Seq(Event)
  BY StampedType
<1>2. Len(st) = Len(batch)
  BY StampedType
<1>3. old \in Seq(Event)
  BY DEF TypeOK
<1>4. events \in Seq(Event)
  BY DEF TypeOK
<1>5. /\ events' \in Seq(Event) /\ Len(events') = Len(events) + Len(st)
      /\ \A n \in 1..Len(events) : events'[n] = events[n]
      /\ \A i \in 1..Len(st) : events'[Len(events) + i] = st[i]
  <2>1. events' = events \o st
    BY DEF Store
  <2>. HIDE DEF st
  <2>. QED  BY ConcatEffect, <1>1, <1>4, <2>1
<1>6. streams \in [Streams -> Seq(Event)] /\ streams' = [streams EXCEPT ![s] = old \o st]
  BY DEF TypeOK, Store
<1>7. /\ streams'[s] \in Seq(Event) /\ Len(streams'[s]) = Len(old) + Len(st)
      /\ \A v \in 1..Len(old) : streams'[s][v] = old[v]
      /\ \A i \in 1..Len(st) : streams'[s][Len(old) + i] = st[i]
  <2>1. streams'[s] = old \o st
    BY <1>6
  <2>. HIDE DEF st, old
  <2>. QED  BY ConcatEffect, <1>1, <1>3, <2>1
<1>8. /\ streams' \in [Streams -> Seq(Event)]
      /\ \A t \in Streams \ {s} : streams'[t] = streams[t]
  <2>. HIDE DEF st, old
  <2>. QED  BY <1>6, <1>7
<1>. QED  BY <1>2, <1>5, <1>7, <1>8

\* What a fan-out makes of the queues.
LEMMA DeliverEffect ==
    ASSUME TypeOK, NEW s \in Streams, NEW batch \in Batches,
           NEW got \in [Queues -> 0..Len(batch)],
           Deliver(Stamped(s, batch), got)
    PROVE  /\ queue' \in [Queues -> Seq(Event)]
           /\ \A q \in Queues \ subscribers : queue'[q] = queue[q]
           /\ \A q \in subscribers :
                 /\ Len(queue'[q]) = Len(queue[q]) + got[q]
                 /\ \A i \in 1..Len(queue[q]) : queue'[q][i] = queue[q][i]
                 /\ \A i \in 1..got[q] : queue'[q][Len(queue[q]) + i] = Stamped(s, batch)[i]
<1>. DEFINE st == Stamped(s, batch)
            new(q) == SubSeq(st, 1, got[q])
<1>1. /\ st \in Seq(Event) /\ Len(st) = Len(batch)
      /\ Len(batch) \in Nat
  BY StampedType, BatchType
<1>2. \A q \in Queues : /\ new(q) \in Seq(Event)
                        /\ Len(new(q)) = got[q]
                        /\ \A i \in 1..got[q] : new(q)[i] = st[i]
  <2>. HIDE DEF st
  <2>. QED  BY <1>1
<1>3. queue \in [Queues -> Seq(Event)] /\ subscribers \subseteq Queues
  BY DEF TypeOK
<1>4. queue' = [q \in Queues |-> IF q \in subscribers THEN queue[q] \o new(q) ELSE queue[q]]
  BY DEF Deliver
<1>5. ASSUME NEW q \in subscribers
      PROVE  /\ queue'[q] \in Seq(Event)
             /\ Len(queue'[q]) = Len(queue[q]) + got[q]
             /\ \A i \in 1..Len(queue[q]) : queue'[q][i] = queue[q][i]
             /\ \A i \in 1..got[q] : queue'[q][Len(queue[q]) + i] = st[i]
  <2>. DEFINE a == queue[q]
              b == new(q)
  <2>1. a \in Seq(Event)
    BY <1>3
  <2>2. b \in Seq(Event)
    BY <1>2, <1>3
  <2>3. queue'[q] = a \o b
    BY <1>3, <1>4
  <2>4. Len(b) = got[q] /\ \A i \in 1..got[q] : b[i] = st[i]
    BY <1>2, <1>3
  <2>. HIDE DEF a, b
  <2>5. /\ queue'[q] \in Seq(Event) /\ Len(queue'[q]) = Len(a) + Len(b)
        /\ \A i \in 1..Len(a) : queue'[q][i] = a[i]
        /\ \A i \in 1..Len(b) : queue'[q][Len(a) + i] = b[i]
    BY ConcatEffect, <2>1, <2>2, <2>3
  <2>. HIDE DEF st
  <2>. QED  BY <2>4, <2>5 DEF a
<1>6. \A q \in Queues \ subscribers : queue'[q] = queue[q]
  BY <1>4
<1>7. queue' \in [Queues -> Seq(Event)]
  BY <1>3, <1>4, <1>5, <1>6
<1>. QED  BY <1>5, <1>6, <1>7

-----------------------------------------------------------------------------
(* An append, as the invariant sees it: the batch is stored, every subscriber *)
(* is given a prefix of it, and what a subscriber is not given is recorded as *)
(* unoffered.  Both outcomes that store anything are of this form.            *)

Stored(s, batch, got) ==
    /\ Store(s, batch)
    /\ Deliver(Stamped(s, batch), got)
    /\ UNCHANGED <<receipts, subscribers, taken, since>>
    /\ unoffered' \in SUBSET (Nat \ {0})
    /\ unoffered \subseteq unoffered'
    /\ \A q \in subscribers : \A i \in 1..Len(batch) :
           i <= got[q] \/ Len(events) + i \in unoffered'

\* The two ways append stores a batch have a common shape: the batch enters both
\* lists, and each subscriber gets a prefix of it, whole or recorded as cut short.
LEMMA AppendStores ==
    ASSUME TypeOK, NEW s \in Streams, NEW expected, NEW batch \in Batches,
           AppendEvents(s, expected, batch) \/ AppendQueueFull(s, expected, batch)
    PROVE  \E got \in [Queues -> 0..Len(batch)] : Stored(s, batch, got)
<1>1. Len(batch) \in Nat \ {0} /\ Len(events) \in Nat /\ unoffered \in SUBSET (Nat \ {0})
  BY BatchType DEF TypeOK
<1>2. CASE AppendEvents(s, expected, batch)
  <2>. DEFINE got == [q \in Queues |-> Len(batch)]
  <2>1. got \in [Queues -> 0..Len(batch)]
    BY <1>1
  <2>2. \A q \in subscribers : \A i \in 1..Len(batch) : i <= got[q]
    BY <1>1 DEF TypeOK
  <2>3. Stored(s, batch, got)
    BY <1>1, <1>2, <2>2 DEF AppendEvents, Stored
  <2>. QED  BY <2>1, <2>3
<1>3. CASE AppendQueueFull(s, expected, batch)
  <2>1. PICK least \in 0..(Len(batch) - 1), before \in SUBSET subscribers :
           /\ StopsAfter(least, before)
           /\ Deliver(Stamped(s, batch),
                      [q \in Queues |-> IF q \in before THEN least + 1 ELSE least])
           /\ unoffered' = unoffered \cup {Len(events) + i : i \in (least + 1)..Len(batch)}
    BY <1>3 DEF AppendQueueFull
  <2>. DEFINE got == [q \in Queues |-> IF q \in before THEN least + 1 ELSE least]
  <2>2. got \in [Queues -> 0..Len(batch)]
    BY <1>1
  <2>3. unoffered' \in SUBSET (Nat \ {0}) /\ unoffered \subseteq unoffered'
    <3>1. \A i \in (least + 1)..Len(batch) : Len(events) + i \in Nat \ {0}
      BY <1>1
    <3>2. {Len(events) + i : i \in (least + 1)..Len(batch)} \subseteq Nat \ {0}
      BY <3>1, Zenon
    <3>. QED  BY <1>1, <2>1, <3>2, Zenon
  <2>4. ASSUME NEW q \in subscribers, NEW i \in 1..Len(batch), i > got[q]
        PROVE  Len(events) + i \in unoffered'
    <3>1. got[q] >= least
      BY <1>1 DEF TypeOK
    <3>2. i \in (least + 1)..Len(batch)
      BY <1>1, <2>2, <2>4, <3>1 DEF TypeOK
    <3>. QED  BY <2>1, <3>2
  <2>5. \A q \in subscribers : \A i \in 1..Len(batch) :
            i <= got[q] \/ Len(events) + i \in unoffered'
    <3>1. \A q \in subscribers : got[q] \in Nat
      BY <1>1, <2>2 DEF TypeOK
    <3>. HIDE DEF got
    <3>. QED  BY <1>1, <2>4, <3>1
  <2>6. Stored(s, batch, got)
    BY <1>3, <2>1, <2>3, <2>5 DEF AppendQueueFull, Stored
  <2>. HIDE DEF got
  <2>. QED  BY <2>2, <2>6
<1>. QED  BY <1>2, <1>3

-----------------------------------------------------------------------------
(* The inductive invariant.  DeliveredInOrder and NoSilentGap speak of events  *)
(* by sequence, so they need TwoViewsAgree: that the n-th event is number n.   *)

SinceInPast == \A q \in Queues : since[q] <= Len(events)

DroppedQueuesEmpty == \A q \in Queues \ subscribers : queue[q] = <<>> /\ taken[q] = <<>>

IInv == /\ TypeOK
        /\ TwoViewsAgree
        /\ StreamsInStorageOrder
        /\ SinceInPast
        /\ DroppedQueuesEmpty
        /\ DeliveredInOrder
        /\ NoSilentGap

\* The empty store satisfies the inductive invariant.
LEMMA InitInv == Init => IInv
<1>. SUFFICES ASSUME Init PROVE IInv
  OBVIOUS
<1>1. TypeOK
  BY DEF Init, TypeOK
<1>2. TwoViewsAgree
  BY DEF Init, TwoViewsAgree
<1>3. StreamsInStorageOrder
  BY DEF Init, StreamsInStorageOrder
<1>4. DeliveredInOrder /\ NoSilentGap
  BY DEF Init, DeliveredInOrder, NoSilentGap
<1>5. SinceInPast
  BY DEF Init, SinceInPast
<1>6. DroppedQueuesEmpty
  BY DEF Init, DroppedQueuesEmpty
<1>. QED  BY <1>1, <1>2, <1>3, <1>4, <1>5, <1>6 DEF IInv

\* Both views of the history take a new batch in the same way.
LEMMA StoredViews ==
    ASSUME TypeOK, TwoViewsAgree, StreamsInStorageOrder,
           NEW s \in Streams, NEW batch \in Batches, Store(s, batch)
    PROVE  TwoViewsAgree' /\ StreamsInStorageOrder'
<1>. DEFINE st == Stamped(s, batch)
            m == Len(events)
            k == Len(streams[s])
<1>1. m \in Nat /\ k \in Nat /\ Len(batch) \in Nat \ {0}
  BY BatchType DEF TypeOK
<1>2. /\ events' \in Seq(Event)
      /\ streams' \in [Streams -> Seq(Event)]
      /\ Len(events') = m + Len(batch)
      /\ \A n \in 1..m : events'[n] = events[n]
      /\ \A i \in 1..Len(batch) : events'[m + i] = st[i]
      /\ \A t \in Streams \ {s} : streams'[t] = streams[t]
      /\ Len(streams'[s]) = k + Len(batch)
      /\ \A v \in 1..k : streams'[s][v] = streams[s][v]
      /\ \A i \in 1..Len(batch) : streams'[s][k + i] = st[i]
  BY StoreEffect
<1>3. \A i \in 1..Len(batch) : /\ st[i].stream = s
                               /\ st[i].version = k + i
                               /\ st[i].sequence = m + i
  BY StampedType
<1>4. events \in Seq(Event) /\ streams \in [Streams -> Seq(Event)]
  BY DEF TypeOK
<1>. HIDE DEF st
<1>5. ASSUME NEW n \in DOMAIN events'
      PROVE  LET e == events'[n] IN
                 /\ e.sequence = n
                 /\ e.version \in DOMAIN streams'[e.stream]
                 /\ streams'[e.stream][e.version] = e
  <2>1. CASE n \in 1..m
    <3>. DEFINE e == events[n]
    <3>1. events'[n] = e /\ e \in Event
      BY <1>2, <1>4, <2>1
    <3>2. e.sequence = n /\ e.version \in DOMAIN streams[e.stream] /\ streams[e.stream][e.version] = e
      BY <1>4, <2>1 DEF TwoViewsAgree
    <3>3. e.stream \in Streams
      BY <3>1 DEF Event
    <3>. HIDE DEF e
    <3>4. CASE e.stream = s
      <4>1. e.version \in 1..k
        BY <1>4, <3>2, <3>4
      <4>2. e.version \in DOMAIN streams'[s]
        BY <1>1, <1>2, <4>1
      <4>3. streams'[s][e.version] = e
        BY <1>2, <3>2, <3>4, <4>1
      <4>. QED  BY <3>1, <3>2, <3>4, <4>2, <4>3
    <3>5. CASE e.stream # s
      BY <1>2, <1>4, <3>1, <3>2, <3>3, <3>5
    <3>. QED  BY <3>4, <3>5
  <2>2. CASE n \in (m + 1)..(m + Len(batch))
    <3>1. PICK i \in 1..Len(batch) : n = m + i
      <4>1. n - m \in 1..Len(batch) /\ n = m + (n - m)
        BY <1>1, <2>2
      <4>. QED  BY <4>1
    <3>2. events'[n] = st[i]
      BY <1>2, <3>1
    <3>. QED  BY <1>1, <1>2, <1>3, <3>1, <3>2, SMTT(30)
  <2>3. n \in 1..(m + Len(batch))
    BY <1>2
  <2>. QED  BY <1>1, <2>1, <2>2, <2>3
<1>6. ASSUME NEW t \in Streams, NEW v \in DOMAIN streams'[t]
      PROVE  LET e == streams'[t][v] IN
                 /\ e.stream = t
                 /\ e.version = v
                 /\ e.sequence \in DOMAIN events'
                 /\ events'[e.sequence] = e
  <2>1. CASE t # s \/ v \in 1..k
    <3>1. streams'[t][v] = streams[t][v] /\ v \in DOMAIN streams[t]
      BY <1>1, <1>2, <1>4, <2>1
    <3>. DEFINE e == streams[t][v]
    <3>2. /\ e.stream = t /\ e.version = v
          /\ e.sequence \in DOMAIN events /\ events[e.sequence] = e
      BY <3>1 DEF TwoViewsAgree
    <3>. HIDE DEF e
    <3>3. e.sequence \in DOMAIN events' /\ events'[e.sequence] = e
      <4>1. e.sequence \in 1..m
        BY <1>4, <3>2
      <4>2. e.sequence \in 1..(m + Len(batch))
        BY <1>1, <4>1
      <4>. QED  BY <1>2, <3>2, <4>1, <4>2
    <3>. QED  BY <3>1, <3>2, <3>3 DEF e
  <2>2. CASE t = s /\ v \in (k + 1)..(k + Len(batch))
    <3>1. PICK i \in 1..Len(batch) : v = k + i
      <4>1. v - k \in 1..Len(batch) /\ v = k + (v - k)
        BY <1>1, <2>2
      <4>. QED  BY <4>1
    <3>2. streams'[t][v] = st[i]
      BY <1>2, <2>2, <3>1
    <3>. QED  BY <1>1, <1>2, <1>3, <2>2, <3>1, <3>2
  <2>3. t = s => v \in 1..(k + Len(batch))
    BY <1>2
  <2>. QED  BY <1>1, <2>1, <2>2, <2>3
<1>7. ASSUME NEW t \in Streams, NEW v \in DOMAIN streams'[t], NEW w \in DOMAIN streams'[t], v < w
      PROVE  streams'[t][v].sequence < streams'[t][w].sequence
  <2>1. CASE t # s
    BY <1>2, <1>7, <2>1 DEF StreamsInStorageOrder
  <2>2. CASE t = s
    <3>1. v \in 1..(k + Len(batch)) /\ w \in 1..(k + Len(batch))
      BY <1>2, <2>2
    <3>2. \A j \in 1..k : /\ streams'[s][j] = streams[s][j]
                          /\ j \in DOMAIN streams[s]
                          /\ streams[s][j].sequence \in 1..m
      BY <1>1, <1>2, <1>4 DEF TwoViewsAgree
    <3>3. \A j \in (k + 1)..(k + Len(batch)) : streams'[s][j].sequence = m + (j - k)
      <4>. TAKE j \in (k + 1)..(k + Len(batch))
      <4>1. j - k \in 1..Len(batch) /\ j = k + (j - k)
        BY <1>1
      <4>2. streams'[s][k + (j - k)] = st[j - k]
        BY <1>2, <4>1
      <4>3. st[j - k].sequence = m + (j - k)
        BY <1>3, <4>1
      <4>. QED  BY <4>1, <4>2, <4>3
    <3>4. CASE w \in 1..k
      <4>1. v \in 1..k
        BY <1>1, <1>7, <3>1, <3>4
      <4>. QED  BY <1>7, <2>2, <3>2, <3>4, <4>1 DEF StreamsInStorageOrder
    <3>5. CASE w \notin 1..k /\ v \in 1..k
      <4>1. w \in (k + 1)..(k + Len(batch))
        BY <1>1, <3>1, <3>5
      <4>2. streams'[s][w].sequence = m + (w - k)
        BY <3>3, <4>1
      <4>3. streams'[s][v].sequence \in 1..m
        BY <3>2, <3>5
      <4>. QED  BY <1>1, <2>2, <4>1, <4>2, <4>3
    <3>6. CASE v \notin 1..k
      <4>1. v \in (k + 1)..(k + Len(batch)) /\ w \in (k + 1)..(k + Len(batch))
        BY <1>1, <1>7, <3>1, <3>6
      <4>2. streams'[s][v].sequence = m + (v - k) /\ streams'[s][w].sequence = m + (w - k)
        BY <3>3, <4>1
      <4>. QED  BY <1>1, <1>7, <2>2, <4>1, <4>2
    <3>. QED  BY <3>4, <3>5, <3>6
  <2>. QED  BY <2>1, <2>2
<1>8. TwoViewsAgree'
  BY <1>5, <1>6 DEF TwoViewsAgree
<1>. QED  BY <1>7, <1>8 DEF StreamsInStorageOrder

\* A subscriber's reception after the fan-out: what it had, and a prefix of the
\* new events.
LEMMA StoredReception ==
    ASSUME TypeOK, NEW s \in Streams, NEW batch \in Batches,
           NEW got \in [Queues -> 0..Len(batch)], Stored(s, batch, got),
           NEW q \in subscribers
    PROVE  /\ Received(q) \in Seq(Event)
           /\ Received(q)' \in Seq(Event)
           /\ Len(Received(q)') = Len(Received(q)) + got[q]
           /\ \A i \in 1..Len(Received(q)) : Received(q)'[i] = Received(q)[i]
           /\ \A i \in 1..got[q] :
                 Received(q)'[Len(Received(q)) + i] = Stamped(s, batch)[i]
<1>. DEFINE a == taken[q]
            b == queue[q]
            c == queue'[q]
            st == Stamped(s, batch)
            g == got[q]
<1>1. a \in Seq(Event) /\ b \in Seq(Event)
  BY DEF TypeOK
<1>0. Deliver(Stamped(s, batch), got)
  BY DEF Stored
<1>2. c \in Seq(Event)
  BY <1>0, DeliverEffect DEF TypeOK
<1>3. /\ Len(c) = Len(b) + g
      /\ \A i \in 1..Len(b) : c[i] = b[i]
      /\ \A i \in 1..g : c[Len(b) + i] = st[i]
  BY <1>0, DeliverEffect
<1>4. Received(q) = a \o b /\ Received(q)' = a \o c
  BY DEF Received, Stored
<1>5. g \in Nat
  BY BatchType DEF TypeOK
<1>. HIDE DEF a, b, c, st, g
<1>6. /\ Received(q) \in Seq(Event)
      /\ Len(Received(q)) = Len(a) + Len(b)
      /\ \A i \in 1..Len(a) : Received(q)[i] = a[i]
      /\ \A i \in 1..Len(b) : Received(q)[Len(a) + i] = b[i]
  BY ConcatEffect, <1>1, <1>4
<1>. DEFINE r == Received(q)'
<1>7. r = a \o c
  BY <1>4
<1>. HIDE DEF r
<1>8. /\ r \in Seq(Event)
      /\ Len(r) = Len(a) + Len(c)
      /\ \A i \in 1..Len(a) : r[i] = a[i]
      /\ \A i \in 1..Len(c) : r[Len(a) + i] = c[i]
  BY ConcatEffect, <1>1, <1>2, <1>7
<1>9. Len(a) \in Nat /\ Len(b) \in Nat /\ Len(c) \in Nat
  BY <1>1, <1>2
<1>10. Len(r) = Len(Received(q)) + g
  BY <1>3, <1>5, <1>6, <1>8, <1>9
<1>11. ASSUME NEW i \in 1..Len(Received(q))
       PROVE  r[i] = Received(q)[i]
  <2>1. CASE i \in 1..Len(a)
    BY <1>6, <1>8, <2>1
  <2>2. CASE i \notin 1..Len(a)
    <3>1. i - Len(a) \in 1..Len(b) /\ i = Len(a) + (i - Len(a))
      BY <1>6, <1>9, <2>2
    <3>2. i - Len(a) \in 1..Len(c)
      BY <1>3, <1>5, <1>9, <3>1
    <3>3. r[Len(a) + (i - Len(a))] = c[i - Len(a)]
      BY <1>8, <3>2
    <3>4. Received(q)[Len(a) + (i - Len(a))] = b[i - Len(a)]
      BY <1>6, <3>1
    <3>5. c[i - Len(a)] = b[i - Len(a)]
      BY <1>3, <3>1
    <3>. QED  BY <3>1, <3>3, <3>4, <3>5
  <2>. QED  BY <2>1, <2>2
<1>12. ASSUME NEW i \in 1..g
       PROVE  r[Len(Received(q)) + i] = st[i]
  <2>1. Len(b) + i \in 1..Len(c)
    BY <1>3, <1>5, <1>9
  <2>2. r[Len(a) + (Len(b) + i)] = c[Len(b) + i]
    BY <1>8, <2>1
  <2>3. Len(Received(q)) + i = Len(a) + (Len(b) + i)
    BY <1>5, <1>6, <1>9
  <2>. QED  BY <1>3, <2>2, <2>3
<1>. QED  BY <1>6, <1>8, <1>10, <1>11, <1>12 DEF r, g, st

\* Delivery stays in order, and without an unrecorded gap, after a fan-out.
LEMMA StoredDelivery ==
    ASSUME IInv, NEW s \in Streams, NEW batch \in Batches,
           NEW got \in [Queues -> 0..Len(batch)], Stored(s, batch, got)
    PROVE  DeliveredInOrder' /\ NoSilentGap'
<1>. DEFINE m == Len(events)
            st == Stamped(s, batch)
<1>1. TypeOK
  BY DEF IInv
<1>2. m \in Nat /\ Len(batch) \in Nat \ {0}
  BY <1>1, BatchType DEF TypeOK
<1>3. /\ Len(events') = m + Len(batch)
      /\ \A n \in 1..m : events'[n] = events[n]
      /\ \A i \in 1..Len(batch) : events'[m + i] = st[i]
  BY <1>1, StoreEffect DEF Stored
<1>4. \A i \in 1..Len(batch) : st[i].sequence = m + i
  BY <1>1, StampedType
<1>5. subscribers' = subscribers /\ since' = since
  BY DEF Stored
<1>6. ASSUME NEW q \in subscribers
      PROVE  /\ \A i \in DOMAIN Received(q)' :
                    /\ Received(q)'[i].sequence \in (since[q] + 1)..(m + Len(batch))
                    /\ events'[Received(q)'[i].sequence] = Received(q)'[i]
             /\ \A i, j \in DOMAIN Received(q)' :
                    i < j => Received(q)'[i].sequence < Received(q)'[j].sequence
             /\ \A n \in (since[q] + 1)..(m + Len(batch)) :
                    \/ n \in unoffered'
                    \/ \E i \in DOMAIN Received(q)' : Received(q)'[i].sequence = n
  <2>. DEFINE old == Received(q)
              new == Received(q)'
              g == got[q]
  <2>1. /\ old \in Seq(Event)
        /\ new \in Seq(Event)
        /\ Len(new) = Len(old) + g
        /\ \A i \in 1..Len(old) : new[i] = old[i]
        /\ \A i \in 1..g : new[Len(old) + i] = st[i]
    BY <1>1, StoredReception
  <2>2. g \in 0..Len(batch) /\ since[q] \in Nat
    BY <1>1 DEF TypeOK
  <2>3. /\ \A i \in DOMAIN old : /\ old[i].sequence \in (since[q] + 1)..m
                                 /\ events[old[i].sequence] = old[i]
        /\ \A i, j \in DOMAIN old : i < j => old[i].sequence < old[j].sequence
    BY DEF IInv, DeliveredInOrder
  <2>4. \A n \in (since[q] + 1)..m : n \in unoffered \/ \E i \in DOMAIN old : old[i].sequence = n
    BY DEF IInv, NoSilentGap
  <2>5. /\ unoffered \subseteq unoffered'
        /\ \A i \in 1..Len(batch) : i <= g \/ m + i \in unoffered'
    BY DEF Stored
  <2>6. since[q] <= m
    BY <1>1 DEF IInv, SinceInPast, TypeOK
  <2>. HIDE DEF old, new, g, st
  <2>7. DOMAIN old = 1..Len(old) /\ DOMAIN new = 1..(Len(old) + g) /\ Len(old) \in Nat
    BY <2>1
  <2>8. ASSUME NEW i \in 1..Len(old)
        PROVE  /\ new[i] = old[i]
               /\ new[i].sequence \in (since[q] + 1)..m
               /\ events'[new[i].sequence] = new[i]
    <3>1. new[i] = old[i] /\ old[i].sequence \in (since[q] + 1)..m /\ events[old[i].sequence] = old[i]
      BY <2>1, <2>3, <2>7
    <3>2. old[i].sequence \in 1..m
      BY <1>2, <2>2, <3>1
    <3>. QED  BY <1>3, <3>1, <3>2
  <2>9. ASSUME NEW i \in 1..g
        PROVE  /\ new[Len(old) + i].sequence = m + i
               /\ events'[m + i] = new[Len(old) + i]
    <3>1. i \in 1..Len(batch)
      BY <1>2, <2>2
    <3>. QED  BY <1>3, <1>4, <2>1, <3>1
  <2>10. \A i \in DOMAIN new : i \in 1..Len(old) \/ (i - Len(old) \in 1..g /\ i = Len(old) + (i - Len(old)))
    BY <1>2, <2>2, <2>7
  <2>11. ASSUME NEW i \in DOMAIN new
         PROVE  /\ new[i].sequence \in (since[q] + 1)..(m + Len(batch))
                /\ events'[new[i].sequence] = new[i]
    <3>1. CASE i \in 1..Len(old)
      BY <1>2, <2>2, <2>8, <3>1
    <3>2. CASE i - Len(old) \in 1..g /\ i = Len(old) + (i - Len(old))
      <4>1. new[i].sequence = m + (i - Len(old)) /\ events'[m + (i - Len(old))] = new[i]
        BY <2>9, <3>2
      <4>2. i - Len(old) \in 1..Len(batch)
        BY <1>2, <2>2, <3>2
      <4>. QED  BY <1>2, <2>2, <2>6, <4>1, <4>2
    <3>. QED  BY <2>10, <3>1, <3>2
  <2>12. ASSUME NEW i \in DOMAIN new, NEW j \in DOMAIN new, i < j
         PROVE  new[i].sequence < new[j].sequence
    <3>1. CASE j \in 1..Len(old)
      <4>1. i \in 1..Len(old)
        BY <2>7, <2>12, <3>1
      <4>. QED  BY <2>3, <2>7, <2>8, <2>12, <3>1, <4>1
    <3>2. CASE i \in 1..Len(old) /\ j \notin 1..Len(old)
      <4>1. j - Len(old) \in 1..g /\ new[j].sequence = m + (j - Len(old))
        BY <2>9, <2>10, <3>2
      <4>2. new[i].sequence \in (since[q] + 1)..m
        BY <2>8, <3>2
      <4>. QED  BY <1>2, <2>2, <4>1, <4>2
    <3>3. CASE i \notin 1..Len(old)
      <4>1. j \notin 1..Len(old)
        BY <2>7, <2>12, <3>3
      <4>2. new[i].sequence = m + (i - Len(old)) /\ new[j].sequence = m + (j - Len(old))
        BY <2>9, <2>10, <3>3, <4>1
      <4>. QED  BY <1>2, <2>7, <2>12, <4>2
    <3>. QED  BY <3>1, <3>2, <3>3
  <2>13. ASSUME NEW n \in (since[q] + 1)..(m + Len(batch))
         PROVE  n \in unoffered' \/ \E i \in DOMAIN new : new[i].sequence = n
    <3>1. CASE n \in (since[q] + 1)..m
      <4>1. CASE n \in unoffered
        BY <2>5, <4>1
      <4>2. ASSUME NEW i \in DOMAIN old, old[i].sequence = n
            PROVE  i \in DOMAIN new /\ new[i].sequence = n
        BY <2>2, <2>7, <2>8, <4>2
      <4>. QED  BY <2>4, <3>1, <4>1, <4>2
    <3>2. CASE n \notin (since[q] + 1)..m
      <4>1. n - m \in 1..Len(batch) /\ n = m + (n - m)
        BY <1>2, <2>2, <3>2
      <4>2. CASE n - m <= g
        <5>1. n - m \in 1..g /\ Len(old) + (n - m) \in DOMAIN new
          BY <1>2, <2>2, <2>7, <4>1, <4>2
        <5>2. new[Len(old) + (n - m)].sequence = m + (n - m)
          BY <2>9, <5>1
        <5>. QED  BY <4>1, <5>1, <5>2
      <4>3. CASE ~(n - m <= g)
        BY <2>5, <4>1, <4>3
      <4>. QED  BY <4>2, <4>3
    <3>. QED  BY <3>1, <3>2
  <2>. QED  BY <2>11, <2>12, <2>13 DEF new
<1>7. DeliveredInOrder'
  BY <1>3, <1>5, <1>6 DEF DeliveredInOrder
<1>8. NoSilentGap'
  BY <1>3, <1>5, <1>6 DEF NoSilentGap
<1>. QED  BY <1>7, <1>8

\* An append that stores its batch, QueueFull or not, preserves the invariant.
LEMMA StoredInv ==
    ASSUME IInv, NEW s \in Streams, NEW batch \in Batches,
           NEW got \in [Queues -> 0..Len(batch)], Stored(s, batch, got)
    PROVE  IInv'
<1>1. TypeOK /\ TwoViewsAgree /\ StreamsInStorageOrder /\ SinceInPast
  BY DEF IInv
<1>2. Store(s, batch) /\ Deliver(Stamped(s, batch), got)
  BY DEF Stored
<1>3. TypeOK'
  <2>1. events' \in Seq(Event) /\ streams' \in [Streams -> Seq(Event)]
    BY <1>1, <1>2, StoreEffect
  <2>2. queue' \in [Queues -> Seq(Event)]
    BY <1>1, <1>2, DeliverEffect
  <2>. QED  BY <1>1, <2>1, <2>2 DEF Stored, TypeOK
<1>4. TwoViewsAgree' /\ StreamsInStorageOrder'
  BY <1>1, <1>2, StoredViews
<1>5. SinceInPast'
  <2>1. Len(events') = Len(events) + Len(batch) /\ Len(batch) \in Nat
    BY <1>1, <1>2, StoreEffect, BatchType
  <2>. QED  BY <1>1, <2>1 DEF SinceInPast, Stored, TypeOK
<1>6. DeliveredInOrder' /\ NoSilentGap'
  BY StoredDelivery
<1>7. DroppedQueuesEmpty'
  <2>1. \A q \in Queues \ subscribers : queue'[q] = queue[q]
    BY <1>1, <1>2, DeliverEffect
  <2>. QED  BY <2>1 DEF IInv, DroppedQueuesEmpty, Stored
<1>. QED  BY <1>3, <1>4, <1>5, <1>6, <1>7 DEF IInv

-----------------------------------------------------------------------------
(* The steps that store nothing. *)

\* What is said of the two lists alone survives a step that leaves them alone.
LEMMA SameHistory ==
    ASSUME IInv, UNCHANGED <<events, streams>>
    PROVE  TwoViewsAgree' /\ StreamsInStorageOrder'
BY DEF IInv, TwoViewsAgree, StreamsInStorageOrder

\* If the history, the record of cut fan-outs and what the subscribers received
\* are as they were, so is the delivery.
LEMMA SameReception ==
    ASSUME IInv, UNCHANGED <<events, unoffered>>,
           \A q \in subscribers' : /\ q \in subscribers
                                   /\ since'[q] = since[q]
                                   /\ Received(q)' = Received(q)
    PROVE  DeliveredInOrder' /\ NoSilentGap'
<1>1. DeliveredInOrder'
  BY DEF IInv, DeliveredInOrder
<1>2. NoSilentGap'
  BY DEF IInv, NoSilentGap
<1>. QED  BY <1>1, <1>2

\* A new subscriber has received nothing, and nothing newer than it is stored.
LEMMA SubscribeInv ==
    ASSUME IInv, NEW q \in Queues, Subscribe(q), queue[q] = <<>>, taken[q] = <<>>
    PROVE  TypeOK' /\ SinceInPast' /\ DeliveredInOrder' /\ NoSilentGap'
<1>1. TypeOK
  BY DEF IInv
<1>2. TypeOK'
  BY <1>1 DEF Subscribe, TypeOK, storeVars
<1>3. SinceInPast'
  BY <1>1 DEF IInv, Subscribe, SinceInPast, TypeOK, storeVars
<1>4. /\ UNCHANGED <<events, unoffered>>
      /\ subscribers' = subscribers \cup {q}
      /\ since'[q] = Len(events)
      /\ \A p \in Queues \ {q} : since'[p] = since[p]
      /\ \A p \in Queues : Received(p)' = Received(p)
  BY <1>1 DEF Subscribe, TypeOK, Received, storeVars
<1>5. Received(q) = <<>>
  BY DEF Received
<1>6. Len(events) \in Nat
  BY <1>1 DEF TypeOK
<1>7. \A p \in subscribers' : p = q \/ (p \in subscribers /\ p \in Queues \ {q})
  BY <1>1, <1>4 DEF TypeOK
<1>8. DeliveredInOrder'
  <2>. SUFFICES ASSUME NEW p \in subscribers'
                PROVE  /\ \A i \in DOMAIN Received(p)' :
                             /\ Received(p)'[i].sequence \in (since'[p] + 1)..Len(events)
                             /\ events[Received(p)'[i].sequence] = Received(p)'[i]
                       /\ \A i, j \in DOMAIN Received(p)' :
                             i < j => Received(p)'[i].sequence < Received(p)'[j].sequence
    BY <1>4 DEF DeliveredInOrder
  <2>1. CASE p = q
    BY <1>4, <1>5, <2>1
  <2>2. CASE p \in subscribers /\ p \in Queues \ {q}
    BY <1>4, <2>2 DEF IInv, DeliveredInOrder
  <2>. QED  BY <1>7, <2>1, <2>2
<1>9. NoSilentGap'
  <2>. SUFFICES ASSUME NEW p \in subscribers', NEW n \in (since'[p] + 1)..Len(events)
                PROVE  n \in unoffered \/ \E i \in DOMAIN Received(p)' : Received(p)'[i].sequence = n
    BY <1>4 DEF NoSilentGap
  <2>1. CASE p = q
    BY <1>4, <1>6, <2>1
  <2>2. CASE p \in subscribers /\ p \in Queues \ {q}
    BY <1>4, <2>2 DEF IInv, NoSilentGap
  <2>. QED  BY <1>7, <2>1, <2>2
<1>. QED  BY <1>2, <1>3, <1>8, <1>9

\* Taking moves the oldest event of the queue to the end of what was taken.
LEMMA TakeReception ==
    ASSUME TypeOK, NEW q \in Queues, Take(q)
    PROVE  /\ queue' \in [Queues -> Seq(Event)] /\ taken' \in [Queues -> Seq(Event)]
           /\ \A p \in Queues : Received(p)' = Received(p)
<1>. DEFINE a == taken[q]
            b == queue[q]
<1>1. /\ a \in Seq(Event) /\ b \in Seq(Event) /\ b # <<>>
      /\ queue \in [Queues -> Seq(Event)] /\ taken \in [Queues -> Seq(Event)]
  BY DEF TypeOK, Take
<1>2. /\ taken' = [taken EXCEPT ![q] = Append(a, Head(b))]
      /\ queue' = [queue EXCEPT ![q] = Tail(b)]
  BY DEF Take
<1>. HIDE DEF a, b
<1>3. /\ Append(a, Head(b)) \in Seq(Event) /\ Tail(b) \in Seq(Event)
      /\ Append(a, Head(b)) \o Tail(b) = a \o b
  BY <1>1
<1>4. Received(q)' = Received(q)
  BY <1>1, <1>2, <1>3 DEF Received, a, b
<1>5. \A p \in Queues \ {q} : Received(p)' = Received(p)
  BY <1>1, <1>2 DEF Received
<1>. QED  BY <1>1, <1>2, <1>3, <1>4, <1>5

\* The inductive step: one case for each operation of the store.
LEMMA NextInv == IInv /\ [Next]_vars => IInv'
<1>. SUFFICES ASSUME IInv, [Next]_vars PROVE IInv'
  OBVIOUS
<1>1. TypeOK
  BY DEF IInv
<1>2. ASSUME NEW s \in Streams, NEW expected, NEW batch \in Batches,
             AppendEvents(s, expected, batch) \/ AppendQueueFull(s, expected, batch)
      PROVE  IInv'
  BY <1>1, <1>2, AppendStores, StoredInv
<1>3. CASE UNCHANGED vars
  BY <1>3 DEF IInv, TypeOK, TwoViewsAgree, StreamsInStorageOrder, SinceInPast,
              DroppedQueuesEmpty, DeliveredInOrder, NoSilentGap, Received, vars
<1>4. ASSUME NEW s \in Streams, NEW expected, AppendConflict(s, expected)
      PROVE  IInv'
  BY <1>3, <1>4 DEF AppendConflict
<1>5. ASSUME NEW k \in Keys, NEW r \in Receipts, SaveReceipt(k, r)
      PROVE  IInv'
  <2>1. TypeOK'
    BY <1>1, <1>5 DEF SaveReceipt, feedVars, TypeOK
  <2>2. TwoViewsAgree' /\ StreamsInStorageOrder'
    BY <1>5, SameHistory DEF SaveReceipt
  <2>3. SinceInPast' /\ DroppedQueuesEmpty'
    BY <1>5 DEF IInv, SaveReceipt, feedVars, SinceInPast, DroppedQueuesEmpty
  <2>4. DeliveredInOrder' /\ NoSilentGap'
    BY <1>5, SameReception DEF SaveReceipt, feedVars, Received
  <2>. QED  BY <2>1, <2>2, <2>3, <2>4 DEF IInv
<1>6. ASSUME NEW q \in Queues, Subscribe(q)
      PROVE  IInv'
  <2>1. queue[q] = <<>> /\ taken[q] = <<>>
    BY <1>6 DEF IInv, DroppedQueuesEmpty, Subscribe
  <2>2. TypeOK' /\ SinceInPast' /\ DeliveredInOrder' /\ NoSilentGap'
    BY <1>6, <2>1, SubscribeInv
  <2>3. TwoViewsAgree' /\ StreamsInStorageOrder'
    BY <1>6, SameHistory DEF Subscribe, storeVars
  <2>4. DroppedQueuesEmpty'
    BY <1>6 DEF IInv, DroppedQueuesEmpty, Subscribe
  <2>. QED  BY <2>2, <2>3, <2>4 DEF IInv
<1>7. ASSUME NEW q \in Queues, Unsubscribe(q)
      PROVE  IInv'
  <2>1. TypeOK'
    BY <1>1, <1>7 DEF Unsubscribe, storeVars, TypeOK
  <2>2. TwoViewsAgree' /\ StreamsInStorageOrder'
    BY <1>7, SameHistory DEF Unsubscribe, storeVars
  <2>3. SinceInPast'
    BY <1>1, <1>7 DEF IInv, Unsubscribe, storeVars, SinceInPast, TypeOK
  <2>4. DroppedQueuesEmpty'
    BY <1>1, <1>7 DEF IInv, Unsubscribe, DroppedQueuesEmpty, TypeOK
  <2>5. \A p \in subscribers' : /\ p \in subscribers
                                /\ since'[p] = since[p]
                                /\ Received(p)' = Received(p)
    BY <1>1, <1>7 DEF Unsubscribe, Received, TypeOK
  <2>6. DeliveredInOrder' /\ NoSilentGap'
    BY <1>7, <2>5, SameReception DEF Unsubscribe, storeVars
  <2>. QED  BY <2>1, <2>2, <2>3, <2>4, <2>6 DEF IInv
<1>8. ASSUME NEW q \in Queues, Take(q)
      PROVE  IInv'
  <2>1. /\ queue' \in [Queues -> Seq(Event)] /\ taken' \in [Queues -> Seq(Event)]
        /\ \A p \in Queues : Received(p)' = Received(p)
    BY <1>1, <1>8, TakeReception
  <2>2. TypeOK'
    BY <1>1, <1>8, <2>1 DEF Take, storeVars, TypeOK
  <2>3. TwoViewsAgree' /\ StreamsInStorageOrder'
    BY <1>8, SameHistory DEF Take, storeVars
  <2>4. SinceInPast'
    BY <1>8 DEF IInv, Take, storeVars, SinceInPast
  <2>5. DroppedQueuesEmpty'
    BY <1>1, <1>8 DEF IInv, Take, DroppedQueuesEmpty, TypeOK
  <2>6. DeliveredInOrder' /\ NoSilentGap'
    <3>1. \A p \in subscribers' : /\ p \in subscribers
                                  /\ since'[p] = since[p]
                                  /\ Received(p)' = Received(p)
      BY <1>1, <1>8, <2>1 DEF Take, TypeOK
    <3>. QED  BY <1>8, <3>1, SameReception DEF Take, storeVars
  <2>. QED  BY <2>2, <2>3, <2>4, <2>5, <2>6 DEF IInv
<1>. QED  BY <1>2, <1>3, <1>4, <1>5, <1>6, <1>7, <1>8 DEF Next, AppendCall

\* Every state of the store satisfies the inductive invariant.
THEOREM Invariant == Spec => []IInv
BY InitInv, NextInv, PTL DEF Spec

\* The state has its type: every event stored, queued or taken is a numbered
\* event of a known stream.
THEOREM TypeCorrect == Spec => []TypeOK
<1>1. IInv => TypeOK
  BY DEF IInv
<1>. QED  BY <1>1, Invariant, PTL

\* append numbers events in their stream and in the store from two independent
\* lengths; the two numberings never come apart, and agree on the order.
THEOREM HistoryConsistent == Spec => [](TwoViewsAgree /\ StreamsInStorageOrder)
<1>1. IInv => TwoViewsAgree /\ StreamsInStorageOrder
  BY DEF IInv
<1>. QED  BY <1>1, Invariant, PTL

\* Whatever appends raise and in whatever order the set of subscribers is walked,
\* a subscriber receives stored events, each once, in storage order.
THEOREM DeliveryOrdered == Spec => []DeliveredInOrder
<1>1. IInv => DeliveredInOrder
  BY DEF IInv
<1>. QED  BY <1>1, Invariant, PTL

\* A subscriber can only miss an event whose fan-out QueueFull cut short.
THEOREM GapsAreOverflows == Spec => []NoSilentGap
<1>1. IInv => NoSilentGap
  BY DEF IInv
<1>. QED  BY <1>1, Invariant, PTL

-----------------------------------------------------------------------------
(* Refinement. *)

LogEntry == [stream: Streams, version: Nat \ {0}, payload: Payloads]

\* A sequence whose elements are those of s and then those of t is their concatenation.
LEMMA ConcatRecognised ==
    ASSUME NEW a \in Seq(LogEntry), NEW b \in Seq(LogEntry), NEW c \in Seq(LogEntry),
           Len(c) = Len(a) + Len(b),
           \A i \in 1..Len(a) : c[i] = a[i],
           \A i \in 1..Len(b) : c[Len(a) + i] = b[i]
    PROVE  c = a \o b
<1>1. a \o b \in Seq(LogEntry) /\ Len(a \o b) = Len(c)
  OBVIOUS
<1>2. ASSUME NEW n \in 1..Len(c) PROVE c[n] = (a \o b)[n]
  <2>1. CASE n \in 1..Len(a)
    BY <2>1
  <2>2. CASE n \notin 1..Len(a)
    <3>1. n - Len(a) \in 1..Len(b) /\ n = Len(a) + (n - Len(a))
      BY <2>2
    <3>2. c[n] = b[n - Len(a)]
      BY <3>1
    <3>. QED  BY <2>2, <3>1, <3>2
  <2>. QED  BY <2>1, <2>2
<1>. QED  BY <1>1, <1>2, SeqEqual

\* The empty store is the empty log.
LEMMA InitMaps == Init => Log!Init
BY DEF Init, Log!Init

\* An append that stores its batch is a commit of the abstract log.
LEMMA StoreMaps ==
    ASSUME TypeOK, NEW s \in Streams, NEW batch \in Batches, Store(s, batch)
    PROVE  Log!Commit(s, batch)
<1>. DEFINE m == Len(events)
            h == [n \in DOMAIN events |-> [stream  |-> events[n].stream,
                                           version |-> events[n].version,
                                           payload |-> events[n].payload]]
            new == [i \in 1..Len(batch) |-> [stream  |-> s,
                                             version |-> Len(streams[s]) + i,
                                             payload |-> batch[i]]]
            st == Stamped(s, batch)
<1>1. m \in Nat /\ Len(batch) \in Nat /\ DOMAIN events = 1..m
  BY BatchType DEF TypeOK
<1>2. /\ events' \in Seq(Event)
      /\ Len(events') = m + Len(batch)
      /\ \A n \in 1..m : events'[n] = events[n]
      /\ \A i \in 1..Len(batch) : events'[m + i] = st[i]
  BY StoreEffect
<1>3. \A i \in 1..Len(batch) : /\ st[i].stream = s
                               /\ st[i].version = Len(streams[s]) + i
                               /\ st[i].payload = batch[i]
  BY StampedType
<1>4. DOMAIN events' = 1..(m + Len(batch))
  BY <1>2
<1>. HIDE DEF st
<1>5. h' = h \o new
  <2>1. h \in Seq(LogEntry) /\ Len(h) = m
    <3>1. \A n \in 1..m : events[n] \in Event
      BY <1>1 DEF TypeOK
    <3>. QED  BY <1>1, <3>1 DEF Event, LogEntry
  <2>2. new \in Seq(LogEntry) /\ Len(new) = Len(batch)
    <3>1. \A i \in 1..Len(batch) : batch[i] \in Payloads
      BY <1>1, BatchType, ElementOfSeq
    <3>2. Len(streams[s]) \in Nat
      BY DEF TypeOK
    <3>. QED  BY <1>1, <3>1, <3>2 DEF LogEntry
  <2>3. h' \in Seq(LogEntry) /\ Len(h') = m + Len(batch)
    <3>1. \A n \in 1..(m + Len(batch)) : events'[n] \in Event
      BY <1>2, <1>4
    <3>. QED  BY <1>1, <1>4, <3>1 DEF Event, LogEntry
  <2>4. ASSUME NEW n \in 1..m PROVE h'[n] = h[n]
    BY <1>1, <1>2, <1>4
  <2>5. ASSUME NEW i \in 1..Len(batch) PROVE h'[m + i] = new[i]
    <3>1. m + i \in DOMAIN events'
      BY <1>1, <1>4
    <3>. QED  BY <1>2, <1>3, <3>1
  <2>. DEFINE g == h'
  <2>. HIDE DEF h, new, g, m
  <2>6. \A i \in 1..Len(h) : g[i] = h[i]
    BY <2>1, <2>4 DEF g
  <2>7. \A i \in 1..Len(new) : g[Len(h) + i] = new[i]
    BY <2>1, <2>2, <2>5 DEF g
  <2>8. g \in Seq(LogEntry) /\ Len(g) = Len(h) + Len(new)
    BY <2>1, <2>2, <2>3 DEF g
  <2>9. g = h \o new
    BY <2>1, <2>2, <2>6, <2>7, <2>8, ConcatRecognised
  <2>. QED  BY <2>9 DEF g
<1>6. ASSUME NEW t \in Streams
      PROVE  Len(streams'[t]) = IF t = s THEN Len(streams[s]) + Len(batch) ELSE Len(streams[t])
  BY StoreEffect
<1>. QED  BY <1>5, <1>6 DEF Log!Commit

\* Every step of the store is an atomic commit of the abstract log, or leaves it
\* as it was: a version conflict stores nothing, QueueFull stores everything.
THEOREM Implements == Spec => ImplementsLog
<1>1. Init => Log!Init
  BY InitMaps
<1>2. IInv /\ [Next]_vars => [Log!Next]_(Log!vars)
  <2>. SUFFICES ASSUME IInv, [Next]_vars PROVE [Log!Next]_(Log!vars)
    OBVIOUS
  <2>1. ASSUME NEW s \in Streams, NEW expected, NEW batch \in Batches,
               AppendEvents(s, expected, batch) \/ AppendQueueFull(s, expected, batch)
        PROVE  Log!Next
    <3>1. Store(s, batch) /\ TypeOK
      BY <2>1 DEF AppendEvents, AppendQueueFull, IInv
    <3>. QED  BY <3>1, StoreMaps DEF Log!Next
  <2>2. CASE UNCHANGED <<events, streams>>
    BY <2>2 DEF Log!vars
  <2>3. ASSUME NEW s \in Streams, NEW expected, AppendConflict(s, expected)
        PROVE  UNCHANGED <<events, streams>>
    BY <2>3 DEF AppendConflict, vars
  <2>4. ASSUME NEW k \in Keys, NEW r \in Receipts, SaveReceipt(k, r)
        PROVE  UNCHANGED <<events, streams>>
    BY <2>4 DEF SaveReceipt
  <2>5. ASSUME NEW q \in Queues, Subscribe(q) \/ Unsubscribe(q) \/ Take(q)
        PROVE  UNCHANGED <<events, streams>>
    BY <2>5 DEF Subscribe, Unsubscribe, Take, storeVars
  <2>6. CASE UNCHANGED vars
    BY <2>2, <2>6 DEF vars
  <2>. QED  BY <2>1, <2>2, <2>3, <2>4, <2>5, <2>6 DEF Next, AppendCall
<1>. QED  BY <1>1, <1>2, Invariant, PTL DEF Spec, ImplementsLog, Log!Spec

-----------------------------------------------------------------------------
(* LiveFeed *)

FeedType ==
    /\ handler \in [Queues -> {"none", "serving", "closing", "over"}]
    /\ sender \in [Queues -> {"none", "waiting", "sending", "failed", "cancelled"}]
    /\ gone \in SUBSET Queues /\ garbled \in SUBSET Queues
    /\ sent \in [Queues -> Seq(Event)]

\* A sender at work has its queue; a connection that was never made has nothing.
Attached(q) ==
    /\ handler[q] = "none" => q \notin subscribers /\ sent[q] = <<>>
    /\ sender[q] \in {"waiting", "sending"} => handler[q] = "serving" /\ q \in subscribers
    /\ sender[q] = "sending" =>
           Len(taken[q]) > 0 /\ taken[q][Len(taken[q])].payload = Watches[q]

InOrder(q) ==
    /\ \A i \in DOMAIN sent[q] : sent[q][i].payload = Watches[q]
    /\ \A i, j \in DOMAIN sent[q] : i < j => sent[q][i].sequence < sent[q][j].sequence

\* What was sent was taken before what is being sent, and of what was taken only the
\* last may still have to be sent.
SentIsTaken(q) ==
    \A i \in DOMAIN sent[q] : \E j \in DOMAIN taken[q] :
        taken[q][j] = sent[q][i] /\ (sender[q] = "sending" => j < Len(taken[q]))
TakenIsSent(q) ==
    \A j \in DOMAIN taken[q] : taken[q][j].payload = Watches[q] =>
        Got(q, taken[q][j].sequence) \/ (j = Len(taken[q]) /\ sender[q] # "waiting")

LeakOnlyOnFailure(q) == (handler[q] = "over" /\ q \in subscribers) => sender[q] = "failed"

Client(q) == /\ Attached(q) /\ InOrder(q) /\ LeakOnlyOnFailure(q)
             /\ q \in subscribers => SentIsTaken(q) /\ TakenIsSent(q)

LiveInv == FeedType /\ \A q \in Queues : Client(q)

-----------------------------------------------------------------------------
(* The feed uses the store as any caller does *)

LEMMA LiveStepsStore == [LiveNext]_liveVars => [Next]_vars
<1>. SUFFICES ASSUME [LiveNext]_liveVars PROVE [Next]_vars
  OBVIOUS
<1>1. CASE AppendCall
  BY <1>1 DEF Next
<1>2. ASSUME NEW q \in Queues, Connect(q) PROVE Next
  BY <1>2 DEF Connect, Next
<1>3. ASSUME NEW q \in Queues, ClientLeaves(q) \/ ClientGarbles(q) PROVE UNCHANGED vars
  BY <1>3 DEF ClientLeaves, ClientGarbles
<1>4. ASSUME NEW q \in Queues, SenderStep(q) PROVE Next \/ UNCHANGED vars
  BY <1>4 DEF SenderStep, SenderSkips, SenderTakes, SendCompletes, SendFails, Next
<1>5. ASSUME NEW q \in Queues, HandlerStep(q) PROVE Next \/ UNCHANGED vars
  BY <1>5 DEF HandlerStep, HandlerNotices, HandlerUnsubscribes, HandlerRaises, Next
<1>6. CASE UNCHANGED liveVars
  BY <1>6 DEF liveVars, vars
<1>. QED  BY <1>1, <1>2, <1>3, <1>4, <1>5, <1>6 DEF LiveNext

\* Every run of the feed is a run of the store.
THEOREM FeedUsesStore == LiveSpec => Spec
<1>1. LiveInit => Init
  BY DEF LiveInit
<1>. QED  BY <1>1, LiveStepsStore, PTL DEF LiveSpec, Spec

LEMMA StoreHolds == LiveSpec => []IInv
BY FeedUsesStore, Invariant, PTL

-----------------------------------------------------------------------------
(* A connection *)

\* The steps of one connection are nothing to the others.
LEMMA OthersStay ==
    ASSUME LiveInv, NEW p \in Queues,
           handler'[p] = handler[p], sender'[p] = sender[p], sent'[p] = sent[p],
           taken'[p] = taken[p], p \in subscribers' <=> p \in subscribers
    PROVE  Client(p)'
BY DEF LiveInv, Client, Attached, InOrder, SentIsTaken, TakenIsSent, LeakOnlyOnFailure, Got

LEMMA ConnectKeeps ==
    ASSUME LiveInv, IInv, NEW q \in Queues, Connect(q)
    PROVE  LiveInv'
<1>1. /\ handler' = [handler EXCEPT ![q] = "serving"] /\ sender' = [sender EXCEPT ![q] = "waiting"]
      /\ sent' = sent /\ gone' = gone /\ garbled' = garbled /\ taken' = taken /\ subscribers' = subscribers \cup {q}
      /\ handler[q] = "none" /\ q \notin subscribers
  BY DEF Connect, Subscribe
<1>2. FeedType'
  BY <1>1 DEF LiveInv, FeedType
<1>3. handler'[q] = "serving" /\ sender'[q] = "waiting"
  BY <1>1 DEF LiveInv, FeedType
<1>4. taken[q] = <<>> /\ sent[q] = <<>>
  BY <1>1 DEF IInv, DroppedQueuesEmpty, LiveInv, Client, Attached
<1>5. Client(q)'
  BY <1>1, <1>3, <1>4
     DEF Client, Attached, InOrder, SentIsTaken, TakenIsSent, LeakOnlyOnFailure
<1>6. ASSUME NEW p \in Queues, p # q PROVE Client(p)'
  <2>1. handler'[p] = handler[p] /\ sender'[p] = sender[p]
    BY <1>1, <1>6 DEF LiveInv, FeedType
  <2>. QED  BY <1>1, <1>6, <2>1, OthersStay
<1>. QED  BY <1>2, <1>5, <1>6 DEF LiveInv

\* The sender takes an event: another campaign's, which it drops, or its own.
LEMMA SenderTakesKeeps ==
    ASSUME LiveInv, IInv, NEW q \in Queues, SenderSkips(q) \/ SenderTakes(q)
    PROVE  LiveInv'
<1>. DEFINE e == Head(queue[q])
            m == Len(taken[q])
<1>1. /\ sender[q] = "waiting" /\ Take(q) /\ handler' = handler /\ sent' = sent /\ gone' = gone /\ garbled' = garbled
      /\ \/ sender' = sender /\ e.payload # Watches[q]
         \/ sender' = [sender EXCEPT ![q] = "sending"] /\ e.payload = Watches[q]
  BY DEF SenderSkips, SenderTakes, feedState, Ours
<1>2. /\ q \in subscribers /\ queue[q] \in Seq(Event) /\ queue[q] # <<>>
      /\ taken[q] \in Seq(Event) /\ subscribers' = subscribers
      /\ taken' = [taken EXCEPT ![q] = Append(@, e)] /\ taken \in [Queues -> Seq(Event)]
  BY <1>1 DEF Take, IInv, TypeOK
<1>3. e \in Event /\ m \in Nat
  BY <1>2
<1>. HIDE DEF e
<1>4. taken'[q] = Append(taken[q], e) /\ \A p \in Queues \ {q} : taken'[p] = taken[p]
  BY <1>2
<1>5. /\ Len(taken'[q]) = m + 1 /\ taken'[q][m + 1] = e
      /\ DOMAIN taken[q] = 1..m /\ DOMAIN taken'[q] = 1..(m + 1)
      /\ \A j \in DOMAIN taken[q] : taken'[q][j] = taken[q][j]
  BY <1>2, <1>3, <1>4
<1>6. /\ \/ sender'[q] = "waiting" /\ e.payload # Watches[q]
         \/ sender'[q] = "sending" /\ e.payload = Watches[q]
      /\ \A p \in Queues \ {q} : sender'[p] = sender[p]
      /\ sender' \in [Queues -> {"none", "waiting", "sending", "failed", "cancelled"}]
  <2>0. sender \in [Queues -> {"none", "waiting", "sending", "failed", "cancelled"}]
    BY DEF LiveInv, FeedType
  <2>1. CASE sender' = sender /\ e.payload # Watches[q]
    BY <1>1, <2>0, <2>1
  <2>2. CASE sender' = [sender EXCEPT ![q] = "sending"] /\ e.payload = Watches[q]
    BY <1>1, <2>0, <2>2
  <2>. QED  BY <1>1, <2>1, <2>2
<1>7. FeedType'
  BY <1>1, <1>6 DEF LiveInv, FeedType
<1>8. Client(q)'
  <2>1. Client(q) /\ SentIsTaken(q) /\ TakenIsSent(q) /\ handler[q] = "serving"
    BY <1>1, <1>2 DEF LiveInv, Client, Attached
  <2>2. Attached(q)' /\ InOrder(q)' /\ LeakOnlyOnFailure(q)'
    BY <1>1, <1>2, <1>3, <1>5, <1>6, <2>1 DEF Client, Attached, InOrder, LeakOnlyOnFailure
  <2>3. SentIsTaken(q)'
    <3>1. ASSUME NEW i \in DOMAIN sent[q]
          PROVE  \E j \in DOMAIN taken'[q] :
                     taken'[q][j] = sent[q][i] /\ (sender'[q] = "sending" => j < Len(taken'[q]))
      <4>1. PICK j \in DOMAIN taken[q] : taken[q][j] = sent[q][i]
        BY <2>1 DEF SentIsTaken
      <4>2. j \in DOMAIN taken'[q] /\ taken'[q][j] = sent[q][i] /\ j < Len(taken'[q])
        BY <1>3, <1>5, <4>1
      <4>. QED  BY <4>2
    <3>. QED  BY <1>1, <3>1 DEF SentIsTaken
  <2>4. TakenIsSent(q)'
    <3>1. ASSUME NEW j \in DOMAIN taken'[q], taken'[q][j].payload = Watches[q]
          PROVE  Got(q, taken'[q][j].sequence) \/ (j = Len(taken'[q]) /\ sender'[q] # "waiting")
      <4>1. CASE j = m + 1
        BY <1>5, <1>6, <3>1, <4>1
      <4>2. CASE j # m + 1
        <5>1. j \in DOMAIN taken[q] /\ taken'[q][j] = taken[q][j]
          BY <1>3, <1>5, <4>2
        <5>. QED  BY <1>1, <2>1, <3>1, <5>1 DEF TakenIsSent
      <4>. QED  BY <4>1, <4>2
    <3>2. \A n : Got(q, n)' <=> Got(q, n)
      BY <1>1 DEF Got
    <3>. QED  BY <3>1, <3>2 DEF TakenIsSent, Got
  <2>. QED  BY <2>2, <2>3, <2>4 DEF Client
<1>9. ASSUME NEW p \in Queues, p # q PROVE Client(p)'
  BY <1>1, <1>2, <1>4, <1>6, <1>9, OthersStay
<1>. QED  BY <1>7, <1>8, <1>9 DEF LiveInv

\* What was taken is the beginning of what was received.
LEMMA TakenThenQueued ==
    ASSUME NEW a \in Seq(Event), NEW b \in Seq(Event)
    PROVE  /\ \A i \in DOMAIN a : i \in DOMAIN (a \o b) /\ (a \o b)[i] = a[i]
           /\ \A i \in DOMAIN (a \o b) : i \in Nat /\ (i \in DOMAIN a \/ i > Len(a))
           /\ DOMAIN a = 1..Len(a) /\ Len(a) \in Nat
<1>0. a \o b \in Seq(Event)
  OBVIOUS
<1>1. PICK c \in Seq(Event) : c = a \o b
  BY <1>0
<1>2. Len(c) = Len(a) + Len(b) /\ \A i \in 1..Len(a) : c[i] = a[i]
  BY <1>1, ConcatEffect
<1>3. DOMAIN c = 1..Len(c) /\ DOMAIN a = 1..Len(a) /\ Len(a) \in Nat /\ Len(b) \in Nat
  OBVIOUS
<1>. QED  BY <1>1, <1>2, <1>3

\* What a reader took, it took in storage order.
LEMMA TakenInOrder ==
    ASSUME IInv, NEW q \in subscribers
    PROVE  \A i, j \in DOMAIN taken[q] : i < j => taken[q][i].sequence < taken[q][j].sequence
<1>1. taken[q] \in Seq(Event) /\ queue[q] \in Seq(Event)
  BY DEF IInv, TypeOK
<1>2. \A i \in DOMAIN taken[q] : i \in DOMAIN Received(q) /\ Received(q)[i] = taken[q][i]
  BY <1>1, TakenThenQueued DEF Received
<1>3. \A i, j \in DOMAIN Received(q) : i < j => Received(q)[i].sequence < Received(q)[j].sequence
  BY DEF IInv, DeliveredInOrder
<1>. QED  BY <1>2, <1>3

\* What is sent is later than everything sent before it.
LEMMA SendCompletesKeeps ==
    ASSUME LiveInv, IInv, NEW q \in Queues, SendCompletes(q)
    PROVE  LiveInv'
<1>. DEFINE m == Len(taken[q])
            k == Len(sent[q])
<1>1. /\ sender[q] = "sending" /\ handler' = handler /\ gone' = gone /\ garbled' = garbled
      /\ sender' = [sender EXCEPT ![q] = "waiting"]
      /\ sent' = [sent EXCEPT ![q] = Append(@, Last(taken[q]))]
      /\ taken' = taken /\ subscribers' = subscribers
  BY DEF SendCompletes, vars
<1>2. Client(q) /\ q \in subscribers /\ handler[q] = "serving" /\ SentIsTaken(q) /\ TakenIsSent(q)
  BY <1>1 DEF LiveInv, Client, Attached
<1>3. /\ taken[q] \in Seq(Event) /\ m \in Nat /\ m > 0 /\ DOMAIN taken[q] = 1..m
      /\ sent[q] \in Seq(Event) /\ k \in Nat /\ DOMAIN sent[q] = 1..k
  BY <1>1, <1>2 DEF LiveInv, FeedType, IInv, TypeOK, Client, Attached
<1>4. PICK e \in Event : e = taken[q][m]
  BY <1>3
<1>5. Last(taken[q]) = e /\ e.payload = Watches[q]
  BY <1>1, <1>2, <1>4 DEF Last, Client, Attached
<1>6. /\ sent'[q] = Append(sent[q], e) /\ \A p \in Queues \ {q} : sent'[p] = sent[p]
      /\ sender'[q] = "waiting" /\ \A p \in Queues \ {q} : sender'[p] = sender[p]
      /\ sent' \in [Queues -> Seq(Event)]
  <2>1. /\ sent \in [Queues -> Seq(Event)] /\ sent' = [sent EXCEPT ![q] = Append(@, e)]
        /\ sender \in [Queues -> {"none", "waiting", "sending", "failed", "cancelled"}]
    BY <1>1, <1>5 DEF LiveInv, FeedType
  <2>2. Append(sent[q], e) \in Seq(Event)
    BY <1>3
  <2>. QED  BY <1>1, <2>1, <2>2
<1>7. /\ DOMAIN sent'[q] = 1..(k + 1) /\ sent'[q][k + 1] = e
      /\ \A i \in 1..k : sent'[q][i] = sent[q][i]
  BY <1>3, <1>6
<1>8. FeedType'
  BY <1>1, <1>6 DEF LiveInv, FeedType
<1>9. \A i \in 1..k : sent[q][i].sequence < e.sequence
  <2>. SUFFICES ASSUME NEW i \in 1..k PROVE sent[q][i].sequence < e.sequence
    OBVIOUS
  <2>1. PICK j \in DOMAIN taken[q] : taken[q][j] = sent[q][i] /\ j < m
    BY <1>1, <1>2, <1>3 DEF SentIsTaken
  <2>2. m \in DOMAIN taken[q]
    BY <1>3
  <2>. QED  BY <1>2, <1>4, <2>1, <2>2, TakenInOrder
<1>10. Client(q)'
  <2>1. Attached(q)' /\ LeakOnlyOnFailure(q)'
    BY <1>1, <1>2, <1>6 DEF Attached, LeakOnlyOnFailure
  <2>2. InOrder(q)'
    <3>1. ASSUME NEW i \in 1..(k + 1) PROVE sent'[q][i].payload = Watches[q]
      <4>1. CASE i = k + 1
        BY <1>5, <1>7, <4>1
      <4>2. CASE i # k + 1
        <5>1. i \in 1..k
          BY <1>3, <4>2
        <5>. QED  BY <1>2, <1>3, <1>7, <5>1 DEF Client, InOrder
      <4>. QED  BY <4>1, <4>2
    <3>2. ASSUME NEW i \in 1..(k + 1), NEW j \in 1..(k + 1), i < j
          PROVE  sent'[q][i].sequence < sent'[q][j].sequence
      <4>1. CASE j = k + 1
        <5>1. i \in 1..k
          BY <1>3, <3>2, <4>1
        <5>. QED  BY <1>7, <1>9, <4>1, <5>1
      <4>2. CASE j # k + 1
        <5>1. i \in 1..k /\ j \in 1..k
          BY <1>3, <3>2, <4>2
        <5>. QED  BY <1>2, <1>3, <1>7, <3>2, <5>1 DEF Client, InOrder
      <4>. QED  BY <4>1, <4>2
    <3>. QED  BY <1>7, <3>1, <3>2 DEF InOrder
  <2>3. SentIsTaken(q)'
    <3>1. ASSUME NEW i \in 1..(k + 1)
          PROVE  \E j \in DOMAIN taken[q] : taken[q][j] = sent'[q][i]
      <4>1. CASE i = k + 1
        BY <1>3, <1>4, <1>7, <4>1
      <4>2. CASE i # k + 1
        <5>1. i \in 1..k
          BY <1>3, <4>2
        <5>. QED  BY <1>2, <1>3, <1>7, <5>1 DEF SentIsTaken
      <4>. QED  BY <4>1, <4>2
    <3>. QED  BY <1>1, <1>6, <1>7, <3>1 DEF SentIsTaken
  <2>4. TakenIsSent(q)'
    <3>1. ASSUME NEW n, Got(q, n) PROVE \E i \in 1..(k + 1) : sent'[q][i].sequence = n
      BY <1>3, <1>7, <3>1 DEF Got
    <3>2. \E i \in 1..(k + 1) : sent'[q][i].sequence = taken[q][m].sequence
      BY <1>3, <1>4, <1>7
    <3>3. ASSUME NEW j \in DOMAIN taken[q], taken[q][j].payload = Watches[q]
          PROVE  \E i \in 1..(k + 1) : sent'[q][i].sequence = taken[q][j].sequence
      BY <1>2, <3>1, <3>2, <3>3 DEF TakenIsSent
    <3>4. ASSUME NEW j \in DOMAIN taken'[q], taken'[q][j].payload = Watches[q]
          PROVE  \E i \in DOMAIN sent'[q] : sent'[q][i].sequence = taken'[q][j].sequence
      <4>1. j \in DOMAIN taken[q] /\ taken'[q] = taken[q]
        BY <1>1, <3>4
      <4>. QED  BY <1>7, <3>3, <3>4, <4>1
    <3>. QED  BY <3>4 DEF TakenIsSent, Got
  <2>. QED  BY <2>1, <2>2, <2>3, <2>4 DEF Client
<1>11. ASSUME NEW p \in Queues, p # q PROVE Client(p)'
  BY <1>1, <1>6, <1>11, OthersStay
<1>. QED  BY <1>8, <1>10, <1>11 DEF LiveInv

\* The steps that end a connection but leave its queue: the send fails, the client
\* leaves or sends what is no message, the handler notices and cancels the sender, or
\* dies of the sender's failure.
LEMMA EndingKeeps ==
    ASSUME LiveInv, NEW q \in Queues,
           \/ SendFails(q) \/ ClientLeaves(q) \/ ClientGarbles(q)
           \/ HandlerNotices(q) \/ HandlerRaises(q)
    PROVE  LiveInv'
<1>1. /\ sent' = sent /\ taken' = taken /\ subscribers' = subscribers
      /\ gone' = gone \/ gone' = gone \cup {q}
      /\ garbled' = garbled \/ garbled' = garbled \cup {q}
  BY DEF SendFails, ClientLeaves, ClientGarbles, HandlerNotices, HandlerRaises, vars
<1>2. /\ handler \in [Queues -> {"none", "serving", "closing", "over"}]
      /\ sender \in [Queues -> {"none", "waiting", "sending", "failed", "cancelled"}]
      /\ Client(q)
  BY DEF LiveInv, FeedType
<1>3. /\ handler' \in [Queues -> {"none", "serving", "closing", "over"}]
      /\ sender' \in [Queues -> {"none", "waiting", "sending", "failed", "cancelled"}]
      /\ \A p \in Queues \ {q} : handler'[p] = handler[p] /\ sender'[p] = sender[p]
      /\ handler[q] # "none" /\ handler'[q] # "none"
      /\ (handler'[q] = handler[q] /\ sender'[q] = sender[q])
            \/ (sender'[q] \in {"failed", "cancelled"} /\ handler'[q] # "over")
            \/ (sender'[q] = sender[q] /\ sender[q] = "failed")
  <2>1. CASE SendFails(q)
    BY <1>2, <2>1 DEF SendFails, Client, Attached
  <2>2. CASE ClientLeaves(q) \/ ClientGarbles(q)
    BY <1>2, <2>2 DEF ClientLeaves, ClientGarbles
  <2>3. CASE HandlerNotices(q)
    BY <1>2, <2>3 DEF HandlerNotices
  <2>4. CASE HandlerRaises(q)
    BY <1>2, <2>4 DEF HandlerRaises
  <2>. QED  BY <2>1, <2>2, <2>3, <2>4
<1>4. FeedType'
  BY <1>1, <1>3 DEF LiveInv, FeedType
<1>5. Client(q)'
  <2>1. \A n : Got(q, n)' <=> Got(q, n)
    BY <1>1 DEF Got
  <2>2. Attached(q)' /\ LeakOnlyOnFailure(q)' /\ InOrder(q)'
    BY <1>1, <1>2, <1>3 DEF Client, Attached, LeakOnlyOnFailure, InOrder
  <2>3. q \in subscribers => SentIsTaken(q)'
    BY <1>1, <1>2, <1>3 DEF Client, SentIsTaken
  <2>4. q \in subscribers => TakenIsSent(q)'
    BY <1>1, <1>2, <1>3, <2>1 DEF Client, TakenIsSent
  <2>. QED  BY <1>1, <2>2, <2>3, <2>4 DEF Client
<1>6. ASSUME NEW p \in Queues, p # q PROVE Client(p)'
  BY <1>1, <1>3, <1>6, OthersStay
<1>. QED  BY <1>4, <1>5, <1>6 DEF LiveInv

\* The handler gives the queue back.
LEMMA UnsubscribesKeeps ==
    ASSUME LiveInv, IInv, NEW q \in Queues, HandlerUnsubscribes(q)
    PROVE  LiveInv'
<1>1. /\ handler' = [handler EXCEPT ![q] = "over"] /\ sender' = sender /\ sent' = sent
      /\ gone' = gone /\ garbled' = garbled /\ subscribers' = subscribers \ {q}
      /\ taken' = [taken EXCEPT ![q] = <<>>] /\ sender[q] = "cancelled"
  BY DEF HandlerUnsubscribes, Unsubscribe
<1>2. FeedType'
  BY <1>1 DEF LiveInv, FeedType
<1>3. handler'[q] = "over" /\ q \notin subscribers'
  BY <1>1 DEF LiveInv, FeedType
<1>4. Client(q)'
  BY <1>1, <1>3 DEF LiveInv, Client, Attached, InOrder, LeakOnlyOnFailure
<1>5. ASSUME NEW p \in Queues, p # q PROVE Client(p)'
  <2>1. handler'[p] = handler[p] /\ taken'[p] = taken[p]
    BY <1>1, <1>5 DEF LiveInv, FeedType, IInv, TypeOK
  <2>. QED  BY <1>1, <1>5, <2>1, OthersStay
<1>. QED  BY <1>2, <1>4, <1>5 DEF LiveInv

-----------------------------------------------------------------------------
(* Theorems *)

LEMMA LiveInitInv == LiveInit => LiveInv
BY DEF LiveInit, Init, LiveInv, FeedType, Client, Attached, InOrder, SentIsTaken, TakenIsSent,
       LeakOnlyOnFailure

LEMMA LiveStepInv == LiveInv /\ IInv /\ [LiveNext]_liveVars => LiveInv'
<1>. SUFFICES ASSUME LiveInv, IInv, [LiveNext]_liveVars PROVE LiveInv'
  OBVIOUS
<1>1. ASSUME UNCHANGED <<handler, sender, gone, garbled, sent, taken, subscribers>> PROVE LiveInv'
  <2>1. FeedType'
    BY <1>1 DEF LiveInv, FeedType
  <2>2. ASSUME NEW p \in Queues PROVE Client(p)'
    BY <1>1, OthersStay
  <2>. QED  BY <2>1, <2>2 DEF LiveInv
<1>2. CASE AppendCall /\ UNCHANGED feedState
  <2>1. UNCHANGED <<taken, subscribers>>
    BY <1>2 DEF AppendCall, AppendEvents, AppendQueueFull, AppendConflict, vars
  <2>. QED  BY <1>1, <1>2, <2>1 DEF feedState
<1>3. ASSUME NEW q \in Queues, Connect(q) PROVE LiveInv'
  BY <1>3, ConnectKeeps
<1>4. ASSUME NEW q \in Queues, ClientLeaves(q) \/ ClientGarbles(q) PROVE LiveInv'
  BY <1>4, EndingKeeps
<1>5. ASSUME NEW q \in Queues, SenderStep(q) PROVE LiveInv'
  BY <1>5, SenderTakesKeeps, SendCompletesKeeps, EndingKeeps DEF SenderStep
<1>6. ASSUME NEW q \in Queues, HandlerStep(q) PROVE LiveInv'
  BY <1>6, EndingKeeps, UnsubscribesKeeps DEF HandlerStep
<1>7. CASE UNCHANGED liveVars
  BY <1>1, <1>7 DEF liveVars
<1>. QED  BY <1>2, <1>3, <1>4, <1>5, <1>6, <1>7 DEF LiveNext

\* In every run what each client was sent, and what its sender took, hang together.
THEOREM LiveInvariant == LiveSpec => [](IInv /\ LiveInv)
<1>1. LiveSpec => []IInv
  BY StoreHolds
<1>2. LiveInit /\ []IInv /\ [][LiveNext]_liveVars => []LiveInv
  BY LiveInitInv, LiveStepInv, PTL
<1>. QED  BY <1>1, <1>2, PTL DEF LiveSpec

\* A connection that is over keeps its queue only if its sender died of an exception.
THEOREM LeaksAreFailures == LiveSpec => []LeaksOnlyOnFailure
<1>1. LiveInv => LeaksOnlyOnFailure
  BY DEF LiveInv, Client, LeakOnlyOnFailure, LeaksOnlyOnFailure
<1>. QED  BY <1>1, LiveInvariant, PTL

\* What a subscriber has been sent is complete up to the last event it was sent.
LEMMA NothingLeftOut ==
    ASSUME LiveInv, IInv, NEW q \in Queues, q \in subscribers, sent[q] # <<>>,
           NEW n \in (since[q] + 1)..Last(sent[q]).sequence,
           events[n].payload = Watches[q], n \notin unoffered
    PROVE  Got(q, n)
<1>1. /\ taken[q] \in Seq(Event) /\ queue[q] \in Seq(Event) /\ sent[q] \in Seq(Event)
      /\ since[q] \in Nat /\ Client(q) /\ events \in Seq(Event)
  BY DEF IInv, TypeOK, LiveInv, FeedType
<1>2. PICK k \in DOMAIN sent[q] : sent[q][k] = Last(sent[q])
  BY <1>1 DEF Last
<1>3. PICK j \in DOMAIN taken[q] : taken[q][j] = sent[q][k]
  BY <1>1 DEF Client, SentIsTaken
<1>4. /\ \A i \in DOMAIN taken[q] : i \in DOMAIN Received(q) /\ Received(q)[i] = taken[q][i]
      /\ \A i \in DOMAIN Received(q) : i \in Nat /\ (i \in DOMAIN taken[q] \/ i > Len(taken[q]))
      /\ DOMAIN taken[q] = 1..Len(taken[q]) /\ Len(taken[q]) \in Nat
  BY <1>1, TakenThenQueued DEF Received
<1>5. /\ \A i \in DOMAIN Received(q) : /\ Received(q)[i].sequence \in (since[q] + 1)..Len(events)
                                       /\ events[Received(q)[i].sequence] = Received(q)[i]
      /\ \A i, l \in DOMAIN Received(q) :
             i < l => Received(q)[i].sequence < Received(q)[l].sequence
  BY DEF IInv, DeliveredInOrder
<1>6. n \in (since[q] + 1)..Len(events) /\ n <= taken[q][j].sequence /\ n \in Nat
  <2>1. taken[q][j].sequence \in (since[q] + 1)..Len(events)
    BY <1>3, <1>4, <1>5
  <2>2. Len(events) \in Nat
    BY <1>1
  <2>. QED  BY <1>1, <1>2, <1>3, <2>1, <2>2
<1>7. PICK i \in DOMAIN Received(q) : Received(q)[i].sequence = n
  BY <1>6 DEF IInv, NoSilentGap
<1>8. Received(q)[i] = events[n]
  BY <1>5, <1>7
<1>9. i \in DOMAIN taken[q]
  <2>. SUFFICES ASSUME i > Len(taken[q]) PROVE FALSE
    BY <1>4
  <2>1. j < i /\ j \in DOMAIN Received(q) /\ Received(q)[j] = taken[q][j]
    BY <1>3, <1>4
  <2>2. taken[q][j].sequence < n
    BY <1>5, <1>7, <2>1
  <2>3. taken[q][j].sequence \in Int
    BY <1>4, <1>5, <2>1, <1>1
  <2>. QED  BY <1>6, <2>2, <2>3
<1>10. taken[q][i].payload = Watches[q] /\ taken[q][i].sequence = n
  BY <1>4, <1>7, <1>8, <1>9
<1>11. CASE Got(q, taken[q][i].sequence)
  BY <1>10, <1>11
<1>12. CASE i = Len(taken[q])
  <2>1. j = i
    <3>. SUFFICES ASSUME j < i PROVE FALSE
      BY <1>3, <1>4, <1>12
    <3>1. taken[q][j].sequence < n
      BY <1>3, <1>9, <1>10, TakenInOrder
    <3>2. taken[q][j].sequence \in Int
      BY <1>3, <1>4, <1>5, <1>1
    <3>. QED  BY <1>6, <3>1, <3>2
  <2>. QED  BY <1>2, <1>3, <1>10, <2>1 DEF Got
<1>. QED  BY <1>1, <1>9, <1>10, <1>11, <1>12 DEF Client, TakenIsSent

\* From the store to the client: only its campaign's events, in storage order, once
\* each, and none left out but those the store failed to offer.
THEOREM ClientsSeeCampaign == LiveSpec => []ClientSeesCampaign
<1>1. LiveInv /\ IInv => ClientSeesCampaign
  <2>. SUFFICES ASSUME LiveInv, IInv, NEW q \in Queues
                PROVE  /\ InOrder(q)
                       /\ q \in subscribers /\ sent[q] # <<>> =>
                              \A n \in (since[q] + 1)..Last(sent[q]).sequence :
                                  events[n].payload = Watches[q] => n \in unoffered \/ Got(q, n)
    BY Zenon DEF ClientSeesCampaign, InOrder
  <2>1. InOrder(q)
    BY DEF LiveInv, Client
  <2>. QED  BY <2>1, NothingLeftOut
<1>. QED  BY <1>1, LiveInvariant, PTL
=============================================================================
