----------------------------- MODULE EventStore -----------------------------
(* persistence/event_store.py: the in-memory event store of the shipped app,     *)
(* with the bounded queues its subscribers read from.                            *)
(*                                                                               *)
(* No coroutine of the store awaits anything but its own uncontended lock, so a  *)
(* call runs without a suspension point and is one action here.  An append may   *)
(* end in three ways: the version conflict, which changes nothing; success; and  *)
(* asyncio.QueueFull raised by put_nowait AFTER the events were stored.          *)
EXTENDS Naturals, Sequences, FiniteSets

CONSTANTS Streams,      \* stream identifiers
          Payloads,     \* what an event says
          Queues,       \* asyncio.Queue objects a subscriber can be given
          MaxSize,      \* capacity of a queue (256 in the code)
          Keys,         \* idempotency keys
          Receipts,     \* command receipts
          NoReceipt,    \* "no receipt under this key"
          MaxEvents,    \* bound: events ever stored
          MaxBatch      \* bound: events in one append

ASSUME BoundsAssumption == MaxSize \in Nat \ {0} /\ MaxEvents \in Nat /\ MaxBatch \in Nat \ {0}
ASSUME NoReceiptAssumption == NoReceipt \notin Receipts

VARIABLES events,       \* _events: every event, in storage order
          streams,      \* _streams: the same events, per stream
          receipts,     \* _receipts
          subscribers,  \* _subscribers
          queue,        \* queue[q]: what q holds, oldest first
          taken,        \* history: what the reader of q has taken from it
          since,        \* history: Len(events) when q was subscribed
          unoffered     \* history: sequences of events whose fan-out was cut short

storeVars == <<events, streams, receipts>>
feedVars == <<subscribers, queue, taken, since, unoffered>>
vars == <<events, streams, receipts, subscribers, queue, taken, since, unoffered>>

Event == [stream: Streams, version: Nat \ {0}, sequence: Nat \ {0}, payload: Payloads]

TypeOK ==
    /\ events \in Seq(Event)
    /\ streams \in [Streams -> Seq(Event)]
    /\ receipts \in [Keys -> Receipts \cup {NoReceipt}]
    /\ subscribers \in SUBSET Queues
    /\ queue \in [Queues -> Seq(Event)]
    /\ taken \in [Queues -> Seq(Event)]
    /\ since \in [Queues -> Nat]
    /\ unoffered \in SUBSET (Nat \ {0})

Init ==
    /\ events = <<>>
    /\ streams = [s \in Streams |-> <<>>]
    /\ receipts = [k \in Keys |-> NoReceipt]
    /\ subscribers = {}
    /\ queue = [q \in Queues |-> <<>>]
    /\ taken = [q \in Queues |-> <<>>]
    /\ since = [q \in Queues |-> 0]
    /\ unoffered = {}

-----------------------------------------------------------------------------
(* append *)

CurrentVersion(s) == Len(streams[s])

\* Wrong variant of Stamped: the version is counted over all streams.
StampedAcrossStreams(s, batch) ==
    [i \in 1..Len(batch) |-> [stream |-> s, version |-> Len(events) + i,
                              sequence |-> Len(events) + i, payload |-> batch[i]]]

\* The events as stored: numbered in their stream and in the store.
Stamped(s, batch) ==
    [i \in 1..Len(batch) |-> [stream   |-> s,
                              version  |-> Len(streams[s]) + i,
                              sequence |-> Len(events) + i,
                              payload  |-> batch[i]]]

Store(s, batch) ==
    /\ Len(events) + Len(batch) <= MaxEvents
    /\ events' = events \o Stamped(s, batch)
    /\ streams' = [streams EXCEPT ![s] = @ \o Stamped(s, batch)]

Room(q) == MaxSize - Len(queue[q])

\* Every subscriber gets the first got[q] of the stored events.
Deliver(stored, got) ==
    queue' = [q \in Queues |-> IF q \in subscribers
                                 THEN queue[q] \o SubSeq(stored, 1, got[q])
                                 ELSE queue[q]]

FanOutFits(n) == \A q \in subscribers : Room(q) >= n

\* The loop over events and, inside it, over the subscribers in the arbitrary
\* order of a set, stops at the first full queue: everybody has the `least`
\* events that queue had room for, and whoever came `before` it one more.
StopsAfter(least, before) ==
    /\ \E q \in subscribers : Room(q) = least
    /\ \A q \in subscribers : Room(q) >= least
    /\ \A q \in before : Room(q) > least

\* Wrong variant of AppendEvents: a full queue is passed over in silence.
AppendPassesOver(s, expected, batch) ==
    /\ expected = CurrentVersion(s)
    /\ Store(s, batch)
    /\ Deliver(Stamped(s, batch), [q \in Queues |-> IF Room(q) >= Len(batch) THEN Len(batch) ELSE 0])
    /\ UNCHANGED <<receipts, subscribers, taken, since, unoffered>>

AppendEvents(s, expected, batch) ==
    /\ expected = CurrentVersion(s)
    /\ Store(s, batch)
    /\ FanOutFits(Len(batch))
    /\ Deliver(Stamped(s, batch), [q \in Queues |-> Len(batch)])
    /\ UNCHANGED <<receipts, subscribers, taken, since, unoffered>>

\* Wrong variant of AppendQueueFull: the stream is rolled back, the global list is not.
AppendHalfUndone(s, expected, batch) ==
    /\ expected = CurrentVersion(s)
    /\ Len(events) + Len(batch) <= MaxEvents
    /\ ~FanOutFits(Len(batch))
    /\ events' = events \o Stamped(s, batch)
    /\ UNCHANGED <<streams, receipts>> /\ UNCHANGED feedVars

\* QueueFull leaves append after the events were stored.
AppendQueueFull(s, expected, batch) ==
    /\ expected = CurrentVersion(s)
    /\ Store(s, batch)
    /\ \E least \in 0..(Len(batch) - 1), before \in SUBSET subscribers :
           /\ StopsAfter(least, before)
           /\ Deliver(Stamped(s, batch),
                      [q \in Queues |-> IF q \in before THEN least + 1 ELSE least])
           /\ unoffered' = unoffered \cup {Len(events) + i : i \in (least + 1)..Len(batch)}
    /\ UNCHANGED <<receipts, subscribers, taken, since>>

\* StreamVersionConflict: nothing was stored.
AppendConflict(s, expected) ==
    /\ expected # CurrentVersion(s)
    /\ UNCHANGED vars

-----------------------------------------------------------------------------
(* receipts and subscriptions *)

SaveReceipt(k, r) ==
    /\ receipts' = [receipts EXCEPT ![k] = r]
    /\ UNCHANGED <<events, streams>> /\ UNCHANGED feedVars

Subscribe(q) ==
    /\ q \notin subscribers
    /\ subscribers' = subscribers \cup {q}
    /\ since' = [since EXCEPT ![q] = Len(events)]
    /\ UNCHANGED <<queue, taken, unoffered>> /\ UNCHANGED storeVars

\* The queue object is dropped, with whatever it still held.
Unsubscribe(q) ==
    /\ q \in subscribers
    /\ subscribers' = subscribers \ {q}
    /\ queue' = [queue EXCEPT ![q] = <<>>]
    /\ taken' = [taken EXCEPT ![q] = <<>>]
    /\ since' = [since EXCEPT ![q] = 0]
    /\ UNCHANGED unoffered /\ UNCHANGED storeVars

\* Wrong variant of Take: the event stays in the queue.
TakePeeks(q) ==
    /\ q \in subscribers
    /\ queue[q] # <<>>
    /\ taken' = [taken EXCEPT ![q] = Append(@, Head(queue[q]))]
    /\ UNCHANGED <<subscribers, queue, since, unoffered>> /\ UNCHANGED storeVars

\* The reader's `await queue.get()` returns.
Take(q) ==
    /\ q \in subscribers
    /\ queue[q] # <<>>
    /\ taken' = [taken EXCEPT ![q] = Append(@, Head(queue[q]))]
    /\ queue' = [queue EXCEPT ![q] = Tail(@)]
    /\ UNCHANGED <<subscribers, since, unoffered>> /\ UNCHANGED storeVars

-----------------------------------------------------------------------------
(* The store in the hands of any callers. *)

Batches == UNION {[1..n -> Payloads] : n \in 1..MaxBatch}

\* A caller expects the version it has just read, or one a client sent it.
AppendCall ==
    \E s \in Streams, expected \in 0..MaxEvents, batch \in Batches :
        \/ AppendEvents(s, expected, batch)
        \/ AppendQueueFull(s, expected, batch)
        \/ AppendConflict(s, expected)

Next ==
    \/ AppendCall
    \/ \E k \in Keys, r \in Receipts : SaveReceipt(k, r)
    \/ \E q \in Queues : Subscribe(q) \/ Unsubscribe(q) \/ Take(q)

Spec == Init /\ [][Next]_vars

-----------------------------------------------------------------------------
(* Properties *)

\* The global list and the per-stream lists hold the same events: the n-th event
\* of the store has sequence n and is where its stream and version say, the v-th
\* event of a stream has version v and is where its sequence says (append builds
\* the two numberings independently, from the two lengths).
TwoViewsAgree ==
    /\ \A n \in DOMAIN events :
           LET e == events[n] IN
               /\ e.sequence = n
               /\ e.version \in DOMAIN streams[e.stream]
               /\ streams[e.stream][e.version] = e
    /\ \A s \in Streams : \A v \in DOMAIN streams[s] :
           LET e == streams[s][v] IN
               /\ e.stream = s
               /\ e.version = v
               /\ e.sequence \in DOMAIN events
               /\ events[e.sequence] = e

\* Storage order respects version order within a stream, so a reader of the
\* global list can replay each stream by taking its events as they come.
StreamsInStorageOrder ==
    \A s \in Streams : \A v, w \in DOMAIN streams[s] :
        v < w => streams[s][v].sequence < streams[s][w].sequence

\* What has reached the queue of q since it was subscribed.
Received(q) == taken[q] \o queue[q]

\* Whatever a subscriber gets is stored, newer than its subscription, in storage
\* order and never twice, through partial fan-outs too.
DeliveredInOrder ==
    \A q \in subscribers :
        LET r == Received(q) IN
            /\ \A i \in DOMAIN r : /\ r[i].sequence \in (since[q] + 1)..Len(events)
                                   /\ events[r[i].sequence] = r[i]
            /\ \A i, j \in DOMAIN r : i < j => r[i].sequence < r[j].sequence

\* A subscriber misses only events of an append that raised QueueFull: between those,
\* the fan-out is complete.  (It may miss them with room to spare, for a queue other
\* than its own was full.)
NoSilentGap ==
    \A q \in subscribers : \A n \in (since[q] + 1)..Len(events) :
        n \in unoffered \/ \E i \in DOMAIN Received(q) : Received(q)[i].sequence = n

\* The store implements the abstract log, whatever its subscribers do to it.
Log == INSTANCE StreamLog WITH
    history <- [n \in DOMAIN events |-> [stream  |-> events[n].stream,
                                         version |-> events[n].version,
                                         payload |-> events[n].payload]],
    len <- [s \in Streams |-> Len(streams[s])]

ImplementsLog == Log!Spec
=============================================================================
