-------------------------- MODULE SimulationClock --------------------------
(* domain/timeline.py: SimulationClock, a clock with a heap of scheduled items  *)
(* that moves only when it is told to.                                          *)
(*                                                                              *)
(* advance_to is synchronous; it is begun (AdvanceTo) and then taken one        *)
(* iteration of its loop at a time (Pop, Return), with nothing else in between.  *)
(* A ValueError changes nothing and is no step.                                 *)
EXTENDS Naturals, Sequences, FiniteSets

CONSTANTS Start,       \* the time the clock is made with
          Priorities,  \* the priorities items are scheduled with
          MaxTime,     \* bound: times clients name
          MaxItems     \* bound: items scheduled

ASSUME ClockAssumption == /\ Start \in Nat /\ MaxTime \in Nat /\ MaxItems \in Nat
                          /\ Priorities \subseteq Nat

VARIABLES now, paused,
          sequence,   \* items scheduled so far; also the schedule_id of the last
          heap,       \* the items not yet popped
          cancelled,  \* schedule ids; never cleared
          advancing,  \* is advance_to in its loop
          delivered,  \* history: [item, at, issued] in the order advance_to returned them;
                      \* at: the time then, issued: the items scheduled by then
          settled     \* history: the items scheduled when advance_to last returned

vars == <<now, paused, sequence, heap, cancelled, advancing, delivered, settled>>

Item == [time: Nat, priority: Priorities, id: Nat \ {0}]

\* ScheduledItem's order: (simulation_time, priority, sequence).
Precedes(i, j) ==
    \/ i.time < j.time
    \/ i.time = j.time /\ i.priority < j.priority
    \/ i.time = j.time /\ i.priority = j.priority /\ i.id < j.id

Init == /\ now = Start /\ paused = FALSE
        /\ sequence = 0 /\ heap = {} /\ cancelled = {}
        /\ advancing = FALSE /\ delivered = <<>> /\ settled = 0

MaySchedule(time) == time >= now

Schedule(time, priority) ==
    /\ ~advancing /\ sequence < MaxItems
    /\ MaySchedule(time)
    /\ sequence' = sequence + 1
    /\ heap' = heap \cup {[time |-> time, priority |-> priority, id |-> sequence + 1]}
    /\ UNCHANGED <<now, paused, cancelled, advancing, delivered, settled>>

\* Of an item that is scheduled, or delivered long ago.
Cancel(id) ==
    /\ ~advancing
    /\ cancelled' = cancelled \cup {id}
    /\ UNCHANGED <<now, paused, sequence, heap, advancing, delivered, settled>>

\* Wrong variant of Moves: a paused clock moves, and only the items stay.
MovesPaused(target) == /\ now' = target
                       /\ advancing' = ~paused

\* A paused clock returns nothing and keeps its time.
Moves(target) == IF paused THEN UNCHANGED <<now, advancing>>
                 ELSE now' = target /\ advancing' = TRUE

AdvanceTo(target) ==
    /\ ~advancing
    /\ target >= now
    /\ Moves(target)
    /\ UNCHANGED <<paused, sequence, heap, cancelled, delivered, settled>>

\* Wrong variant of Least: of equal priority, any.
LeastPriority(item) == \A other \in heap : item.priority <= other.priority

Delivery(item) == [item |-> item, at |-> now, issued |-> sequence]

Due(item) == item.time <= now

\* heapq.heappop: the least of the heap.
Least(item) == \A other \in heap \ {item} : Precedes(item, other)

Deliver(item) ==
    delivered' = IF item.id \in cancelled THEN delivered
                 ELSE Append(delivered, Delivery(item))

\* Wrong variant of Pop: the item is looked at, and stays.
PopPeeks ==
    /\ advancing
    /\ \E item \in heap : Least(item) /\ Due(item) /\ Deliver(item)
    /\ UNCHANGED <<now, paused, sequence, heap, cancelled, advancing, settled>>

Pop ==
    /\ advancing
    /\ \E item \in heap : /\ Least(item) /\ Due(item)
                          /\ heap' = heap \ {item}
                          /\ Deliver(item)
    /\ UNCHANGED <<now, paused, sequence, cancelled, advancing, settled>>

Return ==
    /\ advancing
    /\ \A item \in heap : Least(item) => ~Due(item)
    /\ advancing' = FALSE /\ settled' = sequence
    /\ UNCHANGED <<now, paused, sequence, heap, cancelled, delivered>>

Pause == ~advancing /\ paused' = TRUE /\ UNCHANGED <<now, sequence, heap, cancelled, advancing, delivered, settled>>
Resume == ~advancing /\ paused' = FALSE /\ UNCHANGED <<now, sequence, heap, cancelled, advancing, delivered, settled>>

Next ==
    \/ \E time \in 0..MaxTime : AdvanceTo(time) \/ \E p \in Priorities : Schedule(time, p)
    \/ \E id \in 1..sequence : Cancel(id)
    \/ Pop \/ Return
    \/ Pause \/ Resume

Spec == Init /\ [][Next]_vars

-----------------------------------------------------------------------------
(* Properties *)

TypeOK ==
    /\ now \in Nat /\ paused \in BOOLEAN /\ sequence \in Nat /\ advancing \in BOOLEAN
    /\ heap \subseteq Item /\ cancelled \subseteq Nat
    /\ delivered \in Seq([item: Item, at: Nat, issued: Nat])
    /\ settled \in Nat

DeliveredIds == {delivered[i].item.id : i \in DOMAIN delivered}
WaitingIds == {item.id : item \in heap}

\* Every item scheduled is still waiting, or was delivered once, or was cancelled:
\* none is lost, and none is delivered twice, whatever is cancelled late or again.
EachItemOnce ==
    /\ \A i, j \in DOMAIN delivered : delivered[i].item.id = delivered[j].item.id => i = j
    /\ \A i, j \in heap : i.id = j.id => i = j
    /\ DeliveredIds \cap WaitingIds = {}
    /\ 1..sequence \subseteq DeliveredIds \cup WaitingIds \cup cancelled

\* Items come out in the order of time, priority and scheduling, across advances and
\* pauses too, except that what is scheduled for the current instant after others of
\* that instant were delivered comes after them.
DeliveredInOrder ==
    \A i, j \in DOMAIN delivered : i < j =>
        \/ Precedes(delivered[i].item, delivered[j].item)
        \/ /\ delivered[i].item.time = delivered[j].item.time
           /\ delivered[j].item.id > delivered[i].issued

\* No item is late or early: what advance_to leaves behind is in the future, or was
\* scheduled for this very instant after it returned; and a paused clock, which
\* delivers nothing, does not pass anything by.
OnTime ==
    /\ ~advancing => \A item \in heap :
           item.time > now \/ (item.time = now /\ item.id > settled)
    /\ \A i \in DOMAIN delivered : delivered[i].item.time <= delivered[i].at
=============================================================================
