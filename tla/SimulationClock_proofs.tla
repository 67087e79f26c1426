------------------------ MODULE SimulationClock_proofs ------------------------
(* What holds of SimulationClock for every start, every set of priorities and   *)
(* every bound: each item comes out once, in order, and on time.                *)
EXTENDS SimulationClock, SequenceTheorems, WellFoundedInduction,
        TLAPS

\* A non-empty set of natural numbers has a least member.
LEMMA NatMin ==
    ASSUME NEW T \in SUBSET Nat, T # {}
    PROVE  \E m \in T : \A k \in T : m <= k
<1>. DEFINE R == {ss \in Nat \X Nat : ss[1] < ss[2]}
<1>1. IsWellFoundedOn(R, Nat)
  BY NatLessThanWellFounded DEF OpToRel
<1>2. \A x, y \in Nat : x < y => <<x, y>> \in R
  OBVIOUS
<1>. HIDE DEF R
<1>3. PICK m \in T : \A y \in T : ~ (<<y, m>> \in R)
  BY <1>1, WFMin
<1>4. ASSUME NEW k \in T PROVE m <= k
  <2>1. ~ (k < m)
    BY <1>2, <1>3
  <2>. QED  BY <2>1
<1>. QED  BY <1>4

\* A heap that is not empty has a least item: heapq always has one to look at.
LEMMA LeastExists ==
    ASSUME TypeOK, heap # {}, \A i, j \in heap : i.id = j.id => i = j
    PROVE  \E item \in heap : Least(item)
<1>. heap \subseteq Item /\ Priorities \subseteq Nat
  BY ClockAssumption DEF TypeOK
<1>1. PICK t \in {i.time : i \in heap} : \A k \in {i.time : i \in heap} : t <= k
  <2>1. {i.time : i \in heap} \in SUBSET Nat
    BY DEF Item
  <2>2. {i.time : i \in heap} # {}
    OBVIOUS
  <2>. QED  BY <2>1, <2>2, NatMin
<1>. DEFINE Soonest == {i \in heap : i.time = t}
<1>2. PICK p \in {i.priority : i \in Soonest} : \A k \in {i.priority : i \in Soonest} : p <= k
  <2>1. {i.priority : i \in Soonest} \in SUBSET Nat
    BY DEF Item
  <2>2. {i.priority : i \in Soonest} # {}
    BY <1>1
  <2>. QED  BY <2>1, <2>2, NatMin
<1>. DEFINE Urgent == {i \in Soonest : i.priority = p}
<1>3. PICK n \in {i.id : i \in Urgent} : \A k \in {i.id : i \in Urgent} : n <= k
  <2>1. {i.id : i \in Urgent} \in SUBSET Nat
    BY DEF Item
  <2>2. {i.id : i \in Urgent} # {}
    BY <1>2
  <2>. QED  BY <2>1, <2>2, NatMin
<1>4. PICK item \in Urgent : item.id = n
  BY <1>3
<1>5. ASSUME NEW other \in heap \ {item} PROVE Precedes(item, other)
  <2>1. item.time <= other.time
    BY <1>1, <1>4
  <2>2. other.time = item.time => item.priority <= other.priority
    BY <1>2, <1>4
  <2>3. (other.time = item.time /\ other.priority = item.priority) => item.id <= other.id
    BY <1>3, <1>4
  <2>4. item.id # other.id
    BY <1>4, <1>5
  <2>5. item \in Item /\ other \in Item
    BY <1>4, <1>5
  <2>6. /\ item.time \in Nat /\ item.priority \in Nat /\ item.id \in Nat
        /\ other.time \in Nat /\ other.priority \in Nat /\ other.id \in Nat
    BY <2>5 DEF Item
  <2>. QED  BY <2>1, <2>2, <2>3, <2>4, <2>6 DEF Precedes
<1>. QED  BY <1>4, <1>5 DEF Least

-----------------------------------------------------------------------------
(* The inductive invariant *)

\* Ids were issued, and what came out came out when its time had come.
Issued ==
    /\ settled <= sequence
    /\ \A item \in heap : item.id <= sequence
    /\ \A i \in DOMAIN delivered :
          /\ delivered[i].item.id <= delivered[i].issued /\ delivered[i].issued <= sequence
          /\ delivered[i].item.time <= delivered[i].at /\ delivered[i].at <= now

\* What still waits comes after all that came out, for the reason DeliveredInOrder says.
WaitsItsTurn ==
    \A i \in DOMAIN delivered, item \in heap :
        \/ Precedes(delivered[i].item, item)
        \/ delivered[i].item.time = item.time /\ item.id > delivered[i].issued

IInv == TypeOK /\ Issued /\ WaitsItsTurn /\ EachItemOnce /\ DeliveredInOrder /\ OnTime

\* The numbers of what waits and of what came out.
LEMMA Numbers ==
    ASSUME TypeOK
    PROVE  /\ DOMAIN delivered = 1..Len(delivered) /\ Len(delivered) \in Nat
           /\ \A i \in DOMAIN delivered :
                 /\ delivered[i].at \in Nat /\ delivered[i].issued \in Nat
                 /\ delivered[i].item.time \in Nat /\ delivered[i].item.priority \in Nat
                 /\ delivered[i].item.id \in Nat
           /\ \A item \in heap :
                 item.time \in Nat /\ item.priority \in Nat /\ item.id \in Nat
           /\ now \in Nat /\ sequence \in Nat /\ settled \in Nat
<1>. DEFINE Came == [item: Item, at: Nat, issued: Nat]
<1>1. delivered \in Seq(Came)
  BY DEF TypeOK
<1>2. \A i \in DOMAIN delivered : delivered[i] \in Came
  <2>. HIDE DEF Came
  <2>. QED  BY <1>1, ElementOfSeq
<1>3. \A i \in DOMAIN delivered :
         delivered[i].at \in Nat /\ delivered[i].issued \in Nat /\ delivered[i].item \in Item
  BY <1>2
<1>4. \A item \in Item : item.time \in Nat /\ item.priority \in Nat /\ item.id \in Nat
  BY ClockAssumption DEF Item
<1>5. DOMAIN delivered = 1..Len(delivered) /\ Len(delivered) \in Nat
  BY <1>1
<1>6. heap \subseteq Item /\ now \in Nat /\ sequence \in Nat /\ settled \in Nat
  BY DEF TypeOK
<1>. QED  BY <1>3, <1>4, <1>5, <1>6

\* Nothing is scheduled at first.
LEMMA InitIInv == Init => IInv
<1>. SUFFICES ASSUME Init PROVE IInv
  OBVIOUS
<1>. USE ClockAssumption DEF Init
<1>1. TypeOK
  <2>1. delivered \in Seq([item: Item, at: Nat, issued: Nat])
    BY EmptySeq
  <2>. QED  BY <2>1 DEF TypeOK
<1>2. Issued /\ WaitsItsTurn /\ DeliveredInOrder /\ OnTime
  BY DEF Issued, WaitsItsTurn, DeliveredInOrder, OnTime
<1>3. EachItemOnce
  BY DEF EachItemOnce, DeliveredIds, WaitingIds
<1>. QED  BY <1>1, <1>2, <1>3 DEF IInv

\* Nothing else matters to the order of what was delivered.
LEMMA SameDeliveries == DeliveredInOrder /\ delivered' = delivered => DeliveredInOrder'
BY DEF DeliveredInOrder, Precedes

\* An item scheduled now waits for its time, and behind all that came out.
LEMMA ScheduleKeeps ==
    ASSUME IInv, NEW time \in Nat, NEW p \in Priorities, Schedule(time, p)
    PROVE  IInv'
<1>. DEFINE new == [time |-> time, priority |-> p, id |-> sequence + 1]
<1>. USE Numbers DEF IInv
<1>1. /\ new \in Item /\ heap' = heap \cup {new} /\ sequence' = sequence + 1
      /\ sequence \in Nat /\ time >= now
  BY DEF Schedule, MaySchedule, Item
<1>2. new.time = time /\ new.priority = p /\ new.id = sequence + 1
  OBVIOUS
<1>. HIDE DEF new
<1>3. UNCHANGED <<now, paused, cancelled, advancing, delivered, settled>> /\ ~advancing
  BY DEF Schedule
<1>4. TypeOK'
  BY <1>1, <1>3 DEF TypeOK
<1>5. Issued'
  BY <1>1, <1>2, <1>3 DEF Issued
<1>6. WaitsItsTurn'
  <2>1. ASSUME NEW i \in DOMAIN delivered
        PROVE  \/ Precedes(delivered[i].item, new)
               \/ delivered[i].item.time = new.time /\ new.id > delivered[i].issued
    BY <1>1, <1>2, <2>1, SMTT(30) DEF Issued, Precedes
  <2>. QED  BY <1>1, <1>3, <2>1 DEF WaitsItsTurn, Precedes
<1>7. EachItemOnce'
  <2>1. DeliveredIds' = DeliveredIds /\ WaitingIds' = WaitingIds \cup {sequence + 1}
    BY <1>1, <1>2, <1>3 DEF DeliveredIds, WaitingIds
  <2>2. sequence + 1 \notin DeliveredIds \cup WaitingIds
    <3>1. \A item \in heap : item.id <= sequence
      BY DEF Issued
    <3>2. \A i \in DOMAIN delivered : delivered[i].item.id <= sequence
      BY DEF Issued
    <3>. QED  BY <1>1, <3>1, <3>2 DEF DeliveredIds, WaitingIds
  <2>3. 1..sequence' = (1..sequence) \cup {sequence + 1}
    BY <1>1
  <2>4. \A i, j \in heap' : i.id = j.id => i = j
    BY <1>1, <1>2, <2>2 DEF EachItemOnce, WaitingIds
  <2>5. cancelled' = cancelled /\ delivered' = delivered
    BY <1>3
  <2>. QED  BY <2>1, <2>2, <2>3, <2>4, <2>5 DEF EachItemOnce
<1>8. DeliveredInOrder'
  <2>1. delivered' = delivered /\ DeliveredInOrder
    BY <1>3
  <2>. QED  BY <2>1, SameDeliveries
<1>9. OnTime'
  BY <1>1, <1>2, <1>3 DEF OnTime, Issued
<1>. QED  BY <1>4, <1>5, <1>6, <1>7, <1>8, <1>9

\* The least item leaves the heap, and if it comes out everything else waits its turn.
LEMMA PopKeeps == IInv /\ Pop => IInv'
<1>. SUFFICES ASSUME IInv, Pop PROVE IInv'
  OBVIOUS
<1>. USE Numbers DEF IInv
<1>1. PICK item \in heap : /\ Least(item) /\ Due(item)
                           /\ heap' = heap \ {item} /\ Deliver(item)
  BY DEF Pop
<1>2. UNCHANGED <<now, paused, sequence, cancelled, advancing, settled>> /\ advancing = TRUE
  BY DEF Pop, TypeOK
<1>3. CASE item.id \in cancelled
  <2>1. delivered' = delivered
    BY <1>1, <1>3 DEF Deliver
  <2>2. TypeOK' /\ Issued' /\ WaitsItsTurn' /\ DeliveredInOrder'
    BY <1>1, <1>2, <2>1 DEF TypeOK, Issued, WaitsItsTurn, DeliveredInOrder, Precedes
  <2>3. EachItemOnce'
    <3>1. DeliveredIds' = DeliveredIds /\ WaitingIds \subseteq WaitingIds' \cup {item.id}
      BY <1>1, <2>1 DEF DeliveredIds, WaitingIds
    <3>2. WaitingIds' \subseteq WaitingIds
      BY <1>1 DEF WaitingIds
    <3>. QED  BY <1>1, <1>2, <1>3, <2>1, <3>1, <3>2 DEF EachItemOnce
  <2>4. OnTime'
    BY <1>1, <1>2, <2>1 DEF OnTime
  <2>. QED  BY <2>2, <2>3, <2>4
<1>4. CASE item.id \notin cancelled
  <2>. DEFINE n == Len(delivered) + 1
              last == Delivery(item)
  <2>1. delivered' = Append(delivered, last)
    BY <1>1, <1>4 DEF Deliver
  <2>2. last.item = item /\ last.at = now /\ last.issued = sequence
    BY DEF Delivery
  <2>3. last \in [item: Item, at: Nat, issued: Nat]
    BY DEF Delivery, TypeOK
  <2>4. /\ delivered' \in Seq([item: Item, at: Nat, issued: Nat])
        /\ DOMAIN delivered' = DOMAIN delivered \cup {n} /\ n \notin DOMAIN delivered
        /\ delivered'[n] = last /\ \A i \in DOMAIN delivered : delivered'[i] = delivered[i]
    <3>1. delivered \in Seq([item: Item, at: Nat, issued: Nat])
      BY DEF TypeOK
    <3>. HIDE DEF last
    <3>. QED  BY <2>1, <2>3, <3>1
  <2>5. \A i \in DOMAIN delivered : i < n
    OBVIOUS
  <2>. HIDE DEF n, last
  <2>6. TypeOK'
    BY <1>1, <1>2, <2>4 DEF TypeOK
  <2>7. Issued'
    BY <1>1, <1>2, <2>2, <2>4, SMTT(30) DEF Issued, Due
  <2>8. WaitsItsTurn'
    <3>1. \A other \in heap' : Precedes(item, other)
      BY <1>1 DEF Least
    <3>. QED  BY <1>1, <2>2, <2>4, <3>1, SMTT(30) DEF WaitsItsTurn
  <2>9. EachItemOnce'
    <3>1. DeliveredIds' = DeliveredIds \cup {item.id}
      BY <2>2, <2>4 DEF DeliveredIds
    <3>2. WaitingIds' = WaitingIds \ {item.id}
      BY <1>1 DEF WaitingIds, EachItemOnce
    <3>3. item.id \notin DeliveredIds
      BY <1>1 DEF EachItemOnce, WaitingIds
    <3>4. \A i \in DOMAIN delivered : delivered'[i].item.id # delivered'[n].item.id
      BY <2>2, <2>4, <3>3 DEF DeliveredIds
    <3>5. \A i, j \in DOMAIN delivered' :
             delivered'[i].item.id = delivered'[j].item.id => i = j
      BY <2>4, <3>4 DEF EachItemOnce
    <3>. QED  BY <1>1, <1>2, <3>1, <3>2, <3>5 DEF EachItemOnce
  <2>10. DeliveredInOrder'
    <3>1. ASSUME NEW i \in DOMAIN delivered
          PROVE  \/ Precedes(delivered[i].item, item)
                 \/ delivered[i].item.time = item.time /\ item.id > delivered[i].issued
      BY <1>1, <3>1 DEF WaitsItsTurn
    <3>2. ASSUME NEW i \in DOMAIN delivered', NEW j \in DOMAIN delivered', i < j
          PROVE  \/ Precedes(delivered'[i].item, delivered'[j].item)
                 \/ /\ delivered'[i].item.time = delivered'[j].item.time
                    /\ delivered'[j].item.id > delivered'[i].issued
      <4>1. i # n
        BY <2>4, <2>5, <3>2 DEF n
      <4>2. CASE j = n
        BY <2>2, <2>4, <3>1, <3>2, <4>1, <4>2
      <4>3. CASE j # n
        <5>1. i \in DOMAIN delivered /\ j \in DOMAIN delivered
          BY <2>4, <4>1, <4>3
        <5>2. delivered'[i] = delivered[i] /\ delivered'[j] = delivered[j]
          BY <2>4, <5>1
        <5>. QED  BY <3>2, <5>1, <5>2 DEF DeliveredInOrder
      <4>. QED  BY <4>2, <4>3
    <3>. QED  BY <3>2, Zenon DEF DeliveredInOrder
  <2>11. OnTime'
    BY <1>1, <1>2, <2>2, <2>4 DEF OnTime, Due
  <2>. QED  BY <2>6, <2>7, <2>8, <2>9, <2>10, <2>11
<1>. QED  BY <1>3, <1>4

\* advance_to returns when the first of the heap is in the future: so is the rest then.
LEMMA ReturnKeeps == IInv /\ Return => IInv'
<1>. SUFFICES ASSUME IInv, Return PROVE IInv'
  OBVIOUS
<1>. USE Numbers DEF IInv
<1>1. UNCHANGED <<now, paused, sequence, heap, cancelled, delivered>> /\ settled' = sequence
  BY DEF Return
<1>2. advancing' = FALSE
  BY DEF Return
<1>3. ASSUME NEW other \in heap PROVE other.time > now
  <2>1. PICK item \in heap : Least(item)
    BY LeastExists DEF EachItemOnce
  <2>2. ~ Due(item)
    BY <2>1 DEF Return
  <2>3. other = item \/ Precedes(item, other)
    BY <2>1 DEF Least
  <2>. QED  BY <2>2, <2>3 DEF Due, Precedes
<1>4. TypeOK' /\ Issued' /\ WaitsItsTurn' /\ DeliveredInOrder'
  <2>1. TypeOK'
    BY <1>1, <1>2 DEF TypeOK
  <2>2. Issued'
    BY <1>1 DEF Issued
  <2>. QED  BY <1>1, <2>1, <2>2 DEF WaitsItsTurn, DeliveredInOrder, Precedes
<1>5. EachItemOnce'
  <2>1. DeliveredIds' = DeliveredIds /\ WaitingIds' = WaitingIds
    BY <1>1 DEF DeliveredIds, WaitingIds
  <2>. QED  BY <1>1, <2>1 DEF EachItemOnce
<1>6. OnTime'
  BY <1>1, <1>3 DEF OnTime
<1>. QED  BY <1>4, <1>5, <1>6

\* The clock moves on only to deliver what it passes: a paused one stays.
LEMMA AdvanceKeeps ==
    ASSUME IInv, NEW target \in Nat, AdvanceTo(target)
    PROVE  IInv'
<1>. USE Numbers DEF IInv
<1>1. UNCHANGED <<paused, sequence, heap, cancelled, delivered, settled>>
  BY DEF AdvanceTo
<1>2. now' \in Nat /\ now' >= now /\ advancing' \in BOOLEAN
  <2>1. now \in Nat /\ advancing \in BOOLEAN /\ target >= now /\ Moves(target)
    BY DEF AdvanceTo, TypeOK
  <2>2. CASE paused
    BY <2>1, <2>2 DEF Moves
  <2>3. CASE ~paused
    BY <2>1, <2>3 DEF Moves
  <2>. QED  BY <2>2, <2>3
<1>3. TypeOK' /\ Issued' /\ WaitsItsTurn' /\ DeliveredInOrder'
  BY <1>1, <1>2 DEF TypeOK, Issued, WaitsItsTurn, DeliveredInOrder, Precedes
<1>4. EachItemOnce'
  <2>1. DeliveredIds' = DeliveredIds /\ WaitingIds' = WaitingIds
    BY <1>1 DEF DeliveredIds, WaitingIds
  <2>. QED  BY <1>1, <2>1 DEF EachItemOnce
<1>5. OnTime'
  <2>1. CASE paused
    BY <1>1, <2>1 DEF OnTime, AdvanceTo, Moves
  <2>2. CASE ~paused
    BY <1>1, <2>2 DEF OnTime, AdvanceTo, Moves
  <2>. QED  BY <2>1, <2>2
<1>. QED  BY <1>3, <1>4, <1>5

\* Each part of the invariant is kept by every step of the clock.
LEMMA NextIInv == IInv /\ [Next]_vars => IInv'
<1>. SUFFICES ASSUME IInv, [Next]_vars PROVE IInv'
  OBVIOUS
<1>1. ASSUME NEW target \in 0..MaxTime, AdvanceTo(target) PROVE IInv'
  BY <1>1, AdvanceKeeps, ClockAssumption
<1>2. ASSUME NEW time \in 0..MaxTime, NEW p \in Priorities, Schedule(time, p) PROVE IInv'
  BY <1>2, ScheduleKeeps, ClockAssumption
<1>3. ASSUME NEW id \in 1..sequence, Cancel(id) PROVE IInv'
  <2>1. /\ UNCHANGED <<now, paused, sequence, heap, advancing, delivered, settled>>
        /\ cancelled' = cancelled \cup {id} /\ id \in Nat
    BY <1>3 DEF Cancel, IInv, TypeOK
  <2>2. EachItemOnce'
    BY <2>1 DEF IInv, EachItemOnce, DeliveredIds, WaitingIds
  <2>. QED  BY <2>1, <2>2
            DEF IInv, TypeOK, Issued, WaitsItsTurn, DeliveredInOrder, OnTime, Precedes
<1>4. CASE Pop
  BY <1>4, PopKeeps
<1>5. CASE Return
  BY <1>5, ReturnKeeps
<1>6. CASE Pause \/ Resume \/ UNCHANGED vars
  <2>1. /\ UNCHANGED <<now, sequence, heap, cancelled, advancing, delivered, settled>>
        /\ paused' \in BOOLEAN
    BY <1>6 DEF Pause, Resume, vars, IInv, TypeOK
  <2>2. EachItemOnce'
    BY <2>1 DEF IInv, EachItemOnce, DeliveredIds, WaitingIds
  <2>. QED  BY <2>1, <2>2
            DEF IInv, TypeOK, Issued, WaitsItsTurn, DeliveredInOrder, OnTime, Precedes
<1>. QED  BY <1>1, <1>2, <1>3, <1>4, <1>5, <1>6 DEF Next

LEMMA Invariant == Spec => []IInv
BY InitIInv, NextIInv, PTL DEF Spec

-----------------------------------------------------------------------------
(* Theorems *)

\* Times, ids and counts are natural numbers, whatever is scheduled when.
THEOREM TypeCorrect == Spec => []TypeOK
<1>1. IInv => TypeOK
  BY DEF IInv
<1>. QED  BY <1>1, Invariant, PTL

\* No item is lost by the heap or delivered twice, and none but a cancelled one is kept
\* from coming out.
THEOREM ItemsComeOnce == Spec => []EachItemOnce
<1>1. IInv => EachItemOnce
  BY DEF IInv
<1>. QED  BY <1>1, Invariant, PTL

\* The order of delivery is that of time, priority and scheduling over any number of
\* advances, for each item that was scheduled before the others came out.
THEOREM ItemsComeInOrder == Spec => []DeliveredInOrder
<1>1. IInv => DeliveredInOrder
  BY DEF IInv
<1>. QED  BY <1>1, Invariant, PTL

\* advance_to leaves nothing behind that was due, and delivers nothing early.
THEOREM ItemsComeOnTime == Spec => []OnTime
<1>1. IInv => OnTime
  BY DEF IInv
<1>. QED  BY <1>1, Invariant, PTL
=============================================================================
