--------------------------- MODULE Platform_proofs ---------------------------
(* What holds of Platform for any campaigns, sessions, quests and prices, and any *)
(* number of appends that raise: the projections are of their types, a quest runs *)
(* once, whatever was retried, a session opens when all of its members have said  *)
(* they are ready, recaps span what they should, purses balance, and replay heals *)
(* what a lost notice left apart.                                                 *)
EXTENDS Platform, FiniteSetTheorems, WellFoundedInduction, TLAPS

Events == Purchases \cup Advances \cup Others

\* TypeOK, but for the rewards still owed.
Typed == /\ DOMAIN live = Streams /\ \A s \in Streams : live[s] \in Projections(s)
         /\ log \in Seq(Events)
         /\ cut \in SUBSET (1..Len(log))

\* What the projection of a quest says of the events the engine knows of.
QuestKnown(q) ==
    \/ live[q] = Nothing /\ Seen(q, "QuestAccepted") = {} /\ Seen(q, "QuestCompleted") = {}
    \/ /\ live[q] \in QuestStates
       /\ live[q].status = "available" => Seen(q, "QuestAccepted") = {}
       /\ live[q].status # "completed" => Seen(q, "QuestCompleted") = {}
       /\ live[q].status = "accepted" =>
              \E m \in Seen(q, "QuestAccepted") : log[m].who = live[q].actor

EndKnown(x) == live[x] = "completed" => Seen(x, "EncounterCompleted") # {}

\* QuestsRunOnce at n, event by event.
Once(n) ==
    LET Before(m, s, type) == m < n /\ log[m].stream = s /\ log[m].type = type IN
    /\ log[n].type = "QuestAccepted" =>
           \A m \in DOMAIN log \ cut : ~Before(m, log[n].stream, "QuestAccepted")
    /\ log[n].type = "QuestCompleted" =>
           /\ \A m \in DOMAIN log \ cut : ~Before(m, log[n].stream, "QuestCompleted")
           /\ \E m \in DOMAIN log \ cut :
                 Before(m, log[n].stream, "QuestAccepted") /\ log[m].who = log[n].who
           /\ log[n].what # Nothing =>
                 \E m \in DOMAIN log \ cut : Before(m, log[n].what, "EncounterCompleted")

IInv == /\ Typed
        /\ \A q \in Quests : QuestKnown(q)
        /\ \A x \in Encounters : EndKnown(x)
        /\ \A n \in DOMAIN log : Once(n)

-----------------------------------------------------------------------------
(* Recording an event *)

\* What every append does to the history, whether it raises or not.
LEMMA RecordEffect ==
    ASSUME Typed, NEW e \in Events, Record(e)
    PROVE  /\ log' \in Seq(Events) /\ Len(log') = Len(log) + 1 /\ log'[Len(log) + 1] = e
           /\ DOMAIN log = 1..Len(log) /\ Len(log) \in Nat /\ DOMAIN log' = 1..(Len(log) + 1)
           /\ \A n \in 1..Len(log) : log'[n] = log[n]
           /\ \A n \in 1..Len(log) : n \in cut' <=> n \in cut
           /\ cut' \in SUBSET (1..(Len(log) + 1))
<1>1. log \in Seq(Events) /\ Len(log) \in Nat /\ cut \in SUBSET (1..Len(log))
  BY DEF Typed
<1>2. log' = Append(log, e) /\ (cut' = cut \/ cut' = cut \cup {Len(log) + 1})
  BY DEF Record
<1>3. /\ log' \in Seq(Events) /\ Len(log') = Len(log) + 1 /\ log'[Len(log) + 1] = e
      /\ \A n \in 1..Len(log) : log'[n] = log[n]
  BY <1>1, <1>2
<1>4. DOMAIN log = 1..Len(log) /\ DOMAIN log' = 1..Len(log')
  BY <1>1, <1>3
<1>5. /\ \A n \in 1..Len(log) : n \in cut' <=> n \in cut
      /\ cut' \in SUBSET (1..(Len(log) + 1))
  <2>1. PICK k \in Nat : k = Len(log)
    BY <1>1
  <2>2. CASE cut' = cut
    BY <1>1, <2>1, <2>2
  <2>3. CASE cut' = cut \cup {k + 1}
    <3>1. cut \in SUBSET (1..k) /\ k + 1 \notin 1..k /\ k + 1 \in 1..(k + 1)
          /\ \A n \in 1..k : n \in 1..(k + 1)
      BY <1>1, <2>1
    <3>2. (\A n \in 1..k : n \in cut' <=> n \in cut) /\ cut' \in SUBSET (1..(k + 1))
      BY <2>3, <3>1
    <3>. QED  BY <2>1, <3>2
  <2>. QED  BY <1>2, <2>1, <2>2, <2>3
<1>. QED  BY <1>1, <1>3, <1>4, <1>5

\* An event of a type the projection has not seen yet is seen when the append returns.
LEMMA SeenGrows ==
    ASSUME Typed, NEW e \in Events, Record(e), NEW s, NEW t
    PROVE  /\ \A n \in 1..Len(log) : n \in Seen(s, t)' <=> n \in Seen(s, t)
           /\ Seen(s, t) \subseteq Seen(s, t)'
           /\ Seen(s, t)' \subseteq Seen(s, t) \cup {Len(log) + 1}
           /\ Len(log) + 1 \in Seen(s, t)' <=> e.stream = s /\ e.type = t /\ cut' = cut
           /\ Seen(s, t) \subseteq 1..Len(log)
<1>1. /\ log'[Len(log) + 1] = e /\ DOMAIN log = 1..Len(log) /\ Len(log) \in Nat
      /\ DOMAIN log' = 1..(Len(log) + 1) /\ \A n \in 1..Len(log) : log'[n] = log[n]
      /\ \A n \in 1..Len(log) : n \in cut' <=> n \in cut
  BY RecordEffect
<1>2. Len(log) + 1 \notin cut /\ (Len(log) + 1 \notin cut' <=> cut' = cut)
  <2>1. cut \in SUBSET (1..Len(log))
    BY DEF Typed
  <2>2. cut' = cut \/ cut' = cut \cup {Len(log) + 1}
    BY DEF Record
  <2>. QED  BY <1>1, <2>1, <2>2
<1>3. \A n : n \in Seen(s, t) <=> n \in 1..Len(log) /\ n \notin cut /\ log[n].stream = s /\ log[n].type = t
  BY <1>1 DEF Seen
<1>4. \A n : n \in Seen(s, t)' <=> n \in 1..(Len(log) + 1) /\ n \notin cut'
                                      /\ log'[n].stream = s /\ log'[n].type = t
  BY <1>1 DEF Seen
<1>5. \A n \in 1..Len(log) : n \in 1..(Len(log) + 1)
  BY <1>1
<1>6. Len(log) + 1 \in 1..(Len(log) + 1) /\ Len(log) + 1 \notin 1..Len(log)
      /\ \A n \in 1..(Len(log) + 1) : n \in 1..Len(log) \/ n = Len(log) + 1
  BY <1>1
<1>. QED  BY <1>1, <1>2, <1>3, <1>4, <1>5, <1>6

\* A reduced event keeps every projection of its type if it keeps its own stream's.
LEMMA RecordTypes ==
    ASSUME Typed, NEW e \in Events, Record(e),
           Reduce(live[e.stream], Len(log) + 1, e) \in Projections(e.stream)
    PROVE  /\ Typed'
           /\ \A s \in Streams \ {e.stream} : live'[s] = live[s]
           /\ \/ live' = live /\ cut' # cut
              \/ live'[e.stream] = Reduce(live[e.stream], Len(log) + 1, e) /\ cut' = cut
<1>. DEFINE r == Reduce(live[e.stream], Len(log) + 1, e)
<1>1. e.stream \in Streams
  BY DEF Events, Purchases, Advances, Others, Streams
<1>2. DOMAIN live = Streams /\ \A s \in Streams : live[s] \in Projections(s)
  BY DEF Typed
<1>3. \/ live' = [live EXCEPT ![e.stream] = r] /\ cut' = cut
      \/ live' = live /\ cut' = cut \cup {Len(log) + 1}
  BY DEF Record
<1>. HIDE DEF r
<1>4. Len(log) \in Nat /\ cut \in SUBSET (1..Len(log))
  BY DEF Typed
<1>5. cut \cup {Len(log) + 1} # cut
  BY <1>4, SMTT(30)
<1>6. /\ \A s \in Streams \ {e.stream} : live'[s] = live[s]
      /\ (live' = live /\ cut' # cut) \/ (live'[e.stream] = r /\ cut' = cut)
      /\ DOMAIN live' = Streams
  BY <1>1, <1>2, <1>3, <1>5
<1>7. \A s \in Streams : live'[s] \in Projections(s)
  BY <1>1, <1>2, <1>6 DEF r
<1>8. \A s \in Streams : Projections(s)' = Projections(s)
  BY DEF Projections
<1>9. log' \in Seq(Events) /\ cut' \in SUBSET (1..Len(log'))
  BY RecordEffect
<1>10. Typed'
  BY <1>6, <1>7, <1>9 DEF Typed
<1>. QED  BY <1>6, <1>10 DEF r

\* A quest event on record stays the first of its kind the engine knew of, and a new one
\* has to be.
LEMMA OnceKeeps ==
    ASSUME Typed, \A n \in DOMAIN log : Once(n), NEW e \in Events, Record(e),
           e.type = "QuestAccepted" => Seen(e.stream, "QuestAccepted") = {},
           e.type = "QuestCompleted" =>
               /\ Seen(e.stream, "QuestCompleted") = {}
               /\ \E m \in Seen(e.stream, "QuestAccepted") : log[m].who = e.who
               /\ e.what # Nothing => Seen(e.what, "EncounterCompleted") # {}
    PROVE  \A n \in DOMAIN log' : Once(n)'
<1>1. PICK k \in Nat : k = Len(log)
  BY RecordEffect
<1>2. /\ log'[k + 1] = e /\ DOMAIN log = 1..k /\ DOMAIN log' = 1..(k + 1)
      /\ \A n \in 1..k : log'[n] = log[n]
      /\ \A n \in 1..k : n \in cut' <=> n \in cut
  BY <1>1, RecordEffect
<1>3. ASSUME NEW n \in 1..(k + 1)
      PROVE  /\ \A m \in DOMAIN log' : m < n => m \in 1..k
             /\ \A m \in DOMAIN log : m \in DOMAIN log' /\ (n = k + 1 => m < n)
             /\ n # k + 1 => n \in 1..k
  BY <1>2
<1>4. ASSUME NEW n \in 1..(k + 1), n # k + 1 PROVE Once(n)'
  <2>1. n \in 1..k /\ log'[n] = log[n] /\ Once(n)
    BY <1>2, <1>3, <1>4
  <2>2. \A m \in DOMAIN log' \ cut' : m < n => m \in DOMAIN log \ cut /\ log'[m] = log[m]
    BY <1>2, <1>3
  <2>3. \A m \in DOMAIN log \ cut : m < n => m \in DOMAIN log' \ cut' /\ log'[m] = log[m]
    BY <1>2, <1>3
  <2>. QED  BY <2>1, <2>2, <2>3 DEF Once
<1>5. Once(k + 1)'
  <2>1. \A m \in DOMAIN log' \ cut' : m < k + 1 => m \in DOMAIN log \ cut /\ log'[m] = log[m]
    BY <1>2, <1>3
  <2>2. \A m \in DOMAIN log \ cut : m < k + 1 /\ m \in DOMAIN log' \ cut' /\ log'[m] = log[m]
    BY <1>2, <1>3
  <2>. QED  BY <1>2, <2>1, <2>2 DEF Once, Seen
<1>. QED  BY <1>2, <1>4, <1>5

-----------------------------------------------------------------------------
(* The commands *)

\* The step is recorded on the stream of no session; on that of s.
OutOfSessions == \E e \in Events : Record(e) /\ e.stream \notin Sessions
InSession(s, t, who, what) ==
    \E e \in Events : /\ Record(e) /\ e.stream = s /\ e.type = t /\ e.who = who /\ e.what = what
                       /\ \/ live' = live /\ cut' # cut
                          \/ live'[s] = ReduceSession(live[s], Len(log) + 1, e) /\ cut' = cut

LEMMA EventType ==
    ASSUME NEW s \in Streams, NEW c \in Campaigns, NEW t \in OtherTypes,
           NEW p \in Principals \cup Actors \cup {Nothing},
           NEW x \in BOOLEAN \cup Actors \cup Encounters \cup {Nothing}
    PROVE  /\ Event(s, c, t, p, x) \in Events
           /\ Event(s, c, t, p, x).stream = s /\ Event(s, c, t, p, x).type = t
           /\ Event(s, c, t, p, x).who = p /\ Event(s, c, t, p, x).what = x
           /\ Event(s, c, t, p, x).campaign = c
BY DEF Event, Events, Others

\* What concerns no quest and completes no quest leaves every quest as it was; only the
\* end of an encounter concerns encounters.
LEMMA ElsewhereKeeps ==
    ASSUME IInv, NEW e \in Events, Record(e),
           Reduce(live[e.stream], Len(log) + 1, e) \in Projections(e.stream),
           e.stream \notin Quests, e.type \notin {"QuestAccepted", "QuestCompleted"},
           e.stream \in Encounters => e.type = "EncounterCompleted"
    PROVE  IInv'
<1>1. Typed /\ \A n \in DOMAIN log : Once(n)
  BY DEF IInv
<1>2. /\ Typed' /\ \A s \in Streams \ {e.stream} : live'[s] = live[s]
      /\ live' = live \/ cut' = cut
  BY <1>1, RecordTypes
<1>3. \A n \in DOMAIN log' : Once(n)'
  BY <1>1, OnceKeeps
<1>4. ASSUME NEW q \in Quests PROVE QuestKnown(q)'
  <2>1. live'[q] = live[q]
    BY <1>2 DEF Streams
  <2>2. \A t : Seen(q, t)' \subseteq Seen(q, t) /\ Seen(q, t) \subseteq Seen(q, t)'
               /\ Seen(q, t) \subseteq 1..Len(log)
    BY <1>1, SeenGrows
  <2>3. \A n \in 1..Len(log) : log'[n] = log[n]
    BY <1>1, RecordEffect
  <2>. QED  BY <2>1, <2>2, <2>3 DEF IInv, QuestKnown
<1>5. ASSUME NEW x \in Encounters PROVE EndKnown(x)'
  <2>1. Seen(x, "EncounterCompleted") \subseteq Seen(x, "EncounterCompleted")'
    BY <1>1, SeenGrows
  <2>2. CASE e.stream = x /\ cut' = cut
    <3>1. Len(log) + 1 \in Seen(x, "EncounterCompleted")'
      BY <1>1, <2>2, SeenGrows
    <3>. QED  BY <3>1 DEF EndKnown
  <2>3. CASE ~(e.stream = x /\ cut' = cut)
    <3>1. live'[x] = live[x]
      BY <1>2, <2>3 DEF Streams
    <3>. QED  BY <2>1, <3>1 DEF IInv, EndKnown
  <2>. QED  BY <2>2, <2>3
<1>. QED  BY <1>2, <1>3, <1>4, <1>5 DEF IInv

\* Whoever changes a quest q leaves the others, and the encounters, alone.
LEMMA OtherQuestsKeep ==
    ASSUME IInv, NEW e \in Events, Record(e),
           Reduce(live[e.stream], Len(log) + 1, e) \in Projections(e.stream),
           e.stream \in Quests
    PROVE  /\ \A q \in Quests \ {e.stream} : QuestKnown(q)'
           /\ \A x \in Encounters : EndKnown(x)'
<1>1. Typed /\ \A s \in Streams \ {e.stream} : live'[s] = live[s]
  BY RecordTypes DEF IInv
<1>2. ASSUME NEW q \in Quests, q # e.stream PROVE QuestKnown(q)'
  <2>1. live'[q] = live[q]
    BY <1>1, <1>2 DEF Streams
  <2>2. \A t : Seen(q, t)' \subseteq Seen(q, t) /\ Seen(q, t) \subseteq Seen(q, t)'
               /\ Seen(q, t) \subseteq 1..Len(log)
    BY <1>1, <1>2, SeenGrows
  <2>3. \A n \in 1..Len(log) : log'[n] = log[n]
    BY <1>1, RecordEffect
  <2>. QED  BY <2>1, <2>2, <2>3 DEF IInv, QuestKnown
<1>3. ASSUME NEW x \in Encounters PROVE EndKnown(x)'
  <2>1. Seen(x, "EncounterCompleted") \subseteq Seen(x, "EncounterCompleted")'
    BY <1>1, SeenGrows
  <2>2. live'[x] = live[x]
    BY <1>1, StreamsAssumption DEF Streams
  <2>. QED  BY <2>1, <2>2 DEF IInv, EndKnown
<1>. QED  BY <1>2, <1>3

LEMMA CreateQuestKeeps ==
    ASSUME IInv, NEW q \in Quests, NEW c \in Campaigns, CreateQuest(q, c)
    PROVE  IInv' /\ OutOfSessions
<1>1. PICK e : e = Event(q, c, "QuestCreated", Nothing, Nothing)
  OBVIOUS
<1>2. /\ e \in Events /\ Record(e) /\ e.stream = q /\ e.type = "QuestCreated" /\ e.campaign = c
  <2>1. q \in Streams /\ "QuestCreated" \in OtherTypes
    BY DEF Streams, OtherTypes
  <2>. QED  BY <1>1, <2>1, EventType DEF CreateQuest
<1>3. /\ Reduce(live[q], Len(log) + 1, e) = [campaign |-> c, status |-> "available", actor |-> Nothing]
      /\ Reduce(live[q], Len(log) + 1, e) \in Projections(q)
  BY <1>2, StreamsAssumption DEF Reduce, ReduceQuest, Projections, QuestStates
<1>4. Typed /\ \A n \in DOMAIN log : Once(n)
  BY DEF IInv
<1>5. Typed' /\ (live' = live \/ live'[q] = Reduce(live[q], Len(log) + 1, e))
  BY <1>2, <1>3, <1>4, RecordTypes
<1>6. live[q] = Nothing /\ \A t : Seen(q, t) = {}
  BY DEF CreateQuest, Unused, Seen
<1>7. Seen(q, "QuestAccepted")' = {} /\ Seen(q, "QuestCompleted")' = {}
  BY <1>2, <1>4, <1>6, SeenGrows
<1>8. live'[q] = Nothing \/ (live'[q] \in QuestStates /\ live'[q].status = "available")
  BY <1>3, <1>5, <1>6 DEF QuestStates
<1>9. QuestKnown(q)'
  BY <1>7, <1>8 DEF QuestKnown
<1>10. \A n \in DOMAIN log' : Once(n)'
  BY <1>2, <1>4, OnceKeeps
<1>11. OutOfSessions
  BY <1>2, StreamsAssumption DEF OutOfSessions
<1>12. IInv'
  BY <1>2, <1>3, <1>5, <1>9, <1>10, OtherQuestsKeep DEF IInv
<1>. QED  BY <1>11, <1>12

LEMMA AcceptQuestKeeps ==
    ASSUME IInv, NEW q \in Quests, NEW a \in Actors, AcceptQuest(q, a)
    PROVE  IInv' /\ OutOfSessions
<1>1. PICK e : e = Event(q, live[q].campaign, "QuestAccepted", a, Nothing)
  OBVIOUS
<1>2. live[q] \in QuestStates /\ live[q].status = "available" /\ live[q] # Nothing
  <2>1. live[q] \in Projections(q) /\ q \notin Sessions
    BY StreamsAssumption DEF IInv, Typed, Streams
  <2>. QED  BY <2>1 DEF AcceptQuest, Available, Projections
<1>3. /\ e \in Events /\ Record(e) /\ e.stream = q /\ e.type = "QuestAccepted" /\ e.who = a
  <2>1. /\ q \in Streams /\ "QuestAccepted" \in OtherTypes
        /\ live[q].campaign \in Campaigns
    BY <1>2 DEF Streams, OtherTypes, QuestStates
  <2>. QED  BY <1>1, <2>1, EventType DEF AcceptQuest
<1>4. /\ Reduce(live[q], Len(log) + 1, e) = [live[q] EXCEPT !.status = "accepted", !.actor = a]
      /\ Reduce(live[q], Len(log) + 1, e) \in Projections(q)
  BY <1>2, <1>3, StreamsAssumption
     DEF Reduce, ReduceQuest, Accepted, Projections, QuestStates
<1>5. Typed /\ (\A n \in DOMAIN log : Once(n)) /\ QuestKnown(q)
  BY DEF IInv
<1>6. Typed' /\ ((live' = live /\ cut' # cut) \/
                  (live'[q] = Reduce(live[q], Len(log) + 1, e) /\ cut' = cut))
  BY <1>3, <1>4, <1>5, RecordTypes
<1>7. Seen(q, "QuestAccepted") = {} /\ Seen(q, "QuestCompleted") = {}
  BY <1>2, <1>5 DEF QuestKnown
<1>8. /\ Seen(q, "QuestCompleted")' = {}
      /\ Seen(q, "QuestAccepted")' \subseteq {Len(log) + 1}
      /\ Len(log) + 1 \in Seen(q, "QuestAccepted")' <=> cut' = cut
  BY <1>3, <1>5, <1>7, SeenGrows
<1>9. log'[Len(log) + 1] = e
  BY <1>3, <1>5, RecordEffect
<1>10. QuestKnown(q)'
  <2>1. CASE live' = live /\ cut' # cut
    <3>1. live'[q] \in QuestStates /\ live'[q].status = "available" /\ Seen(q, "QuestAccepted")' = {}
      BY <1>2, <1>8, <2>1
    <3>. QED  BY <1>8, <3>1 DEF QuestKnown
  <2>2. CASE live'[q] = Reduce(live[q], Len(log) + 1, e) /\ cut' = cut
    <3>1. live'[q].status = "accepted" /\ live'[q].actor = a /\ live'[q] \in QuestStates
      <4>1. live'[q] = [live[q] EXCEPT !.status = "accepted", !.actor = a]
        BY <1>4, <2>2
      <4>. QED  BY <1>2, <4>1 DEF QuestStates
    <3>2. Len(log) + 1 \in Seen(q, "QuestAccepted")' /\ log'[Len(log) + 1].who = live'[q].actor
      BY <1>3, <1>8, <1>9, <2>2, <3>1
    <3>. QED  BY <1>8, <3>1, <3>2 DEF QuestKnown
  <2>. QED  BY <1>6, <2>1, <2>2
<1>11. \A n \in DOMAIN log' : Once(n)'
  BY <1>3, <1>5, <1>7, OnceKeeps
<1>12. OutOfSessions
  BY <1>3, StreamsAssumption DEF OutOfSessions
<1>13. IInv'
  BY <1>3, <1>4, <1>6, <1>10, <1>11, OtherQuestsKeep DEF IInv
<1>. QED  BY <1>12, <1>13

LEMMA CompleteQuestKeeps ==
    ASSUME IInv, NEW q \in Quests, NEW required \in Encounters \cup {Nothing},
           CompleteQuest(q, required)
    PROVE  IInv' /\ OutOfSessions
<1>1. PICK e : e = Event(q, live[q].campaign, "QuestCompleted", live[q].actor, required)
  OBVIOUS
<1>2. live[q] \in QuestStates /\ live[q].status = "accepted" /\ live[q] # Nothing
  <2>1. live[q] \in Projections(q) /\ q \notin Sessions
    BY StreamsAssumption DEF IInv, Typed, Streams
  <2>. QED  BY <2>1 DEF CompleteQuest, Projections
<1>3. /\ e \in Events /\ Record(e) /\ e.stream = q /\ e.type = "QuestCompleted"
      /\ e.who = live[q].actor /\ e.what = required
  <2>1. /\ q \in Streams /\ "QuestCompleted" \in OtherTypes
        /\ live[q].campaign \in Campaigns /\ live[q].actor \in Actors \cup {Nothing}
    BY <1>2 DEF Streams, OtherTypes, QuestStates
  <2>. QED  BY <1>1, <2>1, EventType DEF CompleteQuest
<1>4. /\ Reduce(live[q], Len(log) + 1, e) = [live[q] EXCEPT !.status = "completed"]
      /\ Reduce(live[q], Len(log) + 1, e) \in Projections(q)
  BY <1>2, <1>3, StreamsAssumption DEF Reduce, ReduceQuest, Projections, QuestStates
<1>5. Typed /\ (\A n \in DOMAIN log : Once(n)) /\ QuestKnown(q)
  BY DEF IInv
<1>6. Typed' /\ ((live' = live /\ cut' # cut) \/
                  (live'[q] = Reduce(live[q], Len(log) + 1, e) /\ cut' = cut))
  BY <1>3, <1>4, <1>5, RecordTypes
<1>7. /\ Seen(q, "QuestCompleted") = {}
      /\ \E m \in Seen(q, "QuestAccepted") : log[m].who = live[q].actor
  BY <1>2, <1>5 DEF QuestKnown
<1>8. required # Nothing => Seen(required, "EncounterCompleted") # {}
  BY DEF CompleteQuest, IInv, EndKnown
<1>9. QuestKnown(q)'
  <2>1. CASE live' = live /\ cut' # cut
    <3>1. Seen(q, "QuestCompleted")' = {}
      BY <1>3, <1>5, <1>7, <2>1, SeenGrows
    <3>2. PICK m \in Seen(q, "QuestAccepted") : log[m].who = live[q].actor
      BY <1>7
    <3>3. m \in Seen(q, "QuestAccepted")' /\ log'[m] = log[m]
      BY <1>3, <1>5, SeenGrows, RecordEffect
    <3>. QED  BY <1>2, <2>1, <3>1, <3>2, <3>3 DEF QuestKnown
  <2>2. CASE live'[q] = Reduce(live[q], Len(log) + 1, e) /\ cut' = cut
    <3>1. live'[q].status = "completed" /\ live'[q] \in QuestStates
      <4>1. live'[q] = [live[q] EXCEPT !.status = "completed"]
        BY <1>4, <2>2
      <4>. QED  BY <1>2, <4>1 DEF QuestStates
    <3>. QED  BY <3>1 DEF QuestKnown
  <2>. QED  BY <1>6, <2>1, <2>2
<1>10. \A n \in DOMAIN log' : Once(n)'
  BY <1>3, <1>5, <1>7, <1>8, OnceKeeps
<1>11. OutOfSessions
  BY <1>3, StreamsAssumption DEF OutOfSessions
<1>12. IInv'
  BY <1>3, <1>4, <1>6, <1>9, <1>10, OtherQuestsKeep DEF IInv
<1>. QED  BY <1>11, <1>12

LEMMA CreateGameSessionKeeps ==
    ASSUME IInv, NEW s \in Sessions, NEW c \in Campaigns, NEW p \in Principals,
           CreateGameSession(s, c, p)
    PROVE  IInv' /\ InSession(s, "GameSessionCreated", p, Nothing)
<1>1. PICK e : e = Event(s, c, "GameSessionCreated", p, Nothing)
  OBVIOUS
<1>2. /\ e \in Events /\ Record(e) /\ e.stream = s /\ e.type = "GameSessionCreated"
      /\ e.campaign = c /\ e.who = p /\ e.what = Nothing
  <2>1. s \in Streams /\ "GameSessionCreated" \in OtherTypes
    BY DEF Streams, OtherTypes
  <2>. QED  BY <1>1, <2>1, EventType DEF CreateGameSession
<1>3. Reduce(live[s], Len(log) + 1, e) \in Projections(s)
  <2>1. Reduce(live[s], Len(log) + 1, e) = Created(c, p)
    BY <1>2, StreamsAssumption DEF Reduce, ReduceSession
  <2>2. Created(c, p) \in GameSessions
    BY DEF Created, GameSessions
  <2>. QED  BY <2>1, <2>2 DEF Projections
<1>4. ReduceSession(live[s], Len(log) + 1, e) = Reduce(live[s], Len(log) + 1, e)
  BY <1>2, StreamsAssumption DEF Reduce
<1>5. InSession(s, "GameSessionCreated", p, Nothing)
  BY <1>2, <1>3, <1>4, RecordTypes DEF IInv, InSession
<1>6. IInv'
  BY <1>2, <1>3, ElsewhereKeeps, StreamsAssumption
<1>. QED  BY <1>5, <1>6

\* The reducer keeps a session a session.
LEMMA SessionTypes ==
    ASSUME NEW state \in GameSessions, NEW n \in Nat, NEW e, e.who \in Principals,
           e.type \in {"SessionMemberJoined", "SessionReadyChanged", "ActorControlGranted",
                       "GameSessionOpened", "GameSessionClosed"},
           e.type = "ActorControlGranted" => e.what \in Actors,
           e.type = "SessionReadyChanged" => e.what \in BOOLEAN
    PROVE  ReduceSession(state, n, e) \in GameSessions
<1>1. CASE e.type = "SessionMemberJoined"
  BY <1>1 DEF ReduceSession, GameSessions
<1>2. CASE e.type = "SessionReadyChanged"
  BY <1>2 DEF ReduceSession, GameSessions
<1>3. CASE e.type = "ActorControlGranted"
  BY <1>3 DEF ReduceSession, GameSessions
<1>4. CASE e.type = "GameSessionOpened"
  BY <1>4 DEF ReduceSession, Opened, GameSessions
<1>5. CASE e.type = "GameSessionClosed"
  BY <1>5 DEF ReduceSession, GameSessions
<1>. QED  BY <1>1, <1>2, <1>3, <1>4, <1>5

\* The commands to a session there is.
LEMMA SessionStepKeeps ==
    ASSUME IInv, NEW s \in Sessions, live[s] # Nothing,
           NEW t \in {"SessionMemberJoined", "SessionReadyChanged", "ActorControlGranted",
                      "GameSessionOpened", "GameSessionClosed"},
           NEW who \in Principals, NEW what \in BOOLEAN \cup Actors \cup {Nothing},
           t = "ActorControlGranted" => what \in Actors,
           t = "SessionReadyChanged" => what \in BOOLEAN,
           SessionEvent(s, t, who, what)
    PROVE  IInv' /\ InSession(s, t, who, what)
<1>1. PICK e : e = Event(s, live[s].campaign, t, who, what)
  OBVIOUS
<1>2. live[s] \in GameSessions
  BY DEF IInv, Typed, Streams, Projections
<1>3. /\ e \in Events /\ Record(e) /\ e.stream = s /\ e.type = t
      /\ e.who = who /\ e.what = what
  <2>1. /\ s \in Streams /\ t \in OtherTypes /\ live[s].campaign \in Campaigns
    BY <1>2 DEF Streams, GameSessions, OtherTypes
  <2>. QED  BY <1>1, <2>1, EventType DEF SessionEvent
<1>4. ReduceSession(live[s], Len(log) + 1, e) \in GameSessions
  <2>1. Len(log) + 1 \in Nat
    BY RecordEffect, <1>3 DEF IInv
  <2>. QED  BY <1>2, <1>3, <2>1, SessionTypes
<1>5. Reduce(live[s], Len(log) + 1, e) \in Projections(s)
  BY <1>3, <1>4, StreamsAssumption DEF Reduce, Projections
<1>6. ReduceSession(live[s], Len(log) + 1, e) = Reduce(live[s], Len(log) + 1, e)
  BY <1>3, StreamsAssumption DEF Reduce
<1>7. InSession(s, t, who, what)
  BY <1>3, <1>5, <1>6, RecordTypes DEF IInv, InSession
<1>8. IInv'
  BY <1>3, <1>5, ElsewhereKeeps, StreamsAssumption
<1>. QED  BY <1>7, <1>8

LEMMA TalkKeeps ==
    ASSUME IInv, NEW a \in Actors, NEW c \in Campaigns, TalkToNpc(a, c)
    PROVE  IInv' /\ OutOfSessions
<1>1. PICK e : e = Event(c, c, "SocialInteractionRecorded", a, Nothing)
  OBVIOUS
<1>2. /\ e \in Events /\ Record(e) /\ e.stream = c /\ e.type = "SocialInteractionRecorded"
  <2>1. c \in Streams /\ "SocialInteractionRecorded" \in OtherTypes
    BY DEF Streams, OtherTypes
  <2>. QED  BY <1>1, <2>1, EventType DEF TalkToNpc
<1>3. c \notin Sessions /\ c \notin Quests /\ c \notin Actors /\ c \notin Encounters
  BY StreamsAssumption
<1>4. live[c] \in Projections(c) /\ Reduce(live[c], Len(log) + 1, e) = live[c]
  BY <1>2, <1>3 DEF Reduce, IInv, Typed, Streams
<1>5. OutOfSessions
  BY <1>2, <1>3 DEF OutOfSessions
<1>6. IInv'
  BY <1>2, <1>3, <1>4, ElsewhereKeeps
<1>. QED  BY <1>5, <1>6

\* An event of an actor's stream, and what it makes of the actor's state.
ActorEvent(e) ==
    \/ e.type = "ItemPurchased" /\ e.what.left \in Nat
    \/ e.type = "ExperienceGranted"
    \/ e.type = "ProgressionChoiceApplied" /\ e.what \in Nat

LEMMA ActorReduced ==
    ASSUME NEW x \in ActorStates, NEW e, ActorEvent(e)
    PROVE  /\ ReduceActor(x, e) \in ActorStates
           /\ ReduceActor(x, e).currency = IF e.type = "ItemPurchased" THEN e.what.left ELSE x.currency
           /\ ReduceActor(x, e).items = IF e.type = "ItemPurchased" THEN x.items + 1 ELSE x.items
           /\ e.type = "ItemPurchased" => ReduceActor(x, e).points = x.points
           /\ e.type = "ExperienceGranted" => ReduceActor(x, e).points = x.points + 1
           /\ e.type = "ProgressionChoiceApplied" => ReduceActor(x, e).points = e.what
<1>1. CASE e.type = "ItemPurchased" /\ e.what.left \in Nat
  <2>1. ReduceActor(x, e) = [currency |-> e.what.left, items |-> x.items + 1, points |-> x.points]
    BY <1>1 DEF ReduceActor, Purchased, ActorStates
  <2>. QED  BY <1>1, <2>1 DEF ActorStates
<1>2. CASE e.type = "ExperienceGranted"
  <2>1. ReduceActor(x, e) = [currency |-> x.currency, items |-> x.items, points |-> x.points + 1]
    BY <1>2 DEF ReduceActor, ActorStates
  <2>. QED  BY <1>2, <2>1 DEF ActorStates
<1>3. CASE e.type = "ProgressionChoiceApplied" /\ e.what \in Nat
  <2>1. ReduceActor(x, e) = [currency |-> x.currency, items |-> x.items, points |-> e.what]
    BY <1>3 DEF ReduceActor, ActorStates
  <2>. QED  BY <1>3, <2>1 DEF ActorStates
<1>. QED  BY <1>1, <1>2, <1>3 DEF ActorEvent

LEMMA ActorStepKeeps ==
    ASSUME IInv, NEW a \in Actors, NEW e \in Events, Record(e), e.stream = a, ActorEvent(e)
    PROVE  IInv' /\ OutOfSessions
<1>1. a \notin Sessions /\ a \notin Quests /\ a \notin Encounters /\ a \in Streams
  BY StreamsAssumption DEF Streams
<1>2. live[a] \in ActorStates
  BY <1>1 DEF IInv, Typed, Projections
<1>3. Reduce(live[a], Len(log) + 1, e) = ReduceActor(live[a], e)
  BY <1>1 DEF Reduce
<1>4. Reduce(live[a], Len(log) + 1, e) \in Projections(a)
  <2>1. ReduceActor(live[a], e) \in ActorStates
    BY <1>2, ActorReduced
  <2>. QED  BY <1>1, <1>3, <2>1 DEF Projections
<1>5. OutOfSessions
  BY <1>1 DEF OutOfSessions
<1>6. e.type \notin {"QuestAccepted", "QuestCompleted"}
  BY DEF ActorEvent
<1>7. IInv'
  BY <1>1, <1>4, <1>6, ElsewhereKeeps
<1>. QED  BY <1>5, <1>7

\* A purse is charged what it holds at most.
LEMMA TradeKeeps ==
    ASSUME IInv, NEW a \in Actors, NEW price \in Prices, TradeItem(a, price)
    PROVE  IInv' /\ OutOfSessions
<1>1. PICK e : e = Event(a, Home[a], "ItemPurchased", a,
                         [price |-> price, left |-> live[a].currency - price])
  OBVIOUS
<1>2. a \in Streams
  BY DEF Streams
<1>3. live[a] \in ActorStates
  BY <1>2, StreamsAssumption DEF IInv, Typed, Projections
<1>4. live[a].currency - price \in Nat /\ Home[a] \in Campaigns
  BY <1>3, PlatformAssumption DEF TradeItem, CanPay, ActorStates
<1>5. /\ e = [stream |-> a, campaign |-> Home[a], type |-> "ItemPurchased", who |-> a,
               what |-> [price |-> price, left |-> live[a].currency - price]]
      /\ Record(e)
  BY <1>1 DEF Event, TradeItem
<1>6. e \in Events
  BY <1>4, <1>5 DEF Events, Purchases
<1>7. e.stream = a /\ ActorEvent(e)
  BY <1>4, <1>5 DEF ActorEvent
<1>. QED  BY <1>5, <1>6, <1>7, ActorStepKeeps

\* What rewards and choices put on record.
LEMMA ProgressRecorded ==
    ASSUME IInv, NEW a \in Actors, GrantExperience(a) \/ AdvanceActor(a)
    PROVE  \E e \in Events : Record(e) /\ e.stream = a /\ ActorEvent(e) /\ e.type # "ItemPurchased"
<1>1. a \in Streams /\ Home[a] \in Campaigns
  BY PlatformAssumption DEF Streams
<1>2. CASE GrantExperience(a)
  <2>1. PICK e : e = Event(a, Home[a], "ExperienceGranted", a, Nothing)
    OBVIOUS
  <2>2. e \in Events /\ e.stream = a /\ e.type = "ExperienceGranted"
    <3>1. "ExperienceGranted" \in OtherTypes
      BY DEF OtherTypes
    <3>. QED  BY <1>1, <2>1, <3>1, EventType
  <2>3. Record(e)
    BY <1>2, <2>1 DEF GrantExperience
  <2>. QED  BY <2>2, <2>3 DEF ActorEvent
<1>3. CASE AdvanceActor(a)
  <2>1. PICK e : e = Event(a, Home[a], "ProgressionChoiceApplied", a, live[a].points - 1)
    OBVIOUS
  <2>2. live[a].points - 1 \in Nat
    <3>1. live[a] \in ActorStates
      BY <1>1, StreamsAssumption DEF IInv, Typed, Projections
    <3>. QED  BY <1>3, <3>1 DEF AdvanceActor, ActorStates
  <2>3. e = [stream |-> a, campaign |-> Home[a], type |-> "ProgressionChoiceApplied", who |-> a,
             what |-> live[a].points - 1]
    BY <2>1 DEF Event
  <2>4. e \in Events
    BY <1>1, <2>2, <2>3 DEF Events, Advances
  <2>5. Record(e)
    BY <1>3, <2>1 DEF AdvanceActor
  <2>. QED  BY <2>2, <2>3, <2>4, <2>5 DEF ActorEvent
<1>. QED  BY <1>2, <1>3

LEMMA ProgressKeeps ==
    ASSUME IInv, NEW a \in Actors, GrantExperience(a) \/ AdvanceActor(a)
    PROVE  IInv' /\ OutOfSessions
BY ProgressRecorded, ActorStepKeeps

LEMMA EncounterEndsKeeps ==
    ASSUME IInv, NEW x \in Encounters, NEW winners, EncounterEnds(x, winners)
    PROVE  IInv' /\ OutOfSessions
<1>1. PICK e : e = Event(x, Home[x], "EncounterCompleted", Nothing, Nothing)
  OBVIOUS
<1>2. /\ e \in Events /\ Record(e) /\ e.stream = x /\ e.type = "EncounterCompleted"
  <2>1. /\ x \in Streams /\ "EncounterCompleted" \in OtherTypes
        /\ Home[x] \in Campaigns
    BY PlatformAssumption DEF Streams, OtherTypes
  <2>2. Record(e)
    BY <1>1 DEF EncounterEnds
  <2>. QED  BY <1>1, <2>1, <2>2, EventType
<1>3. x \notin Sessions /\ x \notin Quests /\ x \notin Actors
  BY StreamsAssumption
<1>4. Reduce(live[x], Len(log) + 1, e) \in Projections(x)
  BY <1>2, <1>3 DEF Reduce, Projections
<1>5. OutOfSessions
  BY <1>2, <1>3 DEF OutOfSessions
<1>6. IInv'
  BY <1>2, <1>3, <1>4, ElsewhereKeeps
<1>. QED  BY <1>5, <1>6

-----------------------------------------------------------------------------
(* Sessions open together *)

Joins(s) == Seen(s, "SessionMemberJoined") \cup Seen(s, "GameSessionCreated")
Words(s) == Seen(s, "SessionReadyChanged")
Opens(s) == Seen(s, "GameSessionOpened")

\* Of the words at the places W of the log l, the last of p is that p is ready.
SaidReady(l, W, p) ==
    \E w \in W : l[w].who = p /\ l[w].what /\ \A v \in W : l[v].who = p => v <= w

\* What the projection of a session says of the events the engine knows of.
Says(l, J, W, O, state) ==
    \/ state = Nothing /\ J = {} /\ W = {} /\ O = {}
    \/ /\ state \in GameSessions
       /\ \A j \in J : l[j].who \in state.members
       /\ state.status = "lobby" => O = {}
       /\ \A p \in state.ready : SaidReady(l, W, p)

\* SessionsOpenTogether, for one session.
Together(l, J, W, O) ==
    \A o \in O, j \in J :
        /\ j < o
        /\ \E w \in W : /\ l[w].who = l[j].who /\ w < o /\ l[w].what
                        /\ \A v \in W : l[v].who = l[j].who => v <= w \/ v > o

SessionKnown(s) == /\ Says(log, Joins(s), Words(s), Opens(s), live[s])
                   /\ Together(log, Joins(s), Words(s), Opens(s))

SInv == \A s \in Sessions : SessionKnown(s)

\* The log m continues the log l, of k events.
LEMMA Continued ==
    ASSUME NEW k \in Nat, NEW l, NEW m, \A i \in 1..k : m[i] = l[i],
           NEW J \in SUBSET (1..k), NEW W \in SUBSET (1..k), NEW O \in SUBSET (1..k)
    PROVE  /\ \A p : SaidReady(l, W, p) => SaidReady(m, W, p)
           /\ \A state : Says(l, J, W, O, state) => Says(m, J, W, O, state)
           /\ Together(l, J, W, O) => Together(m, J, W, O)
<1>1. ASSUME NEW p, SaidReady(l, W, p) PROVE SaidReady(m, W, p)
  BY <1>1 DEF SaidReady
<1>2. ASSUME NEW state, Says(l, J, W, O, state) PROVE Says(m, J, W, O, state)
  BY <1>1, <1>2 DEF Says
<1>3. ASSUME Together(l, J, W, O) PROVE Together(m, J, W, O)
  BY <1>3 DEF Together
<1>. QED  BY <1>1, <1>2, <1>3

\* A new word is its speaker's last, and later than every opening.
LEMMA NewWord ==
    ASSUME NEW k \in Nat, NEW l, NEW m, \A i \in 1..k : m[i] = l[i],
           NEW J \in SUBSET (1..k), NEW W \in SUBSET (1..k), NEW O \in SUBSET (1..k)
    PROVE  /\ \A p : SaidReady(l, W, p) /\ p # m[k + 1].who => SaidReady(m, W \cup {k + 1}, p)
           /\ m[k + 1].what => SaidReady(m, W \cup {k + 1}, m[k + 1].who)
           /\ Together(l, J, W, O) => Together(m, J, W \cup {k + 1}, O)
<1>1. ASSUME NEW p, SaidReady(l, W, p), p # m[k + 1].who PROVE SaidReady(m, W \cup {k + 1}, p)
  BY <1>1 DEF SaidReady
<1>2. ASSUME m[k + 1].what PROVE SaidReady(m, W \cup {k + 1}, m[k + 1].who)
  BY <1>2 DEF SaidReady
<1>3. ASSUME Together(l, J, W, O) PROVE Together(m, J, W \cup {k + 1}, O)
  <2>1. \A i \in 1..k : k + 1 > i
    OBVIOUS
  <2>2. \A o \in O : k + 1 > o
    BY <2>1
  <2>. QED  BY <1>3, <2>2 DEF Together
<1>. QED  BY <1>1, <1>2, <1>3

\* An opening finds ready whoever has said so last.
LEMMA NewOpening ==
    ASSUME NEW k \in Nat, NEW l, NEW m, \A i \in 1..k : m[i] = l[i],
           NEW J \in SUBSET (1..k), NEW W \in SUBSET (1..k), NEW O \in SUBSET (1..k),
           Together(l, J, W, O), \A j \in J : SaidReady(l, W, l[j].who)
    PROVE  Together(m, J, W, O \cup {k + 1})
<1>1. Together(m, J, W, O)
  BY Continued
<1>2. ASSUME NEW j \in J
      PROVE  /\ j < k + 1
             /\ \E w \in W : /\ m[w].who = m[j].who /\ w < k + 1 /\ m[w].what
                             /\ \A v \in W : m[v].who = m[j].who => v <= w \/ v > k + 1
  <2>1. SaidReady(m, W, m[j].who)
    BY Continued
  <2>2. j < k + 1 /\ \A w \in W : w < k + 1
    OBVIOUS
  <2>. QED  BY <2>1, <2>2 DEF SaidReady
<1>. QED  BY <1>1, <1>2 DEF Together

\* What the projections have seen of a session after an event of s and type t.
LEMMA SeenIs ==
    ASSUME Typed, NEW e \in Events, Record(e), NEW s, NEW t
    PROVE  /\ ~(e.stream = s /\ e.type = t /\ cut' = cut) => Seen(s, t)' = Seen(s, t)
           /\ e.stream = s /\ e.type = t /\ cut' = cut => Seen(s, t)' = Seen(s, t) \cup {Len(log) + 1}
<1>1. PICK k \in Nat : k = Len(log)
  BY RecordEffect
<1>2. /\ \A n \in 1..k : n \in Seen(s, t)' <=> n \in Seen(s, t)
      /\ Seen(s, t) \subseteq Seen(s, t)'
      /\ Seen(s, t)' \subseteq Seen(s, t) \cup {k + 1}
      /\ k + 1 \in Seen(s, t)' <=> e.stream = s /\ e.type = t /\ cut' = cut
  BY <1>1, SeenGrows
<1>. QED  BY <1>1, <1>2

\* An event that reaches no projection of s, or is of another stream, leaves s as it was.
LEMMA QuietKeeps ==
    ASSUME IInv, NEW s \in Sessions, SessionKnown(s), NEW e \in Events, Record(e),
           live'[s] = live[s], ~(e.stream = s /\ cut' = cut)
    PROVE  SessionKnown(s)'
<1>1. Typed
  BY DEF IInv
<1>2. PICK k \in Nat : k = Len(log)
  BY <1>1, RecordEffect
<1>3. PICK J : J = Joins(s)
  OBVIOUS
<1>4. PICK W : W = Words(s)
  OBVIOUS
<1>5. PICK O : O = Opens(s)
  OBVIOUS
<1>6. Joins(s)' = J /\ Words(s)' = W /\ Opens(s)' = O
  BY <1>1, <1>3, <1>4, <1>5, SeenIs DEF Joins, Words, Opens
<1>7. J \in SUBSET (1..k) /\ W \in SUBSET (1..k) /\ O \in SUBSET (1..k)
  BY <1>1, <1>2, <1>3, <1>4, <1>5, SeenGrows DEF Joins, Words, Opens
<1>8. PICK l : l = log
  OBVIOUS
<1>9. \A i \in 1..k : log'[i] = l[i]
  BY <1>1, <1>2, <1>8, RecordEffect
<1>10. Says(l, J, W, O, live[s]) /\ Together(l, J, W, O)
  BY <1>3, <1>4, <1>5, <1>8 DEF SessionKnown
<1>11. Says(log', J, W, O, live[s]) /\ Together(log', J, W, O)
  BY <1>7, <1>9, <1>10, Continued
<1>. QED  BY <1>6, <1>11 DEF SessionKnown

LEMMA OutOfSessionsKeeps == IInv /\ SInv /\ OutOfSessions => SInv'
<1>. SUFFICES ASSUME IInv, SInv, OutOfSessions, NEW s \in Sessions PROVE SessionKnown(s)'
  BY DEF SInv
<1>1. PICK e \in Events : Record(e) /\ e.stream \notin Sessions
  BY DEF OutOfSessions
<1>2. live'[s] = live[s]
  <2>1. DOMAIN live = Streams /\ s \in Streams
    BY DEF IInv, Typed, Streams
  <2>. QED  BY <1>1, <2>1 DEF Record
<1>. QED  BY <1>1, <1>2, QuietKeeps DEF SInv

\* A session's own event, once it reached the projection.
LEMMA InSessionKeeps ==
    ASSUME IInv, SInv, NEW s \in Sessions, NEW t, NEW who \in Principals, NEW what,
           InSession(s, t, who, what),
           t \in {"GameSessionCreated", "SessionMemberJoined", "SessionReadyChanged",
                  "ActorControlGranted", "GameSessionOpened", "GameSessionClosed"},
           IF t = "GameSessionCreated" THEN Unused(s) ELSE live[s] # Nothing,
           t = "SessionMemberJoined" => live[s].status = "lobby",
           t = "SessionReadyChanged" => what \in BOOLEAN,
           t = "ActorControlGranted" => what \in Actors,
           t = "GameSessionOpened" => AllReady(s)
    PROVE  SInv'
<1>1. PICK e \in Events :
         /\ Record(e) /\ e.stream = s /\ e.type = t /\ e.who = who /\ e.what = what
         /\ \/ live' = live /\ cut' # cut
            \/ live'[s] = ReduceSession(live[s], Len(log) + 1, e) /\ cut' = cut
  BY DEF InSession
<1>2. DOMAIN live = Streams /\ s \in Streams /\ Typed
  BY DEF IInv, Typed, Streams
<1>3. ASSUME NEW r \in Sessions, r # s \/ cut' # cut PROVE SessionKnown(r)'
  <2>1. live'[r] = live[r]
    <3>1. r \in Streams
      BY DEF Streams
    <3>2. CASE r # s
      BY <1>1, <1>2, <3>1, <3>2 DEF Record
    <3>3. CASE cut' # cut
      BY <1>1, <3>3
    <3>. QED  BY <1>3, <3>2, <3>3
  <2>2. ~(e.stream = r /\ cut' = cut)
    BY <1>1, <1>3
  <2>. QED  BY <1>1, <2>1, <2>2, QuietKeeps DEF SInv
<1>4. ASSUME cut' = cut PROVE SessionKnown(s)'
  <2>1. PICK k \in Nat : k = Len(log)
    BY <1>1, <1>2, RecordEffect
  <2>2. PICK J : J = Joins(s)
    OBVIOUS
  <2>3. PICK W : W = Words(s)
    OBVIOUS
  <2>4. PICK O : O = Opens(s)
    OBVIOUS
  <2>5. PICK l : l = log
    OBVIOUS
  <2>6. PICK state : state = live[s]
    OBVIOUS
  <2>7. J \in SUBSET (1..k) /\ W \in SUBSET (1..k) /\ O \in SUBSET (1..k)
    BY <1>1, <1>2, <2>1, <2>2, <2>3, <2>4, SeenGrows DEF Joins, Words, Opens
  <2>8. (\A i \in 1..k : log'[i] = l[i]) /\ log'[k + 1] = e
    BY <1>1, <1>2, <2>1, <2>5, RecordEffect
  <2>9. Says(l, J, W, O, state) /\ Together(l, J, W, O)
    BY <2>2, <2>3, <2>4, <2>5, <2>6 DEF SInv, SessionKnown
  <2>10. live'[s] = ReduceSession(state, k + 1, e)
    BY <1>1, <1>4, <2>1, <2>6
  <2>11. /\ Joins(s)' = IF t \in {"SessionMemberJoined", "GameSessionCreated"} THEN J \cup {k + 1} ELSE J
         /\ Words(s)' = IF t = "SessionReadyChanged" THEN W \cup {k + 1} ELSE W
         /\ Opens(s)' = IF t = "GameSessionOpened" THEN O \cup {k + 1} ELSE O
    <3>1. \A u : /\ t # u => Seen(s, u)' = Seen(s, u)
                 /\ t = u => Seen(s, u)' = Seen(s, u) \cup {k + 1}
      BY <1>1, <1>2, <1>4, <2>1, SeenIs
    <3>2. Words(s)' = (IF t = "SessionReadyChanged" THEN W \cup {k + 1} ELSE W)
      BY <2>3, <3>1 DEF Words
    <3>3. Opens(s)' = (IF t = "GameSessionOpened" THEN O \cup {k + 1} ELSE O)
      BY <2>4, <3>1 DEF Opens
    <3>4. Joins(s)' = (IF t \in {"SessionMemberJoined", "GameSessionCreated"} THEN J \cup {k + 1} ELSE J)
      <4>1. Joins(s)' = Seen(s, "SessionMemberJoined")' \cup Seen(s, "GameSessionCreated")'
        BY DEF Joins
      <4>2. J = Seen(s, "SessionMemberJoined") \cup Seen(s, "GameSessionCreated")
        BY <2>2 DEF Joins
      <4>3. CASE t = "SessionMemberJoined"
        BY <3>1, <4>1, <4>2, <4>3
      <4>4. CASE t = "GameSessionCreated"
        BY <3>1, <4>1, <4>2, <4>4
      <4>5. CASE t \notin {"SessionMemberJoined", "GameSessionCreated"}
        BY <3>1, <4>1, <4>2, <4>5
      <4>. QED  BY <4>3, <4>4, <4>5
    <3>. QED  BY <3>2, <3>3, <3>4
  <2>12. Says(log', J, W, O, state) /\ Together(log', J, W, O)
    BY <2>7, <2>8, <2>9, Continued
  <2>13. t # "GameSessionCreated" =>
            /\ state \in GameSessions
            /\ \A j \in J : l[j].who \in state.members
            /\ state.status = "lobby" => O = {}
            /\ \A p \in state.ready : SaidReady(l, W, p)
    BY <2>6, <2>9 DEF Says
  <2>14. t # "GameSessionCreated" => live'[s] \in GameSessions
    <3>1. k + 1 \in Nat
      BY <2>1
    <3>. QED  BY <1>1, <2>10, <2>13, <3>1, SessionTypes
  <2>15. CASE t = "GameSessionCreated"
    <3>1. J = {} /\ W = {} /\ O = {}
      BY <2>2, <2>3, <2>4, <2>15 DEF Unused, Joins, Words, Opens, Seen
    <3>2. live'[s] = Created(e.campaign, who)
      BY <1>1, <2>10, <2>15 DEF ReduceSession
    <3>3. e.campaign \in Campaigns
      BY DEF Events, Purchases, Advances, Others
    <3>4. Created(e.campaign, who) \in GameSessions
      BY <3>3 DEF Created, GameSessions
    <3>5. Says(log', {k + 1}, {}, {}, live'[s]) /\ Together(log', {k + 1}, {}, {})
      BY <1>1, <2>8, <3>2, <3>4 DEF Says, Together, Created
    <3>. QED  BY <2>11, <2>15, <3>1, <3>5 DEF SessionKnown
  <2>16. CASE t = "SessionMemberJoined"
    <3>1. live'[s] = [state EXCEPT !.members = @ \cup {who}, !.ready = @ \ {who}]
      BY <1>1, <2>10, <2>16 DEF ReduceSession
    <3>2. live'[s].members = state.members \cup {who} /\ live'[s].ready \subseteq state.ready
      BY <2>13, <2>16, <3>1 DEF GameSessions
    <3>3. O = {}
      BY <2>6, <2>13, <2>16
    <3>4. \A j \in J \cup {k + 1} : log'[j].who \in live'[s].members
      BY <1>1, <2>7, <2>8, <2>13, <2>16, <3>2
    <3>5. \A p \in live'[s].ready : SaidReady(log', W, p)
      BY <2>7, <2>8, <2>13, <2>16, <3>2, Continued
    <3>6. Says(log', J \cup {k + 1}, W, O, live'[s])
      BY <2>14, <2>16, <3>3, <3>4, <3>5 DEF Says
    <3>7. Together(log', J \cup {k + 1}, W, O)
      BY <3>3 DEF Together
    <3>. QED  BY <2>11, <2>16, <3>6, <3>7 DEF SessionKnown
  <2>17. CASE t = "SessionReadyChanged"
    <3>1. live'[s] = [state EXCEPT !.ready = IF what THEN @ \cup {who} ELSE @ \ {who}]
      BY <1>1, <2>10, <2>17 DEF ReduceSession
    <3>2. /\ live'[s].members = state.members /\ live'[s].status = state.status
          /\ live'[s].ready = IF what THEN state.ready \cup {who} ELSE state.ready \ {who}
      BY <2>13, <2>17, <3>1 DEF GameSessions
    <3>3. ASSUME NEW p \in live'[s].ready PROVE SaidReady(log', W \cup {k + 1}, p)
      <4>1. CASE p = who
        <5>1. what
          BY <2>17, <3>2, <3>3, <4>1
        <5>2. log'[k + 1].who = p /\ log'[k + 1].what
          BY <1>1, <2>8, <4>1, <5>1
        <5>. QED  BY <2>7, <2>8, <5>2, NewWord
      <4>2. CASE p # who
        <5>1. p \in state.ready
          BY <3>2, <3>3, <4>2
        <5>2. SaidReady(l, W, p) /\ p # log'[k + 1].who
          BY <1>1, <2>8, <2>13, <2>17, <4>2, <5>1
        <5>. QED  BY <2>7, <2>8, <5>2, NewWord
      <4>. QED  BY <4>1, <4>2
    <3>4. \A j \in J : log'[j].who \in live'[s].members
      BY <2>7, <2>8, <2>13, <2>17, <3>2
    <3>5. Says(log', J, W \cup {k + 1}, O, live'[s])
      BY <2>13, <2>14, <2>17, <3>2, <3>3, <3>4 DEF Says
    <3>6. Together(log', J, W \cup {k + 1}, O)
      BY <2>7, <2>8, <2>9, NewWord
    <3>. QED  BY <2>11, <2>17, <3>5, <3>6 DEF SessionKnown
  <2>18. CASE t \in {"ActorControlGranted", "GameSessionClosed", "GameSessionOpened"}
    <3>1. /\ live'[s].members = state.members /\ live'[s].ready = state.ready
          /\ t = "ActorControlGranted" => live'[s].status = state.status
          /\ t # "ActorControlGranted" => live'[s].status # "lobby"
      <4>1. CASE t = "ActorControlGranted"
        BY <1>1, <2>10, <2>13, <4>1 DEF ReduceSession, GameSessions
      <4>2. CASE t = "GameSessionClosed"
        BY <1>1, <2>10, <2>13, <4>2 DEF ReduceSession, GameSessions
      <4>3. CASE t = "GameSessionOpened"
        BY <1>1, <2>10, <2>13, <4>3 DEF ReduceSession, Opened, GameSessions
      <4>. QED  BY <2>18, <4>1, <4>2, <4>3
    <3>2. /\ \A j \in J : log'[j].who \in live'[s].members
          /\ \A p \in live'[s].ready : SaidReady(log', W, p)
      BY <2>7, <2>8, <2>13, <2>18, <3>1, Continued
    <3>3. live'[s].status = "lobby" => t = "ActorControlGranted" /\ O = {}
      BY <2>13, <2>18, <3>1
    <3>4. CASE t # "GameSessionOpened"
      <4>1. Says(log', J, W, O, live'[s])
        BY <2>14, <2>18, <3>2, <3>3 DEF Says
      <4>. QED  BY <2>11, <2>12, <2>18, <3>4, <4>1 DEF SessionKnown
    <3>5. CASE t = "GameSessionOpened"
      <4>1. state.members \subseteq state.ready
        BY <2>6, <3>5 DEF AllReady
      <4>2. \A j \in J : SaidReady(l, W, l[j].who)
        BY <2>13, <3>5, <4>1
      <4>3. Together(log', J, W, O \cup {k + 1})
        BY <2>7, <2>8, <2>9, <4>2, NewOpening
      <4>4. Says(log', J, W, O \cup {k + 1}, live'[s])
        BY <2>14, <3>2, <3>3, <3>5 DEF Says
      <4>. QED  BY <2>11, <3>5, <4>3, <4>4 DEF SessionKnown
    <3>. QED  BY <3>4, <3>5
  <2>. QED  BY <2>15, <2>16, <2>17, <2>18
<1>. QED  BY <1>1, <1>3, <1>4 DEF SInv

-----------------------------------------------------------------------------
(* Theorems *)

LEMMA InitInv == Init => IInv
<1>. SUFFICES ASSUME Init PROVE IInv
  OBVIOUS
<1>1. log = <<>> /\ cut = {} /\ DOMAIN live = Streams /\ \A s \in Streams : live[s] = Origin(s)
  BY DEF Init
<1>2. \A s \in Streams : Origin(s) \in Projections(s)
  BY StreamsAssumption DEF Origin, Projections, ActorStates, Purse, Streams
<1>3. Typed
  BY <1>1, <1>2 DEF Typed
<1>4. \A s, t : Seen(s, t) = {}
  BY <1>1 DEF Seen
<1>5. \A q \in Quests : live[q] = Nothing
  BY <1>1, StreamsAssumption DEF Origin, Streams
<1>6. \A x \in Encounters : live[x] = "active"
  BY <1>1, StreamsAssumption DEF Origin, Streams
<1>. QED  BY <1>1, <1>3, <1>4, <1>5, <1>6 DEF IInv, QuestKnown, EndKnown

LEMMA StepInv == IInv /\ [Next]_vars => IInv'
<1>. SUFFICES ASSUME IInv, [Next]_vars PROVE IInv'
  OBVIOUS
<1>1. ASSUME NEW s \in Sessions, NEW p \in Principals, NEW c \in Campaigns,
             CreateGameSession(s, c, p)
      PROVE  IInv'
  BY <1>1, CreateGameSessionKeeps
<1>2. ASSUME NEW s \in Sessions, NEW p \in Principals, JoinGameSession(s, p) PROVE IInv'
  BY <1>2, SessionStepKeeps DEF JoinGameSession
<1>3. ASSUME NEW s \in Sessions, NEW p \in Principals, NEW ready \in BOOLEAN,
             SetSessionReady(s, p, ready)
      PROVE  IInv'
  BY <1>3, SessionStepKeeps DEF SetSessionReady
<1>4. ASSUME NEW s \in Sessions, NEW p \in Principals, NEW a \in Actors, NEW q \in Principals,
             GrantActorControl(s, p, a, q)
      PROVE  IInv'
  BY <1>4, SessionStepKeeps DEF GrantActorControl
<1>5. ASSUME NEW s \in Sessions, NEW p \in Principals, OpenGameSession(s, p) \/ CloseGameSession(s, p)
      PROVE  IInv'
  BY <1>5, SessionStepKeeps DEF OpenGameSession, CloseGameSession
<1>6. ASSUME NEW a \in Actors, NEW c \in Campaigns, TalkToNpc(a, c) PROVE IInv'
  BY <1>6, TalkKeeps
<1>7. ASSUME NEW q \in Quests, NEW c \in Campaigns, CreateQuest(q, c) PROVE IInv'
  BY <1>7, CreateQuestKeeps
<1>8. ASSUME NEW q \in Quests, NEW a \in Actors, AcceptQuest(q, a) PROVE IInv'
  BY <1>8, AcceptQuestKeeps
<1>9. ASSUME NEW q \in Quests, NEW r \in Encounters \cup {Nothing}, CompleteQuest(q, r) PROVE IInv'
  BY <1>9, CompleteQuestKeeps
<1>10. ASSUME NEW a \in Actors, NEW price \in Prices, TradeItem(a, price) PROVE IInv'
  BY <1>10, TradeKeeps
<1>11. ASSUME NEW x \in Encounters, NEW winners, EncounterEnds(x, winners) PROVE IInv'
  BY <1>11, EncounterEndsKeeps
<1>12. ASSUME NEW a \in Actors, GrantExperience(a) \/ AdvanceActor(a) PROVE IInv'
  BY <1>12, ProgressKeeps
<1>13. CASE UNCHANGED vars
  BY <1>13 DEF vars, IInv, Typed, QuestKnown, EndKnown, Once, Seen
<1>. QED  BY <1>1, <1>2, <1>3, <1>4, <1>5, <1>6, <1>7, <1>8, <1>9, <1>10, <1>11, <1>13, <1>12
          DEF Next, Command

LEMMA InitSessions == Init => SInv
<1>. SUFFICES ASSUME Init, NEW s \in Sessions PROVE SessionKnown(s)
  BY DEF SInv
<1>1. live[s] = Nothing
  BY StreamsAssumption DEF Init, Origin, Streams
<1>2. \A t : Seen(s, t) = {}
  BY DEF Init, Seen
<1>3. Joins(s) = {} /\ Words(s) = {} /\ Opens(s) = {}
  BY <1>2 DEF Joins, Words, Opens
<1>. QED  BY <1>1, <1>3 DEF SessionKnown, Says, Together

LEMMA StepSessions == IInv /\ SInv /\ [Next]_vars => SInv'
<1>. SUFFICES ASSUME IInv, SInv, [Next]_vars PROVE SInv'
  OBVIOUS
<1>1. ASSUME NEW s \in Sessions, NEW p \in Principals, NEW c \in Campaigns,
             CreateGameSession(s, c, p)
      PROVE  SInv'
  <2>1. InSession(s, "GameSessionCreated", p, Nothing) /\ Unused(s)
    BY <1>1, CreateGameSessionKeeps DEF CreateGameSession
  <2>. QED  BY <2>1, InSessionKeeps
<1>2. ASSUME NEW s \in Sessions, NEW p \in Principals, JoinGameSession(s, p) PROVE SInv'
  <2>1. live[s] # Nothing /\ live[s].status = "lobby"
    BY <1>2 DEF JoinGameSession
  <2>2. InSession(s, "SessionMemberJoined", p, Nothing)
    BY <1>2, SessionStepKeeps DEF JoinGameSession
  <2>. QED  BY <2>1, <2>2, InSessionKeeps
<1>3. ASSUME NEW s \in Sessions, NEW p \in Principals, NEW ready \in BOOLEAN,
             SetSessionReady(s, p, ready)
      PROVE  SInv'
  <2>1. live[s] # Nothing /\ InSession(s, "SessionReadyChanged", p, ready)
    BY <1>3, SessionStepKeeps DEF SetSessionReady
  <2>. QED  BY <2>1, InSessionKeeps
<1>4. ASSUME NEW s \in Sessions, NEW p \in Principals, NEW a \in Actors, NEW q \in Principals,
             GrantActorControl(s, p, a, q)
      PROVE  SInv'
  <2>1. live[s] # Nothing /\ InSession(s, "ActorControlGranted", q, a)
    BY <1>4, SessionStepKeeps DEF GrantActorControl
  <2>. QED  BY <2>1, InSessionKeeps
<1>5. ASSUME NEW s \in Sessions, NEW p \in Principals, OpenGameSession(s, p) PROVE SInv'
  <2>1. live[s] # Nothing /\ AllReady(s) /\ InSession(s, "GameSessionOpened", p, Nothing)
    BY <1>5, SessionStepKeeps DEF OpenGameSession
  <2>. QED  BY <2>1, InSessionKeeps
<1>6. ASSUME NEW s \in Sessions, NEW p \in Principals, CloseGameSession(s, p) PROVE SInv'
  <2>1. live[s] # Nothing /\ InSession(s, "GameSessionClosed", p, Nothing)
    BY <1>6, SessionStepKeeps DEF CloseGameSession
  <2>. QED  BY <2>1, InSessionKeeps
<1>7. ASSUME OutOfSessions PROVE SInv'
  BY <1>7, OutOfSessionsKeeps
<1>8. ASSUME NEW a \in Actors, NEW c \in Campaigns, TalkToNpc(a, c) PROVE SInv'
  BY <1>7, <1>8, TalkKeeps
<1>9. ASSUME NEW q \in Quests, NEW c \in Campaigns, CreateQuest(q, c) PROVE SInv'
  BY <1>7, <1>9, CreateQuestKeeps
<1>10. ASSUME NEW q \in Quests, NEW a \in Actors, AcceptQuest(q, a) PROVE SInv'
  BY <1>7, <1>10, AcceptQuestKeeps
<1>11. ASSUME NEW q \in Quests, NEW r \in Encounters \cup {Nothing}, CompleteQuest(q, r) PROVE SInv'
  BY <1>7, <1>11, CompleteQuestKeeps
<1>12. ASSUME NEW a \in Actors, NEW price \in Prices, TradeItem(a, price) PROVE SInv'
  BY <1>7, <1>12, TradeKeeps
<1>13. ASSUME NEW x \in Encounters, NEW winners, EncounterEnds(x, winners) PROVE SInv'
  BY <1>7, <1>13, EncounterEndsKeeps
<1>15. ASSUME NEW a \in Actors, GrantExperience(a) \/ AdvanceActor(a) PROVE SInv'
  BY <1>7, <1>15, ProgressKeeps
<1>14. CASE UNCHANGED vars
  BY <1>14 DEF vars, SInv, SessionKnown, Joins, Words, Opens, Seen
<1>. QED  BY <1>1, <1>2, <1>3, <1>4, <1>5, <1>6, <1>8, <1>9, <1>10, <1>11, <1>12, <1>13, <1>14, <1>15
          DEF Next, Command

\* In every run, what the projections of quests and encounters say is on record.
THEOREM PlatformInvariant == Spec => []IInv
BY InitInv, StepInv, PTL DEF Spec

\* Projections and events are of their types; a purse never holds less than nothing.
THEOREM TypeCorrect == Spec => []TypeOK
<1>. DEFINE OwedTyped == owed \in SUBSET Actors
<1>1. Init => OwedTyped
  BY DEF Init
<1>2. OwedTyped /\ [Next]_vars => OwedTyped'
  BY DEF Next, EncounterEnds, GrantExperience, vars
<1>3. IInv /\ OwedTyped => TypeOK
  BY DEF IInv, Typed, Events, TypeOK
<1>. HIDE DEF OwedTyped
<1>. QED  BY <1>1, <1>2, <1>3, PlatformInvariant, PTL DEF Spec

\* A quest is accepted once and completed once, by the actor that accepted it and after
\* the encounter named as required, as far as the engine knew.
THEOREM QuestsOnce == Spec => []QuestsRunOnce
<1>1. IInv => QuestsRunOnce
  BY DEF IInv, Once, QuestsRunOnce, Seen
<1>. QED  BY <1>1, PlatformInvariant, PTL

\* At every opening on record, everybody who joined by then had said last to be ready,
\* and nobody joined later.
THEOREM OpenTogether == Spec => []SessionsOpenTogether
<1>1. Spec => []SInv
  BY PlatformInvariant, InitSessions, StepSessions, PTL DEF Spec
<1>2. SInv => SessionsOpenTogether
  <2>. SUFFICES ASSUME SInv, NEW s \in Sessions, NEW o \in Opens(s), NEW j \in Joins(s)
                PROVE  /\ j < o
                       /\ \E w \in Words(s) :
                             /\ log[w].who = log[j].who /\ w < o /\ log[w].what
                             /\ \A v \in Words(s) : log[v].who = log[j].who => v <= w \/ v > o
    BY DEF SessionsOpenTogether, Joins, Words, Opens
  <2>. QED  BY DEF SInv, SessionKnown, Together
<1>. QED  BY <1>1, <1>2, PTL

-----------------------------------------------------------------------------
(* Latest places *)

\* A non-empty set of natural numbers has a least member.
LEMMA NatMin ==
    ASSUME NEW T \in SUBSET Nat, T # {}
    PROVE  \E m \in T : \A k \in T : m <= k
<1>. DEFINE R == {ss \in Nat \X Nat : ss[1] < ss[2]}
<1>1. IsWellFoundedOn(R, Nat)
  BY NatLessThanWellFounded DEF OpToRel
<1>2. \A x, y \in Nat : x < y => <<x, y>> \in R
  OBVIOUS
<1>. HIDE DEF R
<1>3. PICK m \in T : \A y \in T : ~ (<<y, m>> \in R)
  BY <1>1, WFMin
<1>4. ASSUME NEW k \in T PROVE m <= k
  <2>1. ~ (k < m)
    BY <1>2, <1>3
  <2>. QED  BY <2>1
<1>. QED  BY <1>4

\* The latest of some places is one of them, or zero for none, and none is later.
LEMMA LatestIs ==
    ASSUME NEW k \in Nat, NEW P \in SUBSET (1..k)
    PROVE  /\ Latest(P) \in P \cup {0} /\ \A n \in P : n <= Latest(P)
           /\ Latest(P) \in 0..k
           /\ Latest(P) = 0 <=> P = {}
<1>. DEFINE T == {j \in Nat : \A n \in P : n <= j}
<1>1. T \in SUBSET Nat /\ k \in T
  OBVIOUS
<1>2. PICK m \in T : \A j \in T : m <= j
  BY <1>1, NatMin
<1>3. m \in P \cup {0}
  <2>1. SUFFICES ASSUME m \notin P, m # 0 PROVE FALSE
    OBVIOUS
  <2>2. m - 1 \in Nat
    BY <2>1
  <2>3. \A n \in P : n <= m - 1
    BY <2>1
  <2>4. m - 1 \in T
    BY <2>2, <2>3
  <2>5. m <= m - 1
    BY <1>2, <2>4
  <2>. QED  BY <2>5
<1>4. \A n \in P \cup {0} : m >= n
  OBVIOUS
<1>5. /\ Max(P \cup {0}) \in P \cup {0}
      /\ \A n \in P \cup {0} : Max(P \cup {0}) >= n
  BY <1>3, <1>4 DEF Max
<1>6. PICK z : z = Latest(P)
  OBVIOUS
<1>7. z \in P \cup {0} /\ \A n \in P \cup {0} : z >= n
  BY <1>5, <1>6 DEF Latest
<1>. HIDE DEF T
<1>8. z \in 0..k /\ (\A n \in P : n <= z) /\ (z = 0 <=> P = {})
  <2>1. \A n \in P : n \in 1..k
    OBVIOUS
  <2>2. z \in 0..k
    BY <1>7, <2>1
  <2>3. \A n \in P : n <= z
    BY <1>7, <2>1, <2>2
  <2>4. P # {} => z # 0
    <3>1. SUFFICES ASSUME P # {}, z = 0 PROVE FALSE
      OBVIOUS
    <3>2. PICK n \in P : n <= z
      BY <2>3, <3>1
    <3>3. n \in 1..k
      BY <2>1
    <3>. QED  BY <3>1, <3>2, <3>3
  <2>5. P = {} => z = 0
    BY <1>7
  <2>. QED  BY <2>2, <2>3, <2>4, <2>5
<1>. QED  BY <1>6, <1>7, <1>8

\* A later place is the latest.
LEMMA LatestNew ==
    ASSUME NEW k \in Nat, NEW P \in SUBSET (1..k)
    PROVE  Latest(P \cup {k + 1}) = k + 1
<1>1. k + 1 \in Nat /\ P \cup {k + 1} \in SUBSET (1..(k + 1))
  OBVIOUS
<1>2. /\ Latest(P \cup {k + 1}) \in 0..(k + 1)
      /\ k + 1 <= Latest(P \cup {k + 1})
  BY <1>1, LatestIs
<1>. QED  BY <1>2

-----------------------------------------------------------------------------
(* What the replay and the sum make of a longer log *)

\* f tells, event by event, what the first j of these events make of s.
Trace(s, events, j, f) ==
    f = [n \in 0..j |-> IF n = 0 THEN Origin(s)
                        ELSE IF events[n].stream = s THEN Reduce(f[n - 1], n, events[n])
                        ELSE f[n - 1]]

LEMMA TraceAt ==
    ASSUME NEW s, NEW events, NEW j \in Nat, NEW f, Trace(s, events, j, f)
    PROVE  /\ f[0] = Origin(s)
           /\ \A n \in 1..j : f[n] = IF events[n].stream = s THEN Reduce(f[n - 1], n, events[n])
                                     ELSE f[n - 1]
<1>1. PICK g : g = [n \in 0..j |-> IF n = 0 THEN Origin(s)
                        ELSE IF events[n].stream = s THEN Reduce(f[n - 1], n, events[n])
                        ELSE f[n - 1]]
  OBVIOUS
<1>2. f = g
  BY <1>1, Zenon DEF Trace
<1>3. \A n \in 0..j : g[n] = IF n = 0 THEN Origin(s)
                        ELSE IF events[n].stream = s THEN Reduce(f[n - 1], n, events[n])
                        ELSE f[n - 1]
  BY <1>1
<1>4. 0 \in 0..j /\ \A n \in 1..j : n \in 0..j /\ n # 0
  OBVIOUS
<1>. QED  BY <1>2, <1>3, <1>4, Zenon

LEMMA TraceGrows ==
    ASSUME NEW s, NEW events, NEW j \in Nat, NEW f, Trace(s, events, j, f)
    PROVE  \E g : Trace(s, events, j + 1, g)
<1>0. /\ f[0] = Origin(s)
      /\ \A n \in 1..j : f[n] = IF events[n].stream = s THEN Reduce(f[n - 1], n, events[n])
                                ELSE f[n - 1]
  BY TraceAt
<1>. DEFINE new == IF events[j + 1].stream = s THEN Reduce(f[j], j + 1, events[j + 1]) ELSE f[j]
            g == [n \in 0..(j + 1) |-> IF n = j + 1 THEN new ELSE f[n]]
            at(n) == IF n = 0 THEN Origin(s)
                     ELSE IF events[n].stream = s THEN Reduce(g[n - 1], n, events[n])
                     ELSE g[n - 1]
<1>1. \A n \in 0..j : g[n] = f[n] /\ n \in 0..(j + 1) /\ n # j + 1
  OBVIOUS
<1>2. g[j + 1] = new
  OBVIOUS
<1>3. at(0) = Origin(s)
  OBVIOUS
<1>4. ASSUME NEW n \in 0..(j + 1), n # 0 PROVE n - 1 \in 0..j /\ g[n - 1] = f[n - 1]
  <2>1. n - 1 \in 0..j
    BY <1>4
  <2>. QED  BY <1>1, <2>1
<1>5. ASSUME NEW n \in 0..(j + 1) PROVE (IF n = j + 1 THEN new ELSE f[n]) = at(n)
  <2>1. CASE n = 0
    <3>1. n # j + 1 /\ f[0] = Origin(s)
      BY <1>0, <2>1
    <3>. QED  BY <2>1, <3>1
  <2>2. CASE n # 0
    <3>1. at(n) = IF events[n].stream = s THEN Reduce(f[n - 1], n, events[n]) ELSE f[n - 1]
      <4>1. g[n - 1] = f[n - 1]
        BY <1>4, <2>2
      <4>. HIDE DEF g
      <4>. QED  BY <2>2, <4>1, Zenon
    <3>2. CASE n = j + 1
      <4>1. n - 1 = j
        BY <3>2
      <4>. QED  BY <3>1, <3>2, <4>1
    <3>3. CASE n # j + 1
      <4>1. n \in 1..j
        BY <2>2, <3>3
      <4>2. f[n] = IF events[n].stream = s THEN Reduce(f[n - 1], n, events[n]) ELSE f[n - 1]
        BY <1>0, <4>1
      <4>. QED  BY <3>1, <3>3, <4>2
    <3>. QED  BY <3>2, <3>3
  <2>. QED  BY <2>1, <2>2
<1>6. PICK h : h = g
  OBVIOUS
<1>7. h = [n \in 0..(j + 1) |-> at(n)]
  <2>. HIDE DEF at, new
  <2>. QED  BY <1>5, <1>6
<1>8. Trace(s, events, j + 1, h)
  <2>1. h = [n \in 0..(j + 1) |->
                IF n = 0 THEN Origin(s)
                ELSE IF events[n].stream = s THEN Reduce(h[n - 1], n, events[n])
                ELSE h[n - 1]]
    <3>. HIDE DEF g
    <3>. QED  BY <1>6, <1>7
  <2>. QED  BY <2>1, Zenon DEF Trace
<1>. QED  BY <1>8

LEMMA TraceExists ==
    ASSUME NEW s, NEW events, NEW k \in Nat
    PROVE  \E f : Trace(s, events, k, f)
<1>. DEFINE Missing == {j \in Nat : ~ \E f : Trace(s, events, j, f)}
<1>1. SUFFICES ASSUME Missing # {} PROVE FALSE
  BY <1>1
<1>2. PICK j \in Missing : \A i \in Missing : j <= i
  BY <1>1, NatMin
<1>3. CASE j = 0
  <2>1. PICK f : f = [n \in 0..0 |-> Origin(s)]
    OBVIOUS
  <2>2. f = [n \in 0..0 |-> IF n = 0 THEN Origin(s)
                            ELSE IF events[n].stream = s THEN Reduce(f[n - 1], n, events[n])
                            ELSE f[n - 1]]
    BY <2>1
  <2>3. Trace(s, events, 0, f)
    BY <2>2, Zenon DEF Trace
  <2>. QED  BY <1>3, <2>3
<1>4. CASE j # 0
  <2>1. PICK i \in Nat : i + 1 = j
    BY <1>4
  <2>2. i \notin Missing
    BY <1>2, <2>1
  <2>3. PICK f : Trace(s, events, i, f)
    BY <2>2
  <2>4. \E g : Trace(s, events, i + 1, g)
    BY <2>3, TraceGrows
  <2>. QED  BY <2>1, <2>4
<1>. QED  BY <1>3, <1>4

\* What the first events make of s does not depend on the later ones.
LEMMA TraceSame ==
    ASSUME NEW s, NEW l, NEW m, NEW k \in Nat, NEW i \in Nat, k <= i,
           \A n \in 1..k : m[n] = l[n],
           NEW f, Trace(s, l, k, f), NEW g, Trace(s, m, i, g)
    PROVE  g[k] = f[k]
<1>. DEFINE Differ == {n \in 0..k : g[n] # f[n]}
<1>0. /\ f[0] = Origin(s)
      /\ \A n \in 1..k : f[n] = IF l[n].stream = s THEN Reduce(f[n - 1], n, l[n]) ELSE f[n - 1]
  BY TraceAt
<1>1. /\ g[0] = Origin(s)
      /\ \A n \in 1..i : g[n] = IF m[n].stream = s THEN Reduce(g[n - 1], n, m[n]) ELSE g[n - 1]
  BY TraceAt
<1>2. SUFFICES ASSUME Differ # {} PROVE FALSE
  <2>1. k \in 0..k
    OBVIOUS
  <2>. QED  BY <1>2, <2>1
<1>3. PICK n \in Differ : \A j \in Differ : n <= j
  <2>1. Differ \in SUBSET Nat
    OBVIOUS
  <2>. QED  BY <1>2, <2>1, NatMin
<1>4. n # 0
  BY <1>0, <1>1, <1>3
<1>5. n \in 1..k /\ n \in 1..i /\ n - 1 \in 0..k /\ n - 1 < n
  BY <1>4
<1>6. n - 1 \notin Differ
  BY <1>3, <1>5
<1>7. g[n - 1] = f[n - 1]
  BY <1>5, <1>6
<1>8. m[n] = l[n]
  BY <1>5
<1>9. g[n] = f[n]
  BY <1>0, <1>1, <1>5, <1>7, <1>8
<1>. QED  BY <1>3, <1>9

LEMMA ReplayTraced ==
    ASSUME NEW s, NEW events, Len(events) \in Nat
    PROVE  \E f : Trace(s, events, Len(events), f) /\ Replay(s, events) = f[Len(events)]
<1>1. \E f : Trace(s, events, Len(events), f)
  BY TraceExists
<1>2. PICK f : f = CHOOSE g : Trace(s, events, Len(events), g)
  OBVIOUS
<1>3. Trace(s, events, Len(events), f)
  BY <1>1, <1>2, Zenon
<1>4. Replay(s, events) = f[Len(events)]
  BY <1>2, Zenon DEF Trace, Replay
<1>. QED  BY <1>3, <1>4

\* One more event is reduced last, if it is of the stream.
LEMMA ReplayStep ==
    ASSUME NEW s, NEW l, NEW m, NEW k \in Nat, Len(l) = k, Len(m) = k + 1,
           \A n \in 1..k : m[n] = l[n]
    PROVE  Replay(s, m) = IF m[k + 1].stream = s THEN Reduce(Replay(s, l), k + 1, m[k + 1])
                          ELSE Replay(s, l)
<1>1. PICK f : Trace(s, l, k, f) /\ Replay(s, l) = f[k]
  BY ReplayTraced
<1>2. PICK g : Trace(s, m, k + 1, g) /\ Replay(s, m) = g[k + 1]
  <2>1. Len(m) \in Nat
    OBVIOUS
  <2>. QED  BY <2>1, ReplayTraced
<1>3. k + 1 \in Nat /\ k <= k + 1 /\ k + 1 \in 1..(k + 1) /\ (k + 1) - 1 = k
  OBVIOUS
<1>4. g[k] = f[k]
  BY <1>1, <1>2, <1>3, TraceSame
<1>5. g[k + 1] = IF m[k + 1].stream = s THEN Reduce(g[(k + 1) - 1], k + 1, m[k + 1])
                 ELSE g[(k + 1) - 1]
  <2>1. \A n \in 1..(k + 1) : g[n] = IF m[n].stream = s THEN Reduce(g[n - 1], n, m[n])
                                     ELSE g[n - 1]
    BY <1>2, <1>3, TraceAt
  <2>. QED  BY <1>3, <2>1, Zenon
<1>. QED  BY <1>1, <1>2, <1>3, <1>4, <1>5

LEMMA ReplayNone == ASSUME NEW s PROVE Replay(s, <<>>) = Origin(s)
<1>1. Len(<<>>) = 0 /\ 0 \in Nat
  OBVIOUS
<1>2. PICK f : Trace(s, <<>>, 0, f) /\ Replay(s, <<>>) = f[0]
  BY <1>1, ReplayTraced
<1>. QED  BY <1>1, <1>2, TraceAt

\* f tells, event by event, what the purchases at these places cost together.
Sums(places, events, j, f) ==
    f = [n \in 0..j |-> IF n = 0 THEN 0
                        ELSE IF n \in places THEN f[n - 1] + events[n].what.price
                        ELSE f[n - 1]]

LEMMA SumsAt ==
    ASSUME NEW places, NEW events, NEW j \in Nat, NEW f, Sums(places, events, j, f)
    PROVE  /\ f[0] = 0
           /\ \A n \in 1..j : f[n] = IF n \in places THEN f[n - 1] + events[n].what.price
                                     ELSE f[n - 1]
<1>1. PICK g : g = [n \in 0..j |-> IF n = 0 THEN 0
                        ELSE IF n \in places THEN f[n - 1] + events[n].what.price
                        ELSE f[n - 1]]
  OBVIOUS
<1>2. f = g
  BY <1>1, Zenon DEF Sums
<1>3. \A n \in 0..j : g[n] = IF n = 0 THEN 0
                        ELSE IF n \in places THEN f[n - 1] + events[n].what.price
                        ELSE f[n - 1]
  BY <1>1
<1>4. 0 \in 0..j /\ \A n \in 1..j : n \in 0..j /\ n # 0
  OBVIOUS
<1>. QED  BY <1>2, <1>3, <1>4, Zenon

LEMMA SumsGrows ==
    ASSUME NEW places, NEW events, NEW j \in Nat, NEW f, Sums(places, events, j, f)
    PROVE  \E g : Sums(places, events, j + 1, g)
<1>0. /\ f[0] = 0
      /\ \A n \in 1..j : f[n] = IF n \in places THEN f[n - 1] + events[n].what.price
                                ELSE f[n - 1]
  BY SumsAt
<1>. DEFINE new == IF j + 1 \in places THEN f[j] + events[j + 1].what.price ELSE f[j]
            g == [n \in 0..(j + 1) |-> IF n = j + 1 THEN new ELSE f[n]]
            at(n) == IF n = 0 THEN 0
                     ELSE IF n \in places THEN g[n - 1] + events[n].what.price
                     ELSE g[n - 1]
<1>1. \A n \in 0..j : g[n] = f[n] /\ n \in 0..(j + 1) /\ n # j + 1
  OBVIOUS
<1>2. g[j + 1] = new
  OBVIOUS
<1>3. at(0) = 0
  OBVIOUS
<1>4. ASSUME NEW n \in 0..(j + 1), n # 0 PROVE n - 1 \in 0..j /\ g[n - 1] = f[n - 1]
  <2>1. n - 1 \in 0..j
    BY <1>4
  <2>. QED  BY <1>1, <2>1
<1>5. ASSUME NEW n \in 0..(j + 1) PROVE (IF n = j + 1 THEN new ELSE f[n]) = at(n)
  <2>1. CASE n = 0
    <3>1. n # j + 1 /\ f[0] = 0
      BY <1>0, <2>1
    <3>. QED  BY <2>1, <3>1
  <2>2. CASE n # 0
    <3>1. at(n) = IF n \in places THEN f[n - 1] + events[n].what.price ELSE f[n - 1]
      <4>1. g[n - 1] = f[n - 1]
        BY <1>4, <2>2
      <4>. HIDE DEF g
      <4>. QED  BY <2>2, <4>1, Zenon
    <3>2. CASE n = j + 1
      <4>1. n - 1 = j
        BY <3>2
      <4>. QED  BY <3>1, <3>2, <4>1
    <3>3. CASE n # j + 1
      <4>1. n \in 1..j
        BY <2>2, <3>3
      <4>2. f[n] = IF n \in places THEN f[n - 1] + events[n].what.price ELSE f[n - 1]
        BY <1>0, <4>1
      <4>. QED  BY <3>1, <3>3, <4>2
    <3>. QED  BY <3>2, <3>3
  <2>. QED  BY <2>1, <2>2
<1>6. PICK h : h = g
  OBVIOUS
<1>7. h = [n \in 0..(j + 1) |-> at(n)]
  <2>. HIDE DEF at, new
  <2>. QED  BY <1>5, <1>6
<1>8. Sums(places, events, j + 1, h)
  <2>1. h = [n \in 0..(j + 1) |->
                IF n = 0 THEN 0
                ELSE IF n \in places THEN h[n - 1] + events[n].what.price
                ELSE h[n - 1]]
    <3>. HIDE DEF g
    <3>. QED  BY <1>6, <1>7
  <2>. QED  BY <2>1, Zenon DEF Sums
<1>. QED  BY <1>8

LEMMA SumsExists ==
    ASSUME NEW places, NEW events, NEW k \in Nat
    PROVE  \E f : Sums(places, events, k, f)
<1>. DEFINE Missing == {j \in Nat : ~ \E f : Sums(places, events, j, f)}
<1>1. SUFFICES ASSUME Missing # {} PROVE FALSE
  BY <1>1
<1>2. PICK j \in Missing : \A i \in Missing : j <= i
  BY <1>1, NatMin
<1>3. CASE j = 0
  <2>1. PICK f : f = [n \in 0..0 |-> 0]
    OBVIOUS
  <2>2. f = [n \in 0..0 |-> IF n = 0 THEN 0
                            ELSE IF n \in places THEN f[n - 1] + events[n].what.price
                            ELSE f[n - 1]]
    BY <2>1
  <2>3. Sums(places, events, 0, f)
    BY <2>2, Zenon DEF Sums
  <2>. QED  BY <1>3, <2>3
<1>4. CASE j # 0
  <2>1. PICK i \in Nat : i + 1 = j
    BY <1>4
  <2>2. i \notin Missing
    BY <1>2, <2>1
  <2>3. PICK f : Sums(places, events, i, f)
    BY <2>2
  <2>4. \E g : Sums(places, events, i + 1, g)
    BY <2>3, SumsGrows
  <2>. QED  BY <2>1, <2>4
<1>. QED  BY <1>3, <1>4

\* What the first purchases cost does not depend on the later ones.
LEMMA SumsSame ==
    ASSUME NEW P, NEW Q, NEW l, NEW m, NEW k \in Nat, NEW i \in Nat, k <= i,
           \A n \in 1..k : m[n] = l[n] /\ (n \in Q <=> n \in P),
           NEW f, Sums(P, l, k, f), NEW g, Sums(Q, m, i, g)
    PROVE  g[k] = f[k]
<1>. DEFINE Differ == {n \in 0..k : g[n] # f[n]}
<1>0. /\ f[0] = 0
      /\ \A n \in 1..k : f[n] = IF n \in P THEN f[n - 1] + l[n].what.price ELSE f[n - 1]
  BY SumsAt
<1>1. /\ g[0] = 0
      /\ \A n \in 1..i : g[n] = IF n \in Q THEN g[n - 1] + m[n].what.price ELSE g[n - 1]
  BY SumsAt
<1>2. SUFFICES ASSUME Differ # {} PROVE FALSE
  <2>1. k \in 0..k
    OBVIOUS
  <2>. QED  BY <1>2, <2>1
<1>3. PICK n \in Differ : \A j \in Differ : n <= j
  <2>1. Differ \in SUBSET Nat
    OBVIOUS
  <2>. QED  BY <1>2, <2>1, NatMin
<1>4. n # 0
  BY <1>0, <1>1, <1>3
<1>5. n \in 1..k /\ n \in 1..i /\ n - 1 \in 0..k /\ n - 1 < n
  BY <1>4
<1>6. n - 1 \notin Differ
  BY <1>3, <1>5
<1>7. g[n - 1] = f[n - 1]
  BY <1>5, <1>6
<1>8. m[n] = l[n] /\ (n \in Q <=> n \in P)
  BY <1>5
<1>9. g[n] = f[n]
  BY <1>0, <1>1, <1>5, <1>7, <1>8
<1>. QED  BY <1>3, <1>9

LEMMA TotalSummed ==
    ASSUME NEW places, NEW events, Len(events) \in Nat
    PROVE  \E f : Sums(places, events, Len(events), f) /\ Total(events, places) = f[Len(events)]
<1>1. \E f : Sums(places, events, Len(events), f)
  BY SumsExists
<1>2. PICK f : f = CHOOSE g : Sums(places, events, Len(events), g)
  OBVIOUS
<1>3. Sums(places, events, Len(events), f)
  BY <1>1, <1>2, Zenon
<1>4. Total(events, places) = f[Len(events)]
  BY <1>2, Zenon DEF Sums, Total
<1>. QED  BY <1>3, <1>4

\* One more event adds its price, if it is among the places.
LEMMA TotalStep ==
    ASSUME NEW P, NEW Q, NEW l, NEW m, NEW k \in Nat, Len(l) = k, Len(m) = k + 1,
           \A n \in 1..k : m[n] = l[n] /\ (n \in Q <=> n \in P)
    PROVE  Total(m, Q) = IF k + 1 \in Q THEN Total(l, P) + m[k + 1].what.price
                         ELSE Total(l, P)
<1>1. PICK f : Sums(P, l, k, f) /\ Total(l, P) = f[k]
  BY TotalSummed
<1>2. PICK g : Sums(Q, m, k + 1, g) /\ Total(m, Q) = g[k + 1]
  <2>1. Len(m) \in Nat
    OBVIOUS
  <2>. QED  BY <2>1, TotalSummed
<1>3. k + 1 \in Nat /\ k <= k + 1 /\ k + 1 \in 1..(k + 1) /\ (k + 1) - 1 = k
  OBVIOUS
<1>4. g[k] = f[k]
  BY <1>1, <1>2, <1>3, SumsSame
<1>5. g[k + 1] = IF k + 1 \in Q THEN g[(k + 1) - 1] + m[k + 1].what.price
                 ELSE g[(k + 1) - 1]
  <2>1. \A n \in 1..(k + 1) : g[n] = IF n \in Q THEN g[n - 1] + m[n].what.price
                                     ELSE g[n - 1]
    BY <1>2, <1>3, SumsAt
  <2>. QED  BY <1>3, <2>1, Zenon
<1>. QED  BY <1>1, <1>2, <1>3, <1>4, <1>5

LEMMA TotalNone == ASSUME NEW places PROVE Total(<<>>, places) = 0
<1>1. PICK none : none = <<>>
  OBVIOUS
<1>2. Len(none) = 0 /\ Len(none) \in Nat
  BY <1>1
<1>3. PICK f : Sums(places, none, Len(none), f) /\ Total(none, places) = f[Len(none)]
  BY <1>2, TotalSummed
<1>4. f[0] = 0
  BY <1>2, <1>3, SumsAt
<1>. QED  BY <1>1, <1>2, <1>3, <1>4

-----------------------------------------------------------------------------
(* What is recorded, by the state that lets it be *)

LegalSession(e) ==
    IF e.type = "GameSessionCreated" THEN Unused(e.stream)
    ELSE /\ live[e.stream] # Nothing
         /\ e.type \in {"SessionMemberJoined", "SessionReadyChanged", "ActorControlGranted",
                        "GameSessionOpened", "GameSessionClosed"}
         /\ e.who \in Principals
         /\ e.type = "ActorControlGranted" => e.what \in Actors
         /\ e.type = "SessionReadyChanged" => e.what \in BOOLEAN

LegalQuest(e) ==
    IF e.type = "QuestCreated" THEN Unused(e.stream)
    ELSE /\ live[e.stream] # Nothing /\ e.who \in Actors \cup {Nothing}
         /\ \/ e.type = "QuestAccepted" /\ live[e.stream].status = "available"
            \/ e.type = "QuestCompleted" /\ live[e.stream].status = "accepted"

LegalActor(e) ==
    /\ ActorEvent(e)
    /\ e.type = "ItemPurchased" =>
          /\ e.what.left = live[e.stream].currency - e.what.price
          /\ e.what.price \in Nat

Legal(e) ==
    /\ e.stream \in Sessions => LegalSession(e)
    /\ e.stream \in Quests => LegalQuest(e)
    /\ e.stream \in Actors => LegalActor(e)

LEMMA SessionStepLegal ==
    ASSUME IInv, NEW s \in Sessions, live[s] # Nothing,
           NEW t \in {"SessionMemberJoined", "SessionReadyChanged", "ActorControlGranted",
                      "GameSessionOpened", "GameSessionClosed"},
           NEW who \in Principals, NEW what \in BOOLEAN \cup Actors \cup {Nothing},
           t = "ActorControlGranted" => what \in Actors,
           t = "SessionReadyChanged" => what \in BOOLEAN,
           SessionEvent(s, t, who, what)
    PROVE  \E e \in Events : Record(e) /\ Legal(e)
<1>1. PICK e : e = Event(s, live[s].campaign, t, who, what)
  OBVIOUS
<1>2. live[s] \in GameSessions
  BY DEF IInv, Typed, Streams, Projections
<1>3. e \in Events /\ Record(e) /\ e.stream = s /\ e.type = t /\ e.who = who /\ e.what = what
  <2>1. /\ s \in Streams /\ t \in OtherTypes /\ live[s].campaign \in Campaigns
    BY <1>2 DEF Streams, GameSessions, OtherTypes
  <2>. QED  BY <1>1, <2>1, EventType DEF SessionEvent
<1>4. s \notin Quests /\ s \notin Actors
  BY StreamsAssumption
<1>. QED  BY <1>3, <1>4 DEF Legal, LegalSession

\* Every command records one event, which the state it finds allows.
LEMMA StepsRecord ==
    ASSUME IInv, Next PROVE \E e \in Events : Record(e) /\ Legal(e)
<1>. DEFINE Goal == \E e \in Events : Record(e) /\ Legal(e)
<1>1. ASSUME NEW s \in Sessions, NEW p \in Principals, NEW c \in Campaigns,
             CreateGameSession(s, c, p)
      PROVE  Goal
  <2>1. PICK e : e = Event(s, c, "GameSessionCreated", p, Nothing)
    OBVIOUS
  <2>2. s \in Streams /\ "GameSessionCreated" \in OtherTypes
    BY DEF Streams, OtherTypes
  <2>3. e \in Events /\ Record(e) /\ e.stream = s /\ e.type = "GameSessionCreated"
    BY <1>1, <2>1, <2>2, EventType DEF CreateGameSession
  <2>. QED  BY <1>1, <2>3, StreamsAssumption DEF CreateGameSession, Legal, LegalSession
<1>2. ASSUME NEW s \in Sessions, NEW p \in Principals,
             JoinGameSession(s, p) \/ OpenGameSession(s, p) \/ CloseGameSession(s, p)
      PROVE  Goal
  BY <1>2, SessionStepLegal DEF JoinGameSession, OpenGameSession, CloseGameSession
<1>3. ASSUME NEW s \in Sessions, NEW p \in Principals, NEW ready \in BOOLEAN,
             SetSessionReady(s, p, ready)
      PROVE  Goal
  BY <1>3, SessionStepLegal DEF SetSessionReady
<1>4. ASSUME NEW s \in Sessions, NEW p \in Principals, NEW a \in Actors, NEW q \in Principals,
             GrantActorControl(s, p, a, q)
      PROVE  Goal
  BY <1>4, SessionStepLegal DEF GrantActorControl
<1>5. ASSUME NEW a \in Actors, NEW c \in Campaigns, TalkToNpc(a, c) PROVE Goal
  <2>1. PICK e : e = Event(c, c, "SocialInteractionRecorded", a, Nothing)
    OBVIOUS
  <2>2. c \in Streams /\ "SocialInteractionRecorded" \in OtherTypes
    BY DEF Streams, OtherTypes
  <2>3. e \in Events /\ Record(e) /\ e.stream = c
    BY <1>5, <2>1, <2>2, EventType DEF TalkToNpc
  <2>. QED  BY <2>3, StreamsAssumption DEF Legal
<1>6. ASSUME NEW q \in Quests, NEW c \in Campaigns, CreateQuest(q, c) PROVE Goal
  <2>1. PICK e : e = Event(q, c, "QuestCreated", Nothing, Nothing)
    OBVIOUS
  <2>2. q \in Streams /\ "QuestCreated" \in OtherTypes
    BY DEF Streams, OtherTypes
  <2>3. e \in Events /\ Record(e) /\ e.stream = q /\ e.type = "QuestCreated"
    BY <1>6, <2>1, <2>2, EventType DEF CreateQuest
  <2>. QED  BY <1>6, <2>3, StreamsAssumption DEF CreateQuest, Legal, LegalQuest
<1>7. ASSUME NEW q \in Quests, live[q] # Nothing
      PROVE  live[q].campaign \in Campaigns /\ live[q].actor \in Actors \cup {Nothing}
  <2>1. live[q] \in QuestStates
    BY <1>7, StreamsAssumption DEF IInv, Typed, Streams, Projections
  <2>. QED  BY <2>1 DEF QuestStates
<1>8. ASSUME NEW q \in Quests, NEW a \in Actors, AcceptQuest(q, a) PROVE Goal
  <2>1. PICK e : e = Event(q, live[q].campaign, "QuestAccepted", a, Nothing)
    OBVIOUS
  <2>2. /\ q \in Streams /\ "QuestAccepted" \in OtherTypes /\ live[q].campaign \in Campaigns
        /\ live[q] # Nothing
    BY <1>7, <1>8 DEF Streams, OtherTypes, AcceptQuest
  <2>3. e \in Events /\ Record(e) /\ e.stream = q /\ e.type = "QuestAccepted" /\ e.who = a
    BY <1>8, <2>1, <2>2, EventType DEF AcceptQuest
  <2>. QED  BY <1>8, <2>2, <2>3, StreamsAssumption DEF AcceptQuest, Available, Legal, LegalQuest
<1>9. ASSUME NEW q \in Quests, NEW r \in Encounters \cup {Nothing}, CompleteQuest(q, r) PROVE Goal
  <2>1. PICK e : e = Event(q, live[q].campaign, "QuestCompleted", live[q].actor, r)
    OBVIOUS
  <2>2. /\ q \in Streams /\ "QuestCompleted" \in OtherTypes /\ live[q].campaign \in Campaigns
        /\ live[q].actor \in Actors \cup {Nothing} /\ live[q] # Nothing
    BY <1>7, <1>9 DEF Streams, OtherTypes, CompleteQuest
  <2>3. e \in Events /\ e.stream = q /\ e.type = "QuestCompleted" /\ e.who = live[q].actor
    <3>1. r \in BOOLEAN \cup Actors \cup Encounters \cup {Nothing}
      OBVIOUS
    <3>. HIDE DEF Goal
    <3>. QED  BY <2>1, <2>2, <3>1, EventType
  <2>4. Record(e)
    BY <1>9, <2>1 DEF CompleteQuest
  <2>. QED  BY <1>9, <2>2, <2>3, <2>4, StreamsAssumption DEF CompleteQuest, Legal, LegalQuest
<1>10. ASSUME NEW a \in Actors, NEW price \in Prices, TradeItem(a, price) PROVE Goal
  <2>1. PICK e : e = Event(a, Home[a], "ItemPurchased", a,
                           [price |-> price, left |-> live[a].currency - price])
    OBVIOUS
  <2>2. a \notin Sessions /\ a \notin Quests /\ a \in Streams
    BY StreamsAssumption DEF Streams
  <2>3. live[a] \in ActorStates
    BY <2>2 DEF IInv, Typed, Projections
  <2>4. /\ live[a].currency - price \in Nat /\ Home[a] \in Campaigns /\ price \in Nat
    BY <1>10, <2>3, PlatformAssumption DEF TradeItem, CanPay, ActorStates
  <2>5. /\ e = [stream |-> a, campaign |-> Home[a], type |-> "ItemPurchased", who |-> a,
                 what |-> [price |-> price, left |-> live[a].currency - price]]
        /\ Record(e)
    BY <1>10, <2>1 DEF Event, TradeItem
  <2>6. e \in Events
    BY <2>4, <2>5 DEF Events, Purchases
  <2>7. Legal(e)
    BY <2>2, <2>4, <2>5 DEF Legal, LegalActor, ActorEvent
  <2>. QED  BY <2>5, <2>6, <2>7
<1>13. ASSUME NEW a \in Actors, GrantExperience(a) \/ AdvanceActor(a) PROVE Goal
  <2>1. PICK e \in Events : Record(e) /\ e.stream = a /\ ActorEvent(e) /\ e.type # "ItemPurchased"
    BY <1>13, ProgressRecorded
  <2>. QED  BY <2>1, StreamsAssumption DEF Legal, LegalActor
<1>11. ASSUME NEW x \in Encounters, NEW winners, EncounterEnds(x, winners) PROVE Goal
  <2>1. PICK e : e = Event(x, Home[x], "EncounterCompleted", Nothing, Nothing)
    OBVIOUS
  <2>2. x \in Streams /\ "EncounterCompleted" \in OtherTypes /\ Home[x] \in Campaigns
    BY PlatformAssumption DEF Streams, OtherTypes
  <2>3. e \in Events /\ Record(e) /\ e.stream = x
    BY <1>11, <2>1, <2>2, EventType DEF EncounterEnds
  <2>. QED  BY <2>3, StreamsAssumption DEF Legal
<1>. HIDE DEF Goal
<1>12. Goal
  BY <1>1, <1>2, <1>3, <1>4, <1>5, <1>6, <1>8, <1>9, <1>10, <1>11, <1>13 DEF Next, Command
<1>. QED  BY <1>12 DEF Goal

-----------------------------------------------------------------------------
(* Recaps, purses and replay *)

Own(s) == {n \in DOMAIN log : log[n].stream = s}

\* What an append does to the projections, and to the places a stream owns.
LEMMA RecordReaches ==
    ASSUME Typed, NEW e \in Events, Record(e), NEW k \in Nat, k = Len(log)
    PROVE  /\ e.stream \in Streams
           /\ \A s \in Streams : s # e.stream => live'[s] = live[s]
           /\ \/ live' = live /\ cut' # cut /\ cut' = cut \cup {k + 1}
              \/ live'[e.stream] = Reduce(live[e.stream], k + 1, e) /\ cut' = cut
           /\ \A s : Own(s) \in SUBSET (1..k)
           /\ \A s : Own(s)' = IF e.stream = s THEN Own(s) \cup {k + 1} ELSE Own(s)
           /\ cut \in SUBSET (1..k)
<1>1. e.stream \in Streams
  BY DEF Events, Purchases, Advances, Others, Streams
<1>2. DOMAIN live = Streams /\ cut \in SUBSET (1..k)
  BY DEF Typed
<1>3. \/ live' = [live EXCEPT ![e.stream] = Reduce(live[e.stream], k + 1, e)] /\ cut' = cut
      \/ live' = live /\ cut' = cut \cup {k + 1}
  BY DEF Record
<1>4. cut \cup {k + 1} # cut
  BY <1>2
<1>5. /\ log'[k + 1] = e /\ DOMAIN log = 1..k /\ DOMAIN log' = 1..(k + 1)
      /\ \A n \in 1..k : log'[n] = log[n]
  BY RecordEffect
<1>6. ASSUME NEW s
      PROVE  /\ Own(s) \in SUBSET (1..k)
             /\ Own(s)' = IF e.stream = s THEN Own(s) \cup {k + 1} ELSE Own(s)
  <2>1. k + 1 \in 1..(k + 1) /\ \A n \in 1..(k + 1) : n = k + 1 \/ n \in 1..k
    OBVIOUS
  <2>2. \A n \in 1..k : n \in 1..(k + 1)
    OBVIOUS
  <2>3. Own(s) = {n \in 1..k : log[n].stream = s}
    BY <1>5 DEF Own
  <2>4. Own(s)' = {n \in 1..(k + 1) : log'[n].stream = s}
    BY <1>5 DEF Own
  <2>. QED  BY <1>5, <2>1, <2>2, <2>3, <2>4
<1>. QED  BY <1>1, <1>2, <1>3, <1>4, <1>6

\* A session's projection bears the places of its last opening and closing.
SpansKnown(s) ==
    LET opened == Seen(s, "GameSessionOpened")
        closed == Seen(s, "GameSessionClosed")
    IN  \/ live[s] = Nothing /\ opened = {} /\ closed = {}
        \/ /\ live[s] \in GameSessions
           /\ live[s].opened = Latest(opened) /\ live[s].closed = Latest(closed)

LEMMA SpansKeep ==
    ASSUME IInv, IInv', NEW e \in Events, Record(e), Legal(e), NEW s \in Sessions, SpansKnown(s)
    PROVE  SpansKnown(s)'
<1>. DEFINE Op == "GameSessionOpened"
            Cl == "GameSessionClosed"
<1>1. Typed /\ s \in Streams
  BY DEF IInv, Streams
<1>2. PICK k \in Nat : k = Len(log)
  BY <1>1, RecordEffect
<1>3. PICK v : v = live[s]
  OBVIOUS
<1>4. PICK O : O = Seen(s, Op)
  OBVIOUS
<1>5. PICK C : C = Seen(s, Cl)
  OBVIOUS
<1>6. O \in SUBSET (1..k) /\ C \in SUBSET (1..k)
  BY <1>1, <1>2, <1>4, <1>5, SeenGrows
<1>7. \/ v = Nothing /\ O = {} /\ C = {}
      \/ v \in GameSessions /\ v.opened = Latest(O) /\ v.closed = Latest(C)
  BY <1>3, <1>4, <1>5 DEF SpansKnown
<1>8. CASE ~(e.stream = s /\ cut' = cut)
  <2>1. live'[s] = v
    BY <1>1, <1>2, <1>3, <1>8, RecordReaches
  <2>2. Seen(s, Op)' = O /\ Seen(s, Cl)' = C
    BY <1>1, <1>4, <1>5, <1>8, SeenIs
  <2>. QED  BY <1>7, <2>1, <2>2 DEF SpansKnown
<1>9. CASE e.stream = s /\ cut' = cut
  <2>1. live'[s] = ReduceSession(v, k + 1, e)
    <3>1. live'[s] = Reduce(v, k + 1, e)
      BY <1>1, <1>2, <1>3, <1>9, RecordReaches
    <3>. QED  BY <1>9, <3>1, StreamsAssumption DEF Reduce
  <2>2. Seen(s, Op)' = (IF e.type = Op THEN O \cup {k + 1} ELSE O)
    BY <1>1, <1>2, <1>4, <1>9, SeenIs
  <2>3. Seen(s, Cl)' = (IF e.type = Cl THEN C \cup {k + 1} ELSE C)
    BY <1>1, <1>2, <1>5, <1>9, SeenIs
  <2>4. Latest(O \cup {k + 1}) = k + 1 /\ Latest(C \cup {k + 1}) = k + 1 /\ Latest({}) = 0
    BY <1>6, LatestIs, LatestNew
  <2>5. live'[s] \in GameSessions \/ live'[s] = Nothing
    BY DEF IInv, Typed, Streams, Projections
  <2>6. CASE e.type = "GameSessionCreated"
    <3>1. O = {} /\ C = {}
      BY <1>4, <1>5, <1>9, <2>6 DEF Legal, LegalSession, Unused, Seen
    <3>2. live'[s] = Created(e.campaign, e.who)
      BY <2>1, <2>6 DEF ReduceSession
    <3>3. live'[s].opened = 0 /\ live'[s].closed = 0
      BY <3>2 DEF Created
    <3>. QED  BY <2>2, <2>3, <2>4, <2>5, <2>6, <3>1, <3>3 DEF SpansKnown
  <2>7. CASE e.type # "GameSessionCreated"
    <3>1. /\ v \in GameSessions /\ v.opened = Latest(O) /\ v.closed = Latest(C)
          /\ e.type \in {"SessionMemberJoined", "SessionReadyChanged", "ActorControlGranted", Op, Cl}
      BY <1>3, <1>7, <1>9, <2>7 DEF Legal, LegalSession
    <3>2. /\ live'[s].opened = IF e.type = Op THEN k + 1 ELSE v.opened
          /\ live'[s].closed = IF e.type = Cl THEN k + 1 ELSE v.closed
      <4>1. CASE e.type = "SessionMemberJoined"
        BY <2>1, <3>1, <4>1 DEF ReduceSession, GameSessions
      <4>2. CASE e.type = "SessionReadyChanged"
        BY <2>1, <3>1, <4>2 DEF ReduceSession, GameSessions
      <4>3. CASE e.type = "ActorControlGranted"
        BY <2>1, <3>1, <4>3 DEF ReduceSession, GameSessions
      <4>4. CASE e.type = Op
        BY <2>1, <3>1, <4>4 DEF ReduceSession, Opened, GameSessions
      <4>5. CASE e.type = Cl
        BY <2>1, <3>1, <4>5 DEF ReduceSession, GameSessions
      <4>. QED  BY <3>1, <4>1, <4>2, <4>3, <4>4, <4>5
    <3>3. /\ live'[s].opened = Latest(Seen(s, Op)')
          /\ live'[s].closed = Latest(Seen(s, Cl)')
      BY <2>2, <2>3, <2>4, <3>1, <3>2
    <3>4. live'[s] \in GameSessions
      <4>1. k + 1 \in Nat
        OBVIOUS
      <4>2. /\ e.who \in Principals
            /\ e.type = "ActorControlGranted" => e.what \in Actors
            /\ e.type = "SessionReadyChanged" => e.what \in BOOLEAN
        BY <1>9, <2>7 DEF Legal, LegalSession
      <4>. QED  BY <2>1, <3>1, <4>1, <4>2, SessionTypes
    <3>. QED  BY <3>3, <3>4 DEF SpansKnown
  <2>. QED  BY <2>6, <2>7
<1>. QED  BY <1>8, <1>9

\* A purse holds what the purchases the engine knows of have left.
PurseKnown(a) ==
    /\ Total(log, Seen(a, "ItemPurchased")) = Purse - live[a].currency
    /\ live[a].items = Cardinality(Seen(a, "ItemPurchased"))

LEMMA PurseKeeps ==
    ASSUME IInv, IInv', NEW e \in Events, Record(e), Legal(e), NEW a \in Actors, PurseKnown(a)
    PROVE  PurseKnown(a)'
<1>1. Typed /\ a \in Streams
  BY DEF IInv, Streams
<1>2. PICK k \in Nat : k = Len(log)
  BY <1>1, RecordEffect
<1>3. PICK v : v = live[a]
  OBVIOUS
<1>4. PICK B : B = Seen(a, "ItemPurchased")
  OBVIOUS
<1>5. PICK D : D = Seen(a, "ItemPurchased")'
  OBVIOUS
<1>6. PICK l : l = log
  OBVIOUS
<1>7. B \in SUBSET (1..k)
  BY <1>1, <1>2, <1>4, SeenGrows
<1>8. /\ Len(l) = k /\ Len(log') = k + 1 /\ log'[k + 1] = e
      /\ \A n \in 1..k : log'[n] = l[n]
  BY <1>1, <1>2, <1>6, RecordEffect
<1>9. Total(l, B) = Purse - v.currency /\ v.items = Cardinality(B)
  BY <1>3, <1>4, <1>6 DEF PurseKnown
<1>10. v \in ActorStates
  BY <1>1, <1>3, StreamsAssumption DEF Typed, Projections
<1>11. CASE ~(e.stream = a /\ e.type = "ItemPurchased" /\ cut' = cut)
  <2>1. D = B
    BY <1>1, <1>4, <1>5, <1>11, SeenIs
  <2>2. live'[a].currency = v.currency /\ live'[a].items = v.items
    <3>1. CASE e.stream = a /\ cut' # cut
      BY <1>1, <1>2, <1>3, <3>1, RecordReaches
    <3>3. CASE e.stream = a /\ cut' = cut
      <4>1. live'[a] = ReduceActor(v, e)
        <5>1. live'[a] = Reduce(v, k + 1, e)
          BY <1>1, <1>2, <1>3, <3>3, RecordReaches
        <5>. QED  BY <3>3, <5>1, StreamsAssumption DEF Reduce
      <4>2. ActorEvent(e) /\ e.type # "ItemPurchased"
        BY <1>11, <3>3 DEF Legal, LegalActor
      <4>. QED  BY <1>10, <4>1, <4>2, ActorReduced
    <3>2. CASE e.stream # a
      BY <1>1, <1>2, <1>3, <3>2, RecordReaches
    <3>. QED  BY <3>1, <3>2, <3>3
  <2>3. k + 1 \notin B
    BY <1>7
  <2>4. Total(log', B) = Total(l, B)
    BY <1>8, <2>3, TotalStep
  <2>. QED  BY <1>5, <1>9, <2>1, <2>2, <2>4 DEF PurseKnown
<1>12. CASE e.stream = a /\ e.type = "ItemPurchased" /\ cut' = cut
  <2>1. D = B \cup {k + 1}
    BY <1>1, <1>2, <1>4, <1>5, <1>12, SeenIs
  <2>2. live'[a].currency = e.what.left /\ live'[a].items = v.items + 1
    <3>1. live'[a] = Reduce(v, k + 1, e)
      BY <1>1, <1>2, <1>3, <1>12, RecordReaches
    <3>2. live'[a] = ReduceActor(v, e)
      BY <1>12, <3>1, StreamsAssumption DEF Reduce
    <3>3. ActorEvent(e)
      BY <1>12 DEF Legal, LegalActor
    <3>. QED  BY <1>10, <1>12, <3>2, <3>3, ActorReduced
  <2>3. /\ e.what.left = v.currency - e.what.price
        /\ e.what.price \in Nat /\ e.what.left \in Nat
    BY <1>3, <1>12 DEF Legal, LegalActor, ActorEvent
  <2>4. Total(log', D) = Total(l, B) + e.what.price
    <3>1. k + 1 \in D /\ \A n \in 1..k : n \in D <=> n \in B
      BY <2>1
    <3>. QED  BY <1>8, <3>1, TotalStep
  <2>5. Total(log', D) = Purse - e.what.left
    BY <1>9, <1>10, <2>3, <2>4 DEF ActorStates, Purse
  <2>6. Cardinality(D) = Cardinality(B) + 1
    <3>1. IsFiniteSet(B)
      <4>1. IsFiniteSet(1..k)
        BY FS_Interval
      <4>. QED  BY <1>7, <4>1, FS_Subset
    <3>2. k + 1 \notin B
      BY <1>7
    <3>. QED  BY <2>1, <3>1, <3>2, FS_AddElement
  <2>. QED  BY <1>5, <1>9, <2>2, <2>5, <2>6 DEF PurseKnown
<1>. QED  BY <1>11, <1>12

\* Where replay and the projection agree, and how far they may differ meanwhile: on how
\* far a quest is, never on whose quest an accepted one is.
Healed(s) ==
    /\ Own(s) \cap cut = {} => Replayed(s) = live[s]
    /\ s \in Quests =>
          /\ Latest(Own(s)) \notin cut => Replayed(s) = live[s]
          /\ live[s] # Nothing =>
                /\ Replayed(s) \in QuestStates
                /\ Replayed(s).campaign = live[s].campaign
                /\ live[s].status = "accepted" => Replayed(s).actor = live[s].actor

\* Once accepted or completed, a quest is the same whatever it was taken for before.
LEMMA QuestResult ==
    ASSUME NEW r \in QuestStates, NEW v \in QuestStates, r.campaign = v.campaign,
           v.status = "accepted" => r.actor = v.actor,
           NEW e, e.who \in Actors \cup {Nothing},
           \/ e.type = "QuestAccepted"
           \/ e.type = "QuestCompleted" /\ v.status = "accepted"
    PROVE  /\ ReduceQuest(r, e) = ReduceQuest(v, e)
           /\ ReduceQuest(r, e) \in QuestStates
           /\ ReduceQuest(r, e).campaign = v.campaign
           /\ e.type = "QuestCompleted" => ReduceQuest(r, e).actor = v.actor
<1>1. CASE e.type = "QuestAccepted"
  <2>1. ASSUME NEW x \in QuestStates
        PROVE  ReduceQuest(x, e) = [campaign |-> x.campaign, status |-> "accepted", actor |-> e.who]
    <3>1. ReduceQuest(x, e) = [x EXCEPT !.status = "accepted", !.actor = e.who]
      BY <1>1 DEF ReduceQuest, Accepted
    <3>. QED  BY <3>1 DEF QuestStates
  <2>. QED  BY <1>1, <2>1 DEF QuestStates
<1>2. CASE e.type = "QuestCompleted" /\ v.status = "accepted"
  <2>1. ASSUME NEW x \in QuestStates
        PROVE  ReduceQuest(x, e) = [campaign |-> x.campaign, status |-> "completed", actor |-> x.actor]
    <3>1. ReduceQuest(x, e) = [x EXCEPT !.status = "completed"]
      BY <1>2 DEF ReduceQuest
    <3>. QED  BY <3>1 DEF QuestStates
  <2>. QED  BY <1>2, <2>1 DEF QuestStates
<1>. QED  BY <1>1, <1>2

LEMMA HealKeeps ==
    ASSUME IInv, NEW e \in Events, Record(e), Legal(e), NEW s \in Streams, Healed(s)
    PROVE  Healed(s)'
<1>1. Typed
  BY DEF IInv
<1>2. PICK k \in Nat : k = Len(log)
  BY <1>1, RecordEffect
<1>3. PICK v : v = live[s]
  OBVIOUS
<1>4. PICK r : r = Replayed(s)
  OBVIOUS
<1>5. PICK P : P = Own(s)
  OBVIOUS
<1>6. PICK c : c = cut
  OBVIOUS
<1>7. P \in SUBSET (1..k) /\ c \in SUBSET (1..k)
  BY <1>1, <1>2, <1>5, <1>6, RecordReaches
<1>8. /\ P \cap c = {} => r = v
      /\ s \in Quests =>
            /\ Latest(P) \notin c => r = v
            /\ v # Nothing => /\ r \in QuestStates /\ r.campaign = v.campaign
                              /\ v.status = "accepted" => r.actor = v.actor
  BY <1>3, <1>4, <1>5, <1>6 DEF Healed
<1>9. cut' = c \/ cut' = c \cup {k + 1}
  BY <1>1, <1>2, <1>6, RecordReaches
<1>10. PICK l : l = log
  OBVIOUS
<1>11. Replayed(s)' = IF e.stream = s THEN Reduce(r, k + 1, e) ELSE r
  <2>1. /\ Len(l) = k /\ Len(log') = k + 1 /\ log'[k + 1] = e
        /\ \A n \in 1..k : log'[n] = l[n]
    BY <1>1, <1>2, <1>10, RecordEffect
  <2>2. Replay(s, log') = IF e.stream = s THEN Reduce(Replay(s, l), k + 1, e) ELSE Replay(s, l)
    BY <2>1, ReplayStep
  <2>3. r = Replay(s, l) /\ Replayed(s)' = Replay(s, log')
    BY <1>4, <1>10 DEF Replayed
  <2>. QED  BY <2>2, <2>3
<1>12. CASE e.stream # s
  <2>1. live'[s] = v /\ Replayed(s)' = r /\ Own(s)' = P
    BY <1>1, <1>2, <1>3, <1>5, <1>11, <1>12, RecordReaches
  <2>2. Latest(P) \in 0..k
    BY <1>7, LatestIs
  <2>3. (\A n \in 0..k : n \in cut' <=> n \in c) /\ P \cap cut' = P \cap c
    BY <1>7, <1>9
  <2>4. Latest(P) \in cut' <=> Latest(P) \in c
    BY <2>2, <2>3
  <2>. QED  BY <1>8, <2>1, <2>3, <2>4 DEF Healed
<1>13. CASE e.stream = s
  <2>1. Own(s)' = P \cup {k + 1} /\ Replayed(s)' = Reduce(r, k + 1, e)
    BY <1>1, <1>2, <1>5, <1>11, <1>13, RecordReaches
  <2>2. Latest(P \cup {k + 1}) = k + 1
    BY <1>7, LatestNew
  <2>3. CASE cut' = c
    <3>1. live'[s] = Reduce(v, k + 1, e)
      BY <1>1, <1>2, <1>3, <1>6, <1>13, <2>3, RecordReaches
    <3>2. P \cap cut' = {} => Replayed(s)' = live'[s]
      BY <1>8, <2>1, <2>3, <3>1
    <3>3. (P \cup {k + 1}) \cap cut' = {} => P \cap cut' = {}
      OBVIOUS
    <3>4. ASSUME s \in Quests
          PROVE  /\ Replayed(s)' = live'[s]
                 /\ live'[s] # Nothing => live'[s] \in QuestStates
      <4>1. CASE e.type = "QuestCreated"
        <5>1. \A x : Reduce(x, k + 1, e)
                        = [campaign |-> e.campaign, status |-> "available", actor |-> Nothing]
          BY <1>13, <3>4, <4>1, StreamsAssumption DEF Reduce, ReduceQuest
        <5>2. e.campaign \in Campaigns
          BY DEF Events, Purchases, Advances, Others
        <5>. QED  BY <2>1, <3>1, <5>1, <5>2 DEF QuestStates
      <4>2. CASE e.type # "QuestCreated"
        <5>1. v # Nothing /\ (\/ e.type = "QuestAccepted"
                              \/ e.type = "QuestCompleted" /\ v.status = "accepted")
              /\ e.who \in Actors \cup {Nothing}
          BY <1>3, <1>13, <3>4, <4>2 DEF Legal, LegalQuest
        <5>2. v \in QuestStates
          BY <1>1, <1>3, <3>4, <5>1, StreamsAssumption DEF Typed, Projections
        <5>3. ReduceQuest(r, e) = ReduceQuest(v, e) /\ ReduceQuest(r, e) \in QuestStates
          BY <1>8, <3>4, <5>1, <5>2, QuestResult
        <5>4. \A x : Reduce(x, k + 1, e) = ReduceQuest(x, e)
          BY <1>13, <3>4, StreamsAssumption DEF Reduce
        <5>. QED  BY <2>1, <3>1, <5>3, <5>4
      <4>. QED  BY <4>1, <4>2
    <3>. QED  BY <2>1, <3>2, <3>3, <3>4 DEF Healed
  <2>4. CASE cut' = c \cup {k + 1} /\ cut' # c
    <3>1. live'[s] = v
      BY <1>1, <1>2, <1>3, <1>6, <2>4, RecordReaches
    <3>2. k + 1 \in cut' /\ k + 1 \in P \cup {k + 1}
      BY <2>4
    <3>3. ASSUME s \in Quests, v # Nothing
          PROVE  /\ Replayed(s)' \in QuestStates
                 /\ Replayed(s)'.campaign = v.campaign
                 /\ v.status = "accepted" => Replayed(s)'.actor = v.actor
      <4>1. /\ \/ e.type = "QuestAccepted" /\ v.status = "available"
               \/ e.type = "QuestCompleted" /\ v.status = "accepted"
            /\ e.who \in Actors \cup {Nothing}
        BY <1>3, <1>13, <3>3 DEF Legal, LegalQuest, Unused
      <4>2. v \in QuestStates
        BY <1>1, <1>3, <3>3, StreamsAssumption DEF Typed, Projections
      <4>3. /\ ReduceQuest(r, e) \in QuestStates
            /\ ReduceQuest(r, e).campaign = v.campaign
            /\ e.type = "QuestCompleted" => ReduceQuest(r, e).actor = v.actor
        BY <1>8, <3>3, <4>1, <4>2, QuestResult
      <4>4. Reduce(r, k + 1, e) = ReduceQuest(r, e)
        BY <1>13, <3>3, StreamsAssumption DEF Reduce
      <4>. QED  BY <2>1, <4>1, <4>3, <4>4
    <3>. QED  BY <2>1, <2>2, <3>1, <3>2, <3>3 DEF Healed
  <2>. QED  BY <1>9, <2>3, <2>4
<1>. QED  BY <1>12, <1>13

\* The places of s's events of a type, seen or not.
OwnOf(s, type) == {n \in Own(s) : log[n].type = type}

\* Where replay and the projection agree on an actor.
ActorHealed(a) ==
    /\ Replayed(a) \in ActorStates
    /\ Latest(OwnOf(a, "ItemPurchased")) \notin cut => Replayed(a).currency = live[a].currency
    /\ /\ Latest(OwnOf(a, "ProgressionChoiceApplied")) \notin cut
       /\ \A n \in OwnOf(a, "ExperienceGranted") \cap cut :
             n < Latest(OwnOf(a, "ProgressionChoiceApplied"))
       => Replayed(a).points = live[a].points

LEMMA OwnOfGrows ==
    ASSUME Typed, NEW e \in Events, Record(e), NEW k \in Nat, k = Len(log), NEW s, NEW t
    PROVE  /\ OwnOf(s, t) \in SUBSET (1..k)
           /\ OwnOf(s, t)' = IF e.stream = s /\ e.type = t THEN OwnOf(s, t) \cup {k + 1} ELSE OwnOf(s, t)
<1>1. PICK P : P = Own(s)
  OBVIOUS
<1>2. P \in SUBSET (1..k) /\ Own(s)' = IF e.stream = s THEN P \cup {k + 1} ELSE P
  BY <1>1, RecordReaches
<1>3. log'[k + 1] = e /\ \A n \in 1..k : log'[n] = log[n]
  BY RecordEffect
<1>4. OwnOf(s, t) = {n \in P : log[n].type = t} /\ OwnOf(s, t)' = {n \in Own(s)' : log'[n].type = t}
  BY <1>1 DEF OwnOf
<1>. QED  BY <1>2, <1>3, <1>4

LEMMA ActorHealKeeps ==
    ASSUME IInv, NEW e \in Events, Record(e), Legal(e), NEW a \in Actors, ActorHealed(a)
    PROVE  ActorHealed(a)'
<1>. DEFINE Bought == "ItemPurchased"
            Granted == "ExperienceGranted"
            Chosen == "ProgressionChoiceApplied"
<1>1. Typed /\ a \in Streams
  BY DEF IInv, Streams
<1>2. PICK k \in Nat : k = Len(log)
  BY <1>1, RecordEffect
<1>3. PICK v : v = live[a]
  OBVIOUS
<1>4. PICK r : r = Replayed(a)
  OBVIOUS
<1>5. PICK B : B = OwnOf(a, Bought)
  OBVIOUS
<1>6. PICK G : G = OwnOf(a, Granted)
  OBVIOUS
<1>7. PICK X : X = OwnOf(a, Chosen)
  OBVIOUS
<1>8. PICK c : c = cut
  OBVIOUS
<1>9. /\ B \in SUBSET (1..k) /\ G \in SUBSET (1..k) /\ X \in SUBSET (1..k) /\ c \in SUBSET (1..k)
      /\ OwnOf(a, Bought)' = IF e.stream = a /\ e.type = Bought THEN B \cup {k + 1} ELSE B
      /\ OwnOf(a, Granted)' = IF e.stream = a /\ e.type = Granted THEN G \cup {k + 1} ELSE G
      /\ OwnOf(a, Chosen)' = IF e.stream = a /\ e.type = Chosen THEN X \cup {k + 1} ELSE X
  BY <1>1, <1>2, <1>5, <1>6, <1>7, <1>8, OwnOfGrows, RecordReaches
<1>10. PICK b : b = Latest(B)
  OBVIOUS
<1>11. PICK x : x = Latest(X)
  OBVIOUS
<1>12. b \in 0..k /\ x \in 0..k
  BY <1>9, <1>10, <1>11, LatestIs
<1>13. /\ r \in ActorStates /\ (b \notin c => r.currency = v.currency)
       /\ x \notin c /\ (\A n \in G \cap c : n < x) => r.points = v.points
  BY <1>3, <1>4, <1>5, <1>6, <1>7, <1>8, <1>10, <1>11 DEF ActorHealed
<1>14. v \in ActorStates
  BY <1>1, <1>3, StreamsAssumption DEF Typed, Projections
<1>15. PICK l : l = log
  OBVIOUS
<1>16. Replayed(a)' = IF e.stream = a THEN Reduce(r, k + 1, e) ELSE r
  <2>1. /\ Len(l) = k /\ Len(log') = k + 1 /\ log'[k + 1] = e
        /\ \A n \in 1..k : log'[n] = l[n]
    BY <1>1, <1>2, <1>15, RecordEffect
  <2>2. Replay(a, log') = IF e.stream = a THEN Reduce(Replay(a, l), k + 1, e) ELSE Replay(a, l)
    BY <2>1, ReplayStep
  <2>3. r = Replay(a, l) /\ Replayed(a)' = Replay(a, log')
    BY <1>4, <1>15 DEF Replayed
  <2>. QED  BY <2>2, <2>3
<1>17. cut' = c \/ cut' = c \cup {k + 1}
  BY <1>1, <1>2, <1>8, RecordReaches
<1>18. /\ b \in cut' <=> b \in c
       /\ x \in cut' <=> x \in c
       /\ G \cap cut' = G \cap c
       /\ k + 1 \notin c
  BY <1>9, <1>12, <1>17
<1>19. CASE e.stream # a
  <2>1. live'[a] = v /\ Replayed(a)' = r
    BY <1>1, <1>2, <1>3, <1>16, <1>19, RecordReaches
  <2>2. OwnOf(a, Bought)' = B /\ OwnOf(a, Granted)' = G /\ OwnOf(a, Chosen)' = X
    BY <1>9, <1>19
  <2>. QED  BY <1>10, <1>11, <1>13, <1>18, <2>1, <2>2 DEF ActorHealed
<1>20. CASE e.stream = a
  <2>1. ActorEvent(e)
    BY <1>20 DEF Legal, LegalActor
  <2>2. Replayed(a)' = ReduceActor(r, e)
    BY <1>16, <1>20, StreamsAssumption DEF Reduce
  <2>3. \/ live'[a] = ReduceActor(v, e) /\ cut' = c
        \/ live'[a] = v /\ cut' = c \cup {k + 1}
    <3>1. \/ live'[a] = Reduce(v, k + 1, e) /\ cut' = c
          \/ live'[a] = v /\ cut' = c \cup {k + 1}
      BY <1>1, <1>2, <1>3, <1>8, <1>20, RecordReaches
    <3>. QED  BY <1>20, <3>1, StreamsAssumption DEF Reduce
  <2>4. PICK q : q = ReduceActor(r, e)
    OBVIOUS
  <2>5. PICK w : w = ReduceActor(v, e)
    OBVIOUS
  <2>6. /\ q \in ActorStates /\ w \in ActorStates
        /\ e.type = Bought => /\ q.currency = w.currency
                              /\ q.points = r.points /\ w.points = v.points
        /\ e.type = Granted => /\ q.currency = r.currency /\ w.currency = v.currency
                               /\ q.points = r.points + 1 /\ w.points = v.points + 1
        /\ e.type = Chosen => /\ q.currency = r.currency /\ w.currency = v.currency
                              /\ q.points = w.points
    BY <1>13, <1>14, <2>1, <2>4, <2>5, ActorReduced
  <2>7. Latest(B \cup {k + 1}) = k + 1 /\ Latest(X \cup {k + 1}) = k + 1
    BY <1>9, LatestNew
  <2>8. CASE e.type = Bought
    <3>1. OwnOf(a, Bought)' = B \cup {k + 1} /\ OwnOf(a, Granted)' = G /\ OwnOf(a, Chosen)' = X
      BY <1>9, <1>20, <2>8
    <3>. QED  BY <1>11, <1>13, <1>18, <2>2, <2>3, <2>4, <2>5, <2>6, <2>7, <2>8, <3>1 DEF ActorHealed
  <2>9. CASE e.type = Granted
    <3>1. OwnOf(a, Bought)' = B /\ OwnOf(a, Granted)' = G \cup {k + 1} /\ OwnOf(a, Chosen)' = X
      BY <1>9, <1>20, <2>9
    <3>2. Replayed(a)' = q /\ q \in ActorStates
      BY <2>2, <2>4, <2>6
    <3>3. b \notin cut' => Replayed(a)'.currency = live'[a].currency
      BY <1>13, <1>18, <2>3, <2>5, <2>6, <2>9, <3>2
    <3>4. CASE cut' = c /\ live'[a] = w
      <4>1. (G \cup {k + 1}) \cap cut' = G \cap c
        BY <1>18, <3>4
      <4>. QED  BY <1>10, <1>11, <1>13, <1>18, <2>6, <2>9, <3>1, <3>2, <3>3, <3>4, <4>1 DEF ActorHealed
    <3>5. CASE cut' = c \cup {k + 1}
      <4>1. k + 1 \in (G \cup {k + 1}) \cap cut' /\ ~(k + 1 < x)
        BY <1>12, <3>5
      <4>. QED  BY <1>10, <1>11, <3>1, <3>2, <3>3, <4>1 DEF ActorHealed
    <3>. QED  BY <2>3, <2>5, <3>4, <3>5
  <2>10. CASE e.type = Chosen
    <3>1. OwnOf(a, Bought)' = B /\ OwnOf(a, Granted)' = G /\ OwnOf(a, Chosen)' = X \cup {k + 1}
      BY <1>9, <1>20, <2>10
    <3>2. Replayed(a)' = q /\ q \in ActorStates
      BY <2>2, <2>4, <2>6
    <3>3. b \notin cut' => Replayed(a)'.currency = live'[a].currency
      BY <1>13, <1>18, <2>3, <2>5, <2>6, <2>10, <3>2
    <3>4. k + 1 \notin cut' => Replayed(a)'.points = live'[a].points
      BY <2>3, <2>5, <2>6, <2>10, <3>2
    <3>. QED  BY <1>10, <2>7, <3>1, <3>2, <3>3, <3>4 DEF ActorHealed
  <2>. QED  BY <2>1, <2>8, <2>9, <2>10 DEF ActorEvent
<1>. QED  BY <1>19, <1>20

-----------------------------------------------------------------------------

HInv == /\ \A s \in Sessions : SpansKnown(s)
        /\ \A a \in Actors : PurseKnown(a)
        /\ \A s \in Streams : Healed(s)
        /\ \A a \in Actors : ActorHealed(a)

LEMMA InitHistory == Init => HInv
<1>. SUFFICES ASSUME Init PROVE HInv
  OBVIOUS
<1>1. log = <<>> /\ DOMAIN log = {} /\ \A s \in Streams : live[s] = Origin(s)
  BY DEF Init
<1>2. (\A s, t : Seen(s, t) = {}) /\ \A s : Own(s) = {}
  BY <1>1 DEF Seen, Own
<1>3. ASSUME NEW s \in Sessions PROVE SpansKnown(s)
  BY <1>1, <1>2, StreamsAssumption DEF SpansKnown, Origin, Streams
<1>4. ASSUME NEW a \in Actors PROVE PurseKnown(a)
  <2>1. live[a] = [currency |-> Purse, items |-> 0, points |-> 0]
    BY <1>1, StreamsAssumption DEF Origin, Streams
  <2>2. Total(log, {}) = 0 /\ Cardinality({}) = 0
    BY <1>1, TotalNone, FS_EmptySet
  <2>. QED  BY <1>2, <2>1, <2>2 DEF PurseKnown, Purse
<1>5. ASSUME NEW s \in Streams PROVE Healed(s)
  <2>1. Replayed(s) = live[s]
    BY <1>1, ReplayNone DEF Replayed
  <2>2. s \in Quests => live[s] = Nothing
    BY <1>1, StreamsAssumption DEF Origin
  <2>. QED  BY <2>1, <2>2 DEF Healed
<1>6. ASSUME NEW a \in Actors PROVE ActorHealed(a)
  <2>1. Replayed(a) = live[a] /\ live[a] \in ActorStates
    <3>1. a \in Streams /\ Origin(a) \in ActorStates
      BY StreamsAssumption DEF Origin, ActorStates, Purse, Streams
    <3>. QED  BY <1>1, <3>1, ReplayNone DEF Replayed
  <2>. QED  BY <2>1 DEF ActorHealed
<1>. QED  BY <1>3, <1>4, <1>5, <1>6 DEF HInv

LEMMA StepHistory == IInv /\ HInv /\ [Next]_vars => HInv'
<1>. SUFFICES ASSUME IInv, HInv, [Next]_vars PROVE HInv'
  OBVIOUS
<1>1. IInv'
  BY StepInv
<1>2. CASE Next
  <2>1. PICK e \in Events : Record(e) /\ Legal(e)
    BY <1>2, StepsRecord
  <2>. QED  BY <1>1, <2>1, SpansKeep, PurseKeeps, HealKeeps, ActorHealKeeps DEF HInv
<1>3. CASE UNCHANGED vars
  <2>1. /\ \A s, t : Seen(s, t)' = Seen(s, t)
        /\ \A s : Own(s)' = Own(s)
        /\ \A s, t : OwnOf(s, t)' = OwnOf(s, t)
    BY <1>3 DEF vars, Seen, Own, OwnOf
  <2>2. \A s : Replayed(s)' = Replayed(s)
    BY <1>3 DEF vars, Replayed
  <2>3. live' = live /\ log' = log /\ cut' = cut
    BY <1>3 DEF vars
  <2>. QED  BY <2>1, <2>2, <2>3 DEF HInv, SpansKnown, PurseKnown, Healed, ActorHealed
<1>. QED  BY <1>2, <1>3

LEMMA HistoryHolds == Spec => []IInv /\ []HInv
BY PlatformInvariant, InitHistory, StepHistory, PTL DEF Spec

\* The recap of a session counts what happened in its campaign since it was last opened, up
\* to its last closing, however often it was opened and whatever raised.
THEOREM RecapsSpan == Spec => []RecapSpansSession
<1>1. IInv /\ HInv => RecapSpansSession
  <2>. SUFFICES ASSUME IInv, HInv, NEW s \in Sessions, NEW O, NEW C,
                       O = Seen(s, "GameSessionOpened"), C = Seen(s, "GameSessionClosed"),
                       Latest(O) # 0
                PROVE  Recap(s) =
                         IF Latest(C) = 0
                         THEN {n \in Latest(O)..Len(log) : log[n].campaign = live[s].campaign}
                         ELSE {n \in Latest(O)..Latest(C) : log[n].campaign = live[s].campaign}
    BY DEF RecapSpansSession
  <2>1. PICK k \in Nat : k = Len(log) /\ DOMAIN log = 1..k /\ O \in SUBSET (1..k) /\ C \in SUBSET (1..k)
    <3>1. log \in Seq(Events)
      BY DEF IInv, Typed, Events
    <3>2. Len(log) \in Nat /\ DOMAIN log = 1..Len(log)
      BY <3>1
    <3>. QED  BY <3>2 DEF Seen
  <2>2. O # {}
    BY <2>1, LatestIs
  <2>3. live[s].opened = Latest(O) /\ live[s].closed = Latest(C)
    BY <2>2 DEF HInv, SpansKnown
  <2>4. PICK o : o = Latest(O)
    OBVIOUS
  <2>5. PICK z : z = Latest(C)
    OBVIOUS
  <2>6. o \in 1..k /\ z \in 0..k
    BY <2>1, <2>4, <2>5, LatestIs
  <2>7. Recap(s) = {n \in 1..k : log[n].campaign = live[s].campaign /\ n >= o /\ (z # 0 => n <= z)}
    BY <2>1, <2>3, <2>4, <2>5 DEF Recap
  <2>8. CASE z = 0
    <3>1. \A n : n \in 1..k /\ n >= o <=> n \in o..k
      BY <2>6
    <3>2. Recap(s) = {n \in o..k : log[n].campaign = live[s].campaign}
      BY <2>7, <2>8, <3>1
    <3>. QED  BY <2>1, <2>4, <2>5, <2>8, <3>2
  <2>9. CASE z # 0
    <3>1. \A n : n \in 1..k /\ n >= o /\ n <= z <=> n \in o..z
      BY <2>6
    <3>2. Recap(s) = {n \in o..z : log[n].campaign = live[s].campaign}
      BY <2>7, <2>9, <3>1
    <3>. QED  BY <2>4, <2>5, <2>9, <3>2
  <2>. QED  BY <2>8, <2>9
<1>. QED  BY <1>1, HistoryHolds, PTL

\* What is left in a purse is what it held less every purchase the engine knows of.
THEOREM Balances == Spec => []PursesBalance
<1>1. IInv /\ HInv => PursesBalance
  <2>. SUFFICES ASSUME IInv, HInv, NEW a \in Actors
                PROVE  /\ live[a].currency = Purse - Total(log, Seen(a, "ItemPurchased"))
                       /\ live[a].currency >= 0
                       /\ live[a].items = Cardinality(Seen(a, "ItemPurchased"))
    BY DEF PursesBalance
  <2>1. PurseKnown(a)
    BY DEF HInv
  <2>2. live[a].currency \in Nat
    <3>1. live[a] \in ActorStates
      BY StreamsAssumption DEF IInv, Typed, Projections, Streams
    <3>. QED  BY <3>1 DEF ActorStates
  <2>3. PICK z \in Nat : z = live[a].currency
    BY <2>2
  <2>4. Total(log, Seen(a, "ItemPurchased")) = Purse - z
    BY <2>1, <2>3 DEF PurseKnown
  <2>5. z = Purse - (Purse - z) /\ z >= 0
    BY DEF Purse
  <2>. QED  BY <2>1, <2>3, <2>4, <2>5 DEF PurseKnown
<1>. QED  BY <1>1, HistoryHolds, PTL

\* After any number of lost notices, replay and the live view are brought together again: of a
\* quest by its next event, of a purse by the next purchase, whatever came between, of
\* progression points by the next choice.
THEOREM Heals == Spec => []ReplayHeals
<1>1. HInv => ReplayHeals
  <2>. SUFFICES ASSUME HInv, NEW s \in Streams
                PROVE  /\ Own(s) \cap cut = {} => Replayed(s) = live[s]
                       /\ s \in Quests /\ Latest(Own(s)) \notin cut => Replayed(s) = live[s]
                       /\ s \in Actors =>
                             /\ Latest(OwnOf(s, "ItemPurchased")) \notin cut =>
                                   Replayed(s).currency = live[s].currency
                             /\ /\ Latest(OwnOf(s, "ProgressionChoiceApplied")) \notin cut
                                /\ \A n \in OwnOf(s, "ExperienceGranted") \cap cut :
                                      n < Latest(OwnOf(s, "ProgressionChoiceApplied"))
                                => Replayed(s).points = live[s].points
    BY DEF ReplayHeals, Own, OwnOf
  <2>. QED  BY DEF HInv, Healed, ActorHealed
<1>. QED  BY <1>1, HistoryHolds, PTL
=============================================================================
