---------------------------- MODULE World_proofs ----------------------------
(* What holds of World for any number of worlds, maps and actors, and whatever   *)
(* appends raise: hidden places and objects are earned, journeys are connected.  *)
EXTENDS World, SequenceTheorems, WellFoundedInduction, TLAPS

WorldStates ==
    [campaign: Campaigns, map: Maps, at: [Actors -> Places \cup {Nothing}],
     places: [Actors -> SUBSET Places], objects: [Actors -> SUBSET Objects]]
Types == {"WorldCreated", "ActorPlacedInWorld", "ActorTravelled", "LocationDiscovered",
          "WorldObjectDiscovered", "WorldObjectInteracted"}
Events == [world: Worlds, type: Types, actor: Actors \cup {Nothing},
           thing: Places \cup Objects \cup Maps \cup (Places \X Objects)]

TypeOK ==
    /\ worlds \in [Worlds -> WorldStates \cup {Nothing}]
    /\ log \in Seq(Events) /\ cut \subseteq DOMAIN log

\* The events of an actor in a world that the projection has seen.
SeenOf(w, a, types) ==
    {m \in DOMAIN log \ cut : log[m].world = w /\ log[m].actor = a /\ log[m].type \in types}

\* What an actor knows, it came to know: a hidden place it never was put in or found
\* is not among its places, for it could not have travelled there.
Learned(w, a) ==
    /\ \A p \in worlds[w].places[a] : Hidden(w, p) =>
           \E m \in SeenOf(w, a, {"ActorPlacedInWorld", "LocationDiscovered"}) : log[m].thing = p
    /\ \A o \in worlds[w].objects[a] :
           \E m \in SeenOf(w, a, {"WorldObjectDiscovered"}) : log[m].thing = o

\* Where an actor is, its last move took it.
LastMove(w, a, m) == m \in SeenOf(w, a, Moves) /\ \A k \in SeenOf(w, a, Moves) : k <= m
AtLastMove(w, a) ==
    worlds[w].at[a] # Nothing => \E m \in SeenOf(w, a, Moves) :
                                     LastMove(w, a, m) /\ log[m].thing = worlds[w].at[a]

IInv == /\ TypeOK /\ SecretsEarned /\ JourneysConnected
        /\ \A w \in Worlds : Exists(w) => \A a \in Actors : Learned(w, a) /\ AtLastMove(w, a)

-----------------------------------------------------------------------------
(* The events of a world *)

\* A non-empty set of natural numbers has a least member.
LEMMA NatMin ==
    ASSUME NEW T \in SUBSET Nat, T # {}
    PROVE  \E m \in T : \A k \in T : m <= k
<1>. DEFINE R == {ss \in Nat \X Nat : ss[1] < ss[2]}
<1>1. IsWellFoundedOn(R, Nat)
  BY NatLessThanWellFounded DEF OpToRel
<1>2. \A x, y \in Nat : x < y => <<x, y>> \in R
  OBVIOUS
<1>. HIDE DEF R
<1>3. PICK m \in T : \A y \in T : ~ (<<y, m>> \in R)
  BY <1>1, WFMin
<1>4. ASSUME NEW k \in T PROVE m <= k
  <2>1. ~ (k < m)
    BY <1>2, <1>3
  <2>. QED  BY <2>1
<1>. QED  BY <1>4

\* A search that finds something hidden finds one of the hidden things.
LEMMA FirstIsOne ==
    ASSUME NEW things \in SUBSET (Places \cup Objects), things # {}
    PROVE  First(things) \in things
<1>. DEFINE ranks == {Rank[x] : x \in things}
<1>1. ranks \subseteq Nat /\ ranks # {}
  BY WorldAssumption
<1>3. PICK n \in ranks : \A m \in ranks : n <= m
  <2>. HIDE DEF ranks
  <2>. QED  BY <1>1, NatMin
<1>4. PICK x \in things : Rank[x] = n
  OBVIOUS
<1>5. \A y \in things : Rank[x] <= Rank[y]
  BY <1>3, <1>4
<1>. QED  BY <1>4, <1>5 DEF First

\* What an append does to the history, whether it raises or not.
LEMMA RecordEffect ==
    ASSUME TypeOK, NEW w, NEW e \in Events, NEW state, Record(w, e, state)
    PROVE  /\ log' \in Seq(Events) /\ Len(log') = Len(log) + 1 /\ Len(log) \in Nat
           /\ DOMAIN log = 1..Len(log) /\ DOMAIN log' = 1..(Len(log) + 1)
           /\ \A n \in DOMAIN log : log'[n] = log[n]
           /\ log'[Len(log) + 1] = e
           /\ cut' \subseteq DOMAIN log' /\ \A n \in DOMAIN log : n \in cut' <=> n \in cut
           /\ \A n \in DOMAIN log : (1..(n - 1) \ cut') = (1..(n - 1) \ cut)
           /\ 1..Len(log) \ cut' = DOMAIN log \ cut
<1>1. log \in Seq(Events) /\ cut \subseteq DOMAIN log /\ log' = Append(log, e)
  BY DEF TypeOK, Record
<1>2. /\ log' \in Seq(Events) /\ Len(log') = Len(log) + 1 /\ Len(log) \in Nat
      /\ DOMAIN log = 1..Len(log) /\ DOMAIN log' = 1..(Len(log) + 1)
      /\ \A n \in DOMAIN log : log'[n] = log[n]
      /\ log'[Len(log) + 1] = e
  BY <1>1
<1>3. cut' = cut \/ cut' = cut \cup {Len(log) + 1}
  BY DEF Record
<1>4. cut' \subseteq DOMAIN log' /\ \A n \in DOMAIN log : n \in cut' <=> n \in cut
  BY <1>1, <1>2, <1>3
<1>5. \A n \in DOMAIN log : (1..(n - 1) \ cut') = (1..(n - 1) \ cut)
  BY <1>2, <1>4
<1>6. 1..Len(log) \ cut' = DOMAIN log \ cut
  BY <1>2, <1>4
<1>. QED  BY <1>2, <1>4, <1>5, <1>6

\* Of other actors and worlds the projection has seen what it had; of the event's own
\* it has seen the event too, unless the append raised.
LEMMA SeenGrows ==
    ASSUME TypeOK, NEW v, NEW e \in Events, NEW state, Record(v, e, state), NEW w, NEW a, NEW types
    PROVE  /\ SeenOf(w, a, types) \subseteq SeenOf(w, a, types)'
           /\ SeenOf(w, a, types)' \subseteq SeenOf(w, a, types) \cup {Len(log) + 1}
           /\ \A m \in SeenOf(w, a, types) : log'[m] = log[m] /\ m \in 1..Len(log)
           /\ Len(log) + 1 \in SeenOf(w, a, types)' <=>
                 Len(log) + 1 \notin cut' /\ e.world = w /\ e.actor = a /\ e.type \in types
<1>. DEFINE seen == SeenOf(w, a, types)
            now == {m \in DOMAIN log' \ cut' : log'[m].world = w /\ log'[m].actor = a /\ log'[m].type \in types}
<1>1. now = SeenOf(w, a, types)'
  BY DEF SeenOf
<1>2. /\ Len(log) \in Nat /\ DOMAIN log = 1..Len(log) /\ DOMAIN log' = 1..(Len(log) + 1)
      /\ \A n \in DOMAIN log : log'[n] = log[n] /\ (n \in cut' <=> n \in cut)
      /\ log'[Len(log) + 1] = e
  BY RecordEffect
<1>3. seen \subseteq now /\ \A m \in seen : log'[m] = log[m] /\ m \in 1..Len(log)
  BY <1>2 DEF SeenOf
<1>4. now \subseteq seen \cup {Len(log) + 1}
  BY <1>2 DEF SeenOf
<1>5. Len(log) + 1 \in now <=>
          Len(log) + 1 \notin cut' /\ e.world = w /\ e.actor = a /\ e.type \in types
  BY <1>2
<1>. QED  BY <1>1, <1>3, <1>4, <1>5

-----------------------------------------------------------------------------
(* Events and the maps they are of *)

Earned(n) ==
    /\ (log[n].type = "ActorTravelled" /\ Hidden(log[n].world, log[n].thing))
           => Known(n, {"ActorPlacedInWorld", "LocationDiscovered"}, log[n].thing)
    /\ (log[n].type = "WorldObjectInteracted" /\ log[n].thing \in worlds[log[n].world].map.secret)
           => Known(n, {"WorldObjectDiscovered"}, log[n].thing[2])

Connected(n) ==
    log[n].type = "ActorTravelled" =>
        \E m \in MovesBefore(n) : /\ \A k \in MovesBefore(n) : k <= m
                                  /\ log[n].thing \in worlds[log[n].world].map.links[log[m].thing]

\* An append leaves what is known before an older event as it was.
LEMMA PastStays ==
    ASSUME TypeOK, NEW w \in Worlds, NEW e \in Events, NEW state, Record(w, e, state),
           NEW n \in DOMAIN log
    PROVE  /\ MovesBefore(n)' = MovesBefore(n) /\ \A m \in MovesBefore(n) : log'[m] = log[m]
           /\ 1..(n - 1) \ cut' = 1..(n - 1) \ cut
           /\ \A m \in 1..(n - 1) \ cut : log'[m] = log[m]
<1>1. /\ n \in 1..Len(log) /\ Len(log) \in Nat /\ DOMAIN log = 1..Len(log)
      /\ (1..(n - 1) \ cut') = (1..(n - 1) \ cut)
      /\ \A m \in 1..Len(log) : log'[m] = log[m]
  BY RecordEffect
<1>2. log'[n] = log[n] /\ \A m \in 1..(n - 1) \ cut : log'[m] = log[m]
  BY <1>1
<1>3. MovesBefore(n)' = MovesBefore(n) /\ \A m \in MovesBefore(n) : log'[m] = log[m]
  BY <1>1, <1>2 DEF MovesBefore
<1>. QED  BY <1>1, <1>2, <1>3

\* An older event stays earned and connected: its world's map is what it was.
LEMMA OldEventsStay ==
    ASSUME IInv, NEW w \in Worlds, NEW e \in Events, NEW state, Record(w, e, state),
           NEW n \in DOMAIN log,
           log[n].world = w => worlds[w] # Nothing /\ state.map = worlds[w].map
    PROVE  Earned(n)' /\ Connected(n)'
<1>1. log'[n] = log[n]
  BY RecordEffect DEF IInv
<1>2. worlds'[log[n].world].map = worlds[log[n].world].map
  <2>1. log[n].world \in Worlds /\ worlds \in [Worlds -> WorldStates \cup {Nothing}]
    <3>1. /\ worlds \in [Worlds -> WorldStates \cup {Nothing}] /\ log \in Seq(Events)
          /\ n \in 1..Len(log)
      BY DEF IInv, TypeOK
    <3>2. log[n] \in Events
      BY <3>1, ElementOfSeq
    <3>. QED  BY <3>1, <3>2 DEF Events
  <2>2. CASE worlds' = worlds
    BY <2>2
  <2>3. CASE worlds' = [worlds EXCEPT ![w] = state]
    BY <2>1, <2>3
  <2>. QED  BY <2>2, <2>3 DEF Record
<1>3. Earned(n) /\ Connected(n)
  BY DEF IInv, SecretsEarned, JourneysConnected, Earned, Connected
<1>4. /\ MovesBefore(n)' = MovesBefore(n) /\ \A m \in MovesBefore(n) : log'[m] = log[m]
      /\ 1..(n - 1) \ cut' = 1..(n - 1) \ cut
      /\ \A m \in 1..(n - 1) \ cut : log'[m] = log[m]
  <2>1. TypeOK
    BY DEF IInv
  <2>. QED  BY <2>1, PastStays
<1>5. Earned(n)'
  BY <1>1, <1>2, <1>3, <1>4 DEF Earned, Hidden, Known
<1>6. Connected(n)'
  BY <1>1, <1>2, <1>3, <1>4 DEF Connected
<1>. QED  BY <1>5, <1>6

-----------------------------------------------------------------------------
(* The commands *)

\* A world is made from nothing: no event is of it yet.
LEMMA CreateKeeps ==
    ASSUME IInv, NEW w \in Worlds, NEW c \in Campaigns, NEW map \in Maps, CreateWorld(w, c, map)
    PROVE  IInv'
<1>. DEFINE e == Event(w, "WorldCreated", Nothing, map)
            state == Created(c, map)
<1>. PICK n \in Nat : n = Len(log) + 1
  BY DEF IInv, TypeOK
<1>1. /\ Record(w, e, state) /\ worlds[w] = Nothing
      /\ \A m \in DOMAIN log : log[m].world # w
  BY DEF CreateWorld, Exists
<1>2. e \in Events /\ e.type = "WorldCreated"
  BY DEF Event, Events, Types
<1>3. \/ state = Nothing
      \/ state \in WorldStates /\ \A a \in Actors : /\ state.at[a] = Nothing /\ state.places[a] = {}
                                                    /\ state.objects[a] = {}
  BY DEF Created, WorldStates
<1>. HIDE DEF e, state
<1>4. /\ log' \in Seq(Events) /\ cut' \subseteq DOMAIN log' /\ DOMAIN log' = DOMAIN log \cup {n}
      /\ log'[n] = e
  <2>1. TypeOK
    BY DEF IInv
  <2>2. /\ log' \in Seq(Events) /\ cut' \subseteq DOMAIN log' /\ Len(log) \in Nat
        /\ DOMAIN log = 1..Len(log) /\ DOMAIN log' = 1..(Len(log) + 1)
        /\ log'[Len(log) + 1] = e
    BY <1>1, <1>2, <2>1, RecordEffect
  <2>. QED  BY <2>2
<1>5. worlds' = [worlds EXCEPT ![w] = state] \/ worlds' = worlds
  BY <1>1 DEF Record
<1>6. TypeOK'
  BY <1>3, <1>4, <1>5 DEF IInv, TypeOK
<1>7. ASSUME NEW m \in DOMAIN log' PROVE Earned(m)' /\ Connected(m)'
  <2>1. CASE m \in DOMAIN log
    BY <1>1, <1>2, <2>1, OldEventsStay
  <2>2. CASE m = n
    BY <1>2, <1>4, <2>2 DEF Earned, Connected
  <2>. QED  BY <1>4, <2>1, <2>2
<1>8. SecretsEarned' /\ JourneysConnected'
  BY <1>7 DEF SecretsEarned, JourneysConnected, Earned, Connected
<1>9. ASSUME NEW v \in Worlds, Exists(v)', NEW a \in Actors PROVE Learned(v, a)' /\ AtLastMove(v, a)'
  <2>1. CASE v = w
    <3>1. worlds'[w] = state /\ state # Nothing
      BY <1>1, <1>5, <1>9, <2>1 DEF IInv, TypeOK, Exists
    <3>. QED  BY <1>3, <2>1, <3>1 DEF Learned, AtLastMove
  <2>2. CASE v # w
    <3>1. worlds'[v] = worlds[v] /\ Exists(v)
      BY <1>5, <1>9, <2>2 DEF IInv, TypeOK, Exists
    <3>2. Learned(v, a) /\ AtLastMove(v, a)
      BY <3>1 DEF IInv
    <3>3. \A types : /\ SeenOf(v, a, types)' = SeenOf(v, a, types)
                     /\ \A m \in SeenOf(v, a, types) : log'[m] = log[m]
      <4>. SUFFICES ASSUME NEW types
                    PROVE  /\ SeenOf(v, a, types)' = SeenOf(v, a, types)
                           /\ \A m \in SeenOf(v, a, types) : log'[m] = log[m]
        OBVIOUS
      <4>1. TypeOK /\ e.world = w
        BY DEF IInv, e, Event
      <4>2. e \in Events /\ Record(w, e, state)
        BY <1>1, <1>2
      <4>3. /\ SeenOf(v, a, types) \subseteq SeenOf(v, a, types)'
            /\ SeenOf(v, a, types)' \subseteq SeenOf(v, a, types) \cup {Len(log) + 1}
            /\ \A m \in SeenOf(v, a, types) : log'[m] = log[m] /\ m \in 1..Len(log)
            /\ Len(log) + 1 \in SeenOf(v, a, types)' <=>
                  Len(log) + 1 \notin cut' /\ e.world = v /\ e.actor = a /\ e.type \in types
        BY <4>1, <4>2, SeenGrows, Zenon
      <4>. QED  BY <2>2, <4>1, <4>3
    <3>. QED  BY <3>1, <3>2, <3>3 DEF Learned, AtLastMove, LastMove, Hidden
  <2>. QED  BY <2>1, <2>2
<1>. QED  BY <1>6, <1>8, <1>9 DEF IInv

\* A command in a world that exists, whose append may raise.
LEMMA DoesKeeps ==
    ASSUME IInv, NEW w \in Worlds, NEW a \in Actors, NEW type \in Types, type # "WorldCreated",
           NEW thing \in Places \cup Objects \cup (Places \X Objects),
           worlds[w] # Nothing, Does(w, type, a, thing),
           type \in Moves \cup {"LocationDiscovered"} => thing \in Places,
           type = "WorldObjectDiscovered" => thing \in Objects,
           type = "ActorTravelled" => Here(w, a) # Nothing /\ MayEnter(w, a, thing),
           (type = "WorldObjectInteracted" /\ thing \in worlds[w].map.secret)
               => thing[2] \in worlds[w].objects[a]
    PROVE  IInv'
<1>. DEFINE e == Event(w, type, a, thing)
            state == Reduce(worlds[w], e)
<1>. PICK n \in Nat : n = Len(log) + 1
  BY DEF IInv, TypeOK
<1>1. TypeOK /\ worlds[w] \in WorldStates /\ Exists(w)
  BY DEF IInv, TypeOK, Exists
<1>2. /\ e \in Events /\ e.world = w /\ e.type = type /\ e.actor = a /\ e.thing = thing
  BY DEF Event, Events
<1>3. Record(w, e, state)
  BY DEF Does
<1>. HIDE DEF e
<1>4. /\ state \in WorldStates /\ state.map = worlds[w].map
      /\ \A b \in Actors \ {a} : /\ state.at[b] = worlds[w].at[b]
                                 /\ state.places[b] = worlds[w].places[b]
                                 /\ state.objects[b] = worlds[w].objects[b]
      /\ state.at[a] = IF type \in Moves THEN thing ELSE worlds[w].at[a]
      /\ state.places[a] = IF type \in Moves \cup {"LocationDiscovered"}
                           THEN worlds[w].places[a] \cup {thing} ELSE worlds[w].places[a]
      /\ state.objects[a] = IF type = "WorldObjectDiscovered"
                            THEN worlds[w].objects[a] \cup {thing} ELSE worlds[w].objects[a]
  <2>1. worlds[w] \in WorldStates
    BY <1>1
  <2>2. CASE type \in Moves
    <3>. DEFINE at == [worlds[w].at EXCEPT ![a] = thing]
                places == [worlds[w].places EXCEPT ![a] = @ \cup {thing}]
    <3>1. state = [[worlds[w] EXCEPT !.at = at] EXCEPT !.places = places]
      BY <1>2, <2>2 DEF state, Reduce, Moves, WorldStates
    <3>2. /\ at \in [Actors -> Places \cup {Nothing}] /\ at[a] = thing
          /\ places \in [Actors -> SUBSET Places] /\ places[a] = worlds[w].places[a] \cup {thing}
          /\ \A b \in Actors \ {a} : at[b] = worlds[w].at[b] /\ places[b] = worlds[w].places[b]
      BY <2>1, <2>2 DEF WorldStates
    <3>. HIDE DEF at, places
    <3>3. /\ state \in WorldStates /\ state.map = worlds[w].map
          /\ state.at = at /\ state.places = places /\ state.objects = worlds[w].objects
      BY <2>1, <3>1, <3>2 DEF WorldStates
    <3>. QED  BY <2>2, <3>2, <3>3 DEF Moves
  <2>3. CASE type = "LocationDiscovered"
    <3>1. state = [worlds[w] EXCEPT !.places[a] = @ \cup {thing}]
      BY <1>2, <2>3 DEF state, Reduce
    <3>. QED  BY <2>1, <2>3, <3>1 DEF WorldStates, Moves
  <2>4. CASE type = "WorldObjectDiscovered"
    <3>1. state = [worlds[w] EXCEPT !.objects[a] = @ \cup {thing}]
      BY <1>2, <2>4 DEF state, Reduce
    <3>. QED  BY <2>1, <2>4, <3>1 DEF WorldStates, Moves
  <2>5. CASE type \notin Moves \cup {"LocationDiscovered", "WorldObjectDiscovered"}
    <3>1. state = worlds[w]
      BY <1>2, <2>5 DEF state, Reduce, Moves
    <3>. QED  BY <2>1, <2>5, <3>1 DEF WorldStates, Moves
  <2>. QED  BY <2>2, <2>3, <2>4, <2>5
<1>. HIDE DEF state
<1>5. \/ worlds' = [worlds EXCEPT ![w] = state] /\ cut' = cut
      \/ worlds' = worlds /\ cut' = cut \cup {n}
  BY <1>3 DEF Record
<1>6. /\ log' \in Seq(Events) /\ cut' \subseteq DOMAIN log'
      /\ Len(log) \in Nat /\ DOMAIN log = 1..Len(log) /\ DOMAIN log' = 1..n
      /\ \A m \in DOMAIN log : log'[m] = log[m]
      /\ log'[n] = e /\ 1..(n - 1) \ cut' = DOMAIN log \ cut
  <2>1. /\ log' \in Seq(Events) /\ cut' \subseteq DOMAIN log'
        /\ Len(log) \in Nat /\ DOMAIN log = 1..Len(log) /\ DOMAIN log' = 1..(Len(log) + 1)
        /\ \A m \in DOMAIN log : log'[m] = log[m]
        /\ log'[Len(log) + 1] = e /\ 1..Len(log) \ cut' = DOMAIN log \ cut
    BY <1>1, <1>2, <1>3, RecordEffect
  <2>. QED  BY <2>1
<1>7. TypeOK'
  BY <1>1, <1>4, <1>5, <1>6 DEF TypeOK
<1>8. /\ worlds'[w].map = worlds[w].map /\ \A v \in Worlds \ {w} : worlds'[v] = worlds[v]
      /\ \A b \in Actors \ {a} : /\ worlds'[w].at[b] = worlds[w].at[b]
                                 /\ worlds'[w].places[b] = worlds[w].places[b]
                                 /\ worlds'[w].objects[b] = worlds[w].objects[b]
  BY <1>1, <1>4, <1>5 DEF TypeOK
<1>9. Learned(w, a) /\ AtLastMove(w, a)
  BY <1>1 DEF IInv
<1>10. Earned(n)'
  <2>1. ASSUME type = "ActorTravelled", Hidden(w, thing)
        PROVE  Known(n, {"ActorPlacedInWorld", "LocationDiscovered"}, thing)'
    <3>1. thing \in worlds[w].places[a]
      BY <2>1 DEF MayEnter
    <3>2. PICK m \in SeenOf(w, a, {"ActorPlacedInWorld", "LocationDiscovered"}) : log[m].thing = thing
      BY <1>9, <2>1, <3>1 DEF Learned
    <3>3. /\ m \in DOMAIN log \ cut /\ log[m].world = w /\ log[m].actor = a
          /\ log[m].type \in {"ActorPlacedInWorld", "LocationDiscovered"}
      BY <3>2 DEF SeenOf
    <3>. QED  BY <1>2, <1>6, <3>2, <3>3 DEF Known
  <2>2. ASSUME type = "WorldObjectInteracted", thing \in worlds[w].map.secret
        PROVE  Known(n, {"WorldObjectDiscovered"}, thing[2])'
    <3>1. PICK m \in SeenOf(w, a, {"WorldObjectDiscovered"}) : log[m].thing = thing[2]
      BY <1>9, <2>2 DEF Learned
    <3>2. /\ m \in DOMAIN log \ cut /\ log[m].world = w /\ log[m].actor = a
          /\ log[m].type \in {"WorldObjectDiscovered"}
      BY <3>1 DEF SeenOf
    <3>. QED  BY <1>2, <1>6, <3>1, <3>2 DEF Known
  <2>3. Hidden(w, thing)' <=> Hidden(w, thing)
    BY <1>8 DEF Hidden
  <2>4. log'[n].world = w /\ log'[n].type = type /\ log'[n].thing = thing
    BY <1>2, <1>6
  <2>. QED  BY <1>8, <2>1, <2>2, <2>3, <2>4 DEF Earned, Hidden, Known
<1>11. Connected(n)'
  <2>. SUFFICES ASSUME type = "ActorTravelled" PROVE Connected(n)'
    BY <1>2, <1>6 DEF Connected
  <2>1. PICK m \in SeenOf(w, a, Moves) : LastMove(w, a, m) /\ log[m].thing = worlds[w].at[a]
    BY <1>9 DEF AtLastMove, Here
  <2>2. MovesBefore(n)' = SeenOf(w, a, Moves)
    BY <1>2, <1>6 DEF MovesBefore, SeenOf
  <2>3. m \in DOMAIN log /\ log'[m] = log[m]
    BY <1>6 DEF SeenOf
  <2>4. thing \in worlds'[w].map.links[log'[m].thing]
    BY <1>8, <2>1, <2>3 DEF MayEnter, Here
  <2>. QED  BY <1>2, <1>6, <2>1, <2>2, <2>4 DEF Connected, LastMove
<1>12. SecretsEarned' /\ JourneysConnected'
  <2>1. ASSUME NEW m \in DOMAIN log PROVE Earned(m)' /\ Connected(m)'
    BY <1>1, <1>2, <1>3, <1>4, OldEventsStay
  <2>2. DOMAIN log' = DOMAIN log \cup {n}
    BY <1>6
  <2>3. \A m \in DOMAIN log' : Earned(m)' /\ Connected(m)'
    BY <1>10, <1>11, <2>1, <2>2
  <2>. QED  BY <2>3 DEF SecretsEarned, JourneysConnected, Earned, Connected
<1>13. ASSUME NEW v \in Worlds, NEW b \in Actors, NEW types
       PROVE  /\ SeenOf(v, b, types) \subseteq SeenOf(v, b, types)'
              /\ SeenOf(v, b, types)' \subseteq SeenOf(v, b, types) \cup {n}
              /\ \A m \in SeenOf(v, b, types) : log'[m] = log[m] /\ m < n
              /\ n \in SeenOf(v, b, types)' <=> n \notin cut' /\ w = v /\ a = b /\ type \in types
  <2>1. /\ SeenOf(v, b, types) \subseteq SeenOf(v, b, types)'
        /\ SeenOf(v, b, types)' \subseteq SeenOf(v, b, types) \cup {Len(log) + 1}
        /\ \A m \in SeenOf(v, b, types) : log'[m] = log[m] /\ m \in 1..Len(log)
        /\ Len(log) + 1 \in SeenOf(v, b, types)' <=>
              Len(log) + 1 \notin cut' /\ e.world = v /\ e.actor = b /\ e.type \in types
    BY <1>1, <1>2, <1>3, SeenGrows
  <2>. QED  BY <1>2, <1>6, <2>1
<1>14. ASSUME NEW v \in Worlds, Exists(v), NEW b \in Actors,
             v # w \/ b # a \/ (worlds' = worlds /\ n \in cut')
       PROVE  Learned(v, b)' /\ AtLastMove(v, b)'
  <2>1. /\ worlds'[v].map = worlds[v].map /\ worlds'[v].at[b] = worlds[v].at[b]
        /\ worlds'[v].places[b] = worlds[v].places[b]
        /\ worlds'[v].objects[b] = worlds[v].objects[b]
    BY <1>8, <1>14
  <2>2. Learned(v, b) /\ AtLastMove(v, b)
    BY <1>14 DEF IInv
  <2>3. \A types : /\ SeenOf(v, b, types)' = SeenOf(v, b, types)
                   /\ \A m \in SeenOf(v, b, types) : log'[m] = log[m]
    <3>. SUFFICES ASSUME NEW types
                  PROVE  /\ SeenOf(v, b, types)' = SeenOf(v, b, types)
                         /\ \A m \in SeenOf(v, b, types) : log'[m] = log[m]
      OBVIOUS
    <3>1. /\ SeenOf(v, b, types) \subseteq SeenOf(v, b, types)'
          /\ SeenOf(v, b, types)' \subseteq SeenOf(v, b, types) \cup {n}
          /\ \A m \in SeenOf(v, b, types) : log'[m] = log[m]
          /\ n \notin SeenOf(v, b, types)'
      BY <1>13, <1>14
    <3>. QED  BY <3>1
  <2>. QED  BY <2>1, <2>2, <2>3 DEF Learned, AtLastMove, LastMove, Hidden
<1>15. ASSUME worlds' = [worlds EXCEPT ![w] = state], cut' = cut
       PROVE  Learned(w, a)' /\ AtLastMove(w, a)'
  <2>1. worlds'[w] = state /\ n \notin cut'
    BY <1>1, <1>6, <1>15 DEF TypeOK
  <2>2. log'[n].thing = thing
    BY <1>2, <1>6
  <2>3. Learned(w, a)'
    <3>1. ASSUME NEW p \in state.places[a], Hidden(w, p)
          PROVE  \E m \in SeenOf(w, a, {"ActorPlacedInWorld", "LocationDiscovered"})' : log'[m].thing = p
      <4>1. CASE p \in worlds[w].places[a]
        BY <1>9, <1>13, <3>1, <4>1 DEF Learned
      <4>2. CASE p \notin worlds[w].places[a]
        <5>1. p = thing /\ type \in Moves \cup {"LocationDiscovered"}
          BY <1>4, <3>1, <4>2
        <5>2. type # "ActorTravelled"
          BY <3>1, <4>2, <5>1 DEF MayEnter
        <5>3. n \in SeenOf(w, a, {"ActorPlacedInWorld", "LocationDiscovered"})'
          BY <1>13, <2>1, <5>1, <5>2 DEF Moves
        <5>. QED  BY <2>2, <5>1, <5>3
      <4>. QED  BY <4>1, <4>2
    <3>2. ASSUME NEW o \in state.objects[a]
          PROVE  \E m \in SeenOf(w, a, {"WorldObjectDiscovered"})' : log'[m].thing = o
      <4>1. CASE o \in worlds[w].objects[a]
        BY <1>9, <1>13, <4>1 DEF Learned
      <4>2. CASE o \notin worlds[w].objects[a]
        <5>1. o = thing /\ type = "WorldObjectDiscovered"
          BY <1>4, <3>2, <4>2
        <5>2. n \in SeenOf(w, a, {"WorldObjectDiscovered"})'
          BY <1>13, <2>1, <5>1
        <5>. QED  BY <2>2, <5>1, <5>2
      <4>. QED  BY <4>1, <4>2
    <3>3. \A p : Hidden(w, p)' <=> Hidden(w, p)
      BY <1>8 DEF Hidden
    <3>. QED  BY <2>1, <3>1, <3>2, <3>3 DEF Learned
  <2>4. AtLastMove(w, a)'
    <3>1. CASE type \in Moves
      <4>1. n \in SeenOf(w, a, Moves)' /\ \A k \in SeenOf(w, a, Moves)' : k <= n
        <5>1. /\ SeenOf(w, a, Moves)' \subseteq SeenOf(w, a, Moves) \cup {n}
              /\ \A m \in SeenOf(w, a, Moves) : m < n
              /\ n \in SeenOf(w, a, Moves)'
          BY <1>13, <2>1, <3>1
        <5>2. \A m \in SeenOf(w, a, Moves) : m \in Nat
          BY <1>6 DEF SeenOf
        <5>. QED  BY <5>1, <5>2
      <4>2. LastMove(w, a, n)'
        BY <4>1 DEF LastMove
      <4>3. worlds'[w].at[a] = thing
        BY <1>4, <2>1, <3>1
      <4>. QED  BY <2>2, <4>1, <4>2, <4>3 DEF AtLastMove
    <3>2. CASE type \notin Moves
      <4>1. /\ SeenOf(w, a, Moves)' = SeenOf(w, a, Moves)
            /\ \A m \in SeenOf(w, a, Moves) : log'[m] = log[m]
        <5>1. /\ SeenOf(w, a, Moves) \subseteq SeenOf(w, a, Moves)'
              /\ SeenOf(w, a, Moves)' \subseteq SeenOf(w, a, Moves) \cup {n}
              /\ \A m \in SeenOf(w, a, Moves) : log'[m] = log[m]
              /\ n \notin SeenOf(w, a, Moves)'
          BY <1>13, <3>2
        <5>. QED  BY <5>1
      <4>2. worlds'[w].at[a] = worlds[w].at[a]
        BY <1>4, <2>1, <3>2
      <4>. QED  BY <1>9, <4>1, <4>2 DEF AtLastMove, LastMove
    <3>. QED  BY <3>1, <3>2
  <2>. QED  BY <2>3, <2>4
<1>16. ASSUME NEW v \in Worlds, Exists(v)', NEW b \in Actors PROVE Learned(v, b)' /\ AtLastMove(v, b)'
  <2>1. Exists(v)
    BY <1>1, <1>8, <1>16 DEF Exists
  <2>2. CASE v # w \/ b # a
    BY <1>14, <2>1, <2>2
  <2>3. CASE v = w /\ b = a
    BY <1>5, <1>14, <1>15, <2>1, <2>3
  <2>. QED  BY <2>2, <2>3
<1>. QED  BY <1>7, <1>12, <1>16 DEF IInv

-----------------------------------------------------------------------------
(* The invariant *)

LEMMA InitWorld == Init => IInv
<1>. SUFFICES ASSUME Init PROVE IInv
  OBVIOUS
<1>1. TypeOK /\ DOMAIN log = {}
  BY DEF Init, TypeOK
<1>2. SecretsEarned /\ JourneysConnected
  BY <1>1 DEF SecretsEarned, JourneysConnected
<1>. QED  BY <1>1, <1>2 DEF Init, Exists, IInv

LEMMA NextWorld == IInv /\ [Next]_vars => IInv'
<1>. SUFFICES ASSUME IInv, [Next]_vars PROVE IInv'
  OBVIOUS
<1>1. ASSUME NEW w \in Worlds, NEW c \in Campaigns, NEW map \in Maps, CreateWorld(w, c, map)
      PROVE  IInv'
  BY <1>1, CreateKeeps
<1>2. ASSUME NEW w \in Worlds, NEW a \in Actors, NEW p \in Places, PlaceActorInWorld(w, a, p)
      PROVE  IInv'
  BY <1>2, DoesKeeps DEF PlaceActorInWorld, Exists, Types
<1>3. ASSUME NEW w \in Worlds, NEW a \in Actors, NEW p \in Places, TravelActor(w, a, p)
      PROVE  IInv'
  BY <1>3, DoesKeeps DEF TravelActor, Placed, Exists, Types
<1>4. ASSUME NEW w \in Worlds, NEW a \in Actors, SearchLocation(w, a)
      PROVE  IInv'
  <2>1. /\ worlds[w] # Nothing /\ worlds[w].map \in Maps /\ Here(w, a) \in Places
    BY <1>4 DEF SearchLocation, Placed, Exists, Here, IInv, TypeOK, WorldStates
  <2>2. HiddenPlaces(w, a) \in SUBSET Places /\ HiddenObjects(w, a) \in SUBSET Objects
    BY <2>1, MapsAssumption DEF HiddenPlaces, HiddenObjects
  <2>3. CASE HiddenPlaces(w, a) # {}
    <3>1. PICK p \in Places : p = First(HiddenPlaces(w, a))
      BY <2>2, <2>3, FirstIsOne
    <3>2. Does(w, "LocationDiscovered", a, p)
      BY <1>4, <2>3, <3>1 DEF SearchLocation
    <3>. QED  BY <2>1, <3>2, DoesKeeps DEF Types
  <2>4. CASE HiddenPlaces(w, a) = {}
    <3>1. HiddenObjects(w, a) # {}
      BY <1>4, <2>4 DEF SearchLocation
    <3>2. PICK o \in Objects : o = First(HiddenObjects(w, a))
      BY <2>2, <3>1, FirstIsOne
    <3>3. Does(w, "WorldObjectDiscovered", a, o)
      BY <1>4, <2>4, <3>2 DEF SearchLocation
    <3>. QED  BY <2>1, <3>3, DoesKeeps DEF Types, Moves
  <2>. QED  BY <2>3, <2>4
<1>5. ASSUME NEW w \in Worlds, NEW a \in Actors, NEW o \in Objects, InteractWorldObject(w, a, o)
      PROVE  IInv'
  <2>1. PICK here \in Places : here = Here(w, a)
    BY <1>5 DEF InteractWorldObject, Placed, Exists, Here, IInv, TypeOK, WorldStates
  <2>2. /\ worlds[w] # Nothing /\ Does(w, "WorldObjectInteracted", a, <<here, o>>)
        /\ <<here, o>> \in worlds[w].map.secret => o \in worlds[w].objects[a]
    BY <1>5, <2>1 DEF InteractWorldObject, MayTouch, Placed, Exists
  <2>. QED  BY <2>2, DoesKeeps DEF Types, Moves
<1>6. CASE UNCHANGED vars
  BY <1>6 DEF vars, IInv, TypeOK, SecretsEarned, JourneysConnected, Exists, Learned, AtLastMove,
              LastMove, SeenOf, Known, MovesBefore, Hidden
<1>. QED  BY <1>1, <1>2, <1>3, <1>4, <1>5, <1>6 DEF Next

\* What actors know and where they are is what the events seen say.
THEOREM WorldInvariant == Spec => []IInv
BY InitWorld, NextWorld, PTL DEF Spec

-----------------------------------------------------------------------------
(* Theorems *)

\* Worlds and events are what they should be.
THEOREM TypeCorrect == Spec => []TypeOK
<1>1. IInv => TypeOK
  BY DEF IInv
<1>. QED  BY <1>1, WorldInvariant, PTL

\* On any map, for any number of actors and over appends that raise, a hidden place is
\* entered only by who was put there or found it, a hidden object used by who found its id.
THEOREM SecretsAreEarned == Spec => []SecretsEarned
<1>1. IInv => SecretsEarned
  BY DEF IInv
<1>. QED  BY <1>1, WorldInvariant, PTL

\* Every journey on record leads from where the actor's last move ended to a place linked
\* with it.
THEOREM JourneysAreConnected == Spec => []JourneysConnected
<1>1. IInv => JourneysConnected
  BY DEF IInv
<1>. QED  BY <1>1, WorldInvariant, PTL
=============================================================================
