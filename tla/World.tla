------------------------------- MODULE World -------------------------------
(* Exploration: the world commands of application/command_bus.py and the       *)
(* reducer of domain/world.py.  Every command holds execute's lock and is one  *)
(* action; a command that is refused before its append changes nothing and is  *)
(* no step.  An append may raise QueueFull after it stored its event           *)
(* (StoreRaises): the projection never sees that event.                        *)
EXTENDS Naturals, Sequences, FiniteSets

CONSTANTS Worlds, Campaigns, Actors, Places, Objects,
          Home,         \* Home[a]: the campaign of actor a
          Rank,         \* the order of place ids, and of object ids
          Maps,         \* what CreateWorld may be sent: [names, links, hidden, holds, secret,
                        \* sound]; sound: every location and object has its fields
          Nothing, StoreRaises,
          MaxLog        \* bound: events of world streams

ASSUME MapsAssumption ==
    \A map \in Maps :
        /\ map.names \in (SUBSET Places) \ {{}} /\ map.hidden \subseteq Places
        /\ map.links \in [Places -> SUBSET Places]
        /\ map.holds \in [Places -> SUBSET Objects] /\ map.secret \subseteq Places \X Objects
        /\ map.sound \in BOOLEAN
ASSUME WorldAssumption ==
    /\ Home \in [Actors -> Campaigns] /\ Nothing \notin Places /\ StoreRaises \in BOOLEAN
    /\ Rank \in [Places \cup Objects -> Nat]
    /\ \A x, y \in Places \cup Objects : x # y => Rank[x] # Rank[y]

VARIABLES worlds,  \* the live projections, by world id
          log,     \* the events of the world streams, in storage order
          cut      \* history: places in log of the events whose append raised

vars == <<worlds, log, cut>>

Init == /\ worlds = [w \in Worlds |-> Nothing]
        /\ log = <<>>
        /\ cut = {}

Event(w, type, actor, thing) == [world |-> w, type |-> type, actor |-> actor, thing |-> thing]

-----------------------------------------------------------------------------
(* domain/world.py *)

\* WorldCreated; LocationDefinition.model_validate raises on a map that is not sound.
Created(c, map) ==
    IF map.sound
    THEN [campaign |-> c, map |-> map, at |-> [a \in Actors |-> Nothing],
          places |-> [a \in Actors |-> {}], objects |-> [a \in Actors |-> {}]]
    ELSE Nothing

\* An actor knows the places it was put in, travelled to or found.
Reduce(state, e) ==
    CASE e.type \in {"ActorPlacedInWorld", "ActorTravelled"} ->
            [state EXCEPT !.at[e.actor] = e.thing, !.places[e.actor] = @ \cup {e.thing}]
      [] e.type = "LocationDiscovered" -> [state EXCEPT !.places[e.actor] = @ \cup {e.thing}]
      [] e.type = "WorldObjectDiscovered" -> [state EXCEPT !.objects[e.actor] = @ \cup {e.thing}]
      [] OTHER -> state

-----------------------------------------------------------------------------
(* The commands *)

\* The append, and the projection it leaves unless it raises.
Record(w, e, state) ==
    /\ Len(log) < MaxLog
    /\ log' = Append(log, e)
    /\ \/ worlds' = [worlds EXCEPT ![w] = state] /\ cut' = cut
       \/ StoreRaises /\ cut' = cut \cup {Len(log) + 1} /\ worlds' = worlds

Exists(w) == worlds[w] # Nothing
Here(w, a) == worlds[w].at[a]
Placed(w, a) == Exists(w) /\ Here(w, a) # Nothing
Hidden(w, p) == p \in worlds[w].map.hidden

\* Connections name locations of the map; the stream is still empty (an append at
\* version 0 conflicts otherwise).
CreateWorld(w, c, map) ==
    /\ ~Exists(w)
    /\ \A p \in map.names : map.links[p] \subseteq map.names
    /\ \A n \in DOMAIN log : log[n].world # w
    /\ Record(w, Event(w, "WorldCreated", Nothing, map), Created(c, map))

Does(w, type, a, thing) ==
    LET e == Event(w, type, a, thing) IN Record(w, e, Reduce(worlds[w], e))

PlaceActorInWorld(w, a, p) ==
    /\ Exists(w) /\ Home[a] = worlds[w].campaign
    /\ p \in worlds[w].map.names
    /\ Does(w, "ActorPlacedInWorld", a, p)

\* Wrong variants of MayEnter: a hidden place is open, to all or to whom it is linked.
MayEnterBlind(w, a, p) == p \in worlds[w].map.links[Here(w, a)]
MayEnterFar(w, a, p) == p \in worlds[w].map.names /\ (Hidden(w, p) => p \in worlds[w].places[a])

MayEnter(w, a, p) == /\ p \in worlds[w].map.links[Here(w, a)]
                     /\ Hidden(w, p) => p \in worlds[w].places[a]

TravelActor(w, a, p) ==
    /\ Placed(w, a)
    /\ MayEnter(w, a, p)
    /\ Does(w, "ActorTravelled", a, p)

HiddenPlaces(w, a) ==
    {p \in worlds[w].map.links[Here(w, a)] : Hidden(w, p) /\ p \notin worlds[w].places[a]}

\* Objects are known by id, wherever in the world they were found.
HiddenObjects(w, a) ==
    {o \in worlds[w].map.holds[Here(w, a)] :
        <<Here(w, a), o>> \in worlds[w].map.secret /\ o \notin worlds[w].objects[a]}

First(things) == CHOOSE x \in things : \A y \in things : Rank[x] <= Rank[y]

SearchLocation(w, a) ==
    /\ Placed(w, a)
    /\ IF HiddenPlaces(w, a) # {}
       THEN Does(w, "LocationDiscovered", a, First(HiddenPlaces(w, a)))
       ELSE /\ HiddenObjects(w, a) # {}
            /\ Does(w, "WorldObjectDiscovered", a, First(HiddenObjects(w, a)))

MayTouch(w, a, o) == /\ o \in worlds[w].map.holds[Here(w, a)]
                     /\ <<Here(w, a), o>> \in worlds[w].map.secret => o \in worlds[w].objects[a]

InteractWorldObject(w, a, o) ==
    /\ Placed(w, a)
    /\ MayTouch(w, a, o)
    /\ Does(w, "WorldObjectInteracted", a, <<Here(w, a), o>>)

Next ==
    \E w \in Worlds :
        \/ \E c \in Campaigns, map \in Maps : CreateWorld(w, c, map)
        \/ \E a \in Actors, p \in Places : PlaceActorInWorld(w, a, p) \/ TravelActor(w, a, p)
        \/ \E a \in Actors : SearchLocation(w, a)
        \/ \E a \in Actors, o \in Objects : InteractWorldObject(w, a, o)

Spec == Init /\ [][Next]_vars

-----------------------------------------------------------------------------
(* Properties *)

\* Did a, before event n, do something to x that the projection has seen?
Known(n, types, x) ==
    \E m \in 1..(n - 1) \ cut : /\ log[m].world = log[n].world /\ log[m].actor = log[n].actor
                                /\ log[m].type \in types /\ log[m].thing = x

Moves == {"ActorPlacedInWorld", "ActorTravelled"}
MovesBefore(n) ==
    {m \in 1..(n - 1) \ cut : /\ log[m].world = log[n].world /\ log[m].actor = log[n].actor
                              /\ log[m].type \in Moves}

\* A hidden place is entered only by an actor that was put there before or has found
\* it, whatever placements, searches and lost appends came in between; a hidden object
\* is used only by an actor that found it, or found another of that id: discoveries are
\* kept by object id, and nothing keeps ids unique across locations.
SecretsEarned ==
    \A n \in DOMAIN log :
        /\ (log[n].type = "ActorTravelled" /\ Hidden(log[n].world, log[n].thing))
               => Known(n, {"ActorPlacedInWorld", "LocationDiscovered"}, log[n].thing)
        /\ (/\ log[n].type = "WorldObjectInteracted"
            /\ log[n].thing \in worlds[log[n].world].map.secret)
               => Known(n, {"WorldObjectDiscovered"}, log[n].thing[2])

\* Each journey on record starts where the actor's last move the engine knows of ended.
JourneysConnected ==
    \A n \in DOMAIN log : log[n].type = "ActorTravelled" =>
        \E m \in MovesBefore(n) :
            /\ \A k \in MovesBefore(n) : k <= m
            /\ log[n].thing \in worlds[log[n].world].map.links[log[m].thing]
=============================================================================
