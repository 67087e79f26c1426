------------------------------ MODULE Platform ------------------------------
(* application/platform_service.py: game sessions, social facts, quests and     *)
(* trade, with the reducers of domain/session.py, quest.py and actor.py, and    *)
(* what command_bus.py puts on actors' streams: rewards and progression.        *)
(*                                                                              *)
(* Every command holds execute's lock and is one action, but for the one that   *)
(* ends an encounter: it appends to the stream of one winner after the other    *)
(* before it gives up the lock (owed).  A command refused before its append     *)
(* changes nothing and is no step.  An append may raise QueueFull after it      *)
(* stored the event: the projection never sees that event.                      *)
(* The model starts when campaigns, actors and encounters exist.                *)
EXTENDS Integers, Sequences, FiniteSets, FiniteSetsExt

CONSTANTS Campaigns, Sessions, Quests, Actors, Encounters, Principals,
          Home,      \* Home[x]: the campaign of the actor or encounter x
          Prices,    \* what TradeItem may be sent
          Nothing,
          MaxLog,    \* bound: events
          MaxRaises  \* bound: appends that raise

ASSUME PlatformAssumption ==
    /\ Home \in [Actors \cup Encounters -> Campaigns]
    /\ Prices \subseteq Nat /\ MaxLog \in Nat /\ MaxRaises \in Nat
    /\ Nothing \notin Principals \cup Actors \cup Encounters

\* The engine prefixes every stream's name with its kind ("quest:x").
ASSUME StreamsAssumption ==
    /\ Sessions \cap (Quests \cup Actors \cup Encounters \cup Campaigns) = {}
    /\ Quests \cap (Actors \cup Encounters \cup Campaigns) = {}
    /\ Actors \cap (Encounters \cup Campaigns) = {}
    /\ Encounters \cap Campaigns = {}

VARIABLES live,  \* the projections, by stream
          log,   \* the stored events; an event's place is its sequence
          owed,  \* the winners whom the command that holds the lock has yet to reward
          cut    \* history: the places of the events whose append raised

vars == <<live, log, owed, cut>>

Streams == Campaigns \cup Sessions \cup Quests \cup Actors \cup Encounters

\* ActorState.currency: CreateActor has no way to name another sum.
Purse == 10

\* A stream's projection before the events of the model.
Origin(s) == CASE s \in Actors -> [currency |-> Purse, items |-> 0, points |-> 0]
               [] s \in Encounters -> "active"
               [] s \in Campaigns -> "created"
               [] OTHER -> Nothing

GameSessions == [campaign: Campaigns, owner: Principals, status: {"lobby", "open", "closed"},
                 members: SUBSET Principals, ready: SUBSET Principals,
                 controls: [Actors -> Principals \cup {Nothing}], opened: Nat, closed: Nat]
QuestStates == [campaign: Campaigns, status: {"available", "accepted", "completed"},
                actor: Actors \cup {Nothing}]
ActorStates == [currency: Nat, items: Nat, points: Nat]
Projections(s) == IF s \in Sessions THEN GameSessions \cup {Nothing}
                  ELSE IF s \in Quests THEN QuestStates \cup {Nothing}
                  ELSE IF s \in Actors THEN ActorStates
                  ELSE {"created", "active", "completed"}

Purchases == [stream: Actors, campaign: Campaigns, type: {"ItemPurchased"}, who: Actors,
              what: [price: Prices, left: Nat]]
\* what is left of the progression points.
Advances == [stream: Actors, campaign: Campaigns, type: {"ProgressionChoiceApplied"},
             who: Actors, what: Nat]
OtherTypes == {"GameSessionCreated", "SessionMemberJoined", "SessionReadyChanged",
               "ActorControlGranted", "GameSessionOpened", "GameSessionClosed",
               "SocialInteractionRecorded", "QuestCreated", "QuestAccepted", "QuestCompleted",
               "EncounterCompleted", "ExperienceGranted"}
Others == [stream: Streams, campaign: Campaigns, type: OtherTypes,
           who: Principals \cup Actors \cup {Nothing},
           what: BOOLEAN \cup Actors \cup Encounters \cup {Nothing}]

TypeOK == /\ DOMAIN live = Streams /\ \A s \in Streams : live[s] \in Projections(s)
          /\ log \in Seq(Purchases \cup Advances \cup Others)
          /\ owed \in SUBSET Actors
          /\ cut \in SUBSET (1..Len(log))

Init == /\ live = [s \in Streams |-> Origin(s)]
        /\ log = <<>>
        /\ owed = {}
        /\ cut = {}

-----------------------------------------------------------------------------
(* The reducers; n is the sequence of the event *)

Created(c, owner) == [campaign |-> c, owner |-> owner, status |-> "lobby",
                      members |-> {owner}, ready |-> {},
                      controls |-> [a \in Actors |-> Nothing], opened |-> 0, closed |-> 0]

\* Wrong variant of Opened: a session keeps the sequence it was first opened at.
OpenedFirst(state, n) ==
    [state EXCEPT !.status = "open", !.opened = IF @ = 0 THEN n ELSE @]

Opened(state, n) == [state EXCEPT !.status = "open", !.opened = n]

\* reduce_session.  Members who join are not ready.
ReduceSession(state, n, e) ==
    CASE e.type = "GameSessionCreated" -> Created(e.campaign, e.who)
      [] e.type = "SessionMemberJoined" ->
            [state EXCEPT !.members = @ \cup {e.who}, !.ready = @ \ {e.who}]
      [] e.type = "SessionReadyChanged" ->
            [state EXCEPT !.ready = IF e.what THEN @ \cup {e.who} ELSE @ \ {e.who}]
      [] e.type = "ActorControlGranted" -> [state EXCEPT !.controls[e.what] = e.who]
      [] e.type = "GameSessionOpened" -> Opened(state, n)
      [] e.type = "GameSessionClosed" -> [state EXCEPT !.status = "closed", !.closed = n]

Accepted(state, e) == [state EXCEPT !.status = "accepted", !.actor = e.who]

\* reduce_quest.
ReduceQuest(state, e) ==
    CASE e.type = "QuestCreated" -> [campaign |-> e.campaign, status |-> "available", actor |-> Nothing]
      [] e.type = "QuestAccepted" -> Accepted(state, e)
      [] e.type = "QuestCompleted" -> [state EXCEPT !.status = "completed"]

\* Wrong variant of Purchased: the price is taken off.
PurchasedLess(state, e) ==
    [state EXCEPT !.currency = @ - e.what.price, !.items = @ + 1]

Purchased(state, e) == [state EXCEPT !.currency = e.what.left, !.items = @ + 1]

\* reduce_actor.  A purchase says what is left of the purse, a choice what is left of the
\* points; a reward only adds.
ReduceActor(state, e) ==
    CASE e.type = "ItemPurchased" -> Purchased(state, e)
      [] e.type = "ExperienceGranted" -> [state EXCEPT !.points = @ + 1]
      [] e.type = "ProgressionChoiceApplied" -> [state EXCEPT !.points = e.what]

Reduce(state, n, e) ==
    CASE e.stream \in Sessions -> ReduceSession(state, n, e)
      [] e.stream \in Quests -> ReduceQuest(state, e)
      [] e.stream \in Actors -> ReduceActor(state, e)
      [] e.stream \in Encounters -> "completed"
      [] OTHER -> state

\* replay_snapshot, of one stream: what the events on record make of it.
Replay(s, events) ==
    LET state[n \in 0..Len(events)] ==
            IF n = 0 THEN Origin(s)
            ELSE IF events[n].stream = s THEN Reduce(state[n - 1], n, events[n])
            ELSE state[n - 1]
    IN  state[Len(events)]

Replayed(s) == Replay(s, log)

-----------------------------------------------------------------------------
(* The commands *)

Event(s, c, type, who, what) ==
    [stream |-> s, campaign |-> c, type |-> type, who |-> who, what |-> what]

\* The append, and the projection it leaves unless it raises.
Record(e) ==
    /\ Len(log) < MaxLog
    /\ log' = Append(log, e)
    /\ \/ /\ live' = [live EXCEPT ![e.stream] = Reduce(@, Len(log) + 1, e)]
          /\ cut' = cut
       \/ /\ Cardinality(cut) < MaxRaises
          /\ cut' = cut \cup {Len(log) + 1}
          /\ live' = live

\* Both create commands append at version 0: another event of that id conflicts.
Unused(s) == live[s] = Nothing /\ \A n \in DOMAIN log : log[n].stream # s

CreateGameSession(s, c, p) ==
    /\ Unused(s)
    /\ Record(Event(s, c, "GameSessionCreated", p, Nothing))

SessionEvent(s, type, who, what) == Record(Event(s, live[s].campaign, type, who, what))

JoinGameSession(s, p) ==
    /\ live[s] # Nothing
    /\ live[s].status = "lobby" /\ p \notin live[s].members
    /\ SessionEvent(s, "SessionMemberJoined", p, Nothing)

SetSessionReady(s, p, ready) ==
    /\ live[s] # Nothing
    /\ p \in live[s].members
    /\ SessionEvent(s, "SessionReadyChanged", p, ready)

\* The owner p gives actor a to member q.
GrantActorControl(s, p, a, q) ==
    /\ live[s] # Nothing
    /\ p = live[s].owner
    /\ Home[a] = live[s].campaign /\ q \in live[s].members
    /\ SessionEvent(s, "ActorControlGranted", q, a)

\* Wrong variant of AllReady: a quorum of one.
AnyReady(s) == live[s].members \cap live[s].ready # {}

AllReady(s) == live[s].members # {} /\ live[s].members \subseteq live[s].ready

\* Whatever the session's status is.
OpenGameSession(s, p) ==
    /\ live[s] # Nothing
    /\ p = live[s].owner /\ AllReady(s)
    /\ SessionEvent(s, "GameSessionOpened", p, Nothing)

CloseGameSession(s, p) ==
    /\ live[s] # Nothing
    /\ p = live[s].owner /\ live[s].status = "open"
    /\ SessionEvent(s, "GameSessionClosed", p, Nothing)

\* Both actors exist, in whatever campaign; on record in the one the command names.
TalkToNpc(a, c) == Record(Event(c, c, "SocialInteractionRecorded", a, Nothing))

CreateQuest(q, c) ==
    /\ Unused(q)
    /\ Record(Event(q, c, "QuestCreated", Nothing, Nothing))

\* Wrong variant of Available: until it is completed.
NotCompleted(q) == live[q].status # "completed"

Available(q) == live[q].status = "available"

AcceptQuest(q, a) ==
    /\ live[q] # Nothing
    /\ Available(q)
    /\ Home[a] = live[q].campaign
    /\ Record(Event(q, live[q].campaign, "QuestAccepted", a, Nothing))

\* required, if any, is named by the command, and may be of another campaign.
CompleteQuest(q, required) ==
    /\ live[q] # Nothing
    /\ live[q].status = "accepted"
    /\ required # Nothing => live[required] = "completed"
    /\ Record(Event(q, live[q].campaign, "QuestCompleted", live[q].actor, required))

\* Wrong variant of CanPay: no actor is asked for more than actors start with.
CanPayFresh(a, price) == price <= Purse

CanPay(a, price) == live[a].currency >= price

TradeItem(a, price) ==
    /\ CanPay(a, price)
    /\ Record(Event(a, Home[a], "ItemPurchased", a,
                    [price |-> price, left |-> live[a].currency - price]))

\* The batch of PerformAction that ends an encounter (module Encounter), for the side the
\* winners are of.  If its append raises, nobody is rewarded.
EncounterEnds(x, winners) ==
    /\ live[x] = "active"
    /\ Record(Event(x, Home[x], "EncounterCompleted", Nothing, Nothing))
    /\ owed' = IF cut' = cut THEN winners ELSE {}

\* A turn of _grant_encounter_rewards: one append each, and one that raises is the last.
\* The code goes by the actors' ids, which are not of the model: any order.
GrantExperience(a) ==
    /\ a \in owed
    /\ Record(Event(a, Home[a], "ExperienceGranted", a, Nothing))
    /\ owed' = IF cut' = cut THEN owed \ {a} ELSE {}

AdvanceActor(a) ==
    /\ live[a].points >= 1
    /\ Record(Event(a, Home[a], "ProgressionChoiceApplied", a, live[a].points - 1))

\* A command of one append.
Command ==
    \/ \E s \in Sessions, p \in Principals :
          \/ \E c \in Campaigns : CreateGameSession(s, c, p)
          \/ JoinGameSession(s, p)
          \/ \E ready \in BOOLEAN : SetSessionReady(s, p, ready)
          \/ \E a \in Actors, q \in Principals : GrantActorControl(s, p, a, q)
          \/ OpenGameSession(s, p)
          \/ CloseGameSession(s, p)
    \/ \E a \in Actors, c \in Campaigns : TalkToNpc(a, c)
    \/ \E q \in Quests :
          \/ \E c \in Campaigns : CreateQuest(q, c)
          \/ \E a \in Actors : AcceptQuest(q, a)
          \/ \E required \in Encounters \cup {Nothing} : CompleteQuest(q, required)
    \/ \E a \in Actors : \/ \E price \in Prices : TradeItem(a, price)
                        \/ AdvanceActor(a)

Next ==
    \/ /\ owed = {}
       /\ \/ Command /\ owed' = owed
          \/ \E x \in Encounters :
                \E winners \in SUBSET {a \in Actors : Home[a] = Home[x]} \ {{}} :
                    EncounterEnds(x, winners)
    \/ \E a \in Actors : GrantExperience(a)

Spec == Init /\ [][Next]_vars

\* session_recap: the places of the events it counts.
Recap(s) ==
    {n \in DOMAIN log : /\ log[n].campaign = live[s].campaign
                        /\ n >= live[s].opened
                        /\ live[s].closed # 0 => n <= live[s].closed}

-----------------------------------------------------------------------------
(* Properties *)

\* The places of s's events of a type that its projection has seen.
Seen(s, type) == {n \in DOMAIN log \ cut : log[n].stream = s /\ log[n].type = type}
Latest(places) == Max(places \cup {0})

\* The prices of the purchases at these places, together.
Total(events, places) ==
    LET sum[n \in 0..Len(events)] ==
            IF n = 0 THEN 0
            ELSE IF n \in places THEN sum[n - 1] + events[n].what.price
            ELSE sum[n - 1]
    IN  sum[Len(events)]

\* The recap of a session tells what happened in its campaign since it was last opened,
\* up to its closing.  While a session that was closed once is open again, its recap is
\* empty: the closing on its projection is then the earlier one.
RecapSpansSession ==
    \A s \in Sessions :
        LET opened == Latest(Seen(s, "GameSessionOpened"))
            closed == Latest(Seen(s, "GameSessionClosed"))
        IN  opened # 0 => Recap(s) =
                IF closed = 0 THEN {n \in opened..Len(log) : log[n].campaign = live[s].campaign}
                ELSE {n \in opened..closed : log[n].campaign = live[s].campaign}

\* Whoever opens a session finds everybody who joined it ready by their own last word,
\* and nobody joins once it was opened.
SessionsOpenTogether ==
    \A s \in Sessions :
        LET joined == Seen(s, "SessionMemberJoined") \cup Seen(s, "GameSessionCreated")
            words(p) == {n \in Seen(s, "SessionReadyChanged") : log[n].who = p}
        IN  \A open \in Seen(s, "GameSessionOpened"), join \in joined :
                /\ join < open
                /\ \E word \in words(log[join].who) :
                      /\ word < open /\ log[word].what
                      /\ \A later \in words(log[join].who) : later <= word \/ later > open

\* A quest is accepted once and then completed once, in the name of the actor that
\* accepted it and after the encounter it was said to require: an acceptance or
\* completion on record again repeats one whose append raised.
QuestsRunOnce ==
    \A n \in DOMAIN log :
        LET before(type) == {m \in Seen(log[n].stream, type) : m < n} IN
        /\ log[n].type = "QuestAccepted" => before("QuestAccepted") = {}
        /\ log[n].type = "QuestCompleted" =>
              /\ before("QuestCompleted") = {}
              /\ \E m \in before("QuestAccepted") : log[m].who = log[n].who
              /\ log[n].what # Nothing =>
                    \E m \in Seen(log[n].what, "EncounterCompleted") : m < n

\* An actor never spends more than its purse: what it has left is what it started with
\* less every purchase the engine knows of, for as many items.
PursesBalance ==
    \A a \in Actors :
        LET bought == Seen(a, "ItemPurchased") IN
        /\ live[a].currency = Purse - Total(log, bought)
        /\ live[a].currency >= 0
        /\ live[a].items = Cardinality(bought)

\* Replay recovers from lost notices where events state results.  Of a quest only the
\* last event matters: replay and the live view agree again with the next one after
\* one whose append raised.  So it is with an actor's purse and its last purchase,
\* whatever rewards and choices came between or after, and with its progression points
\* and its last choice, unless the append of a reward raised since.  Sessions and
\* inventories agree only as long as none raised.
ReplayHeals ==
    \A s \in Streams :
        LET own     == {n \in DOMAIN log : log[n].stream = s}
            of(type) == {n \in own : log[n].type = type}
            choice  == Latest(of("ProgressionChoiceApplied"))
        IN
        /\ own \cap cut = {} => Replayed(s) = live[s]
        /\ s \in Quests /\ Latest(own) \notin cut => Replayed(s) = live[s]
        /\ s \in Actors =>
              /\ Latest(of("ItemPurchased")) \notin cut =>
                    Replayed(s).currency = live[s].currency
              /\ choice \notin cut /\ (\A n \in of("ExperienceGranted") \cap cut : n < choice) =>
                    Replayed(s).points = live[s].points
=============================================================================
