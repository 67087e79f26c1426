----------------------------- MODULE CommandBus -----------------------------
(* application/command_bus.py: EngineService.execute, the one way into the      *)
(* engine, with the handlers of campaigns, actors, dice and character creation, *)
(* and full_service.py's InstantiateEncounterTemplate, made of two of them.     *)
(*                                                                              *)
(* execute holds _command_lock from the receipt lookup to the saved receipt.    *)
(* In between it is a chain of calls to the store; each is a step here, because *)
(* each can raise and what was done before it stays done.  The in-memory store  *)
(* never suspends, so nothing else runs between the steps; Suspends = TRUE is   *)
(* the same service over a store whose coroutines do yield.                     *)
EXTENDS EventStore

CONSTANTS Campaigns, Actors, Creations, Encounters,  \* the streams, by aggregate
          Commands,     \* the command envelopes clients may send
          Nothing,      \* Python's None
          Invalid,      \* what a reducer that raises a ValidationError leaves: no state
          Suspends,     \* may the event loop run others while a command waits
          Tries         \* bound: Tries[i], the times the envelope of id i is sent

\* A stream is named for the kind of its aggregate (f"campaign:{campaign_id}").
ASSUME StreamsAssumption ==
    /\ Streams = Campaigns \cup Actors \cup Creations \cup Encounters
    /\ Campaigns \cap Actors = {} /\ Campaigns \cap Creations = {} /\ Campaigns \cap Encounters = {}
    /\ Actors \cap Creations = {} /\ Actors \cap Encounters = {} /\ Creations \cap Encounters = {}
ASSUME SuspendsAssumption == Suspends \in BOOLEAN /\ Tries \in [{c.id : c \in Commands} -> Nat]

VARIABLES live,     \* the dicts of live projections: live[s], or Nothing
          rolls,    \* rolls[c]: draws made from the RNG of campaign c
          exec,     \* the command holding _command_lock, or Nothing
          replies   \* history: what the envelope of each id was answered, in order

busVars == <<live, rolls, exec, replies>>
allVars == <<events, streams, receipts, subscribers, queue, taken, since, unoffered,
             live, rolls, exec, replies>>

(* An envelope is [id, key, type, campaign, target, expected, data, principal,  *)
(* player, encounter]; key is idempotency_key or command_id, expected Nothing   *)
(* or a version.  Two envelopes may carry the same key.  The target is what the *)
(* command creates or works on, the data of FinalizeCharacterCreation the actor *)
(* it creates.  Only InstantiateEncounterTemplate has player and encounter; its *)
(* data is the template, whose npc_template exists                              *)
(* (ContentEvolution!PacksResolve), its target the enemy to create.             *)

\* An envelope is known by its id, and names what a command of its type names.  What the
\* command creates may be left to new_id.
ASSUME EnvelopesAssumption ==
    \A c \in Commands :
        /\ \A d \in Commands : c.id = d.id => c = d
        /\ c.key \in Keys /\ c.expected \in Nat \cup {Nothing}
        /\ c.campaign \in Campaigns \/ (c.type = "CreateCampaign" /\ c.campaign = Nothing)
        /\ c.type = "CreateActor" => c.target \in Actors \cup {Nothing}
        /\ c.type = "StartCharacterCreation" => c.target \in Creations \cup {Nothing}
        /\ c.type \in {"SelectCharacterName", "SelectCharacterArchetype",
                       "FinalizeCharacterCreation"} => c.target \in Creations
        /\ c.type = "FinalizeCharacterCreation" => c.data \in Actors \cup {Nothing}
        /\ c.type = "InstantiateEncounterTemplate" =>
               /\ c.target \in Actors \cup {Nothing} /\ c.player \in Actors
               /\ c.encounter \in Encounters \cup {Nothing}

\* What may stand for an id that the handler generates when it is left out.
Given(id, generates, ids) == IF generates /\ id = Nothing THEN ids ELSE {id}

\* The envelope as its handler reads it: with an id for everything it creates, new_id's
\* choice being one of these ids.
Readings(c, ids) ==
    {[id |-> c.id, key |-> c.key, type |-> c.type, expected |-> c.expected,
      principal |-> c.principal, player |-> c.player,
      campaign |-> campaign, target |-> target, data |-> data, encounter |-> encounter] :
        campaign  \in Given(c.campaign, c.type = "CreateCampaign", Campaigns \cap ids),
        target    \in Given(c.target,
                           c.type \in {"CreateActor", "StartCharacterCreation",
                                      "InstantiateEncounterTemplate"},
                           ids \cap (IF c.type = "StartCharacterCreation" THEN Creations
                                    ELSE Actors)),
        data      \in Given(c.data, c.type = "FinalizeCharacterCreation", Actors \cap ids),
        encounter \in Given(c.encounter, c.type = "InstantiateEncounterTemplate",
                            Encounters \cap ids)}

\* The envelopes as handlers may read them, and those of the clients that leave no id out.
Handled == UNION {Readings(c, Streams) : c \in Commands}
Explicit == {c \in Commands : Readings(c, {}) # {}}

Data == {c.data : c \in Commands}
Principals == {c.principal : c \in Commands}

\* CampaignState, ActorState, CharacterCreationSession, EncounterState
CampaignStates == [version: Nat, actor_ids: SUBSET Actors]
ActorStates == [version: Nat, campaign: Campaigns, stats: Data]
CreationStates ==
    [version: Nat, campaign: Campaigns, owner: Principals, status: {"draft", "finalized"},
     name: Data \cup {Nothing}, archetype: Data \cup {Nothing}, actor: Actors \cup {Nothing}]
EncounterStates == [version: Nat, campaign: Campaigns, actors: SUBSET Actors]

EventTypes == {"CampaignCreated", "ActorRegistered", "DiceRolled", "ActorCreated",
               "CharacterCreationStarted", "CharacterNameSelected", "CharacterArchetypeSelected",
               "CharacterCreationFinalized", "EncounterStarted"}

EventPayloads ==
    [type: EventTypes, command: {c.id : c \in Commands}, campaign: Campaigns,
     data: Data \cup Principals \cup Actors \cup SUBSET Actors, roll: Nat]

\* A ValueError after earlier appends of the same command.
Raise == [raises |-> "ValueError"]

\* What a handler still has to do: appends, at a given version or (Nothing) at the
\* version it finds, and perhaps at last to raise.
Steps == {Raise} \cup [stream: Streams, expected: Nat \cup {Nothing}, payload: EventPayloads]

Statuses == {"accepted", "rejected", "conflict"}

\* The command in the lock, what its handler still does, and the status so far.
Executions == [command: Handled, todo: Seq(Steps), status: Statuses]

ASSUME ReceiptsAssumption == [command: {c.id : c \in Commands}, status: Statuses] \subseteq Receipts
ASSUME NothingAssumption ==
    /\ Nothing # Invalid /\ Nothing \notin Executions
    /\ \A none \in {Nothing, Invalid} : none \notin CampaignStates \cup ActorStates
                                                    \cup CreationStates \cup EncounterStates

BusInit == /\ Init
           /\ live = [s \in Streams |-> Nothing]
           /\ rolls = [c \in Campaigns |-> 0]
           /\ exec = Nothing
           /\ replies = [i \in {c.id : c \in Commands} |-> <<>>]

-----------------------------------------------------------------------------
(* Reducers (domain/campaign.py, domain/actor.py, domain/character_creation.py) *)

\* A seed that is neither a number nor a string: CampaignState refuses it.
BadSeed(e) == e.payload.type = "CampaignCreated" /\ e.payload.data = "bad seed"

ReduceCampaign(state, e) ==
    CASE e.payload.type = "CampaignCreated" ->
            IF BadSeed(e) THEN Invalid
            ELSE [version |-> e.version, actor_ids |-> {}]
      [] e.payload.type = "ActorRegistered" ->
            [version |-> e.version, actor_ids |-> state.actor_ids \cup {e.payload.data}]
      [] OTHER -> [state EXCEPT !.version = e.version]

ReduceActor(state, e) ==
    [version |-> e.version, campaign |-> e.payload.campaign, stats |-> e.payload.data]

ReduceCreation(state, e) ==
    CASE e.payload.type = "CharacterCreationStarted" ->
            [version |-> e.version, campaign |-> e.payload.campaign, owner |-> e.payload.data,
             status |-> "draft", name |-> Nothing, archetype |-> Nothing, actor |-> Nothing]
      [] e.payload.type = "CharacterNameSelected" ->
            [state EXCEPT !.version = e.version, !.name = e.payload.data]
      [] e.payload.type = "CharacterArchetypeSelected" ->
            [state EXCEPT !.version = e.version, !.archetype = e.payload.data]
      [] OTHER ->
            [state EXCEPT !.version = e.version, !.status = "finalized", !.actor = e.payload.data]

ReduceEncounter(state, e) ==
    [version |-> e.version, campaign |-> e.payload.campaign, actors |-> e.payload.data]

\* A stream's first event must be the one that creates it; reducers raise if not.
Creates == {"CampaignCreated", "ActorCreated", "CharacterCreationStarted", "EncounterStarted"}

Reduce(state, e) ==
    IF state = Invalid \/ (state = Nothing /\ e.payload.type \notin Creates) THEN Invalid
    ELSE IF e.stream \in Campaigns THEN ReduceCampaign(state, e)
    ELSE IF e.stream \in Actors THEN ReduceActor(state, e)
    ELSE IF e.stream \in Encounters THEN ReduceEncounter(state, e)
    ELSE ReduceCreation(state, e)

-----------------------------------------------------------------------------
(* Handlers.  A handler is a guard and a plan: the appends it makes, in order,  *)
(* each reduced into the live projection before the next.                       *)

Payload(c, type, campaign, data, roll) ==
    [type |-> type, command |-> c.id, campaign |-> campaign, data |-> data, roll |-> roll]

Step(stream, expected, payload) == [stream |-> stream, expected |-> expected, payload |-> payload]

Exists(s) == live[s] # Nothing

\* _owned_creation
OwnedDraft(c) == /\ Exists(c.target)
                 /\ live[c.target].owner = c.principal
                 /\ live[c.target].status = "draft"

ValidForFinalize(creation) == creation.name # Nothing /\ creation.archetype # Nothing

\* The checks a handler makes before its first append.
Admits(c) ==
    \/ c.type = "CreateCampaign" /\ ~Exists(c.campaign)
    \/ c.type = "CreateActor" /\ Exists(c.campaign) /\ ~Exists(c.target)
    \/ c.type = "RollDice" /\ Exists(c.campaign) /\ c.data # "bad expression"
    \/ c.type = "StartCharacterCreation" /\ Exists(c.campaign) /\ ~Exists(c.target)
    \/ c.type = "SelectCharacterName" /\ OwnedDraft(c) /\ c.data # "bad name"
    \/ c.type = "SelectCharacterArchetype" /\ OwnedDraft(c) /\ c.data # "bad archetype"
    \/ /\ c.type = "FinalizeCharacterCreation"
       /\ OwnedDraft(c)
       /\ ValidForFinalize(live[c.target])
       /\ Exists(live[c.target].campaign) /\ ~Exists(c.data)
    \/ /\ c.type = "InstantiateEncounterTemplate"
       /\ Exists(c.player) /\ live[c.player].campaign = c.campaign
       /\ ~Exists(c.target)

\* Wrong variant of StaleRoll: the version is left to append to compare.
StaleRollUnseen(c) == c.type = "RollDice" /\ FALSE

\* RollDice compares versions before it touches the RNG.
StaleRoll(c) == /\ c.type = "RollDice" /\ Exists(c.campaign)
                /\ c.expected \notin {Nothing, CurrentVersion(c.campaign)}

OrZero(expected) == IF expected = Nothing THEN 0 ELSE expected

\* Wrong variant of ActorSteps: the actor is never registered.
ActorStepsUnregistered(c, campaign, actor, expected, stats) ==
    << Step(actor, expected, Payload(c, "ActorCreated", campaign, stats, 0)) >>

\* _create_actor, called by three handlers.  FinalizeCharacterCreation calls it with an
\* envelope of its own, whose fresh command_id its two events carry; here they carry
\* the id of the command that caused them.
ActorSteps(c, campaign, actor, expected, stats) ==
    << Step(actor, expected, Payload(c, "ActorCreated", campaign, stats, 0)),
       Step(campaign, Nothing, Payload(c, "ActorRegistered", campaign, actor, 0)) >>

\* Wrong variant of StartSteps: the sides are counted when the encounter is stored.
StartStepsLate(c) ==
    IF Exists(c.encounter) THEN << Raise >>
    ELSE << Step(c.encounter, 0, Payload(c, "EncounterStarted", c.campaign, {c.player, c.target}, 0)) >>
             \o IF c.data = "one side" THEN << Raise >> ELSE <<>>

\* _start_encounter, called when the enemy exists.
StartSteps(c) ==
    IF Exists(c.encounter) \/ c.data = "one side" THEN << Raise >>
    ELSE << Step(c.encounter, 0, Payload(c, "EncounterStarted", c.campaign, {c.player, c.target}, 0)) >>

Plan(c) ==
    CASE c.type = "CreateCampaign" ->
            << Step(c.campaign, OrZero(c.expected),
                    Payload(c, "CampaignCreated", c.campaign, c.data, 0)) >>
      [] c.type = "CreateActor" ->
            ActorSteps(c, c.campaign, c.target, OrZero(c.expected), c.data)
      [] c.type = "RollDice" ->
            << Step(c.campaign, c.expected,
                    Payload(c, "DiceRolled", c.campaign, c.data, rolls[c.campaign] + 1)) >>
      [] c.type = "StartCharacterCreation" ->
            << Step(c.target, 0,
                    Payload(c, "CharacterCreationStarted", c.campaign, c.principal, 0)) >>
      [] c.type = "SelectCharacterName" ->
            << Step(c.target, Nothing,
                    Payload(c, "CharacterNameSelected", live[c.target].campaign, c.data, 0)) >>
      [] c.type = "SelectCharacterArchetype" ->
            << Step(c.target, Nothing,
                    Payload(c, "CharacterArchetypeSelected", live[c.target].campaign, c.data, 0)) >>
      [] c.type = "FinalizeCharacterCreation" ->
            LET creation == live[c.target] IN
            ActorSteps(c, creation.campaign, c.data, 0, creation.archetype)
                \o << Step(c.target, Nothing,
                           Payload(c, "CharacterCreationFinalized", creation.campaign, c.data, 0)) >>
      [] c.type = "InstantiateEncounterTemplate" ->
            ActorSteps(c, c.campaign, c.target, 0, c.data) \o StartSteps(c)

-----------------------------------------------------------------------------
(* execute *)

Reply(c, status) == replies' = [replies EXCEPT ![c.id] = Append(@, status)]

Running(c, todo, status) == [command |-> c, todo |-> todo, status |-> status]

\* The lock is free and the client sends c (again).  Room is left for its events.
Arrives(c) == /\ exec = Nothing
              /\ Len(replies[c.id]) < Tries[c.id]
              /\ Len(events) + 3 <= MaxEvents

\* Wrong variant of Unanswered: no receipt is looked up.
UnansweredAlways(c) == c.key \in Keys

Unanswered(c) == receipts[c.key] = NoReceipt

Verdict(c) == IF StaleRoll(c) THEN "conflict" ELSE "rejected"

\* The key has a receipt: the answer is that receipt, and nothing happens.
AlreadyProcessed(c) ==
    /\ Arrives(c)
    /\ ~Unanswered(c)
    /\ Reply(c, "already_processed")
    /\ UNCHANGED <<live, rolls, exec>> /\ UNCHANGED vars

\* new_id (uuid4) gives an id nothing on record was named; that this model can run out
\* of them is a bound.
Unnamed == {s \in Streams : streams[s] = <<>>}

\* c is the envelope as read, here and in Refuse.
Dispatch(c) ==
    /\ Arrives(c)
    /\ Unanswered(c)
    /\ Admits(c) /\ ~StaleRoll(c)
    /\ exec' = Running(c, Plan(c), "accepted")
    /\ rolls' = IF c.type = "RollDice" THEN [rolls EXCEPT ![c.campaign] = @ + 1] ELSE rolls
    /\ UNCHANGED <<live, replies>> /\ UNCHANGED vars

\* A KeyError or ValueError before any append, an unknown type, or a stale roll.
Refuse(c) ==
    /\ Arrives(c)
    /\ Unanswered(c)
    /\ ~Admits(c) \/ StaleRoll(c)
    /\ exec' = Running(c, <<>>, Verdict(c))
    /\ UNCHANGED <<live, rolls, replies>> /\ UNCHANGED vars

Todo == Head(exec.todo)
TodoVersion == IF Todo.expected = Nothing THEN CurrentVersion(Todo.stream) ELSE Todo.expected
Pending == exec # Nothing /\ exec.todo # <<>> /\ Todo # Raise

\* The handler raises: what it appended before stays.
StepRaises ==
    /\ exec # Nothing /\ exec.todo # <<>> /\ Todo = Raise
    /\ exec' = Running(exec.command, <<>>, "rejected")
    /\ UNCHANGED <<live, rolls, replies>> /\ UNCHANGED vars

\* Wrong variant of StepStored: the campaign's projection misses its new actor.
StepStoredUnseen ==
    /\ Pending
    /\ AppendEvents(Todo.stream, TodoVersion, <<Todo.payload>>)
    /\ LET state == Reduce(live[Todo.stream], events'[Len(events')]) IN
           IF state = Invalid
           THEN /\ exec' = Running(exec.command, <<>>, "rejected")
                /\ live' = live
           ELSE /\ exec' = Running(exec.command, Tail(exec.todo), exec.status)
                /\ live' = IF Todo.payload.type = "ActorRegistered" THEN live
                           ELSE [live EXCEPT ![Todo.stream] = state]
    /\ UNCHANGED <<rolls, replies>>

\* The append succeeds and its event is reduced into the projection; a reducer
\* that raises a ValidationError (a ValueError) turns the command into a refusal.
StepStored ==
    /\ Pending
    /\ AppendEvents(Todo.stream, TodoVersion, <<Todo.payload>>)
    /\ LET state == Reduce(live[Todo.stream], events'[Len(events')]) IN
           IF state = Invalid
           THEN /\ exec' = Running(exec.command, <<>>, "rejected")
                /\ live' = live
           ELSE /\ exec' = Running(exec.command, Tail(exec.todo), exec.status)
                /\ live' = [live EXCEPT ![Todo.stream] = state]
    /\ UNCHANGED <<rolls, replies>>

\* StreamVersionConflict leaves the handler; execute turns it into a receipt.
StepConflicts ==
    /\ Pending
    /\ AppendConflict(Todo.stream, TodoVersion)
    /\ exec' = Running(exec.command, <<>>, "conflict")
    /\ UNCHANGED <<live, rolls, replies>>

\* QueueFull leaves append, the handler and execute, which catches only conflicts,
\* KeyError and ValueError: the event is stored, but not reduced, and no receipt is
\* saved; the client gets a server error.
StepQueueFull ==
    /\ Pending
    /\ AppendQueueFull(Todo.stream, TodoVersion, <<Todo.payload>>)
    /\ Reply(exec.command, "error")
    /\ exec' = Nothing
    /\ UNCHANGED <<live, rolls>>

Finish ==
    /\ exec # Nothing /\ exec.todo = <<>>
    /\ SaveReceipt(exec.command.key, [command |-> exec.command.id, status |-> exec.status])
    /\ Reply(exec.command, exec.status)
    /\ exec' = Nothing
    /\ UNCHANGED <<live, rolls>>

\* Subscribers come, read and go when the event loop gets to them.
Feed ==
    /\ exec = Nothing \/ Suspends
    /\ \E q \in Queues : Subscribe(q) \/ Unsubscribe(q) \/ Take(q)
    /\ UNCHANGED busVars

BusNext ==
    \/ \E c \in Commands :
          \/ AlreadyProcessed(c)
          \/ \E d \in Readings(c, Unnamed) : Dispatch(d) \/ Refuse(d)
    \/ StepRaises
    \/ StepStored
    \/ StepConflicts
    \/ StepQueueFull
    \/ Finish
    \/ Feed

BusSpec == BusInit /\ [][BusNext]_allVars

-----------------------------------------------------------------------------
(* Properties *)

Idle == exec = Nothing

\* The reducers over the events of s in storage order, of those at the given places.
Replay(s, history, places) ==
    LET state[n \in 0..Len(history)] ==
            IF n = 0 THEN Nothing
            ELSE IF n \in places /\ history[n].stream = s THEN Reduce(state[n - 1], history[n])
            ELSE state[n - 1]
    IN  state[Len(history)]

\* The events of a campaign, and those whose append did not raise.
Of(campaign) == {n \in DOMAIN events : events[n].payload.campaign = campaign}
Uncut == {n \in DOMAIN events : events[n].sequence \notin unoffered}

\* replay_snapshot: every aggregate the events of one campaign make.
ReplaySnapshot(campaign) ==
    LET state == [s \in Streams |-> Replay(s, events, Of(campaign))] IN
    [s \in {s \in Streams : state[s] # Nothing} |-> state[s]]

\* live_snapshot: the campaign, the actors registered with it, its sessions.
LiveSnapshot(campaign) ==
    [s \in {campaign} \cup {a \in live[campaign].actor_ids : Exists(a)}
                      \cup {s \in Creations \cup Encounters : Exists(s) /\ live[s].campaign = campaign}
       |-> live[s]]

\* A refused creation is on record: from then on every replay of the campaign raises,
\* though a CreateCampaign that names version 1 goes through.
Spoiled(s) == \E n \in DOMAIN events : events[n].stream = s /\ BadSeed(events[n])

\* GET /campaigns/{id}/replay-hash reports matches_live (api/queries.py, asserted by
\* the playtests): replaying the stored events gives the state the engine answers
\* from, whatever mixture of commands was accepted, refused and retried, as long as
\* no append has raised QueueFull.
MatchesLive ==
    Idle /\ unoffered = {} =>
        \A c \in Campaigns : Exists(c) /\ ~Spoiled(c) => ReplaySnapshot(c) = LiveSnapshot(c)

\* What an append that raised QueueFull leaves behind is bounded: the live projection
\* of a stream is the replay of its events but those, whatever is retried afterwards.
LiveLacksOnlyCutEvents ==
    Idle => \A s \in Streams : ~Spoiled(s) => live[s] = Replay(s, events, Uncut)

\* A key keeps its first receipt: no later command or retry changes the verdict.
ReceiptsFinal ==
    [][\A k \in Keys : receipts[k] # NoReceipt => receipts'[k] = receipts[k]]_allVars

\* A command says the same thing twice only if it is retried after an append of its own
\* that raised QueueFull, of which the client was told nothing but "error", and once more
\* for every such append.  If its client named every id, the one that raised is that of
\* the first copy; if not, the retry creates another aggregate, and repeats what was
\* stored and offered of the first.
DuplicatesFollowOverflow ==
    \A i, j \in DOMAIN events :
        (/\ i < j /\ events[i].payload.command = events[j].payload.command
         /\ events[i].payload.type = events[j].payload.type)
            => /\ \E k \in i..(j - 1) : /\ events[k].payload.command = events[i].payload.command
                                       /\ events[k].sequence \in unoffered
               /\ (\E c \in Explicit : c.id = events[i].payload.command)
                      => events[i].sequence \in unoffered

\* While no append has raised QueueFull: a command answered with a rejection or a
\* conflict left nothing in the history, but for two rejections that come after an
\* append: of a creation event that its own reducer refuses; and of the encounter of a
\* template, whose enemy stays, created and registered.
RefusalsLeaveNoTrace ==
    Idle /\ unoffered = {} => \A k \in Keys :
        (receipts[k] # NoReceipt /\ receipts[k].status # "accepted")
            => \A i \in DOMAIN events : events[i].payload.command = receipts[k].command
                   => /\ receipts[k].status = "rejected"
                      /\ \/ BadSeed(events[i])
                         \/ /\ events[i].payload.type \in {"ActorCreated", "ActorRegistered"}
                            /\ \E c \in Commands : /\ c.id = receipts[k].command
                                                  /\ c.type = "InstantiateEncounterTemplate"

\* CreateActor writes two streams.  While no append has raised QueueFull, an actor
\* exists exactly when its campaign has it on its list, a session is finalized with the
\* one actor that came out of it, and an encounter exists only with two actors of its
\* campaign.
AggregatesLinked ==
    Idle /\ unoffered = {} =>
        /\ \A a \in Actors : Exists(a) =>
               Exists(live[a].campaign) /\ a \in live[live[a].campaign].actor_ids
        /\ \A c \in Campaigns : Exists(c) =>
               \A a \in live[c].actor_ids : Exists(a) /\ live[a].campaign = c
        /\ \A s \in Creations : (Exists(s) /\ live[s].status = "finalized") =>
               /\ Exists(live[s].actor)
               /\ live[live[s].actor].stats = live[s].archetype
               /\ live[live[s].actor].campaign = live[s].campaign
        /\ \A c \in Commands, i \in DOMAIN events :
               (/\ c.type = "FinalizeCharacterCreation"
                /\ events[i].payload.type = "ActorCreated" /\ events[i].payload.command = c.id)
                   => live[c.target].status = "finalized" /\ live[c.target].actor = events[i].stream
        /\ \A s \in Encounters : Exists(s) =>
               /\ Cardinality(live[s].actors) = 2
               /\ \A a \in live[s].actors : Exists(a) /\ live[a].campaign = live[s].campaign

\* Every draw from a campaign's RNG is on record, once and in order: no refused or
\* conflicting roll consumes randomness, and no recorded roll is drawn twice.
RollsOnRecord ==
    Idle => \A c \in Campaigns :
        LET recorded == {n \in DOMAIN events : /\ events[n].stream = c
                                              /\ events[n].payload.type = "DiceRolled"}
        IN  /\ {events[n].payload.roll : n \in recorded} = 1..rolls[c]
            /\ \A m, n \in recorded : m < n => events[m].payload.roll < events[n].payload.roll
=============================================================================
