# Verification of the RPG engine API

TLA+ specifications of the engine under `src/rpg_engine_api`, the TLC
configurations that model-check them, and machine-checked proofs of every safety
property the configurations check, but for the one that the code violates. Paths below are relative to the package
`src/rpg_engine_api` of the repository.

## 1. The system

A single asyncio process serves an authoritative tabletop simulation. Clients send
command envelopes (`POST /api/v1/commands`), the engine turns each into events of
an append-only store, reduces the events into live projections, and answers with a
receipt. WebSocket clients are fed the events as they are stored.

```
 client --envelope--> EngineService.execute --append--> InMemoryEventStore
                       | lock, receipts        |  \--put_nowait--> Queue --> ws sender --> client
                       | handlers, reducers <--/
                       | driver loop of automatic controllers (outside the lock)
```

`EvolutionEngineService` < `FullEngineService` < `PlatformEngineService` <
`EngineService` is one object: each class adds commands, its own dictionaries of
projections, and its part of `live_snapshot` and `replay_snapshot`. Two further
parts exist beside the process that is shipped: a PostgreSQL implementation of the
store, and a simulation clock no service uses yet.

| Component | State | Operations | What is hard | What makes it correct |
|---|---|---|---|---|
| Event store (`persistence/event_store.py`) | `_events`, `_streams`, `_receipts`, `_subscribers` and their queues | append, save/get receipt, subscribe, unsubscribe | the append's exception after the events are stored; a fan-out over a set that stops in the middle | one history in two views; delivery in order, once, gaps only by overflow |
| Command bus (`application/command_bus.py`) | live projections, RNGs, `_command_lock` | `execute` and its handlers | several appends per command, each of which can raise; retries, with ids that may be generated anew; keys shared by envelopes; projections beside the history | one verdict per key, no duplicates, refusals without trace, replay = live |
| Encounters (`domain/encounter.py`, bus) | encounters, actors' points | StartEncounter, PerformAction, AdvanceActor | legality read from one encounter and used for another; preview against stored events; rewards in separate appends; actors that enter fallen, stamina that enters negative | turn order, outcome, resources, rewards once |
| Controllers (`controllers/simple_npc.py`, bus) | the loop of a request | `_drive_simple_npcs`, `choose_action` | runs outside the lock, may be refused, raises in somebody else's request | loop ends; control is handed over |
| Live feed (`api/ws.py`) | a handler and a sender task per connection | connect, send, receive, disconnect | a disconnect, or a message that is no JSON object, racing a send; cleanup in `finally` | client sees its campaign, in order; queues are given back |
| Authoring (`application/full_service.py`) | workspaces, published packs | create, upsert, validate, publish, instantiate, simulate | a status that outlives an edit; references within a pack; two commands in one | status honest, packs immutable and resolved |
| Content evolution (`application/evolution_service.py`) | bindings, proposals | bind, propose, dry-run, activate | a report used after the world moved on; two appends per activation | compatible changes, checkpoint first, bindings replay |
| Checkpoints (`application/platform_service.py`) | checkpoints | CreateCheckpoint | id freed by a failed append | points at the history before it |
| Sessions, facts, quests, trade (`platform_service.py`) | sessions, quests, currency | create, join, ready, grant, open, close; talk; quest; trade | lifecycle over several principals, reopening; totals written into events; lost notices | opened together, recaps, quests once, purses balance |
| Worlds (`domain/world.py`, bus) | locations, discoveries | create, place, travel, search, interact | discovery before travel, in any order of commands | hidden places stay hidden, journeys connected |
| Simulation clock (`domain/timeline.py`) | heap, cancelled ids | schedule, cancel, advance, pause | cancel against due items; the current instant; pauses | each item once, in order, on time |
| PostgreSQL store (`persistence/postgres.py`, `migrations/versions/0001_event_store.py`) | the tables | the store's operations as transactions | concurrent transactions, a crash between any two statements or between append and receipt | the same abstract log; executed once |
| Queries, health, config, schema-only types, playtest runner | none | reads, validation | none | shape |

## 2. Modules

| Module | Models | Composes |
|---|---|---|
| `StreamLog` | what the engine asks of a store: one history, divided into streams, growing by whole batches | |
| `EventStore` | the in-memory store with its subscribers | implements `StreamLog` |
| `CommandBus` | `execute`; the handlers of campaigns, actors, dice, character creation; InstantiateEncounterTemplate | over `EventStore` |
| `LiveFeed` | the WebSocket handler and its sender task | over `EventStore` |
| `PgStore` | the PostgreSQL store, called by several processes | implements `StreamLog` |
| `Encounter` | encounters, rewards, progression, automatic controllers | |
| `ContentEvolution` | workspaces, packs, bindings, revisions, checkpoints | |
| `World` | the world commands and their reducer | |
| `Platform` | game sessions, social facts, quests, trade, the rewards and progression choices on actors' streams, replay of all these streams, recaps | |
| `SimulationClock` | the scheduler | |
| `..._proofs` | theorems of the module they name; `StoreFeed_proofs` those of `EventStore` and, on top of them, of `LiveFeed` | |
| `MC...` | instances for TLC of the module they name | |

How state and actions correspond to the code:

* **EventStore.** `events`, `streams`, `receipts`, `subscribers` are the fields of
  `InMemoryEventStore`; `queue` is what the `asyncio.Queue`s hold. No coroutine of
  the store awaits anything but its own lock, which nobody holds across a
  suspension, so each call is one action. An append is one of `AppendEvents`,
  `AppendConflict` and `AppendQueueFull`; the last stores the batch and then stops
  the fan-out at the first full queue, for every order in which Python may walk the
  set of subscribers. `taken`, `since` and `unoffered` are history variables: they
  guard nothing.
* **CommandBus.** A command that passes the lock is `AlreadyProcessed`, `Refuse` or
  `Dispatch`; a dispatched one is a plan of appends, each of which is a step that
  succeeds and is reduced (`StepStored`), conflicts (`StepConflicts`), raises after
  storing (`StepQueueFull`) or is refused when it is reached (`StepRaises`);
  `Finish` saves the receipt. `live` holds the projections, `rolls` the number of
  draws made from a campaign's RNG. A handler's checks are `Admits`, its appends
  the `...Steps`. InstantiateEncounterTemplate is the appends of CreateActor
  followed by that of StartEncounter, whose own refusal comes between them. With
  `Suspends = FALSE` subscribers move only between commands, which is what the
  in-memory store allows, as it never suspends; with `TRUE` they move between any
  two calls to the store. `Tries` bounds how often each envelope is sent.
  An envelope may leave the id of what it creates to `new_id`: `Readings` are the
  envelopes a handler may then see, each with an id that names nothing on record
  (`Unnamed`), so that a retry may act on another aggregate than the first try did.
* **Encounter.** A client's command is one action (its lock is held from start to
  end), including the rewards that follow a completion. The driver loop is two
  steps per iteration, `DriveChoose` (outside the lock) and `DriveAct` or
  `DriveRefused` (a locked command of its own); the loop's other exits are
  `DriveDone`, `DriveExhausted`, `DriveHelpless`. `born` keeps the order of the
  dictionary of encounters, which decides the one `available_actions` consults.
  An actor's `max_hp` and a participant's stamina are any integers, as in the code.
  `Previewed` are the participants an action may leave, by its dice; `Settle` ends the
  encounter or gives the turn on. If nobody is left to give it to (`Collapses`),
  `_next_living_turn` raises: the command is rejected and stores nothing but its
  receipt, which is no step when it is a client's and `DriveRefused` when it is a
  controller's. The dice such a command drew are drawn from the live RNG and on no
  record; draws are counted in `CommandBus`, for RollDice only. `failures` and
  `advances` are history.
* **ContentEvolution.** One action per command. Packs are sets of definitions; a
  definition is its key, what it says, whether its fields are there (`sound`) and
  the key it refers to. `log` is the part of the store's history these commands
  write, `cut` the history of the events in it whose append raised. A content hash is
  the content.
* **LiveFeed.** `handler` and `sender` are the program counters of a connection's
  two tasks; a step runs from one await to the next. A connection ends when its client
  leaves or sends what is no JSON object (`garbled`), which raises out of
  `receive_json` or `message.get`; other messages are answered and change nothing.
* **World.** One action per command. A map is its places, links and objects and
  which of them are hidden; `sound` says whether every location has its fields, for
  a map without them is refused by the reducer, after its event was stored. `Rank`
  is the order of ids, by which SearchLocation picks what it finds first.
* **Platform.** One action per command, on `live`, the projections of every stream.
  Streams are named by kind in the code (`quest:x`), which is `StreamsAssumption`.
  `Recap` is `session_recap`, `Replayed` `replay_snapshot`. Of module `Encounter` it
  has what reaches actors' streams: the end of an encounter, whose winners are each
  owed a reward (`owed`), an append of its own under the same lock (`GrantExperience`),
  and `AdvanceActor`.
* **World, Platform and ContentEvolution** share one form of append: the event is
  stored, and its projection follows unless the append raised (`cut`).
* **PgStore.** `rows`, `version` and `receipts` are the tables, `sequence` the
  sequence object; `run[p]` is how far process `p` is with its command. Every SQL
  statement is an action, but for the three that write one event (its row, the row
  again with the number it drew, its copy in the outbox), which are one `InsertEvent`,
  and the update of the stream's version, which goes with `Commit`: nobody else sees
  or waits for what they add. What an open transaction has written is in `run[p]` until
  then. `Free` is the wait for a row that another transaction locked
  (`select ... for update`) or inserted; a select of a row that does not exist waits
  for nothing (`LockNone`). `Crash` may come between any two statements. `doubtful`
  is history: the keys whose retry can not know what became of the first try. A command
  names a version if its handler hands `append` the one the client named, as those of
  CreateCampaign, CreateActor, RollDice and PerformAction do; the others read the
  current version themselves and ignore the client's (`command_bus.py:177`, `221`,
  `267`, `292`), and their commands have none here.
* **SimulationClock.** `advance_to` is synchronous: `AdvanceTo` begins it, `Pop` is
  an iteration of its loop, `Return` its end, and nothing else runs in between.
  `delivered` and `settled` are history.

The operators called wrong variants are not part of any specification: each is a
definition changed the way a slip of the pen would change the code, and the
property it is listed with under "mutants" in `PROJECT.json` fails with it.

## 3. Runs

| Run | Question | Bounds |
|---|---|---|
| `event_store` | are the two views one history; is delivery ordered, once, without unrecorded gaps; does the store implement the log | 2 streams, 2 queues of 2, 4 events, batches of 1 or 2: full queues, partial fan-outs and reuse of a queue all occur |
| `bus_core` | refusals without trace, linked aggregates, replay | 13 envelopes, each sent once or never: a campaign, one with a bad seed, one that names the version this leaves, an actor, a roll and a refused selection under its key, a character creation with two finalizations, a template with two sides and one with one; the actors of one finalization and of one template get their ids from `new_id` |
| `bus_retry` | what survives lost answers, over a store that yields | 6 envelopes sent up to twice: two creations of one campaign under one key (one of them once), an actor whose id is generated, a roll of either kind of version, a template; 8 events, one queue of 1, subscribers that come and go between any two appends |
| `encounter_solo` | turn order, outcome, controllers, end of the loop | 7 line-ups of 2 or 3, among them three with an actor of 0 hit points, one of which can leave nobody standing; natural 1 and 20, blows of 2, 3 and 5 against 4 or 5 hit points, rounds to 4, drive limit 4 |
| `encounter_several` | rewards, stamina and hand-over with interleaved drivers | 2 encounters, 2 requests, drive limit 2, line-ups of controllers only, one that names an actor twice, fights one actor can be in at once, stamina of 1, 0 and -1 |
| `content` | statuses, references, immutability, bindings, compatibility | 2 workspaces, 2 drafts, 4 definitions, 2 principals, 2 versions, 2 proposals, 3 events, appends that may raise |
| `evolution_stale` | *violated:* no key is lost by an activation | 2 workspaces of one draft, 2 proposals, 2 checkpoints, 5 events, no append raises |
| `live_feed` | end-to-end order, cleanup, eventual sending | 2 connections, queues of 2, 3 events of 2 campaigns, batches of 1 or 2; clients that leave, send a malformed message, or neither |
| `world` | hidden things are earned, journeys are connected | 2 actors, 3 places of which one hidden, two objects of one id, 3 maps of which one refused and one not sound, 6 events, any of which may raise |
| `platform` | opening together, recaps, quests, purses, replay | 2 principals, 1 session, 1 quest, 1 encounter won by any of 2 actors, 6 events, one of which may raise |
| `pg_store` | does the database implement the log; lateness, double execution, waiting | 2 processes, 3 commands on 2 streams (one that creates a stream, one without a version), no new command after 3 numbers drawn, crashes without a bound |
| `clock` | each item once, in order, on time | 3 items of 2 priorities at times 0 to 2, advances, cancels and pauses without a bound |

The bounds are enough in this sense: the code treats streams, keys, subscribers,
packs, places and processes uniformly, so two of a kind show every way in which
two can meet; a queue of 2 with batches of 2 is full, half full and empty; a batch
of 2 can be cut before, within and after; a command of three appends can be cut at
each; six events let a session be opened by two, closed and opened again, or a
hidden place be found, entered and used. `MaxSize` stands for the 256 of the code
and `DriveLimit` for its 100: the code compares with them and does nothing else.

**Where the code and its documents disagree.** The violated run is the finding in
`PROJECT.json`: a dry run's report is not made again at activation, so that of two
proposals from one version the second may remove what the first brought, though the
class says it rejects removals.

The other disagreements have no run of their own; they are the exception clauses of
properties that pass, which say exactly how far the code keeps the promise:

* A subscriber whose queue is full makes `append` raise and stops the fan-out
  (`event_store.py:53`): others miss the event, where `HUMAN_PLAYTESTING.md:775`
  wants one slow client not to harm the others. `NoSilentGap` says a subscriber
  misses nothing but events an append raised on (`unoffered`).
* After such an append the command has no receipt, and its retry stores the event
  again, where `TODO.md:359` wants that a retry produces no duplicate event. A retry
  whose client left an id to `new_id` also repeats what its first try stored before
  that append, of another aggregate: a character finalized twice this way leaves two
  actors. `DuplicatesFollowOverflow` says that nothing but an append that raised makes
  a duplicate, and which one it was if the client named every id.
* Nor was that event reduced: the live projection lacks it from then on, and the
  replay hash does not match (`TODO.md:361` asks that it does). `MatchesLive`, like
  `AggregatesLinked` and `RefusalsLeaveNoTrace`, speaks of the time before the first
  such append (`unoffered = {}`); `LiveLacksOnlyCutEvents` says that nothing but
  those events is ever missing, and `ReplayHeals` which projections recover.
* A campaign with a seed its schema refuses is rejected after its event was stored
  (`command_bus.py:92-93`), and so is every later CreateCampaign of that id but one
  that names version 1. That one is accepted, but each replay of the campaign reads
  the refused event first and raises: `MatchesLive` and `LiveLacksOnlyCutEvents`
  except these campaigns (`Spoiled`). The enemy of a template stays when its
  encounter is refused (`full_service.py:156`). `HUMAN_PLAYTESTING.md:723` wants no
  unintended state change. `RefusalsLeaveNoTrace` excepts just the events these two
  leave: it states those hazards rather than catching them, and catches every other.
* Stamina is checked against the encounter the actor's options were read from and
  paid in the one the command names, where it may not be there, though
  `HUMAN_PLAYTESTING.md:349` wants resources never spent twice. `OverspentOnlyAcross`
  says it takes an actor in two encounters: it is about every payment, and not about
  the stamina there is, since a client's list may give a participant less than none
  (`command_bus.py:374`).
* A controller's command can be refused: an actor with no hit points, first in the
  list, may fell the last who stands, and then `_next_living_turn` raises
  (`command_bus.py:474`), the command is rejected, and the request of the client that
  caused it fails with a RuntimeError (`495`); the turn stays where it is.
  `docs/ai/SIMPLE_NPC_AI.md:468` wants a safe fallback. `RefusedOnlyFallen` says that
  with one request at a time nothing else is refused.
* A line-up that names an actor twice can leave an automatic controller on turn
  with no action; `choose_action` raises (`simple_npc.py:15-16`) into the request,
  where `docs/ai/SIMPLE_NPC_AI.md:191` wants a decision not to act.
  `ControllersHandOver` lists this among the reasons a turn may be left waiting.
* A connection whose sender failed never gives its queue back (`ws.py:58`), where
  `HUMAN_PLAYTESTING.md:760` wants every failure to end safely.
  `LeaksOnlyOnFailure` says that no other connection leaks.
* A message that is not a JSON object ends its connection with an exception
  (`ws.py:34-35`), where messages of an unknown type get an `invalid_schema` answer
  (`ws.py:50-53`); events offered to its queue are then never sent, though the client
  is still there. `EventuallySent` is about the clients that send none.

Four behaviours no document rules out, which the properties state as they are: the
recap of a session opened again is empty until it is closed again
(`RecapSpansSession`); CompleteQuest requires the encounter its caller names
(`QuestsRunOnce`); after an append that raised, replay and the live view of an actor
agree again only when the same kind of thing happens to it again, its purse with the
next purchase and its points with the next choice (`ReplayHeals`); over PostgreSQL, the retry of a command that names a version gets
a conflict for what its crashed first try committed, and one that names none may be
executed twice (`ExecutedOnce`).

**Fairness.** `Encounter!FairSpec` assumes that a request that can run does, which
is what the event loop gives a ready coroutine; `LiveFeed!LiveSpec` assumes the
same of each connection's two tasks, and in `SenderStep` that a client which has
not left reads what it is sent. `PgStore!FairSpec` is strong fairness of each
process's next statement: one that waits for a row is enabled only while nobody
holds it, and PostgreSQL grants a row to those who wait for it in a queue. Nothing
is assumed of clients' commands or messages, nor of crashes: nobody has to act,
connect, send or leave.

**Deadlock** is not checked by TLC: an engine without requests is at rest, and
bounded models end when their bounds are reached. That nobody waits for ever is
what `EventuallyAnswered`, `EventuallySent` and `EventuallyOver` say.

## 4. Proofs

Each proof module proves its theorems for every value of the constants, from the
named assumptions of the module it is about and no others. All have one shape: an
inductive invariant, which holds at first and which every action preserves, and
the properties as its consequences.

* **StoreFeed_proofs**, from `BoundsAssumption` (queues hold at least one event) and
  `NoReceiptAssumption`. Of the store: `TwoViewsAgree`, `DeliveredInOrder`,
  `NoSilentGap` and that it refines `StreamLog`. Beside the properties the invariant
  needs that a subscription does not begin in the future (`SinceInPast`), or an event
  stored later could be older than it, and that a queue nobody subscribed is empty
  (`DroppedQueuesEmpty`), or a new subscriber could find old events. `AppendStores`
  gives the two storing outcomes of an append one shape, a batch that enters both
  lists and of which each subscriber gets a prefix (`Stored`); `StoredViews`,
  `StoredReception` and `StoredDelivery` carry the invariant over it.
  Of the feed: every step of it is a step of the store (`FeedUsesStore`), so what is
  proved of the store holds of the queues of the feed; with it `ClientSeesCampaign`
  and `LeaksOnlyOnFailure`. The invariant relates what was sent to what was taken, of
  which only the last may still have to be sent.
* **CommandBus_proofs**, from the assumptions of §5, with `Suspends` of either value,
  so over a store that yields as well as over one that does not.
  `ReceiptsFinal` is not inductive alone: `Finish` could overwrite a receipt saved
  since the lookup, did the lock not span both; `LockInv` says that it does.
  The other six stand on `BusInv`, which says of what kind everything stored and
  projected is (`Typed`), that nothing exists without its campaign
  (`CampaignsFirst`), and for each stage of each handler what is left to append and
  what of the handler's checks still holds (`Staged`). That last part is what a
  handler of several appends relies on: the checks are made before the first, and
  nobody undoes them before the last. Each property has a layer of its own on top:
  * `RollsOnRecord`: between a draw and its append the draw is owed by the command in
    the lock (`RollsKnown`); its version was compared, so the append cannot conflict.
  * `DuplicatesFollowOverflow`: a command with events of which none was cut off is in
    the lock or answered (`SaidBeforeCut`); and an event that was not cut off, of a
    client that names every id, belongs to a command that is answered, or is refused
    whenever it is sent again because its actor exists (`SaidOnce`).
  * `RefusalsLeaveNoTrace`: a command with events is answered or in the lock, and the
    appends after its first can meet no conflict (`Traces`, `ReceiptsKnown`).
  * `AggregatesLinked`: in between, the actor just created is one that the command in
    the lock is about to register, and to enter in the session or encounter it is for
    (`Placed`, `Linked`).
  * `LiveLacksOnlyCutEvents` and `MatchesLive`: `live[s]` is the replay of the events
    of `s` not cut off (`LiveKnown`). `TraceExists` gives the recursion of `Replay` its
    values, by a least place where they would fail, after which one more event is one
    more reduction. `MatchesLive` follows from this and from `Placed` and `Linked`,
    which say that a campaign's events are in the streams that its snapshot names.
* **Encounter_proofs**, from `ActorsAssumption`, `LineupsAssumption`, `DiceAssumption`,
  `EncounterBounds` and `NothingAssumption`: all six safety properties. The invariant
  is the types (`Typed`) and that an encounter's table is formed (`TablesFormed`): its
  turn order is made of its participants, and it is in `born`. `TurnHolderAlive` needs
  that `_next_living_turn` finds somebody, which is where its modular search meets
  `NatMin`, the least number of a set; `DecidedByLastStanding` is what each way to end
  a turn leaves (`Outcomes`). `RewardsOnce` counts the encounters an actor won on its
  feet (`Rewards`): a completion adds one to each winner's, and nothing else adds any.
  `ControllersHandOver` follows a controller's turn from the driver to whom it goes
  next (`Handled`). `OverspentOnlyAcross` is a step's property: what pays is on the list
  the actor was shown, which is of the encounter named unless it is in an earlier one.
  For `RefusedOnlyFallen` the choice made outside the lock must still stand inside it,
  and its key be fresh (`Ready`): that is so with one request at a time as long as no
  actor is on turn in two encounters (`RefusedOnlyFallenApart`), so whatever happens in
  a world of one encounter (`RefusedOnlyFallenAlone`), which is the world of the run.
  What is left is a blow after which nobody stands, which nobody strikes who stood
  before it. With several requests at a time the property is false, and
  `ControllersHandOver` lists a refusal among the ends of a drive.
* **PgStore_proofs**, from `PgAssumption` (keys identify commands, batches are not
  empty): the database refines `StreamLog`, `LateOnlyAcrossStreams` and
  `ExecutedOnce`. The invariant of the first two: whoever holds a row holds it alone,
  at the version it read, and what it has drawn is larger than every number of its
  stream. That of the third adds who may still commit a key (`OnceInv`): one not
  doubtful is executed by one process at most (`NotTwice`), and once committed has a
  receipt or a process on its way to save one (`Sole`); the events of a command that
  names a version stand at just that version of its stream (`Placed`), where nothing
  can stand twice.
* **ContentEvolution_proofs**, from `NothingAssumption`: `StatusHonest`, `PacksResolve`,
  `PublishedImmutable`, `BindingReplays`, `ActivationsWereCompatible`. The invariant
  adds that whatever is bound or proposed is published and that every report which
  says compatible is right about the two packs it names; as packs never change
  (`PacksStay`), a report stays right, and what is stale about it can only be the
  version bound: the finding.
* **World_proofs**, from `MapsAssumption` and `WorldAssumption`: `SecretsEarned` and
  `JourneysConnected`. The invariant says how a projection came to know what it knows
  (`Learned`) and that an actor is where its last move took it (`AtLastMove`).
* **Platform_proofs**, from `PlatformAssumption` and `StreamsAssumption`: all its
  properties. For `QuestsRunOnce` the invariant says what the projections of quests
  and encounters know of the log (`QuestKnown`, `EndKnown`); for `SessionsOpenTogether`
  what a session's does (`SessionKnown`): who joined is a member, who is ready has
  said so last, and a lobby was never opened. The three that speak of a computation
  over the log rest on `HInv`: a session bears the places of its last opening and
  closing (`SpansKnown`, for `RecapSpansSession`); a purse and the prices paid from it
  add up to what it held (`PurseKnown`, for `PursesBalance`); a quest and its replay
  differ only in how far it is, never in whose an accepted quest is, and only until the
  next event (`Healed`), and an actor and its replay in the purse only from a purchase
  cut off to the next, and in the points only from a choice or reward cut off to the
  next choice (`ActorHealed`, for `ReplayHeals`).
* **SimulationClock_proofs**, from `ClockAssumption`: `EachItemOnce`, `DeliveredInOrder`,
  `OnTime`. The invariant says that what waits comes after what was delivered, and
  `LeastExists` that a heap has a least item, by well-foundedness.

Each of these modules also proves the types of the state, as `TypeCorrect` or `Typed`
or within its invariant.

Sums and replays over the history are recursive functions. The induction theorems of
the library take the property as an operator, which no prover here instantiates; so
the proofs state what a trace of such a function is, show that each history has one,
by the least place at which it would not, and use that a longer history continues it.

Model-checked only: the liveness properties `EventuallyAnswered`, `EventuallySent` and
`EventuallyOver`, which are beyond the prover. Every other property of a passing run
is a theorem.

## 5. Assumptions

* `Encounter` is over a store that does not raise; `World`, `Platform` and
  `ContentEvolution` are over one whose appends may raise after they stored, and
  their properties except the events such an append left behind (`cut`).
* `CommandBus` takes the id of an envelope to identify it, and an envelope to name what
  its command works on, while what it creates it may leave to `new_id`
  (`EnvelopesAssumption`): an envelope sent without a `command_id`
  (`domain/commands.py:52`) and without a key is another envelope each time. It takes
  streams of different kinds to differ, as their names have different prefixes
  (`StreamsAssumption`), and None and the mark of a reducer that raised to be no
  projections (`NothingAssumption`). The other modules assume the same of their own
  None. An id that `new_id` gives is of nothing on record; uuids do not repeat.
* In `CommandBus` the actor events of a finalized character carry the id of the
  command that caused them (the code gives the inner command an id of its own).
* A roll is counted, or one of a few outcomes in its range; Python's generator,
  sha256 and pydantic's parsing are taken as correct.
* `PgStore` takes PostgreSQL as documented: READ COMMITTED, row locks released at the
  end of a transaction, sequences that give no number back, primary keys. Its
  processes execute one command at a time, as `execute`'s lock makes them; their
  projections are left out, as is the fan-out, which that store does not have.
* `World` and `Platform` start when the campaigns, actors and (in `Platform`)
  encounters exist that their commands name.

## 6. Not modelled

* Queries, health, configuration and start-up (`api/queries.py`, `api/creator.py`,
  `api/evolution.py`, `api/health.py`, `config.py`, `app.py`): they change no state.
  What they compute from it is modelled where it matters: the replay hash is
  `MatchesLive`, the recap is `Recap`.
* Schema-only domain types (`domain/effects.py`, `requirements.py`, `grants.py`,
  `content.py`, `definitions.py`, `progression.py`, `choices.py`, `visibility.py`): no
  service uses them at run time, so there is no behaviour to translate.
* The playtest runner and its evidence files: test tooling.
* SimulateEncounterTemplate: it builds an engine of its own for each run, plays it
  and throws it away. Each is the behaviour of `CommandBus` and `Encounter`; the
  command adds averages.
* The dice generator; the scripted, remote and system controllers, which have no
  code; the tables for snapshots and projection checkpoints, which nothing writes.
* A crash of the shipped process: the in-memory store dies with it, and nothing is
  recovered.
