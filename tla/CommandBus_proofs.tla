------------------------- MODULE CommandBus_proofs -------------------------
(* What holds of CommandBus for every set of envelopes, streams, keys and      *)
(* queues, whether or not the store lets others run between its calls.         *)
(*                                                                             *)
(* LockInv: the command that holds _command_lock is the only one that can      *)
(* answer its key, so a key's first receipt is its last.                       *)
(* BusInv: whatever is stored and projected is of its kind, and whatever a     *)
(* handler checked before its first append still holds at its last.            *)
(* On BusInv stand, in this order, what is said of dice (RollsKnown), of       *)
(* retries (SaidOnce, SaidBeforeCut), of refusals (Traces, ReceiptsKnown), of  *)
(* how aggregates refer to each other (Placed, Linked) and of replays          *)
(* (LiveKnown); each is inductive only together with those it cites.           *)
EXTENDS CommandBus, FiniteSetTheorems, WellFoundedInduction, TLAPS

\* What the lock protects.
Locked ==
    exec # Nothing => /\ exec = Running(exec.command, exec.todo, exec.status)
                      /\ receipts[exec.command.key] = NoReceipt

LockInv == receipts = [k \in Keys |-> receipts[k]] /\ Locked

\* Nobody holds the lock at first, and nothing is answered.
LEMMA InitLock == BusInit => LockInv
BY DEF BusInit, Init, LockInv, Locked

\* Only Finish writes a receipt.
LEMMA SameReceipts ==
    BusNext \/ UNCHANGED allVars => Finish \/ UNCHANGED receipts
BY DEF BusNext, AlreadyProcessed, Dispatch, Refuse, StepRaises, StepStored, StepConflicts,
       StepQueueFull, Feed, AppendEvents, AppendConflict, AppendQueueFull, Subscribe, Unsubscribe, Take,
       vars, storeVars, feedVars, allVars

\* A command gets the lock only while its key has no receipt, and gives the lock back
\* in the step that saves one.
LEMMA NextLock == LockInv /\ [BusNext]_allVars => LockInv'
<1>. SUFFICES ASSUME LockInv, [BusNext]_allVars PROVE LockInv'
  OBVIOUS
<1>1. CASE Finish
  <2>1. receipts' = [receipts EXCEPT ![exec.command.key] =
                        [command |-> exec.command.id, status |-> exec.status]]
    BY <1>1 DEF Finish, SaveReceipt
  <2>2. exec' = Nothing
    BY <1>1 DEF Finish
  <2>. QED  BY <2>1, <2>2 DEF LockInv, Locked
<1>2. CASE UNCHANGED receipts
  <2>1. CASE UNCHANGED exec
    BY <1>2, <2>1 DEF LockInv, Locked, Running
  <2>2. ASSUME NEW c, Dispatch(c) \/ Refuse(c) PROVE LockInv'
    <3>1. receipts[c.key] = NoReceipt
      BY <2>2 DEF Dispatch, Refuse, Unanswered
    <3>2. PICK todo, status : exec' = Running(c, todo, status)
      BY <2>2 DEF Dispatch, Refuse
    <3>. QED  BY <1>2, <3>1, <3>2 DEF LockInv, Locked, Running
  <2>3. CASE StepRaises \/ StepStored \/ StepConflicts
    <3>1. exec # Nothing
      BY <2>3 DEF StepRaises, StepStored, StepConflicts, Pending, AppendConflict
    <3>2. exec = Running(exec.command, exec.todo, exec.status)
      BY <3>1 DEF LockInv, Locked
    <3>4. PICK todo, status : exec' = Running(exec.command, todo, status)
      BY <2>3, Zenon DEF StepRaises, StepStored, StepConflicts
    <3>. QED  BY <1>2, <3>1, <3>4 DEF LockInv, Locked, Running
  <2>4. CASE StepQueueFull
    BY <1>2, <2>4 DEF StepQueueFull, LockInv, Locked
  <2>5. ASSUME NEW c, AlreadyProcessed(c) PROVE UNCHANGED exec
    BY <2>5 DEF AlreadyProcessed
  <2>6. CASE Feed
    BY <2>1, <2>6 DEF Feed, busVars
  <2>7. CASE UNCHANGED allVars
    BY <2>1, <2>7 DEF allVars
  <2>. QED  BY <1>1, <2>1, <2>2, <2>3, <2>4, <2>5, <2>6, <2>7 DEF BusNext
<1>. QED  BY <1>1, <1>2, SameReceipts

\* While a command holds the lock its key has no receipt, through every append it
\* makes and whatever its subscribers do meanwhile.
THEOREM LockedUnanswered == BusSpec => []LockInv
BY InitLock, NextLock, PTL DEF BusSpec

\* A key keeps its first receipt: execute looks it up and saves it under one lock, so
\* no retry and no other envelope with the same key can replace the verdict.
THEOREM ReceiptsAreFinal == BusSpec => ReceiptsFinal
<1>1. LockInv /\ [BusNext]_allVars =>
          [\A k \in Keys : receipts[k] # NoReceipt => receipts'[k] = receipts[k]]_allVars
  <2>. SUFFICES ASSUME LockInv, BusNext, NEW k \in Keys, receipts[k] # NoReceipt
                PROVE  receipts'[k] = receipts[k]
    OBVIOUS
  <2>1. CASE Finish
    <3>1. receipts[exec.command.key] = NoReceipt
      BY <2>1 DEF Finish, LockInv, Locked
    <3>2. receipts' = [receipts EXCEPT ![exec.command.key] =
                          [command |-> exec.command.id, status |-> exec.status]]
      BY <2>1 DEF Finish, SaveReceipt
    <3>. QED  BY <3>1, <3>2 DEF LockInv
  <2>. QED  BY <2>1, SameReceipts
<1>. QED  BY <1>1, LockedUnanswered, PTL DEF BusSpec, ReceiptsFinal

-----------------------------------------------------------------------------
(* Envelopes, as sent and as handlers read them *)

\* What an envelope keeps when ids are put in for those it leaves out.
Same(c, d) ==
    /\ c.id = d.id /\ c.key = d.key /\ c.type = d.type
    /\ c.type = "FinalizeCharacterCreation" => c.target = d.target

Targets(c, ids) == ids \cap IF c.type = "StartCharacterCreation" THEN Creations ELSE Actors

LEMMA Read ==
    ASSUME NEW c \in Commands, NEW ids, NEW d \in Readings(c, ids)
    PROVE  /\ d = [id |-> c.id, key |-> c.key, type |-> c.type, expected |-> c.expected,
                   principal |-> c.principal, player |-> c.player,
                   campaign |-> d.campaign, target |-> d.target, data |-> d.data,
                   encounter |-> d.encounter]
           /\ d.id = c.id /\ d.key = c.key /\ d.type = c.type /\ d.expected = c.expected
           /\ d.principal = c.principal /\ d.player = c.player
           /\ IF c.type = "CreateCampaign" /\ c.campaign = Nothing
              THEN d.campaign \in Campaigns \cap ids ELSE d.campaign = c.campaign
           /\ IF /\ c.type \in {"CreateActor", "StartCharacterCreation",
                               "InstantiateEncounterTemplate"}
                 /\ c.target = Nothing
              THEN d.target \in Targets(c, ids) ELSE d.target = c.target
           /\ IF c.type = "FinalizeCharacterCreation" /\ c.data = Nothing
              THEN d.data \in Actors \cap ids ELSE d.data = c.data
           /\ IF c.type = "InstantiateEncounterTemplate" /\ c.encounter = Nothing
              THEN d.encounter \in Encounters \cap ids ELSE d.encounter = c.encounter
<1>. DEFINE A == Given(c.campaign, c.type = "CreateCampaign", Campaigns \cap ids)
            B == Given(c.target, c.type \in {"CreateActor", "StartCharacterCreation",
                                             "InstantiateEncounterTemplate"}, Targets(c, ids))
            C == Given(c.data, c.type = "FinalizeCharacterCreation", Actors \cap ids)
            D == Given(c.encounter, c.type = "InstantiateEncounterTemplate", Encounters \cap ids)
<1>0. Readings(c, ids) =
          {[id |-> c.id, key |-> c.key, type |-> c.type, expected |-> c.expected,
            principal |-> c.principal, player |-> c.player, campaign |-> campaign,
            target |-> target, data |-> data, encounter |-> encounter] :
              campaign \in A, target \in B, data \in C, encounter \in D}
  BY DEF Readings, Targets
<1>1. PICK campaign \in A, target \in B, data \in C, encounter \in D :
          d = [id |-> c.id, key |-> c.key, type |-> c.type, expected |-> c.expected,
               principal |-> c.principal, player |-> c.player, campaign |-> campaign,
               target |-> target, data |-> data, encounter |-> encounter]
  <2>. HIDE DEF A, B, C, D
  <2>. QED  BY <1>0
<1>2. /\ d.id = c.id /\ d.key = c.key /\ d.type = c.type /\ d.expected = c.expected
      /\ d.principal = c.principal /\ d.player = c.player /\ d.campaign = campaign
      /\ d.target = target /\ d.data = data /\ d.encounter = encounter
  BY <1>1
<1>. QED  BY <1>1, <1>2 DEF Given

LEMMA ReadSame ==
    ASSUME NEW c \in Commands, NEW ids, NEW d \in Readings(c, ids)
    PROVE  Same(c, d)
BY Read DEF Same

\* A handler reads what was sent.
LEMMA ReadHandled ==
    ASSUME NEW c \in Commands, NEW ids \in SUBSET Streams, NEW d \in Readings(c, ids)
    PROVE  d \in Handled
<1>1. d.target \in Given(c.target, c.type \in {"CreateActor", "StartCharacterCreation",
                                              "InstantiateEncounterTemplate"},
                         Targets(c, Streams))
  BY Read DEF Given, Targets
<1>2. d.campaign \in Given(c.campaign, c.type = "CreateCampaign", Campaigns \cap Streams)
  BY Read DEF Given
<1>5. d.data \in Given(c.data, c.type = "FinalizeCharacterCreation", Actors \cap Streams)
  BY Read DEF Given
<1>6. d.encounter \in Given(c.encounter, c.type = "InstantiateEncounterTemplate",
                            Encounters \cap Streams)
  BY Read DEF Given
<1>3. d = [id |-> c.id, key |-> c.key, type |-> c.type, expected |-> c.expected,
           principal |-> c.principal, player |-> c.player,
           campaign |-> d.campaign, target |-> d.target, data |-> d.data, encounter |-> d.encounter]
  BY Read
<1>4. d \in Readings(c, Streams)
  BY <1>1, <1>2, <1>3, <1>5, <1>6 DEF Readings, Targets
<1>. QED  BY <1>4 DEF Handled

LEMMA Sent == ASSUME NEW d \in Handled PROVE \E c \in Commands : d \in Readings(c, Streams) /\ Same(c, d)
<1>1. PICK c \in Commands : d \in Readings(c, Streams)
  BY DEF Handled
<1>. QED  BY <1>1, ReadSame

\* The id tells an envelope.
LEMMA SameId ==
    ASSUME NEW c \in Commands \cup Handled, NEW d \in Commands \cup Handled, c.id = d.id
    PROVE  Same(c, d)
<1>1. ASSUME NEW x \in Commands \cup Handled
      PROVE  \E y \in Commands : Same(y, x)
  BY <1>1, Sent DEF Same
<1>2. PICK a \in Commands : Same(a, c)
  BY <1>1
<1>3. PICK b \in Commands : Same(b, d)
  BY <1>1
<1>4. a = b
  BY <1>2, <1>3, EnvelopesAssumption DEF Same
<1>. QED  BY <1>2, <1>3, <1>4 DEF Same

\* A client that leaves no id out leaves no choice.
Named(id) == \E c \in Explicit : c.id = id

LEMMA OneReading ==
    ASSUME NEW c \in Handled, NEW d \in Handled, c.id = d.id, Named(c.id)
    PROVE  c = d
<1>1. PICK a \in Commands : a.id = c.id /\ Readings(a, {}) # {}
  BY DEF Named, Explicit
<1>2. PICK r : r \in Readings(a, {})
  BY <1>1
<1>3. /\ r.campaign = a.campaign /\ ~(a.type = "CreateCampaign" /\ a.campaign = Nothing)
      /\ r.data = a.data /\ ~(a.type = "FinalizeCharacterCreation" /\ a.data = Nothing)
      /\ r.encounter = a.encounter
      /\ ~(a.type = "InstantiateEncounterTemplate" /\ a.encounter = Nothing)
  BY <1>2, Read
<1>4. ~(/\ a.type \in {"CreateActor", "StartCharacterCreation", "InstantiateEncounterTemplate"}
        /\ a.target = Nothing)
  BY <1>2, Read DEF Targets
<1>5. ASSUME NEW x \in Handled, x.id = a.id
      PROVE  x = [id |-> a.id, key |-> a.key, type |-> a.type, expected |-> a.expected,
                  principal |-> a.principal, player |-> a.player, campaign |-> a.campaign,
                  target |-> a.target, data |-> a.data, encounter |-> a.encounter]
  <2>1. PICK b \in Commands : x \in Readings(b, Streams) /\ Same(b, x)
    BY Sent
  <2>2. b = a
    BY <1>5, <2>1, EnvelopesAssumption DEF Same
  <2>3. /\ x.campaign = a.campaign /\ x.data = a.data /\ x.encounter = a.encounter
        /\ x.target = a.target
    <3>1. x.campaign = a.campaign /\ x.data = a.data /\ x.encounter = a.encounter
      BY <1>3, <2>1, <2>2, Read
    <3>2. x.target = a.target
      BY <1>4, <2>1, <2>2, Read
    <3>. QED  BY <3>1, <3>2
  <2>4. x = [id |-> b.id, key |-> b.key, type |-> b.type, expected |-> b.expected,
             principal |-> b.principal, player |-> b.player, campaign |-> x.campaign,
             target |-> x.target, data |-> x.data, encounter |-> x.encounter]
    BY <2>1, Read
  <2>. QED  BY <2>2, <2>3, <2>4
<1>. QED  BY <1>1, <1>5

-----------------------------------------------------------------------------
(* The state, and how far the command in the lock has come *)

\* What a projection of the stream may be.
StatesOf(s) == IF s \in Campaigns THEN CampaignStates ELSE IF s \in Actors THEN ActorStates
               ELSE IF s \in Creations THEN CreationStates ELSE EncounterStates

BusEvents == [stream: Streams, version: Nat, sequence: Nat, payload: EventPayloads]

Typed ==
    /\ events \in Seq(BusEvents)
    /\ \A n \in DOMAIN events : events[n].sequence = n
    /\ streams \in [Streams -> Seq(BusEvents)]
    /\ unoffered \in SUBSET (1..Len(events))
    /\ live = [s \in Streams |-> live[s]]
    /\ \A s \in Streams : live[s] \in StatesOf(s) \cup {Nothing}
    /\ rolls \in [Campaigns -> Nat]
    /\ exec \in Executions \cup {Nothing}

\* The campaign of an aggregate was there before it.
CampaignsFirst == \A s \in Streams \ Campaigns : Exists(s) => Exists(live[s].campaign)

\* The actor a command creates: which, where, and what it is.
Builders == {"CreateActor", "FinalizeCharacterCreation", "InstantiateEncounterTemplate"}
ActorOf(c) == IF c.type = "FinalizeCharacterCreation" THEN c.data ELSE c.target
CampaignOf(c) == IF c.type = "FinalizeCharacterCreation" THEN live[c.target].campaign ELSE c.campaign
StatsOf(c) == IF c.type = "FinalizeCharacterCreation" THEN live[c.target].archetype ELSE c.data

\* Its appends, one by one.
Build(c, expected) ==
    Step(ActorOf(c), expected, Payload(c, "ActorCreated", CampaignOf(c), StatsOf(c), 0))
Register(c) ==
    Step(CampaignOf(c), Nothing, Payload(c, "ActorRegistered", CampaignOf(c), ActorOf(c), 0))
Finalize(c) ==
    Step(c.target, Nothing, Payload(c, "CharacterCreationFinalized", CampaignOf(c), c.data, 0))
Engage(c) ==
    Step(c.encounter, 0, Payload(c, "EncounterStarted", c.campaign, {c.player, c.target}, 0))

\* What follows the registration.
Ends(c, last) ==
    \/ c.type = "CreateActor" /\ last = <<>>
    \/ c.type = "FinalizeCharacterCreation" /\ last = <<Finalize(c)>>
    \/ c.type = "InstantiateEncounterTemplate" /\ last = <<Raise>>
    \/ c.type = "InstantiateEncounterTemplate" /\ ~Exists(c.encounter) /\ last = <<Engage(c)>>

\* What the handler checked still holds.
Ready(c) ==
    /\ CampaignOf(c) \in Campaigns /\ Exists(CampaignOf(c)) /\ StatsOf(c) \in Data
    /\ c.type = "FinalizeCharacterCreation" => Exists(c.target) /\ live[c.target].status = "draft"
    /\ c.type = "InstantiateEncounterTemplate" =>
           Exists(c.player) /\ live[c.player].campaign = c.campaign /\ c.player # c.target

Built(c) == /\ Exists(ActorOf(c))
            /\ live[ActorOf(c)].campaign = CampaignOf(c) /\ live[ActorOf(c)].stats = StatsOf(c)

AfterTwo(todo) == Tail(Tail(todo))

\* How far a handler is, by what it still has to do.
ToBuild(c) ==
    /\ c.type \in Builders /\ Ready(c) /\ ~Exists(ActorOf(c))
    /\ Len(exec.todo) >= 2
    /\ exec.todo[1] = Build(c, exec.todo[1].expected) /\ exec.todo[2] = Register(c)
    /\ Ends(c, AfterTwo(exec.todo))
ToRegister(c) ==
    /\ c.type \in Builders /\ Ready(c) /\ Built(c)
    /\ exec.todo # <<>> /\ Todo = Register(c) /\ Ends(c, Tail(exec.todo))
ToEnd(c) ==
    /\ c.type \in Builders /\ Ready(c) /\ Built(c)
    /\ Ends(c, exec.todo)

Creating(c) ==
    /\ c.type = "CreateCampaign" /\ ~Exists(c.campaign)
    /\ exec.todo = << Step(c.campaign, OrZero(c.expected),
                           Payload(c, "CampaignCreated", c.campaign, c.data, 0)) >>
Rolling(c) ==
    /\ c.type = "RollDice" /\ Exists(c.campaign)
    /\ c.expected \in {Nothing, CurrentVersion(c.campaign)}
    /\ rolls[c.campaign] # 0
    /\ exec.todo = << Step(c.campaign, c.expected,
                           Payload(c, "DiceRolled", c.campaign, c.data, rolls[c.campaign])) >>
Drafting(c) ==
    /\ c.type = "StartCharacterCreation" /\ Exists(c.campaign) /\ ~Exists(c.target)
    /\ exec.todo = << Step(c.target, 0,
                           Payload(c, "CharacterCreationStarted", c.campaign, c.principal, 0)) >>
Choosing(c, type) ==
    /\ Exists(c.target) /\ live[c.target].status = "draft"
    /\ exec.todo = << Step(c.target, Nothing, Payload(c, type, live[c.target].campaign, c.data, 0)) >>

Stage(c) ==
    \/ Creating(c) \/ Rolling(c) \/ Drafting(c)
    \/ c.type = "SelectCharacterName" /\ Choosing(c, "CharacterNameSelected")
    \/ c.type = "SelectCharacterArchetype" /\ Choosing(c, "CharacterArchetypeSelected")
    \/ ToBuild(c) \/ ToRegister(c) \/ ToEnd(c)

Staged == exec # Nothing /\ exec.todo # <<>> => exec.status = "accepted" /\ Stage(exec.command)


BusInv == Typed /\ CampaignsFirst /\ Staged

-----------------------------------------------------------------------------
(* What a stored append does *)

\* A projection is neither of the two things that stand for none.
LEMMA States ==
    ASSUME NEW s \in Streams, NEW state \in StatesOf(s)
    PROVE  state # Nothing /\ state # Invalid
BY NothingAssumption DEF StatesOf

\* The kinds of streams are kept apart by their names.
LEMMA KindsApart ==
    /\ \A s \in Campaigns : s \in Streams /\ StatesOf(s) = CampaignStates
    /\ \A s \in Actors : s \in Streams /\ s \notin Campaigns /\ StatesOf(s) = ActorStates
    /\ \A s \in Creations : /\ s \in Streams /\ s \notin Campaigns /\ s \notin Actors
                            /\ s \notin Encounters /\ StatesOf(s) = CreationStates
    /\ \A s \in Encounters : /\ s \in Streams /\ s \notin Campaigns /\ s \notin Actors
                             /\ s \notin Creations /\ StatesOf(s) = EncounterStates
BY StreamsAssumption DEF StatesOf

\* What a command names when its handler has read it.
LEMMA Envelope ==
    ASSUME NEW c \in Handled
    PROVE  /\ c.campaign \in Campaigns /\ c.campaign \in Streams /\ c.key \in Keys
           /\ c.data \in Data \cup Actors /\ c.principal \in Principals
           /\ c.type # "FinalizeCharacterCreation" => c.data \in Data
           /\ c.expected \in Nat \cup {Nothing} /\ OrZero(c.expected) \in Nat
           /\ c.type = "CreateActor" => c.target \in Actors
           /\ c.type \in {"StartCharacterCreation", "SelectCharacterName", "SelectCharacterArchetype",
                          "FinalizeCharacterCreation"} => c.target \in Creations
           /\ c.type = "FinalizeCharacterCreation" => c.data \in Actors
           /\ c.type = "InstantiateEncounterTemplate" =>
                  c.target \in Actors /\ c.player \in Actors /\ c.encounter \in Encounters
           /\ c.type \in Builders => ActorOf(c) \in Actors
           /\ c.id \in {b.id : b \in Commands}
<1>1. PICK b \in Commands : c \in Readings(b, Streams)
  BY Sent
<1>2. /\ c.id = b.id /\ c.key = b.key /\ c.type = b.type /\ c.expected = b.expected
      /\ c.principal = b.principal /\ c.player = b.player
  BY <1>1, Read
<1>3. /\ c.key \in Keys /\ c.expected \in Nat \cup {Nothing} /\ c.principal \in Principals
      /\ c.type = "InstantiateEncounterTemplate" => c.player \in Actors
      /\ c.id \in {a.id : a \in Commands}
  BY <1>2, EnvelopesAssumption DEF Principals
<1>4. c.campaign \in Campaigns
  BY <1>1, <1>2, EnvelopesAssumption, Read
<1>5. /\ c.type # "FinalizeCharacterCreation" => c.data \in Data
      /\ c.type = "FinalizeCharacterCreation" => c.data \in Actors
  BY <1>1, <1>2, EnvelopesAssumption, Read DEF Data
<1>6. c.type = "InstantiateEncounterTemplate" => c.encounter \in Encounters
  BY <1>1, <1>2, EnvelopesAssumption, Read
<1>7. /\ c.type \in {"CreateActor", "InstantiateEncounterTemplate"} => c.target \in Actors
      /\ c.type \in {"StartCharacterCreation", "SelectCharacterName", "SelectCharacterArchetype",
                     "FinalizeCharacterCreation"} => c.target \in Creations
  BY <1>1, <1>2, EnvelopesAssumption, Read, KindsApart DEF Targets
<1>8. c.campaign \in Streams
  BY <1>4, KindsApart
<1>9. OrZero(c.expected) \in Nat
  BY <1>3 DEF OrZero
<1>. QED  BY <1>3, <1>4, <1>5, <1>6, <1>7, <1>8, <1>9 DEF Builders, ActorOf

LEMMA Pushed ==
    ASSUME NEW S, NEW l \in Seq(S), NEW e \in S, NEW m, m = Append(l, e)
    PROVE  /\ m \in Seq(S) /\ Len(m) = Len(l) + 1 /\ Len(l) \in Nat
           /\ DOMAIN l = 1..Len(l) /\ DOMAIN m = 1..(Len(l) + 1)
           /\ \A n \in 1..Len(l) : m[n] = l[n]
           /\ m[Len(l) + 1] = e
OBVIOUS

\* Of the command in the lock.
LEMMA ExecType ==
    ASSUME Typed, exec # Nothing
    PROVE  /\ exec.command \in Handled /\ exec.todo \in Seq(Steps) /\ exec.status \in Statuses
           /\ exec = [command |-> exec.command, todo |-> exec.todo, status |-> exec.status]
BY DEF Typed, Executions

LEMMA TodoType ==
    ASSUME Typed, Pending
    PROVE  /\ Todo \in [stream: Streams, expected: Nat \cup {Nothing}, payload: EventPayloads]
           /\ Len(exec.todo) \in Nat \ {0} /\ Todo = exec.todo[1]
<1>1. exec.todo \in Seq(Steps) /\ exec.todo # <<>>
  BY ExecType DEF Pending
<1>2. Todo \in Steps
  BY <1>1 DEF Todo
<1>. QED  BY <1>1, <1>2 DEF Pending, Steps, Todo

\* The event of an append of one payload.
LEMMA OneStored ==
    ASSUME Typed, NEW s \in Streams, NEW p \in EventPayloads, Store(s, <<p>>)
    PROVE  \E e \in BusEvents :
               /\ e.stream = s /\ e.payload = p
               /\ e.version = Len(streams[s]) + 1 /\ e.sequence = Len(events) + 1
               /\ events' = Append(events, e)
               /\ streams' = [streams EXCEPT ![s] = Append(streams[s], e)]
<1>1. PICK e : e = [stream |-> s, version |-> Len(streams[s]) + 1,
                    sequence |-> Len(events) + 1, payload |-> p]
  OBVIOUS
<1>2. Len(streams[s]) \in Nat /\ Len(events) \in Nat /\ events \in Seq(BusEvents)
      /\ streams[s] \in Seq(BusEvents)
  BY DEF Typed
<1>3. e \in BusEvents
  BY <1>1, <1>2 DEF BusEvents
<1>4. Stamped(s, <<p>>) = <<e>>
  BY <1>1, <1>2 DEF Stamped
<1>5. events' = events \o <<e>> /\ streams' = [streams EXCEPT ![s] = streams[s] \o <<e>>]
  BY <1>4 DEF Store
<1>6. events \o <<e>> = Append(events, e) /\ streams[s] \o <<e>> = Append(streams[s], e)
  BY <1>2, <1>3
<1>. QED  BY <1>1, <1>3, <1>5, <1>6

\* What the stored event e of command c makes of the projection it is reduced into, and
\* what is then left to do, handler by handler and append by append.
Opened(c, e, new) ==
    /\ Creating(c) /\ e.stream = c.campaign /\ e.payload.campaign = c.campaign
    /\ e.payload.type = "CampaignCreated"
    /\ IF BadSeed(e) THEN new = Invalid ELSE new \in CampaignStates /\ new.actor_ids = {}
RolledNow(c, e, new) ==
    /\ Rolling(c) /\ e.stream = c.campaign /\ e.payload.campaign = c.campaign
    /\ e.payload.type = "DiceRolled" /\ e.payload.roll = rolls[c.campaign]
    /\ new \in CampaignStates /\ new.actor_ids = live[c.campaign].actor_ids
Drafted(c, e, new) ==
    /\ Drafting(c) /\ e.stream = c.target /\ e.payload.campaign = c.campaign
    /\ c.target \in Creations
    /\ e.payload.type = "CharacterCreationStarted"
    /\ new \in CreationStates /\ new.campaign = c.campaign /\ new.status = "draft"
Chosen(c, e, new) ==
    /\ c.type \in {"SelectCharacterName", "SelectCharacterArchetype"}
    /\ Exists(c.target) /\ live[c.target].status = "draft" /\ c.target \in Creations
    /\ e.stream = c.target /\ e.payload.campaign = live[c.target].campaign
    /\ e.payload.type \in {"CharacterNameSelected", "CharacterArchetypeSelected"}
    /\ new \in CreationStates /\ new.campaign = live[c.target].campaign /\ new.status = "draft"
BuiltNow(c, e, new, rest) ==
    /\ ToBuild(c) /\ e.stream = ActorOf(c) /\ e.payload.campaign = CampaignOf(c)
    /\ e.payload.type = "ActorCreated" /\ ActorOf(c) \in Actors
    /\ new \in ActorStates /\ new.campaign = CampaignOf(c) /\ new.stats = StatsOf(c)
    /\ rest # <<>> /\ Head(rest) = Register(c) /\ Ends(c, Tail(rest))
Registered(c, e, new, rest) ==
    /\ ToRegister(c) /\ e.stream = CampaignOf(c) /\ e.payload.campaign = CampaignOf(c)
    /\ e.payload.type = "ActorRegistered" /\ ActorOf(c) \in Actors
    /\ new \in CampaignStates
    /\ new.actor_ids = live[CampaignOf(c)].actor_ids \cup {ActorOf(c)}
    /\ Ends(c, rest)
Finalized(c, e, new) ==
    /\ ToEnd(c) /\ c.type = "FinalizeCharacterCreation" /\ c.target \in Creations /\ c.data \in Actors
    /\ e.stream = c.target /\ e.payload.campaign = CampaignOf(c)
    /\ e.payload.type = "CharacterCreationFinalized"
    /\ new \in CreationStates /\ new.campaign = live[c.target].campaign
    /\ new.archetype = live[c.target].archetype
    /\ new.status = "finalized" /\ new.actor = c.data
Engaged(c, e, new) ==
    /\ ToEnd(c) /\ c.type = "InstantiateEncounterTemplate"
    /\ c.target \in Actors /\ c.player \in Actors /\ c.encounter \in Encounters
    /\ ~Exists(c.encounter)
    /\ e.stream = c.encounter /\ e.payload.campaign = c.campaign
    /\ e.payload.type = "EncounterStarted"
    /\ new \in EncounterStates /\ new.campaign = c.campaign /\ new.actors = {c.player, c.target}

Effect(c, e, new, rest) ==
    \/ /\ rest = <<>>
       /\ \/ Opened(c, e, new) \/ RolledNow(c, e, new) \/ Drafted(c, e, new) \/ Chosen(c, e, new)
          \/ Finalized(c, e, new) \/ Engaged(c, e, new)
    \/ BuiltNow(c, e, new, rest) \/ Registered(c, e, new, rest)

LEMMA OneLeft == ASSUME NEW x PROVE Head(<<x>>) = x /\ Tail(<<x>>) = <<>> /\ <<x>> # <<>> /\ Len(<<x>>) = 1
OBVIOUS

LEMMA TwoLeft ==
    ASSUME NEW S, NEW l \in Seq(S), Len(l) >= 2
    PROVE  Tail(l) # <<>> /\ Head(Tail(l)) = l[2]
<1>1. PICK m : m = Tail(l)
  OBVIOUS
<1>2. m \in Seq(S) /\ Len(m) >= 1 /\ m[1] = l[2]
  BY <1>1
<1>3. m # <<>> /\ Head(m) = m[1]
  BY <1>2
<1>. QED  BY <1>1, <1>2, <1>3

\* Reducing a campaign's event that is not the first.
LEMMA ReducesCampaign ==
    ASSUME NEW s \in Campaigns, NEW state \in CampaignStates, NEW e \in BusEvents, e.stream = s
    PROVE  /\ e.payload.type = "DiceRolled" =>
                 /\ Reduce(state, e) \in CampaignStates
                 /\ Reduce(state, e).actor_ids = state.actor_ids
           /\ (e.payload.type = "ActorRegistered" /\ e.payload.data \in Actors) =>
                 /\ Reduce(state, e) \in CampaignStates
                 /\ Reduce(state, e).actor_ids = state.actor_ids \cup {e.payload.data}
<1>1. state # Nothing /\ state # Invalid
  BY States, KindsApart
<1>2. e.version \in Nat
  BY DEF BusEvents
<1>3. Reduce(state, e) = ReduceCampaign(state, e)
  BY <1>1 DEF Reduce
<1>4. CASE e.payload.type = "DiceRolled"
  <2>1. Reduce(state, e) = [state EXCEPT !.version = e.version]
    BY <1>3, <1>4 DEF ReduceCampaign
  <2>. QED  BY <1>2, <1>4, <2>1 DEF CampaignStates
<1>5. CASE e.payload.type = "ActorRegistered"
  <2>1. Reduce(state, e) = [version |-> e.version, actor_ids |-> state.actor_ids \cup {e.payload.data}]
    BY <1>3, <1>5 DEF ReduceCampaign
  <2>. QED  BY <1>2, <1>5, <2>1 DEF CampaignStates
<1>. QED  BY <1>4, <1>5

\* Reducing a character creation's event that is not the first.
LEMMA ReducesCreation ==
    ASSUME NEW s \in Creations, NEW state \in CreationStates, NEW e \in BusEvents, e.stream = s
    PROVE  /\ (e.payload.type = "CharacterNameSelected" /\ e.payload.data \in Data) =>
                 /\ Reduce(state, e) \in CreationStates
                 /\ Reduce(state, e).campaign = state.campaign
                 /\ Reduce(state, e).status = state.status
           /\ (e.payload.type = "CharacterArchetypeSelected" /\ e.payload.data \in Data) =>
                 /\ Reduce(state, e) \in CreationStates
                 /\ Reduce(state, e).campaign = state.campaign
                 /\ Reduce(state, e).status = state.status
           /\ (e.payload.type = "CharacterCreationFinalized" /\ e.payload.data \in Actors) =>
                 /\ Reduce(state, e) \in CreationStates
                 /\ Reduce(state, e).campaign = state.campaign
                 /\ Reduce(state, e).archetype = state.archetype
                 /\ Reduce(state, e).status = "finalized" /\ Reduce(state, e).actor = e.payload.data
<1>1. state # Nothing /\ state # Invalid
  BY States, KindsApart
<1>2. e.version \in Nat
  BY DEF BusEvents
<1>3. Reduce(state, e) = ReduceCreation(state, e)
  BY <1>1, KindsApart DEF Reduce
<1>4. CASE e.payload.type = "CharacterNameSelected"
  <2>1. Reduce(state, e) = [state EXCEPT !.version = e.version, !.name = e.payload.data]
    BY <1>3, <1>4 DEF ReduceCreation
  <2>. QED  BY <1>2, <1>4, <2>1 DEF CreationStates
<1>5. CASE e.payload.type = "CharacterArchetypeSelected"
  <2>1. Reduce(state, e) = [state EXCEPT !.version = e.version, !.archetype = e.payload.data]
    BY <1>3, <1>5 DEF ReduceCreation
  <2>. QED  BY <1>2, <1>5, <2>1 DEF CreationStates
<1>6. CASE e.payload.type = "CharacterCreationFinalized"
  <2>1. Reduce(state, e) = [state EXCEPT !.version = e.version, !.status = "finalized",
                                         !.actor = e.payload.data]
    BY <1>3, <1>6 DEF ReduceCreation
  <2>. QED  BY <1>2, <1>6, <2>1 DEF CreationStates
<1>. QED  BY <1>4, <1>5, <1>6

\* Reducing a first event, or one that starts a projection anew.
LEMMA ReducesFirst ==
    ASSUME NEW e \in BusEvents, NEW state, state # Invalid
    PROVE  /\ (e.payload.type = "CampaignCreated" /\ e.stream \in Campaigns) =>
                 IF BadSeed(e) THEN Reduce(state, e) = Invalid
                 ELSE Reduce(state, e) \in CampaignStates /\ Reduce(state, e).actor_ids = {}
           /\ (/\ e.payload.type = "ActorCreated" /\ e.stream \in Actors /\ e.payload.data \in Data) =>
                 /\ Reduce(state, e) \in ActorStates
                 /\ Reduce(state, e).campaign = e.payload.campaign
                 /\ Reduce(state, e).stats = e.payload.data
           /\ (/\ e.payload.type = "CharacterCreationStarted" /\ e.stream \in Creations
               /\ e.payload.data \in Principals) =>
                 /\ Reduce(state, e) \in CreationStates
                 /\ Reduce(state, e).campaign = e.payload.campaign
                 /\ Reduce(state, e).status = "draft"
           /\ (/\ e.payload.type = "EncounterStarted" /\ e.stream \in Encounters
               /\ e.payload.data \in SUBSET Actors) =>
                 /\ Reduce(state, e) \in EncounterStates
                 /\ Reduce(state, e).campaign = e.payload.campaign
                 /\ Reduce(state, e).actors = e.payload.data
<1>1. e.version \in Nat /\ e.payload \in EventPayloads /\ e.payload.campaign \in Campaigns
  BY DEF BusEvents, EventPayloads
<1>2. CASE e.payload.type = "CampaignCreated" /\ e.stream \in Campaigns
  <2>1. Reduce(state, e) = ReduceCampaign(state, e)
    BY <1>2 DEF Reduce, Creates
  <2>2. Reduce(state, e) = IF BadSeed(e) THEN Invalid ELSE [version |-> e.version, actor_ids |-> {}]
    BY <1>2, <2>1 DEF ReduceCampaign
  <2>. QED  BY <1>1, <1>2, <2>2 DEF CampaignStates
<1>3. CASE e.payload.type = "ActorCreated" /\ e.stream \in Actors
  <2>1. Reduce(state, e) = ReduceActor(state, e)
    BY <1>3, KindsApart DEF Reduce, Creates
  <2>. QED  BY <1>1, <1>3, <2>1 DEF ReduceActor, ActorStates
<1>4. CASE e.payload.type = "CharacterCreationStarted" /\ e.stream \in Creations
  <2>1. Reduce(state, e) = ReduceCreation(state, e)
    BY <1>4, KindsApart DEF Reduce, Creates
  <2>2. Reduce(state, e) =
            [version |-> e.version, campaign |-> e.payload.campaign, owner |-> e.payload.data,
             status |-> "draft", name |-> Nothing, archetype |-> Nothing, actor |-> Nothing]
    BY <1>4, <2>1 DEF ReduceCreation
  <2>. QED  BY <1>1, <1>4, <2>2 DEF CreationStates
<1>5. CASE e.payload.type = "EncounterStarted" /\ e.stream \in Encounters
  <2>1. Reduce(state, e) = ReduceEncounter(state, e)
    BY <1>5, KindsApart DEF Reduce, Creates
  <2>. QED  BY <1>1, <1>5, <2>1 DEF ReduceEncounter, EncounterStates
<1>. QED  BY <1>2, <1>3, <1>4, <1>5

\* A projection that exists is one of its kind.
LEMMA Existing ==
    ASSUME Typed
    PROVE  /\ \A s \in Campaigns : Exists(s) => live[s] \in CampaignStates
           /\ \A s \in Actors : Exists(s) => live[s] \in ActorStates
           /\ \A s \in Creations : Exists(s) => live[s] \in CreationStates
           /\ \A s \in Encounters : Exists(s) => live[s] \in EncounterStates
           /\ \A s \in Streams : live[s] # Invalid
<1>1. \A s \in Streams : live[s] \in StatesOf(s) \cup {Nothing}
  BY DEF Typed
<1>2. \A s \in Streams : live[s] # Invalid
  BY <1>1, States, NothingAssumption
<1>. QED  BY <1>1, <1>2, KindsApart DEF Exists

LEMMA Effects ==
    ASSUME BusInv, Pending, NEW e \in BusEvents,
           e.stream = Todo.stream, e.payload = Todo.payload
    PROVE  /\ Effect(exec.command, e, Reduce(live[e.stream], e), Tail(exec.todo))
           /\ e.payload.command = exec.command.id
<1>. DEFINE c == exec.command
            new == Reduce(live[e.stream], e)
            rest == Tail(exec.todo)
<1>. SUFFICES Effect(c, e, new, rest) /\ e.payload.command = c.id
  OBVIOUS
<1>1. c \in Handled /\ Stage(c) /\ exec.todo \in Seq(Steps) /\ exec.todo # <<>>
  BY ExecType DEF BusInv, Staged, Pending
<1>2. e.stream \in Streams /\ live[e.stream] # Invalid
  BY Existing DEF BusInv, BusEvents
<1>3. c.principal \in Principals /\ c.campaign \in Campaigns
  BY <1>1, Envelope
<1>4. ASSUME NEW step, exec.todo = <<step>> PROVE rest = <<>> /\ Todo = step
  BY <1>4, OneLeft DEF Todo
<1>5. CASE Creating(c)
  <2>1. e.stream = c.campaign /\ e.payload = Payload(c, "CampaignCreated", c.campaign, c.data, 0)
        /\ rest = <<>>
    BY <1>4, <1>5 DEF Creating, Step
  <2>2. e.payload.type = "CampaignCreated" /\ e.payload.campaign = c.campaign
        /\ e.payload.command = c.id
    BY <2>1 DEF Payload
  <2>3. IF BadSeed(e) THEN new = Invalid ELSE new \in CampaignStates /\ new.actor_ids = {}
    BY <1>2, <1>3, <2>1, <2>2, ReducesFirst
  <2>. HIDE DEF new, rest
  <2>. QED  BY <1>5, <2>1, <2>2, <2>3 DEF Effect, Opened
<1>6. CASE Rolling(c)
  <2>1. e.stream = c.campaign /\ rest = <<>>
        /\ e.payload = Payload(c, "DiceRolled", c.campaign, c.data, rolls[c.campaign])
    BY <1>4, <1>6 DEF Rolling, Step
  <2>2. e.payload.type = "DiceRolled" /\ e.payload.campaign = c.campaign
        /\ e.payload.roll = rolls[c.campaign] /\ e.payload.command = c.id
    BY <2>1 DEF Payload
  <2>3. live[e.stream] \in CampaignStates
    BY <1>3, <1>6, <2>1, Existing DEF BusInv, Rolling
  <2>4. new \in CampaignStates /\ new.actor_ids = live[c.campaign].actor_ids
    BY <1>3, <2>1, <2>2, <2>3, ReducesCampaign
  <2>. HIDE DEF new, rest
  <2>. QED  BY <1>6, <2>1, <2>2, <2>4 DEF Effect, RolledNow
<1>7. CASE Drafting(c)
  <2>1. e.stream = c.target /\ rest = <<>> /\ c.target \in Creations
        /\ e.payload = Payload(c, "CharacterCreationStarted", c.campaign, c.principal, 0)
    BY <1>1, <1>4, <1>7, Envelope DEF Drafting, Step
  <2>2. e.payload.type = "CharacterCreationStarted" /\ e.payload.campaign = c.campaign
        /\ e.payload.data = c.principal /\ e.payload.command = c.id
    BY <2>1 DEF Payload
  <2>3. new \in CreationStates /\ new.campaign = c.campaign /\ new.status = "draft"
    BY <1>2, <1>3, <2>1, <2>2, ReducesFirst
  <2>. HIDE DEF new, rest
  <2>. QED  BY <1>7, <2>1, <2>2, <2>3 DEF Effect, Drafted
<1>8. ASSUME NEW type \in {"CharacterNameSelected", "CharacterArchetypeSelected"},
             c.type \in {"SelectCharacterName", "SelectCharacterArchetype"}, Choosing(c, type)
      PROVE  Effect(c, e, new, rest) /\ e.payload.command = c.id
  <2>1. e.stream = c.target /\ rest = <<>> /\ c.target \in Creations
        /\ e.payload = Payload(c, type, live[c.target].campaign, c.data, 0)
    BY <1>1, <1>4, <1>8, Envelope DEF Choosing, Step
  <2>2. e.payload.type = type /\ e.payload.campaign = live[c.target].campaign
        /\ e.payload.data = c.data /\ e.payload.command = c.id
    BY <2>1 DEF Payload
  <2>3. live[c.target] \in CreationStates /\ live[c.target].status = "draft" /\ Exists(c.target)
    BY <1>8, <2>1, Existing DEF BusInv, Choosing
  <2>4. new \in CreationStates /\ new.campaign = live[c.target].campaign /\ new.status = "draft"
    <3>1. c.data \in Data
      BY <1>1, <1>8, Envelope
    <3>. QED  BY <2>1, <2>2, <2>3, <3>1, ReducesCreation
  <2>. HIDE DEF new, rest
  <2>. QED  BY <1>8, <2>1, <2>2, <2>3, <2>4 DEF Effect, Chosen
<1>9. CASE ToBuild(c)
  <2>1. /\ Todo = Build(c, exec.todo[1].expected)
        /\ rest # <<>> /\ Head(rest) = Register(c) /\ Ends(c, Tail(rest))
    <3>1. rest # <<>> /\ Head(rest) = exec.todo[2]
      BY <1>1, <1>9, TwoLeft DEF ToBuild
    <3>2. AfterTwo(exec.todo) = Tail(rest)
      BY DEF AfterTwo
    <3>. QED  BY <1>1, <1>9, <3>1, <3>2 DEF ToBuild, Todo
  <2>2. e.stream = ActorOf(c)
        /\ e.payload = Payload(c, "ActorCreated", CampaignOf(c), StatsOf(c), 0)
    BY <2>1 DEF Build, Step
  <2>3. e.payload.type = "ActorCreated" /\ e.payload.campaign = CampaignOf(c)
        /\ e.payload.data = StatsOf(c) /\ e.payload.command = c.id
    BY <2>2 DEF Payload
  <2>4. ActorOf(c) \in Actors /\ StatsOf(c) \in Data
    BY <1>1, <1>9, Envelope DEF ToBuild, Builders, ActorOf, Ready
  <2>5. new \in ActorStates /\ new.campaign = CampaignOf(c) /\ new.stats = StatsOf(c)
    BY <1>2, <2>2, <2>3, <2>4, ReducesFirst
  <2>. HIDE DEF new, rest
  <2>. QED  BY <1>9, <2>1, <2>2, <2>3, <2>4, <2>5 DEF Effect, BuiltNow
<1>10. CASE ToRegister(c)
  <2>1. e.stream = CampaignOf(c) /\ Ends(c, rest)
        /\ e.payload = Payload(c, "ActorRegistered", CampaignOf(c), ActorOf(c), 0)
    BY <1>10 DEF ToRegister, Register, Step
  <2>2. e.payload.type = "ActorRegistered" /\ e.payload.campaign = CampaignOf(c)
        /\ e.payload.data = ActorOf(c) /\ e.payload.command = c.id
    BY <2>1 DEF Payload
  <2>3. ActorOf(c) \in Actors
    BY <1>1, <1>10, Envelope DEF ToRegister, Builders, ActorOf
  <2>4. CampaignOf(c) \in Campaigns /\ live[e.stream] \in CampaignStates
    BY <1>10, <2>1, Existing DEF BusInv, ToRegister, Ready
  <2>5. new \in CampaignStates
        /\ new.actor_ids = live[CampaignOf(c)].actor_ids \cup {ActorOf(c)}
    BY <2>1, <2>2, <2>3, <2>4, ReducesCampaign
  <2>. HIDE DEF new, rest
  <2>. QED  BY <1>10, <2>1, <2>2, <2>3, <2>5 DEF Effect, Registered
<1>11. CASE ToEnd(c)
  <2>1. CASE c.type = "FinalizeCharacterCreation" /\ exec.todo = <<Finalize(c)>>
    <3>1. e.stream = c.target /\ rest = <<>> /\ c.target \in Creations /\ c.data \in Actors
          /\ e.payload = Payload(c, "CharacterCreationFinalized", CampaignOf(c), c.data, 0)
      BY <1>1, <1>4, <2>1, Envelope DEF Finalize, Step
    <3>2. e.payload.type = "CharacterCreationFinalized" /\ e.payload.campaign = CampaignOf(c)
          /\ e.payload.data = c.data /\ e.payload.command = c.id
      BY <3>1 DEF Payload
    <3>3. live[c.target] \in CreationStates
      BY <1>11, <2>1, <3>1, Existing DEF BusInv, ToEnd, Ready
    <3>4. /\ new \in CreationStates /\ new.campaign = live[c.target].campaign
          /\ new.archetype = live[c.target].archetype
          /\ new.status = "finalized" /\ new.actor = c.data
      BY <3>1, <3>2, <3>3, ReducesCreation
    <3>. HIDE DEF new, rest
    <3>. QED  BY <1>11, <2>1, <3>1, <3>2, <3>4 DEF Effect, Finalized
  <2>2. CASE c.type = "InstantiateEncounterTemplate" /\ ~Exists(c.encounter)
             /\ exec.todo = <<Engage(c)>>
    <3>1. e.stream = c.encounter /\ rest = <<>>
          /\ c.target \in Actors /\ c.player \in Actors /\ c.encounter \in Encounters
          /\ e.payload = Payload(c, "EncounterStarted", c.campaign, {c.player, c.target}, 0)
      <4>1. c.target \in Actors /\ c.player \in Actors /\ c.encounter \in Encounters
        BY <1>1, <2>2, Envelope
      <4>2. rest = <<>> /\ Todo = Engage(c)
        BY <1>4, <2>2
      <4>3. Todo.stream = c.encounter
            /\ Todo.payload = Payload(c, "EncounterStarted", c.campaign, {c.player, c.target}, 0)
        BY <4>2 DEF Engage, Step
      <4>. QED  BY <4>1, <4>2, <4>3
    <3>2. e.payload.type = "EncounterStarted" /\ e.payload.campaign = c.campaign
          /\ e.payload.data = {c.player, c.target} /\ e.payload.command = c.id
      BY <3>1 DEF Payload
    <3>3. /\ new \in EncounterStates /\ new.campaign = c.campaign
          /\ new.actors = {c.player, c.target}
      BY <1>2, <3>1, <3>2, ReducesFirst
    <3>. HIDE DEF new, rest
    <3>. QED  BY <1>11, <2>2, <3>1, <3>2, <3>3 DEF Effect, Engaged
  <2>3. exec.todo # <<Raise>>
    BY OneLeft DEF Pending, Todo
  <2>. QED  BY <1>1, <1>11, <2>1, <2>2, <2>3 DEF ToEnd, Ends
<1>. QED  BY <1>1, <1>5, <1>6, <1>7, <1>8, <1>9, <1>10, <1>11 DEF Stage

\* Two appends and what follows them.
Two(a, b, l) == <<a, b>> \o l

LEMMA Joined ==
    ASSUME NEW a \in Steps, NEW b \in Steps, NEW l \in Seq(Steps), NEW t, t = Two(a, b, l)
    PROVE  t \in Seq(Steps) /\ t # <<>> /\ Len(t) >= 2 /\ t[1] = a /\ t[2] = b /\ AfterTwo(t) = l
<1>1. <<a, b>> \in Seq(Steps)
  OBVIOUS
<1>2. /\ t \in Seq(Steps) /\ Len(t) = 2 + Len(l) /\ Len(l) \in Nat
      /\ t[1] = a /\ t[2] = b
      /\ \A n \in 1..Len(l) : t[2 + n] = l[n]
  BY <1>1 DEF Two
<1>3. PICK u : u = Tail(t)
  OBVIOUS
<1>4. /\ u \in Seq(Steps) /\ Len(u) = 1 + Len(l)
      /\ \A n \in 1..(1 + Len(l)) : u[n] = t[n + 1]
  BY <1>2, <1>3
<1>5. PICK v : v = Tail(u)
  OBVIOUS
<1>6. /\ v \in Seq(Steps) /\ Len(v) = Len(l)
      /\ \A n \in 1..Len(l) : v[n] = u[n + 1]
  BY <1>2, <1>4, <1>5
<1>7. \A n \in 1..Len(l) : v[n] = l[n]
  <2>1. \A n \in 1..Len(l) : n + 1 \in 1..(1 + Len(l)) /\ (n + 1) + 1 = 2 + n
    BY <1>2
  <2>. QED  BY <1>2, <1>4, <1>6, <2>1
<1>8. v = l
  BY <1>2, <1>6, <1>7
<1>. QED  BY <1>2, <1>3, <1>5, <1>8 DEF AfterTwo

\* An append of a handler is one of its steps.
LEMMA StepType ==
    ASSUME NEW c \in Handled, NEW s \in Streams, NEW expected \in Nat \cup {Nothing},
           NEW type \in EventTypes, NEW campaign \in Campaigns,
           NEW data \in Data \cup Principals \cup Actors \cup SUBSET Actors, NEW roll \in Nat
    PROVE  Step(s, expected, Payload(c, type, campaign, data, roll)) \in Steps
<1>1. Payload(c, type, campaign, data, roll) \in EventPayloads
  BY Envelope DEF Payload, EventPayloads
<1>. QED  BY <1>1 DEF Step, Steps

\* The appends that create an actor, with what follows them.
Planned(c, expected, l) ==
    ActorSteps(c, CampaignOf(c), ActorOf(c), expected, StatsOf(c)) \o l

LEMMA BuildPlan ==
    ASSUME NEW c \in Handled, NEW expected \in Nat, NEW l \in Seq(Steps), NEW t,
           c.type \in Builders, CampaignOf(c) \in Campaigns, StatsOf(c) \in Data,
           t = Planned(c, expected, l)
    PROVE  /\ t \in Seq(Steps) /\ t # <<>> /\ Len(t) >= 2
           /\ t[1] = Build(c, t[1].expected) /\ t[2] = Register(c) /\ AfterTwo(t) = l
<1>1. ActorOf(c) \in Actors /\ ActorOf(c) \in Streams /\ CampaignOf(c) \in Streams
  BY Envelope, KindsApart
<1>2. Build(c, expected) \in Steps /\ Register(c) \in Steps
  <2>1. "ActorCreated" \in EventTypes /\ "ActorRegistered" \in EventTypes
    BY DEF EventTypes
  <2>. QED  BY <1>1, <2>1, StepType DEF Build, Register
<1>3. t = <<Build(c, expected), Register(c)>> \o l
  BY DEF Planned, ActorSteps, Build, Register
<1>4. /\ t \in Seq(Steps) /\ t # <<>> /\ Len(t) >= 2
      /\ t[1] = Build(c, expected) /\ t[2] = Register(c) /\ AfterTwo(t) = l
  <2>1. PICK a \in Steps, b \in Steps : a = Build(c, expected) /\ b = Register(c)
    BY <1>2
  <2>2. t = Two(a, b, l)
    BY <1>3, <2>1 DEF Two
  <2>3. t \in Seq(Steps) /\ t # <<>> /\ Len(t) >= 2 /\ t[1] = a /\ t[2] = b /\ AfterTwo(t) = l
    BY <2>1, <2>2, Joined
  <2>. QED  BY <2>1, <2>3
<1>5. t[1].expected = expected
  BY <1>4 DEF Build, Step
<1>. QED  BY <1>4, <1>5

\* What a command in the lock starts with is what its handler checked.
LEMMA Dispatched ==
    ASSUME BusInv, NEW c \in Handled, Dispatch(c)
    PROVE  /\ Typed' /\ Staged'
           /\ exec' = Running(c, Plan(c), "accepted") /\ exec' \in Executions
<1>0. /\ Admits(c) /\ ~StaleRoll(c) /\ live' = live
      /\ rolls' = IF c.type = "RollDice" THEN [rolls EXCEPT ![c.campaign] = @ + 1] ELSE rolls
      /\ events' = events /\ streams' = streams /\ receipts' = receipts /\ unoffered' = unoffered
  BY DEF Dispatch, vars
<1>1. PICK t : t = Plan(c)
  OBVIOUS
<1>2. exec' = [command |-> c, todo |-> t, status |-> "accepted"] /\ exec' = Running(c, Plan(c), "accepted")
  BY <1>1 DEF Dispatch, Running
<1>3. exec'.command = c /\ exec'.todo = t /\ exec'.status = "accepted"
  BY <1>2
<1>4. rolls' \in [Campaigns -> Nat]
  BY <1>0, Envelope DEF BusInv, Typed
<1>5. SUFFICES t \in Seq(Steps) /\ (t # <<>> => Stage(c)')
  <2>1. exec' \in Executions
    BY <1>2, <1>5 DEF Executions, Statuses
  <2>2. Typed'
    BY <1>0, <1>4, <2>1 DEF BusInv, Typed
  <2>. QED  BY <1>2, <1>3, <1>5, <2>1, <2>2 DEF Staged
<1>6. "CampaignCreated" \in EventTypes /\ "DiceRolled" \in EventTypes
      /\ "CharacterCreationStarted" \in EventTypes /\ "CharacterNameSelected" \in EventTypes
      /\ "CharacterArchetypeSelected" \in EventTypes /\ "CharacterCreationFinalized" \in EventTypes
      /\ "EncounterStarted" \in EventTypes
  BY DEF EventTypes
<1>7. \A s : Exists(s)' <=> Exists(s)
  BY <1>0 DEF Exists
<1>8. ASSUME NEW step \in Steps, t = <<step>> PROVE t \in Seq(Steps)
  BY <1>8
<1>10. CASE c.type = "CreateCampaign" /\ ~Exists(c.campaign)
  <2>1. t = << Step(c.campaign, OrZero(c.expected),
                    Payload(c, "CampaignCreated", c.campaign, c.data, 0)) >>
    BY <1>1, <1>10 DEF Plan
  <2>2. t \in Seq(Steps)
    BY <1>6, <1>8, <2>1, Envelope, StepType
  <2>3. Creating(c)'
    BY <1>3, <1>7, <1>10, <2>1 DEF Creating
  <2>. QED  BY <2>2, <2>3 DEF Stage
<1>11. CASE c.type = "RollDice" /\ Exists(c.campaign)
  <2>1. t = << Step(c.campaign, c.expected,
                    Payload(c, "DiceRolled", c.campaign, c.data, rolls[c.campaign] + 1)) >>
    BY <1>1, <1>11 DEF Plan
  <2>2. rolls[c.campaign] \in Nat /\ rolls'[c.campaign] = rolls[c.campaign] + 1
    BY <1>0, <1>11, Envelope DEF BusInv, Typed
  <2>3. t \in Seq(Steps)
    <3>1. PICK r \in Nat : r = rolls[c.campaign] + 1
      BY <2>2
    <3>2. t = << Step(c.campaign, c.expected, Payload(c, "DiceRolled", c.campaign, c.data, r)) >>
      BY <2>1, <3>1
    <3>. QED  BY <1>6, <1>8, <3>2, Envelope, StepType
  <2>4. c.expected \in {Nothing, CurrentVersion(c.campaign)} /\ rolls'[c.campaign] # 0
    BY <1>0, <1>11, <2>2 DEF StaleRoll
  <2>5. CurrentVersion(c.campaign)' = CurrentVersion(c.campaign)
    BY <1>0 DEF CurrentVersion
  <2>6. Rolling(c)'
    BY <1>3, <1>7, <1>11, <2>1, <2>2, <2>4, <2>5 DEF Rolling
  <2>. QED  BY <2>3, <2>6 DEF Stage
<1>12. CASE c.type = "StartCharacterCreation" /\ Exists(c.campaign) /\ ~Exists(c.target)
  <2>1. t = << Step(c.target, 0,
                    Payload(c, "CharacterCreationStarted", c.campaign, c.principal, 0)) >>
    BY <1>1, <1>12 DEF Plan
  <2>2. c.target \in Streams
    BY <1>12, Envelope, KindsApart
  <2>3. t \in Seq(Steps)
    BY <1>6, <1>8, <2>1, <2>2, Envelope, StepType
  <2>4. Drafting(c)'
    BY <1>3, <1>7, <1>12, <2>1 DEF Drafting
  <2>. QED  BY <2>3, <2>4 DEF Stage
<1>13. ASSUME OwnedDraft(c),
              NEW type \in {"CharacterNameSelected", "CharacterArchetypeSelected"},
              c.type \in {"SelectCharacterName", "SelectCharacterArchetype"},
              t = << Step(c.target, Nothing,
                          Payload(c, type, live[c.target].campaign, c.data, 0)) >>
       PROVE  t \in Seq(Steps) /\ Choosing(c, type)'
  <2>1. c.target \in Creations /\ c.target \in Streams
    BY <1>13, Envelope, KindsApart
  <2>2. Exists(c.target) /\ live[c.target] \in CreationStates /\ live[c.target].status = "draft"
    BY <1>13, <2>1, Existing DEF BusInv, OwnedDraft
  <2>3. live[c.target].campaign \in Campaigns
    BY <2>2 DEF CreationStates
  <2>4. type \in EventTypes
    BY <1>6, <1>13
  <2>5. t \in Seq(Steps)
    BY <1>8, <1>13, <2>1, <2>3, <2>4, Envelope, StepType
  <2>6. live'[c.target] = live[c.target]
    BY <1>0
  <2>. QED  BY <1>3, <1>7, <1>13, <2>2, <2>5, <2>6 DEF Choosing
<1>14. CASE c.type = "SelectCharacterName" /\ OwnedDraft(c)
  <2>1. t = << Step(c.target, Nothing,
                    Payload(c, "CharacterNameSelected", live[c.target].campaign, c.data, 0)) >>
    BY <1>1, <1>14 DEF Plan
  <2>. QED  BY <1>13, <1>14, <2>1 DEF Stage
<1>15. CASE c.type = "SelectCharacterArchetype" /\ OwnedDraft(c)
  <2>1. t = << Step(c.target, Nothing,
                    Payload(c, "CharacterArchetypeSelected", live[c.target].campaign, c.data, 0)) >>
    BY <1>1, <1>15 DEF Plan
  <2>. QED  BY <1>13, <1>15, <2>1 DEF Stage
<1>16. ASSUME c.type \in Builders, Ready(c), ~Exists(ActorOf(c)), NEW expected \in Nat,
              NEW l \in Seq(Steps), Ends(c, l),
              t = Planned(c, expected, l)
       PROVE  t \in Seq(Steps) /\ Stage(c)'
  <2>1. /\ t \in Seq(Steps) /\ t # <<>> /\ Len(t) >= 2
        /\ t[1] = Build(c, t[1].expected) /\ t[2] = Register(c) /\ AfterTwo(t) = l
    <3>1. CampaignOf(c) \in Campaigns /\ StatsOf(c) \in Data
      BY <1>16 DEF Ready
    <3>2. t = Planned(c, expected, l)
      BY <1>16
    <3>3. c.type \in Builders
      BY <1>16
    <3>. QED  BY <3>1, <3>2, <3>3, BuildPlan
  <2>2. CampaignOf(c)' = CampaignOf(c) /\ StatsOf(c)' = StatsOf(c)
    BY <1>0 DEF CampaignOf, StatsOf
  <2>3. Ready(c)' /\ Ends(c, l)'
    BY <1>0, <1>7, <1>16, <2>2 DEF Ready, Ends, Finalize, Engage
  <2>4. Build(c, t[1].expected)' = Build(c, t[1].expected) /\ Register(c)' = Register(c)
    BY <2>2 DEF Build, Register
  <2>5. ToBuild(c)'
    BY <1>3, <1>7, <1>16, <2>1, <2>3, <2>4 DEF ToBuild
  <2>. QED  BY <2>1, <2>5 DEF Stage
<1>17. CASE c.type = "CreateActor" /\ Exists(c.campaign) /\ ~Exists(c.target)
  <2>1. c.type \in Builders /\ ActorOf(c) = c.target /\ CampaignOf(c) = c.campaign
        /\ StatsOf(c) = c.data
    BY <1>17 DEF Builders, ActorOf, CampaignOf, StatsOf
  <2>2. t = ActorSteps(c, CampaignOf(c), ActorOf(c), OrZero(c.expected), StatsOf(c))
    BY <1>1, <1>17, <2>1 DEF Plan
  <2>3. t = Planned(c, OrZero(c.expected), <<>>)
    BY <2>2 DEF ActorSteps, Planned
  <2>4. Ready(c) /\ Ends(c, <<>>) /\ <<>> \in Seq(Steps)
    BY <1>17, <2>1, Envelope DEF Ready, Ends
  <2>. QED  BY <1>16, <1>17, <2>1, <2>2, <2>3, <2>4, Envelope
<1>18. CASE /\ c.type = "FinalizeCharacterCreation" /\ OwnedDraft(c)
            /\ ValidForFinalize(live[c.target])
            /\ Exists(live[c.target].campaign) /\ ~Exists(c.data)
  <2>1. c.type \in Builders /\ ActorOf(c) = c.data /\ CampaignOf(c) = live[c.target].campaign
        /\ StatsOf(c) = live[c.target].archetype
    BY <1>18 DEF Builders, ActorOf, CampaignOf, StatsOf
  <2>2. t = Planned(c, 0, <<Finalize(c)>>)
    BY <1>1, <1>18, <2>1 DEF Plan, Finalize, Planned
  <2>3. c.target \in Creations /\ c.target \in Streams /\ c.data \in Actors
    BY <1>18, Envelope, KindsApart
  <2>4. Exists(c.target) /\ live[c.target] \in CreationStates /\ live[c.target].status = "draft"
    BY <1>18, <2>3, Existing DEF BusInv, OwnedDraft
  <2>5. CampaignOf(c) \in Campaigns /\ StatsOf(c) \in Data
    BY <1>18, <2>1, <2>4 DEF CreationStates, ValidForFinalize
  <2>6. Finalize(c) \in Steps
    BY <1>6, <2>3, <2>5, StepType DEF Finalize
  <2>7. Ready(c) /\ Ends(c, <<Finalize(c)>>) /\ <<Finalize(c)>> \in Seq(Steps)
    BY <1>18, <2>1, <2>4, <2>5, <2>6 DEF Ready, Ends
  <2>. QED  BY <1>16, <1>18, <2>1, <2>2, <2>7
<1>19. CASE /\ c.type = "InstantiateEncounterTemplate"
            /\ Exists(c.player) /\ live[c.player].campaign = c.campaign /\ ~Exists(c.target)
  <2>1. c.type \in Builders /\ ActorOf(c) = c.target /\ CampaignOf(c) = c.campaign
        /\ StatsOf(c) = c.data
    BY <1>19 DEF Builders, ActorOf, CampaignOf, StatsOf
  <2>2. t = Planned(c, 0, StartSteps(c))
    BY <1>1, <1>19, <2>1 DEF Plan, Planned
  <2>3. c.target \in Actors /\ c.player \in Actors /\ c.encounter \in Encounters
        /\ c.encounter \in Streams /\ c.player \in Streams /\ c.player \notin Campaigns
    BY <1>19, Envelope, KindsApart
  <2>4. Exists(c.campaign)
    BY <1>19, <2>3 DEF BusInv, CampaignsFirst
  <2>5. Ready(c)
    BY <1>19, <2>1, <2>4, Envelope DEF Ready
  <2>6. Engage(c) \in Steps /\ Raise \in Steps
    <3>1. {c.player, c.target} \in Data \cup Principals \cup Actors \cup SUBSET Actors
      BY <2>3
    <3>2. Engage(c) \in Steps
      BY <1>6, <2>3, <3>1, Envelope, StepType DEF Engage
    <3>. QED  BY <3>2 DEF Steps
  <2>7. Ends(c, StartSteps(c)) /\ StartSteps(c) \in Seq(Steps)
    <3>1. CASE Exists(c.encounter) \/ c.data = "one side"
      <4>1. StartSteps(c) = <<Raise>>
        BY <3>1 DEF StartSteps
      <4>. QED  BY <1>19, <2>6, <4>1 DEF Ends
    <3>2. CASE ~(Exists(c.encounter) \/ c.data = "one side")
      <4>1. StartSteps(c) = <<Engage(c)>>
        BY <3>2 DEF StartSteps, Engage
      <4>2. PICK last : last = <<Engage(c)>>
        OBVIOUS
      <4>3. Ends(c, last)
        BY <1>19, <3>2, <4>2, Zenon DEF Ends
      <4>. QED  BY <2>6, <4>1, <4>2, <4>3
    <3>. QED  BY <3>1, <3>2
  <2>. QED  BY <1>16, <1>19, <2>1, <2>2, <2>5, <2>7
<1>. QED  BY <1>0, <1>10, <1>11, <1>12, <1>14, <1>15, <1>17, <1>18, <1>19 DEF Admits

-----------------------------------------------------------------------------
(* Every step of the bus, in the terms the invariants use *)

\* A step that others than the bus care about.
Still == UNCHANGED <<events, streams, receipts, unoffered, live, rolls, exec>>

LEMMA StepKinds ==
    ASSUME [BusNext]_allVars
    PROVE  \/ Still
           \/ \E c \in Handled : Dispatch(c) \/ Refuse(c)
           \/ StepRaises \/ StepStored \/ StepConflicts \/ StepQueueFull \/ Finish
<1>1. ASSUME NEW c, AlreadyProcessed(c) PROVE Still
  BY <1>1 DEF AlreadyProcessed, Still, vars
<1>4. \A c \in Commands : \A d \in Readings(c, Unnamed) : d \in Handled
  BY ReadHandled DEF Unnamed
<1>2. CASE Feed
  BY <1>2 DEF Feed, Still, busVars, storeVars, Subscribe, Unsubscribe, Take
<1>3. CASE UNCHANGED allVars
  BY <1>3 DEF allVars, Still
<1>. QED  BY <1>1, <1>2, <1>3, <1>4 DEF BusNext

\* The event that the append in hand stores.
Appends(e) ==
    /\ e \in BusEvents /\ e.stream = Todo.stream /\ e.payload = Todo.payload
    /\ e.version = Len(streams[e.stream]) + 1 /\ e.sequence = Len(events) + 1
    /\ events' = Append(events, e)
    /\ streams' = [streams EXCEPT ![e.stream] = Append(streams[e.stream], e)]
    /\ e.payload.command = exec.command.id

LEMMA Appending ==
    ASSUME BusInv, Pending, Store(Todo.stream, <<Todo.payload>>)
    PROVE  \E e \in BusEvents : /\ Appends(e)
                                /\ Effect(exec.command, e, Reduce(live[e.stream], e), Tail(exec.todo))
<1>1. Todo.stream \in Streams /\ Todo.payload \in EventPayloads /\ Typed
  BY TodoType DEF BusInv
<1>2. PICK e \in BusEvents :
               /\ e.stream = Todo.stream /\ e.payload = Todo.payload
               /\ e.version = Len(streams[Todo.stream]) + 1 /\ e.sequence = Len(events) + 1
               /\ events' = Append(events, e)
               /\ streams' = [streams EXCEPT ![Todo.stream] = Append(streams[Todo.stream], e)]
  BY <1>1, OneStored
<1>3. /\ Effect(exec.command, e, Reduce(live[e.stream], e), Tail(exec.todo))
      /\ e.payload.command = exec.command.id
  BY <1>2, Effects
<1>. QED  BY <1>2, <1>3 DEF Appends

\* Of an append that goes well.
Reduces(e, new) ==
    /\ new = Reduce(live[e.stream], e)
    /\ Effect(exec.command, e, new, Tail(exec.todo))
    /\ new = Invalid =>
           /\ live' = live
           /\ exec' = [command |-> exec.command, todo |-> <<>>, status |-> "rejected"]
    /\ new # Invalid =>
           /\ live' = [live EXCEPT ![e.stream] = new]
           /\ exec' = [command |-> exec.command, todo |-> Tail(exec.todo), status |-> "accepted"]

LEMMA Stored ==
    ASSUME BusInv, StepStored
    PROVE  /\ \E e \in BusEvents : \E new : Appends(e) /\ Reduces(e, new)
           /\ receipts' = receipts /\ unoffered' = unoffered /\ rolls' = rolls
           /\ exec # Nothing /\ exec.command \in Handled /\ exec.todo \in Seq(Steps)
           /\ exec.todo # <<>> /\ exec.status = "accepted"
<1>1. Pending /\ Store(Todo.stream, <<Todo.payload>>)
      /\ receipts' = receipts /\ unoffered' = unoffered /\ rolls' = rolls
  BY DEF StepStored, AppendEvents
<1>2. PICK e \in BusEvents :
          Appends(e) /\ Effect(exec.command, e, Reduce(live[e.stream], e), Tail(exec.todo))
  BY <1>1, Appending
<1>3. PICK new : new = Reduce(live[e.stream], e)
  OBVIOUS
<1>4. exec # Nothing /\ exec.todo # <<>> /\ exec.status = "accepted"
  BY <1>1 DEF Pending, BusInv, Staged
<1>5. /\ exec.command \in Handled /\ exec.todo \in Seq(Steps)
      /\ exec = [command |-> exec.command, todo |-> exec.todo, status |-> "accepted"]
  BY <1>4, ExecType DEF BusInv
<1>6. events'[Len(events')] = e /\ e.stream = Todo.stream
  <2>1. events \in Seq(BusEvents)
    BY DEF BusInv, Typed
  <2>2. events' = Append(events, e) /\ e.stream = Todo.stream
    BY <1>2 DEF Appends
  <2>. QED  BY <2>1, <2>2, Pushed
<1>7. IF new = Invalid
      THEN /\ exec' = Running(exec.command, <<>>, "rejected")
           /\ live' = live
      ELSE /\ exec' = Running(exec.command, Tail(exec.todo), "accepted")
           /\ live' = [live EXCEPT ![e.stream] = new]
  BY <1>3, <1>4, <1>6 DEF StepStored
<1>8. Reduces(e, new)
  <2>1. Effect(exec.command, e, new, Tail(exec.todo))
    BY <1>2, <1>3
  <2>. QED  BY <1>3, <1>7, <2>1, Zenon DEF Reduces, Running
<1>. QED  BY <1>1, <1>2, <1>4, <1>5, <1>8

\* Of one that raises QueueFull.
LEMMA Overflowed ==
    ASSUME BusInv, StepQueueFull
    PROVE  /\ \E e \in BusEvents :
                 /\ Appends(e)
                 /\ Effect(exec.command, e, Reduce(live[e.stream], e), Tail(exec.todo))
           /\ unoffered' = unoffered \cup {Len(events) + 1}
           /\ receipts' = receipts /\ live' = live /\ rolls' = rolls
           /\ exec' = Nothing
           /\ exec # Nothing /\ exec.command \in Handled /\ exec.todo \in Seq(Steps)
           /\ exec.todo # <<>> /\ exec.status = "accepted"
<1>1. Pending /\ Store(Todo.stream, <<Todo.payload>>)
      /\ receipts' = receipts /\ live' = live /\ rolls' = rolls /\ exec' = Nothing
  BY DEF StepQueueFull, AppendQueueFull
<1>2. exec # Nothing /\ exec.todo # <<>> /\ exec.status = "accepted"
  BY <1>1 DEF Pending, BusInv, Staged
<1>3. exec.command \in Handled /\ exec.todo \in Seq(Steps)
  BY <1>2, ExecType DEF BusInv
<1>4. unoffered' = unoffered \cup {Len(events) + 1}
  <2>1. Len(<<Todo.payload>>) = 1
    OBVIOUS
  <2>2. PICK least \in 0..(1 - 1) :
            unoffered' = unoffered \cup {Len(events) + i : i \in (least + 1)..1}
    BY <2>1 DEF StepQueueFull, AppendQueueFull
  <2>3. {Len(events) + i : i \in (least + 1)..1} = {Len(events) + 1}
    BY <2>2
  <2>. QED  BY <2>2, <2>3
<1>. QED  BY <1>1, <1>2, <1>3, <1>4, Appending

\* A projection is never lost.
LEMMA LiveGrows ==
    ASSUME BusInv, NEW e \in BusEvents, NEW new, Appends(e), Reduces(e, new),
           exec.command \in Handled
    PROVE  /\ e.stream \in Streams
           /\ live' = [s \in Streams |-> live'[s]]
           /\ \A s \in Streams : live'[s] \in StatesOf(s) \cup {Nothing}
           /\ \A s \in Streams \ {e.stream} : live'[s] = live[s]
           /\ \A s \in Streams : Exists(s) => Exists(s)'
           /\ new # Invalid => /\ new \in StatesOf(e.stream)
                               /\ live'[e.stream] = new /\ Exists(e.stream)'
           /\ new = Invalid => BadSeed(e) /\ Opened(exec.command, e, new)
<1>1. e.stream \in Streams
  BY DEF BusEvents
<1>2. Effect(exec.command, e, new, Tail(exec.todo))
  BY DEF Reduces
<1>3. /\ exec.command.campaign \in Campaigns
      /\ exec.command.type \in Builders => ActorOf(exec.command) \in Actors
  BY Envelope
<1>4. \/ BadSeed(e) /\ new = Invalid /\ Opened(exec.command, e, new)
      \/ new \in StatesOf(e.stream)
  <2>1. CASE Opened(exec.command, e, new)
    BY <1>3, <2>1, KindsApart DEF Opened
  <2>2. CASE RolledNow(exec.command, e, new)
    BY <1>3, <2>2, KindsApart DEF RolledNow
  <2>3. CASE Drafted(exec.command, e, new) \/ Chosen(exec.command, e, new)
             \/ Finalized(exec.command, e, new) \/ Engaged(exec.command, e, new)
    BY <2>3, KindsApart DEF Drafted, Chosen, Finalized, Engaged
  <2>4. CASE BuiltNow(exec.command, e, new, Tail(exec.todo))
    BY <2>4, KindsApart DEF BuiltNow
  <2>5. CASE Registered(exec.command, e, new, Tail(exec.todo))
    BY <2>5, KindsApart DEF Registered, ToRegister, Ready
  <2>. QED  BY <1>2, <2>1, <2>2, <2>3, <2>4, <2>5 DEF Effect
<1>5. /\ live = [s \in Streams |-> live[s]]
      /\ \A s \in Streams : live[s] \in StatesOf(s) \cup {Nothing}
  BY DEF BusInv, Typed
<1>6. CASE new = Invalid
  <2>1. live' = live
    BY <1>6 DEF Reduces
  <2>2. new \notin StatesOf(e.stream)
    BY <1>1, <1>6, States
  <2>. QED  BY <1>1, <1>4, <1>5, <1>6, <2>1, <2>2 DEF Exists
<1>7. CASE new # Invalid
  <2>1. live' = [live EXCEPT ![e.stream] = new]
    BY <1>7 DEF Reduces
  <2>2. new \in StatesOf(e.stream) /\ new # Nothing
    BY <1>1, <1>4, <1>7, States
  <2>. QED  BY <1>1, <1>5, <1>7, <2>1, <2>2 DEF Exists
<1>. QED  BY <1>6, <1>7

-----------------------------------------------------------------------------
(* The state keeps its shape, and a handler its plan *)

\* A step that leaves the command in the lock nothing to do, or lets go of it.
Ending == exec' = Nothing \/ (exec' \in Executions /\ exec'.todo = <<>>)

LEMMA EndingStaged == ASSUME Ending PROVE Staged'
BY DEF Ending, Staged

\* A stored event keeps the lists in shape.
LEMMA AppendsTyped ==
    ASSUME Typed, NEW e, Appends(e), exec' \in Executions \cup {Nothing}, rolls' = rolls,
           unoffered' \in SUBSET (1..(Len(events) + 1)),
           live' = [s \in Streams |-> live'[s]],
           \A s \in Streams : live'[s] \in StatesOf(s) \cup {Nothing}
    PROVE  Typed'
<1>1. events \in Seq(BusEvents) /\ e \in BusEvents /\ events' = Append(events, e)
  BY DEF Typed, Appends
<1>2. /\ events' \in Seq(BusEvents) /\ Len(events') = Len(events) + 1
      /\ DOMAIN events' = 1..(Len(events) + 1) /\ Len(events) \in Nat /\ DOMAIN events = 1..Len(events)
      /\ \A n \in 1..Len(events) : events'[n] = events[n]
      /\ events'[Len(events) + 1] = e
  BY <1>1, Pushed
<1>3. \A n \in DOMAIN events' : events'[n].sequence = n
  <2>1. \A n \in 1..Len(events) : events[n].sequence = n
    BY <1>2 DEF Typed
  <2>2. e.sequence = Len(events) + 1
    BY DEF Appends
  <2>. QED  BY <1>2, <2>1, <2>2
<1>4. streams' \in [Streams -> Seq(BusEvents)]
  <2>1. streams \in [Streams -> Seq(BusEvents)] /\ e.stream \in Streams
    BY <1>1 DEF Typed, BusEvents
  <2>2. Append(streams[e.stream], e) \in Seq(BusEvents)
    BY <1>1, <2>1
  <2>3. streams' = [streams EXCEPT ![e.stream] = Append(streams[e.stream], e)]
    BY DEF Appends
  <2>. QED  BY <2>1, <2>2, <2>3
<1>5. unoffered' \in SUBSET (1..Len(events'))
  BY <1>2
<1>6. rolls' \in [Campaigns -> Nat]
  BY DEF Typed
<1>. QED  BY <1>2, <1>3, <1>4, <1>5, <1>6 DEF Typed

\* A step that stores nothing.
LEMMA SameTyped ==
    ASSUME Typed, UNCHANGED <<events, streams, unoffered, live, rolls>>,
           exec' \in Executions \cup {Nothing}
    PROVE  Typed'
BY DEF Typed

\* What a handler checked is not undone by an append to an actor or a campaign.
LEMMA PlanKeeps ==
    ASSUME Typed, NEW c \in Handled, c.type \in Builders, Ready(c),
           NEW s \in Actors \cup Campaigns, s # c.player \/ c.type # "InstantiateEncounterTemplate",
           \A t \in Streams \ {s} : live'[t] = live[t],
           \A t \in Streams : Exists(t) => Exists(t)'
    PROVE  /\ CampaignOf(c)' = CampaignOf(c) /\ StatsOf(c)' = StatsOf(c) /\ Ready(c)'
           /\ Register(c)' = Register(c)
           /\ \A last : Ends(c, last) => Ends(c, last)'
<1>1. c.type = "FinalizeCharacterCreation" => live'[c.target] = live[c.target]
  BY Envelope, KindsApart
<1>2. CampaignOf(c)' = CampaignOf(c) /\ StatsOf(c)' = StatsOf(c)
  BY <1>1 DEF CampaignOf, StatsOf
<1>3. CampaignOf(c) \in Streams
  BY KindsApart DEF Ready
<1>4. c.type = "InstantiateEncounterTemplate" =>
          /\ live'[c.player] = live[c.player] /\ c.player \in Streams
          /\ live'[c.encounter] = live[c.encounter]
  BY Envelope, KindsApart
<1>5. c.type = "FinalizeCharacterCreation" => c.target \in Streams
  BY Envelope, KindsApart
<1>6. Ready(c)'
  BY <1>1, <1>2, <1>3, <1>4, <1>5 DEF Ready
<1>7. Register(c)' = Register(c) /\ Finalize(c)' = Finalize(c)
  BY <1>2 DEF Register, Finalize
<1>8. ASSUME NEW last, Ends(c, last) PROVE Ends(c, last)'
  BY <1>4, <1>7, <1>8 DEF Ends, Exists, Engage
<1>. QED  BY <1>2, <1>6, <1>7, <1>8

LEMMA StoredKeeps == BusInv /\ StepStored => BusInv'
<1>. SUFFICES ASSUME BusInv, StepStored PROVE BusInv'
  OBVIOUS
<1>0. PICK e \in BusEvents : \E new : Appends(e) /\ Reduces(e, new)
  BY Stored
<1>1. PICK new : Appends(e) /\ Reduces(e, new)
  BY <1>0
<1>2. /\ receipts' = receipts /\ unoffered' = unoffered /\ rolls' = rolls
      /\ exec # Nothing /\ exec.command \in Handled /\ exec.todo \in Seq(Steps)
      /\ exec.todo # <<>> /\ exec.status = "accepted"
  BY Stored
<1>3. PICK c \in Handled : c = exec.command
  BY <1>2
<1>4. PICK rest : rest = Tail(exec.todo)
  OBVIOUS
<1>5. /\ e.stream \in Streams
      /\ live' = [s \in Streams |-> live'[s]]
      /\ \A s \in Streams : live'[s] \in StatesOf(s) \cup {Nothing}
      /\ \A s \in Streams \ {e.stream} : live'[s] = live[s]
      /\ \A s \in Streams : Exists(s) => Exists(s)'
      /\ new # Invalid => /\ new \in StatesOf(e.stream)
                          /\ live'[e.stream] = new /\ Exists(e.stream)'
      /\ new = Invalid => BadSeed(e) /\ Opened(c, e, new)
  BY <1>1, <1>2, <1>3, LiveGrows
<1>6. Effect(c, e, new, rest)
  BY <1>1, <1>3, <1>4 DEF Reduces
<1>7. rest \in Seq(Steps)
  BY <1>2, <1>4
<1>8. exec' = [command |-> c, todo |-> <<>>, status |-> "rejected"]
      \/ exec' = [command |-> c, todo |-> rest, status |-> "accepted"]
  BY <1>1, <1>3, <1>4 DEF Reduces
<1>9. exec' \in Executions
  <2>1. <<>> \in Seq(Steps) /\ "rejected" \in Statuses /\ "accepted" \in Statuses
    BY DEF Statuses
  <2>2. CASE exec' = [command |-> c, todo |-> <<>>, status |-> "rejected"]
    BY <2>1, <2>2 DEF Executions
  <2>3. CASE exec' = [command |-> c, todo |-> rest, status |-> "accepted"]
    BY <1>7, <2>1, <2>3 DEF Executions
  <2>. QED  BY <1>8, <2>2, <2>3
<1>10. Typed'
  <2>1. unoffered' \in SUBSET (1..(Len(events) + 1))
    <3>1. events \in Seq(BusEvents) /\ unoffered \in SUBSET (1..Len(events))
      BY DEF BusInv, Typed
    <3>. QED  BY <1>2, <3>1
  <2>. QED  BY <1>1, <1>2, <1>5, <1>9, <2>1, AppendsTyped DEF BusInv
<1>11. CampaignsFirst'
  <2>. SUFFICES ASSUME NEW s \in Streams \ Campaigns, live'[s] # Nothing
                PROVE  live'[live'[s].campaign] # Nothing
    BY DEF CampaignsFirst, Exists
  <2>0. \A k \in Streams : live[k] # Nothing => live'[k] # Nothing
    BY <1>5 DEF Exists
  <2>1. live'[s].campaign \in Streams
    <3>1. live'[s] \in StatesOf(s)
      BY <1>5 DEF Exists
    <3>2. live'[s].campaign \in Campaigns
      BY <3>1 DEF StatesOf, ActorStates, CreationStates, EncounterStates
    <3>. QED  BY <3>2, KindsApart
  <2>2. CASE s # e.stream \/ new = Invalid
    <3>1. live'[s] = live[s]
      BY <1>1, <1>5, <2>2 DEF Reduces
    <3>2. live[live[s].campaign] # Nothing
      BY <3>1 DEF BusInv, CampaignsFirst, Exists
    <3>. QED  BY <2>0, <2>1, <3>1, <3>2
  <2>3. CASE s = e.stream /\ new # Invalid
    <3>1. live'[s] = new
      BY <1>5, <2>3
    <3>2. Exists(new.campaign)
      <4>0. c.campaign \in Campaigns
        BY Envelope
      <4>1. CASE Opened(c, e, new) \/ RolledNow(c, e, new) \/ Registered(c, e, new, rest)
        BY <2>3, <4>0, <4>1 DEF Opened, RolledNow, Registered, ToRegister, Ready
      <4>2. CASE Drafted(c, e, new)
        BY <4>2 DEF Drafted, Drafting
      <4>3. CASE Chosen(c, e, new)
        BY <2>3, <4>3, KindsApart DEF Chosen, BusInv, CampaignsFirst
      <4>4. CASE BuiltNow(c, e, new, rest)
        BY <4>4 DEF BuiltNow, ToBuild, Ready
      <4>5. CASE Finalized(c, e, new)
        BY <4>5 DEF Finalized, ToEnd, Ready, CampaignOf
      <4>6. CASE Engaged(c, e, new)
        BY <4>6 DEF Engaged, ToEnd, Ready, CampaignOf
      <4>. QED  BY <1>6, <4>1, <4>2, <4>3, <4>4, <4>5, <4>6 DEF Effect
    <3>. QED  BY <2>0, <2>1, <3>1, <3>2 DEF Exists
  <2>. QED  BY <2>2, <2>3
<1>12. Staged'
  <2>1. CASE rest = <<>> \/ new = Invalid
    <3>1. exec'.todo = <<>>
      <4>1. new = Invalid => exec' = [command |-> c, todo |-> <<>>, status |-> "rejected"]
        BY <1>1, <1>3 DEF Reduces
      <4>2. exec'.todo = <<>> \/ exec'.todo = rest
        BY <1>8
      <4>. QED  BY <2>1, <4>1, <4>2
    <3>. QED  BY <1>9, <3>1, EndingStaged DEF Ending
  <2>2. CASE rest # <<>> /\ new # Invalid
    <3>1. /\ exec' = [command |-> c, todo |-> rest, status |-> "accepted"]
      BY <1>1, <1>3, <1>4, <2>2 DEF Reduces
    <3>2. exec'.command = c /\ exec'.todo = rest /\ exec'.status = "accepted"
      BY <3>1
    <3>3. CASE BuiltNow(c, e, new, rest)
      <4>1. c.type \in Builders /\ Ready(c) /\ ~Exists(ActorOf(c)) /\ e.stream = ActorOf(c)
            /\ ActorOf(c) \in Actors /\ new.campaign = CampaignOf(c) /\ new.stats = StatsOf(c)
            /\ Head(rest) = Register(c) /\ Ends(c, Tail(rest))
        BY <3>3 DEF BuiltNow, ToBuild
      <4>2. e.stream # c.player \/ c.type # "InstantiateEncounterTemplate"
        BY <4>1 DEF Ready, ActorOf
      <4>3. e.stream \in Actors \cup Campaigns
        BY <4>1
      <4>4. /\ CampaignOf(c)' = CampaignOf(c) /\ StatsOf(c)' = StatsOf(c) /\ Ready(c)'
            /\ Register(c)' = Register(c)
            /\ \A last : Ends(c, last) => Ends(c, last)'
        BY <1>5, <4>1, <4>2, <4>3, PlanKeeps DEF BusInv
      <4>5. Built(c)'
        BY <1>5, <2>2, <4>1, <4>4 DEF Built, ActorOf
      <4>6. ToRegister(c)'
        BY <2>2, <3>2, <4>1, <4>4, <4>5 DEF ToRegister, Todo
      <4>. QED  BY <3>2, <4>6 DEF Staged, Stage
    <3>4. CASE Registered(c, e, new, rest)
      <4>1. c.type \in Builders /\ Ready(c) /\ Built(c) /\ e.stream = CampaignOf(c)
            /\ ActorOf(c) \in Actors /\ CampaignOf(c) \in Campaigns /\ Ends(c, rest)
        BY <3>4 DEF Registered, ToRegister, Ready
      <4>2. e.stream # c.player \/ c.type # "InstantiateEncounterTemplate"
        BY <4>1, Envelope, KindsApart
      <4>3. e.stream \in Actors \cup Campaigns
        BY <4>1
      <4>4. /\ CampaignOf(c)' = CampaignOf(c) /\ StatsOf(c)' = StatsOf(c) /\ Ready(c)'
            /\ \A last : Ends(c, last) => Ends(c, last)'
        BY <1>5, <4>1, <4>2, <4>3, PlanKeeps DEF BusInv
      <4>5. live'[ActorOf(c)] = live[ActorOf(c)]
        BY <1>5, <4>1, KindsApart
      <4>6. Built(c)'
        BY <4>1, <4>4, <4>5 DEF Built, ActorOf, Exists
      <4>7. ToEnd(c)'
        BY <3>2, <4>1, <4>4, <4>6 DEF ToEnd
      <4>. QED  BY <3>2, <4>7 DEF Staged, Stage
    <3>. QED  BY <1>6, <2>2, <3>3, <3>4 DEF Effect
  <2>. QED  BY <2>1, <2>2
<1>. QED  BY <1>10, <1>11, <1>12 DEF BusInv

LEMMA BusStep == BusInv /\ [BusNext]_allVars => BusInv'
<1>. SUFFICES ASSUME BusInv, [BusNext]_allVars PROVE BusInv'
  OBVIOUS
<1>0. exec \in Executions \cup {Nothing}
  BY DEF BusInv, Typed
<1>1. CASE Still
  <2>1. Typed'
    BY <1>0, <1>1, SameTyped DEF Still, BusInv
  <2>2. CampaignsFirst'
    BY <1>1 DEF Still, BusInv, CampaignsFirst, Exists
  <2>3. Staged'
    <3>1. ASSUME NEW c PROVE Stage(c)' <=> Stage(c)
      <4>1. /\ (Ready(c)' <=> Ready(c)) /\ (Built(c)' <=> Built(c))
            /\ (Exists(ActorOf(c))' <=> Exists(ActorOf(c)))
        BY <1>1 DEF Still, Ready, Built, Exists, CampaignOf, StatsOf, ActorOf
      <4>2. /\ Register(c)' = Register(c) /\ Todo' = Todo
            /\ Build(c, exec.todo[1].expected)' = Build(c, exec.todo[1].expected)
            /\ \A last : (Ends(c, last)' <=> Ends(c, last))
        BY <1>1 DEF Still, Register, Build, Ends, Finalize, Engage, Exists, CampaignOf, StatsOf,
                    ActorOf, Todo
      <4>3. ToBuild(c)' <=> ToBuild(c)
        BY <1>1, <4>1, <4>2 DEF Still, ToBuild
      <4>4. (ToRegister(c)' <=> ToRegister(c)) /\ (ToEnd(c)' <=> ToEnd(c))
        BY <1>1, <4>1, <4>2 DEF Still, ToRegister, ToEnd
      <4>5. /\ (Creating(c)' <=> Creating(c)) /\ (Rolling(c)' <=> Rolling(c))
            /\ (Drafting(c)' <=> Drafting(c))
            /\ \A type : (Choosing(c, type)' <=> Choosing(c, type))
        BY <1>1 DEF Still, Creating, Rolling, Drafting, Choosing, Exists, CurrentVersion
      <4>. QED  BY <4>3, <4>4, <4>5 DEF Stage
    <3>. QED  BY <1>1, <3>1 DEF Still, BusInv, Staged
  <2>. QED  BY <2>1, <2>2, <2>3 DEF BusInv
<1>2. ASSUME NEW c \in Handled, Dispatch(c) PROVE BusInv'
  <2>1. Typed' /\ Staged'
    BY <1>2, Dispatched
  <2>2. CampaignsFirst'
    BY <1>2 DEF Dispatch, BusInv, CampaignsFirst, Exists
  <2>. QED  BY <2>1, <2>2 DEF BusInv
<1>3. ASSUME UNCHANGED <<events, streams, unoffered, live, rolls>>, Ending PROVE BusInv'
  <2>1. Typed'
    BY <1>3, SameTyped DEF BusInv, Ending
  <2>2. CampaignsFirst'
    BY <1>3 DEF BusInv, CampaignsFirst, Exists
  <2>. QED  BY <1>3, <2>1, <2>2, EndingStaged DEF BusInv
<1>4. ASSUME NEW c \in Handled, Refuse(c) PROVE BusInv'
  <2>1. exec' = [command |-> c, todo |-> <<>>, status |-> Verdict(c)] /\ Verdict(c) \in Statuses
    BY <1>4 DEF Refuse, Running, Verdict, Statuses
  <2>2. Ending
    BY <2>1 DEF Ending, Executions
  <2>. QED  BY <1>3, <1>4, <2>2 DEF Refuse, vars
<1>5. CASE StepRaises \/ StepConflicts
  <2>1. exec # Nothing
    BY <1>5 DEF StepRaises, StepConflicts, Pending
  <2>2. exec.command \in Handled
    BY <2>1, ExecType DEF BusInv
  <2>3. \E status \in Statuses : exec' = [command |-> exec.command, todo |-> <<>>, status |-> status]
    BY <1>5 DEF StepRaises, StepConflicts, Running, Statuses
  <2>4. Ending
    BY <2>2, <2>3 DEF Ending, Executions
  <2>. QED  BY <1>3, <1>5, <2>4 DEF StepRaises, StepConflicts, AppendConflict, vars
<1>6. CASE Finish
  BY <1>3, <1>6 DEF Finish, SaveReceipt, feedVars, Ending
<1>7. CASE StepQueueFull
  <2>1. PICK e \in BusEvents : Appends(e)
    BY <1>7, Overflowed
  <2>2. unoffered' = unoffered \cup {Len(events) + 1} /\ live' = live /\ rolls' = rolls
        /\ exec' = Nothing
    BY <1>7, Overflowed
  <2>3. unoffered' \in SUBSET (1..(Len(events) + 1))
    <3>1. events \in Seq(BusEvents) /\ unoffered \in SUBSET (1..Len(events))
      BY DEF BusInv, Typed
    <3>2. PICK n \in Nat : n = Len(events)
      BY <3>1
    <3>3. \A u \in unoffered' : u \in 1..(n + 1)
      BY <2>2, <3>1, <3>2
    <3>. QED  BY <3>2, <3>3
  <2>4. Typed'
    <3>1. /\ live' = [s \in Streams |-> live'[s]]
          /\ \A s \in Streams : live'[s] \in StatesOf(s) \cup {Nothing}
      BY <2>2 DEF BusInv, Typed
    <3>. QED  BY <2>1, <2>2, <2>3, <3>1, AppendsTyped DEF BusInv
  <2>5. CampaignsFirst'
    BY <2>2 DEF BusInv, CampaignsFirst, Exists
  <2>6. Staged'
    BY <2>2, EndingStaged DEF Ending
  <2>. QED  BY <2>4, <2>5, <2>6 DEF BusInv
<1>. QED  BY <1>1, <1>2, <1>4, <1>5, <1>6, <1>7, StoredKeeps, StepKinds

LEMMA BusStart == BusInit => BusInv
BY DEF BusInit, Init, BusInv, Typed, CampaignsFirst, Staged, Exists

\* Whatever is stored, projected and drawn is of its kind; nothing exists without its
\* campaign; and whatever a handler checked before its first append still holds when it
\* gets to its last, whoever comes and goes in between.
THEOREM BusInvariant == BusSpec => []BusInv
BY BusStart, BusStep, PTL DEF BusSpec

\* What a stored append leaves behind: the event e, which makes `new` of its projection,
\* and the `rest` of what c has to do.
Outcome(c, e, new, rest) ==
    /\ Appends(e) /\ new = Reduce(live[e.stream], e) /\ Effect(c, e, new, rest)
    /\ c \in Handled /\ c = exec.command /\ exec # Nothing /\ exec.todo # <<>>
    /\ exec.todo \in Seq(Steps) /\ exec.status = "accepted"
    /\ rest = Tail(exec.todo)
    /\ exec' # Nothing /\ exec'.command = c
    /\ new = Invalid => exec'.todo = <<>> /\ exec'.status = "rejected"
    /\ new # Invalid => exec'.todo = rest /\ exec'.status = "accepted"
    /\ rest = <<>> => exec'.todo = <<>>
    /\ receipts' = receipts /\ unoffered' = unoffered /\ rolls' = rolls
    /\ e.stream \in Streams
    /\ \A s \in Streams \ {e.stream} : live'[s] = live[s]
    /\ \A s \in Streams : Exists(s) => Exists(s)'
    /\ new # Invalid => live'[e.stream] = new /\ Exists(e.stream)'
    /\ new = Invalid => live' = live /\ BadSeed(e) /\ Opened(c, e, new)

LEMMA Outcomes ==
    ASSUME BusInv, BusInv', StepStored
    PROVE  \E c \in Handled, e \in BusEvents : \E new, rest : Outcome(c, e, new, rest)
<1>0. PICK e \in BusEvents : \E new : Appends(e) /\ Reduces(e, new)
  BY Stored
<1>1. PICK new : Appends(e) /\ Reduces(e, new)
  BY <1>0
<1>2. /\ receipts' = receipts /\ unoffered' = unoffered /\ rolls' = rolls
      /\ exec # Nothing /\ exec.command \in Handled /\ exec.todo \in Seq(Steps)
      /\ exec.todo # <<>> /\ exec.status = "accepted"
  BY Stored
<1>3. PICK c \in Handled : c = exec.command
  BY <1>2
<1>4. PICK rest : rest = Tail(exec.todo)
  OBVIOUS
<1>5. /\ e.stream \in Streams
      /\ \A s \in Streams \ {e.stream} : live'[s] = live[s]
      /\ \A s \in Streams : Exists(s) => Exists(s)'
      /\ new # Invalid => live'[e.stream] = new /\ Exists(e.stream)'
      /\ new = Invalid => BadSeed(e) /\ Opened(c, e, new)
  BY <1>1, <1>2, <1>3, LiveGrows
<1>6. Effect(c, e, new, rest) /\ new = Reduce(live[e.stream], e) /\ (new = Invalid => live' = live)
  BY <1>1, <1>3, <1>4 DEF Reduces
<1>7. rest \in Seq(Steps)
  BY <1>2, <1>4
<1>8. /\ new = Invalid => exec' = [command |-> c, todo |-> <<>>, status |-> "rejected"]
      /\ new # Invalid => exec' = [command |-> c, todo |-> rest, status |-> "accepted"]
  BY <1>1, <1>3, <1>4 DEF Reduces
<1>9. exec' # Nothing
  <2>1. <<>> \in Seq(Steps) /\ "rejected" \in Statuses /\ "accepted" \in Statuses
    BY DEF Statuses
  <2>2. exec' \in Executions
    <3>1. CASE new = Invalid
      <4>1. exec' = [command |-> c, todo |-> <<>>, status |-> "rejected"]
        BY <1>8, <3>1
      <4>. QED  BY <2>1, <4>1 DEF Executions
    <3>2. CASE new # Invalid
      <4>1. exec' = [command |-> c, todo |-> rest, status |-> "accepted"]
        BY <1>8, <3>2
      <4>. QED  BY <1>7, <2>1, <4>1 DEF Executions
    <3>. QED  BY <3>1, <3>2
  <2>. QED  BY <2>2, NothingAssumption
<1>10. /\ exec'.command = c
       /\ new = Invalid => exec'.todo = <<>> /\ exec'.status = "rejected"
       /\ new # Invalid => exec'.todo = rest /\ exec'.status = "accepted"
       /\ rest = <<>> => exec'.todo = <<>>
  BY <1>8
<1>11. /\ Appends(e) /\ c = exec.command /\ exec # Nothing /\ exec.todo # <<>>
       /\ exec.todo \in Seq(Steps) /\ exec.status = "accepted" /\ rest = Tail(exec.todo)
       /\ receipts' = receipts /\ unoffered' = unoffered /\ rolls' = rolls
  BY <1>1, <1>2, <1>3, <1>4
<1>12. new = Invalid => live' = live /\ BadSeed(e) /\ Opened(c, e, new)
  BY <1>5, <1>6
<1>13. Outcome(c, e, new, rest)
  BY <1>5, <1>6, <1>9, <1>10, <1>11, <1>12, Zenon DEF Outcome
<1>. QED  BY <1>13

\* One more event, at the end.
LEMMA Longer ==
    ASSUME Typed, NEW e, Appends(e)
    PROVE  /\ Len(events) \in Nat /\ Len(events') = Len(events) + 1
           /\ DOMAIN events = 1..Len(events) /\ DOMAIN events' = 1..(Len(events) + 1)
           /\ \A n \in DOMAIN events : n \in DOMAIN events' /\ events'[n] = events[n]
           /\ events'[Len(events) + 1] = e
           /\ \A n \in DOMAIN events' : n \in DOMAIN events \/ n = Len(events) + 1
           /\ Len(events) + 1 \notin DOMAIN events
<1>1. events \in Seq(BusEvents) /\ e \in BusEvents /\ events' = Append(events, e)
  BY DEF Typed, Appends
<1>2. /\ events' \in Seq(BusEvents) /\ Len(events') = Len(events) + 1
      /\ DOMAIN events' = 1..(Len(events) + 1) /\ Len(events) \in Nat /\ DOMAIN events = 1..Len(events)
      /\ \A n \in 1..Len(events) : events'[n] = events[n]
      /\ events'[Len(events) + 1] = e
  BY <1>1, Pushed
<1>. QED  BY <1>2

-----------------------------------------------------------------------------
(* Dice: every draw is on record *)

Rolled(c) == {n \in DOMAIN events : events[n].stream = c /\ events[n].payload.type = "DiceRolled"}

\* The draw of the command in the lock is on record when the command has nothing more
\* to do.
Owing(c) == /\ exec # Nothing /\ exec.todo # <<>>
            /\ exec.command.type = "RollDice" /\ exec.command.campaign = c
Drawn(c) == IF Owing(c) THEN rolls[c] - 1 ELSE rolls[c]

RollsKnown == \A c \in Campaigns :
    /\ \A n \in Rolled(c) : events[n].payload.roll \in 1..Drawn(c)
    /\ \A r \in 1..Drawn(c) : \E n \in Rolled(c) : events[n].payload.roll = r
    /\ \A m, n \in Rolled(c) : m < n => events[m].payload.roll < events[n].payload.roll

LEMMA OwingRolls ==
    ASSUME BusInv, NEW c \in Campaigns, Owing(c)
    PROVE  /\ Rolling(exec.command) /\ rolls[c] \in Nat \ {0} /\ Drawn(c) = rolls[c] - 1
           /\ exec.command.campaign = c
<1>1. Stage(exec.command) /\ exec.command.type = "RollDice" /\ exec.command.campaign = c
  BY DEF BusInv, Staged, Owing
<1>2. Rolling(exec.command)
  BY <1>1 DEF Stage, Creating, Drafting, ToBuild, ToRegister, ToEnd, Builders
<1>3. rolls[c] \in Nat \ {0}
  BY <1>1, <1>2 DEF BusInv, Typed, Rolling
<1>. QED  BY <1>1, <1>2, <1>3 DEF Drawn

\* A step that stores nothing and settles no draw.
LEMMA SameRolls ==
    ASSUME RollsKnown, events' = events, \A c \in Campaigns : Drawn(c)' = Drawn(c)
    PROVE  RollsKnown'
<1>1. \A c : Rolled(c)' = Rolled(c)
  BY DEF Rolled
<1>2. ASSUME NEW c \in Campaigns
      PROVE  /\ \A n \in Rolled(c) : events[n].payload.roll \in 1..(Drawn(c)')
             /\ \A r \in 1..(Drawn(c)') : \E n \in Rolled(c) : events[n].payload.roll = r
             /\ \A m, n \in Rolled(c) : m < n => events[m].payload.roll < events[n].payload.roll
  BY DEF RollsKnown
<1>. QED  BY <1>1, <1>2 DEF RollsKnown

\* A stored event that is no roll, or the roll that was owed.
LEMMA MoreRolls ==
    ASSUME BusInv, RollsKnown, rolls' = rolls, NEW e, Appends(e),
           ~(exec' # Nothing /\ exec'.todo # <<>> /\ exec'.command.type = "RollDice"),
           \/ e.payload.type # "DiceRolled" /\ exec.command.type # "RollDice"
           \/ /\ e.payload.type = "DiceRolled" /\ Owing(e.stream) /\ e.stream \in Campaigns
              /\ e.payload.roll = rolls[e.stream]
    PROVE  RollsKnown'
<1>. SUFFICES ASSUME NEW c \in Campaigns
              PROVE  /\ \A n \in Rolled(c)' : events'[n].payload.roll \in 1..(Drawn(c)')
                     /\ \A r \in 1..(Drawn(c)') : \E n \in Rolled(c)' : events'[n].payload.roll = r
                     /\ \A m, n \in Rolled(c)' :
                            m < n => events'[m].payload.roll < events'[n].payload.roll
  BY DEF RollsKnown
<1>1. /\ \A n \in Rolled(c) : events[n].payload.roll \in 1..Drawn(c)
      /\ \A r \in 1..Drawn(c) : \E n \in Rolled(c) : events[n].payload.roll = r
      /\ \A m, n \in Rolled(c) : m < n => events[m].payload.roll < events[n].payload.roll
  BY DEF RollsKnown
<1>2. PICK k \in Nat : k = Len(events)
  BY Longer DEF BusInv
<1>3. /\ DOMAIN events = 1..k /\ DOMAIN events' = 1..(k + 1)
      /\ \A n \in 1..k : events'[n] = events[n]
      /\ events'[k + 1] = e
  BY <1>2, Longer DEF BusInv
<1>4. rolls[c] \in Nat /\ Drawn(c)' = rolls[c]
  BY DEF BusInv, Typed, Drawn, Owing
<1>5. CASE e.stream = c /\ e.payload.type = "DiceRolled"
  <2>1. Drawn(c) = rolls[c] - 1 /\ rolls[c] \in Nat \ {0} /\ e.payload.roll = rolls[c]
    BY <1>5, OwingRolls
  <2>2. Rolled(c)' = Rolled(c) \cup {k + 1} /\ Rolled(c) \subseteq 1..k
    BY <1>3, <1>5 DEF Rolled
  <2>3. \A n \in Rolled(c) : events'[n] = events[n] /\ events[n].payload.roll \in 1..(rolls[c] - 1)
    BY <1>1, <1>3, <2>1, <2>2
  <2>4. \A n \in Rolled(c)' : events'[n].payload.roll \in 1..rolls[c]
    BY <1>3, <2>1, <2>2, <2>3
  <2>5. ASSUME NEW r \in 1..rolls[c] PROVE \E n \in Rolled(c)' : events'[n].payload.roll = r
    <3>1. CASE r = rolls[c]
      BY <1>3, <2>1, <2>2, <3>1
    <3>2. CASE r # rolls[c]
      <4>1. r \in 1..(rolls[c] - 1)
        BY <2>1, <3>2
      <4>2. PICK n \in Rolled(c) : events[n].payload.roll = r
        BY <1>1, <2>1, <4>1
      <4>. QED  BY <2>2, <2>3, <4>2
    <3>. QED  BY <3>1, <3>2
  <2>6. ASSUME NEW m \in Rolled(c)', NEW n \in Rolled(c)', m < n
        PROVE  events'[m].payload.roll < events'[n].payload.roll
    <3>1. m \in Rolled(c)
      BY <2>2, <2>6
    <3>2. CASE n \in Rolled(c)
      BY <1>1, <2>3, <2>6, <3>1, <3>2
    <3>3. CASE n = k + 1
      BY <1>3, <2>1, <2>3, <3>1, <3>3
    <3>. QED  BY <2>2, <3>2, <3>3
  <2>. QED  BY <1>4, <2>4, <2>5, <2>6
<1>6. CASE ~(e.stream = c /\ e.payload.type = "DiceRolled")
  <2>1. Drawn(c) = rolls[c]
    BY <1>6, OwingRolls DEF Drawn, Owing
  <2>2. Rolled(c)' = Rolled(c) /\ \A n \in Rolled(c) : events'[n] = events[n]
    BY <1>3, <1>6 DEF Rolled
  <2>. QED  BY <1>1, <1>4, <2>1, <2>2
<1>. QED  BY <1>5, <1>6

\* Only a roll is recorded as one.
LEMMA RollEffect ==
    ASSUME BusInv, exec # Nothing, exec.todo # <<>>, exec.command \in Handled,
           NEW e, Appends(e), NEW new, Effect(exec.command, e, new, Tail(exec.todo))
    PROVE  \/ e.payload.type # "DiceRolled" /\ exec.command.type # "RollDice"
           \/ /\ e.payload.type = "DiceRolled" /\ Owing(e.stream) /\ e.stream \in Campaigns
              /\ e.payload.roll = rolls[e.stream]
<1>1. CASE RolledNow(exec.command, e, new)
  BY <1>1, Envelope DEF RolledNow, Rolling, Owing
<1>2. CASE ~RolledNow(exec.command, e, new)
  BY <1>2 DEF Effect, Opened, Drafted, Chosen, BuiltNow, Registered, Finalized, Engaged,
              Creating, Drafting, ToBuild, ToRegister, ToEnd, Builders
<1>. QED  BY <1>1, <1>2

LEMMA RollsStep == BusInv /\ BusInv' /\ RollsKnown /\ [BusNext]_allVars => RollsKnown'
<1>. SUFFICES ASSUME BusInv, BusInv', RollsKnown, [BusNext]_allVars PROVE RollsKnown'
  OBVIOUS
<1>1. CASE Still
  BY <1>1, SameRolls DEF Still, Drawn, Owing
<1>2. ASSUME NEW c \in Handled, Dispatch(c) PROVE RollsKnown'
  <2>1. /\ exec = Nothing /\ exec' = [command |-> c, todo |-> Plan(c), status |-> "accepted"]
        /\ events' = events
        /\ rolls' = IF c.type = "RollDice" THEN [rolls EXCEPT ![c.campaign] = @ + 1] ELSE rolls
        /\ rolls \in [Campaigns -> Nat] /\ c.campaign \in Campaigns
    BY <1>2, Envelope DEF Dispatch, Arrives, Running, vars, BusInv, Typed
  <2>2. exec' # Nothing
    BY <1>2, NothingAssumption, Dispatched
  <2>3. c.type = "RollDice" => Plan(c) # <<>>
    BY DEF Plan
  <2>. QED  BY <2>1, <2>2, <2>3, SameRolls DEF Drawn, Owing
<1>3. ASSUME NEW c \in Handled, Refuse(c) PROVE RollsKnown'
  <2>1. exec = Nothing /\ exec' = [command |-> c, todo |-> <<>>, status |-> Verdict(c)]
        /\ events' = events /\ rolls' = rolls
    BY <1>3 DEF Refuse, Arrives, Running, vars
  <2>. QED  BY <2>1, SameRolls DEF Drawn, Owing
<1>4. CASE StepRaises \/ StepConflicts
  <2>1. exec # Nothing /\ exec.todo # <<>> /\ events' = events /\ rolls' = rolls
        /\ \E status : exec' = [command |-> exec.command, todo |-> <<>>, status |-> status]
    BY <1>4 DEF StepRaises, StepConflicts, Pending, AppendConflict, vars, Running
  <2>2. ASSUME NEW c \in Campaigns, Owing(c) PROVE FALSE
    <3>1. Rolling(exec.command) /\ exec.command.campaign = c
      BY <2>2, OwingRolls
    <3>2. exec.command.expected = Nothing \/ exec.command.expected = CurrentVersion(c)
      BY <3>1 DEF Rolling
    <3>3. Todo = Step(c, exec.command.expected,
                      Payload(exec.command, "DiceRolled", c, exec.command.data, rolls[c]))
      BY <3>1, OneLeft DEF Rolling, Todo
    <3>4. Todo.stream = c /\ Todo.expected = exec.command.expected
      BY <3>3 DEF Step
    <3>5. TodoVersion = CurrentVersion(Todo.stream)
      BY <3>2, <3>4 DEF TodoVersion
    <3>6. Todo # Raise
      BY <3>3 DEF Step, Raise
    <3>. QED  BY <1>4, <3>5, <3>6 DEF StepRaises, StepConflicts, AppendConflict
  <2>. QED  BY <2>1, <2>2, SameRolls DEF Drawn, Owing
<1>5. CASE StepStored
  <2>0. PICK c \in Handled, e \in BusEvents : \E new, rest : Outcome(c, e, new, rest)
    BY <1>5, Outcomes
  <2>1. PICK new, rest : Outcome(c, e, new, rest)
    BY <2>0
  <2>2. /\ rolls' = rolls /\ exec # Nothing /\ exec.command = c /\ exec.todo # <<>>
        /\ Appends(e) /\ Effect(exec.command, e, new, Tail(exec.todo)) /\ exec'.command = c
        /\ rest = Tail(exec.todo) /\ (rest = <<>> => exec'.todo = <<>>)
    BY <2>1 DEF Outcome
  <2>3. \/ e.payload.type # "DiceRolled" /\ exec.command.type # "RollDice"
        \/ /\ e.payload.type = "DiceRolled" /\ Owing(e.stream) /\ e.stream \in Campaigns
           /\ e.payload.roll = rolls[e.stream]
    BY <2>2, RollEffect
  <2>4. ~(exec' # Nothing /\ exec'.todo # <<>> /\ exec'.command.type = "RollDice")
    <3>1. CASE c.type = "RollDice"
      <4>1. Rolling(c)
        BY <2>2, <2>3, <3>1, OwingRolls
      <4>2. rest = <<>>
        BY <2>2, <4>1, OneLeft DEF Rolling
      <4>. QED  BY <2>2, <4>2
    <3>2. CASE c.type # "RollDice"
      BY <2>2, <3>2
    <3>. QED  BY <3>1, <3>2
  <2>. QED  BY <2>2, <2>3, <2>4, MoreRolls
<1>6. CASE StepQueueFull
  <2>1. PICK e \in BusEvents : /\ Appends(e)
                               /\ Effect(exec.command, e, Reduce(live[e.stream], e), Tail(exec.todo))
    BY <1>6, Overflowed
  <2>2. /\ rolls' = rolls /\ exec # Nothing /\ exec.command \in Handled /\ exec.todo # <<>>
        /\ exec' = Nothing
    BY <1>6, Overflowed
  <2>3. \/ e.payload.type # "DiceRolled" /\ exec.command.type # "RollDice"
        \/ /\ e.payload.type = "DiceRolled" /\ Owing(e.stream) /\ e.stream \in Campaigns
           /\ e.payload.roll = rolls[e.stream]
    BY <2>1, <2>2, RollEffect
  <2>. QED  BY <2>1, <2>2, <2>3, MoreRolls
<1>7. CASE Finish
  <2>1. exec.todo = <<>> /\ exec' = Nothing /\ events' = events /\ rolls' = rolls
    BY <1>7 DEF Finish, SaveReceipt
  <2>. QED  BY <2>1, SameRolls DEF Drawn, Owing
<1>. QED  BY <1>1, <1>2, <1>3, <1>4, <1>5, <1>6, <1>7, StepKinds

LEMMA RollsStart == BusInit => RollsKnown
BY DEF BusInit, Init, RollsKnown, Rolled, Drawn, Owing

\* Every draw from the RNG of a campaign is on record, once and in order: a roll is
\* drawn only after its version was compared, and nothing comes between the draw and
\* its append.
THEOREM DrawsAreRecorded == BusSpec => []RollsOnRecord
<1>1. BusInv /\ RollsKnown => RollsOnRecord
  <2>. SUFFICES ASSUME RollsKnown, Idle, NEW c \in Campaigns
                PROVE  /\ {events[n].payload.roll : n \in Rolled(c)} = 1..rolls[c]
                       /\ \A m, n \in Rolled(c) : m < n => events[m].payload.roll < events[n].payload.roll
    BY DEF RollsOnRecord, Rolled
  <2>1. Drawn(c) = rolls[c]
    BY DEF Idle, Drawn, Owing
  <2>. QED  BY <2>1 DEF RollsKnown
<1>. QED  BY <1>1, RollsStart, RollsStep, BusInvariant, PTL DEF BusSpec

-----------------------------------------------------------------------------
(* Retries: what is said twice, and after what *)

Answered(c) == receipts[c.key] # NoReceipt
\* The actor that c would create is there: c is refused whenever it is sent again.
Spent(c) == c.type \in Builders /\ Exists(ActorOf(c))

\* What the command in the lock has still to append is nothing of this type.
NoMore(type) ==
    \A k \in DOMAIN exec.todo : exec.todo[k] = Raise \/ exec.todo[k].payload.type # type

\* If its client named every id, an event that was not cut off belongs to a command that
\* cannot start again, and is none of those that the command in the lock has still to append.
SaidOnce ==
    /\ \A i \in DOMAIN events \ unoffered :
           Named(events[i].payload.command) => \E c \in Handled :
               /\ c.id = events[i].payload.command
               /\ Answered(c) \/ Spent(c) \/ (exec # Nothing /\ exec.command = c /\ exec.todo = <<>>)
    /\ exec # Nothing => \A i \in DOMAIN events \ unoffered :
           (Named(exec.command.id) /\ events[i].payload.command = exec.command.id)
               => NoMore(events[i].payload.type)

\* An append of the same command was cut off, this one or a later one.
CutSince(i) == \E k \in DOMAIN events \cap unoffered :
    k >= i /\ events[k].payload.command = events[i].payload.command

\* Whoever named the ids, a command that has said something and can start again has been
\* cut off since.
SaidBeforeCut ==
    /\ \A i \in DOMAIN events :
           \/ \E c \in Handled : c.id = events[i].payload.command /\ Answered(c)
           \/ exec # Nothing /\ exec.command.id = events[i].payload.command
           \/ CutSince(i)
    /\ exec # Nothing => \A i \in DOMAIN events :
           events[i].payload.command = exec.command.id =>
               CutSince(i) \/ NoMore(events[i].payload.type)

\* What may follow a registration.
LEMMA EndsKinds ==
    ASSUME NEW c, NEW last, Ends(c, last), NEW k \in DOMAIN last
    PROVE  last[k] = Raise \/ last[k].payload.type \in {"CharacterCreationFinalized", "EncounterStarted"}
<1>1. \A x : k \in DOMAIN <<x>> => <<x>>[k] = x
  OBVIOUS
<1>2. Finalize(c).payload.type = "CharacterCreationFinalized"
      /\ Engage(c).payload.type = "EncounterStarted"
  BY DEF Finalize, Engage, Step, Payload
<1>3. k \notin DOMAIN <<>>
  OBVIOUS
<1>. QED  BY <1>1, <1>2, <1>3 DEF Ends

\* What is left of a handler's plan after one append is of other types.
LEMMA LeftToSay ==
    ASSUME NEW c, NEW e, NEW new, NEW rest \in Seq(Steps), Effect(c, e, new, rest),
           NEW k \in DOMAIN rest
    PROVE  rest[k] = Raise \/ rest[k].payload.type # e.payload.type
<1>1. CASE BuiltNow(c, e, new, rest)
  <2>1. e.payload.type = "ActorCreated" /\ rest # <<>> /\ Head(rest) = Register(c) /\ Ends(c, Tail(rest))
    BY <1>1 DEF BuiltNow
  <2>2. CASE k = 1
    <3>1. rest[k] = Register(c)
      BY <2>1, <2>2
    <3>2. Register(c).payload.type = "ActorRegistered"
      BY DEF Register, Step, Payload
    <3>. QED  BY <2>1, <3>1, <3>2
  <2>3. CASE k # 1
    <3>1. PICK last : last = Tail(rest)
      OBVIOUS
    <3>2. k - 1 \in DOMAIN last /\ last[k - 1] = rest[k]
      BY <2>1, <2>3, <3>1
    <3>. QED  BY <2>1, <3>1, <3>2, EndsKinds
  <2>. QED  BY <2>2, <2>3
<1>2. CASE Registered(c, e, new, rest)
  BY <1>2, EndsKinds DEF Registered
<1>3. CASE rest = <<>>
  BY <1>3
<1>. QED  BY <1>1, <1>2, <1>3 DEF Effect

\* A step that stores nothing and leaves the command in the lock, if any, nothing to do.
LEMMA SaidBefore ==
    ASSUME SaidOnce, exec = Nothing \/ exec.todo # <<>>, events' = events, unoffered' = unoffered,
           live' = live, receipts' = receipts, exec' = Nothing \/ exec'.todo = <<>>
    PROVE  SaidOnce'
<1>1. ASSUME NEW i \in DOMAIN events \ unoffered, Named(events[i].payload.command)
      PROVE  \E c \in Handled : c.id = events[i].payload.command /\ (Answered(c)' \/ Spent(c)')
  <2>1. PICK c \in Handled : c.id = events[i].payload.command /\ (Answered(c) \/ Spent(c))
    BY <1>1 DEF SaidOnce
  <2>2. Answered(c)' <=> Answered(c)
    BY DEF Answered
  <2>3. Spent(c)' <=> Spent(c)
    BY DEF Spent, Exists
  <2>. QED  BY <2>1, <2>2, <2>3
<1>2. exec' # Nothing => DOMAIN exec'.todo = {}
  OBVIOUS
<1>. QED  BY <1>1, <1>2 DEF SaidOnce, NoMore, Named

LEMMA SpentStays ==
    ASSUME NEW c \in Handled, Spent(c), \A s \in Streams : Exists(s) => Exists(s)'
    PROVE  Spent(c)'
<1>1. ActorOf(c) \in Streams
  BY Envelope, KindsApart DEF Spent
<1>. QED  BY <1>1 DEF Spent

\* Only a command that has said nothing, or nothing but what was cut off, gets to append.
LEMMA StartsFresh ==
    ASSUME BusInv, SaidOnce, NEW c \in Handled, Dispatch(c),
           NEW i \in DOMAIN events \ unoffered, events[i].payload.command = c.id, Named(c.id)
    PROVE  FALSE
<1>1. exec = Nothing /\ receipts[c.key] = NoReceipt /\ Admits(c)
  BY DEF Dispatch, Arrives, Unanswered
<1>2. PICK d \in Handled : d.id = events[i].payload.command /\ (Answered(d) \/ Spent(d))
  BY <1>1 DEF SaidOnce
<1>3. d = c
  BY <1>2, OneReading
<1>4. ~Spent(c)
  BY <1>1 DEF Admits, Spent, Builders, ActorOf
<1>. QED  BY <1>1, <1>2, <1>3, <1>4 DEF Answered

\* An answer is one.
LEMMA Answers ==
    ASSUME BusInv, LockInv, Finish
    PROVE  /\ exec # Nothing /\ exec.command \in Handled /\ exec.command.key \in Keys
           /\ receipts'[exec.command.key] = [command |-> exec.command.id, status |-> exec.status]
           /\ receipts'[exec.command.key] # NoReceipt /\ exec.status \in Statuses
           /\ \A k \in Keys \ {exec.command.key} : receipts'[k] = receipts[k]
<1>1. exec # Nothing
  BY DEF Finish
<1>2. exec.command \in Handled /\ exec.status \in Statuses
  BY <1>1, ExecType DEF BusInv
<1>3. exec.command.key \in Keys /\ exec.command.id \in {c.id : c \in Commands}
  BY <1>2, Envelope
<1>4. PICK r : r = [command |-> exec.command.id, status |-> exec.status]
  OBVIOUS
<1>5. receipts' = [receipts EXCEPT ![exec.command.key] = r]
  BY <1>4 DEF Finish, SaveReceipt
<1>6. r # NoReceipt
  <2>1. r \in [command: {c.id : c \in Commands}, status: Statuses]
    BY <1>2, <1>3, <1>4
  <2>. QED  BY <2>1, ReceiptsAssumption, NoReceiptAssumption
<1>7. receipts = [k \in Keys |-> receipts[k]]
  BY DEF LockInv
<1>. QED  BY <1>1, <1>2, <1>3, <1>4, <1>5, <1>6, <1>7

LEMMA SaidStep ==
    BusInv /\ BusInv' /\ LockInv /\ SaidOnce /\ [BusNext]_allVars => SaidOnce'
<1>. SUFFICES ASSUME BusInv, BusInv', LockInv, SaidOnce, [BusNext]_allVars PROVE SaidOnce'
  OBVIOUS
<1>1. CASE Still
  BY <1>1 DEF Still, SaidOnce, NoMore, Answered, Spent, Exists, Named
<1>2. ASSUME NEW c \in Handled, Dispatch(c) PROVE SaidOnce'
  <2>1. /\ exec = Nothing /\ exec'.command = c
        /\ UNCHANGED <<events, unoffered, live, receipts>>
    BY <1>2 DEF Dispatch, Arrives, vars, Running
  <2>2. ASSUME NEW i \in DOMAIN events \ unoffered, Named(events[i].payload.command)
        PROVE  /\ \E d \in Handled : d.id = events[i].payload.command /\ (Answered(d)' \/ Spent(d)')
               /\ events[i].payload.command # c.id
    <3>1. PICK d \in Handled : d.id = events[i].payload.command /\ (Answered(d) \/ Spent(d))
      BY <2>1, <2>2 DEF SaidOnce
    <3>2. (Answered(d) => Answered(d)') /\ (Spent(d) => Spent(d)')
      BY <2>1 DEF Answered, Spent, Exists
    <3>. QED  BY <1>2, <2>2, <3>1, <3>2, StartsFresh
  <2>. QED  BY <2>1, <2>2 DEF SaidOnce, Named
<1>3. ASSUME NEW c \in Handled, Refuse(c) PROVE SaidOnce'
  <2>1. /\ exec = Nothing /\ exec'.todo = <<>>
        /\ UNCHANGED <<events, unoffered, live, receipts>>
    BY <1>3 DEF Refuse, Arrives, vars, Running
  <2>. QED  BY <2>1, SaidBefore
<1>4. CASE StepRaises \/ StepConflicts
  <2>1. /\ exec # Nothing /\ exec.todo # <<>> /\ exec'.todo = <<>>
        /\ UNCHANGED <<events, unoffered, live, receipts>>
    BY <1>4 DEF StepRaises, StepConflicts, Pending, AppendConflict, vars, Running
  <2>. QED  BY <2>1, SaidBefore
<1>5. CASE StepStored
  <2>0. PICK c \in Handled, e \in BusEvents : \E new, rest : Outcome(c, e, new, rest)
    BY <1>5, Outcomes
  <2>1. PICK new, rest : Outcome(c, e, new, rest)
    BY <2>0
  <2>2. /\ Appends(e) /\ Effect(c, e, new, rest) /\ c = exec.command /\ exec # Nothing
        /\ exec.todo # <<>> /\ exec.todo \in Seq(Steps) /\ rest = Tail(exec.todo)
        /\ exec' # Nothing /\ exec'.command = c
        /\ exec'.todo = <<>> \/ (exec'.todo = rest /\ new # Invalid)
        /\ rest = <<>> => exec'.todo = <<>>
        /\ receipts' = receipts /\ unoffered' = unoffered
        /\ \A s \in Streams : Exists(s) => Exists(s)'
        /\ new # Invalid => Exists(e.stream)'
    BY <2>1 DEF Outcome
  <2>3. /\ \A i \in DOMAIN events : events'[i] = events[i]
        /\ events'[Len(events) + 1] = e
        /\ \A i \in DOMAIN events' : i \in DOMAIN events \/ i = Len(events) + 1
    BY <2>2, Longer DEF BusInv
  <2>4. e.payload.command = c.id
    BY <2>2 DEF Appends
  <2>5. ASSUME NEW i \in DOMAIN events' \ unoffered', Named(events'[i].payload.command)
        PROVE  \E d \in Handled :
                   /\ d.id = events'[i].payload.command
                   /\ Answered(d)' \/ Spent(d)'
                      \/ (exec' # Nothing /\ exec'.command = d /\ exec'.todo = <<>>)
    <3>1. CASE i \in DOMAIN events
      <4>1. PICK d \in Handled : d.id = events[i].payload.command /\ (Answered(d) \/ Spent(d))
        BY <2>2, <2>3, <2>5, <3>1 DEF SaidOnce
      <4>2. Answered(d) => Answered(d)'
        BY <2>2 DEF Answered
      <4>. QED  BY <2>2, <2>3, <3>1, <4>1, <4>2, SpentStays
    <3>2. CASE i = Len(events) + 1 /\ exec'.todo = <<>>
      BY <2>2, <2>3, <2>4, <3>2
    <3>3. CASE i = Len(events) + 1 /\ exec'.todo # <<>>
      <4>1. CASE BuiltNow(c, e, new, rest)
        <5>1. Spent(c)'
          BY <2>2, <3>3, <4>1 DEF BuiltNow, ToBuild, Spent, ActorOf
        <5>. QED  BY <2>3, <2>4, <3>3, <5>1
      <4>2. CASE Registered(c, e, new, rest)
        <5>1. Spent(c)
          BY <4>2 DEF Registered, ToRegister, Built, Spent
        <5>. QED  BY <2>2, <2>3, <2>4, <3>3, <5>1, SpentStays
      <4>. QED  BY <2>2, <3>3, <4>1, <4>2 DEF Effect
    <3>. QED  BY <2>3, <2>5, <3>1, <3>2, <3>3
  <2>6. ASSUME NEW i \in DOMAIN events' \ unoffered', events'[i].payload.command = c.id,
               Named(c.id), NEW k \in DOMAIN exec'.todo
        PROVE  exec'.todo[k] = Raise \/ exec'.todo[k].payload.type # events'[i].payload.type
    <3>0. PICK todo : todo = exec'.todo
      OBVIOUS
    <3>1. k \in DOMAIN rest /\ exec'.todo[k] = rest[k] /\ rest \in Seq(Steps)
      <4>1. rest \in Seq(Steps)
        BY <2>2
      <4>2. todo = rest
        BY <2>2, <2>6, <3>0
      <4>. QED  BY <2>6, <3>0, <4>1, <4>2
    <3>2. CASE i = Len(events) + 1
      <4>1. rest[k] = Raise \/ rest[k].payload.type # e.payload.type
        <5>1. Effect(c, e, new, rest)
          BY <2>2
        <5>. QED  BY <3>1, <5>1, LeftToSay, ZenonT(30)
      <4>. QED  BY <2>3, <3>1, <3>2, <4>1
    <3>3. CASE i \in DOMAIN events
      <4>1. PICK l : l = exec.todo
        OBVIOUS
      <4>2. k + 1 \in DOMAIN l /\ l[k + 1] = rest[k]
        BY <2>2, <3>1, <4>1
      <4>3. l[k + 1] = Raise \/ l[k + 1].payload.type # events[i].payload.type
        BY <2>2, <2>3, <2>6, <3>3, <4>1, <4>2 DEF SaidOnce, NoMore
      <4>. QED  BY <2>3, <3>1, <3>3, <4>2, <4>3
    <3>. QED  BY <2>3, <2>6, <3>2, <3>3
  <2>. QED  BY <2>2, <2>5, <2>6 DEF SaidOnce, NoMore, Named
<1>6. CASE StepQueueFull
  <2>1. PICK e \in BusEvents : Appends(e)
    BY <1>6, Overflowed
  <2>2. /\ exec # Nothing /\ exec.todo # <<>> /\ exec' = Nothing /\ live' = live
        /\ receipts' = receipts /\ unoffered' = unoffered \cup {Len(events) + 1}
    BY <1>6, Overflowed
  <2>3. ASSUME NEW i \in DOMAIN events' \ unoffered', Named(events'[i].payload.command)
        PROVE  \E d \in Handled : d.id = events'[i].payload.command /\ (Answered(d)' \/ Spent(d)')
    <3>1. i \in DOMAIN events \ unoffered /\ events'[i] = events[i]
      BY <2>1, <2>2, <2>3, Longer DEF BusInv
    <3>2. PICK d \in Handled : d.id = events[i].payload.command /\ (Answered(d) \/ Spent(d))
      BY <2>2, <2>3, <3>1 DEF SaidOnce
    <3>3. (Answered(d) => Answered(d)') /\ (Spent(d) => Spent(d)')
      BY <2>2 DEF Answered, Spent, Exists
    <3>. QED  BY <3>1, <3>2, <3>3
  <2>. QED  BY <2>2, <2>3 DEF SaidOnce, Named
<1>7. CASE Finish
  <2>1. /\ exec # Nothing /\ exec' = Nothing /\ UNCHANGED <<events, unoffered, live>>
    BY <1>7 DEF Finish, SaveReceipt, feedVars
  <2>2. ASSUME NEW d \in Handled, Answered(d) \/ d = exec.command PROVE Answered(d)'
    <3>1. d.key \in Keys
      BY Envelope
    <3>. QED  BY <1>7, <2>2, <3>1, Answers DEF Answered
  <2>3. ASSUME NEW d \in Handled, Spent(d) PROVE Spent(d)'
    BY <2>1, <2>3 DEF Spent, Exists
  <2>. QED  BY <2>1, <2>2, <2>3 DEF SaidOnce, Named
<1>. QED  BY <1>1, <1>2, <1>3, <1>4, <1>5, <1>6, <1>7, StepKinds

LEMMA SaidStart == BusInit => SaidOnce /\ SaidBeforeCut
BY DEF BusInit, Init, SaidOnce, SaidBeforeCut

\* What was cut off stays so.
LEMMA CutStays ==
    ASSUME BusInv, NEW e, Appends(e), unoffered \subseteq unoffered'
    PROVE  /\ \A i \in DOMAIN events : CutSince(i) => CutSince(i)'
           /\ (Len(events) + 1 \in unoffered') => \A i \in DOMAIN events' :
                  events'[i].payload.command = exec.command.id => CutSince(i)'
<1>1. /\ Len(events) \in Nat /\ DOMAIN events = 1..Len(events)
      /\ \A n \in DOMAIN events : events'[n] = events[n]
      /\ events'[Len(events) + 1] = e
      /\ DOMAIN events' = 1..(Len(events) + 1)
  BY Longer DEF BusInv
<1>2. e.payload.command = exec.command.id
  BY DEF Appends
<1>3. ASSUME NEW i \in DOMAIN events, CutSince(i) PROVE CutSince(i)'
  <2>1. PICK k \in DOMAIN events \cap unoffered :
            k >= i /\ events[k].payload.command = events[i].payload.command
    BY <1>3 DEF CutSince
  <2>2. k \in DOMAIN events' \cap unoffered'
    BY <1>1, <2>1
  <2>. QED  BY <1>1, <2>1, <2>2 DEF CutSince
<1>4. ASSUME Len(events) + 1 \in unoffered', NEW i \in DOMAIN events',
             events'[i].payload.command = exec.command.id
      PROVE  CutSince(i)'
  <2>1. PICK k : k = Len(events) + 1
    OBVIOUS
  <2>2. k \in DOMAIN events' \cap unoffered' /\ k >= i /\ events'[k].payload.command = events'[i].payload.command
    BY <1>1, <1>2, <1>4, <2>1
  <2>. QED  BY <2>2 DEF CutSince
<1>. QED  BY <1>3, <1>4

LEMMA SaidBeforeCutStep ==
    BusInv /\ BusInv' /\ LockInv /\ SaidBeforeCut /\ [BusNext]_allVars => SaidBeforeCut'
<1>. SUFFICES ASSUME BusInv, BusInv', LockInv, SaidBeforeCut, [BusNext]_allVars PROVE SaidBeforeCut'
  OBVIOUS
<1>1. CASE Still
  BY <1>1 DEF Still, SaidBeforeCut, NoMore, Answered, CutSince
<1>2. ASSUME NEW c \in Handled, Dispatch(c) \/ Refuse(c) PROVE SaidBeforeCut'
  <2>1. /\ exec = Nothing /\ exec'.command = c /\ receipts[c.key] = NoReceipt
        /\ UNCHANGED <<events, unoffered, receipts>>
    BY <1>2 DEF Dispatch, Refuse, Arrives, Unanswered, vars, Running
  <2>2. \A i \in DOMAIN events : CutSince(i)' <=> CutSince(i)
    BY <2>1 DEF CutSince
  <2>3. ASSUME NEW i \in DOMAIN events, events[i].payload.command = c.id PROVE CutSince(i)
    <3>1. SUFFICES ASSUME NEW d \in Handled, d.id = c.id, Answered(d) PROVE FALSE
      BY <2>1, <2>3 DEF SaidBeforeCut
    <3>. QED  BY <2>1, <3>1, SameId DEF Answered, Same
  <2>4. \A d : Answered(d)' <=> Answered(d)
    BY <2>1 DEF Answered
  <2>. QED  BY <2>1, <2>2, <2>3, <2>4 DEF SaidBeforeCut
<1>3. CASE StepRaises \/ StepConflicts
  <2>1. /\ exec # Nothing /\ exec'.todo = <<>> /\ exec'.command = exec.command
        /\ UNCHANGED <<events, unoffered, receipts>> /\ exec' # Nothing
    <3>1. /\ exec # Nothing
          /\ \E status \in Statuses :
                exec' = [command |-> exec.command, todo |-> <<>>, status |-> status]
          /\ UNCHANGED <<events, unoffered, receipts>>
      BY <1>3 DEF StepRaises, StepConflicts, Pending, AppendConflict, vars, Running, Statuses
    <3>2. exec.command \in Handled
      BY <3>1, ExecType DEF BusInv
    <3>3. exec' \in Executions
      BY <3>1, <3>2 DEF Executions
    <3>. QED  BY <3>1, <3>3, NothingAssumption
  <2>2. \A i \in DOMAIN events : CutSince(i)' <=> CutSince(i)
    BY <2>1 DEF CutSince
  <2>3. \A d : Answered(d)' <=> Answered(d)
    BY <2>1 DEF Answered
  <2>4. \A type : NoMore(type)'
    BY <2>1 DEF NoMore
  <2>. QED  BY <2>1, <2>2, <2>3, <2>4 DEF SaidBeforeCut
<1>4. CASE StepStored
  <2>0. PICK c \in Handled, e \in BusEvents : \E new, rest : Outcome(c, e, new, rest)
    BY <1>4, Outcomes
  <2>1. PICK new, rest : Outcome(c, e, new, rest)
    BY <2>0
  <2>2. /\ Appends(e) /\ Effect(c, e, new, rest) /\ c = exec.command /\ exec # Nothing
        /\ exec.todo # <<>> /\ exec.todo \in Seq(Steps) /\ rest = Tail(exec.todo)
        /\ exec' # Nothing /\ exec'.command = c
        /\ exec'.todo = <<>> \/ exec'.todo = rest
        /\ receipts' = receipts /\ unoffered' = unoffered
    BY <2>1 DEF Outcome
  <2>3. /\ \A i \in DOMAIN events : events'[i] = events[i]
        /\ events'[Len(events) + 1] = e
        /\ \A i \in DOMAIN events' : i \in DOMAIN events \/ i = Len(events) + 1
    BY <2>2, Longer DEF BusInv
  <2>4. e.payload.command = c.id
    BY <2>2 DEF Appends
  <2>5. \A i \in DOMAIN events : CutSince(i) => CutSince(i)'
    BY <2>2, CutStays
  <2>6. \A d : Answered(d)' <=> Answered(d)
    BY <2>2 DEF Answered
  <2>7. ASSUME NEW i \in DOMAIN events', events'[i].payload.command = c.id
        PROVE  \/ CutSince(i)'
               \/ \A k \in DOMAIN exec'.todo :
                      exec'.todo[k] = Raise \/ exec'.todo[k].payload.type # events'[i].payload.type
    <3>. SUFFICES ASSUME ~CutSince(i)', NEW k \in DOMAIN exec'.todo
                  PROVE  exec'.todo[k] = Raise \/ exec'.todo[k].payload.type # events'[i].payload.type
      OBVIOUS
    <3>0. PICK todo : todo = exec'.todo
      OBVIOUS
    <3>1. k \in DOMAIN rest /\ exec'.todo[k] = rest[k] /\ rest \in Seq(Steps)
      <4>1. rest \in Seq(Steps)
        BY <2>2
      <4>2. todo = rest
        BY <2>2, <3>0
      <4>. QED  BY <3>0, <4>1, <4>2
    <3>2. CASE i = Len(events) + 1
      <4>1. rest[k] = Raise \/ rest[k].payload.type # e.payload.type
        <5>1. Effect(c, e, new, rest)
          BY <2>2
        <5>. QED  BY <3>1, <5>1, LeftToSay, ZenonT(30)
      <4>. QED  BY <2>3, <3>1, <3>2, <4>1
    <3>3. CASE i \in DOMAIN events
      <4>1. PICK l : l = exec.todo
        OBVIOUS
      <4>2. k + 1 \in DOMAIN l /\ l[k + 1] = rest[k]
        BY <2>2, <3>1, <4>1
      <4>3. NoMore(events[i].payload.type)
        BY <2>2, <2>3, <2>5, <2>7, <3>3 DEF SaidBeforeCut
      <4>4. l[k + 1] = Raise \/ l[k + 1].payload.type # events[i].payload.type
        BY <4>1, <4>2, <4>3 DEF NoMore
      <4>. QED  BY <2>3, <3>1, <3>3, <4>2, <4>4
    <3>. QED  BY <2>3, <3>2, <3>3
  <2>8. ASSUME NEW i \in DOMAIN events'
        PROVE  \/ \E d \in Handled : d.id = events'[i].payload.command /\ Answered(d)'
               \/ exec'.command.id = events'[i].payload.command
               \/ CutSince(i)'
    <3>1. CASE i = Len(events) + 1
      BY <2>2, <2>3, <2>4, <3>1
    <3>2. CASE i \in DOMAIN events
      BY <2>2, <2>3, <2>5, <2>6, <3>2 DEF SaidBeforeCut
    <3>. QED  BY <2>3, <3>1, <3>2
  <2>. QED  BY <2>2, <2>7, <2>8 DEF SaidBeforeCut, NoMore
<1>5. CASE StepQueueFull
  <2>1. PICK e \in BusEvents : Appends(e)
    BY <1>5, Overflowed
  <2>2. /\ exec # Nothing /\ exec' = Nothing
        /\ receipts' = receipts /\ unoffered' = unoffered \cup {Len(events) + 1}
    BY <1>5, Overflowed
  <2>3. /\ \A i \in DOMAIN events : events'[i] = events[i]
        /\ events'[Len(events) + 1] = e
        /\ \A i \in DOMAIN events' : i \in DOMAIN events \/ i = Len(events) + 1
    BY <2>1, Longer DEF BusInv
  <2>4. e.payload.command = exec.command.id
    BY <2>1 DEF Appends
  <2>5. /\ \A i \in DOMAIN events : CutSince(i) => CutSince(i)'
        /\ \A i \in DOMAIN events' : events'[i].payload.command = exec.command.id => CutSince(i)'
    BY <2>1, <2>2, CutStays
  <2>6. \A d : Answered(d)' <=> Answered(d)
    BY <2>2 DEF Answered
  <2>7. ASSUME NEW i \in DOMAIN events'
        PROVE  \/ \E d \in Handled : d.id = events'[i].payload.command /\ Answered(d)'
               \/ CutSince(i)'
    <3>1. CASE i = Len(events) + 1
      BY <2>3, <2>4, <2>5, <3>1
    <3>2. CASE i \in DOMAIN events
      BY <2>3, <2>5, <2>6, <3>2 DEF SaidBeforeCut
    <3>. QED  BY <2>3, <3>1, <3>2
  <2>. QED  BY <2>2, <2>7 DEF SaidBeforeCut
<1>6. CASE Finish
  <2>1. /\ exec # Nothing /\ exec' = Nothing /\ UNCHANGED <<events, unoffered>>
    BY <1>6 DEF Finish, SaveReceipt, feedVars
  <2>2. ASSUME NEW d \in Handled, Answered(d) \/ d = exec.command PROVE Answered(d)'
    <3>1. d.key \in Keys
      BY Envelope
    <3>. QED  BY <1>6, <2>2, <3>1, Answers DEF Answered
  <2>3. \A i \in DOMAIN events : CutSince(i)' <=> CutSince(i)
    BY <2>1 DEF CutSince
  <2>4. exec.command \in Handled
    BY <1>6, Answers
  <2>. QED  BY <2>1, <2>2, <2>3, <2>4 DEF SaidBeforeCut
<1>. QED  BY <1>1, <1>2, <1>3, <1>4, <1>5, <1>6, StepKinds

\* The event of an append has not been said before, unless the command was cut off since.
LEMMA SaysOnce ==
    ASSUME BusInv, SaidOnce, SaidBeforeCut, DuplicatesFollowOverflow, NEW e, Appends(e), Pending,
           exec # Nothing, unoffered \subseteq unoffered'
    PROVE  DuplicatesFollowOverflow'
<1>1. /\ Len(events) \in Nat /\ DOMAIN events = 1..Len(events)
      /\ \A n \in DOMAIN events : events'[n] = events[n] /\ events[n].sequence = n
      /\ events'[Len(events) + 1] = e
      /\ DOMAIN events' = 1..(Len(events) + 1)
  BY Longer DEF BusInv, Typed
<1>. SUFFICES ASSUME NEW i \in DOMAIN events', NEW j \in DOMAIN events', i < j,
                     events'[i].payload.command = events'[j].payload.command,
                     events'[i].payload.type = events'[j].payload.type
              PROVE  /\ \E k \in i..(j - 1) :
                            /\ events'[k].payload.command = events'[i].payload.command
                            /\ events'[k].sequence \in unoffered'
                     /\ Named(events'[i].payload.command) => events'[i].sequence \in unoffered'
  BY DEF DuplicatesFollowOverflow, Named
<1>2. i \in DOMAIN events /\ events'[i] = events[i] /\ events[i].sequence = i
  BY <1>1
<1>3. CASE j \in DOMAIN events
  <2>1. PICK k \in i..(j - 1) : /\ events[k].payload.command = events[i].payload.command
                                /\ events[k].sequence \in unoffered
    BY <1>1, <1>2, <1>3 DEF DuplicatesFollowOverflow
  <2>2. k \in DOMAIN events
    BY <1>1, <1>3, <2>1
  <2>3. Named(events[i].payload.command) => events[i].sequence \in unoffered
    BY <1>1, <1>2, <1>3 DEF DuplicatesFollowOverflow, Named
  <2>. QED  BY <1>1, <1>2, <2>1, <2>2, <2>3
<1>4. CASE j = Len(events) + 1
  <2>1. e.payload.command = exec.command.id /\ e.payload = Todo.payload
    BY DEF Appends
  <2>2. Todo = exec.todo[1] /\ 1 \in DOMAIN exec.todo /\ Todo # Raise
    BY TodoType, ExecType DEF Pending, BusInv
  <2>3. ~NoMore(events[i].payload.type) /\ events[i].payload.command = exec.command.id
    BY <1>1, <1>2, <1>4, <2>1, <2>2 DEF NoMore
  <2>4. Named(events[i].payload.command) => i \in unoffered
    BY <1>2, <2>3 DEF SaidOnce
  <2>5. CutSince(i)
    BY <1>2, <2>3 DEF SaidBeforeCut
  <2>6. PICK k \in DOMAIN events \cap unoffered :
            k >= i /\ events[k].payload.command = events[i].payload.command
    BY <2>5 DEF CutSince
  <2>7. k \in i..(j - 1) /\ events'[k] = events[k] /\ events[k].sequence = k
    BY <1>1, <1>2, <1>4, <2>6
  <2>. QED  BY <1>2, <2>4, <2>6, <2>7
<1>. QED  BY <1>1, <1>3, <1>4

LEMMA DuplicatesStep ==
    BusInv /\ SaidOnce /\ SaidBeforeCut /\ DuplicatesFollowOverflow /\ [BusNext]_allVars
        => DuplicatesFollowOverflow'
<1>. SUFFICES ASSUME BusInv, SaidOnce, SaidBeforeCut, DuplicatesFollowOverflow, [BusNext]_allVars
              PROVE  DuplicatesFollowOverflow'
  OBVIOUS
<1>1. CASE UNCHANGED <<events, unoffered>>
  BY <1>1 DEF DuplicatesFollowOverflow
<1>2. CASE StepStored
  <2>1. PICK e \in BusEvents : Appends(e)
    BY <1>2, Stored
  <2>. QED  BY <1>2, <2>1, Stored, SaysOnce DEF StepStored
<1>3. CASE StepQueueFull
  <2>1. PICK e \in BusEvents : Appends(e)
    BY <1>3, Overflowed
  <2>. QED  BY <1>3, <2>1, Overflowed, SaysOnce DEF StepQueueFull
<1>4. CASE \/ Still
           \/ \E c \in Handled : Dispatch(c) \/ Refuse(c)
           \/ StepRaises \/ StepConflicts \/ Finish
  BY <1>1, <1>4 DEF Still, Dispatch, Refuse, StepRaises, StepConflicts, AppendConflict, Finish,
                    SaveReceipt, feedVars, vars
<1>. QED  BY <1>2, <1>3, <1>4, StepKinds

LEMMA DuplicatesStart == BusInit => DuplicatesFollowOverflow
BY DEF BusInit, Init, DuplicatesFollowOverflow

\* A command says the same thing twice only if an append of its own raised QueueFull in
\* between, whether its client names the ids of what it creates or leaves them to new_id:
\* until then a command with events is in the lock or answered.  If the client names every
\* id, the append that raised is that of the first copy: what was appended and offered
\* belongs to a command that is answered, or is refused whenever it is sent again.
THEOREM OnlyOverflowRepeats == BusSpec => []DuplicatesFollowOverflow
BY SaidStart, SaidStep, SaidBeforeCutStep, DuplicatesStart, DuplicatesStep, BusInvariant, LockedUnanswered, PTL
   DEF BusSpec

-----------------------------------------------------------------------------
(* Refusals: what a command that is refused leaves behind *)

\* The two rejections that come after an append.
Excused(e, status, c) ==
    /\ status = "rejected"
    /\ \/ BadSeed(e)
       \/ /\ e.payload.type \in {"ActorCreated", "ActorRegistered"}
          /\ c.type = "InstantiateEncounterTemplate"

\* As long as nothing was cut off, an encounter's stream is begun with its projection; a
\* command with events is answered or in the lock, and in the middle of its plan it has
\* no events but those of its actor.
Traces == unoffered = {} =>
    /\ \A s \in Encounters : ~Exists(s) => streams[s] = <<>>
    /\ \A i \in DOMAIN events : \E c \in Handled :
           /\ c.id = events[i].payload.command
           /\ Answered(c) \/ (exec # Nothing /\ exec.command.id = c.id)
    /\ exec # Nothing => \A i \in DOMAIN events : events[i].payload.command = exec.command.id =>
           /\ exec.todo # <<>> => /\ Spent(exec.command)
                                  /\ events[i].payload.type \in {"ActorCreated", "ActorRegistered"}
           /\ exec.status # "accepted" => Excused(events[i], exec.status, exec.command)
    /\ \A c \in Handled, i \in DOMAIN events :
           (/\ events[i].payload.command = c.id
            /\ receipts[c.key] # NoReceipt /\ receipts[c.key].command = c.id
            /\ receipts[c.key].status # "accepted") => Excused(events[i], receipts[c.key].status, c)

\* A receipt names the command that got it.
ReceiptsKnown == \A k \in Keys : receipts[k] # NoReceipt =>
    \E c \in Handled : c.key = k /\ receipts[k].command = c.id

\* Only the encounter of a template can make a handler raise after an append.
LEMMA RaisesLate ==
    ASSUME BusInv, exec # Nothing, exec.todo # <<>>, Todo = Raise
    PROVE  exec.command.type = "InstantiateEncounterTemplate"
<1>1. exec.command \in Handled /\ Stage(exec.command) /\ exec.todo \in Seq(Steps)
  BY ExecType DEF BusInv, Staged
<1>2. \A s, v, p : Step(s, v, p) # Raise
  BY DEF Step, Raise
<1>3. ASSUME NEW x, exec.todo = <<x>> PROVE x = Raise
  BY <1>3, OneLeft DEF Todo
<1>4. ~Creating(exec.command) /\ ~Rolling(exec.command) /\ ~Drafting(exec.command)
      /\ \A type : ~Choosing(exec.command, type)
  BY <1>2, <1>3 DEF Creating, Rolling, Drafting, Choosing
<1>5. ~ToRegister(exec.command)
  BY <1>2 DEF ToRegister, Register
<1>6. ~ToBuild(exec.command)
  BY <1>1, <1>2 DEF ToBuild, Build, Todo
<1>7. ToEnd(exec.command)
  BY <1>1, <1>4, <1>5, <1>6 DEF Stage
<1>8. exec.todo # <<Finalize(exec.command)>>
  BY <1>2, <1>3 DEF Finalize
<1>. QED  BY <1>1, <1>7, <1>8 DEF ToEnd, Ends

\* A command that has created its actor meets no version conflict.
LEMMA NoLateConflict ==
    ASSUME BusInv, Pending, Spent(exec.command),
           \A s \in Encounters : ~Exists(s) => streams[s] = <<>>
    PROVE  TodoVersion = CurrentVersion(Todo.stream)
<1>. DEFINE c == exec.command
<1>1. c \in Handled /\ Stage(c) /\ exec.todo \in Seq(Steps)
  BY ExecType DEF BusInv, Staged, Pending
<1>2. ASSUME NEW s, NEW p, Todo = Step(s, Nothing, p) PROVE TodoVersion = CurrentVersion(Todo.stream)
  BY <1>2 DEF TodoVersion, Step
<1>3. ASSUME NEW x, exec.todo = <<x>> PROVE Todo = x
  BY <1>3, OneLeft DEF Todo
<1>4. ToRegister(c) \/ ToEnd(c)
  BY <1>1 DEF Stage, Spent, Builders, Creating, Rolling, Drafting, ToBuild
<1>5. CASE ToRegister(c)
  BY <1>2, <1>5 DEF ToRegister, Register
<1>6. CASE ToEnd(c)
  <2>1. CASE exec.todo = <<Finalize(c)>>
    BY <1>2, <1>3, <2>1 DEF Finalize
  <2>2. CASE exec.todo = <<Engage(c)>> /\ ~Exists(c.encounter)
             /\ c.type = "InstantiateEncounterTemplate"
    <3>1. Todo = Engage(c)
      BY <1>3, <2>2
    <3>2. Todo.expected = 0 /\ Todo.stream = c.encounter
      BY <3>1 DEF Engage, Step
    <3>3. c.encounter \in Encounters
      BY <1>1, <2>2, Envelope
    <3>4. CurrentVersion(Todo.stream) = 0
      BY <2>2, <3>2, <3>3 DEF CurrentVersion
    <3>5. Todo.expected # Nothing => TodoVersion = 0
      BY <3>2 DEF TodoVersion
    <3>6. Todo.expected = Nothing => TodoVersion = CurrentVersion(Todo.stream)
      BY DEF TodoVersion
    <3>. QED  BY <3>4, <3>5, <3>6
  <2>3. exec.todo # <<Raise>>
    BY <1>3 DEF Pending
  <2>. QED  BY <1>1, <1>6, <2>1, <2>2, <2>3 DEF ToEnd, Ends, Pending
<1>. QED  BY <1>4, <1>5, <1>6

\* A step that stores nothing, answers nothing and after which the command in the lock,
\* if its events are not excused, is still accepted.
LEMMA TracedBefore ==
    ASSUME Traces, unoffered = {},
           UNCHANGED <<events, streams, unoffered, live, receipts>>, exec' # Nothing,
           \/ exec'.todo = <<>>
           \/ \A i \in DOMAIN events : events[i].payload.command # exec'.command.id,
           exec # Nothing => exec'.command = exec.command,
           exec'.status # "accepted" => \A i \in DOMAIN events :
               events[i].payload.command = exec'.command.id
                   => Excused(events[i], exec'.status, exec'.command)
    PROVE  Traces'
<1>1. \A c : (Answered(c)' <=> Answered(c)) /\ (Exists(c)' <=> Exists(c))
  BY DEF Answered, Exists
<1>2. \A i \in DOMAIN events : \E c \in Handled :
           /\ c.id = events[i].payload.command
           /\ Answered(c)' \/ (exec' # Nothing /\ exec'.command.id = c.id)
  BY <1>1 DEF Traces
<1>. QED  BY <1>1, <1>2 DEF Traces

LEMMA TracesStep ==
    BusInv /\ BusInv' /\ LockInv /\ Traces /\ [BusNext]_allVars => Traces'
<1>. SUFFICES ASSUME BusInv, BusInv', LockInv, Traces, [BusNext]_allVars, unoffered' = {}
              PROVE  Traces'
  BY DEF Traces
<1>1. CASE Still
  BY <1>1 DEF Still, Traces, Answered, Spent, Exists
<1>2. ASSUME NEW c \in Handled, Dispatch(c) \/ Refuse(c) PROVE Traces'
  <2>1. /\ exec = Nothing /\ exec'.command = c /\ receipts[c.key] = NoReceipt
        /\ UNCHANGED <<events, streams, unoffered, live, receipts>>
    BY <1>2 DEF Dispatch, Refuse, Arrives, Unanswered, vars, Running
  <2>2. exec' # Nothing
    <3>1. CASE Dispatch(c)
      BY <3>1, NothingAssumption, Dispatched
    <3>2. CASE Refuse(c)
      <4>1. exec' = [command |-> c, todo |-> <<>>, status |-> Verdict(c)] /\ Verdict(c) \in Statuses
        BY <3>2 DEF Refuse, Running, Verdict, Statuses
      <4>2. exec' \in Executions
        BY <4>1 DEF Executions
      <4>. QED  BY <4>2, NothingAssumption
    <3>. QED  BY <1>2, <3>1, <3>2
  <2>3. ASSUME NEW i \in DOMAIN events PROVE events[i].payload.command # c.id
    <3>1. PICK d \in Handled : d.id = events[i].payload.command /\ Answered(d)
      BY <2>1 DEF Traces
    <3>. QED  BY <2>1, <3>1, SameId DEF Answered, Same
  <2>. QED  BY <2>1, <2>2, <2>3, TracedBefore
<1>3. CASE StepRaises \/ StepConflicts
  <2>1. /\ exec # Nothing /\ exec.todo # <<>> /\ exec'.todo = <<>> /\ exec'.command = exec.command
        /\ UNCHANGED <<events, streams, unoffered, live, receipts>>
        /\ \E status \in Statuses :
              exec' = [command |-> exec.command, todo |-> <<>>, status |-> status]
    BY <1>3 DEF StepRaises, StepConflicts, Pending, AppendConflict, vars, Running, Statuses
  <2>2. exec.command \in Handled
    BY <2>1, ExecType DEF BusInv
  <2>3. exec' # Nothing
    <3>1. exec' \in Executions
      BY <2>1, <2>2 DEF Executions
    <3>. QED  BY <3>1, NothingAssumption
  <2>4. ASSUME NEW i \in DOMAIN events, events[i].payload.command = exec.command.id
        PROVE  Excused(events[i], exec'.status, exec.command)
    <3>1. Spent(exec.command) /\ events[i].payload.type \in {"ActorCreated", "ActorRegistered"}
      BY <2>1, <2>4 DEF Traces
    <3>2. CASE StepRaises
      <4>1. exec.command.type = "InstantiateEncounterTemplate"
        BY <2>1, <3>2, RaisesLate DEF StepRaises
      <4>2. exec'.status = "rejected"
        BY <3>2 DEF StepRaises, Running
      <4>. QED  BY <3>1, <4>1, <4>2 DEF Excused
    <3>3. CASE StepConflicts
      <4>1. Pending /\ TodoVersion # CurrentVersion(Todo.stream)
        BY <3>3 DEF StepConflicts, AppendConflict
      <4>2. \A s \in Encounters : ~Exists(s) => streams[s] = <<>>
        BY <2>1 DEF Traces
      <4>. QED  BY <3>1, <4>1, <4>2, NoLateConflict
    <3>. QED  BY <1>3, <3>2, <3>3
  <2>. QED  BY <2>1, <2>3, <2>4, TracedBefore
<1>4. CASE StepStored
  <2>0. PICK c \in Handled, e \in BusEvents : \E new, rest : Outcome(c, e, new, rest)
    BY <1>4, Outcomes
  <2>1. PICK new, rest : Outcome(c, e, new, rest)
    BY <2>0
  <2>2. /\ Appends(e) /\ Effect(c, e, new, rest) /\ c = exec.command /\ exec # Nothing
        /\ exec.todo # <<>> /\ exec' # Nothing /\ exec'.command = c
        /\ new = Invalid => exec'.todo = <<>> /\ exec'.status = "rejected"
        /\ new # Invalid => exec'.todo = rest /\ exec'.status = "accepted"
        /\ receipts' = receipts /\ unoffered' = unoffered /\ e.stream \in Streams
        /\ \A s \in Streams : Exists(s) => Exists(s)'
        /\ new # Invalid => Exists(e.stream)'
        /\ new = Invalid => BadSeed(e) /\ Opened(c, e, new)
    BY <2>1 DEF Outcome
  <2>3. /\ \A i \in DOMAIN events : events'[i] = events[i]
        /\ events'[Len(events) + 1] = e
        /\ \A i \in DOMAIN events' : i \in DOMAIN events \/ i = Len(events) + 1
    BY <2>2, Longer DEF BusInv
  <2>4. /\ e.payload.command = c.id
        /\ streams' = [streams EXCEPT ![e.stream] = Append(streams[e.stream], e)]
    BY <2>2 DEF Appends
  <2>5. \A i \in DOMAIN events : events[i].payload.command = c.id =>
            Spent(c) /\ events[i].payload.type \in {"ActorCreated", "ActorRegistered"}
    BY <2>2 DEF Traces
  <2>6. ASSUME NEW s \in Encounters, ~Exists(s)' PROVE streams'[s] = <<>>
    <3>1. s \in Streams /\ s \notin Campaigns /\ s \notin Actors /\ s \notin Creations
      BY KindsApart
    <3>2. ~Exists(s) /\ streams[s] = <<>>
      BY <2>2, <2>6, <3>1 DEF Traces
    <3>3. e.stream # s
      <4>1. e.stream = s => new # Invalid
        BY <2>2, <3>1, Envelope DEF Opened
      <4>. QED  BY <2>2, <2>6, <4>1
    <3>. QED  BY <2>4, <3>1, <3>2, <3>3 DEF BusInv, Typed
  <2>7. ASSUME NEW i \in DOMAIN events'
        PROVE  \E d \in Handled : d.id = events'[i].payload.command
                   /\ (Answered(d)' \/ (exec' # Nothing /\ exec'.command.id = d.id))
    <3>1. CASE i \in DOMAIN events
      <4>1. PICK d \in Handled : /\ d.id = events[i].payload.command
                                 /\ Answered(d) \/ exec.command.id = d.id
        BY <2>2, <3>1 DEF Traces
      <4>2. Answered(d) => Answered(d)'
        BY <2>2 DEF Answered
      <4>. QED  BY <2>2, <2>3, <3>1, <4>1, <4>2
    <3>2. CASE i = Len(events) + 1
      BY <2>2, <2>3, <2>4, <3>2
    <3>. QED  BY <2>3, <3>1, <3>2
  <2>8. ASSUME NEW i \in DOMAIN events', events'[i].payload.command = c.id, exec'.todo # <<>>
        PROVE  Spent(c)' /\ events'[i].payload.type \in {"ActorCreated", "ActorRegistered"}
    <3>1. BuiltNow(c, e, new, rest) \/ Registered(c, e, new, rest)
      BY <2>2, <2>8 DEF Effect
    <3>2. e.payload.type \in {"ActorCreated", "ActorRegistered"}
      BY <3>1 DEF BuiltNow, Registered
    <3>3. Spent(c)'
      <4>1. CASE BuiltNow(c, e, new, rest)
        BY <2>2, <2>8, <4>1 DEF BuiltNow, ToBuild, Spent, ActorOf
      <4>2. CASE Registered(c, e, new, rest)
        <5>1. Spent(c)
          BY <4>2 DEF Registered, ToRegister, Built, Spent
        <5>. QED  BY <2>2, <5>1, SpentStays
      <4>. QED  BY <3>1, <4>1, <4>2
    <3>. QED  BY <2>3, <2>5, <2>8, <3>2, <3>3
  <2>9. ASSUME NEW i \in DOMAIN events', events'[i].payload.command = c.id,
               exec'.status # "accepted"
        PROVE  Excused(events'[i], exec'.status, c)
    <3>1. exec'.status = "rejected" /\ BadSeed(e) /\ ~Spent(c)
      BY <2>2, <2>9 DEF Opened, Creating, Spent, Builders
    <3>2. i \notin DOMAIN events
      BY <2>3, <2>5, <2>9, <3>1
    <3>. QED  BY <2>3, <3>1, <3>2 DEF Excused
  <2>10. ASSUME NEW d \in Handled, NEW i \in DOMAIN events', events'[i].payload.command = d.id,
                receipts[d.key] # NoReceipt, receipts[d.key].command = d.id,
                receipts[d.key].status # "accepted"
         PROVE  Excused(events'[i], receipts[d.key].status, d)
    <3>1. receipts[c.key] = NoReceipt
      BY <2>2 DEF LockInv, Locked
    <3>2. i # Len(events) + 1
      BY <2>3, <2>4, <2>10, <3>1, SameId DEF Same
    <3>. QED  BY <2>2, <2>3, <2>10, <3>2 DEF Traces
  <2>11. \A d \in Handled, i \in DOMAIN events' :
           (/\ events'[i].payload.command = d.id
            /\ receipts'[d.key] # NoReceipt /\ receipts'[d.key].command = d.id
            /\ receipts'[d.key].status # "accepted") => Excused(events'[i], receipts'[d.key].status, d)
    BY <2>2, <2>10
  <2>. QED  BY <2>2, <2>6, <2>7, <2>8, <2>9, <2>11 DEF Traces
<1>5. CASE StepQueueFull
  BY <1>5, Overflowed
<1>6. CASE Finish
  <2>1. /\ exec # Nothing /\ exec' = Nothing /\ UNCHANGED <<events, streams, unoffered, live>>
    BY <1>6 DEF Finish, SaveReceipt, feedVars
  <2>2. /\ receipts'[exec.command.key] = [command |-> exec.command.id, status |-> exec.status]
        /\ receipts'[exec.command.key] # NoReceipt
        /\ \A k \in Keys \ {exec.command.key} : receipts'[k] = receipts[k]
        /\ exec.command \in Handled
    BY <1>6, Answers
  <2>3. ASSUME NEW d \in Handled, Answered(d) \/ d.id = exec.command.id PROVE Answered(d)'
    <3>1. d.key \in Keys
      BY Envelope
    <3>2. d.id = exec.command.id => d.key = exec.command.key
      BY <2>2, SameId DEF Same
    <3>. QED  BY <2>2, <2>3, <3>1, <3>2 DEF Answered
  <2>4. ASSUME NEW d \in Handled, NEW i \in DOMAIN events, events[i].payload.command = d.id,
               receipts'[d.key] # NoReceipt, receipts'[d.key].command = d.id,
               receipts'[d.key].status # "accepted"
        PROVE  Excused(events[i], receipts'[d.key].status, d)
    <3>1. d.key \in Keys
      BY Envelope
    <3>2. CASE d.key = exec.command.key
      <4>1. d.id = exec.command.id /\ receipts'[d.key].status = exec.status
        BY <2>2, <2>4, <3>2
      <4>2. d.type = exec.command.type
        BY <2>2, <4>1, SameId DEF Same
      <4>3. Excused(events[i], exec.status, exec.command)
        BY <2>1, <2>4, <4>1 DEF Traces
      <4>. QED  BY <4>1, <4>2, <4>3 DEF Excused
    <3>3. CASE d.key # exec.command.key
      BY <2>1, <2>2, <2>4, <3>1, <3>3 DEF Traces
    <3>. QED  BY <3>2, <3>3
  <2>5. \A s : Exists(s)' <=> Exists(s)
    BY <2>1 DEF Exists
  <2>6. \A i \in DOMAIN events : \E d \in Handled :
            d.id = events[i].payload.command /\ Answered(d)'
    BY <2>1, <2>3 DEF Traces
  <2>. QED  BY <2>1, <2>4, <2>5, <2>6 DEF Traces
<1>. QED  BY <1>1, <1>2, <1>3, <1>4, <1>5, <1>6, StepKinds

LEMMA TracesStart == BusInit => Traces
BY KindsApart DEF BusInit, Init, Traces

LEMMA ReceiptsStep == BusInv /\ LockInv /\ ReceiptsKnown /\ [BusNext]_allVars => ReceiptsKnown'
<1>. SUFFICES ASSUME BusInv, LockInv, ReceiptsKnown, [BusNext]_allVars PROVE ReceiptsKnown'
  OBVIOUS
<1>1. CASE UNCHANGED receipts
  BY <1>1 DEF ReceiptsKnown
<1>2. CASE Finish
  <2>. SUFFICES ASSUME NEW k \in Keys, receipts'[k] # NoReceipt
                PROVE  \E c \in Handled : c.key = k /\ receipts'[k].command = c.id
    BY DEF ReceiptsKnown
  <2>1. CASE k = exec.command.key
    BY <1>2, <2>1, Answers
  <2>2. CASE k # exec.command.key
    BY <1>2, <2>2, Answers DEF ReceiptsKnown
  <2>. QED  BY <2>1, <2>2
<1>. QED  BY <1>1, <1>2, SameReceipts

LEMMA ReceiptsStart == BusInit => ReceiptsKnown
BY DEF BusInit, Init, ReceiptsKnown

\* While no append has raised QueueFull, a command answered with a rejection or a conflict
\* has left nothing in the history, but for a creation event its own reducer refuses and
\* the enemy of a template whose encounter was refused: no other check comes after an
\* append, and no append after the first can meet a conflict.
THEOREM RefusalsTraceless == BusSpec => []RefusalsLeaveNoTrace
<1>1. Traces /\ ReceiptsKnown => RefusalsLeaveNoTrace
  <2>. SUFFICES ASSUME Traces, ReceiptsKnown, Idle, unoffered = {},
                       NEW k \in Keys, receipts[k] # NoReceipt, receipts[k].status # "accepted",
                       NEW i \in DOMAIN events, events[i].payload.command = receipts[k].command
                PROVE  /\ receipts[k].status = "rejected"
                       /\ \/ BadSeed(events[i])
                          \/ /\ events[i].payload.type \in {"ActorCreated", "ActorRegistered"}
                             /\ \E c \in Commands : /\ c.id = receipts[k].command
                                                   /\ c.type = "InstantiateEncounterTemplate"
    BY DEF RefusalsLeaveNoTrace
  <2>1. PICK c \in Handled : c.key = k /\ receipts[k].command = c.id
    BY DEF ReceiptsKnown
  <2>2. Excused(events[i], receipts[k].status, c)
    BY <2>1 DEF Traces
  <2>3. PICK b \in Commands : b.id = c.id /\ b.type = c.type
    BY Sent DEF Same
  <2>. QED  BY <2>1, <2>2, <2>3 DEF Excused
<1>. QED  BY <1>1, TracesStart, TracesStep, ReceiptsStart, ReceiptsStep, BusInvariant,
             LockedUnanswered, PTL DEF BusSpec

-----------------------------------------------------------------------------
(* Where events are, and how aggregates refer to each other *)

\* The events of a campaign are its own; only a campaign is begun by CampaignCreated; and
\* as long as nothing was cut off an aggregate with events exists, in the campaign they name.
PlacedAt(e) ==
    /\ e.stream \in Streams /\ e.payload.campaign \in Campaigns
    /\ e.stream \in Campaigns => e.payload.campaign = e.stream
    /\ e.stream \notin Campaigns => e.payload.type # "CampaignCreated"
Placed ==
    /\ \A n \in DOMAIN events : PlacedAt(events[n])
    /\ unoffered = {} => \A n \in DOMAIN events : events[n].stream \notin Campaigns =>
           /\ Exists(events[n].stream)
           /\ live[events[n].stream].campaign = events[n].payload.campaign

LEMMA EffectPlaced ==
    ASSUME NEW c \in Handled, NEW e \in BusEvents, NEW new, NEW rest,
           Effect(c, e, new, rest), e.payload.command = c.id
    PROVE  PlacedAt(e)
<1>1. e.stream \in Streams /\ e.payload.campaign \in Campaigns
  BY DEF BusEvents, EventPayloads
<1>2. c.campaign \in Campaigns
  BY Envelope
<1>3. CASE Opened(c, e, new) \/ RolledNow(c, e, new)
  BY <1>1, <1>2, <1>3 DEF Opened, RolledNow, PlacedAt
<1>4. CASE Drafted(c, e, new) \/ Chosen(c, e, new)
  BY <1>1, <1>4, KindsApart DEF Drafted, Chosen, PlacedAt
<1>5. CASE Finalized(c, e, new) \/ Engaged(c, e, new)
  BY <1>1, <1>5, KindsApart DEF Finalized, Engaged, PlacedAt
<1>6. CASE BuiltNow(c, e, new, rest)
  BY <1>1, <1>2, <1>6, KindsApart DEF BuiltNow, PlacedAt
<1>7. CASE Registered(c, e, new, rest)
  BY <1>1, <1>7 DEF Registered, PlacedAt, ToRegister, Ready
<1>. QED  BY <1>3, <1>4, <1>5, <1>6, <1>7 DEF Effect

\* What a stored event does to the projections that exist: an actor and an encounter are
\* for good, a session is once it is finalized, nothing leaves its campaign, and a campaign
\* only gains the actor that is being registered.
LEMMA Lasting ==
    ASSUME BusInv, NEW c \in Handled, NEW e \in BusEvents, NEW new, NEW rest,
           Outcome(c, e, new, rest)
    PROVE  /\ \A a \in Actors \cup Encounters : Exists(a) => Exists(a)' /\ live'[a] = live[a]
           /\ \A s \in Creations : Exists(s) /\ live[s].status = "finalized" =>
                  Exists(s)' /\ live'[s] = live[s]
           /\ \A s \in Streams \ Campaigns : Exists(s) => live'[s].campaign = live[s].campaign
           /\ \A k \in Campaigns : Exists(k) =>
                  Exists(k)' /\ live[k].actor_ids \subseteq live'[k].actor_ids
           /\ \A k \in Campaigns : Exists(k)' => \A a \in live'[k].actor_ids :
                  \/ Exists(k) /\ a \in live[k].actor_ids
                  \/ Registered(c, e, new, rest) /\ k = e.stream /\ a = ActorOf(c)
<1>1. /\ e.stream \in Streams /\ Effect(c, e, new, rest)
      /\ \A s \in Streams \ {e.stream} : live'[s] = live[s]
      /\ \A s \in Streams : Exists(s) => Exists(s)'
      /\ new # Invalid => live'[e.stream] = new
      /\ new = Invalid => live' = live
  BY DEF Outcome
<1>2. CASE live' = live
  BY <1>2, KindsApart DEF Exists
<1>3. CASE live' # live
  <2>1. live'[e.stream] = new /\ new # Invalid
    BY <1>1, <1>3
  <2>2. ASSUME e.stream \in Actors \cup Encounters PROVE ~Exists(e.stream)
    <3>1. BuiltNow(c, e, new, rest) \/ Engaged(c, e, new)
      BY <1>1, <2>2, KindsApart, Envelope DEF Effect, Opened, RolledNow, Drafted, Chosen, Finalized,
                                              Registered, ToRegister, Ready
    <3>. QED  BY <3>1 DEF BuiltNow, ToBuild, Engaged
  <2>3. ASSUME e.stream \in Creations, Exists(e.stream)
        PROVE  live[e.stream].status = "draft" /\ new.campaign = live[e.stream].campaign
    <3>1. Chosen(c, e, new) \/ Finalized(c, e, new)
      BY <1>1, <2>3, KindsApart, Envelope DEF Effect, Opened, RolledNow, Drafted, Drafting, Engaged,
                                              BuiltNow, Registered, ToRegister, Ready
    <3>. QED  BY <3>1 DEF Chosen, Finalized, ToEnd, Ready
  <2>4. ASSUME e.stream \in Campaigns
        PROVE  \/ ~Exists(e.stream) /\ new.actor_ids = {}
               \/ new.actor_ids = live[e.stream].actor_ids /\ Exists(e.stream)
               \/ /\ Registered(c, e, new, rest) /\ Exists(e.stream)
                  /\ new.actor_ids = live[e.stream].actor_ids \cup {ActorOf(c)}
    <3>1. Opened(c, e, new) \/ RolledNow(c, e, new) \/ Registered(c, e, new, rest)
      BY <1>1, <2>4, KindsApart, Envelope DEF Effect, Drafted, Chosen, Finalized, Engaged, BuiltNow
    <3>. QED  BY <2>1, <3>1 DEF Opened, Creating, RolledNow, Rolling, Registered, ToRegister, Ready
  <2>5. \A a \in Actors \cup Encounters : Exists(a) => Exists(a)' /\ live'[a] = live[a]
    BY <1>1, <2>2, KindsApart
  <2>6. \A s \in Creations : Exists(s) /\ live[s].status = "finalized" =>
            Exists(s)' /\ live'[s] = live[s]
    BY <1>1, <2>3, KindsApart
  <2>7. \A s \in Streams \ Campaigns : Exists(s) => live'[s].campaign = live[s].campaign
    <3>. SUFFICES ASSUME NEW s \in Streams \ Campaigns, Exists(s)
                  PROVE  live'[s].campaign = live[s].campaign
      OBVIOUS
    <3>1. s \in Actors \cup Encounters \/ s \in Creations
      BY StreamsAssumption
    <3>. QED  BY <1>1, <2>1, <2>3, <2>5, <3>1
  <2>8. \A k \in Campaigns : Exists(k) =>
            Exists(k)' /\ live[k].actor_ids \subseteq live'[k].actor_ids
    BY <1>1, <2>1, <2>4, KindsApart
  <2>9. ASSUME NEW k \in Campaigns, Exists(k)', NEW a \in live'[k].actor_ids
        PROVE  \/ Exists(k) /\ a \in live[k].actor_ids
               \/ Registered(c, e, new, rest) /\ k = e.stream /\ a = ActorOf(c)
    <3>1. CASE k = e.stream
      BY <2>1, <2>4, <2>9, <3>1
    <3>2. CASE k # e.stream
      <4>1. live'[k] = live[k]
        BY <1>1, <3>2, KindsApart
      <4>. QED  BY <2>9, <4>1 DEF Exists
    <3>. QED  BY <3>1, <3>2
  <2>. QED  BY <2>5, <2>6, <2>7, <2>8, <2>9
<1>. QED  BY <1>2, <1>3

LEMMA PlacedStep == BusInv /\ BusInv' /\ Placed /\ [BusNext]_allVars => Placed'
<1>. SUFFICES ASSUME BusInv, BusInv', Placed, [BusNext]_allVars PROVE Placed'
  OBVIOUS
<1>0. ASSUME NEW e PROVE PlacedAt(e)' <=> PlacedAt(e)
  BY DEF PlacedAt
<1>1. CASE UNCHANGED <<events, unoffered, live>>
  BY <1>0, <1>1 DEF Placed, Exists
<1>2. ASSUME NEW c \in Handled, NEW e \in BusEvents, NEW new, NEW rest,
             Appends(e), Effect(c, e, new, rest), c = exec.command
      PROVE  \A n \in DOMAIN events' : PlacedAt(events'[n])
  <2>1. PlacedAt(e)
    BY <1>2, EffectPlaced DEF Appends
  <2>2. /\ \A i \in DOMAIN events : events'[i] = events[i]
        /\ events'[Len(events) + 1] = e
        /\ \A i \in DOMAIN events' : i \in DOMAIN events \/ i = Len(events) + 1
    BY <1>2, Longer DEF BusInv
  <2>. QED  BY <2>1, <2>2 DEF Placed
<1>3. CASE StepStored
  <2>0. PICK c \in Handled, e \in BusEvents : \E new, rest : Outcome(c, e, new, rest)
    BY <1>3, Outcomes
  <2>1. PICK new, rest : Outcome(c, e, new, rest)
    BY <2>0
  <2>2. /\ Appends(e) /\ Effect(c, e, new, rest) /\ c = exec.command /\ unoffered' = unoffered
        /\ new # Invalid => live'[e.stream] = new /\ Exists(e.stream)'
        /\ new = Invalid => Opened(c, e, new)
        /\ \A s \in Streams : Exists(s) => Exists(s)'
    BY <2>1 DEF Outcome
  <2>3. \A n \in DOMAIN events' : PlacedAt(events'[n])
    BY <1>2, <2>2
  <2>4. /\ \A i \in DOMAIN events : events'[i] = events[i]
        /\ events'[Len(events) + 1] = e
        /\ \A i \in DOMAIN events' : i \in DOMAIN events \/ i = Len(events) + 1
    BY <2>2, Longer DEF BusInv
  <2>5. \A s \in Streams \ Campaigns : Exists(s) =>
            Exists(s)' /\ live'[s].campaign = live[s].campaign
    BY <2>1, <2>2, Lasting
  <2>6. ASSUME NEW n \in DOMAIN events', events'[n].stream \notin Campaigns, unoffered' = {}
        PROVE  /\ live'[events'[n].stream] # Nothing
               /\ live'[events'[n].stream].campaign = events'[n].payload.campaign
    <3>1. CASE n \in DOMAIN events
      <4>1. PICK s : s = events[n].stream
        OBVIOUS
      <4>2. s \in Streams \ Campaigns /\ Exists(s) /\ live[s].campaign = events[n].payload.campaign
        BY <2>2, <2>4, <2>6, <3>1, <4>1 DEF Placed, PlacedAt
      <4>3. Exists(s)' /\ live'[s].campaign = live[s].campaign
        BY <2>5, <4>2
      <4>. QED  BY <2>4, <3>1, <4>1, <4>2, <4>3 DEF Exists
    <3>2. CASE n = Len(events) + 1
      <4>1. e.stream \notin Campaigns
        BY <2>4, <2>6, <3>2
      <4>2. new # Invalid /\ live'[e.stream] = new /\ live'[e.stream] # Nothing
        BY <2>2, <4>1, Envelope DEF Opened, Exists
      <4>3. new.campaign = e.payload.campaign
        <5>1. ~Opened(c, e, new) /\ ~RolledNow(c, e, new) /\ ~Registered(c, e, new, rest)
          BY <4>1, Envelope DEF Opened, RolledNow, Registered, ToRegister, Ready
        <5>2. ASSUME Drafted(c, e, new) \/ Chosen(c, e, new) \/ Engaged(c, e, new)
              PROVE  new.campaign = e.payload.campaign
          BY <5>2 DEF Drafted, Chosen, Engaged
        <5>3. ASSUME BuiltNow(c, e, new, rest) PROVE new.campaign = e.payload.campaign
          BY <5>3 DEF BuiltNow
        <5>4. ASSUME Finalized(c, e, new) PROVE new.campaign = e.payload.campaign
          BY <5>4 DEF Finalized, CampaignOf
        <5>. QED  BY <2>2, <5>1, <5>2, <5>3, <5>4 DEF Effect
      <4>. QED  BY <2>4, <3>2, <4>2, <4>3
    <3>. QED  BY <2>4, <3>1, <3>2
  <2>. QED  BY <1>0, <2>3, <2>6 DEF Placed, Exists
<1>4. CASE StepQueueFull
  <2>1. PICK e \in BusEvents : /\ Appends(e)
                               /\ Effect(exec.command, e, Reduce(live[e.stream], e), Tail(exec.todo))
    BY <1>4, Overflowed
  <2>2. exec.command \in Handled /\ unoffered' # {}
    BY <1>4, Overflowed
  <2>3. \A n \in DOMAIN events' : PlacedAt(events'[n])
    BY <1>2, <2>1, <2>2
  <2>. QED  BY <1>0, <2>2, <2>3 DEF Placed
<1>5. CASE \/ Still
           \/ \E c \in Handled : Dispatch(c) \/ Refuse(c)
           \/ StepRaises \/ StepConflicts \/ Finish
  BY <1>1, <1>5 DEF Still, Dispatch, Refuse, StepRaises, StepConflicts, AppendConflict, Finish,
                    SaveReceipt, feedVars, vars
<1>. QED  BY <1>3, <1>4, <1>5, StepKinds

LEMMA PlacedStart == BusInit => Placed
BY DEF BusInit, Init, Placed

\* The command in the lock is about to put a on the list of its campaign.
Registering(a) ==
    /\ exec # Nothing /\ exec.todo # <<>> /\ exec.command.type \in Builders
    /\ Todo = Register(exec.command) /\ ActorOf(exec.command) = a

Registry == \A a \in Actors : Exists(a) =>
    a \in live[live[a].campaign].actor_ids \/ Registering(a)
Members == \A k \in Campaigns : Exists(k) =>
    \A a \in live[k].actor_ids : a \in Actors /\ Exists(a) /\ live[a].campaign = k
Sheets == \A s \in Creations : (Exists(s) /\ live[s].status = "finalized") =>
    /\ live[s].actor \in Actors /\ Exists(live[s].actor)
    /\ live[live[s].actor].stats = live[s].archetype
    /\ live[live[s].actor].campaign = live[s].campaign
OneActor == \A c \in Commands, i \in DOMAIN events :
    (/\ c.type = "FinalizeCharacterCreation"
     /\ events[i].payload.type = "ActorCreated" /\ events[i].payload.command = c.id)
        => \/ /\ exec # Nothing /\ exec.command.id = c.id /\ exec.todo # <<>>
              /\ events[i].stream = ActorOf(exec.command)
           \/ /\ Exists(c.target) /\ live[c.target].status = "finalized"
              /\ live[c.target].actor = events[i].stream
Pairs == \A s \in Encounters : Exists(s) =>
    \E a, b \in Actors : /\ a # b /\ live[s].actors = {a, b} /\ Exists(a) /\ Exists(b)
                         /\ live[a].campaign = live[s].campaign
                         /\ live[b].campaign = live[s].campaign

Linked == unoffered = {} => Registry /\ Members /\ Sheets /\ OneActor /\ Pairs

\* A step that leaves the projections as they are, and the command in the lock no
\* registration to make.
LEMMA LinkedBefore ==
    ASSUME Linked, UNCHANGED <<events, unoffered, live>>, \A a \in Actors : ~Registering(a),
           \A c \in Commands, i \in DOMAIN events :
               (/\ exec # Nothing /\ exec.command.id = c.id /\ exec.todo # <<>>
                /\ c.type = "FinalizeCharacterCreation"
                /\ events[i].payload.type = "ActorCreated" /\ events[i].payload.command = c.id)
                   => unoffered # {}
    PROVE  Linked'
<1>1. \A s : Exists(s)' <=> Exists(s)
  BY DEF Exists
<1>. SUFFICES ASSUME unoffered = {} PROVE (Registry /\ Members /\ Sheets /\ OneActor /\ Pairs)'
  BY DEF Linked
<1>2. Registry'
  BY <1>1 DEF Linked, Registry, Exists
<1>3. Members'
  BY <1>1 DEF Linked, Members
<1>4. Sheets'
  BY <1>1 DEF Linked, Sheets, Exists
<1>5. OneActor'
  BY <1>1 DEF Linked, OneActor
<1>6. Pairs'
  BY <1>1 DEF Linked, Pairs, Exists
<1>. QED  BY <1>2, <1>3, <1>4, <1>5, <1>6

LEMMA LinkedStored ==
    ASSUME BusInv, Placed, Linked, NEW c \in Handled, NEW e \in BusEvents, NEW new, NEW rest,
           Outcome(c, e, new, rest)
    PROVE  Linked'
<1>1. /\ Appends(e) /\ Effect(c, e, new, rest) /\ c = exec.command /\ exec # Nothing
      /\ exec.todo # <<>> /\ exec' # Nothing /\ exec'.command = c
      /\ new = Invalid => exec'.todo = <<>>
      /\ new # Invalid => exec'.todo = rest /\ live'[e.stream] = new /\ Exists(e.stream)'
      /\ unoffered' = unoffered /\ e.stream \in Streams
      /\ \A s \in Streams \ {e.stream} : live'[s] = live[s]
      /\ \A s \in Streams : Exists(s) => Exists(s)'
      /\ new = Invalid => live' = live /\ Opened(c, e, new)
  BY DEF Outcome
<1>2. /\ \A a \in Actors \cup Encounters : Exists(a) => Exists(a)' /\ live'[a] = live[a]
      /\ \A s \in Creations : Exists(s) /\ live[s].status = "finalized" =>
             Exists(s)' /\ live'[s] = live[s]
      /\ \A k \in Campaigns : Exists(k) =>
             Exists(k)' /\ live[k].actor_ids \subseteq live'[k].actor_ids
      /\ \A k \in Campaigns : Exists(k)' => \A a \in live'[k].actor_ids :
             \/ Exists(k) /\ a \in live[k].actor_ids
             \/ Registered(c, e, new, rest) /\ k = e.stream /\ a = ActorOf(c)
  BY Lasting
<1>3. \A a \in Actors : Exists(a) => live[a] \in ActorStates /\ live[a].campaign \in Campaigns
  BY Existing DEF BusInv, ActorStates
<1>4. \A s : s \in Streams /\ ~Exists(s) /\ Exists(s)' => s = e.stream /\ live'[s] = new /\ new # Invalid
  BY <1>1 DEF Exists
<1>. SUFFICES ASSUME unoffered = {} PROVE (Registry /\ Members /\ Sheets /\ OneActor /\ Pairs)'
  BY <1>1 DEF Linked
<1>5. Registry /\ Members /\ Sheets /\ OneActor /\ Pairs
  BY DEF Linked
<1>6. ASSUME NEW a \in Actors, Exists(a)'
      PROVE  a \in live'[live'[a].campaign].actor_ids \/ Registering(a)'
  <2>1. CASE Exists(a)
    <3>1. PICK k \in Campaigns : k = live[a].campaign
      BY <1>3, <2>1
    <3>2. live'[a] = live[a] /\ Exists(k)
      <4>1. Exists(live[a].campaign)
        BY <2>1, KindsApart DEF BusInv, CampaignsFirst
      <4>. QED  BY <1>2, <2>1, <3>1, <4>1
    <3>3. CASE a \in live[k].actor_ids
      BY <1>2, <3>1, <3>2, <3>3
    <3>4. CASE Registering(a)
      <4>1. e.payload = Register(c).payload
        BY <1>1, <3>4 DEF Registering, Appends
      <4>2. e.payload.type = "ActorRegistered"
        BY <4>1 DEF Register, Step, Payload
      <4>3. Registered(c, e, new, rest)
        BY <1>1, <4>2 DEF Effect, Opened, RolledNow, Drafted, Chosen, BuiltNow, Finalized, Engaged
      <4>4. ActorOf(c) = a /\ e.stream = k /\ new.actor_ids = live[k].actor_ids \cup {a}
        BY <1>1, <3>1, <3>4, <4>3 DEF Registered, ToRegister, Built, Registering
      <4>5. new \in CampaignStates /\ new # Invalid
        BY <4>3, NothingAssumption DEF Registered
      <4>. QED  BY <1>1, <3>1, <3>2, <4>4, <4>5
    <3>. QED  BY <1>5, <2>1, <3>1, <3>3, <3>4 DEF Registry
  <2>2. CASE ~Exists(a)
    <3>1. a = e.stream /\ new # Invalid
      BY <1>4, <1>6, <2>2, KindsApart
    <3>2. BuiltNow(c, e, new, rest)
      BY <1>1, <2>2, <3>1, KindsApart, Envelope DEF Effect, Opened, RolledNow, Drafted, Chosen,
                                        Finalized, Engaged, Registered, ToRegister, Ready
    <3>3. exec'.todo = rest /\ rest # <<>> /\ Head(rest) = Register(c) /\ ActorOf(c) = a
          /\ c.type \in Builders
      BY <1>1, <3>1, <3>2 DEF BuiltNow, ToBuild
    <3>4. CampaignOf(c)' = CampaignOf(c)
      <4>1. c.type = "FinalizeCharacterCreation" => live'[c.target] = live[c.target]
        BY <1>1, <3>1, Envelope, KindsApart
      <4>. QED  BY <4>1 DEF CampaignOf
    <3>5. Register(c)' = Register(c)
      BY <3>4 DEF Register, ActorOf
    <3>. QED  BY <1>1, <3>3, <3>5 DEF Registering, Todo, ActorOf
  <2>. QED  BY <2>1, <2>2
<1>7. ASSUME NEW k \in Campaigns, Exists(k)', NEW a \in live'[k].actor_ids
      PROVE  a \in Actors /\ Exists(a)' /\ live'[a].campaign = k
  <2>1. CASE Exists(k) /\ a \in live[k].actor_ids
    <3>1. a \in Actors /\ Exists(a) /\ live[a].campaign = k
      BY <1>5, <2>1 DEF Members
    <3>. QED  BY <1>2, <3>1
  <2>2. CASE Registered(c, e, new, rest) /\ k = e.stream /\ a = ActorOf(c)
    <3>1. a \in Actors /\ Exists(a) /\ live[a].campaign = k
      BY <2>2 DEF Registered, ToRegister, Built
    <3>. QED  BY <1>2, <3>1
  <2>. QED  BY <1>2, <1>7, <2>1, <2>2
<1>8. ASSUME NEW s \in Creations, Exists(s)', live'[s].status = "finalized"
      PROVE  /\ live'[s].actor \in Actors /\ live'[live'[s].actor] # Nothing
             /\ live'[live'[s].actor].stats = live'[s].archetype
             /\ live'[live'[s].actor].campaign = live'[s].campaign
  <2>1. CASE Exists(s) /\ live[s].status = "finalized"
    <3>1. PICK a \in Actors : a = live[s].actor
      BY <1>5, <2>1 DEF Sheets
    <3>2. Exists(a) /\ live[a].stats = live[s].archetype /\ live[a].campaign = live[s].campaign
      BY <1>5, <2>1, <3>1 DEF Sheets
    <3>3. live'[s] = live[s] /\ live'[a] = live[a] /\ live[a] # Nothing
      BY <1>2, <2>1, <3>2 DEF Exists
    <3>. QED  BY <3>1, <3>2, <3>3
  <2>2. CASE ~(Exists(s) /\ live[s].status = "finalized")
    <3>1. s = e.stream /\ live'[s] = new /\ new # Invalid
      BY <1>1, <1>4, <1>8, <2>2, KindsApart DEF Exists
    <3>2. Finalized(c, e, new)
      BY <1>1, <1>8, <3>1, KindsApart, Envelope DEF Effect, Opened, RolledNow, Drafted, Chosen,
                                        BuiltNow, Engaged, Registered, ToRegister, Ready
    <3>3. /\ new.actor = c.data /\ c.data \in Actors /\ Exists(c.data)
          /\ live[c.data].campaign = new.campaign /\ live[c.data].stats = new.archetype
      BY <3>2 DEF Finalized, ToEnd, Built, ActorOf, CampaignOf, StatsOf
    <3>4. live'[c.data] = live[c.data] /\ live[c.data] # Nothing
      BY <1>2, <3>3 DEF Exists
    <3>. QED  BY <3>1, <3>3, <3>4
  <2>. QED  BY <2>1, <2>2
<1>9. ASSUME NEW d \in Commands, NEW i \in DOMAIN events', d.type = "FinalizeCharacterCreation",
             events'[i].payload.type = "ActorCreated", events'[i].payload.command = d.id
      PROVE  \/ /\ exec'.command.id = d.id /\ exec'.todo # <<>>
                /\ events'[i].stream = ActorOf(exec'.command)
             \/ /\ Exists(d.target)' /\ live'[d.target].status = "finalized"
                /\ live'[d.target].actor = events'[i].stream
  <2>1. /\ \A n \in DOMAIN events : events'[n] = events[n]
        /\ events'[Len(events) + 1] = e
        /\ \A n \in DOMAIN events' : n \in DOMAIN events \/ n = Len(events) + 1
    BY <1>1, Longer DEF BusInv
  <2>2. d.target \in Creations
    BY <1>9, EnvelopesAssumption
  <2>3. CASE i = Len(events) + 1
    <3>1. e.payload.type = "ActorCreated" /\ c.id = d.id
      BY <1>1, <1>9, <2>1, <2>3 DEF Appends
    <3>2. BuiltNow(c, e, new, rest)
      BY <1>1, <3>1 DEF Effect, Opened, RolledNow, Drafted, Chosen, Finalized, Engaged, Registered
    <3>3. rest # <<>> /\ new # Invalid /\ e.stream = ActorOf(c)
      BY <3>2, NothingAssumption DEF BuiltNow
    <3>. QED  BY <1>1, <2>1, <2>3, <3>1, <3>3
  <2>4. CASE i \in DOMAIN events /\ Exists(d.target) /\ live[d.target].status = "finalized"
             /\ live[d.target].actor = events[i].stream
    BY <1>2, <2>1, <2>2, <2>4
  <2>5. CASE i \in DOMAIN events /\ exec.command.id = d.id /\ events[i].stream = ActorOf(exec.command)
    <3>1. c.id = d.id /\ c.type = "FinalizeCharacterCreation" /\ c.target = d.target
      BY <1>1, <1>9, <2>5, SameId DEF Same
    <3>2. CASE Finalized(c, e, new)
      <4>1. new \in CreationStates /\ new # Invalid /\ e.stream = c.target
            /\ new.status = "finalized" /\ new.actor = c.data
        BY <3>2, NothingAssumption DEF Finalized
      <4>2. events'[i].stream = ActorOf(c)
        BY <1>1, <2>1, <2>5
      <4>. QED  BY <1>1, <2>1, <2>5, <3>1, <4>1, <4>2 DEF ActorOf
    <3>3. CASE BuiltNow(c, e, new, rest)
      BY <1>1, <2>1, <2>5, <3>1, <3>3, NothingAssumption DEF BuiltNow
    <3>4. CASE Registered(c, e, new, rest)
      <4>1. new # Invalid
        BY <3>4, NothingAssumption DEF Registered
      <4>2. rest # <<>>
        BY <3>1, <3>4, OneLeft DEF Registered, Ends
      <4>. QED  BY <1>1, <2>1, <2>5, <3>1, <4>1, <4>2
    <3>. QED  BY <1>1, <3>1, <3>2, <3>3, <3>4 DEF Effect, Opened, Creating, RolledNow, Rolling, Drafted,
                                                  Drafting, Chosen, Engaged
  <2>6. i \in DOMAIN events => events[i].payload.type = "ActorCreated" /\ events[i].payload.command = d.id
    BY <1>9, <2>1
  <2>. QED  BY <1>5, <1>9, <2>1, <2>3, <2>4, <2>5, <2>6 DEF OneActor
<1>10. ASSUME NEW s \in Encounters, Exists(s)'
       PROVE  \E a, b \in Actors : /\ a # b /\ live'[s].actors = {a, b} /\ Exists(a)' /\ Exists(b)'
                                   /\ live'[a].campaign = live'[s].campaign
                                   /\ live'[b].campaign = live'[s].campaign
  <2>1. CASE Exists(s)
    <3>1. PICK a \in Actors, b \in Actors :
              /\ a # b /\ live[s].actors = {a, b} /\ Exists(a) /\ Exists(b)
              /\ live[a].campaign = live[s].campaign
              /\ live[b].campaign = live[s].campaign
      BY <1>5, <2>1 DEF Pairs
    <3>2. live'[s] = live[s] /\ live'[a] = live[a] /\ live'[b] = live[b] /\ Exists(a)' /\ Exists(b)'
      BY <1>2, <2>1, <3>1
    <3>. QED  BY <3>1, <3>2
  <2>2. CASE ~Exists(s)
    <3>1. s = e.stream /\ live'[s] = new /\ new # Invalid
      BY <1>4, <1>10, <2>2, KindsApart
    <3>2. Engaged(c, e, new)
      BY <1>1, <3>1, KindsApart, Envelope DEF Effect, Opened, RolledNow, Drafted, Chosen,
                                        BuiltNow, Finalized, Registered, ToRegister, Ready
    <3>3. /\ c.player \in Actors /\ c.target \in Actors /\ c.player # c.target
          /\ Exists(c.player) /\ Exists(c.target) /\ new.actors = {c.player, c.target}
          /\ live[c.player].campaign = new.campaign /\ live[c.target].campaign = new.campaign
      BY <3>2 DEF Engaged, ToEnd, Ready, Built, ActorOf, CampaignOf
    <3>4. /\ live'[c.player] = live[c.player] /\ live'[c.target] = live[c.target]
          /\ Exists(c.player)' /\ Exists(c.target)'
      BY <1>2, <3>3
    <3>. QED  BY <3>1, <3>3, <3>4
  <2>. QED  BY <2>1, <2>2
<1>11. Registry' /\ Members'
  BY <1>6, <1>7 DEF Registry, Members
<1>12. Sheets'
  BY <1>8 DEF Sheets, Exists
<1>13. OneActor'
  BY <1>1, <1>9 DEF OneActor
<1>14. Pairs'
  BY <1>10 DEF Pairs
<1>. QED  BY <1>11, <1>12, <1>13, <1>14

LEMMA LinkedStep ==
    BusInv /\ BusInv' /\ Traces /\ Placed /\ Linked /\ [BusNext]_allVars => Linked'
<1>. SUFFICES ASSUME BusInv, BusInv', Traces, Placed, Linked, [BusNext]_allVars PROVE Linked'
  OBVIOUS
<1>1. CASE Still
  <2>1. (Registry' <=> Registry) /\ (Members' <=> Members) /\ (Sheets' <=> Sheets)
    BY <1>1 DEF Still, Registry, Members, Sheets, Registering, Register, CampaignOf, ActorOf, Todo, Exists
  <2>2. (OneActor' <=> OneActor) /\ (Pairs' <=> Pairs)
    BY <1>1 DEF Still, OneActor, Pairs, Exists
  <2>. QED  BY <1>1, <2>1, <2>2 DEF Still, Linked
<1>2. ASSUME NEW c \in Handled, Dispatch(c) \/ Refuse(c) PROVE Linked'
  <2>1. exec = Nothing /\ UNCHANGED <<events, unoffered, live>>
    BY <1>2 DEF Dispatch, Refuse, Arrives, vars
  <2>. QED  BY <2>1, LinkedBefore DEF Registering
<1>3. CASE StepRaises
  <2>1. /\ exec # Nothing /\ exec.todo # <<>> /\ Todo = Raise /\ UNCHANGED <<events, unoffered, live>>
    BY <1>3 DEF StepRaises, vars
  <2>2. \A a \in Actors : ~Registering(a)
    BY <2>1 DEF Registering, Register, Step, Raise
  <2>3. exec.command.type = "InstantiateEncounterTemplate"
    BY <2>1, RaisesLate
  <2>4. \A c \in Commands : exec.command.id = c.id => c.type = "InstantiateEncounterTemplate"
    <3>1. exec.command \in Handled
      BY <2>1, ExecType DEF BusInv
    <3>. QED  BY <2>3, <3>1, SameId DEF Same
  <2>. QED  BY <2>1, <2>2, <2>4, LinkedBefore
<1>4. CASE StepConflicts
  <2>1. /\ exec # Nothing /\ exec.todo # <<>> /\ UNCHANGED <<events, unoffered, live>>
        /\ Pending /\ TodoVersion # CurrentVersion(Todo.stream)
    BY <1>4 DEF StepConflicts, AppendConflict, Pending, vars
  <2>2. ASSUME NEW a \in Actors, Registering(a) PROVE FALSE
    BY <2>1, <2>2 DEF Registering, Register, Step, TodoVersion
  <2>3. ASSUME NEW c \in Commands, NEW i \in DOMAIN events, exec.command.id = c.id,
               events[i].payload.command = c.id, unoffered = {}
        PROVE  FALSE
    <3>1. Spent(exec.command) /\ \A s \in Encounters : ~Exists(s) => streams[s] = <<>>
      BY <2>1, <2>3 DEF Traces
    <3>. QED  BY <2>1, <3>1, NoLateConflict
  <2>. QED  BY <2>1, <2>2, <2>3, LinkedBefore
<1>5. CASE StepStored
  BY <1>5, Outcomes, LinkedStored
<1>6. CASE StepQueueFull
  BY <1>6, Overflowed DEF Linked
<1>7. CASE Finish
  <2>1. exec.todo = <<>> /\ UNCHANGED <<events, unoffered, live>>
    BY <1>7 DEF Finish, SaveReceipt, feedVars
  <2>. QED  BY <2>1, LinkedBefore DEF Registering
<1>. QED  BY <1>1, <1>2, <1>3, <1>4, <1>5, <1>6, <1>7, StepKinds

LEMMA LinkedStart == BusInit => Linked
BY KindsApart DEF BusInit, Init, Linked, Registry, Members, Sheets, OneActor, Pairs, Exists

\* While no append has raised QueueFull, the aggregates refer to each other as they should:
\* an actor is on the list of its campaign and the other way round, a finalized session
\* names the one actor that came out of it, and an encounter has two actors of its campaign.
THEOREM AggregatesStayLinked == BusSpec => []AggregatesLinked
<1>1. BusInv /\ Linked => AggregatesLinked
  <2>. SUFFICES ASSUME BusInv, Linked, Idle, unoffered = {}
                PROVE  /\ \A a \in Actors : Exists(a) =>
                             Exists(live[a].campaign) /\ a \in live[live[a].campaign].actor_ids
                       /\ \A s \in Encounters : Exists(s) =>
                             /\ Cardinality(live[s].actors) = 2
                             /\ \A a \in live[s].actors :
                                    Exists(a) /\ live[a].campaign = live[s].campaign
    BY DEF AggregatesLinked, Linked, Members, Sheets, OneActor, Idle
  <2>1. ASSUME NEW a \in Actors, Exists(a)
        PROVE  Exists(live[a].campaign) /\ a \in live[live[a].campaign].actor_ids
    BY <2>1, KindsApart DEF Linked, Registry, Registering, Idle, BusInv, CampaignsFirst
  <2>2. ASSUME NEW s \in Encounters, Exists(s)
        PROVE  /\ Cardinality(live[s].actors) = 2
               /\ \A a \in live[s].actors : Exists(a) /\ live[a].campaign = live[s].campaign
    <3>1. PICK a \in Actors, b \in Actors :
              /\ a # b /\ live[s].actors = {a, b} /\ Exists(a) /\ Exists(b)
              /\ live[a].campaign = live[s].campaign
              /\ live[b].campaign = live[s].campaign
      BY <2>2 DEF Linked, Pairs
    <3>2. Cardinality({a} \cup {b}) = 2
      <4>1. IsFiniteSet({a}) /\ Cardinality({a}) = 1 /\ b \notin {a}
        BY <3>1, FS_Singleton
      <4>2. Cardinality({a} \cup {b}) = IF b \in {a} THEN Cardinality({a}) ELSE Cardinality({a}) + 1
        BY <4>1, FS_AddElement
      <4>. QED  BY <4>1, <4>2
    <3>3. {a} \cup {b} = {a, b}
      OBVIOUS
    <3>. QED  BY <3>1, <3>2, <3>3
  <2>. QED  BY <2>1, <2>2
<1>. QED  BY <1>1, TracesStart, TracesStep, PlacedStart, PlacedStep, LinkedStart, LinkedStep,
             BusInvariant, LockedUnanswered, PTL DEF BusSpec

-----------------------------------------------------------------------------
(* Replays *)

\* A non-empty set of natural numbers has a least member.
LEMMA NatMin ==
    ASSUME NEW T \in SUBSET Nat, T # {}
    PROVE  \E m \in T : \A k \in T : m <= k
<1>. DEFINE R == {ss \in Nat \X Nat : ss[1] < ss[2]}
<1>1. IsWellFoundedOn(R, Nat)
  BY NatLessThanWellFounded DEF OpToRel
<1>2. \A x, y \in Nat : x < y => <<x, y>> \in R
  OBVIOUS
<1>. HIDE DEF R
<1>3. PICK m \in T : \A y \in T : ~ (<<y, m>> \in R)
  BY <1>1, WFMin
<1>4. ASSUME NEW k \in T PROVE m <= k
  <2>1. ~ (k < m)
    BY <1>2, <1>3
  <2>. QED  BY <2>1
<1>. QED  BY <1>4

\* f tells, event by event, what the first j of these events at the places of P
\* make of s.
Trace(s, history, P, j, f) ==
    f = [n \in 0..j |-> IF n = 0 THEN Nothing
                        ELSE IF n \in P /\ history[n].stream = s THEN Reduce(f[n - 1], history[n])
                        ELSE f[n - 1]]

Traced(s, history, P, f, n) ==
    f[n] = IF n \in P /\ history[n].stream = s THEN Reduce(f[n - 1], history[n]) ELSE f[n - 1]

LEMMA TraceAt ==
    ASSUME NEW s, NEW history, NEW P, NEW j \in Nat, NEW f, Trace(s, history, P, j, f)
    PROVE  f[0] = Nothing /\ \A n \in 1..j : Traced(s, history, P, f, n)
<1>1. PICK g : g = [n \in 0..j |-> IF n = 0 THEN Nothing
                        ELSE IF n \in P /\ history[n].stream = s THEN Reduce(f[n - 1], history[n])
                        ELSE f[n - 1]]
  OBVIOUS
<1>2. f = g
  BY <1>1, Zenon DEF Trace
<1>3. \A n \in 0..j : g[n] = IF n = 0 THEN Nothing
                        ELSE IF n \in P /\ history[n].stream = s THEN Reduce(f[n - 1], history[n])
                        ELSE f[n - 1]
  BY <1>1
<1>4. 0 \in 0..j /\ \A n \in 1..j : n \in 0..j /\ n # 0
  OBVIOUS
<1>. QED  BY <1>2, <1>3, <1>4, Zenon DEF Traced

LEMMA TraceGrows ==
    ASSUME NEW s, NEW history, NEW P, NEW j \in Nat, NEW f, Trace(s, history, P, j, f)
    PROVE  \E g : Trace(s, history, P, j + 1, g)
<1>0. f[0] = Nothing /\ \A n \in 1..j : Traced(s, history, P, f, n)
  BY TraceAt
<1>. DEFINE new == IF j + 1 \in P /\ history[j + 1].stream = s THEN Reduce(f[j], history[j + 1]) ELSE f[j]
            g == [n \in 0..(j + 1) |-> IF n = j + 1 THEN new ELSE f[n]]
            at(n) == IF n = 0 THEN Nothing
                     ELSE IF n \in P /\ history[n].stream = s THEN Reduce(g[n - 1], history[n])
                     ELSE g[n - 1]
<1>1. \A n \in 0..j : g[n] = f[n] /\ n \in 0..(j + 1) /\ n # j + 1
  OBVIOUS
<1>2. g[j + 1] = new
  OBVIOUS
<1>3. at(0) = Nothing
  OBVIOUS
<1>4. ASSUME NEW n \in 0..(j + 1), n # 0 PROVE n - 1 \in 0..j /\ g[n - 1] = f[n - 1]
  <2>1. n - 1 \in 0..j
    BY <1>4
  <2>. QED  BY <1>1, <2>1
<1>5. ASSUME NEW n \in 0..(j + 1) PROVE (IF n = j + 1 THEN new ELSE f[n]) = at(n)
  <2>1. CASE n = 0
    <3>1. n # j + 1 /\ f[0] = Nothing
      BY <1>0, <2>1
    <3>. QED  BY <2>1, <3>1
  <2>2. CASE n # 0
    <3>1. at(n) = IF n \in P /\ history[n].stream = s THEN Reduce(f[n - 1], history[n]) ELSE f[n - 1]
      <4>1. g[n - 1] = f[n - 1]
        BY <1>4, <2>2
      <4>. HIDE DEF g
      <4>. QED  BY <2>2, <4>1, Zenon
    <3>2. CASE n = j + 1
      <4>1. n - 1 = j
        BY <3>2
      <4>. QED  BY <3>1, <3>2, <4>1
    <3>3. CASE n # j + 1
      <4>1. n \in 1..j
        BY <2>2, <3>3
      <4>2. f[n] = IF n \in P /\ history[n].stream = s THEN Reduce(f[n - 1], history[n]) ELSE f[n - 1]
        BY <1>0, <4>1 DEF Traced
      <4>. QED  BY <3>1, <3>3, <4>2
    <3>. QED  BY <3>2, <3>3
  <2>. QED  BY <2>1, <2>2
<1>6. PICK h : h = g
  OBVIOUS
<1>7. h = [n \in 0..(j + 1) |-> at(n)]
  <2>. HIDE DEF at, new
  <2>. QED  BY <1>5, <1>6
<1>8. Trace(s, history, P, j + 1, h)
  <2>1. h = [n \in 0..(j + 1) |->
                IF n = 0 THEN Nothing
                ELSE IF n \in P /\ history[n].stream = s THEN Reduce(h[n - 1], history[n])
                ELSE h[n - 1]]
    <3>. HIDE DEF g
    <3>. QED  BY <1>6, <1>7
  <2>. QED  BY <2>1, Zenon DEF Trace
<1>. QED  BY <1>8

LEMMA TraceExists ==
    ASSUME NEW s, NEW history, NEW P, NEW k \in Nat
    PROVE  \E f : Trace(s, history, P, k, f)
<1>. DEFINE Missing == {j \in Nat : ~ \E f : Trace(s, history, P, j, f)}
<1>1. SUFFICES ASSUME Missing # {} PROVE FALSE
  BY <1>1
<1>2. PICK j \in Missing : \A i \in Missing : j <= i
  BY <1>1, NatMin
<1>3. CASE j = 0
  <2>1. PICK f : f = [n \in 0..0 |-> Nothing]
    OBVIOUS
  <2>2. f = [n \in 0..0 |-> IF n = 0 THEN Nothing
                            ELSE IF n \in P /\ history[n].stream = s THEN Reduce(f[n - 1], history[n])
                            ELSE f[n - 1]]
    BY <2>1
  <2>3. Trace(s, history, P, 0, f)
    BY <2>2, Zenon DEF Trace
  <2>. QED  BY <1>3, <2>3
<1>4. CASE j # 0
  <2>1. PICK i \in Nat : i + 1 = j
    BY <1>4
  <2>2. i \notin Missing
    BY <1>2, <2>1
  <2>3. PICK f : Trace(s, history, P, i, f)
    BY <2>2
  <2>4. \E g : Trace(s, history, P, i + 1, g)
    BY <2>3, TraceGrows
  <2>. QED  BY <2>1, <2>4
<1>. QED  BY <1>3, <1>4

\* What some events make of s depends only on those of s at the places taken.
LEMMA TraceSame ==
    ASSUME NEW s, NEW l, NEW m, NEW P, NEW Q, NEW k \in Nat, NEW i \in Nat, k <= i,
           \A n \in 1..k : (n \in Q /\ m[n].stream = s) <=> (n \in P /\ l[n].stream = s),
           \A n \in 1..k : l[n].stream = s => m[n] = l[n],
           NEW f, Trace(s, l, P, k, f), NEW g, Trace(s, m, Q, i, g)
    PROVE  g[k] = f[k]
<1>. DEFINE Differ == {n \in 0..k : g[n] # f[n]}
<1>0. f[0] = Nothing /\ \A n \in 1..k : Traced(s, l, P, f, n)
  BY TraceAt
<1>1. g[0] = Nothing /\ \A n \in 1..i : Traced(s, m, Q, g, n)
  BY TraceAt
<1>2. SUFFICES ASSUME Differ # {} PROVE FALSE
  <2>1. k \in 0..k
    OBVIOUS
  <2>. QED  BY <1>2, <2>1
<1>3. PICK n \in Differ : \A j \in Differ : n <= j
  <2>1. Differ \in SUBSET Nat
    OBVIOUS
  <2>. QED  BY <1>2, <2>1, NatMin
<1>4. n # 0
  BY <1>0, <1>1, <1>3
<1>5. n \in 1..k /\ n \in 1..i /\ n - 1 \in 0..k /\ n - 1 < n
  BY <1>4
<1>6. n - 1 \notin Differ
  BY <1>3, <1>5
<1>7. g[n - 1] = f[n - 1]
  BY <1>5, <1>6
<1>8. /\ (n \in Q /\ m[n].stream = s) <=> (n \in P /\ l[n].stream = s)
      /\ l[n].stream = s => m[n] = l[n]
  BY <1>5
<1>9. g[n] = f[n]
  BY <1>0, <1>1, <1>5, <1>7, <1>8 DEF Traced
<1>. QED  BY <1>3, <1>9

LEMMA ReplayTraced ==
    ASSUME NEW s, NEW history, NEW P, Len(history) \in Nat
    PROVE  \E f : Trace(s, history, P, Len(history), f) /\ Replay(s, history, P) = f[Len(history)]
<1>1. \E f : Trace(s, history, P, Len(history), f)
  BY TraceExists
<1>2. PICK f : f = CHOOSE g : Trace(s, history, P, Len(history), g)
  OBVIOUS
<1>3. Trace(s, history, P, Len(history), f)
  BY <1>1, <1>2, Zenon
<1>4. Replay(s, history, P) = f[Len(history)]
  BY <1>2, Zenon DEF Trace, Replay
<1>. QED  BY <1>3, <1>4

\* Other places, the same events of s.
LEMMA ReplaySame ==
    ASSUME NEW s, NEW l, NEW P, NEW Q, NEW k \in Nat, Len(l) = k,
           \A n \in 1..k : l[n].stream = s => (n \in Q <=> n \in P)
    PROVE  Replay(s, l, Q) = Replay(s, l, P)
<1>1. PICK f : Trace(s, l, P, k, f) /\ Replay(s, l, P) = f[k]
  BY ReplayTraced
<1>2. PICK g : Trace(s, l, Q, k, g) /\ Replay(s, l, Q) = g[k]
  BY ReplayTraced
<1>3. k <= k
  OBVIOUS
<1>4. g[k] = f[k]
  BY <1>1, <1>2, <1>3, TraceSame
<1>. QED  BY <1>1, <1>2, <1>4

\* One more event is reduced last, if it is of the stream and taken.
LEMMA ReplayStep ==
    ASSUME NEW s, NEW l, NEW m, NEW P, NEW Q, NEW k \in Nat, Len(l) = k, Len(m) = k + 1,
           \A n \in 1..k : m[n] = l[n] /\ (n \in Q <=> n \in P)
    PROVE  Replay(s, m, Q) = IF k + 1 \in Q /\ m[k + 1].stream = s
                             THEN Reduce(Replay(s, l, P), m[k + 1]) ELSE Replay(s, l, P)
<1>1. PICK f : Trace(s, l, P, k, f) /\ Replay(s, l, P) = f[k]
  BY ReplayTraced
<1>2. PICK g : Trace(s, m, Q, k + 1, g) /\ Replay(s, m, Q) = g[k + 1]
  <2>1. Len(m) \in Nat
    OBVIOUS
  <2>. QED  BY <2>1, ReplayTraced
<1>3. k + 1 \in Nat /\ k <= k + 1 /\ k + 1 \in 1..(k + 1) /\ (k + 1) - 1 = k
  OBVIOUS
<1>4. g[k] = f[k]
  <2>1. /\ \A n \in 1..k : (n \in Q /\ m[n].stream = s) <=> (n \in P /\ l[n].stream = s)
        /\ \A n \in 1..k : l[n].stream = s => m[n] = l[n]
    OBVIOUS
  <2>. QED  BY <1>1, <1>2, <1>3, <2>1, TraceSame
<1>5. g[k + 1] = IF k + 1 \in Q /\ m[k + 1].stream = s THEN Reduce(g[(k + 1) - 1], m[k + 1])
                 ELSE g[(k + 1) - 1]
  <2>1. Traced(s, m, Q, g, k + 1)
    BY <1>2, <1>3, TraceAt
  <2>. QED  BY <2>1 DEF Traced
<1>. QED  BY <1>1, <1>2, <1>3, <1>4, <1>5

\* No events, no state.
LEMMA ReplayNone ==
    ASSUME NEW s, NEW l, NEW P, NEW k \in Nat, Len(l) = k,
           \A n \in 1..k : n \in P => l[n].stream # s
    PROVE  Replay(s, l, P) = Nothing
<1>1. PICK f : Trace(s, l, P, k, f) /\ Replay(s, l, P) = f[k]
  BY ReplayTraced
<1>2. f[0] = Nothing /\ \A n \in 1..k : Traced(s, l, P, f, n)
  BY <1>1, TraceAt
<1>. DEFINE Some == {n \in 0..k : f[n] # Nothing}
<1>3. SUFFICES ASSUME Some # {} PROVE FALSE
  <2>1. k \in 0..k
    OBVIOUS
  <2>. QED  BY <1>1, <1>3, <2>1
<1>4. PICK n \in Some : \A j \in Some : n <= j
  <2>1. Some \in SUBSET Nat
    OBVIOUS
  <2>. QED  BY <1>3, <2>1, NatMin
<1>5. n \in 1..k /\ n - 1 \in 0..k /\ n - 1 < n
  BY <1>2, <1>4
<1>6. n - 1 \notin Some
  BY <1>4, <1>5
<1>7. f[n] = f[n - 1]
  BY <1>2, <1>5 DEF Traced
<1>. QED  BY <1>4, <1>5, <1>6, <1>7

-----------------------------------------------------------------------------
(* What the engine answers from is what the stored events say *)

LiveKnown == \A s \in Streams : ~Spoiled(s) => live[s] = Replay(s, events, Uncut)

LEMMA LiveStart == BusInit => LiveKnown
<1>. SUFFICES ASSUME BusInit, NEW s \in Streams PROVE live[s] = Replay(s, events, Uncut)
  BY DEF LiveKnown
<1>1. Len(events) = 0 /\ 0 \in Nat /\ live[s] = Nothing
  BY DEF BusInit, Init
<1>2. \A n \in 1..0 : n \in Uncut => events[n].stream # s
  OBVIOUS
<1>. QED  BY <1>1, <1>2, ReplayNone

\* The places not cut off, with one more event.
LEMMA UncutGrows ==
    ASSUME BusInv, NEW e, Appends(e), unoffered \subseteq unoffered',
           unoffered' \subseteq unoffered \cup {Len(events) + 1}
    PROVE  /\ \A n \in 1..Len(events) : n \in Uncut' <=> n \in Uncut
           /\ (Len(events) + 1 \in Uncut' <=> Len(events) + 1 \notin unoffered')
<1>1. /\ Len(events) \in Nat /\ DOMAIN events = 1..Len(events)
      /\ DOMAIN events' = 1..(Len(events) + 1)
      /\ \A n \in DOMAIN events : events'[n] = events[n]
      /\ events'[Len(events) + 1] = e
  BY Longer DEF BusInv
<1>2. \A n \in DOMAIN events : events[n].sequence = n
  BY DEF BusInv, Typed
<1>3. e.sequence = Len(events) + 1
  BY DEF Appends
<1>. QED  BY <1>1, <1>2, <1>3 DEF Uncut

LEMMA LiveStep == BusInv /\ BusInv' /\ LiveKnown /\ [BusNext]_allVars => LiveKnown'
<1>. SUFFICES ASSUME BusInv, BusInv', LiveKnown, [BusNext]_allVars PROVE LiveKnown'
  OBVIOUS
<1>1. CASE UNCHANGED <<events, unoffered, live>>
  BY <1>1 DEF LiveKnown, Spoiled, Uncut
<1>2. ASSUME NEW e \in BusEvents, Appends(e), NEW s \in Streams, ~Spoiled(s)',
             unoffered \subseteq unoffered', unoffered' \subseteq unoffered \cup {Len(events) + 1}
      PROVE  /\ live[s] = Replay(s, events, Uncut)
             /\ ~(e.stream = s /\ BadSeed(e))
             /\ Replay(s, events, Uncut)' =
                    IF Len(events) + 1 \notin unoffered' /\ e.stream = s
                    THEN Reduce(live[s], e) ELSE live[s]
  <2>1. /\ Len(events) \in Nat /\ DOMAIN events = 1..Len(events) /\ Len(events') = Len(events) + 1
        /\ DOMAIN events' = 1..(Len(events) + 1)
        /\ \A n \in DOMAIN events : events'[n] = events[n]
        /\ events'[Len(events) + 1] = e
    BY <1>2, Longer DEF BusInv
  <2>0. \A n \in DOMAIN events' : ~(events'[n].stream = s /\ BadSeed(events'[n]))
    BY <1>2 DEF Spoiled, BadSeed
  <2>2. ~(e.stream = s /\ BadSeed(e))
    <3>1. Len(events) + 1 \in DOMAIN events'
      BY <2>1
    <3>. QED  BY <2>0, <2>1, <3>1
  <2>3. ~Spoiled(s)
    <3>1. \A n \in DOMAIN events : n \in DOMAIN events'
      BY <2>1
    <3>. QED  BY <2>0, <2>1, <3>1 DEF Spoiled
  <2>4. live[s] = Replay(s, events, Uncut)
    BY <2>3 DEF LiveKnown
  <2>5. PICK l, m, P, Q, k : l = events /\ m = events' /\ P = Uncut /\ Q = Uncut' /\ k = Len(events)
    OBVIOUS
  <2>6. /\ k \in Nat /\ Len(l) = k /\ Len(m) = k + 1 /\ m[k + 1] = e
        /\ \A n \in 1..k : m[n] = l[n] /\ (n \in Q <=> n \in P)
        /\ (k + 1 \in Q <=> Len(events) + 1 \notin unoffered')
    BY <1>2, <2>1, <2>5, UncutGrows
  <2>7. Replay(s, m, Q) = IF k + 1 \in Q /\ m[k + 1].stream = s
                          THEN Reduce(Replay(s, l, P), m[k + 1]) ELSE Replay(s, l, P)
    BY <2>6, ReplayStep
  <2>. QED  BY <2>2, <2>4, <2>5, <2>6, <2>7
<1>3. CASE StepStored
  <2>0. PICK c \in Handled, e \in BusEvents : \E new, rest : Outcome(c, e, new, rest)
    BY <1>3, Outcomes
  <2>1. PICK new, rest : Outcome(c, e, new, rest)
    BY <2>0
  <2>2. /\ Appends(e) /\ new = Reduce(live[e.stream], e) /\ unoffered' = unoffered
        /\ \A s \in Streams \ {e.stream} : live'[s] = live[s]
        /\ new # Invalid => live'[e.stream] = new
        /\ new = Invalid => BadSeed(e)
    BY <2>1 DEF Outcome
  <2>3. Len(events) + 1 \notin unoffered'
    <3>1. unoffered \subseteq 1..Len(events) /\ Len(events) \in Nat
      BY <2>2, Longer DEF BusInv, Typed
    <3>. QED  BY <2>2, <3>1
  <2>4. ASSUME NEW s \in Streams, ~Spoiled(s)' PROVE live'[s] = Replay(s, events, Uncut)'
    <3>1. /\ ~(e.stream = s /\ BadSeed(e))
          /\ Replay(s, events, Uncut)' = IF e.stream = s THEN Reduce(live[s], e) ELSE live[s]
      BY <1>2, <2>2, <2>3, <2>4
    <3>. QED  BY <2>2, <3>1
  <2>. QED  BY <2>4 DEF LiveKnown
<1>4. CASE StepQueueFull
  <2>1. PICK e \in BusEvents : Appends(e)
    BY <1>4, Overflowed
  <2>2. live' = live /\ unoffered' = unoffered \cup {Len(events) + 1}
    BY <1>4, Overflowed
  <2>3. ASSUME NEW s \in Streams, ~Spoiled(s)' PROVE live'[s] = Replay(s, events, Uncut)'
    BY <1>2, <2>1, <2>2, <2>3
  <2>. QED  BY <2>3 DEF LiveKnown
<1>5. CASE \/ Still
           \/ \E c \in Handled : Dispatch(c) \/ Refuse(c)
           \/ StepRaises \/ StepConflicts \/ Finish
  BY <1>1, <1>5 DEF Still, Dispatch, Refuse, StepRaises, StepConflicts, AppendConflict, Finish,
                    SaveReceipt, feedVars, vars
<1>. QED  BY <1>3, <1>4, <1>5, StepKinds

\* Whatever is refused, retried and cut off, the live projection of a stream is the replay
\* of its events but those that were cut off.
THEOREM LiveIsReplayUncut == BusSpec => []LiveLacksOnlyCutEvents
<1>1. LiveKnown => LiveLacksOnlyCutEvents
  BY DEF LiveKnown, LiveLacksOnlyCutEvents
<1>. QED  BY <1>1, LiveStart, LiveStep, BusInvariant, PTL DEF BusSpec

-----------------------------------------------------------------------------
(* The two snapshots *)

\* Replaying a campaign's events gives each stream its live projection if the stream is
\* the campaign or exists in it, and nothing if not.
LEMMA ReplayOfCampaign ==
    ASSUME BusInv, Placed, LiveKnown, unoffered = {},
           NEW c \in Campaigns, ~Spoiled(c), NEW s \in Streams
    PROVE  IF s = c \/ (s \notin Campaigns /\ Exists(s) /\ live[s].campaign = c)
           THEN Replay(s, events, Of(c)) = live[s]
           ELSE Replay(s, events, Of(c)) = Nothing
<1>1. events \in Seq(BusEvents)
  BY DEF BusInv, Typed
<1>2. PICK k \in Nat : k = Len(events) /\ DOMAIN events = 1..k
  BY <1>1
<1>3. PICK l, P, Q : l = events /\ P = Uncut /\ Q = Of(c)
  OBVIOUS
<1>4. \A n \in 1..k : n \in P /\ (n \in Q <=> l[n].payload.campaign = c)
  BY <1>2, <1>3 DEF Uncut, Of
<1>5. \A n \in 1..k : PlacedAt(l[n])
  BY <1>2, <1>3 DEF Placed
<1>6. \A n \in 1..k : l[n].stream \notin Campaigns =>
          Exists(l[n].stream) /\ live[l[n].stream].campaign = l[n].payload.campaign
  BY <1>2, <1>3 DEF Placed
<1>7. CASE s = c \/ (s \notin Campaigns /\ Exists(s) /\ live[s].campaign = c)
  <2>1. \A n \in 1..k : l[n].stream = s => (n \in Q <=> n \in P)
    BY <1>4, <1>5, <1>6, <1>7 DEF PlacedAt
  <2>2. Replay(s, l, Q) = Replay(s, l, P)
    BY <1>2, <1>3, <2>1, ReplaySame
  <2>3. ~Spoiled(s)
    BY <1>2, <1>3, <1>5, <1>7 DEF Spoiled, BadSeed, PlacedAt
  <2>4. live[s] = Replay(s, l, P)
    BY <1>3, <2>3 DEF LiveKnown
  <2>. QED  BY <1>3, <1>7, <2>2, <2>4
<1>8. CASE ~(s = c \/ (s \notin Campaigns /\ Exists(s) /\ live[s].campaign = c))
  <2>1. \A n \in 1..k : n \in Q => l[n].stream # s
    BY <1>4, <1>5, <1>6, <1>8 DEF PlacedAt
  <2>2. Replay(s, l, Q) = Nothing
    BY <1>2, <1>3, <2>1, ReplayNone
  <2>. QED  BY <1>3, <1>8, <2>2
<1>. QED  BY <1>7, <1>8

\* GET /campaigns/{id}/replay-hash reports matches_live: as long as no append has raised
\* QueueFull and the campaign's creation was not refused, its events give the state the
\* engine answers from.
THEOREM ReplayMatchesLive == BusSpec => []MatchesLive
<1>1. BusInv /\ Placed /\ Linked /\ LiveKnown => MatchesLive
  <2>. SUFFICES ASSUME BusInv, Placed, Linked, LiveKnown, Idle, unoffered = {},
                       NEW c \in Campaigns, Exists(c), ~Spoiled(c)
                PROVE  ReplaySnapshot(c) = LiveSnapshot(c)
    BY DEF MatchesLive
  <2>1. PICK state : state = [s \in Streams |-> Replay(s, events, Of(c))]
    OBVIOUS
  <2>2. PICK D : D = {s \in Streams : s = c \/ (s \notin Campaigns /\ Exists(s) /\ live[s].campaign = c)}
    OBVIOUS
  <2>3. \A s \in Streams : state[s] = IF s \in D THEN live[s] ELSE Nothing
    <3>. SUFFICES ASSUME NEW s \in Streams PROVE state[s] = IF s \in D THEN live[s] ELSE Nothing
      OBVIOUS
    <3>1. state[s] = Replay(s, events, Of(c))
      BY <2>1
    <3>. QED  BY <2>2, <3>1, ReplayOfCampaign
  <2>4. \A s \in D : s \in Streams /\ live[s] # Nothing
    BY <2>2 DEF Exists
  <2>5. {s \in Streams : state[s] # Nothing} = D
    BY <2>3, <2>4
  <2>6. ReplaySnapshot(c) = [s \in D |-> live[s]]
    <3>1. ReplaySnapshot(c) = [s \in {s \in Streams : state[s] # Nothing} |-> state[s]]
      BY <2>1, Zenon DEF ReplaySnapshot
    <3>. QED  BY <2>3, <2>4, <2>5, <3>1
  <2>7. PICK E : E = {c} \cup {a \in live[c].actor_ids : Exists(a)}
                         \cup {s \in Creations \cup Encounters : Exists(s) /\ live[s].campaign = c}
    OBVIOUS
  <2>8. /\ \A a \in Actors : Exists(a) /\ live[a].campaign = c => a \in live[c].actor_ids
        /\ \A a \in live[c].actor_ids : a \in Actors /\ Exists(a) /\ live[a].campaign = c
    BY DEF Linked, Registry, Registering, Idle, Members
  <2>9. D = E
    BY <2>2, <2>7, <2>8, KindsApart, StreamsAssumption
  <2>10. LiveSnapshot(c) = [s \in E |-> live[s]]
    BY <2>7, Zenon DEF LiveSnapshot
  <2>. QED  BY <2>6, <2>9, <2>10
<1>. QED  BY <1>1, TracesStart, TracesStep, PlacedStart, PlacedStep, LinkedStart, LinkedStep,
             LiveStart, LiveStep, BusInvariant, LockedUnanswered, PTL DEF BusSpec
=============================================================================
