--------------------------- MODULE MCCommandBus ---------------------------
(* Instances of CommandBus for TLC: who exists, and which envelopes are sent. *)
EXTENDS CommandBus

CONSTANTS cmp,              \* a campaign
          hero, rival,      \* actors
          draft,        \* a character creation session
          brawl,        \* an encounter
          alice, bob,       \* principals
          view              \* a subscriber's queue

Envelope(id, key, type, target, expected, data, principal) ==
    [id |-> id, key |-> key, type |-> type, campaign |-> cmp, target |-> target,
     expected |-> expected, data |-> data, principal |-> principal,
     player |-> Nothing, encounter |-> Nothing]

Template(id, key, template, player, enemy) ==
    [id |-> id, key |-> key, type |-> "InstantiateEncounterTemplate", campaign |-> cmp,
     target |-> enemy, expected |-> Nothing, data |-> template, principal |-> bob,
     player |-> player, encounter |-> brawl]

\* A campaign, whose seed may be one the CampaignState schema refuses, and then one that
\* names the version that leaves; an actor; a roll;
\* a character creation by two principals that may finalize into
\* an actor id that is taken or into one that new_id gives; two templates, one of them of
\* one side and without an id for its enemy.  A refused selection has the key of the roll,
\* and the templates those of the finalizations.
CoreCommands ==
    { Envelope("c1", "k1", "CreateCampaign", Nothing, Nothing, "seed", alice),
      Envelope("c0", "k0", "CreateCampaign", Nothing, Nothing, "bad seed", alice),
      Envelope("c9", "k1", "CreateCampaign", Nothing, 1, "seed", bob),
      Envelope("c2", "k2", "CreateActor", hero, Nothing, "guardian", bob),
      Envelope("c4", "k4", "RollDice", Nothing, Nothing, "1d20", alice),
      Envelope("s1", "j1", "StartCharacterCreation", draft, Nothing, Nothing, alice),
      Envelope("s2", "j2", "SelectCharacterName", draft, Nothing, "name", alice),
      Envelope("s3", "j3", "SelectCharacterArchetype", draft, Nothing, "guardian", alice),
      Envelope("s4", "k4", "SelectCharacterArchetype", draft, Nothing, "scout", bob),
      Envelope("s5", "j5", "FinalizeCharacterCreation", draft, Nothing, hero, alice),
      Envelope("s6", "j6", "FinalizeCharacterCreation", draft, Nothing, Nothing, alice),
      Template("t1", "j5", "duel", hero, rival),
      Template("t2", "j6", "one side", hero, Nothing) }

\* The envelopes of clients that retry past a full queue.  Two creations of the campaign,
\* one of which names the version that the other may leave behind, have one key.  The id of
\* an actor is left to new_id, and a roll names a version.
RetryCommands ==
    { Envelope("c1", "k1", "CreateCampaign", Nothing, Nothing, "seed", alice),
      Envelope("c9", "k1", "CreateCampaign", Nothing, 1, "seed", bob),
      Envelope("c2", "k2", "CreateActor", Nothing, Nothing, "guardian", alice),
      Envelope("c4", "k4", "RollDice", Nothing, Nothing, "1d20", alice),
      Envelope("c6", "k6", "RollDice", Nothing, 2, "1d20", bob),
      Template("t1", "k7", "duel", hero, rival) }

CommandIds == {c.id : c \in Commands}
\* All but the second creation are sent twice.
Once    == [i \in CommandIds |-> 1]
Retried == [i \in CommandIds |-> IF i = "c9" THEN 1 ELSE 2]

NoQueues == {}
OneQueue == {view}
CampaignsDef == {cmp}
ActorsDef    == {hero, rival}
CreationsDef == {draft}
EncountersDef == {brawl}
StreamsDef   == CampaignsDef \cup ActorsDef \cup CreationsDef \cup EncountersDef
KeysDef      == {c.key : c \in Commands}
ReceiptsDef  == [command: {c.id : c \in Commands}, status: Statuses]
PayloadsDef ==
    [type: EventTypes,
     command: {c.id : c \in Commands}, campaign: CampaignsDef,
     data: {c.data : c \in Commands} \cup ActorsDef \cup {alice, bob},
     roll: 0..MaxEvents]
=============================================================================
