------------------------------ MODULE Encounter ------------------------------
(* Encounters: _start_encounter, available_actions, _perform_action,            *)
(* _resolve_action_events, _next_living_turn, _grant_encounter_rewards and      *)
(* _drive_simple_npcs of application/command_bus.py, with domain/encounter.py,  *)
(* domain/actor.py and controllers/simple_npc.py.                               *)
(*                                                                              *)
(* A command that passes execute's lock is one action: its appends are those of *)
(* CommandBus, here over a store that does not raise.  The automatic controller *)
(* loop runs outside that lock, one locked command per iteration, and is two    *)
(* steps: it chooses from the live state, then executes.  Over the in-memory    *)
(* store nothing runs in between; Suspends = TRUE is a store that yields, where *)
(* several requests may be driving at once.                                     *)
EXTENDS Naturals, Integers, Sequences, FiniteSets

CONSTANTS Actors,        \* actor ids of the campaign
          Rank,          \* Rank[a]: place of a in the order of actor ids
          Profile,       \* Profile[a]: "human", or the profile of a simple_npc
          MaxHp, Bonus, Defense,   \* what ActorCreated said of each actor
          Encounters,    \* encounter ids
          Lineups,       \* participant lists clients send: seqs of
                         \* [actor, side, position, stamina]
          Tasks,         \* requests that may be in flight
          Rolls,         \* outcomes of the 1d20 considered
          AttackDamage, PowerDamage,   \* outcomes of 1d4+1 and 1d6+2 considered
          Suspends,      \* may others run between two steps of a request
          DriveLimit,    \* actions one request drives at most (100 in the code)
          MaxRound,      \* bound: clients stop acting after this round
          Nothing

ASSUME ActorsAssumption ==
    /\ Rank \in [Actors -> Nat] /\ \A a, b \in Actors : a # b => Rank[a] # Rank[b]
    /\ Profile \in [Actors -> {"human", "aggressive_melee", "passive"}]
    /\ MaxHp \in [Actors -> Int]   \* nothing asks for more than an integer
    /\ Bonus \in [Actors -> Int] /\ Defense \in [Actors -> Int]
ASSUME LineupsAssumption ==
    \A l \in Lineups : l \in Seq([actor: Actors, side: STRING, position: Int, stamina: Int])
ASSUME DiceAssumption ==
    /\ Rolls \in SUBSET (1..20) \ {{}}
    /\ AttackDamage \in SUBSET (2..5) \ {{}} /\ PowerDamage \in SUBSET (3..8) \ {{}}
ASSUME EncounterBounds ==
    /\ DriveLimit \in Nat /\ MaxRound \in Nat /\ Suspends \in BOOLEAN

\* EncounterState: a participant's hit points and stamina are integers the code does
\* not bound, from max_hp and from the client's list.
ParticipantStates == [side: STRING, hp: Int, position: Int, stamina: Int, guard: {0, 2}]
Rosters == UNION {[named -> ParticipantStates] : named \in SUBSET Actors}
EncounterStates ==
    [status: {"active", "completed"}, winner: STRING \cup {Nothing}, version: Nat, round: Nat,
     index: Nat, order: Seq(Actors), participants: Rosters]

\* None is neither.
ASSUME NothingAssumption == Nothing \notin EncounterStates \cup Actors

VARIABLES encounters,  \* live encounters
          born,        \* ids of the live encounters, in the order the dict holds them
          actors,      \* live actors
          npcKeys,     \* idempotency keys of controller commands that have a receipt
          task,        \* task[t]: what request t is doing after its own command
          failures,    \* history: <<encounter, reason>> of the drives that raised
          advances     \* history: progression choices actor a has made

vars == <<encounters, born, actors, npcKeys, task, failures, advances>>

Resting == [doing |-> "nothing"]

Init ==
    /\ encounters = [e \in Encounters |-> Nothing]
    /\ born = <<>>
    /\ actors = [a \in Actors |-> [max_hp |-> MaxHp[a], attack_bonus |-> Bonus[a],
                                   defense |-> Defense[a], victories |-> 0, points |-> 0]]
    /\ npcKeys = {}
    /\ task = [t \in Tasks |-> Resting]
    /\ failures = {}
    /\ advances = [a \in Actors |-> 0]

-----------------------------------------------------------------------------
(* domain/encounter.py *)

Live(e) == encounters[e] # Nothing
Active(e) == Live(e) /\ encounters[e].status = "active"
Participants(e) == DOMAIN encounters[e].participants
At(e, a) == encounters[e].participants[a]

Standing(parts) == {a \in DOMAIN parts : parts[a].hp > 0}
SidesStanding(parts) == {parts[a].side : a \in Standing(parts)}

\* current_actor_id of an active encounter.
Current(e) == encounters[e].order[encounters[e].index]
OnTurn(e, a) == Active(e) /\ Current(e) = a

-----------------------------------------------------------------------------
(* available_actions *)

Distance(e, a, b) == LET d == At(e, a).position - At(e, b).position IN IF d < 0 THEN -d ELSE d

Enemies(e, a) == {b \in Participants(e) : At(e, b).hp > 0 /\ At(e, b).side # At(e, a).side}

\* The order the enemies are listed in: by distance, then by id.
Before(e, a, b, c) == \/ Distance(e, a, b) < Distance(e, a, c)
                      \/ Distance(e, a, b) = Distance(e, a, c) /\ Rank[b] < Rank[c]

Nearest(e, a) == CHOOSE b \in Enemies(e, a) : \A c \in Enemies(e, a) \ {b} : Before(e, a, b, c)

InReach(e, a) == {b \in Enemies(e, a) : Distance(e, a, b) <= 1}

Option(action, target) == [action |-> action, target |-> target]

\* Wrong variant of OptionsIn: power attacks are listed whatever the stamina.
OptionsUngated(e, a) ==
    IF Enemies(e, a) = {} THEN {}
    ELSE {Option("guard", Nothing)} \cup
         IF InReach(e, a) = {} THEN {Option("move_toward", Nearest(e, a))}
         ELSE {Option(o, b) : o \in {"attack", "power_attack"}, b \in InReach(e, a)}

OptionsIn(e, a) ==
    IF Enemies(e, a) = {} THEN {}
    ELSE {Option("guard", Nothing)} \cup
         IF InReach(e, a) = {} THEN {Option("move_toward", Nearest(e, a))}
         ELSE {Option("attack", b) : b \in InReach(e, a)} \cup
              (IF At(e, a).stamina > 0 THEN {Option("power_attack", b) : b \in InReach(e, a)} ELSE {})

\* The list is made for the FIRST active encounter in which the actor is on turn,
\* whichever one the command is about.
ConsultedBy(a) ==
    born[CHOOSE i \in DOMAIN born : /\ OnTurn(born[i], a)
                                    /\ \A j \in 1..(i - 1) : ~OnTurn(born[j], a)]

AvailableActions(a) == OptionsIn(ConsultedBy(a), a)

-----------------------------------------------------------------------------
(* _resolve_action_events and the rewards that may follow *)

\* Wrong variant of Rewarded: the defeated are rewarded too.
RewardedAll(parts, winner) ==
    [a \in Actors |->
        IF a \in DOMAIN parts THEN [actors[a] EXCEPT !.victories = @ + 1, !.points = @ + 1]
        ELSE actors[a]]

Rewarded(parts, winner) ==
    [a \in Actors |->
        IF a \in Standing(parts) /\ parts[a].side = winner
          THEN [actors[a] EXCEPT !.victories = @ + 1, !.points = @ + 1]
          ELSE actors[a]]

\* EncounterCompleted, with an ExperienceGranted for each winner still standing.
Complete(e, parts) ==
    \E winner \in SidesStanding(parts) :
        /\ encounters' = [encounters EXCEPT
               ![e] = [encounters[e] EXCEPT !.participants = parts, !.status = "completed",
                                            !.winner = winner, !.version = @ + 2]]
        /\ actors' = Rewarded(parts, winner)

\* Wrong variant of NextLiving: the next in the order, standing or not.
NextInOrder(enc, parts) == (enc.index % Len(enc.order)) + 1

\* _next_living_turn: the place in the order of the next who stands.
NextLiving(enc, parts) ==
    LET n == Len(enc.order)
        Place(step) == ((enc.index - 1 + step) % n) + 1
        Stands(step) == enc.order[Place(step)] \in Standing(parts)
    IN  Place(CHOOSE step \in 1..n : Stands(step) /\ \A k \in 1..(step - 1) : ~Stands(k))

\* TurnAdvanced.  If nobody stands _next_living_turn raises instead (Collapses).
AdvanceTurn(e, parts) ==
    LET next == NextLiving(encounters[e], parts) IN
    /\ Standing(parts) # {}
    /\ encounters' = [encounters EXCEPT
           ![e] = [encounters[e] EXCEPT !.participants = parts, !.index = next,
                      !.round = IF next <= encounters[e].index THEN @ + 1 ELSE @, !.version = @ + 2]]
    /\ UNCHANGED actors

\* Wrong variant of Settle: the sides are counted before the action takes effect.
SettleStale(e, parts) ==
    IF Cardinality(SidesStanding(encounters[e].participants)) = 1
    THEN Complete(e, parts) ELSE AdvanceTurn(e, parts)

Settle(e, parts) ==
    IF Cardinality(SidesStanding(parts)) = 1 THEN Complete(e, parts) ELSE AdvanceTurn(e, parts)

Moved(e, a, b) ==
    [encounters[e].participants EXCEPT
        ![a].position = IF At(e, b).position > @ THEN @ + 1 ELSE @ - 1]

Guarding(e, a) == [encounters[e].participants EXCEPT ![a].guard = 2]

\* Both attack events set the attacker's stamina, the target's hp (not below 0) and
\* take the target's guard away, hit or miss.
Struck(e, a, b, damage, cost) ==
    [encounters[e].participants EXCEPT
        ![a].stamina = @ - cost,
        ![b].hp = IF damage >= @ THEN 0 ELSE @ - damage,
        ![b].guard = 0]

Hits(e, a, b, roll) == roll + actors[a].attack_bonus >= actors[b].defense + At(e, b).guard

\* What an attack may do, by the rolls that hit and those that miss.
Strikes(e, a, b, cost, damages) ==
    {Struck(e, a, b, damage, cost) :
        damage \in UNION {IF Hits(e, a, b, roll) THEN damages ELSE {0} : roll \in Rolls}}

\* The previews: the participants after the action's own event.
Previewed(e, a, o) ==
    CASE o.action = "guard" -> {Guarding(e, a)}
      [] o.action = "move_toward" -> {Moved(e, a, o.target)}
      [] o.action = "attack" -> Strikes(e, a, o.target, 0, AttackDamage)
      [] o.action = "power_attack" -> Strikes(e, a, o.target, 1, PowerDamage)

Resolve(e, a, o) == \E parts \in Previewed(e, a, o) : Settle(e, parts)

\* The ValueError of _next_living_turn: nobody is left standing, not even the actor.
\* Nothing is stored; the receipt, a rejection, is.
Collapses(e, a, o) == \E parts \in Previewed(e, a, o) : Standing(parts) = {}

\* _perform_action's own checks: the actor is on turn, the option is on the list it
\* is shown, and its target takes part (a KeyError otherwise).
Admits(e, a, o) ==
    /\ OnTurn(e, a)
    /\ o \in AvailableActions(a)
    /\ o.target = Nothing \/ o.target \in Participants(e)

-----------------------------------------------------------------------------
(* Client commands *)

Driving(e) == [doing |-> "drive", encounter |-> e, taken |-> 0]

\* The event loop can give t the processor.
MayRun(t) == Suspends \/ \A u \in Tasks \ {t} : task[u] = Resting

Participant(p) == [side |-> p.side, hp |-> actors[p.actor].max_hp, position |-> p.position,
                   stamina |-> p.stamina, guard |-> 0]

\* reduce_encounter of EncounterStarted: of two entries for one actor the last counts,
\* but both stay in the turn order.
Started(lineup) ==
    LET named == {lineup[i].actor : i \in DOMAIN lineup}
        Last(a) == CHOOSE i \in DOMAIN lineup :
                       /\ lineup[i].actor = a
                       /\ \A j \in DOMAIN lineup : lineup[j].actor = a => j <= i
    IN  [status |-> "active", winner |-> Nothing, version |-> 1, round |-> 1, index |-> 1,
         order |-> [i \in DOMAIN lineup |-> lineup[i].actor],
         participants |-> [a \in named |-> Participant(lineup[Last(a)])]]

Unused(e) == ~Live(e)

StartEncounter(t, e, lineup) ==
    /\ MayRun(t) /\ task[t] = Resting
    /\ Unused(e)
    /\ Len(lineup) >= 2
    /\ Cardinality({lineup[i].side : i \in DOMAIN lineup}) >= 2
    /\ encounters' = [encounters EXCEPT ![e] = Started(lineup)]
    /\ born' = Append(born, e)
    /\ task' = [task EXCEPT ![t] = Driving(e)]
    /\ UNCHANGED <<actors, npcKeys, failures, advances>>

\* A client whose command is refused, or collapses, changes nothing here.
PerformAction(t, e, a) ==
    /\ MayRun(t) /\ task[t] = Resting
    /\ OnTurn(e, a) /\ encounters[e].round <= MaxRound
    /\ \E o \in AvailableActions(a) : Admits(e, a, o) /\ Resolve(e, a, o)
    /\ task' = [task EXCEPT ![t] = Driving(e)]
    /\ UNCHANGED <<born, npcKeys, failures, advances>>

AdvanceActor(t, a) ==
    /\ MayRun(t) /\ task[t] = Resting
    /\ actors[a].points >= 1
    /\ \/ actors' = [actors EXCEPT ![a].points = @ - 1, ![a].attack_bonus = @ + 1]
       \/ actors' = [actors EXCEPT ![a].points = @ - 1, ![a].max_hp = @ + 4]
       \/ actors' = [actors EXCEPT ![a].points = @ - 1, ![a].defense = @ + 1]
    /\ advances' = [advances EXCEPT ![a] = @ + 1]
    /\ UNCHANGED <<encounters, born, npcKeys, task, failures>>

-----------------------------------------------------------------------------
(* _drive_simple_npcs *)

\* SimpleNpcController.choose_action: by_id keeps the last option listed of a kind,
\* and the enemies in reach are listed nearest first.  "passive" stands for "defensive"
\* and "flee" too: all three put guard first, and guard is always listed.
LastInReach(e, a) == CHOOSE b \in InReach(e, a) : \A c \in InReach(e, a) \ {b} : Before(e, a, c, b)

\* Wrong variant of Choice: the hardest blow, advertised or not.
ChoiceReckless(a) ==
    LET e == ConsultedBy(a) IN
    IF InReach(e, a) = {} THEN Option("move_toward", Nearest(e, a))
    ELSE Option("power_attack", LastInReach(e, a))

Choice(a) ==
    LET e == ConsultedBy(a) IN
    IF Profile[a] = "passive" THEN Option("guard", Nothing)
    ELSE IF InReach(e, a) = {} THEN Option("move_toward", Nearest(e, a))
    ELSE Option(IF At(e, a).stamina > 0 THEN "power_attack" ELSE "attack", LastInReach(e, a))

Key(e, a) == [encounter |-> e, version |-> encounters[e].version, actor |-> a]

NpcOnTurn(e) == Active(e) /\ Profile[Current(e)] # "human"

\* Wrong variants of Exhausted, a limit the counter never passes, and of HandsOver, one
\* controller action per request.
ExhaustedLate(t) == task[t].taken > DriveLimit

HandsOverSoon(t) == ~NpcOnTurn(task[t].encounter) \/ task[t].taken = 1

Exhausted(t) == task[t].taken >= DriveLimit

HandsOver(t) == ~NpcOnTurn(task[t].encounter)

Drives(t) == MayRun(t) /\ task[t].doing = "drive"

DrivesOn(t) == Drives(t) /\ task[t].taken < DriveLimit

\* The encounter is over, or it is a human's turn: the request is answered.
DriveDone(t) ==
    /\ DrivesOn(t)
    /\ HandsOver(t)
    /\ task' = [task EXCEPT ![t] = Resting]
    /\ UNCHANGED <<encounters, born, actors, npcKeys, failures, advances>>

DriveChoose(t) ==
    /\ DrivesOn(t)
    /\ LET e == task[t].encounter IN
           /\ NpcOnTurn(e)
           /\ AvailableActions(Current(e)) # {}
           /\ task' = [task EXCEPT ![t] =
                  [doing |-> "act", encounter |-> e, taken |-> task[t].taken,
                   actor |-> Current(e), key |-> Key(e, Current(e)), option |-> Choice(Current(e))]]
    /\ UNCHANGED <<encounters, born, actors, npcKeys, failures, advances>>

\* The controller's command, executed under the lock like a client's.
DriveAct(t) ==
    /\ MayRun(t) /\ task[t].doing = "act"
    /\ task[t].key \notin npcKeys
    /\ Admits(task[t].encounter, task[t].actor, task[t].option)
    /\ Resolve(task[t].encounter, task[t].actor, task[t].option)
    /\ npcKeys' = npcKeys \cup {task[t].key}
    /\ task' = [task EXCEPT ![t] = [Driving(task[t].encounter) EXCEPT !.taken = task[t].taken + 1]]
    /\ UNCHANGED <<born, failures, advances>>

\* RuntimeError: the controller's command had already been answered, was not admitted,
\* or was rejected when no turn could be given on.
DriveRefused(t) ==
    /\ MayRun(t) /\ task[t].doing = "act"
    /\ \/ task[t].key \in npcKeys
       \/ ~Admits(task[t].encounter, task[t].actor, task[t].option)
       \/ /\ Admits(task[t].encounter, task[t].actor, task[t].option)
          /\ Collapses(task[t].encounter, task[t].actor, task[t].option)
    /\ npcKeys' = npcKeys \cup {task[t].key}
    /\ failures' = failures \cup {<<task[t].encounter, "refused">>}
    /\ task' = [task EXCEPT ![t] = Resting]
    /\ UNCHANGED <<encounters, born, actors, advances>>

\* RuntimeError: automatic controller safety limit exceeded.
DriveExhausted(t) ==
    /\ Drives(t) /\ Exhausted(t)
    /\ failures' = failures \cup {<<task[t].encounter, "limit">>}
    /\ task' = [task EXCEPT ![t] = Resting]
    /\ UNCHANGED <<encounters, born, actors, npcKeys, advances>>

\* ValueError out of choose_action: nothing is advertised to the actor on turn, for a
\* list that named it twice put it, alone, on one side (SIMPLE_NPC_AI.md would have the
\* controller return NoNpcDecision).
DriveHelpless(t) ==
    /\ DrivesOn(t)
    /\ NpcOnTurn(task[t].encounter)
    /\ AvailableActions(Current(task[t].encounter)) = {}
    /\ failures' = failures \cup {<<task[t].encounter, "helpless">>}
    /\ task' = [task EXCEPT ![t] = Resting]
    /\ UNCHANGED <<encounters, born, actors, npcKeys, advances>>

Drive(t) == \/ DriveDone(t) \/ DriveChoose(t) \/ DriveAct(t)
            \/ DriveRefused(t) \/ DriveExhausted(t) \/ DriveHelpless(t)

Next ==
    \E t \in Tasks :
        \/ \E e \in Encounters :
               \/ \E lineup \in Lineups : StartEncounter(t, e, lineup)
               \/ \E a \in Actors : PerformAction(t, e, a)
        \/ \E a \in Actors : AdvanceActor(t, a)
        \/ Drive(t)

Spec == Init /\ [][Next]_vars

\* A coroutine that can run does: the request of a client is not abandoned.
FairSpec == Spec /\ \A t \in Tasks : WF_vars(Drive(t))

-----------------------------------------------------------------------------
(* Properties *)

\* EncounterStarted asks no one to stand, and puts the first of the list on turn.
JustStarted(e) == encounters[e].version = 1

\* Whoever is on turn stands, but for an actor that entered fallen and leads the list:
\* _next_living_turn skips those who fell, in an order that never changes, and nobody
\* falls on their own turn.
TurnHolderAlive ==
    \A e \in Encounters : Active(e) => At(e, Current(e)).hp > 0 \/ JustStarted(e)

\* Once somebody acted, an encounter is active exactly while two sides stand, and the
\* winner is the one side left: the outcome is computed from a preview of the action's
\* events, and must be that of the stored ones.
DecidedByLastStanding ==
    \A e \in Encounters : Live(e) =>
        LET sides == SidesStanding(encounters[e].participants) IN
        IF Active(e) THEN Cardinality(sides) >= 2 \/ JustStarted(e)
        ELSE sides = {encounters[e].winner}

\* Each encounter an actor won on its feet was rewarded once, and its points are
\* those rewards less the choices it has made: over several encounters, advances in
\* between and controllers that finish what a client began.
RewardsOnce ==
    \A a \in Actors :
        LET won == {e \in Encounters : /\ Live(e) /\ ~Active(e) /\ a \in Participants(e)
                                       /\ At(e, a).hp > 0 /\ At(e, a).side = encounters[e].winner}
        IN  /\ actors[a].victories = Cardinality(won)
            /\ actors[a].points = actors[a].victories - advances[a]

\* HUMAN_PLAYTESTING.md's "resources never spend twice", as far as it holds: whoever
\* pays stamina has it, whatever the list of participants gave them, except an actor
\* that takes part in an encounter that began earlier, whose list of options it was
\* then shown.
OverspentOnlyAcross ==
    [][\A i \in DOMAIN born : \A a \in Participants(born[i]) :
          encounters'[born[i]].participants[a].stamina < At(born[i], a).stamina =>
              \/ At(born[i], a).stamina > 0
              \/ \E j \in 1..(i - 1) : a \in Participants(born[j])]_vars

\* When no request is in progress it is nowhere the turn of a controller that could
\* act: somebody drove it, or the drive raised and the client was told.
ControllersHandOver ==
    (\A t \in Tasks : task[t] = Resting) =>
        \A e \in Encounters : NpcOnTurn(e) => \E reason \in {"refused", "limit", "helpless"} :
            <<e, reason>> \in failures

\* Every command that starts or continues an encounter is answered, whatever the
\* controllers do among themselves: the driver loop ends.
EventuallyAnswered == \A t \in Tasks : (task[t] # Resting) ~> (task[t] = Resting)

\* docs/ai/SIMPLE_NPC_AI.md asks for a "safe fallback" when the rules refuse a
\* controller's command, and simple_npc.py says it uses "only server-advertised legal
\* actions": with one request at a time a controller is refused only on its first turn
\* and only if it entered fallen, when its blow leaves nobody to give the turn to.
RefusedOnlyFallen ==
    [][\A t \in Tasks : DriveRefused(t) =>
          LET e == task[t].encounter IN
          /\ JustStarted(e) /\ Current(e) = task[t].actor
          /\ At(e, Current(e)).hp <= 0]_vars
=============================================================================
