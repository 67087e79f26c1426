--------------------------- MODULE Encounter_proofs ---------------------------
(* What holds of Encounter for any actors, line-ups, dice and number of requests: *)
(* who is on turn stands, the last side standing wins, and rewards come once.     *)
EXTENDS Encounter, FiniteSetTheorems, FunctionTheorems, SequenceTheorems,
        WellFoundedInduction, TLAPS

\* A non-empty set of natural numbers has a least member.
LEMMA NatMin ==
    ASSUME NEW T \in SUBSET Nat, T # {}
    PROVE  \E m \in T : \A k \in T : m <= k
<1>. DEFINE R == {ss \in Nat \X Nat : ss[1] < ss[2]}
<1>1. IsWellFoundedOn(R, Nat)
  BY NatLessThanWellFounded DEF OpToRel
<1>2. \A x, y \in Nat : x < y => <<x, y>> \in R
  OBVIOUS
<1>. HIDE DEF R
<1>3. PICK m \in T : \A y \in T : ~ (<<y, m>> \in R)
  BY <1>1, WFMin
<1>4. ASSUME NEW k \in T PROVE m <= k
  <2>1. ~ (k < m)
    BY <1>2, <1>3
  <2>. QED  BY <2>1
<1>. QED  BY <1>4

\* A list of natural numbers has a bound.
LEMMA ListBound ==
    ASSUME NEW n \in Nat, NEW f \in [1..n -> Nat]
    PROVE  \E m \in Nat : \A i \in 1..n : f[i] <= m
<1>. DEFINE Bounded(k) == \E m \in Nat : \A i \in 1..k : f[i] <= m
            Unbounded == {k \in 0..n : ~Bounded(k)}
<1>1. CASE Unbounded = {}
  <2>1. n \in 0..n
    OBVIOUS
  <2>2. Bounded(n)
    BY <1>1, <2>1
  <2>. QED  BY <2>2
<1>2. CASE Unbounded # {}
  <2>1. PICK k \in Unbounded : \A j \in Unbounded : k <= j
    <3>1. Unbounded \in SUBSET Nat
      OBVIOUS
    <3>. HIDE DEF Unbounded
    <3>. QED  BY <1>2, <3>1, NatMin
  <2>2. k \in 0..n /\ ~Bounded(k)
    OBVIOUS
  <2>3. k # 0
    BY <2>2
  <2>4. Bounded(k - 1)
    <3>1. k - 1 \in 0..n /\ ~(k <= k - 1)
      BY <2>2, <2>3
    <3>. HIDE DEF Bounded
    <3>. QED  BY <2>1, <3>1
  <2>5. PICK m \in Nat : \A i \in 1..(k - 1) : f[i] <= m
    BY <2>4
  <2>6. f[k] \in Nat /\ m + f[k] \in Nat
    BY <2>2, <2>3
  <2>7. ASSUME NEW i \in 1..k PROVE f[i] <= m + f[k]
    <3>1. f[i] \in Nat /\ (i = k \/ i \in 1..(k - 1))
      BY <2>2
    <3>. QED  BY <2>5, <2>6, <3>1
  <2>8. Bounded(k)
    BY <2>6, <2>7
  <2>. QED  BY <2>2, <2>8
<1>. QED  BY <1>1, <1>2

\* A bounded, non-empty set of natural numbers has a greatest member.
LEMMA NatMax ==
    ASSUME NEW T \in SUBSET Nat, T # {}, NEW b \in Nat, \A k \in T : k <= b
    PROVE  \E m \in T : \A k \in T : k <= m
<1>. DEFINE Bounds == {m \in Nat : \A k \in T : k <= m}
<1>1. PICK m \in Bounds : \A j \in Bounds : m <= j
  <2>1. b \in Bounds
    OBVIOUS
  <2>. QED  BY <2>1, NatMin
<1>2. m \in T
  <2>1. SUFFICES ASSUME m \notin T PROVE FALSE
    OBVIOUS
  <2>2. \A k \in T : k <= m - 1
    BY <2>1
  <2>3. m - 1 \in Nat
    <3>1. PICK k \in T : TRUE
      OBVIOUS
    <3>2. k \in Nat /\ k <= m - 1 /\ m \in Nat
      BY <2>2
    <3>. QED  BY <3>2
  <2>. QED  BY <1>1, <2>2, <2>3
<1>. QED  BY <1>2

-----------------------------------------------------------------------------
(* Turn order *)

\* Around a table of n, from seat i, every seat is at most n places away.
LEMMA AroundTable ==
    ASSUME NEW n \in Nat \ {0}, NEW i \in 1..n
    PROVE  /\ \A step \in Nat : ((i - 1 + step) % n) + 1 \in 1..n
           /\ \A p \in 1..n : \E step \in 1..n : ((i - 1 + step) % n) + 1 = p
<1>1. ASSUME NEW x \in 0..(n - 1) PROVE x % n = x /\ (x + n) % n = x
  OBVIOUS
<1>2. ASSUME NEW step \in Nat PROVE ((i - 1 + step) % n) + 1 \in 1..n
  <2>1. i - 1 + step \in Nat
    OBVIOUS
  <2>2. (i - 1 + step) % n \in 0..(n - 1)
    BY <2>1
  <2>. QED  BY <2>2
<1>3. ASSUME NEW p \in 1..n PROVE \E step \in 1..n : ((i - 1 + step) % n) + 1 = p
  <2>1. CASE p > i
    <3>1. p - i \in 1..n /\ i - 1 + (p - i) = p - 1 /\ p - 1 \in 0..(n - 1) /\ p - 1 + 1 = p
      BY <2>1
    <3>2. (p - 1) % n = p - 1
      BY <1>1, <3>1
    <3>3. ((i - 1 + (p - i)) % n) + 1 = p
      BY <3>1, <3>2
    <3>. QED  BY <3>1, <3>3
  <2>2. CASE p <= i
    <3>1. /\ p - i + n \in 1..n /\ i - 1 + (p - i + n) = (p - 1) + n
          /\ p - 1 \in 0..(n - 1) /\ p - 1 + 1 = p
      BY <2>2
    <3>2. ((p - 1) + n) % n = p - 1
      BY <1>1, <3>1
    <3>3. ((i - 1 + (p - i + n)) % n) + 1 = p
      BY <3>1, <3>2
    <3>. QED  BY <3>1, <3>3
  <2>. QED  BY <2>1, <2>2
<1>. QED  BY <1>2, <1>3

\* The order lists exactly the participants, and its index is one of its places.
Formed(enc) ==
    LET n == Len(enc.order) IN
    /\ enc \in EncounterStates
    /\ n \in Nat \ {0} /\ enc.index \in 1..n
    /\ \A i \in 1..n : enc.order[i] \in DOMAIN enc.participants
    /\ \A a \in DOMAIN enc.participants : \E i \in 1..n : enc.order[i] = a

\* The participants of an encounter after an action of one of them.
Previews(enc) == [DOMAIN enc.participants -> ParticipantStates]

\* If anybody stands, the next on turn does: the search goes once around the table.
LEMMA NextStands ==
    ASSUME NEW enc, Formed(enc), NEW parts \in Previews(enc), Standing(parts) # {}
    PROVE  /\ NextLiving(enc, parts) \in 1..Len(enc.order)
           /\ enc.order[NextLiving(enc, parts)] \in Standing(parts)
<1>. DEFINE n == Len(enc.order)
            Place(step) == ((enc.index - 1 + step) % n) + 1
            Stands(step) == enc.order[Place(step)] \in Standing(parts)
            First(step) == Stands(step) /\ \A k \in 1..(step - 1) : ~Stands(k)
            T == {step \in 1..n : Stands(step)}
<1>1. n \in Nat \ {0} /\ enc.index \in 1..n
  BY DEF Formed
<1>2. T # {}
  <2>1. PICK a \in Standing(parts) : TRUE
    OBVIOUS
  <2>2. a \in DOMAIN enc.participants
    BY <2>1 DEF Standing, Previews
  <2>3. PICK p \in 1..n : enc.order[p] = a
    BY <2>2 DEF Formed
  <2>4. \E step \in 1..n : Place(step) = p
    BY <1>1, AroundTable
  <2>. QED  BY <2>3, <2>4
<1>3. PICK m \in T : \A k \in T : m <= k
  <2>1. T \in SUBSET Nat
    OBVIOUS
  <2>. HIDE DEF T
  <2>. QED  BY <1>2, <2>1, NatMin
<1>4. m \in 1..n /\ First(m)
  <2>1. m \in 1..n /\ Stands(m)
    BY <1>3
  <2>2. ASSUME NEW k \in 1..(m - 1) PROVE ~Stands(k)
    <3>1. k \in 1..n /\ k < m
      BY <1>1, <2>1
    <3>. QED  BY <1>3, <3>1
  <2>. QED  BY <2>1, <2>2
<1>5. PICK c : c = CHOOSE step \in 1..n : First(step)
  OBVIOUS
<1>6. c \in 1..n /\ Stands(c)
  <2>. HIDE DEF First
  <2>1. c \in 1..n /\ First(c)
    BY <1>4, <1>5
  <2>. QED  BY <2>1 DEF First
<1>7. NextLiving(enc, parts) = Place(c)
  BY <1>5 DEF NextLiving
<1>8. Place(c) \in 1..n
  <2>1. c \in Nat
    BY <1>1, <1>6
  <2>. QED  BY <1>1, <2>1, AroundTable
<1>. QED  BY <1>6, <1>7, <1>8

-----------------------------------------------------------------------------
(* What an action does *)

\* An encounter that is formed, field by field.
LEMMA FormedFields ==
    ASSUME NEW enc, Formed(enc)
    PROVE  /\ enc = [status |-> enc.status, winner |-> enc.winner, version |-> enc.version,
                     round |-> enc.round, index |-> enc.index, order |-> enc.order,
                     participants |-> enc.participants]
           /\ enc.status \in {"active", "completed"} /\ enc.winner \in STRING \cup {Nothing}
           /\ enc.version \in Nat /\ enc.round \in Nat /\ enc.index \in Nat
           /\ enc.order \in Seq(Actors) /\ enc.participants \in Rosters
           /\ DOMAIN enc.participants \in SUBSET Actors
           /\ enc.participants \in [DOMAIN enc.participants -> ParticipantStates]
           /\ Previews(enc) \subseteq Rosters
<1>1. enc \in EncounterStates
  BY DEF Formed
<1>2. enc.participants \in Rosters
  BY <1>1 DEF EncounterStates
<1>3. PICK named \in SUBSET Actors : enc.participants \in [named -> ParticipantStates]
  BY <1>2 DEF Rosters
<1>4. Previews(enc) \subseteq Rosters
  BY <1>3 DEF Previews, Rosters
<1>. QED  BY <1>1, <1>2, <1>3, <1>4 DEF EncounterStates

\* They are finitely many, and so are the sides of those who stand.
LEMMA FewSides ==
    ASSUME NEW enc, Formed(enc), NEW parts \in Previews(enc)
    PROVE  /\ IsFiniteSet(SidesStanding(parts)) /\ Cardinality(SidesStanding(parts)) \in Nat
           /\ IsFiniteSet(DOMAIN enc.participants)
           /\ SidesStanding(parts) \subseteq STRING
<1>. DEFINE n == Len(enc.order)
            seat == [i \in 1..n |-> enc.order[i]]
            everybody == DOMAIN enc.participants
            fallback == [a \in Standing(parts) |-> parts[a].side]
<1>1. IsFiniteSet(1..n)
  <2>1. n \in Int
    BY DEF Formed
  <2>. QED  BY <2>1, FS_Interval
<1>2. seat \in Surjection(1..n, everybody)
  BY DEF Formed, Surjection
<1>3. IsFiniteSet(everybody)
  BY <1>1, <1>2, FS_Surjection
<1>4. IsFiniteSet(Standing(parts))
  <2>1. Standing(parts) \subseteq everybody
    BY DEF Standing, Previews
  <2>. QED  BY <1>3, <2>1, FS_Subset
<1>5. fallback \in Surjection(Standing(parts), SidesStanding(parts))
  BY DEF SidesStanding, Surjection
<1>6. IsFiniteSet(SidesStanding(parts))
  BY <1>4, <1>5, FS_Surjection
<1>7. SidesStanding(parts) \subseteq STRING
  BY DEF SidesStanding, Standing, Previews, ParticipantStates
<1>. QED  BY <1>3, <1>6, <1>7, FS_CardinalityType

\* The encounter e after an action that left its participants as parts.
Settled(e, parts) ==
    \E new \in EncounterStates :
        /\ encounters' = [encounters EXCEPT ![e] = new]
        /\ new.participants = parts /\ new.order = encounters[e].order
        /\ new.version = encounters[e].version + 2
        /\ Formed(new)
        /\ \/ /\ new.status = "completed" /\ SidesStanding(parts) = {new.winner}
              /\ actors' = Rewarded(parts, new.winner)
           \/ /\ new.status = "active" /\ actors' = actors
              /\ Cardinality(SidesStanding(parts)) >= 2
              /\ parts[new.order[new.index]].hp > 0

\* The record that the end of an encounter leaves, in full.
LEMMA EndedRecord ==
    ASSUME NEW enc, enc \in EncounterStates, NEW parts, NEW winner
    PROVE  [enc EXCEPT !.participants = parts, !.status = "completed", !.winner = winner,
                       !.version = @ + 2]
             = [status |-> "completed", winner |-> winner, version |-> enc.version + 2,
                round |-> enc.round, index |-> enc.index, order |-> enc.order,
                participants |-> parts]
<1>. DEFINE ended == [enc EXCEPT !.participants = parts, !.status = "completed",
                                  !.winner = winner, !.version = @ + 2]
<1>1. DOMAIN enc = {"status", "winner", "version", "round", "index", "order", "participants"}
  BY DEF EncounterStates
<1>2. ended = [f \in DOMAIN ended |-> ended[f]] /\ DOMAIN ended = DOMAIN enc
  OBVIOUS
<1>3. /\ ended.status = "completed" /\ ended.winner = winner /\ ended.version = enc.version + 2
      /\ ended.round = enc.round /\ ended.index = enc.index /\ ended.order = enc.order
      /\ ended.participants = parts
  BY <1>1
<1>. HIDE DEF ended
<1>4. ended = [status |-> "completed", winner |-> winner, version |-> enc.version + 2,
               round |-> enc.round, index |-> enc.index, order |-> enc.order,
               participants |-> parts]
  BY <1>1, <1>2, <1>3
<1>. QED  BY <1>4 DEF ended

LEMMA SettleEffect ==
    ASSUME NEW e \in Encounters, Formed(encounters[e]), encounters[e].status = "active",
           NEW parts \in Previews(encounters[e]), Settle(e, parts)
    PROVE  Settled(e, parts)
<1>. DEFINE enc == encounters[e]
            sides == SidesStanding(parts)
<1>1. IsFiniteSet(sides) /\ Cardinality(sides) \in Nat /\ sides \subseteq STRING
  BY FewSides
<1>2. /\ enc = [status |-> enc.status, winner |-> enc.winner, version |-> enc.version,
                round |-> enc.round, index |-> enc.index, order |-> enc.order,
                participants |-> enc.participants]
      /\ enc.version \in Nat /\ enc.round \in Nat /\ enc.index \in Nat
      /\ enc.order \in Seq(Actors) /\ enc.winner \in STRING \cup {Nothing}
      /\ parts \in Rosters /\ DOMAIN parts = DOMAIN enc.participants
  BY FormedFields DEF Previews
<1>3. CASE Cardinality(sides) = 1
  <2>1. Complete(e, parts)
    BY <1>3 DEF Settle
  <2>2. PICK winner \in sides :
            /\ encounters' = [encounters EXCEPT ![e] =
                   [enc EXCEPT !.participants = parts, !.status = "completed",
                               !.winner = winner, !.version = @ + 2]]
            /\ actors' = Rewarded(parts, winner)
    BY <2>1 DEF Complete
  <2>. DEFINE new == [status |-> "completed", winner |-> winner, version |-> enc.version + 2,
                      round |-> enc.round, index |-> enc.index, order |-> enc.order,
                      participants |-> parts]
  <2>3. [enc EXCEPT !.participants = parts, !.status = "completed",
                    !.winner = winner, !.version = @ + 2] = new
    BY EndedRecord DEF Formed
  <2>4. new \in EncounterStates
    BY <1>1, <1>2 DEF EncounterStates
  <2>5. Formed(new)
    BY <1>2, <2>4 DEF Formed
  <2>6. sides = {winner}
    BY <1>1, <1>3, FS_Singleton
  <2>7. encounters' = [encounters EXCEPT ![e] = new]
    BY <2>2, <2>3
  <2>. QED  BY <2>2, <2>4, <2>5, <2>6, <2>7 DEF Settled
<1>4. CASE Cardinality(sides) # 1
  <2>. DEFINE next == NextLiving(enc, parts)
              round == IF next <= enc.index THEN enc.round + 1 ELSE enc.round
              new == [status |-> "active", winner |-> enc.winner, version |-> enc.version + 2,
                      round |-> round, index |-> next, order |-> enc.order,
                      participants |-> parts]
  <2>1. AdvanceTurn(e, parts)
    BY <1>4 DEF Settle
  <2>2. Standing(parts) # {} /\ actors' = actors
    BY <2>1 DEF AdvanceTurn
  <2>3. encounters' = [encounters EXCEPT ![e] =
                          [enc EXCEPT !.participants = parts, !.index = next, !.round = round,
                                      !.version = @ + 2]]
    BY <2>1 DEF AdvanceTurn
  <2>4. next \in 1..Len(enc.order) /\ enc.order[next] \in Standing(parts)
    BY <2>2, NextStands
  <2>5. next \in Nat /\ round \in Nat
    BY <1>2, <2>4
  <2>. HIDE DEF next
  <2>. HIDE DEF round
  <2>6. [enc EXCEPT !.participants = parts, !.index = next, !.round = round,
                    !.version = @ + 2] = new
    <3>. DEFINE turned == [enc EXCEPT !.participants = parts, !.index = next, !.round = round,
                                      !.version = @ + 2]
    <3>1. DOMAIN enc = {"status", "winner", "version", "round", "index", "order", "participants"}
      BY DEF Formed, EncounterStates
    <3>2. enc.status = "active"
      OBVIOUS
    <3>. HIDE DEF enc
    <3>3. turned = [f \in DOMAIN turned |-> turned[f]] /\ DOMAIN turned = DOMAIN enc
      OBVIOUS
    <3>4. /\ turned.status = enc.status /\ turned.winner = enc.winner
          /\ turned.version = enc.version + 2 /\ turned.round = round /\ turned.index = next
          /\ turned.order = enc.order /\ turned.participants = parts
      BY <3>1
    <3>. HIDE DEF turned
    <3>5. turned = new
      BY <3>1, <3>2, <3>3, <3>4
    <3>. QED  BY <3>5 DEF turned
  <2>7. new \in EncounterStates
    BY <1>2, <2>5 DEF EncounterStates
  <2>8. Formed(new)
    BY <1>2, <2>4, <2>7 DEF Formed
  <2>9. Cardinality(sides) >= 2
    <3>1. sides # {}
      BY <2>2 DEF SidesStanding
    <3>2. Cardinality(sides) # 0
      BY <1>1, <3>1, FS_EmptySet
    <3>. QED  BY <1>1, <1>4, <3>2
  <2>10. parts[enc.order[next]].hp > 0
    BY <2>4 DEF Standing
  <2>11. encounters' = [encounters EXCEPT ![e] = new]
    BY <2>3, <2>6
  <2>. QED  BY <2>2, <2>7, <2>8, <2>9, <2>10, <2>11 DEF Settled
<1>. QED  BY <1>3, <1>4

\* What any action leaves of the participants: everybody their side, and everybody their
\* stamina but the actor of a power attack.
Spared(enc, parts, a, o) ==
    /\ parts \in Previews(enc)
    /\ \A x \in DOMAIN enc.participants :
          /\ parts[x].side = enc.participants[x].side
          /\ \/ parts[x].stamina = enc.participants[x].stamina
             \/ x = a /\ o.action = "power_attack" /\ parts[x].stamina = enc.participants[x].stamina - 1

\* It leaves the hit points of the actor too, who is not its own target.
LEMMA PreviewEffect ==
    ASSUME NEW e \in Encounters, Formed(encounters[e]),
           NEW a \in Participants(e), NEW o, NEW parts \in Previewed(e, a, o),
           o.action \in {"guard", "move_toward", "attack", "power_attack"},
           o.action = "guard" \/ o.target \in Participants(e)
    PROVE  /\ Spared(encounters[e], parts, a, o)
           /\ o.target # a => parts[a].hp = encounters[e].participants[a].hp
<1>. DEFINE old == encounters[e].participants
            b == o.target
<1>1. \A x \in DOMAIN old : old[x] \in ParticipantStates
  BY FormedFields
<1>2. /\ DOMAIN old \in SUBSET Actors /\ old \in [DOMAIN old -> ParticipantStates]
      /\ a \in DOMAIN old
  BY FormedFields DEF Participants
<1>3. CASE o.action = "guard"
  <2>1. parts = [old EXCEPT ![a].guard = 2]
    BY <1>3 DEF Previewed, Guarding
  <2>2. /\ parts \in [DOMAIN old -> ParticipantStates] /\ parts[a].hp = old[a].hp
        /\ \A x \in DOMAIN old : /\ parts[x].side = old[x].side
                                 /\ parts[x].stamina = old[x].stamina
    BY <1>2, <2>1 DEF ParticipantStates
  <2>. QED  BY <2>2 DEF Spared, Previews
<1>4. CASE o.action = "move_toward"
  <2>1. parts = [old EXCEPT ![a].position = IF old[b].position > @ THEN @ + 1 ELSE @ - 1]
    BY <1>4 DEF Previewed, Moved, At
  <2>2. b \in DOMAIN old
    BY <1>4 DEF Participants
  <2>. QED  BY <1>2, <2>1, <2>2 DEF Spared, Previews, ParticipantStates
<1>5. ASSUME NEW cost \in {0, 1}, NEW damages, parts \in Strikes(e, a, b, cost, damages),
             b \in Participants(e), cost = 0 \/ o.action = "power_attack", damages \subseteq Nat
      PROVE  /\ Spared(encounters[e], parts, a, o)
             /\ b # a => parts[a].hp = old[a].hp
  <2>1. PICK damage \in Nat : parts = Struck(e, a, b, damage, cost)
    BY <1>5 DEF Strikes
  <2>2. b \in DOMAIN old
    BY <1>5 DEF Participants
  <2>. DEFINE weary == [old EXCEPT ![a].stamina = @ - cost]
              hurt == [weary EXCEPT ![b].hp = IF damage >= @ THEN 0 ELSE @ - damage]
  <2>3. weary \in [DOMAIN old -> ParticipantStates]
        /\ \A x \in DOMAIN old :
              /\ weary[x].side = old[x].side /\ weary[x].hp = old[x].hp
              /\ x # a => weary[x].stamina = old[x].stamina
              /\ x = a => weary[x].stamina = old[x].stamina - cost
    BY <1>2, <2>2 DEF ParticipantStates
  <2>. HIDE DEF weary
  <2>4. hurt \in [DOMAIN old -> ParticipantStates]
        /\ \A x \in DOMAIN old : /\ hurt[x].side = weary[x].side
                                 /\ hurt[x].stamina = weary[x].stamina
                                 /\ x # b => hurt[x].hp = weary[x].hp
    BY <2>2, <2>3 DEF ParticipantStates
  <2>5. parts = [hurt EXCEPT ![b].guard = 0]
    BY <2>1 DEF Struck, hurt, weary
  <2>. HIDE DEF hurt
  <2>6. /\ parts \in [DOMAIN old -> ParticipantStates]
        /\ \A x \in DOMAIN old : /\ parts[x].side = hurt[x].side
                                 /\ parts[x].stamina = hurt[x].stamina
                                 /\ parts[x].hp = hurt[x].hp
    BY <2>2, <2>4, <2>5 DEF ParticipantStates
  <2>7. \A x \in DOMAIN old : old[x].stamina \in Int
    BY <1>1 DEF ParticipantStates
  <2>8. Spared(encounters[e], parts, a, o)
    BY <1>5, <2>3, <2>4, <2>6, <2>7 DEF Spared, Previews
  <2>. QED  BY <1>2, <2>3, <2>4, <2>6, <2>8
<1>6. AttackDamage \subseteq Nat /\ PowerDamage \subseteq Nat
  BY DiceAssumption
<1>7. CASE o.action = "attack"
  <2>1. b \in Participants(e) /\ parts \in Strikes(e, a, b, 0, AttackDamage)
    BY <1>7 DEF Previewed
  <2>2. 0 \in {0, 1} /\ 0 = 0
    OBVIOUS
  <2>. QED  BY <1>5, <1>6, <2>1, <2>2, Zenon
<1>8. CASE o.action = "power_attack"
  <2>1. b \in Participants(e) /\ parts \in Strikes(e, a, b, 1, PowerDamage)
    BY <1>8 DEF Previewed
  <2>. QED  BY <1>5, <1>6, <1>8, <2>1
<1>. QED  BY <1>3, <1>4, <1>7, <1>8

-----------------------------------------------------------------------------
(* What an actor is advertised *)

LEMMA Seats ==
    ASSUME NEW e \in Encounters, Formed(encounters[e]), NEW a \in Participants(e)
    PROVE  /\ a \in Actors /\ Rank[a] \in Nat
           /\ At(e, a) \in ParticipantStates
           /\ \A b \in Participants(e) : Distance(e, a, b) \in Nat
           /\ InReach(e, a) \subseteq Enemies(e, a) /\ Enemies(e, a) \subseteq Participants(e)
<1>1. \A x \in Participants(e) : x \in Actors /\ At(e, x) \in ParticipantStates
  BY FormedFields DEF Participants, At
<1>2. \A x \in Participants(e) : At(e, x).position \in Int
  BY <1>1 DEF ParticipantStates
<1>3. \A b \in Participants(e) : Distance(e, a, b) \in Nat
  BY <1>2 DEF Distance
<1>4. Rank[a] \in Nat
  BY <1>1, ActorsAssumption
<1>. QED  BY <1>1, <1>3, <1>4 DEF InReach, Enemies

\* The ranks of those who take part have a bound.
LEMMA RanksBounded ==
    ASSUME NEW e \in Encounters, Formed(encounters[e])
    PROVE  \E m \in Nat : \A b \in Participants(e) : Rank[b] <= m
<1>. DEFINE n == Len(encounters[e].order)
            ranks == [i \in 1..n |-> Rank[encounters[e].order[i]]]
<1>1. n \in Nat
  BY DEF Formed
<1>2. ranks \in [1..n -> Nat]
  BY Seats DEF Formed, Participants
<1>3. PICK m \in Nat : \A i \in 1..n : ranks[i] <= m
  <2>. HIDE DEF n, ranks
  <2>. QED  BY <1>1, <1>2, ListBound
<1>4. ASSUME NEW b \in Participants(e) PROVE Rank[b] <= m
  BY <1>3 DEF Formed, Participants
<1>. QED  BY <1>4

\* The nearest enemy is one.
LEMMA NearestFound ==
    ASSUME NEW e \in Encounters, Formed(encounters[e]), NEW a \in Participants(e),
           Enemies(e, a) # {}
    PROVE  Nearest(e, a) \in Enemies(e, a)
<1>. DEFINE far(b) == Distance(e, a, b)
            Far == {far(b) : b \in Enemies(e, a)}
<1>1. \A b \in Enemies(e, a) : b \in Actors /\ far(b) \in Nat /\ Rank[b] \in Nat
  BY Seats
<1>2. PICK d \in Far : \A k \in Far : d <= k
  <2>1. Far \in SUBSET Nat /\ Far # {}
    BY <1>1
  <2>. HIDE DEF Far
  <2>. QED  BY <2>1, NatMin
<1>. DEFINE Close == {b \in Enemies(e, a) : far(b) = d}
            Ranks == {Rank[b] : b \in Close}
<1>3. PICK r \in Ranks : \A k \in Ranks : r <= k
  <2>1. Ranks \in SUBSET Nat /\ Ranks # {}
    BY <1>1, <1>2
  <2>. HIDE DEF Ranks
  <2>. QED  BY <2>1, NatMin
<1>4. PICK b \in Close : Rank[b] = r
  BY <1>3
<1>5. ASSUME NEW c \in Enemies(e, a) \ {b} PROVE Before(e, a, b, c)
  <2>1. /\ far(b) = d /\ far(b) \in Nat /\ far(c) \in Nat /\ far(b) <= far(c)
        /\ Rank[b] \in Nat /\ Rank[c] \in Nat
    BY <1>1, <1>2, <1>4
  <2>2. Rank[b] # Rank[c]
    BY <1>1, <1>4, ActorsAssumption
  <2>3. far(b) = far(c) => Rank[b] <= Rank[c]
    BY <1>3, <1>4, <2>1
  <2>. HIDE DEF far
  <2>4. far(b) < far(c) \/ (far(b) = far(c) /\ Rank[b] < Rank[c])
    BY <2>1, <2>2, <2>3
  <2>. QED  BY <2>4 DEF Before, far
<1>6. b \in Enemies(e, a)
  BY <1>4
<1>. QED  BY <1>5, <1>6 DEF Nearest

\* So is the last of those within reach.
LEMMA LastFound ==
    ASSUME NEW e \in Encounters, Formed(encounters[e]), NEW a \in Participants(e),
           InReach(e, a) # {}
    PROVE  LastInReach(e, a) \in InReach(e, a)
<1>. DEFINE far(b) == Distance(e, a, b)
            Far == {far(b) : b \in InReach(e, a)}
<1>1. \A b \in InReach(e, a) : b \in Actors /\ far(b) \in Nat /\ far(b) <= 1 /\ Rank[b] \in Nat
  BY Seats DEF InReach
<1>2. PICK d \in Far : \A k \in Far : k <= d
  <2>1. Far \in SUBSET Nat /\ Far # {} /\ \A k \in Far : k <= 1
    BY <1>1
  <2>. HIDE DEF Far
  <2>. QED  BY <2>1, NatMax
<1>. DEFINE Distant == {b \in InReach(e, a) : far(b) = d}
            Ranks == {Rank[b] : b \in Distant}
<1>3. PICK r \in Ranks : \A k \in Ranks : k <= r
  <2>1. PICK m \in Nat : \A b \in Participants(e) : Rank[b] <= m
    BY RanksBounded
  <2>2. Ranks \in SUBSET Nat /\ Ranks # {} /\ \A k \in Ranks : k <= m
    BY <1>1, <1>2, <2>1, Seats
  <2>. HIDE DEF Ranks
  <2>. QED  BY <2>2, NatMax
<1>4. PICK b \in Distant : Rank[b] = r
  BY <1>3
<1>5. ASSUME NEW c \in InReach(e, a) \ {b} PROVE Before(e, a, c, b)
  <2>1. /\ far(b) = d /\ far(b) \in Nat /\ far(c) \in Nat /\ far(c) <= far(b)
        /\ Rank[b] \in Nat /\ Rank[c] \in Nat
    BY <1>1, <1>2, <1>4
  <2>2. Rank[b] # Rank[c]
    BY <1>1, <1>4, ActorsAssumption
  <2>3. far(b) = far(c) => Rank[c] <= Rank[b]
    BY <1>3, <1>4, <2>1
  <2>. HIDE DEF far
  <2>4. far(c) < far(b) \/ (far(c) = far(b) /\ Rank[c] < Rank[b])
    BY <2>1, <2>2, <2>3
  <2>. QED  BY <2>4 DEF Before, far
<1>6. b \in InReach(e, a)
  BY <1>4
<1>. QED  BY <1>5, <1>6 DEF LastInReach

\* Whatever is advertised but guard has an enemy that stands for a target, and a power
\* attack an attacker with stamina.
Sound(e, a, o) ==
    \/ o = Option("guard", Nothing)
    \/ /\ o.target \in Enemies(e, a)
       /\ \/ o = Option("move_toward", o.target)
          \/ o = Option("attack", o.target)
          \/ o = Option("power_attack", o.target) /\ At(e, a).stamina > 0

LEMMA OptionsSound ==
    ASSUME NEW e \in Encounters, Formed(encounters[e]), NEW a \in Participants(e),
           NEW o \in OptionsIn(e, a)
    PROVE  Sound(e, a, o)
<1>1. Enemies(e, a) # {}
  BY DEF OptionsIn
<1>2. Nearest(e, a) \in Enemies(e, a)
  BY <1>1, NearestFound
<1>3. InReach(e, a) \subseteq Enemies(e, a)
  BY DEF InReach
<1>4. CASE o = Option("guard", Nothing)
  BY <1>4 DEF Sound
<1>5. CASE o = Option("move_toward", Nearest(e, a))
  <2>1. o.target = Nearest(e, a)
    BY <1>5 DEF Option
  <2>. QED  BY <1>2, <1>5, <2>1 DEF Sound
<1>6. ASSUME NEW b \in InReach(e, a), o = Option("attack", b) PROVE Sound(e, a, o)
  <2>1. o.target = b
    BY <1>6 DEF Option
  <2>. QED  BY <1>3, <1>6, <2>1 DEF Sound
<1>7. ASSUME NEW b \in InReach(e, a), o = Option("power_attack", b), At(e, a).stamina > 0
      PROVE  Sound(e, a, o)
  <2>1. o.target = b
    BY <1>7 DEF Option
  <2>. QED  BY <1>3, <1>7, <2>1 DEF Sound
<1>. QED  BY <1>1, <1>4, <1>5, <1>6, <1>7 DEF OptionsIn

\* What a controller picks is on its list.
LEMMA ChoiceAdvertised ==
    ASSUME NEW a, ConsultedBy(a) \in Encounters, Formed(encounters[ConsultedBy(a)]),
           a \in Participants(ConsultedBy(a)), AvailableActions(a) # {}
    PROVE  Choice(a) \in AvailableActions(a)
<1>. DEFINE e == ConsultedBy(a)
<1>1. Enemies(e, a) # {} /\ AvailableActions(a) = OptionsIn(e, a)
  BY DEF AvailableActions, OptionsIn
<1>2. InReach(e, a) # {} => LastInReach(e, a) \in InReach(e, a)
  BY LastFound
<1>. QED  BY <1>1, <1>2 DEF Choice, OptionsIn

\* The list is that of an encounter where the actor is on turn, and of the first.
LEMMA ConsultedFirst ==
    ASSUME NEW a, born \in Seq(Encounters), NEW i \in DOMAIN born, OnTurn(born[i], a)
    PROVE  \E k \in DOMAIN born : /\ ConsultedBy(a) = born[k] /\ OnTurn(born[k], a)
                                  /\ k <= i
<1>. DEFINE T == {k \in DOMAIN born : OnTurn(born[k], a)}
            First(k) == OnTurn(born[k], a) /\ \A j \in 1..(k - 1) : ~OnTurn(born[j], a)
<1>1. DOMAIN born = 1..Len(born) /\ Len(born) \in Nat
  OBVIOUS
<1>2. PICK m \in T : \A k \in T : m <= k
  <2>1. T \in SUBSET Nat /\ T # {}
    BY <1>1
  <2>. HIDE DEF T
  <2>. QED  BY <2>1, NatMin
<1>3. m \in DOMAIN born /\ First(m)
  <2>1. ASSUME NEW j \in 1..(m - 1) PROVE ~OnTurn(born[j], a)
    <3>1. j \in DOMAIN born /\ ~(m <= j)
      BY <1>1, <1>2
    <3>. QED  BY <1>2, <3>1
  <2>. QED  BY <1>2, <2>1
<1>4. PICK c : c = CHOOSE k \in DOMAIN born : First(k)
  OBVIOUS
<1>5. c \in DOMAIN born /\ First(c)
  <2>. HIDE DEF First
  <2>. QED  BY <1>3, <1>4
<1>6. c <= i
  <2>1. ~(i \in 1..(c - 1))
    BY <1>5
  <2>. QED  BY <1>1, <1>5, <2>1
<1>7. ConsultedBy(a) = born[c]
  BY <1>4 DEF ConsultedBy
<1>. QED  BY <1>5, <1>6, <1>7

-----------------------------------------------------------------------------
(* Types *)

ActorStates ==
    [max_hp: Int, attack_bonus: Int, defense: Int, victories: Nat, points: Nat]

NpcKeys == [encounter: Encounters, version: Nat, actor: Actors]

Options ==
    [action: {"guard", "move_toward", "attack", "power_attack"}, target: Actors \cup {Nothing}]

DriveStates == [doing: {"drive"}, encounter: Encounters, taken: Nat]
ActStates == [doing: {"act"}, encounter: Encounters, taken: Nat, actor: Actors,
              key: NpcKeys, option: Options]

TypeOK ==
    /\ encounters \in [Encounters -> EncounterStates \cup {Nothing}]
    /\ born \in Seq(Encounters)
    /\ actors \in [Actors -> ActorStates]
    /\ npcKeys \subseteq NpcKeys
    /\ task \in [Tasks -> {Resting} \cup DriveStates \cup ActStates]
    /\ failures \subseteq Encounters \X {"refused", "limit", "helpless"}
    /\ advances \in [Actors -> Nat]

\* Every live encounter is formed, and the dict lists the live ones.
TablesFormed ==
    /\ \A e \in Encounters : Live(e) => Formed(encounters[e])
    /\ \A i \in DOMAIN born : Live(born[i])
    /\ \A e \in Encounters : Live(e) => \E i \in DOMAIN born : born[i] = e

SInv == TypeOK /\ TablesFormed

\* Nothing is no encounter, and whoever is on turn takes part.
LEMMA ActiveFormed ==
    ASSUME TablesFormed, NEW e \in Encounters, Active(e)
    PROVE  /\ Formed(encounters[e]) /\ encounters[e] \in EncounterStates
           /\ encounters[e].status = "active" /\ Current(e) \in Participants(e)
           /\ Current(e) \in Actors
<1>1. Formed(encounters[e]) /\ encounters[e].status = "active"
  BY DEF TablesFormed, Active
<1>2. encounters[e] \in EncounterStates
  BY <1>1 DEF Formed
<1>3. Current(e) \in Participants(e)
  BY <1>1 DEF Formed, Current, Participants
<1>4. Current(e) \in Actors
  BY <1>1, <1>3, Seats
<1>. QED  BY <1>1, <1>2, <1>3, <1>4

\* The encounter consulted for an actor on turn.
LEMMA Consulted ==
    ASSUME SInv, NEW e \in Encounters, NEW a, OnTurn(e, a)
    PROVE  /\ ConsultedBy(a) \in Encounters /\ Formed(encounters[ConsultedBy(a)])
           /\ OnTurn(ConsultedBy(a), a)
           /\ a \in Participants(ConsultedBy(a)) /\ a \in Participants(e) /\ a \in Actors
<1>1. Active(e) /\ Current(e) = a /\ born \in Seq(Encounters)
  BY DEF OnTurn, SInv, TypeOK
<1>2. PICK i \in DOMAIN born : born[i] = e
  BY <1>1 DEF SInv, TablesFormed, Active
<1>3. PICK k \in DOMAIN born : ConsultedBy(a) = born[k] /\ OnTurn(born[k], a)
  BY <1>1, <1>2, ConsultedFirst
<1>4. born[k] \in Encounters /\ Active(born[k]) /\ Current(born[k]) = a
  BY <1>1, <1>3 DEF OnTurn
<1>. QED  BY <1>1, <1>3, <1>4, ActiveFormed DEF SInv

\* What an admitted action may do to the participants, and whom it leaves alone.
LEMMA AdmittedPreview ==
    ASSUME SInv, NEW e \in Encounters, NEW a, NEW o, Admits(e, a, o)
    PROVE  /\ Formed(encounters[e]) /\ Active(e) /\ a \in Actors /\ a \in Participants(e)
           /\ Sound(ConsultedBy(a), a, o)
           /\ \A parts \in Previewed(e, a, o) :
                 /\ Spared(encounters[e], parts, a, o)
                 /\ parts[a].hp = encounters[e].participants[a].hp
<1>1. OnTurn(e, a) /\ Active(e) /\ o \in AvailableActions(a)
  BY DEF Admits, OnTurn
<1>2. Formed(encounters[e]) /\ encounters[e].status = "active"
  BY <1>1, ActiveFormed DEF SInv
<1>3. Sound(ConsultedBy(a), a, o)
  BY <1>1, Consulted, OptionsSound DEF AvailableActions
<1>4. o.action = "guard" \/ o.target \in Participants(e)
  <2>1. CASE o = Option("guard", Nothing)
    BY <2>1 DEF Option
  <2>2. CASE o.target \in Enemies(ConsultedBy(a), a)
    <3>1. o.target \in Actors
      BY <1>1, <2>2, Consulted, Seats
    <3>2. o.target # Nothing
      BY <3>1, NothingAssumption
    <3>. QED  BY <3>2 DEF Admits
  <2>. QED  BY <1>3, <2>1, <2>2 DEF Sound
<1>5. a \in Participants(e) /\ a \in Actors
  BY <1>1, Consulted
<1>6. o.action \in {"guard", "move_toward", "attack", "power_attack"} /\ o.target # a
  <2>1. CASE o = Option("guard", Nothing)
    BY <1>5, <2>1, NothingAssumption DEF Option
  <2>2. CASE o.target \in Enemies(ConsultedBy(a), a) /\ o # Option("guard", Nothing)
    BY <1>3, <2>2 DEF Sound, Option, Enemies
  <2>. QED  BY <1>3, <2>1, <2>2 DEF Sound
<1>. QED  BY <1>1, <1>2, <1>3, <1>4, <1>5, <1>6, PreviewEffect

\* What it does to its encounter and its actor.
LEMMA AdmittedEffect ==
    ASSUME SInv, NEW e \in Encounters, NEW a, NEW o, Admits(e, a, o), Resolve(e, a, o)
    PROVE  /\ Formed(encounters[e]) /\ Active(e) /\ a \in Actors /\ a \in Participants(e)
           /\ Sound(ConsultedBy(a), a, o)
           /\ \E parts : Spared(encounters[e], parts, a, o) /\ Settled(e, parts)
<1>1. PICK parts \in Previewed(e, a, o) : Settle(e, parts)
  BY DEF Resolve
<1>2. /\ Formed(encounters[e]) /\ encounters[e].status = "active"
      /\ Spared(encounters[e], parts, a, o)
  BY AdmittedPreview DEF Active
<1>3. Settled(e, parts)
  BY <1>1, <1>2, SettleEffect DEF Spared
<1>. QED  BY <1>2, <1>3, AdmittedPreview

-----------------------------------------------------------------------------
(* The kinds of step *)

\* The record a new encounter starts from.
LEMMA StartedFormed ==
    ASSUME TypeOK, NEW lineup \in Lineups, Len(lineup) >= 2
    PROVE  /\ Formed(Started(lineup)) /\ Started(lineup).status = "active"
           /\ Started(lineup).version = 1
<1>. DEFINE n == Len(lineup)
            named == {lineup[i].actor : i \in DOMAIN lineup}
            Wins(a, i) == /\ lineup[i].actor = a
                          /\ \A j \in DOMAIN lineup : lineup[j].actor = a => j <= i
            Last(a) == CHOOSE i \in DOMAIN lineup : Wins(a, i)
            order == [i \in DOMAIN lineup |-> lineup[i].actor]
            participants == [a \in named |-> Participant(lineup[Last(a)])]
<1>. DEFINE Entries == [actor: Actors, side: STRING, position: Int, stamina: Int]
<1>1. lineup \in Seq(Entries) /\ n \in Nat \ {0} /\ DOMAIN lineup = 1..n
  <2>1. lineup \in Seq(Entries)
    BY LineupsAssumption
  <2>. HIDE DEF Entries
  <2>. QED  BY <2>1
<1>2. \A i \in 1..n : lineup[i] \in Entries
  <2>. HIDE DEF Entries
  <2>. QED  BY <1>1
<1>3. ASSUME NEW p \in Entries
      PROVE  Participant(p) \in ParticipantStates
  <2>1. actors[p.actor].max_hp \in Int
    BY DEF TypeOK, ActorStates
  <2>. QED  BY <2>1 DEF Participant, ParticipantStates
<1>4. ASSUME NEW a \in named PROVE Last(a) \in 1..n
  <2>. DEFINE T == {i \in 1..n : lineup[i].actor = a}
  <2>1. PICK m \in T : \A k \in T : k <= m
    <3>1. T \in SUBSET Nat /\ T # {} /\ n \in Nat /\ \A k \in T : k <= n
      BY <1>1
    <3>. HIDE DEF T
    <3>. QED  BY <3>1, NatMax
  <2>2. m \in DOMAIN lineup /\ Wins(a, m)
    BY <1>1, <2>1
  <2>. HIDE DEF Wins
  <2>. QED  BY <1>1, <2>2
<1>. HIDE DEF Last
<1>5. named \in SUBSET Actors
  BY <1>1, <1>2
<1>6. participants \in [named -> ParticipantStates]
  BY <1>2, <1>3, <1>4
<1>7. participants \in Rosters
  BY <1>5, <1>6 DEF Rosters
<1>8. order \in Seq(Actors) /\ Len(order) = n /\ \A i \in 1..n : order[i] = lineup[i].actor
  BY <1>1, <1>2
<1>9. Started(lineup) = [status |-> "active", winner |-> Nothing, version |-> 1, round |-> 1,
                         index |-> 1, order |-> order, participants |-> participants]
  BY DEF Started, Last
<1>. DEFINE new == Started(lineup)
<1>10. /\ new.order = order /\ new.participants = participants /\ new.index = 1
       /\ new.version = 1 /\ new.status = "active"
  BY <1>9
<1>11. new \in EncounterStates
  BY <1>7, <1>8, <1>9 DEF EncounterStates
<1>12. (\A i \in 1..n : order[i] \in named) /\ \A a \in named : \E i \in 1..n : order[i] = a
  BY <1>1, <1>8
<1>13. DOMAIN participants = named
  OBVIOUS
<1>. HIDE DEF new, order, participants, named
<1>14. Formed(new)
  BY <1>1, <1>8, <1>10, <1>11, <1>12, <1>13 DEF Formed
<1>. QED  BY <1>6, <1>10, <1>13, <1>14 DEF new

\* A new encounter: the rest stays, and it is the last of the dict.
Begins(t, e) ==
    \E new \in EncounterStates :
        /\ ~Live(e) /\ Formed(new) /\ new.status = "active" /\ new.version = 1
        /\ encounters' = [encounters EXCEPT ![e] = new] /\ born' = Append(born, e)
        /\ task[t] = Resting /\ task' = [task EXCEPT ![t] = Driving(e)]
        /\ UNCHANGED <<actors, npcKeys, failures, advances>>

\* An admitted action, a client's or a controller's.
Acts(t, e, a, o) ==
    /\ Admits(e, a, o) /\ Resolve(e, a, o)
    /\ task[t] = Resting \/ (task[t] \in ActStates /\ task[t].encounter = e /\ task[t].actor = a)
    /\ \E taken \in Nat : task' = [task EXCEPT ![t] = [doing |-> "drive", encounter |-> e, taken |-> taken]]
    /\ npcKeys' = npcKeys \cup (IF task[t] = Resting THEN {} ELSE {task[t].key})
    /\ UNCHANGED <<born, failures, advances>>

\* A request that comes to rest: over, or with a failure on record.
Rests(t) ==
    /\ task[t] \in DriveStates \cup ActStates
    /\ task' = [task EXCEPT ![t] = Resting]
    /\ \/ ~NpcOnTurn(task[t].encounter) /\ failures' = failures
       \/ \E reason \in {"refused", "limit", "helpless"} :
             failures' = failures \cup {<<task[t].encounter, reason>>}
    /\ npcKeys' \in SUBSET NpcKeys
    /\ UNCHANGED <<encounters, born, actors, advances>>

\* A controller picks.
Picks(t) ==
    /\ task[t] \in DriveStates /\ NpcOnTurn(task[t].encounter)
    /\ \E request \in ActStates : /\ request.encounter = task[t].encounter
                                  /\ task' = [task EXCEPT ![t] = request]
    /\ UNCHANGED <<encounters, born, actors, npcKeys, failures, advances>>

LEMMA TaskType ==
    ASSUME TypeOK, NEW t \in Tasks
    PROVE  /\ task[t] = Resting \/ task[t] \in DriveStates \/ task[t] \in ActStates
           /\ task[t].doing = "drive" => task[t] \in DriveStates
           /\ task[t].doing = "act" => task[t] \in ActStates
           /\ task[t] \in DriveStates \cup ActStates =>
                 task[t].encounter \in Encounters /\ task[t] # Resting
<1>1. task[t] = Resting \/ task[t] \in DriveStates \/ task[t] \in ActStates
  BY DEF TypeOK
<1>2. task[t] = Resting => task[t].doing = "nothing"
  BY DEF Resting
<1>3. task[t] \in DriveStates => task[t].doing = "drive" /\ task[t].encounter \in Encounters
  BY DEF DriveStates
<1>4. task[t] \in ActStates => task[t].doing = "act" /\ task[t].encounter \in Encounters
  BY DEF ActStates
<1>. QED  BY <1>1, <1>2, <1>3, <1>4

LEMMA StepKinds ==
    ASSUME SInv, Next
    PROVE  \E t \in Tasks :
              \/ \E e \in Encounters : Begins(t, e)
              \/ \E e \in Encounters : \E a, o : Acts(t, e, a, o)
              \/ \E a \in Actors : AdvanceActor(t, a)
              \/ Rests(t)
              \/ Picks(t)
<1>1. ASSUME NEW t \in Tasks, NEW e \in Encounters, NEW lineup \in Lineups,
             StartEncounter(t, e, lineup)
      PROVE  Begins(t, e)
  <2>. DEFINE new == Started(lineup)
  <2>1. /\ ~Live(e) /\ encounters' = [encounters EXCEPT ![e] = new] /\ born' = Append(born, e)
        /\ task[t] = Resting /\ task' = [task EXCEPT ![t] = Driving(e)] /\ Len(lineup) >= 2
        /\ UNCHANGED <<actors, npcKeys, failures, advances>>
    BY <1>1 DEF StartEncounter, Unused
  <2>2. Formed(new) /\ new.status = "active" /\ new.version = 1
    BY <2>1, StartedFormed DEF SInv
  <2>3. new \in EncounterStates
    BY <2>2 DEF Formed
  <2>. HIDE DEF new
  <2>. QED  BY <2>1, <2>2, <2>3 DEF Begins
<1>2. ASSUME NEW t \in Tasks, NEW e \in Encounters, NEW a \in Actors, PerformAction(t, e, a)
      PROVE  \E o : Acts(t, e, a, o)
  <2>1. PICK o : Admits(e, a, o) /\ Resolve(e, a, o)
    BY <1>2 DEF PerformAction
  <2>2. /\ task[t] = Resting /\ npcKeys' = npcKeys /\ UNCHANGED <<born, failures, advances>>
        /\ task' = [task EXCEPT ![t] = [doing |-> "drive", encounter |-> e, taken |-> 0]]
    BY <1>2 DEF PerformAction, Driving
  <2>. QED  BY <2>1, <2>2 DEF Acts
<1>3. ASSUME NEW t \in Tasks, DriveAct(t)
      PROVE  \E e \in Encounters : \E a, o : Acts(t, e, a, o)
  <2>. DEFINE e == task[t].encounter
              a == task[t].actor
              o == task[t].option
              n == task[t].taken + 1
  <2>1. task[t] \in ActStates /\ e \in Encounters /\ task[t] # Resting
    BY <1>3, TaskType DEF DriveAct, SInv
  <2>2. n \in Nat
    BY <2>1 DEF ActStates
  <2>3. [Driving(e) EXCEPT !.taken = n] = [doing |-> "drive", encounter |-> e, taken |-> n]
    BY DEF Driving
  <2>4. task' = [task EXCEPT ![t] = [doing |-> "drive", encounter |-> e, taken |-> n]]
    BY <1>3, <2>3 DEF DriveAct
  <2>5. /\ Admits(e, a, o) /\ Resolve(e, a, o) /\ npcKeys' = npcKeys \cup {task[t].key}
        /\ UNCHANGED <<born, failures, advances>>
    BY <1>3 DEF DriveAct
  <2>6. Acts(t, e, a, o)
    BY <2>1, <2>2, <2>4, <2>5 DEF Acts
  <2>. QED  BY <2>1, <2>6
<1>4. ASSUME NEW t \in Tasks, DriveDone(t) \/ DriveRefused(t) \/ DriveExhausted(t) \/ DriveHelpless(t)
      PROVE  Rests(t)
  <2>1. task[t] \in DriveStates \cup ActStates
    BY <1>4, TaskType
       DEF DriveDone, DriveRefused, DriveExhausted, DriveHelpless, Drives, DrivesOn, SInv
  <2>2. DriveRefused(t) => task[t].key \in NpcKeys
    BY TaskType DEF DriveRefused, SInv, ActStates
  <2>3. npcKeys' \in SUBSET NpcKeys
    BY <1>4, <2>2 DEF DriveDone, DriveRefused, DriveExhausted, DriveHelpless, SInv, TypeOK
  <2>4. \/ ~NpcOnTurn(task[t].encounter) /\ failures' = failures
        \/ failures' = failures \cup {<<task[t].encounter, "refused">>}
        \/ failures' = failures \cup {<<task[t].encounter, "limit">>}
        \/ failures' = failures \cup {<<task[t].encounter, "helpless">>}
    BY <1>4 DEF DriveDone, DriveRefused, DriveExhausted, DriveHelpless, HandsOver
  <2>5. task' = [task EXCEPT ![t] = Resting] /\ UNCHANGED <<encounters, born, actors, advances>>
    BY <1>4 DEF DriveDone, DriveRefused, DriveExhausted, DriveHelpless
  <2>. QED  BY <2>1, <2>3, <2>4, <2>5 DEF Rests
<1>5. ASSUME NEW t \in Tasks, DriveChoose(t) PROVE Picks(t)
  <2>. DEFINE e == task[t].encounter
              a == Current(e)
              request == [doing |-> "act", encounter |-> e, taken |-> task[t].taken, actor |-> a,
                          key |-> Key(e, a), option |-> Choice(a)]
  <2>1. /\ task[t] \in DriveStates /\ e \in Encounters /\ task[t].taken \in Nat
    BY <1>5, TaskType DEF DriveChoose, Drives, DrivesOn, SInv, DriveStates
  <2>2. OnTurn(e, a) /\ Active(e) /\ NpcOnTurn(e) /\ AvailableActions(a) # {}
    BY <1>5 DEF DriveChoose, NpcOnTurn, OnTurn
  <2>3. /\ ConsultedBy(a) \in Encounters /\ Formed(encounters[ConsultedBy(a)])
        /\ a \in Participants(ConsultedBy(a)) /\ a \in Actors
    BY <2>1, <2>2, Consulted
  <2>4. Choice(a) \in OptionsIn(ConsultedBy(a), a)
    BY <2>2, <2>3, ChoiceAdvertised DEF AvailableActions
  <2>5. Choice(a) \in Options
    <3>1. Sound(ConsultedBy(a), a, Choice(a))
      BY <2>3, <2>4, OptionsSound
    <3>2. Enemies(ConsultedBy(a), a) \subseteq Actors
      BY <2>3, Seats
    <3>. QED  BY <3>1, <3>2 DEF Sound, Option, Options
  <2>6. Key(e, a) \in NpcKeys
    <3>1. encounters[e] \in EncounterStates
      BY <2>1, <2>2, ActiveFormed DEF SInv
    <3>. QED  BY <2>1, <2>3, <3>1 DEF Key, NpcKeys, EncounterStates
  <2>7. request \in ActStates
    BY <2>1, <2>3, <2>5, <2>6 DEF ActStates
  <2>8. request.encounter = e
    OBVIOUS
  <2>9. task' = [task EXCEPT ![t] = request]
    BY <1>5 DEF DriveChoose
  <2>10. UNCHANGED <<encounters, born, actors, npcKeys, failures, advances>>
    BY <1>5 DEF DriveChoose
  <2>. HIDE DEF request
  <2>. QED  BY <2>1, <2>2, <2>7, <2>8, <2>9, <2>10 DEF Picks
<1>. QED  BY <1>1, <1>2, <1>3, <1>4, <1>5 DEF Next, Drive

-----------------------------------------------------------------------------
(* Types and tables are kept *)

\* One encounter rewritten by a formed record leaves the others alone.
LEMMA OneRewritten ==
    ASSUME TypeOK, NEW e \in Encounters, NEW new \in EncounterStates,
           encounters' = [encounters EXCEPT ![e] = new]
    PROVE  /\ encounters'[e] = new /\ \A f \in Encounters \ {e} : encounters'[f] = encounters[f]
           /\ encounters' \in [Encounters -> EncounterStates \cup {Nothing}]
           /\ new # Nothing
<1>1. /\ encounters'[e] = new /\ \A f \in Encounters \ {e} : encounters'[f] = encounters[f]
      /\ encounters' \in [Encounters -> EncounterStates \cup {Nothing}]
  BY DEF TypeOK
<1>2. new # Nothing
  BY NothingAssumption
<1>. QED  BY <1>1, <1>2

LEMMA RewardedType ==
    ASSUME actors \in [Actors -> ActorStates], NEW parts, NEW winner
    PROVE  Rewarded(parts, winner) \in [Actors -> ActorStates]
<1>1. ASSUME NEW x \in ActorStates
      PROVE  [x EXCEPT !.victories = @ + 1, !.points = @ + 1] \in ActorStates
  <2>1. x.victories + 1 \in Nat /\ x.points + 1 \in Nat
    BY DEF ActorStates
  <2>. QED  BY <2>1 DEF ActorStates
<1>2. ASSUME NEW a \in Actors
      PROVE  [actors[a] EXCEPT !.victories = @ + 1, !.points = @ + 1] \in ActorStates
  <2>1. PICK x \in ActorStates : x = actors[a]
    OBVIOUS
  <2>2. [x EXCEPT !.victories = @ + 1, !.points = @ + 1] \in ActorStates
    BY <1>1
  <2>. QED  BY <2>1, <2>2, Zenon
<1>. QED  BY <1>2 DEF Rewarded

LEMMA ActorAdvanced ==
    ASSUME TypeOK, NEW t, NEW a \in Actors, AdvanceActor(t, a)
    PROVE  /\ actors' \in [Actors -> ActorStates] /\ advances' \in [Actors -> Nat]
           /\ actors'[a].points = actors[a].points - 1 /\ advances'[a] = advances[a] + 1
           /\ actors'[a].victories = actors[a].victories
           /\ \A b \in Actors \ {a} : actors'[b] = actors[b] /\ advances'[b] = advances[b]
           /\ UNCHANGED <<encounters, born, npcKeys, task, failures>>
<1>1. PICK x : x = actors[a]
  OBVIOUS
<1>2. /\ x.points \in Nat /\ x.points >= 1 /\ x.attack_bonus \in Int /\ x.max_hp \in Int
      /\ x.defense \in Int /\ x.victories \in Nat
      /\ DOMAIN x = {"max_hp", "attack_bonus", "defense", "victories", "points"}
  BY <1>1 DEF AdvanceActor, TypeOK, ActorStates
<1>3. \E y : /\ actors' = [actors EXCEPT ![a] = y]
             /\ y = [f \in DOMAIN y |-> y[f]] /\ DOMAIN y = DOMAIN x
             /\ y.points = x.points - 1 /\ y.victories = x.victories
             /\ y.attack_bonus \in Int /\ y.max_hp \in Int /\ y.defense \in Int
  <2>1. CASE actors' = [actors EXCEPT ![a].points = @ - 1, ![a].attack_bonus = @ + 1]
    <3>. DEFINE y == [x EXCEPT !.points = @ - 1, !.attack_bonus = @ + 1]
    <3>1. actors' = [actors EXCEPT ![a] = y]
      BY <1>1, <2>1 DEF TypeOK
    <3>2. y = [f \in DOMAIN y |-> y[f]] /\ DOMAIN y = DOMAIN x
      OBVIOUS
    <3>3. /\ y.points = x.points - 1 /\ y.victories = x.victories
          /\ y.attack_bonus \in Int /\ y.max_hp \in Int /\ y.defense \in Int
      BY <1>2
    <3>. HIDE DEF y
    <3>. QED  BY <3>1, <3>2, <3>3
  <2>2. CASE actors' = [actors EXCEPT ![a].points = @ - 1, ![a].max_hp = @ + 4]
    <3>. DEFINE y == [x EXCEPT !.points = @ - 1, !.max_hp = @ + 4]
    <3>1. actors' = [actors EXCEPT ![a] = y]
      BY <1>1, <2>2 DEF TypeOK
    <3>2. y = [f \in DOMAIN y |-> y[f]] /\ DOMAIN y = DOMAIN x
      OBVIOUS
    <3>3. /\ y.points = x.points - 1 /\ y.victories = x.victories
          /\ y.attack_bonus \in Int /\ y.max_hp \in Int /\ y.defense \in Int
      BY <1>2
    <3>. HIDE DEF y
    <3>. QED  BY <3>1, <3>2, <3>3
  <2>3. CASE actors' = [actors EXCEPT ![a].points = @ - 1, ![a].defense = @ + 1]
    <3>. DEFINE y == [x EXCEPT !.points = @ - 1, !.defense = @ + 1]
    <3>1. actors' = [actors EXCEPT ![a] = y]
      BY <1>1, <2>3 DEF TypeOK
    <3>2. y = [f \in DOMAIN y |-> y[f]] /\ DOMAIN y = DOMAIN x
      OBVIOUS
    <3>3. /\ y.points = x.points - 1 /\ y.victories = x.victories
          /\ y.attack_bonus \in Int /\ y.max_hp \in Int /\ y.defense \in Int
      BY <1>2
    <3>. HIDE DEF y
    <3>. QED  BY <3>1, <3>2, <3>3
  <2>. QED  BY <2>1, <2>2, <2>3 DEF AdvanceActor
<1>4. PICK y : /\ actors' = [actors EXCEPT ![a] = y]
               /\ y = [f \in DOMAIN y |-> y[f]] /\ DOMAIN y = DOMAIN x
               /\ y.points = x.points - 1 /\ y.victories = x.victories
               /\ y.attack_bonus \in Int /\ y.max_hp \in Int /\ y.defense \in Int
  BY <1>3
<1>5. y \in ActorStates
  <2>1. y = [max_hp |-> y.max_hp, attack_bonus |-> y.attack_bonus, defense |-> y.defense,
             victories |-> y.victories, points |-> y.points]
    BY <1>2, <1>4
  <2>2. y.points \in Nat /\ y.victories \in Nat
    BY <1>2, <1>4
  <2>. QED  BY <1>4, <2>1, <2>2 DEF ActorStates
<1>6. advances' = [advances EXCEPT ![a] = @ + 1] /\ UNCHANGED <<encounters, born, npcKeys, task, failures>>
  BY DEF AdvanceActor
<1>. QED  BY <1>1, <1>4, <1>5, <1>6 DEF TypeOK

LEMMA InitSInv == Init => SInv
<1>. SUFFICES ASSUME Init PROVE SInv
  OBVIOUS
<1>1. \A a \in Actors : [max_hp |-> MaxHp[a], attack_bonus |-> Bonus[a], defense |-> Defense[a],
                         victories |-> 0, points |-> 0] \in ActorStates
  BY ActorsAssumption DEF ActorStates
<1>2. actors \in [Actors -> ActorStates]
  BY <1>1 DEF Init
<1>3. TypeOK
  <2>1. /\ encounters \in [Encounters -> EncounterStates \cup {Nothing}]
        /\ born \in Seq(Encounters) /\ advances \in [Actors -> Nat]
    BY DEF Init
  <2>2. task \in [Tasks -> {Resting} \cup DriveStates \cup ActStates]
    BY DEF Init
  <2>3. npcKeys = {} /\ failures = {}
    BY DEF Init
  <2>. QED  BY <1>2, <2>1, <2>2, <2>3 DEF TypeOK
<1>4. (\A e \in Encounters : ~Live(e)) /\ DOMAIN born = {}
  BY DEF Init, Live
<1>5. TablesFormed
  BY <1>4 DEF TablesFormed
<1>. QED  BY <1>3, <1>5 DEF SInv

LEMMA BeginsSInv ==
    ASSUME SInv, NEW t \in Tasks, NEW e \in Encounters, Begins(t, e) PROVE SInv'
<1>1. PICK new \in EncounterStates :
          /\ Formed(new) /\ encounters' = [encounters EXCEPT ![e] = new] /\ born' = Append(born, e)
          /\ task' = [task EXCEPT ![t] = Driving(e)]
          /\ UNCHANGED <<actors, npcKeys, failures, advances>>
  BY DEF Begins
<1>2. /\ encounters'[e] = new /\ \A f \in Encounters \ {e} : encounters'[f] = encounters[f]
      /\ encounters' \in [Encounters -> EncounterStates \cup {Nothing}]
      /\ new # Nothing
  BY <1>1, OneRewritten DEF SInv
<1>3. Driving(e) \in DriveStates
  BY DEF Driving, DriveStates
<1>4. born \in Seq(Encounters) /\ born' \in Seq(Encounters)
  BY <1>1 DEF SInv, TypeOK
<1>5. TypeOK'
  BY <1>1, <1>2, <1>3, <1>4 DEF SInv, TypeOK
<1>6. /\ Len(born') = Len(born) + 1 /\ born'[Len(born) + 1] = e
      /\ \A i \in DOMAIN born : i \in DOMAIN born' /\ born'[i] = born[i]
      /\ \A i \in DOMAIN born' : i \in DOMAIN born \/ i = Len(born) + 1
      /\ Len(born) + 1 \in DOMAIN born'
  BY <1>1, <1>4
<1>7. \A f \in Encounters : encounters'[f] # Nothing => Formed(encounters'[f])
  BY <1>1, <1>2 DEF SInv, TablesFormed, Live
<1>8. ASSUME NEW i \in DOMAIN born' PROVE encounters'[born'[i]] # Nothing
  <2>1. CASE i \in DOMAIN born
    <3>1. born[i] \in Encounters /\ encounters[born[i]] # Nothing
      BY <1>4, <2>1 DEF SInv, TablesFormed, Live
    <3>. QED  BY <1>2, <1>6, <2>1, <3>1
  <2>2. CASE i = Len(born) + 1
    BY <1>2, <1>6, <2>2
  <2>. QED  BY <1>6, <2>1, <2>2
<1>9. ASSUME NEW f \in Encounters, encounters'[f] # Nothing PROVE \E i \in DOMAIN born' : born'[i] = f
  <2>1. CASE f = e
    BY <1>6, <2>1
  <2>2. CASE f # e
    <3>1. encounters[f] # Nothing
      BY <1>2, <1>9, <2>2
    <3>. QED  BY <1>6, <3>1 DEF SInv, TablesFormed, Live
  <2>. QED  BY <2>1, <2>2
<1>10. TablesFormed'
  BY <1>7, <1>8, <1>9 DEF TablesFormed, Formed, Live
<1>. QED  BY <1>5, <1>10 DEF SInv

LEMMA ActsSInv ==
    ASSUME SInv, NEW t \in Tasks, NEW e \in Encounters, NEW a, NEW o, Acts(t, e, a, o)
    PROVE  SInv'
<1>1. Active(e) /\ \E parts : Settled(e, parts)
  BY AdmittedEffect DEF Acts
<1>2. PICK new \in EncounterStates :
          /\ Formed(new) /\ encounters' = [encounters EXCEPT ![e] = new]
          /\ actors' = actors \/ \E parts, winner : actors' = Rewarded(parts, winner)
  BY <1>1 DEF Settled
<1>3. /\ encounters'[e] = new /\ \A f \in Encounters \ {e} : encounters'[f] = encounters[f]
      /\ encounters' \in [Encounters -> EncounterStates \cup {Nothing}]
      /\ new # Nothing
  BY <1>2, OneRewritten DEF SInv
<1>4. actors' \in [Actors -> ActorStates]
  BY <1>2, RewardedType DEF SInv, TypeOK
<1>5. npcKeys' \subseteq NpcKeys
  <2>1. task[t] # Resting => task[t].key \in NpcKeys
    BY DEF Acts, ActStates
  <2>. QED  BY <2>1 DEF Acts, SInv, TypeOK
<1>6. task' \in [Tasks -> {Resting} \cup DriveStates \cup ActStates]
  <2>1. PICK n \in Nat : task' = [task EXCEPT ![t] = [doing |-> "drive", encounter |-> e, taken |-> n]]
    BY DEF Acts
  <2>2. [doing |-> "drive", encounter |-> e, taken |-> n] \in DriveStates
    BY DEF DriveStates
  <2>. QED  BY <2>1, <2>2 DEF SInv, TypeOK
<1>7. born' = born /\ failures' = failures /\ advances' = advances
  BY DEF Acts
<1>8. TypeOK'
  BY <1>3, <1>4, <1>5, <1>6, <1>7 DEF SInv, TypeOK
<1>9. Live(e) /\ born \in Seq(Encounters)
  BY <1>1 DEF Active, SInv, TypeOK
<1>10. \A f \in Encounters :
          /\ encounters'[f] # Nothing <=> encounters[f] # Nothing
          /\ encounters'[f] # Nothing => Formed(encounters'[f])
  BY <1>2, <1>3, <1>9 DEF SInv, TablesFormed, Live
<1>11. \A i \in DOMAIN born : encounters'[born[i]] # Nothing
  <2>1. \A i \in DOMAIN born : born[i] \in Encounters /\ encounters[born[i]] # Nothing
    BY <1>9 DEF SInv, TablesFormed, Live
  <2>. QED  BY <1>10, <2>1
<1>12. TablesFormed'
  BY <1>7, <1>10, <1>11 DEF TablesFormed, Formed, SInv, Live
<1>. QED  BY <1>8, <1>12 DEF SInv

LEMMA NextSInv == SInv /\ [Next]_vars => SInv'
<1>. SUFFICES ASSUME SInv, [Next]_vars PROVE SInv'
  OBVIOUS
<1>1. ASSUME UNCHANGED <<encounters, born>>, TypeOK' PROVE SInv'
  BY <1>1 DEF SInv, TablesFormed, Live, Formed
<1>2. CASE UNCHANGED vars
  BY <1>1, <1>2 DEF vars, SInv, TypeOK
<1>3. CASE Next
  <2>1. PICK t \in Tasks : \/ \E e \in Encounters : Begins(t, e)
                           \/ \E e \in Encounters : \E a, o : Acts(t, e, a, o)
                           \/ \E a \in Actors : AdvanceActor(t, a)
                           \/ Rests(t)
                           \/ Picks(t)
    BY <1>3, StepKinds
  <2>2. ASSUME NEW a \in Actors, AdvanceActor(t, a) PROVE SInv'
    <3>1. TypeOK' /\ UNCHANGED <<encounters, born>>
      BY <2>2, ActorAdvanced DEF SInv, TypeOK
    <3>. QED  BY <1>1, <3>1
  <2>3. CASE Rests(t)
    <3>1. failures' \subseteq Encounters \X {"refused", "limit", "helpless"}
      BY <2>3, TaskType DEF Rests, SInv, TypeOK
    <3>2. task' \in [Tasks -> {Resting} \cup DriveStates \cup ActStates]
      BY <2>3 DEF Rests, SInv, TypeOK
    <3>3. TypeOK' /\ UNCHANGED <<encounters, born>>
      BY <2>3, <3>1, <3>2 DEF Rests, SInv, TypeOK
    <3>. QED  BY <1>1, <3>3
  <2>4. CASE Picks(t)
    <3>1. TypeOK' /\ UNCHANGED <<encounters, born>>
      BY <2>4 DEF Picks, SInv, TypeOK
    <3>. QED  BY <1>1, <3>1
  <2>. QED  BY <2>1, <2>2, <2>3, <2>4, BeginsSInv, ActsSInv
<1>. QED  BY <1>2, <1>3

\* What an admitted action leaves of its encounter, as one record.
LEMMA ActsEffect ==
    ASSUME SInv, NEW t \in Tasks, NEW e \in Encounters, NEW a, NEW o, Acts(t, e, a, o)
    PROVE  \E new \in EncounterStates :
              /\ encounters' = [encounters EXCEPT ![e] = new] /\ Formed(new)
              /\ encounters[e] # Nothing /\ encounters[e].status = "active"
              /\ encounters'[e] = new /\ \A f \in Encounters \ {e} : encounters'[f] = encounters[f]
              /\ new # Nothing /\ Spared(encounters[e], new.participants, a, o)
              /\ new.version = encounters[e].version + 2
              /\ \/ /\ new.status = "completed" /\ SidesStanding(new.participants) = {new.winner}
                    /\ actors' = Rewarded(new.participants, new.winner)
                 \/ /\ new.status = "active" /\ actors' = actors
                    /\ Cardinality(SidesStanding(new.participants)) >= 2
                    /\ new.participants[new.order[new.index]].hp > 0
<1>1. PICK parts : Spared(encounters[e], parts, a, o) /\ Settled(e, parts)
  BY AdmittedEffect DEF Acts
<1>2. encounters[e] # Nothing /\ encounters[e].status = "active"
  BY AdmittedEffect DEF Acts, Active, Live
<1>3. PICK new \in EncounterStates :
        /\ encounters' = [encounters EXCEPT ![e] = new]
        /\ new.participants = parts
        /\ new.version = encounters[e].version + 2
        /\ Formed(new)
        /\ \/ /\ new.status = "completed" /\ SidesStanding(parts) = {new.winner}
              /\ actors' = Rewarded(parts, new.winner)
           \/ /\ new.status = "active" /\ actors' = actors
              /\ Cardinality(SidesStanding(parts)) >= 2
              /\ parts[new.order[new.index]].hp > 0
  BY <1>1 DEF Settled
<1>4. /\ encounters'[e] = new /\ \A f \in Encounters \ {e} : encounters'[f] = encounters[f]
      /\ new # Nothing
  BY <1>3, OneRewritten DEF SInv
<1>. QED  BY <1>1, <1>2, <1>3, <1>4

-----------------------------------------------------------------------------
(* Who is on turn, and who won *)

\* What DecidedByLastStanding and TurnHolderAlive say of one encounter.
Outcome(enc) ==
    LET sides == SidesStanding(enc.participants) IN
    IF enc.status = "active"
      THEN \/ enc.version = 1
           \/ Cardinality(sides) >= 2 /\ enc.participants[enc.order[enc.index]].hp > 0
      ELSE sides = {enc.winner}

Outcomes == \A e \in Encounters : encounters[e] # Nothing => Outcome(encounters[e])

LEMMA NextOutcomes == SInv /\ Outcomes /\ [Next]_vars => Outcomes'
<1>. SUFFICES ASSUME SInv, Outcomes, [Next]_vars PROVE Outcomes'
  OBVIOUS
<1>1. CASE UNCHANGED encounters
  BY <1>1 DEF Outcomes, Outcome, SidesStanding, Standing
<1>2. ASSUME NEW e \in Encounters, NEW new, Outcome(new), encounters'[e] = new,
             \A f \in Encounters \ {e} : encounters'[f] = encounters[f]
      PROVE  Outcomes'
  <2>1. \A f \in Encounters : encounters'[f] # Nothing => Outcome(encounters'[f])
    BY <1>2 DEF Outcomes
  <2>. QED  BY <2>1 DEF Outcomes, Outcome, SidesStanding, Standing
<1>3. ASSUME NEW t \in Tasks, NEW e \in Encounters, Begins(t, e) PROVE Outcomes'
  <2>1. PICK new \in EncounterStates : /\ new.status = "active" /\ new.version = 1
                                       /\ encounters' = [encounters EXCEPT ![e] = new]
    BY <1>3 DEF Begins
  <2>2. Outcome(new)
    BY <2>1 DEF Outcome
  <2>3. encounters'[e] = new /\ \A f \in Encounters \ {e} : encounters'[f] = encounters[f]
    BY <2>1, OneRewritten DEF SInv
  <2>. QED  BY <1>2, <2>2, <2>3
<1>4. ASSUME NEW t \in Tasks, NEW e \in Encounters, NEW a, NEW o, Acts(t, e, a, o)
      PROVE  Outcomes'
  <2>1. PICK new :
            /\ encounters'[e] = new /\ \A f \in Encounters \ {e} : encounters'[f] = encounters[f]
            /\ \/ new.status = "completed" /\ SidesStanding(new.participants) = {new.winner}
               \/ /\ new.status = "active" /\ Cardinality(SidesStanding(new.participants)) >= 2
                  /\ new.participants[new.order[new.index]].hp > 0
    BY <1>4, ActsEffect
  <2>2. Outcome(new)
    BY <2>1 DEF Outcome
  <2>. QED  BY <1>2, <2>1, <2>2
<1>5. CASE UNCHANGED vars
  BY <1>1, <1>5 DEF vars
<1>6. CASE Next
  <2>1. PICK t \in Tasks : \/ \E e \in Encounters : Begins(t, e)
                           \/ \E e \in Encounters : \E a, o : Acts(t, e, a, o)
                           \/ \E a \in Actors : AdvanceActor(t, a)
                           \/ Rests(t)
                           \/ Picks(t)
    BY <1>6, StepKinds
  <2>2. (\E a \in Actors : AdvanceActor(t, a)) \/ Rests(t) \/ Picks(t) => UNCHANGED encounters
    BY DEF AdvanceActor, Rests, Picks
  <2>. QED  BY <1>1, <1>3, <1>4, <2>1, <2>2
<1>. QED  BY <1>5, <1>6

LEMMA OutcomesHold == Spec => [](SInv /\ Outcomes)
<1>1. Init => SInv /\ Outcomes
  BY InitSInv DEF Init, Outcomes
<1>2. SInv /\ Outcomes /\ [Next]_vars => (SInv /\ Outcomes)'
  BY NextSInv, NextOutcomes
<1>. QED  BY <1>1, <1>2, PTL DEF Spec

\* Every value of every variable stays of its type: an encounter is a formed record, and
\* what a controller is about to do an action of a participant.
THEOREM Typed == Spec => []TypeOK
<1>1. SInv => TypeOK
  BY DEF SInv
<1>. QED  BY <1>1, OutcomesHold, PTL

\* For any line-up, dice and damage: _next_living_turn never gives the turn to a fallen
\* participant, and only one put on turn by EncounterStarted can be down.
THEOREM TurnsGoToTheStanding == Spec => []TurnHolderAlive
<1>1. SInv /\ Outcomes => TurnHolderAlive
  BY DEF Outcomes, Outcome, TurnHolderAlive, JustStarted, Active, Live, At, Current
<1>. QED  BY <1>1, OutcomesHold, PTL

\* For any line-up, dice and damage: once somebody acted, an encounter goes on exactly
\* while two sides stand, and the winner on record is the one side left.
THEOREM LastSideWins == Spec => []DecidedByLastStanding
<1>1. SInv /\ Outcomes => DecidedByLastStanding
  BY DEF Outcomes, Outcome, DecidedByLastStanding, JustStarted, Active, Live
<1>. QED  BY <1>1, OutcomesHold, PTL

-----------------------------------------------------------------------------
(* Rewards *)

\* The encounters actor a won on its feet.
Won(a) ==
    {e \in Encounters : /\ Live(e) /\ ~Active(e) /\ a \in Participants(e)
                        /\ At(e, a).hp > 0 /\ At(e, a).side = encounters[e].winner}

Rewards ==
    \A a \in Actors : /\ actors[a].victories = Cardinality(Won(a))
                      /\ actors[a].points = actors[a].victories - advances[a]

LEMMA WonFinite ==
    ASSUME SInv, NEW a PROVE IsFiniteSet(Won(a)) /\ Cardinality(Won(a)) \in Nat
<1>. DEFINE listed == {born[i] : i \in DOMAIN born}
            place == [i \in DOMAIN born |-> born[i]]
<1>1. IsFiniteSet(DOMAIN born)
  <2>1. DOMAIN born = 1..Len(born) /\ Len(born) \in Int
    BY DEF SInv, TypeOK
  <2>. QED  BY <2>1, FS_Interval
<1>2. place \in Surjection(DOMAIN born, listed)
  BY DEF Surjection
<1>3. IsFiniteSet(listed)
  BY <1>1, <1>2, FS_Surjection
<1>4. Won(a) \subseteq listed
  BY DEF Won, SInv, TablesFormed
<1>. QED  BY <1>3, <1>4, FS_Subset, FS_CardinalityType

\* An encounter's record says whether its actor a won it.
Winner(enc, a) ==
    /\ enc # Nothing /\ enc.status # "active" /\ a \in DOMAIN enc.participants
    /\ enc.participants[a].hp > 0 /\ enc.participants[a].side = enc.winner

LEMMA WonIs == ASSUME NEW a PROVE Won(a) = {e \in Encounters : Winner(encounters[e], a)}
  BY DEF Won, Winner, Live, Active, Participants, At

LEMMA NextRewards == SInv /\ Rewards /\ [Next]_vars => Rewards'
<1>. SUFFICES ASSUME SInv, Rewards, [Next]_vars PROVE Rewards'
  OBVIOUS
<1>. DEFINE W(x) == {e \in Encounters : Winner(encounters[e], x)}
            V(x) == {e \in Encounters : Winner(encounters'[e], x)}
<1>1. \A x : Won(x) = W(x)
  BY WonIs
<1>2. \A x : Won(x)' = V(x)
  BY DEF Won, Winner, Live, Active, Participants, At
<1>3. \A x \in Actors : /\ actors[x].victories = Cardinality(W(x)) /\ IsFiniteSet(W(x))
                        /\ actors[x].points = actors[x].victories - advances[x]
                        /\ actors[x].victories \in Nat /\ actors[x].points \in Nat
                        /\ advances[x] \in Nat /\ Cardinality(W(x)) \in Nat
  BY <1>1, WonFinite DEF Rewards, SInv, TypeOK, ActorStates
<1>4. SUFFICES \A x \in Actors :
                  /\ actors'[x].victories = Cardinality(V(x))
                  /\ actors'[x].points = actors'[x].victories - advances'[x]
  BY <1>2 DEF Rewards
<1>5. CASE UNCHANGED <<encounters, actors, advances>>
  BY <1>3, <1>5
<1>6. ASSUME NEW t \in Tasks, NEW e \in Encounters, Begins(t, e),
             NEW x \in Actors
      PROVE  /\ actors'[x].victories = Cardinality(V(x))
             /\ actors'[x].points = actors'[x].victories - advances'[x]
  <2>1. PICK new \in EncounterStates : /\ new.status = "active"
                                       /\ encounters' = [encounters EXCEPT ![e] = new]
    BY <1>6 DEF Begins
  <2>2. encounters'[e] = new /\ \A f \in Encounters \ {e} : encounters'[f] = encounters[f]
    BY <2>1, OneRewritten DEF SInv
  <2>3. encounters[e] = Nothing /\ actors' = actors /\ advances' = advances
    BY <1>6 DEF Begins, Live
  <2>4. \A f \in Encounters : Winner(encounters'[f], x) <=> Winner(encounters[f], x)
    BY <2>1, <2>2, <2>3 DEF Winner
  <2>5. V(x) = W(x)
    BY <2>4
  <2>. QED  BY <1>3, <2>3, <2>5
<1>7. ASSUME NEW t \in Tasks, NEW e \in Encounters, NEW a, NEW o, Acts(t, e, a, o),
             NEW x \in Actors
      PROVE  /\ actors'[x].victories = Cardinality(V(x))
             /\ actors'[x].points = actors'[x].victories - advances'[x]
  <2>1. PICK new :
            /\ encounters[e].status = "active"
            /\ encounters'[e] = new /\ \A f \in Encounters \ {e} : encounters'[f] = encounters[f]
            /\ new # Nothing
            /\ \/ new.status = "completed" /\ actors' = Rewarded(new.participants, new.winner)
               \/ new.status = "active" /\ actors' = actors
    BY <1>7, ActsEffect
  <2>2. e \notin W(x) /\ advances' = advances
    BY <1>7, <2>1 DEF Winner, Acts
  <2>3. \A f \in Encounters \ {e} : f \in V(x) <=> f \in W(x)
    BY <2>1
  <2>4. CASE new.status = "active"
    <3>1. e \notin V(x) /\ actors' = actors
      BY <2>1, <2>4 DEF Winner
    <3>2. V(x) = W(x)
      BY <2>2, <2>3, <3>1
    <3>. QED  BY <1>3, <2>2, <3>1, <3>2
  <2>5. CASE new.status = "completed"
    <3>. DEFINE parts == new.participants
                wins == x \in Standing(parts) /\ parts[x].side = new.winner
    <3>1. actors'[x] = IF wins THEN [actors[x] EXCEPT !.victories = @ + 1, !.points = @ + 1]
                       ELSE actors[x]
      BY <2>1, <2>5 DEF Rewarded
    <3>2. e \in V(x) <=> wins
      BY <2>1, <2>5 DEF Winner, Standing
    <3>3. CASE wins
      <4>1. actors'[x].victories = actors[x].victories + 1 /\ actors'[x].points = actors[x].points + 1
        <5>1. /\ actors[x] \in ActorStates
              /\ actors'[x] = [actors[x] EXCEPT !.victories = @ + 1, !.points = @ + 1]
          BY <3>1, <3>3 DEF SInv, TypeOK
        <5>2. PICK y \in ActorStates : y = actors[x]
          BY <5>1
        <5>3. actors'[x] = [y EXCEPT !.victories = @ + 1, !.points = @ + 1]
          BY <5>1, <5>2
        <5>4. actors'[x].victories = y.victories + 1 /\ actors'[x].points = y.points + 1
          BY <5>3 DEF ActorStates
        <5>. QED  BY <5>2, <5>4
      <4>2. V(x) = W(x) \cup {e}
        BY <2>3, <3>2, <3>3
      <4>3. Cardinality(V(x)) = Cardinality(W(x)) + 1
        BY <1>3, <2>2, <4>2, FS_AddElement
      <4>. QED  BY <1>3, <2>2, <4>1, <4>3
    <3>4. CASE ~wins
      <4>1. actors'[x] = actors[x]
        BY <3>1, <3>4
      <4>2. V(x) = W(x)
        BY <2>2, <2>3, <3>2, <3>4
      <4>. QED  BY <1>3, <2>2, <4>1, <4>2
    <3>. QED  BY <3>3, <3>4
  <2>. QED  BY <2>1, <2>4, <2>5
<1>8. ASSUME NEW t, NEW a \in Actors, AdvanceActor(t, a), NEW x \in Actors
      PROVE  /\ actors'[x].victories = Cardinality(V(x))
             /\ actors'[x].points = actors'[x].victories - advances'[x]
  <2>1. /\ actors'[a].points = actors[a].points - 1 /\ advances'[a] = advances[a] + 1
        /\ actors'[a].victories = actors[a].victories
        /\ \A b \in Actors \ {a} : actors'[b] = actors[b] /\ advances'[b] = advances[b]
        /\ encounters' = encounters
    BY <1>8, ActorAdvanced DEF SInv
  <2>2. V(x) = W(x)
    BY <2>1
  <2>3. CASE x = a
    <3>1. /\ actors'[x].victories = actors[x].victories
          /\ actors'[x].points = actors[x].points - 1 /\ advances'[x] = advances[x] + 1
      BY <2>1, <2>3
    <3>. HIDE DEF W, V
    <3>. QED  BY <1>3, <2>2, <3>1
  <2>4. CASE x # a
    BY <1>3, <2>1, <2>2, <2>4
  <2>. QED  BY <2>3, <2>4
<1>9. CASE UNCHANGED vars
  BY <1>5, <1>9 DEF vars
<1>10. CASE Next
  <2>1. PICK t \in Tasks : \/ \E e \in Encounters : Begins(t, e)
                           \/ \E e \in Encounters : \E a, o : Acts(t, e, a, o)
                           \/ \E a \in Actors : AdvanceActor(t, a)
                           \/ Rests(t)
                           \/ Picks(t)
    BY <1>10, StepKinds
  <2>2. Rests(t) \/ Picks(t) => UNCHANGED <<encounters, actors, advances>>
    BY DEF Rests, Picks
  <2>. QED  BY <1>5, <1>6, <1>7, <1>8, <2>1, <2>2
<1>. QED  BY <1>9, <1>10

\* For any number of encounters and requests: a victory and a progression point for each
\* encounter won on one's feet, never two, less the points that were spent.
THEOREM RewardedOncePerWin == Spec => []RewardsOnce
<1>1. Init => SInv /\ Rewards
  <2>. SUFFICES ASSUME Init PROVE SInv /\ Rewards
    OBVIOUS
  <2>1. \A a : Won(a) = {}
    BY DEF Init, Won, Live
  <2>2. \A a \in Actors : actors[a].victories = 0 /\ actors[a].points = 0 /\ advances[a] = 0
    BY DEF Init
  <2>3. \A a \in Actors : Cardinality(Won(a)) = 0
    BY <2>1, FS_EmptySet
  <2>4. Rewards
    BY <2>2, <2>3 DEF Rewards
  <2>. QED  BY <2>4, InitSInv
<1>2. SInv /\ Rewards /\ [Next]_vars => (SInv /\ Rewards)'
  BY NextSInv, NextRewards
<1>3. Rewards => RewardsOnce
  BY DEF Rewards, RewardsOnce, Won
<1>. QED  BY <1>1, <1>2, <1>3, PTL DEF Spec

-----------------------------------------------------------------------------
(* Hand-over, and resources *)

\* Wherever it is a controller's turn somebody is driving, or a drive failed.
Handled ==
    \A e \in Encounters : NpcOnTurn(e) =>
        \/ \E t \in Tasks : task[t] \in DriveStates \cup ActStates /\ task[t].encounter = e
        \/ \E reason \in {"refused", "limit", "helpless"} : <<e, reason>> \in failures

LEMMA NextHandled == SInv /\ Handled /\ [Next]_vars => Handled'
<1>. SUFFICES ASSUME SInv, Handled, [Next]_vars, NEW e \in Encounters, NpcOnTurn(e)'
     PROVE  \/ \E t \in Tasks : task'[t] \in DriveStates \cup ActStates /\ task'[t].encounter = e
            \/ \E reason \in {"refused", "limit", "helpless"} : <<e, reason>> \in failures'
  BY DEF Handled
<1>. DEFINE Drove(x) == task[x] \in DriveStates \cup ActStates /\ task[x].encounter = e
            Driven(x) == task'[x] \in DriveStates \cup ActStates /\ task'[x].encounter = e
            Told == \E reason \in {"refused", "limit", "helpless"} : <<e, reason>> \in failures
            Tells == \E reason \in {"refused", "limit", "helpless"} : <<e, reason>> \in failures'
<1>1. ASSUME encounters'[e] = encounters[e] PROVE (\E t \in Tasks : Drove(t)) \/ Told
  <2>1. NpcOnTurn(e)
    BY <1>1 DEF NpcOnTurn, Active, Live, Current
  <2>. QED  BY <2>1 DEF Handled
<1>2. ASSUME NEW t \in Tasks, NEW f \in Encounters, NEW r \in DriveStates, r.encounter = f,
             task' = [task EXCEPT ![t] = r], failures' = failures,
             task[t] = Resting \/ task[t].encounter = f,
             \A g \in Encounters \ {f} : encounters'[g] = encounters[g]
      PROVE  (\E x \in Tasks : Driven(x)) \/ Tells
  <2>1. task'[t] = r /\ \A x \in Tasks \ {t} : task'[x] = task[x]
    BY <1>2 DEF SInv, TypeOK
  <2>2. CASE e = f
    BY <1>2, <2>1, <2>2
  <2>3. CASE e # f
    <3>1. (\E x \in Tasks : Drove(x)) \/ Told
      BY <1>1, <1>2, <2>3
    <3>2. CASE Told
      BY <1>2, <3>2
    <3>3. ASSUME NEW x \in Tasks, Drove(x) PROVE Driven(x)
      <4>1. x # t
        BY <1>2, <2>3, <3>3, TaskType DEF SInv
      <4>. QED  BY <2>1, <3>3, <4>1
    <3>. QED  BY <3>1, <3>2, <3>3
  <2>. QED  BY <2>2, <2>3
<1>3. CASE UNCHANGED <<encounters, task, failures>>
  BY <1>1, <1>3
<1>4. ASSUME NEW t \in Tasks, NEW f \in Encounters, Begins(t, f)
      PROVE  (\E x \in Tasks : Driven(x)) \/ Tells
  <2>1. Driving(f) \in DriveStates /\ Driving(f).encounter = f
    BY DEF Driving, DriveStates
  <2>2. /\ task[t] = Resting /\ task' = [task EXCEPT ![t] = Driving(f)] /\ failures' = failures
        /\ \E new \in EncounterStates : encounters' = [encounters EXCEPT ![f] = new]
    BY <1>4 DEF Begins
  <2>3. \A g \in Encounters \ {f} : encounters'[g] = encounters[g]
    BY <2>2, OneRewritten DEF SInv
  <2>. QED  BY <1>2, <2>1, <2>2, <2>3
<1>5. ASSUME NEW t \in Tasks, NEW f \in Encounters, NEW a, NEW o, Acts(t, f, a, o)
      PROVE  (\E x \in Tasks : Driven(x)) \/ Tells
  <2>1. PICK n \in Nat : task' = [task EXCEPT ![t] = [doing |-> "drive", encounter |-> f, taken |-> n]]
    BY <1>5 DEF Acts
  <2>. DEFINE r == [doing |-> "drive", encounter |-> f, taken |-> n]
  <2>2. r \in DriveStates /\ r.encounter = f
    BY DEF DriveStates
  <2>3. /\ task[t] = Resting \/ task[t].encounter = f
        /\ failures' = failures
    BY <1>5 DEF Acts
  <2>4. \A g \in Encounters \ {f} : encounters'[g] = encounters[g]
    BY <1>5, ActsEffect
  <2>5. task' = [task EXCEPT ![t] = r]
    BY <2>1
  <2>. HIDE DEF r
  <2>. QED  BY <1>2, <2>2, <2>3, <2>4, <2>5
<1>6. ASSUME NEW t \in Tasks, Rests(t) PROVE (\E x \in Tasks : Driven(x)) \/ Tells
  <2>1. /\ encounters' = encounters /\ task' = [task EXCEPT ![t] = Resting]
        /\ \/ ~NpcOnTurn(task[t].encounter) /\ failures' = failures
           \/ \E reason \in {"refused", "limit", "helpless"} :
                 failures' = failures \cup {<<task[t].encounter, reason>>}
    BY <1>6 DEF Rests
  <2>2. NpcOnTurn(e) /\ ((\E x \in Tasks : Drove(x)) \/ Told)
    BY <1>1, <2>1 DEF NpcOnTurn, Active, Live, Current
  <2>3. CASE Told
    BY <2>1, <2>3
  <2>4. ASSUME NEW x \in Tasks, Drove(x) PROVE Driven(x) \/ Tells
    <3>1. CASE x = t
      BY <2>1, <2>2, <2>4, <3>1
    <3>2. CASE x # t
      <4>1. task'[x] = task[x]
        BY <2>1, <3>2 DEF SInv, TypeOK
      <4>. QED  BY <2>4, <4>1
    <3>. QED  BY <3>1, <3>2
  <2>. QED  BY <2>2, <2>3, <2>4
<1>7. ASSUME NEW t \in Tasks, Picks(t) PROVE (\E x \in Tasks : Driven(x)) \/ Tells
  <2>1. PICK r \in ActStates : /\ r.encounter = task[t].encounter
                               /\ task' = [task EXCEPT ![t] = r]
    BY <1>7 DEF Picks
  <2>2. encounters' = encounters /\ failures' = failures
    BY <1>7 DEF Picks
  <2>3. task'[t] = r /\ \A x \in Tasks \ {t} : task'[x] = task[x]
    BY <2>1 DEF SInv, TypeOK
  <2>4. ASSUME NEW x \in Tasks, Drove(x) PROVE Driven(x)
    BY <2>1, <2>3, <2>4
  <2>. QED  BY <1>1, <2>2, <2>4
<1>8. CASE UNCHANGED vars
  BY <1>3, <1>8 DEF vars
<1>9. CASE Next
  <2>1. PICK t \in Tasks : \/ \E f \in Encounters : Begins(t, f)
                           \/ \E f \in Encounters : \E a, o : Acts(t, f, a, o)
                           \/ \E a \in Actors : AdvanceActor(t, a)
                           \/ Rests(t)
                           \/ Picks(t)
    BY <1>9, StepKinds
  <2>2. (\E a \in Actors : AdvanceActor(t, a)) => UNCHANGED <<encounters, task, failures>>
    BY DEF AdvanceActor
  <2>. QED  BY <1>3, <1>4, <1>5, <1>6, <1>7, <2>1, <2>2
<1>. QED  BY <1>8, <1>9

\* For any number of requests that interleave: no controller's turn is left behind. When
\* every request has been answered, a controller still on turn is one a failure names.
THEOREM TurnsHandedOver == Spec => []ControllersHandOver
<1>1. Init => SInv /\ Handled
  BY InitSInv DEF Init, Handled, NpcOnTurn, Active, Live
<1>2. SInv /\ Handled /\ [Next]_vars => (SInv /\ Handled)'
  BY NextSInv, NextHandled
<1>3. SInv /\ Handled => ControllersHandOver
  BY TaskType DEF Handled, ControllersHandOver, SInv
<1>. QED  BY <1>1, <1>2, <1>3, PTL DEF Spec

\* What a step takes from a's stamina in the i-th encounter, a has there, or a takes part
\* in an encounter that began earlier.
PaidOrAcross(i, a) ==
    encounters'[born[i]].participants[a].stamina < At(born[i], a).stamina =>
        \/ At(born[i], a).stamina > 0
        \/ \E j \in 1..(i - 1) : a \in Participants(born[j])

LEMMA StepPays ==
    ASSUME SInv, Next, NEW i \in DOMAIN born, NEW a \in Participants(born[i])
    PROVE  PaidOrAcross(i, a)
<1>. DEFINE f == born[i]
<1>1. /\ born \in Seq(Encounters) /\ f \in Encounters /\ Live(f)
      /\ DOMAIN born = 1..Len(born) /\ Len(born) \in Nat
  BY DEF SInv, TypeOK, TablesFormed
<1>2. At(f, a).stamina \in Int
  <2>1. Formed(encounters[f])
    BY <1>1 DEF SInv, TablesFormed
  <2>. QED  BY <1>1, <2>1, Seats DEF ParticipantStates
<1>3. ASSUME encounters'[f] = encounters[f] PROVE PaidOrAcross(i, a)
  BY <1>2, <1>3 DEF PaidOrAcross, At
<1>4. ASSUME NEW t \in Tasks, NEW e \in Encounters, Begins(t, e) PROVE PaidOrAcross(i, a)
  <2>1. PICK new \in EncounterStates :
            ~Live(e) /\ encounters' = [encounters EXCEPT ![e] = new]
    BY <1>4 DEF Begins
  <2>2. f # e
    BY <1>1, <2>1
  <2>. QED  BY <1>1, <1>3, <2>1, <2>2, OneRewritten DEF SInv
<1>5. ASSUME NEW t \in Tasks, NEW e \in Encounters, NEW b, NEW o, Acts(t, e, b, o)
      PROVE  PaidOrAcross(i, a)
  <2>1. PICK new : /\ encounters'[e] = new /\ Spared(encounters[e], new.participants, b, o)
                   /\ \A x \in Encounters \ {e} : encounters'[x] = encounters[x]
    BY <1>5, ActsEffect
  <2>2. CASE f # e
    BY <1>1, <1>3, <2>1, <2>2
  <2>3. CASE f = e /\ new.participants[a].stamina = At(e, a).stamina
    BY <1>2, <2>1, <2>3 DEF PaidOrAcross, At
  <2>4. CASE f = e /\ new.participants[a].stamina # At(e, a).stamina
    <3>1. a = b /\ o.action = "power_attack"
      BY <2>1, <2>4 DEF Spared, Participants, At
    <3>2. OnTurn(f, a) /\ Sound(ConsultedBy(a), a, o)
      BY <1>5, <2>4, <3>1, AdmittedEffect DEF Acts, Admits
    <3>3. PICK k \in DOMAIN born : ConsultedBy(a) = born[k] /\ OnTurn(born[k], a) /\ k <= i
      BY <1>1, <3>2, ConsultedFirst
    <3>4. CASE k = i
      <4>1. At(f, a).stamina > 0
        BY <3>1, <3>2, <3>3, <3>4 DEF Sound, Option
      <4>. QED  BY <4>1 DEF PaidOrAcross
    <3>5. CASE k # i
      <4>1. k \in 1..(i - 1)
        BY <1>1, <3>3, <3>5
      <4>2. a \in Participants(born[k])
        BY <1>1, <3>3, Consulted
      <4>. QED  BY <4>1, <4>2 DEF PaidOrAcross
    <3>. QED  BY <3>4, <3>5
  <2>. QED  BY <2>2, <2>3, <2>4
<1>6. PICK t \in Tasks : \/ \E e \in Encounters : Begins(t, e)
                         \/ \E e \in Encounters : \E b, o : Acts(t, e, b, o)
                         \/ \E b \in Actors : AdvanceActor(t, b)
                         \/ Rests(t)
                         \/ Picks(t)
  BY StepKinds
<1>7. (\E b \in Actors : AdvanceActor(t, b)) \/ Rests(t) \/ Picks(t) => encounters' = encounters
  BY DEF AdvanceActor, Rests, Picks
<1>. QED  BY <1>3, <1>4, <1>5, <1>6, <1>7

\* For any encounters at once, and any stamina participants are listed with, negative too:
\* only an actor that also takes part in an encounter begun earlier spends stamina it does
\* not have.
THEOREM OverspendingNeedsAnEarlierEncounter == Spec => OverspentOnlyAcross
<1>1. SInv /\ [Next]_vars =>
          [\A i \in DOMAIN born : \A a \in Participants(born[i]) : PaidOrAcross(i, a)]_vars
  BY StepPays
<1>2. Spec => [][\A i \in DOMAIN born : \A a \in Participants(born[i]) : PaidOrAcross(i, a)]_vars
  BY <1>1, OutcomesHold, PTL DEF Spec
<1>. QED  BY <1>2 DEF OverspentOnlyAcross, PaidOrAcross

-----------------------------------------------------------------------------
(* What a controller chose is still advertised when it executes *)

\* No actor is on turn in two encounters at once.
Apart == \A e, f \in Encounters : \A a \in Actors : OnTurn(e, a) /\ OnTurn(f, a) => e = f

\* No controller's command had a version later than its encounter's, and while a request
\* works on an encounter, none had as late a one.
KeysBehind(e) == \A k \in npcKeys : k.encounter = e => k.version < encounters[e].version

\* One request at a time; its choice stands and its key is fresh.
Ready ==
    /\ \A t, u \in Tasks : task[t] # Resting /\ task[u] # Resting => t = u
    /\ \A t \in Tasks : task[t] # Resting => KeysBehind(task[t].encounter)
    /\ \A t \in Tasks : task[t] \in ActStates =>
          /\ task[t].key = Key(task[t].encounter, task[t].actor)
          /\ Admits(task[t].encounter, task[t].actor, task[t].option)
    /\ \A k \in npcKeys : /\ encounters[k.encounter] # Nothing
                          /\ k.version <= encounters[k.encounter].version

\* While one request runs the others rest, and go on resting.
LEMMA OthersRest ==
    ASSUME ~Suspends, TypeOK, NEW t \in Tasks, MayRun(t), NEW r, task' = [task EXCEPT ![t] = r]
    PROVE  task'[t] = r /\ \A u \in Tasks \ {t} : task'[u] = Resting
  BY DEF MayRun, TypeOK

\* Unless the step leaves a controller about to act, only the keys are left to look at.
LEMMA StillReady ==
    ASSUME ~Suspends, SInv, Ready, NEW t \in Tasks, MayRun(t), NEW r, r \notin ActStates,
           task' = [task EXCEPT ![t] = r], r # Resting => KeysBehind(r.encounter)',
           \A k \in npcKeys' : /\ encounters'[k.encounter] # Nothing
                               /\ k.version <= encounters'[k.encounter].version
    PROVE  Ready'
<1>1. task'[t] = r /\ \A u \in Tasks \ {t} : task'[u] = Resting
  BY OthersRest DEF SInv
<1>2. Resting \notin ActStates
  BY DEF Resting, ActStates
<1>3. \A u \in Tasks : task'[u] \notin ActStates
  BY <1>1, <1>2
<1>4. \A u, w \in Tasks : task'[u] # Resting /\ task'[w] # Resting => u = w
  BY <1>1
<1>5. \A u \in Tasks : task'[u] # Resting =>
          \A k \in npcKeys' : k.encounter = task'[u].encounter =>
              k.version < encounters'[task'[u].encounter].version
  BY <1>1 DEF KeysBehind
<1>. QED  BY <1>3, <1>4, <1>5 DEF Ready, KeysBehind, ActStates, NpcKeys, Resting

\* What is advertised depends on the encounters and their order alone.
LEMMA SameAdvertised ==
    ASSUME encounters' = encounters, born' = born, NEW e, NEW a, NEW o
    PROVE  Admits(e, a, o)' = Admits(e, a, o) /\ Key(e, a)' = Key(e, a)
<1>1. \A f : OnTurn(f, a)' = OnTurn(f, a)
  BY DEF OnTurn, Active, Live, Current
<1>2. ConsultedBy(a)' = ConsultedBy(a)
  BY <1>1 DEF ConsultedBy
<1>3. \A f, b : /\ At(f, b)' = At(f, b) /\ Distance(f, a, b)' = Distance(f, a, b)
                /\ Participants(f)' = Participants(f)
  BY DEF At, Distance, Participants
<1>4. \A f : Enemies(f, a)' = Enemies(f, a)
  BY <1>3 DEF Enemies
<1>5. \A f : InReach(f, a)' = InReach(f, a)
  BY <1>3, <1>4 DEF InReach
<1>6. \A f, b, c : Before(f, a, b, c)' = Before(f, a, b, c)
  BY <1>3 DEF Before
<1>7. \A f : Nearest(f, a)' = Nearest(f, a)
  BY <1>4, <1>6 DEF Nearest
<1>8. \A f : OptionsIn(f, a)' = OptionsIn(f, a)
  BY <1>3, <1>4, <1>5, <1>7 DEF OptionsIn
<1>9. AvailableActions(a)' = AvailableActions(a)
  BY <1>2, <1>8 DEF AvailableActions
<1>10. Admits(e, a, o)' = Admits(e, a, o)
  BY <1>1, <1>3, <1>9 DEF Admits
<1>. QED  BY <1>10 DEF Key

LEMMA NextReady == ASSUME ~Suspends PROVE SInv /\ Ready /\ Apart /\ [Next]_vars => Ready'
<1>. SUFFICES ASSUME SInv, Ready, Apart, [Next]_vars PROVE Ready'
  OBVIOUS
<1>1. \A k \in npcKeys :
          /\ k.encounter \in Encounters /\ encounters[k.encounter] # Nothing
          /\ k.version \in Nat /\ encounters[k.encounter].version \in Nat
          /\ k.version <= encounters[k.encounter].version
  BY FormedFields DEF Ready, SInv, TypeOK, NpcKeys, TablesFormed, Live
<1>2. \A e : Driving(e) \notin ActStates /\ Driving(e).encounter = e
  BY DEF Driving, ActStates
<1>3. Resting \notin ActStates
  BY DEF Resting, ActStates
<1>4. ASSUME NEW e \in Encounters, NEW new, encounters'[e] = new, new # Nothing,
             \A f \in Encounters \ {e} : encounters'[f] = encounters[f],
             encounters[e] = Nothing \/ (new.version = encounters[e].version + 2 /\ encounters[e].version \in Nat)
      PROVE  \A k \in npcKeys : /\ encounters'[k.encounter] # Nothing
                                /\ k.version <= encounters'[k.encounter].version
                                /\ k.encounter = e => k.version < encounters'[e].version
  <2>1. SUFFICES ASSUME NEW k \in npcKeys
                 PROVE  /\ encounters'[k.encounter] # Nothing
                        /\ k.version <= encounters'[k.encounter].version
                        /\ k.encounter = e => k.version < encounters'[e].version
    OBVIOUS
  <2>2. CASE k.encounter = e
    <3>1. /\ k.version \in Nat /\ encounters[e].version \in Nat
          /\ k.version <= encounters[e].version /\ new.version = encounters[e].version + 2
      BY <1>1, <1>4, <2>2
    <3>2. k.version < new.version
      BY <3>1
    <3>. QED  BY <1>4, <2>2, <3>1, <3>2
  <2>3. CASE k.encounter # e
    BY <1>1, <1>4, <2>3
  <2>. QED  BY <2>2, <2>3
<1>5. ASSUME NEW t \in Tasks, NEW e \in Encounters, NEW a, NEW o, Acts(t, e, a, o)
      PROVE  \E new : /\ encounters'[e] = new /\ new # Nothing
                      /\ \A f \in Encounters \ {e} : encounters'[f] = encounters[f]
                      /\ new.version = encounters[e].version + 2 /\ encounters[e].version \in Nat
  <2>1. PICK new : /\ encounters'[e] = new /\ new # Nothing /\ encounters[e] # Nothing
                   /\ \A f \in Encounters \ {e} : encounters'[f] = encounters[f]
                   /\ new.version = encounters[e].version + 2
    BY <1>5, ActsEffect
  <2>2. encounters[e].version \in Nat
    BY <2>1, FormedFields DEF SInv, TablesFormed, Live
  <2>. QED  BY <2>1, <2>2
<1>6. CASE UNCHANGED vars
  <2>1. /\ encounters' = encounters /\ born' = born /\ npcKeys' = npcKeys /\ task' = task
        /\ failures' = failures
    BY <1>6 DEF vars
  <2>2. \A e, a, o : Admits(e, a, o)' = Admits(e, a, o) /\ Key(e, a)' = Key(e, a)
    BY <2>1, SameAdvertised
  <2>3. \A t \in Tasks : task[t] \in ActStates =>
            /\ task[t].key = Key(task[t].encounter, task[t].actor)'
            /\ Admits(task[t].encounter, task[t].actor, task[t].option)'
    BY <2>1, <2>2 DEF Ready
  <2>4. \A t \in Tasks : task[t] # Resting => KeysBehind(task[t].encounter)'
    BY <2>1 DEF Ready, KeysBehind
  <2>. QED  BY <2>1, <2>3, <2>4 DEF Ready, KeysBehind
<1>7. ASSUME NEW t \in Tasks, NEW e \in Encounters, NEW lineup \in Lineups,
             StartEncounter(t, e, lineup)
      PROVE  Ready'
  <2>1. /\ MayRun(t) /\ task' = [task EXCEPT ![t] = Driving(e)] /\ encounters[e] = Nothing
        /\ npcKeys' = npcKeys /\ failures' = failures /\ Len(lineup) >= 2
        /\ encounters' = [encounters EXCEPT ![e] = Started(lineup)]
    BY <1>7 DEF StartEncounter, Unused, Live
  <2>2. Started(lineup) \in EncounterStates
    BY <2>1, StartedFormed DEF SInv, Formed
  <2>3. /\ encounters'[e] = Started(lineup) /\ Started(lineup) # Nothing
        /\ \A f \in Encounters \ {e} : encounters'[f] = encounters[f]
    BY <2>1, <2>2, OneRewritten DEF SInv
  <2>4. \A k \in npcKeys' : /\ encounters'[k.encounter] # Nothing
                            /\ k.version <= encounters'[k.encounter].version
                            /\ k.encounter = e => k.version < encounters'[e].version
    BY <1>4, <2>1, <2>3
  <2>. QED  BY <1>2, <2>1, <2>4, StillReady DEF KeysBehind
<1>8. ASSUME NEW t \in Tasks, NEW e \in Encounters, NEW a \in Actors, PerformAction(t, e, a)
      PROVE  Ready'
  <2>1. PICK o : Admits(e, a, o) /\ Resolve(e, a, o)
    BY <1>8 DEF PerformAction
  <2>2. /\ MayRun(t) /\ task[t] = Resting /\ npcKeys' = npcKeys
        /\ UNCHANGED <<born, failures, advances>> /\ task' = [task EXCEPT ![t] = Driving(e)]
    BY <1>8 DEF PerformAction
  <2>3. Acts(t, e, a, o)
    BY <2>1, <2>2 DEF Acts, Driving
  <2>4. \A k \in npcKeys' : /\ encounters'[k.encounter] # Nothing
                            /\ k.version <= encounters'[k.encounter].version
                            /\ k.encounter = e => k.version < encounters'[e].version
    BY <1>4, <1>5, <2>2, <2>3
  <2>. QED  BY <1>2, <2>2, <2>4, StillReady DEF KeysBehind
<1>9. ASSUME NEW t \in Tasks, NEW a \in Actors, AdvanceActor(t, a)
      PROVE  Ready'
  <2>1. /\ MayRun(t) /\ task[t] = Resting /\ task' = task
        /\ UNCHANGED <<encounters, npcKeys, failures>>
    BY <1>9 DEF AdvanceActor
  <2>2. task' = [task EXCEPT ![t] = Resting]
    BY <2>1 DEF SInv, TypeOK
  <2>. QED  BY <1>1, <1>3, <2>1, <2>2, StillReady
<1>10. ASSUME NEW t \in Tasks, DriveAct(t) PROVE Ready'
  <2>. DEFINE e == task[t].encounter
              a == task[t].actor
              o == task[t].option
              r == [Driving(e) EXCEPT !.taken = task[t].taken + 1]
  <2>1. /\ MayRun(t) /\ task[t] \in ActStates /\ task[t] # Resting /\ e \in Encounters
        /\ task[t].taken \in Nat
    BY <1>10, TaskType DEF DriveAct, SInv, ActStates
  <2>2. /\ task' = [task EXCEPT ![t] = r] /\ npcKeys' = npcKeys \cup {task[t].key}
        /\ failures' = failures /\ born' = born /\ advances' = advances
        /\ Admits(e, a, o) /\ Resolve(e, a, o)
    BY <1>10 DEF DriveAct
  <2>3. r = [doing |-> "drive", encounter |-> e, taken |-> task[t].taken + 1]
    BY DEF Driving
  <2>4. r \notin ActStates
    BY <2>3 DEF ActStates
  <2>5. Acts(t, e, a, o)
    <3>1. task[t].taken + 1 \in Nat
      BY <2>1
    <3>2. \E n \in Nat : task' = [task EXCEPT ![t] = [doing |-> "drive", encounter |-> e, taken |-> n]]
      BY <2>2, <2>3, <3>1
    <3>. QED  BY <2>1, <2>2, <3>2 DEF Acts
  <2>6. PICK new : /\ encounters'[e] = new /\ new # Nothing
                   /\ \A f \in Encounters \ {e} : encounters'[f] = encounters[f]
                   /\ new.version = encounters[e].version + 2 /\ encounters[e].version \in Nat
    BY <1>5, <2>1, <2>5
  <2>7. task[t].key = Key(e, a)
    BY <2>1 DEF Ready
  <2>8. /\ task[t].key.encounter = e /\ encounters'[e] # Nothing
        /\ task[t].key.version < encounters'[e].version
        /\ task[t].key.version <= encounters'[e].version
    <3>1. task[t].key.encounter = e /\ task[t].key.version = encounters[e].version
      BY <2>7 DEF Key
    <3>. QED  BY <2>6, <3>1
  <2>9. \A k \in npcKeys : /\ encounters'[k.encounter] # Nothing
                           /\ k.version <= encounters'[k.encounter].version
                           /\ k.encounter = e => k.version < encounters'[e].version
    BY <1>4, <2>1, <2>6
  <2>10. \A k \in npcKeys' : /\ encounters'[k.encounter] # Nothing
                             /\ k.version <= encounters'[k.encounter].version
                             /\ k.encounter = e => k.version < encounters'[e].version
    BY <2>2, <2>8, <2>9
  <2>11. r.encounter = e
    BY <2>3
  <2>. HIDE DEF r
  <2>. QED  BY <2>1, <2>2, <2>4, <2>10, <2>11, StillReady DEF KeysBehind
<1>11. ASSUME NEW t \in Tasks, DriveRefused(t) PROVE Ready'
  <2>. DEFINE e == task[t].encounter
  <2>1. /\ task[t] \in ActStates /\ e \in Encounters /\ MayRun(t)
        /\ task' = [task EXCEPT ![t] = Resting] /\ encounters' = encounters
        /\ npcKeys' = npcKeys \cup {task[t].key}
    BY <1>11, TaskType DEF DriveRefused, SInv
  <2>2. /\ task[t].key = Key(e, task[t].actor)
        /\ Admits(e, task[t].actor, task[t].option)
    BY <2>1 DEF Ready
  <2>3. /\ task[t].key.encounter = e /\ task[t].key.version = encounters[e].version
        /\ encounters[e] # Nothing
    BY <2>2 DEF Key, Admits, OnTurn, Active, Live
  <2>4. encounters[e].version \in Nat
    BY <2>1, <2>3, FormedFields DEF SInv, TablesFormed, Live
  <2>5. \A k \in npcKeys' : /\ encounters'[k.encounter] # Nothing
                            /\ k.version <= encounters'[k.encounter].version
    BY <1>1, <2>1, <2>3, <2>4
  <2>. QED  BY <1>3, <2>1, <2>5, StillReady
<1>12. ASSUME NEW t \in Tasks, DriveDone(t) \/ DriveExhausted(t) \/ DriveHelpless(t)
       PROVE  Ready'
  <2>1. /\ MayRun(t) /\ task' = [task EXCEPT ![t] = Resting] /\ UNCHANGED <<encounters, npcKeys>>
    BY <1>12, TaskType
       DEF DriveDone, DriveExhausted, DriveHelpless, Drives, DrivesOn, SInv
  <2>. QED  BY <1>1, <1>3, <2>1, StillReady
<1>13. ASSUME NEW t \in Tasks, DriveChoose(t) PROVE Ready'
  <2>. DEFINE e == task[t].encounter
              a == Current(e)
              r == [doing |-> "act", encounter |-> e, taken |-> task[t].taken, actor |-> a,
                    key |-> Key(e, a), option |-> Choice(a)]
  <2>1. /\ MayRun(t) /\ e \in Encounters /\ OnTurn(e, a) /\ AvailableActions(a) # {}
        /\ task' = [task EXCEPT ![t] = r]
        /\ UNCHANGED <<encounters, born, actors, npcKeys, failures, advances>>
    BY <1>13, TaskType DEF DriveChoose, Drives, DrivesOn, SInv, NpcOnTurn, OnTurn
  <2>2. ConsultedBy(a) = e /\ a \in Actors /\ Formed(encounters[e]) /\ a \in Participants(e)
    BY <2>1, Consulted DEF Apart
  <2>3. Choice(a) \in AvailableActions(a)
    BY <2>1, <2>2, ChoiceAdvertised
  <2>4. Choice(a).target = Nothing \/ Choice(a).target \in Participants(e)
    <3>1. Sound(e, a, Choice(a))
      <4>1. Choice(a) \in OptionsIn(e, a)
        BY <2>2, <2>3 DEF AvailableActions
      <4>. HIDE DEF e, a
      <4>. QED  BY <2>1, <2>2, <4>1, OptionsSound
    <3>. QED  BY <3>1 DEF Sound, Option, Enemies
  <2>5. Admits(e, a, Choice(a))
    BY <2>1, <2>3, <2>4 DEF Admits
  <2>6. Key(e, a) \notin npcKeys
    <3>1. SUFFICES ASSUME Key(e, a) \in npcKeys PROVE FALSE
      OBVIOUS
    <3>2. Key(e, a).encounter = e /\ Key(e, a).version = encounters[e].version
      BY DEF Key
    <3>3. encounters[e].version \in Nat
      BY <2>2, FormedFields
    <3>4. KeysBehind(e)
      BY <1>13, TaskType DEF Ready, DriveChoose, DrivesOn, Drives, Resting
    <3>. QED  BY <3>1, <3>2, <3>3, <3>4 DEF KeysBehind
  <2>7. task'[t] = r /\ \A u \in Tasks \ {t} : task'[u] = Resting
    BY <2>1, OthersRest DEF SInv
  <2>8. r.encounter = e /\ r.actor = a /\ r.key = Key(e, a) /\ r.option = Choice(a)
    OBVIOUS
  <2>. HIDE DEF r
  <2>9. PICK q : /\ q = r /\ q.key = Key(q.encounter, q.actor) /\ q.key \notin npcKeys
                 /\ Admits(q.encounter, q.actor, q.option)
    BY <2>5, <2>6, <2>8
  <2>10. Admits(q.encounter, q.actor, q.option)' /\ q.key = Key(q.encounter, q.actor)'
    BY <2>1, <2>9, SameAdvertised
  <2>11. task'[t] = q
    BY <2>7, <2>9
  <2>12. \A u \in Tasks : task'[u] \in ActStates => u = t
    BY <1>3, <2>7
  <2>13. \A u, w \in Tasks : task'[u] # Resting /\ task'[w] # Resting => u = w
    BY <2>7
  <2>14. ASSUME NEW u \in Tasks, task'[u] \in ActStates
         PROVE  /\ task'[u].key = Key(task[u].encounter, task[u].actor)'
                /\ Admits(task[u].encounter, task[u].actor, task[u].option)'
    BY <2>1, <2>9, <2>10, <2>11, <2>12, <2>14
  <2>15. ASSUME NEW u \in Tasks, task'[u] # Resting PROVE KeysBehind(task[u].encounter)'
    <3>1. u = t /\ task'[u].encounter = e
      BY <2>7, <2>8, <2>15
    <3>2. KeysBehind(e)
      BY <1>13, TaskType DEF Ready, DriveChoose, DrivesOn, Drives, Resting
    <3>. QED  BY <2>1, <3>1, <3>2 DEF KeysBehind
  <2>. QED  BY <1>1, <2>1, <2>13, <2>14, <2>15 DEF Ready
<1>. QED  BY <1>6, <1>7, <1>8, <1>9, <1>10, <1>11, <1>12, <1>13 DEF Next, Drive

\* A choice that stands, under a fresh key, is refused only when it leaves nobody to give
\* the turn to; as nobody strikes themselves, the actor had no hit points before it.
LEMMA RefusedFallen ==
    ASSUME SInv, Outcomes, Ready, NEW t \in Tasks, DriveRefused(t), NEW e, e = task[t].encounter
    PROVE  JustStarted(e) /\ Current(e) = task[t].actor /\ At(e, Current(e)).hp <= 0
<1>. DEFINE a == task[t].actor
            o == task[t].option
<1>1. task[t] \in ActStates /\ task[t] # Resting /\ e \in Encounters
  BY TaskType DEF DriveRefused, SInv
<1>2. task[t].key = Key(e, a) /\ Admits(e, a, o) /\ KeysBehind(e)
  BY <1>1 DEF Ready
<1>3. Formed(encounters[e]) /\ Active(e) /\ a \in Participants(e) /\ Current(e) = a
  BY <1>1, <1>2, AdmittedPreview DEF Admits, OnTurn
<1>4. task[t].key \notin npcKeys
  <2>1. encounters[e].version \in Nat
    BY <1>1, <1>3, FormedFields
  <2>. QED  BY <1>2, <2>1 DEF Key, KeysBehind
<1>5. PICK parts \in Previewed(e, a, o) : Standing(parts) = {}
  BY <1>2, <1>4 DEF DriveRefused, Collapses
<1>6. /\ Spared(encounters[e], parts, a, o)
      /\ parts[a].hp = encounters[e].participants[a].hp
  BY <1>1, <1>2, AdmittedPreview
<1>7. ~(parts[a].hp > 0)
  BY <1>3, <1>5, <1>6 DEF Standing, Spared, Previews, Participants
<1>8. encounters[e].participants[a].hp \in Int
  BY <1>1, <1>3, Seats DEF At, ParticipantStates
<1>9. At(e, a).hp <= 0
  BY <1>6, <1>7, <1>8 DEF At
<1>10. encounters[e].version = 1
  BY <1>1, <1>3, <1>6, <1>7 DEF Outcomes, Outcome, Active, Live, Current
<1>. QED  BY <1>3, <1>9, <1>10 DEF JustStarted

\* With one request at a time, for as long as no actor is on turn in two encounters at once,
\* a controller's command is refused only on the first turn of an actor that entered the
\* encounter fallen: its option stays advertised, its key is new, and whoever has acted
\* standing leaves somebody standing.
THEOREM RefusedOnlyFallenApart ==
    ASSUME ~Suspends PROVE Spec /\ []Apart => RefusedOnlyFallen
<1>1. Init => SInv /\ Ready
  BY InitSInv DEF Init, Ready, Resting, ActStates
<1>2. SInv /\ Ready /\ Apart /\ [Next]_vars => (SInv /\ Ready)'
  BY NextSInv, NextReady
<1>3. SInv /\ Outcomes /\ Ready /\ [Next]_vars =>
          [\A t \in Tasks : DriveRefused(t) =>
              LET e == task[t].encounter IN
              /\ JustStarted(e) /\ Current(e) = task[t].actor
              /\ At(e, Current(e)).hp <= 0]_vars
  BY RefusedFallen
<1>. QED  BY <1>1, <1>2, <1>3, OutcomesHold, PTL DEF Spec, RefusedOnlyFallen

\* So it is, whatever happens, in a world of one encounter.
THEOREM RefusedOnlyFallenAlone ==
    ASSUME ~Suspends, \A e, f \in Encounters : e = f
    PROVE  Spec => RefusedOnlyFallen
<1>1. Apart
  BY DEF Apart
<1>. QED  BY <1>1, RefusedOnlyFallenApart, PTL
=============================================================================
