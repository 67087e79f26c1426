---------------------------- MODULE MCEncounter ----------------------------
(* Small instances of Encounter for TLC: a hero, two beasts and a ghost. *)
EXTENDS Encounter

CONSTANTS hero, wolf, bear, ghost, \* actors; the ghost never stands
          e1, e2,                   \* encounters
          t1, t2                    \* requests

Trio       == {hero, wolf, bear}
Quartet    == {hero, wolf, bear, ghost}
RankDef    == [a \in Actors |-> CASE a = hero -> 1 [] a = wolf -> 3 [] a = bear -> 4 [] OTHER -> 5]
ProfileDef == [a \in Actors |-> CASE a = hero -> "human" [] a = bear -> "passive"
                                   [] OTHER -> "aggressive_melee"]
Hardy      == [a \in Actors |-> CASE a = wolf -> 4 [] a = ghost -> 0 [] OTHER -> 5]
Frail      == [a \in Actors |-> 2]
BonusDef   == [a \in Actors |-> 2]
DefenseDef == [a \in Actors |-> 10]

\* A natural 1 misses and a natural 20 hits, guard or not.
RollsDef  == {1, 20}
Sure      == {20}
AttackDef == {2, 3}
PowerDef  == {3}
PowerSolo == {3, 5}   \* 5 fells anybody at one blow
Deadly    == {2}

In(a, side, position) == [actor |-> a, side |-> side, position |-> position, stamina |-> 1]
Weary(p) == [p EXCEPT !.stamina = 0]
Drained(p) == [p EXCEPT !.stamina = -1]

\* Melee from the start, one who has to come nearer, controllers only, three sides; a
\* ghost that strikes first, one that may leave nobody standing, one that has to wait.
SoloLineups ==
    { << In(hero, "us", 0), In(wolf, "them", 1), In(bear, "them", 2) >>,
      << In(wolf, "them", 0), In(hero, "us", 2) >>,
      << In(wolf, "us", 1), In(bear, "them", 0) >>,
      << In(bear, "b", 1), In(wolf, "a", 0), In(hero, "c", 0) >>,
      << In(ghost, "them", 1), In(hero, "us", 0), In(wolf, "them", 2) >>,
      << In(ghost, "us", 0), In(bear, "them", 1) >>,
      << In(hero, "us", 0), In(ghost, "them", 0), In(bear, "them", 1) >> }

\* One name listed twice, under two sides, controllers on both sides, and fights hero
\* can be in at once, with stamina in one of them, none or less than none in another.
LooseLineups ==
    { << In(wolf, "us", 0), In(wolf, "them", 1) >>,
      << In(bear, "us", 0), In(wolf, "them", 1) >>,
      << In(hero, "us", 0), In(bear, "them", 1) >>,
      << Weary(In(hero, "us", 0)), Drained(In(bear, "them", 1)) >> }

OneEncounter  == {e1}
TwoEncounters == {e1, e2}
OneTask  == {t1}
TwoTasks == {t1, t2}
=============================================================================
