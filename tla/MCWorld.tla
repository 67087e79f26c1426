------------------------------ MODULE MCWorld ------------------------------
(* A small instance of World for TLC: a road, a path, and between their ends a  *)
(* hidden camp whose hidden chest has the id of one by the road.                *)
EXTENDS World, TLC

CONSTANTS w, cmp, hero, scout, road, path, camp, chest

OneWorld     == {w}
OneCampaign  == {cmp}
TwoActors    == {hero, scout}
ThreePlaces  == {road, path, camp}
OneObject    == {chest}
HomeDef      == [a \in Actors |-> cmp]
RankDef      == [x \in Places \cup Objects |-> CASE x = camp -> 1 [] x = path -> 2 [] x = road -> 3 [] OTHER -> 4]

Links == [p \in Places |-> CASE p = road -> {path, camp} [] p = path -> {road, camp} [] OTHER -> {path}]
Chests == [p \in Places |-> IF p = path THEN {} ELSE {chest}]

Wilds == [names |-> Places, links |-> Links, hidden |-> {camp}, holds |-> Chests,
          secret |-> {<<road, chest>>, <<camp, chest>>}, sound |-> TRUE]
\* Also one whose links lead off the map, and one with a field missing.
MapsDef == {Wilds, [Wilds EXCEPT !.sound = FALSE], [Wilds EXCEPT !.names = {road}]}

Symmetric == Permutations(Actors)
=============================================================================
