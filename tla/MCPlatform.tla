----------------------------- MODULE MCPlatform -----------------------------
(* A small instance of Platform for TLC: a master and a player, one session,    *)
(* one quest and one encounter of a campaign with two actors.                   *)
EXTENDS Platform, TLC

CONSTANTS cmp, game, errand, hero, smith, brawl, master, player

OneCampaign   == {cmp}
OneSession    == {game}
OneQuest      == {errand}
TwoActors     == {hero, smith}
OneEncounter  == {brawl}
TwoPrincipals == {master, player}
HomeDef       == [x \in Actors \cup Encounters |-> cmp]
OnePrice      == {4}

Symmetric == Permutations(Actors) \cup Permutations(Principals)
=============================================================================
