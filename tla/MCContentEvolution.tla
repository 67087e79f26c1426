------------------------ MODULE MCContentEvolution ------------------------
(* Small instances of ContentEvolution for TLC. *)
EXTENDS ContentEvolution, TLC

CONSTANTS w1, w2, d1, d2, alice, bob, cmp, p1, p2, k1, k2

Definition(key, data, sound, ref) == [key |-> key, data |-> data, sound |-> sound, ref |-> ref]

\* An npc template in two editions, an encounter that refers to it, an unfinished item.
Raider   == Definition("npc", 1, TRUE, Nothing)
Brute    == Definition("npc", 2, TRUE, Nothing)
Ambush   == Definition("camp", 1, TRUE, "npc")
Unlicensed == Definition("item", 1, FALSE, Nothing)

AllDefinitions == {Raider, Brute, Ambush, Unlicensed}
\* One draft makes packs that say nothing, or either of two keys.
Independent == {Raider, Definition("item", 1, TRUE, Nothing)}

TwoWorkspaces == {w1, w2}
OneDraft == {d1}
TwoDrafts == {d1, d2}
TwoVersions == {"1", "2"}
OneNamespace == {"evo"}
OnePrincipal == {alice}
TwoPrincipals == {alice, bob}
OneCampaign == {cmp}
TwoProposals == {p1, p2}
OneCheckpoint == {k1}
TwoCheckpoints == {k1, k2}

Symmetric ==
    UNION {Permutations(things) : things \in {Workspaces, Drafts, Principals, Proposals, Checkpoints}}
=============================================================================
