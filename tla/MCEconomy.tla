------------------------------ MODULE MCEconomy ------------------------------
(* Small instances of Economy: one character, a sawmill, planks that take ore  *)
(* and shields that take ore, wood and gold.  The node starts on empty tables, *)
(* or on those of a run in which the character trained or bought a sawmill.    *)
EXTENDS Economy, TLC

CONSTANTS ticker, p1, p2, hero, ann, ore, wood, sawmill, plank, shield

MCOwner == hero :> ann
MCProduct == sawmill :> wood
MCRatePerLevel == sawmill :> 2
MCBaseCost == sawmill :> 1
MCCost == plank :> (ore :> 1 @@ wood :> 0) @@ shield :> (ore :> 1 @@ wood :> 1)
MCEarlier ==
    {[wallet |-> (ore :> 1 @@ wood :> 1), levels |-> (sawmill :> 0), assigned |-> "training"],
     [wallet |-> (ore :> 1 @@ wood :> 1), levels |-> (sawmill :> 1), assigned |-> "gathering"]}
MCGoldCost == plank :> 0 @@ shield :> 1

\* Requests are alike; the ticker is not one of them.
Symmetry == Permutations({p1, p2})
=============================================================================
