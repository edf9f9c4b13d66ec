----------------------------- MODULE MCProgress -----------------------------
(* Small instance of Progress: a quest for a wolf and then two boars, whose    *)
(* reward is a level; boars have a loot table.                                 *)
EXTENDS Progress, TLC

CONSTANTS hero, ann, hunt, wolf, boar, pelts

MCOwner == hero :> ann
MCSteps == hunt :> <<[target |-> wolf, count |-> 1], [target |-> boar, count |-> 2]>>
MCLootTableOf == wolf :> NoTable @@ boar :> pelts
MCFallback == pelts :> "embedded"
MCMinLevel == hunt :> 1
MCRewards == hunt :> [gold |-> 2, exp |-> 6]
=============================================================================
