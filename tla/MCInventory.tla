----------------------------- MODULE MCInventory -----------------------------
(* Small instances of Inventory: a bag of two slots, a weapon and an armour   *)
(* slot; a sword the hero may wield, an axe for another class and an armour   *)
(* for a higher level.                                                        *)
EXTENDS Inventory, TLC

CONSTANTS p1, p2, hero, sword, axe, armour

MCKey == {NodeOf[p] : p \in Proc} \X Character
OneNode == [p \in Proc |-> "n1"]
TwoNodes == p1 :> "n1" @@ p2 :> "n2"

\* Two nodes: what subscribers were told influences no request (it is written and
\* never read), and behind two locks it can drift without bound.  States that
\* differ in it alone are explored once.
TableView == <<rows, step, req, hit, lockVars>>

MCSlotType == sword :> 1000 @@ axe :> 1000 @@ armour :> 1001
MCMinLevel == sword :> 1 @@ axe :> 1 @@ armour :> 5
MCClasses == sword :> {} @@ axe :> {"mage"} @@ armour :> {}
MCLevel == hero :> 4
MCClassName == hero :> "warrior"
=============================================================================
