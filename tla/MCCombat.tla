------------------------------ MODULE MCCombat ------------------------------
(* Small instances of Combat: attacks that overlap on players and a mob.     *)
EXTENDS Combat
=============================================================================
