------------------------------ MODULE MCOutbox ------------------------------
(* Small instances of Outbox: one worker per node, up to two events per      *)
(* reward, CharacterLeveledUp optionally without a decoder.                  *)
EXTENDS Outbox, TLC

CONSTANTS w1, w2, n1, n2

MCNodeOf == w1 :> n1 @@ w2 :> n2
OneNode == w1 :> n1 @@ w2 :> n1
=============================================================================
