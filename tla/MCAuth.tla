------------------------------- MODULE MCAuth -------------------------------
(* Small instance of Auth: two requests that overlap on a node, for two names  *)
(* that differ in case: accounts of their own that share an entry of the        *)
(* limiter.                                                                     *)
EXTENDS Auth, TLC

CONSTANTS n1, ann, ANN, k1, p1, p2, c1, c2, c3

MCNodeOf == [p \in Request |-> n1]

MCKeyOf == ann :> k1 @@ ANN :> k1

\* The names are alike, too: they have the same key.
Symmetry == Permutations(Request) \cup Permutations(User) \cup Permutations(Name)
=============================================================================
