----------------------------- MODULE PerKeyLock -----------------------------
(***************************************************************************)
(* What the inventory service expects of its per-character lock             *)
(* (backend/game/inventory/service.go:12-16): requests for one key are      *)
(* served one at a time, requests for different keys do not wait for each   *)
(* other, and a request that waits is eventually served.                    *)
(***************************************************************************)
CONSTANTS Proc,     \* goroutines that call lock
          Key,      \* keys (characters)
          None      \* "no key", "no goroutine"

VARIABLES want,     \* want[p]: the key p has asked for and does not hold yet
          owner     \* owner[k]: the goroutine that holds k

vars == <<want, owner>>

Init ==
    /\ want = [p \in Proc |-> None]
    /\ owner = [k \in Key |-> None]

Owns(p) == \E k \in Key : owner[k] = p

Request(p, k) ==
    /\ want[p] = None
    /\ ~Owns(p)
    /\ want' = [want EXCEPT ![p] = k]
    /\ UNCHANGED owner

Grant(p, k) ==
    /\ want[p] = k
    /\ owner[k] = None
    /\ want' = [want EXCEPT ![p] = None]
    /\ owner' = [owner EXCEPT ![k] = p]

Free(p, k) ==
    /\ owner[k] = p
    /\ owner' = [owner EXCEPT ![k] = None]
    /\ UNCHANGED want

Next == \E p \in Proc, k \in Key : Request(p, k) \/ Grant(p, k) \/ Free(p, k)

Fairness == \A p \in Proc, k \in Key : SF_vars(Grant(p, k)) /\ WF_vars(Free(p, k))

Spec == Init /\ [][Next]_vars

FairSpec == Spec /\ Fairness
=============================================================================
