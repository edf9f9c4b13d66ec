------------------------------- MODULE Vitals -------------------------------
(***************************************************************************)
(* The registry of live HP/MP pools (gamekit/vitals/vitals.go), which       *)
(* backend/platform/session wraps.  Every method runs under the registry's  *)
(* mutex, so each is one step; callers see copies only and decide on what   *)
(* they read earlier.  Points are float64 in the code and naturals here;    *)
(* callers pass amounts that are not negative.                              *)
(***************************************************************************)
EXTENDS Integers

CONSTANTS Entity,     \* players and mobs
          NoPool,     \* an entity without a pool
          Points      \* the amounts callers pass: maxima, damage, costs

ASSUME PointsAreNaturals == Points \subseteq Nat

VARIABLES pools,      \* r.pools
          credits     \* observation: credits[e] attackers were told killedNow
                      \* since e was last brought to life

vitalsVars == <<pools, credits>>

\* hp and mp are signed: that they stay above zero is PoolsInBounds.
Pool == [maxHP : Nat, hp : Int, maxMP : Nat, mp : Int, dead : BOOLEAN]

ASSUME NoPoolIsNoPool == NoPool \notin Pool

HasPool(e) == pools[e] # NoPool

Alive(e) == HasPool(e) /\ ~pools[e].dead

VitalsInit ==
    /\ pools = [e \in Entity |-> NoPool]
    /\ credits = [e \in Entity |-> 0]

Start(e, maxHP, maxMP) ==
    /\ pools' = [pools EXCEPT ![e] = [maxHP |-> maxHP, hp |-> maxHP,
                                      maxMP |-> maxMP, mp |-> maxMP, dead |-> FALSE]]
    /\ credits' = [credits EXCEPT ![e] = 0]

End(e) ==
    /\ pools' = [pools EXCEPT ![e] = NoPool]
    /\ credits' = [credits EXCEPT ![e] = 0]

Damaged(pool, amount) ==
    IF pool.hp - amount <= 0
    THEN [pool EXCEPT !.hp = 0, !.dead = TRUE]
    ELSE [pool EXCEPT !.hp = @ - amount]

\* killedNow of DeductAndReserveKill: this call moves the pool from alive to dead.
killedNow(e, amount) == Alive(e) /\ pools[e].hp - amount <= 0

Mutant_DeductAndReserveKill_NoDeadCheck(e, amount) ==
    IF HasPool(e)
    THEN /\ pools' = [pools EXCEPT ![e] = Damaged(@, amount)]
         /\ credits' = [credits EXCEPT ![e] = IF pools[e].hp - amount <= 0 THEN @ + 1 ELSE @]
    ELSE UNCHANGED vitalsVars

DeductAndReserveKill(e, amount) ==
    IF Alive(e)
    THEN /\ pools' = [pools EXCEPT ![e] = Damaged(@, amount)]
         /\ credits' = [credits EXCEPT ![e] = IF killedNow(e, amount) THEN @ + 1 ELSE @]
    ELSE UNCHANGED vitalsVars

DeductHP(e, amount) ==
    IF Alive(e)
    THEN pools' = [pools EXCEPT ![e] = Damaged(@, amount)] /\ UNCHANGED credits
    ELSE UNCHANGED vitalsVars

Heal(e, amount) ==
    IF Alive(e)
    THEN /\ pools' = [pools EXCEPT ![e].hp =
                        IF @ + amount > pools[e].maxHP THEN pools[e].maxHP ELSE @ + amount]
         /\ UNCHANGED credits
    ELSE UNCHANGED vitalsVars

CanSpendMP(e, amount) == HasPool(e) /\ pools[e].mp >= amount

Mutant_SpendMP_NoCheck(e, amount) ==
    IF HasPool(e)
    THEN pools' = [pools EXCEPT ![e].mp = @ - amount] /\ UNCHANGED credits
    ELSE UNCHANGED vitalsVars

SpendMP(e, amount) ==
    IF CanSpendMP(e, amount)
    THEN pools' = [pools EXCEPT ![e].mp = @ - amount] /\ UNCHANGED credits
    ELSE UNCHANGED vitalsVars

Revive(e) ==
    IF HasPool(e)
    THEN /\ pools' = [pools EXCEPT ![e].hp = pools[e].maxHP, ![e].dead = FALSE]
         /\ credits' = [credits EXCEPT ![e] = 0]
    ELSE UNCHANGED vitalsVars

VitalsNext ==
    \E e \in Entity :
        \/ \E hp, mp \in Points : Start(e, hp, mp)
        \/ End(e)
        \/ Revive(e)
        \/ \E amount \in Points :
            \/ DeductAndReserveKill(e, amount)
            \/ DeductHP(e, amount)
            \/ Heal(e, amount)
            \/ SpendMP(e, amount)

VitalsSpec == VitalsInit /\ [][VitalsNext]_vitalsVars

-----------------------------------------------------------------------------

VitalsTypeOK ==
    /\ pools \in [Entity -> Pool \cup {NoPool}]
    /\ credits \in [Entity -> Nat]

\* No sequence of calls takes a pool out of its bounds: HP and MP stay between 0
\* and their maxima, the dead have no HP, and only the dead (or a pool that
\* started with none) have no HP.
PoolsInBounds ==
    \A e \in Entity : HasPool(e) =>
        /\ pools[e].hp \in 0 .. pools[e].maxHP
        /\ pools[e].mp \in 0 .. pools[e].maxMP
        /\ pools[e].dead => pools[e].hp = 0
        /\ pools[e].hp = 0 /\ pools[e].maxHP > 0 => pools[e].dead

\* "two concurrent attackers finishing the same target cannot both be credited
\* with the kill" (vitals.go:68-70): one life, at most one killer, and none while
\* the victim lives.
OneCreditPerLife ==
    \A e \in Entity : credits[e] <= 1 /\ (credits[e] = 1 => HasPool(e) /\ pools[e].dead)

\* The conjunction is inductive.
VitalsIInv == VitalsTypeOK /\ PoolsInBounds /\ OneCreditPerLife
=============================================================================
