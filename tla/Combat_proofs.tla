---------------------------- MODULE Combat_proofs ----------------------------
(* Every sequence of registry calls keeps the pools in their bounds and gives *)
(* each life at most one kill credit, for any entities and any amounts; and   *)
(* concurrent attacks keep that invariant and reward every death exactly      *)
(* once, for any number of goroutines, players and mobs.                      *)
EXTENDS Combat, FiniteSetTheorems, TLAPS

-----------------------------------------------------------------------------
\* The registry by itself.

\* The strengthened invariant holds of an empty registry.
LEMMA VitalsInitOK == VitalsInit => VitalsIInv
  BY NoPoolIsNoPool
  DEF VitalsInit, VitalsIInv, VitalsTypeOK, PoolsInBounds, OneCreditPerLife, HasPool

\* A pool that is in its bounds by itself: the part of the invariant about one pool.
InBounds(pool) ==
    /\ pool \in Pool
    /\ pool.hp \in 0 .. pool.maxHP
    /\ pool.mp \in 0 .. pool.maxMP
    /\ pool.dead => pool.hp = 0
    /\ pool.hp = 0 /\ pool.maxHP > 0 => pool.dead

\* The invariant speaks of one entity at a time, so a call that touches one entity
\* need only establish it there.
LEMMA OneEntityStep ==
  ASSUME VitalsIInv, NEW e \in Entity, NEW pool, NEW n \in Nat,
         pools' = [pools EXCEPT ![e] = pool],
         credits' = [credits EXCEPT ![e] = n],
         pool # NoPool => InBounds(pool),
         n <= 1 /\ (n = 1 => pool # NoPool /\ pool.dead)
  PROVE  VitalsIInv'
<1>1. VitalsTypeOK'
  BY DEF VitalsIInv, VitalsTypeOK, InBounds
<1>2. PoolsInBounds'
  <2>1. ASSUME NEW d \in Entity, HasPool(d)'
        PROVE  /\ pools'[d].hp \in 0 .. pools'[d].maxHP
               /\ pools'[d].mp \in 0 .. pools'[d].maxMP
               /\ pools'[d].dead => pools'[d].hp = 0
               /\ pools'[d].hp = 0 /\ pools'[d].maxHP > 0 => pools'[d].dead
    <3>1. CASE d = e
      BY <2>1, <3>1 DEF VitalsIInv, VitalsTypeOK, InBounds, HasPool
    <3>2. CASE d # e
      BY <2>1, <3>2 DEF VitalsIInv, VitalsTypeOK, PoolsInBounds, HasPool
    <3> QED BY <3>1, <3>2
  <2> QED BY <2>1 DEF PoolsInBounds, HasPool
<1>3. OneCreditPerLife'
  <2>1. ASSUME NEW d \in Entity
        PROVE  credits'[d] <= 1 /\ (credits'[d] = 1 => pools'[d] # NoPool /\ pools'[d].dead)
    <3>1. CASE d = e
      BY <3>1 DEF VitalsIInv, VitalsTypeOK
    <3>2. CASE d # e
      BY <3>2 DEF VitalsIInv, VitalsTypeOK, OneCreditPerLife, HasPool
    <3> QED BY <3>1, <3>2
  <2> QED BY <2>1 DEF OneCreditPerLife, HasPool
<1> QED BY <1>1, <1>2, <1>3 DEF VitalsIInv

\* What the invariant says of one entity that has a pool.
LEMMA PoolOf ==
  ASSUME VitalsIInv, NEW e \in Entity, HasPool(e)
  PROVE  InBounds(pools[e])
  BY DEF VitalsIInv, VitalsTypeOK, PoolsInBounds, HasPool, InBounds

\* What is left of a pool whose HP is set and whose Dead flag is set after it.
LEMMA TwoFields ==
  ASSUME NEW pool \in Pool, NEW hp \in Int, NEW dead \in BOOLEAN
  PROVE  LET q == [[pool EXCEPT !.hp = hp] EXCEPT !.dead = dead]
         IN  /\ q \in Pool
             /\ q.hp = hp /\ q.dead = dead
             /\ q.maxHP = pool.maxHP /\ q.mp = pool.mp /\ q.maxMP = pool.maxMP
<1> DEFINE one == [pool EXCEPT !.hp = hp]
           two == [one EXCEPT !.dead = dead]
<1>1. one \in Pool /\ one.hp = hp /\ one.maxHP = pool.maxHP /\ one.mp = pool.mp
      /\ one.maxMP = pool.maxMP
  BY DEF Pool
<1> HIDE DEF one
<1>2. two \in Pool /\ two.hp = one.hp /\ two.dead = dead /\ two.maxHP = one.maxHP
      /\ two.mp = one.mp /\ two.maxMP = one.maxMP
  BY <1>1 DEF Pool
<1> QED BY <1>1, <1>2 DEF one

\* A pool that dies is in its bounds.
LEMMA DyingInBounds ==
  ASSUME NEW pool, InBounds(pool)
  PROVE  LET q == [[pool EXCEPT !.hp = 0] EXCEPT !.dead = TRUE]
         IN  InBounds(q) /\ q.dead
<1> DEFINE q == [[pool EXCEPT !.hp = 0] EXCEPT !.dead = TRUE]
<1>1. pool \in Pool /\ pool.maxHP \in Nat /\ 0 \in Int  BY DEF InBounds, Pool
<1>2. /\ q \in Pool
      /\ q.hp = 0 /\ q.dead = TRUE
      /\ q.maxHP = pool.maxHP /\ q.mp = pool.mp /\ q.maxMP = pool.maxMP
  BY <1>1, TwoFields
<1> HIDE DEF q
<1>3. InBounds(q) /\ q.dead  BY <1>1, <1>2 DEF InBounds
<1> QED BY <1>3 DEF q

\* A revived pool is in its bounds.
LEMMA RevivedInBounds ==
  ASSUME NEW pool, InBounds(pool)
  PROVE  InBounds([[pool EXCEPT !.hp = pool.maxHP] EXCEPT !.dead = FALSE])
<1> DEFINE q == [[pool EXCEPT !.hp = pool.maxHP] EXCEPT !.dead = FALSE]
<1>1. pool \in Pool /\ pool.maxHP \in Int /\ pool.maxHP \in Nat  BY DEF InBounds, Pool
<1>2. /\ q \in Pool
      /\ q.hp = pool.maxHP /\ q.dead = FALSE
      /\ q.maxHP = pool.maxHP /\ q.mp = pool.mp /\ q.maxMP = pool.maxMP
  BY <1>1, TwoFields
<1> HIDE DEF q
<1>3. InBounds(q)  BY <1>1, <1>2 DEF InBounds
<1> QED BY <1>3 DEF q

\* Damage keeps a living pool in its bounds.
LEMMA DamagedInBounds ==
  ASSUME NEW pool, InBounds(pool), ~pool.dead, NEW amount \in Nat
  PROVE  /\ InBounds(Damaged(pool, amount))
         /\ Damaged(pool, amount).dead <=> pool.hp - amount <= 0
<1>1. CASE pool.hp - amount <= 0
  <2> DEFINE dying == [[pool EXCEPT !.hp = 0] EXCEPT !.dead = TRUE]
  <2>1. Damaged(pool, amount) = dying  BY <1>1 DEF Damaged
  <2>2. InBounds(dying) /\ dying.dead  BY DyingInBounds
  <2> QED BY <1>1, <2>1, <2>2
<1>2. CASE ~(pool.hp - amount <= 0)
  <2>1. Damaged(pool, amount) = [pool EXCEPT !.hp = pool.hp - amount]  BY <1>2 DEF Damaged
  <2>2. InBounds([pool EXCEPT !.hp = pool.hp - amount])  BY <1>2 DEF InBounds, Pool
  <2>3. [pool EXCEPT !.hp = pool.hp - amount].dead = pool.dead  BY DEF InBounds, Pool
  <2> QED BY <1>2, <2>1, <2>2, <2>3
<1> QED BY <1>1, <1>2

\* The methods of the registry preserve the invariant.  Combat's steps are built
\* from them, so it inherits these lemmas.
LEMMA StartKeeps ==
  ASSUME VitalsIInv, NEW e \in Entity, NEW hp \in Nat, NEW mp \in Nat, Start(e, hp, mp)
  PROVE  VitalsIInv'
<1> DEFINE pool == [maxHP |-> hp, hp |-> hp, maxMP |-> mp, mp |-> mp, dead |-> FALSE]
           n == 0
<1>1. pool \in Pool /\ InBounds(pool)  BY DEF InBounds, Pool
<1>2. pools' = [pools EXCEPT ![e] = pool] /\ credits' = [credits EXCEPT ![e] = n]  BY DEF Start
<1>3. n \in Nat /\ n <= 1 /\ n # 1  OBVIOUS
<1> HIDE DEF pool, n
<1> QED BY <1>1, <1>2, <1>3, OneEntityStep

\* Session teardown.
LEMMA EndKeeps ==
  ASSUME VitalsIInv, NEW e \in Entity, End(e)
  PROVE  VitalsIInv'
<1> DEFINE n == 0
<1>1. pools' = [pools EXCEPT ![e] = NoPool] /\ credits' = [credits EXCEPT ![e] = n]  BY DEF End
<1>2. n \in Nat /\ n <= 1 /\ n # 1  OBVIOUS
<1> HIDE DEF n
<1> QED BY <1>1, <1>2, OneEntityStep

\* A revived pool has full HP and no credit.
LEMMA ReviveKeeps ==
  ASSUME VitalsIInv, NEW e \in Entity, Revive(e)
  PROVE  VitalsIInv'
<1>1. CASE HasPool(e)
  <2> DEFINE pool == [[pools[e] EXCEPT !.hp = pools[e].maxHP] EXCEPT !.dead = FALSE]
             n == 0
  <2>1. InBounds(pools[e])  BY <1>1, PoolOf
  <2>2. InBounds(pool)  BY <2>1, RevivedInBounds
  <2>3. pools' = [pools EXCEPT ![e] = pool] /\ credits' = [credits EXCEPT ![e] = n]
    BY <1>1 DEF Revive, VitalsIInv, VitalsTypeOK
  <2>4. n \in Nat /\ n <= 1 /\ n # 1  OBVIOUS
  <2> HIDE DEF pool, n
  <2> QED BY <2>2, <2>3, <2>4, OneEntityStep
<1>2. CASE ~HasPool(e)
  BY <1>2 DEF Revive, vitalsVars, VitalsIInv, VitalsTypeOK, PoolsInBounds, OneCreditPerLife, HasPool
<1> QED BY <1>1, <1>2

\* A step that changes no pool and no credit.
LEMMA StutterKeeps == ASSUME VitalsIInv, UNCHANGED vitalsVars PROVE VitalsIInv'
  BY DEF vitalsVars, VitalsIInv, VitalsTypeOK, PoolsInBounds, OneCreditPerLife, HasPool

\* A call that changes the pool of a living or dead entity and no credit.
LEMMA SameLifeKeeps ==
  ASSUME VitalsIInv, NEW e \in Entity, HasPool(e), NEW pool, InBounds(pool), pool # NoPool,
         pools' = [pools EXCEPT ![e] = pool], UNCHANGED credits,
         credits[e] = 1 => pool.dead
  PROVE  VitalsIInv'
<1>1. credits[e] \in Nat /\ credits[e] <= 1  BY DEF VitalsIInv, VitalsTypeOK, OneCreditPerLife
<1>2. credits' = [credits EXCEPT ![e] = credits[e]]  BY DEF VitalsIInv, VitalsTypeOK
<1> QED BY <1>1, <1>2, OneEntityStep

\* Only the blow that takes a living pool to zero adds a credit.
LEMMA DeductAndReserveKillKeeps ==
  ASSUME VitalsIInv, NEW e \in Entity, NEW amount \in Nat, DeductAndReserveKill(e, amount)
  PROVE  VitalsIInv'
<1>1. CASE Alive(e)
  <2> DEFINE pool == Damaged(pools[e], amount)
             n == IF killedNow(e, amount) THEN credits[e] + 1 ELSE credits[e]
  <2>1. InBounds(pools[e]) /\ ~pools[e].dead  BY <1>1, PoolOf DEF Alive
  <2>2. InBounds(pool) /\ (pool.dead <=> pools[e].hp - amount <= 0)  BY <2>1, DamagedInBounds
  <2>3. credits[e] = 0  BY <1>1 DEF VitalsIInv, VitalsTypeOK, OneCreditPerLife, Alive, HasPool
  <2>4. n \in Nat /\ n <= 1 /\ (n = 1 => pool.dead)  BY <1>1, <2>2, <2>3 DEF killedNow
  <2>5. pool # NoPool  BY <2>2, NoPoolIsNoPool DEF InBounds
  <2>6. pools' = [pools EXCEPT ![e] = pool]  BY <1>1 DEF DeductAndReserveKill
  <2>7. credits' = [credits EXCEPT ![e] = n]  BY <1>1 DEF DeductAndReserveKill
  <2> HIDE DEF pool, n
  <2> QED BY <2>2, <2>4, <2>5, <2>6, <2>7, OneEntityStep
<1>2. CASE ~Alive(e)
  BY <1>2, StutterKeeps DEF DeductAndReserveKill
<1> QED BY <1>1, <1>2

\* Damage without kill reservation.
LEMMA DeductHPKeeps ==
  ASSUME VitalsIInv, NEW e \in Entity, NEW amount \in Nat, DeductHP(e, amount)
  PROVE  VitalsIInv'
<1>1. CASE Alive(e)
  <2> DEFINE pool == Damaged(pools[e], amount)
  <2>1. InBounds(pools[e]) /\ ~pools[e].dead  BY <1>1, PoolOf DEF Alive
  <2>2. InBounds(pool)  BY <2>1, DamagedInBounds
  <2>3. credits[e] = 1 => pool.dead  BY <1>1 DEF VitalsIInv, VitalsTypeOK, OneCreditPerLife, Alive, HasPool
  <2>4. pool # NoPool  BY <2>2, NoPoolIsNoPool DEF InBounds
  <2>5. pools' = [pools EXCEPT ![e] = pool] /\ UNCHANGED credits  BY <1>1 DEF DeductHP
  <2>6. HasPool(e)  BY <1>1 DEF Alive
  <2> HIDE DEF pool
  <2> QED BY <2>2, <2>3, <2>4, <2>5, <2>6, SameLifeKeeps
<1>2. CASE ~Alive(e)
  BY <1>2, StutterKeeps DEF DeductHP
<1> QED BY <1>1, <1>2

\* Healing stops at the maximum and leaves the dead alone.
LEMMA HealKeeps ==
  ASSUME VitalsIInv, NEW e \in Entity, NEW amount \in Nat, Heal(e, amount)
  PROVE  VitalsIInv'
<1>1. CASE Alive(e)
  <2> DEFINE hp == IF pools[e].hp + amount > pools[e].maxHP
                   THEN pools[e].maxHP ELSE pools[e].hp + amount
             pool == [pools[e] EXCEPT !.hp = hp]
  <2>1. InBounds(pools[e]) /\ ~pools[e].dead  BY <1>1, PoolOf DEF Alive
  <2>2. InBounds(pool)  BY <2>1 DEF InBounds, Pool
  <2>3. credits[e] = 1 => pool.dead  BY <1>1 DEF VitalsIInv, VitalsTypeOK, OneCreditPerLife, Alive, HasPool
  <2>4. pool # NoPool  BY <2>2, NoPoolIsNoPool DEF InBounds
  <2>5. pools' = [pools EXCEPT ![e] = pool] /\ UNCHANGED credits  BY <1>1 DEF Heal
  <2>6. HasPool(e)  BY <1>1 DEF Alive
  <2> HIDE DEF pool
  <2> QED BY <2>2, <2>3, <2>4, <2>5, <2>6, SameLifeKeeps
<1>2. CASE ~Alive(e)
  BY <1>2, StutterKeeps DEF Heal
<1> QED BY <1>1, <1>2

\* Mana is spent only when there is enough.
LEMMA SpendMPKeeps ==
  ASSUME VitalsIInv, NEW e \in Entity, NEW amount \in Nat, SpendMP(e, amount)
  PROVE  VitalsIInv'
<1>1. CASE CanSpendMP(e, amount)
  <2> DEFINE pool == [pools[e] EXCEPT !.mp = pools[e].mp - amount]
  <2>1. HasPool(e) /\ pools[e].mp >= amount  BY <1>1 DEF CanSpendMP
  <2>2. InBounds(pools[e])  BY <2>1, PoolOf
  <2>3. InBounds(pool) /\ pool.dead = pools[e].dead  BY <2>1, <2>2 DEF InBounds, Pool
  <2>4. pool # NoPool  BY <2>3, NoPoolIsNoPool DEF InBounds
  <2>5. credits[e] = 1 => pool.dead  BY <2>3 DEF VitalsIInv, OneCreditPerLife
  <2>6. pools' = [pools EXCEPT ![e] = pool] /\ UNCHANGED credits  BY <1>1 DEF SpendMP
  <2> HIDE DEF pool
  <2> QED BY <2>1, <2>3, <2>4, <2>5, <2>6, SameLifeKeeps
<1>2. CASE ~CanSpendMP(e, amount)
  BY <1>2, StutterKeeps DEF SpendMP
<1> QED BY <1>1, <1>2

\* The invariant is inductive.
LEMMA VitalsStep == VitalsIInv /\ [VitalsNext]_vitalsVars => VitalsIInv'
<1> SUFFICES ASSUME VitalsIInv, [VitalsNext]_vitalsVars PROVE VitalsIInv'
  OBVIOUS
<1>1. CASE UNCHANGED vitalsVars
  BY <1>1, StutterKeeps
<1>2. CASE VitalsNext
  <2>1. PICK e \in Entity :
          \/ \E hp, mp \in Points : Start(e, hp, mp)
          \/ End(e)
          \/ Revive(e)
          \/ \E amount \in Points :
              \/ DeductAndReserveKill(e, amount)
              \/ DeductHP(e, amount)
              \/ Heal(e, amount)
              \/ SpendMP(e, amount)
    BY <1>2 DEF VitalsNext
  <2>2. CASE \E hp, mp \in Points : Start(e, hp, mp)
    BY <2>2, StartKeeps, PointsAreNaturals
  <2>3. CASE End(e)
    BY <2>3, EndKeeps
  <2>4. CASE Revive(e)
    BY <2>4, ReviveKeeps
  <2>5. ASSUME NEW amount \in Points,
               \/ DeductAndReserveKill(e, amount) \/ DeductHP(e, amount)
               \/ Heal(e, amount) \/ SpendMP(e, amount)
        PROVE  VitalsIInv'
    <3>1. amount \in Nat  BY PointsAreNaturals
    <3> QED BY <2>5, <3>1, DeductAndReserveKillKeeps, DeductHPKeeps, HealKeeps, SpendMPKeeps
  <2> QED BY <2>1, <2>2, <2>3, <2>4, <2>5
<1> QED BY <1>1, <1>2

\* The strengthened invariant holds after any sequence of calls.
THEOREM VitalsInvariant == VitalsSpec => []VitalsIInv
  BY VitalsInitOK, VitalsStep, PTL DEF VitalsSpec

\* HP and MP never leave their bounds and dead means no HP (vitals.go:66-151).
THEOREM VitalsBounds == VitalsSpec => []PoolsInBounds
<1>1. VitalsIInv => PoolsInBounds  BY DEF VitalsIInv
<1> QED BY <1>1, VitalsInvariant, PTL

\* A life is credited to at most one attacker (vitals.go:66-89).
THEOREM VitalsCredits == VitalsSpec => []OneCreditPerLife
<1>1. VitalsIInv => OneCreditPerLife  BY DEF VitalsIInv
<1> QED BY <1>1, VitalsInvariant, PTL

-----------------------------------------------------------------------------
\* Attacks over the registry.

\* Nothing runs and nothing has been killed at first.
LEMMA CombatInitOK == Init => CombatIInv
<1> SUFFICES ASSUME Init PROVE CombatIInv
  OBVIOUS
<1>1. VitalsIInv  BY VitalsInitOK DEF Init
<1>2. TypeOK  BY <1>1 DEF Init, TypeOK, VitalsIInv
<1>3. KillsAccounted
  <2>1. ASSUME NEW e \in Entity PROVE kills[e] = rewarded[e] + Cardinality(Rewarding(e))
    <3>1. Rewarding(e) = {}  BY DEF Init, Rewarding
    <3>2. Cardinality(Rewarding(e)) = 0  BY <3>1, FS_EmptySet
    <3> QED BY <3>2 DEF Init
  <2> QED BY <2>1 DEF KillsAccounted
<1> QED BY <1>1, <1>2, <1>3 DEF Init, CombatIInv, VitalsIInv

\* The attacks that are about to reward are finitely many.
LEMMA RewardingFinite == ASSUME NEW e PROVE IsFiniteSet(Rewarding(e))
<1>1. Rewarding(e) \subseteq Proc  BY DEF Rewarding
<1> QED BY <1>1, ProcsAreFinite, FS_Subset

\* A step after which the same attacks are about to reward, and that counts no
\* kill and no reward.
LEMMA AccountsUntouched ==
  ASSUME KillsAccounted, UNCHANGED <<kills, rewarded>>,
         \A e \in Entity : Rewarding(e)' = Rewarding(e)
  PROVE  KillsAccounted'
  BY DEF KillsAccounted

\* Every step keeps the registry's invariant: it makes at most one registry call.
LEMMA CombatVitals == CombatIInv /\ [Next]_vars => VitalsIInv'
<1> SUFFICES ASSUME CombatIInv, [Next]_vars PROVE VitalsIInv'
  OBVIOUS
<1>0. VitalsIInv  BY DEF CombatIInv, VitalsIInv, TypeOK
<1>a. PlayerHP \in Nat /\ PlayerMP \in Nat /\ MobHP \in Nat /\ 0 \in Nat  BY CombatBounds
<1>b. \A p \in Proc : attack[p].cost \in Nat /\ attack[p].damage \in Nat
  BY DEF CombatIInv, TypeOK
<1>c. \A p \in Proc : pc[p] # "idle" => attack[p].by \in Entity /\ attack[p].on \in Entity
  BY DEF CombatIInv
<1>1. ASSUME NEW c \in Player, SelectCharacter(c) PROVE VitalsIInv'
  BY <1>0, <1>1, <1>a, StartKeeps DEF SelectCharacter, Player
<1>2. ASSUME NEW c \in Player, Disconnect(c) PROVE VitalsIInv'
  BY <1>0, <1>2, EndKeeps DEF Disconnect, Player
<1>3. ASSUME NEW p \in Proc, NEW a, NEW d, NEW cost, BeginAttack(p, a, d, cost) PROVE VitalsIInv'
  BY <1>0, <1>3, StutterKeeps DEF BeginAttack
<1>4. ASSUME NEW p \in Proc, SpendMana(p) PROVE VitalsIInv'
  <2>1. SpendMP(attack[p].by, attack[p].cost) /\ pc[p] # "idle"  BY <1>4 DEF SpendMana
  <2> QED BY <1>0, <1>b, <1>c, <2>1, SpendMPKeeps
<1>5. ASSUME NEW p \in Proc, ResolveDefender(p) PROVE VitalsIInv'
  BY <1>0, <1>5, StutterKeeps DEF ResolveDefender
<1>6. ASSUME NEW p \in Proc, StartMob(p) PROVE VitalsIInv'
  <2>1. Start(attack[p].on, MobHP, 0) /\ pc[p] # "idle"  BY <1>6 DEF StartMob
  <2> QED BY <1>0, <1>a, <1>c, <2>1, StartKeeps
<1>7. ASSUME NEW p \in Proc, ReviveMob(p) PROVE VitalsIInv'
  <2>1. Revive(attack[p].on) /\ pc[p] # "idle"  BY <1>7 DEF ReviveMob
  <2> QED BY <1>0, <1>c, <2>1, ReviveKeeps
<1>8. ASSUME NEW p \in Proc, ComputeDamage(p) PROVE VitalsIInv'
  BY <1>0, <1>8, StutterKeeps DEF ComputeDamage
<1>9. ASSUME NEW p \in Proc, Deduct(p) PROVE VitalsIInv'
  <2>1. DeductAndReserveKill(attack[p].on, attack[p].damage) /\ pc[p] # "idle"
    BY <1>9 DEF Deduct
  <2> QED BY <1>0, <1>b, <1>c, <2>1, DeductAndReserveKillKeeps
<1>10. ASSUME NEW p \in Proc, RewardKill(p) PROVE VitalsIInv'
  BY <1>0, <1>10, StutterKeeps DEF RewardKill
<1>11. CASE UNCHANGED vars
  BY <1>0, <1>11, StutterKeeps DEF vars
<1> QED BY <1>1, <1>2, <1>3, <1>4, <1>5, <1>6, <1>7, <1>8, <1>9, <1>10, <1>11 DEF Next, AttackStep

\* The part of the invariant about the attacks themselves.
AttacksOK ==
    /\ pc \in [Proc -> {"idle", "mana", "resolve", "start", "revive", "compute", "deduct", "reward"}]
    /\ attack \in [Proc -> [by : Entity \cup {NoPool}, on : Entity \cup {NoPool},
                            cost : Nat, damage : Nat]]
    /\ kills \in [Entity -> Nat]
    /\ rewarded \in [Entity -> Nat]
    /\ \A p \in Proc : pc[p] # "idle" => attack[p].by \in Entity /\ attack[p].on \in Entity

\* It follows from the whole.
LEMMA AttacksInvariant == CombatIInv => AttacksOK
  BY DEF CombatIInv, TypeOK, AttacksOK

\* Finishing an attack keeps the attacks well formed.
LEMMA FinishKeeps ==
  ASSUME AttacksOK, NEW p \in Proc, Finish(p),
         kills' \in [Entity -> Nat], rewarded' \in [Entity -> Nat]
  PROVE  AttacksOK'
  BY DEF AttacksOK, Finish, Goto

\* The deduction keeps the accounts: the attack goes on to reward exactly when its
\* victim's pool went from alive to dead.
LEMMA DeductAccounts ==
  ASSUME CombatIInv, NEW p \in Proc, Deduct(p)
  PROVE  AttacksOK' /\ KillsAccounted'
<1> DEFINE d == attack[p].on
           n == attack[p].damage
<1>0. AttacksOK /\ KillsAccounted  BY AttacksInvariant DEF CombatIInv
<1>1. pc[p] = "deduct" /\ d \in Entity /\ n \in Nat  BY <1>0 DEF Deduct, AttacksOK
<1>2. VitalsIInv  BY DEF CombatIInv, VitalsIInv, TypeOK
<1>3. DeductAndReserveKill(d, n)  BY DEF Deduct
<1>4. Dies(d) <=> killedNow(d, n)
  <2>1. CASE ~Alive(d)
    BY <2>1 DEF Dies, killedNow
  <2>2. CASE Alive(d)
    <3>1. InBounds(pools[d]) /\ ~pools[d].dead  BY <1>1, <1>2, <2>2, PoolOf DEF Alive
    <3>2. pools'[d] = Damaged(pools[d], n)
      BY <1>1, <1>2, <1>3, <2>2 DEF DeductAndReserveKill, VitalsIInv, VitalsTypeOK
    <3>3. InBounds(Damaged(pools[d], n)) /\ (Damaged(pools[d], n).dead <=> pools[d].hp - n <= 0)
      BY <1>1, <3>1, DamagedInBounds
    <3>4. pools'[d] # NoPool  BY <3>2, <3>3, NoPoolIsNoPool DEF InBounds
    <3> QED BY <2>2, <3>2, <3>3, <3>4 DEF Dies, killedNow
  <2> QED BY <2>1, <2>2
<1>5. CASE killedNow(d, n)
  <2>1. /\ pc' = [pc EXCEPT ![p] = "reward"] /\ UNCHANGED <<attack, rewarded>>
        /\ kills' = [kills EXCEPT ![d] = kills[d] + 1]
    BY <1>1, <1>4, <1>5, <1>0 DEF Deduct, Goto, AttacksOK
  <2>2. AttacksOK'
    <3>1. kills[d] + 1 \in Nat  BY <1>0, <1>1 DEF AttacksOK
    <3> QED BY <1>0, <1>1, <2>1, <3>1 DEF AttacksOK
  <2>3. ASSUME NEW e \in Entity
        PROVE  kills'[e] = rewarded'[e] + Cardinality(Rewarding(e)')
    <3>1. IsFiniteSet(Rewarding(e)) /\ Cardinality(Rewarding(e)) \in Nat
      BY RewardingFinite, FS_CardinalityType
    <3>2. kills[e] = rewarded[e] + Cardinality(Rewarding(e)) /\ rewarded[e] \in Nat /\ kills[e] \in Nat
      BY <1>0 DEF KillsAccounted, AttacksOK
    <3>3. CASE e = d
      <4>1. Rewarding(e)' = Rewarding(e) \cup {p} /\ p \notin Rewarding(e)
        BY <1>0, <1>1, <2>1, <3>3 DEF Rewarding, AttacksOK
      <4>2. Cardinality(Rewarding(e)') = Cardinality(Rewarding(e)) + 1
        BY <3>1, <4>1, FS_AddElement
      <4>3. kills'[e] = kills[e] + 1 /\ rewarded'[e] = rewarded[e]
        BY <1>0, <1>1, <2>1, <3>3 DEF AttacksOK
      <4> QED BY <3>1, <3>2, <4>2, <4>3
    <3>4. CASE e # d
      <4>1. Rewarding(e)' = Rewarding(e)
        BY <1>0, <1>1, <2>1, <3>4 DEF Rewarding, AttacksOK
      <4>2. kills'[e] = kills[e] /\ rewarded'[e] = rewarded[e]
        BY <1>0, <1>1, <2>1, <3>4 DEF AttacksOK
      <4> QED BY <3>2, <4>1, <4>2
    <3> QED BY <3>3, <3>4
  <2>4. KillsAccounted'  BY <2>3 DEF KillsAccounted
  <2> QED BY <2>2, <2>4
<1>6. CASE ~killedNow(d, n)
  <2>1. Finish(p) /\ UNCHANGED rewarded  BY <1>6 DEF Deduct
  <2>2. UNCHANGED kills
    <3>1. kills' = [kills EXCEPT ![d] = kills[d]]  BY <1>4, <1>6 DEF Deduct
    <3> QED BY <3>1, <1>0, <1>1 DEF AttacksOK
  <2>3. AttacksOK'
    <3>1. kills' \in [Entity -> Nat] /\ rewarded' \in [Entity -> Nat]
      BY <1>0, <2>1, <2>2 DEF AttacksOK
    <3> QED BY <1>0, <2>1, <3>1, FinishKeeps
  <2>4. \A e \in Entity : Rewarding(e)' = Rewarding(e)
    BY <1>0, <1>1, <2>1 DEF Rewarding, Finish, Goto, AttacksOK
  <2> QED BY <1>0, <2>1, <2>2, <2>3, <2>4, AccountsUntouched
<1> QED BY <1>5, <1>6

\* The reward moves one attack from the pending ones to the given ones.
LEMMA RewardAccounts ==
  ASSUME CombatIInv, NEW p \in Proc, RewardKill(p)
  PROVE  AttacksOK' /\ KillsAccounted'
<1> DEFINE d == attack[p].on
<1>0. AttacksOK /\ KillsAccounted  BY AttacksInvariant DEF CombatIInv
<1>1. pc[p] = "reward" /\ d \in Entity  BY <1>0 DEF RewardKill, AttacksOK
<1>2. Finish(p) /\ UNCHANGED kills /\ rewarded' = [rewarded EXCEPT ![d] = rewarded[d] + 1]
  BY DEF RewardKill
<1>3. AttacksOK'
  <2>1. kills' \in [Entity -> Nat] /\ rewarded' \in [Entity -> Nat]
    BY <1>0, <1>1, <1>2 DEF AttacksOK
  <2> QED BY <1>0, <1>2, <2>1, FinishKeeps
<1>4. ASSUME NEW e \in Entity
      PROVE  kills'[e] = rewarded'[e] + Cardinality(Rewarding(e)')
  <2>1. IsFiniteSet(Rewarding(e)) /\ Cardinality(Rewarding(e)) \in Nat
    BY RewardingFinite, FS_CardinalityType
  <2>2. kills[e] = rewarded[e] + Cardinality(Rewarding(e)) /\ rewarded[e] \in Nat /\ kills[e] \in Nat
    BY <1>0 DEF KillsAccounted, AttacksOK
  <2>3. CASE e = d
    <3>1. Rewarding(e)' = Rewarding(e) \ {p} /\ p \in Rewarding(e)
      BY <1>0, <1>1, <1>2, <2>3 DEF Rewarding, Finish, Goto, AttacksOK
    <3>2. Cardinality(Rewarding(e)') = Cardinality(Rewarding(e)) - 1
      BY <2>1, <3>1, FS_RemoveElement
    <3>3. kills'[e] = kills[e] /\ rewarded'[e] = rewarded[e] + 1
      BY <1>0, <1>1, <1>2, <2>3 DEF AttacksOK
    <3> QED BY <2>1, <2>2, <3>2, <3>3
  <2>4. CASE e # d
    <3>1. Rewarding(e)' = Rewarding(e)
      BY <1>0, <1>1, <1>2, <2>4 DEF Rewarding, Finish, Goto, AttacksOK
    <3>2. kills'[e] = kills[e] /\ rewarded'[e] = rewarded[e]
      BY <1>0, <1>1, <1>2, <2>4 DEF AttacksOK
    <3> QED BY <2>2, <3>1, <3>2
  <2> QED BY <2>3, <2>4
<1>5. KillsAccounted'  BY <1>4 DEF KillsAccounted
<1> QED BY <1>3, <1>5

\* A step that only moves an attack on or ends it, before any blow.
LEMMA QuietAccounts ==
  ASSUME CombatIInv, NEW p \in Proc, pc[p] \notin {"idle", "reward"},
         UNCHANGED <<kills, rewarded>>,
         \/ Finish(p)
         \/ \E s \in {"resolve", "start", "revive", "compute", "deduct"} :
               Goto(p, s) /\ UNCHANGED attack
  PROVE  AttacksOK' /\ KillsAccounted'
<1>0. AttacksOK /\ KillsAccounted  BY AttacksInvariant DEF CombatIInv
<1>1. AttacksOK'
  <2>1. CASE Finish(p)
    BY <1>0, <2>1, FinishKeeps DEF AttacksOK
  <2>2. CASE \E s \in {"resolve", "start", "revive", "compute", "deduct"} :
               Goto(p, s) /\ UNCHANGED attack
    BY <1>0, <2>2 DEF AttacksOK, Goto
  <2> QED BY <2>1, <2>2
<1>2. \A e \in Entity : Rewarding(e)' = Rewarding(e)
  BY <1>0 DEF AttacksOK, Rewarding, Finish, Goto
<1> QED BY <1>0, <1>1, <1>2, AccountsUntouched

\* Every step keeps the attacks well formed and the accounts balanced.
LEMMA CombatAccounts == CombatIInv /\ [Next]_vars => AttacksOK' /\ KillsAccounted'
<1> SUFFICES ASSUME CombatIInv, [Next]_vars PROVE AttacksOK' /\ KillsAccounted'
  OBVIOUS
<1>0. AttacksOK /\ KillsAccounted  BY AttacksInvariant DEF CombatIInv
<1>1. CASE UNCHANGED attackVars
  BY <1>0, <1>1 DEF attackVars, AttacksOK, KillsAccounted, Rewarding
<1>2. ASSUME NEW p \in Proc, NEW a \in Player, NEW d \in Entity, NEW cost \in Points,
             BeginAttack(p, a, d, cost)
      PROVE  AttacksOK' /\ KillsAccounted'
  <2> DEFINE r == [by |-> a, on |-> d, cost |-> cost, damage |-> 0]
  <2>1. a \in Entity /\ cost \in Nat  BY PointsAreNaturals DEF Player
  <2>2. r \in [by : Entity \cup {NoPool}, on : Entity \cup {NoPool}, cost : Nat, damage : Nat]
        /\ r.by \in Entity /\ r.on \in Entity
    BY <2>1
  <2>3. PICK s \in {"mana", "resolve"} : pc' = [pc EXCEPT ![p] = s]
    BY <1>2 DEF BeginAttack, Goto
  <2>4. pc[p] = "idle" /\ attack' = [attack EXCEPT ![p] = r] /\ UNCHANGED <<kills, rewarded>>
    BY <1>2 DEF BeginAttack
  <2> HIDE DEF r
  <2>5. AttacksOK'  BY <1>0, <2>2, <2>3, <2>4 DEF AttacksOK
  <2>6. \A e \in Entity : Rewarding(e)' = Rewarding(e)
    BY <1>0, <2>3, <2>4 DEF AttacksOK, Rewarding
  <2> QED BY <1>0, <2>4, <2>5, <2>6, AccountsUntouched
<1>3. ASSUME NEW p \in Proc, SpendMana(p) PROVE AttacksOK' /\ KillsAccounted'
  <2>1. pc[p] = "mana" /\ UNCHANGED <<kills, rewarded>>
        /\ (Finish(p) \/ (Goto(p, "resolve") /\ UNCHANGED attack))
    BY <1>3 DEF SpendMana
  <2> QED BY <2>1, QuietAccounts
<1>4. ASSUME NEW p \in Proc, ResolveDefender(p) PROVE AttacksOK' /\ KillsAccounted'
  <2>1. pc[p] = "resolve" /\ UNCHANGED <<kills, rewarded>>
        /\ (Finish(p) \/ \E s \in {"start", "revive", "compute"} : Goto(p, s) /\ UNCHANGED attack)
    BY <1>4 DEF ResolveDefender
  <2> QED BY <2>1, QuietAccounts
<1>5. ASSUME NEW p \in Proc, StartMob(p) PROVE AttacksOK' /\ KillsAccounted'
  <2>1. pc[p] = "start" /\ UNCHANGED <<kills, rewarded>> /\ Goto(p, "compute") /\ UNCHANGED attack
    BY <1>5 DEF StartMob
  <2> QED BY <2>1, QuietAccounts
<1>6. ASSUME NEW p \in Proc, ReviveMob(p) PROVE AttacksOK' /\ KillsAccounted'
  <2>1. pc[p] = "revive" /\ UNCHANGED <<kills, rewarded>> /\ Goto(p, "compute") /\ UNCHANGED attack
    BY <1>6 DEF ReviveMob
  <2> QED BY <2>1, QuietAccounts
<1>7. ASSUME NEW p \in Proc, ComputeDamage(p) PROVE AttacksOK' /\ KillsAccounted'
  <2>1. CASE Finish(p)
    <3>1. pc[p] = "compute" /\ UNCHANGED <<kills, rewarded>>  BY <1>7 DEF ComputeDamage
    <3> QED BY <2>1, <3>1, QuietAccounts
  <2>2. CASE ~Finish(p)
    <3>1. PICK n \in Points : attack' = [attack EXCEPT ![p].damage = n] /\ Goto(p, "deduct")
      BY <1>7, <2>2 DEF ComputeDamage
    <3>2. pc[p] = "compute" /\ UNCHANGED <<kills, rewarded>> /\ n \in Nat
      BY <1>7, PointsAreNaturals DEF ComputeDamage
    <3>3. AttacksOK'  BY <1>0, <3>1, <3>2 DEF AttacksOK, Goto
    <3>4. \A e \in Entity : Rewarding(e)' = Rewarding(e)
      BY <1>0, <3>1, <3>2 DEF AttacksOK, Rewarding, Goto
    <3> QED BY <1>0, <3>2, <3>3, <3>4, AccountsUntouched
  <2> QED BY <2>1, <2>2
<1>8. ASSUME NEW p \in Proc, Deduct(p) PROVE AttacksOK' /\ KillsAccounted'
  BY <1>8, DeductAccounts
<1>9. ASSUME NEW p \in Proc, RewardKill(p) PROVE AttacksOK' /\ KillsAccounted'
  BY <1>9, RewardAccounts
<1>10. ASSUME NEW c \in Player, SelectCharacter(c) \/ Disconnect(c) PROVE AttacksOK' /\ KillsAccounted'
  BY <1>1, <1>10 DEF SelectCharacter, Disconnect
<1>11. CASE UNCHANGED vars
  BY <1>1, <1>11 DEF vars
<1> QED BY <1>2, <1>3, <1>4, <1>5, <1>6, <1>7, <1>8, <1>9, <1>10, <1>11 DEF Next, AttackStep

\* The strengthened invariant: types, bounds, one credit per life, balanced
\* accounts and attacks that have an attacker and a defender.
THEOREM CombatInvariant == Spec => []CombatIInv
<1>1. CombatIInv /\ [Next]_vars => CombatIInv'
  <2> SUFFICES ASSUME CombatIInv, [Next]_vars PROVE CombatIInv'
    OBVIOUS
  <2>1. VitalsIInv'  BY CombatVitals
  <2>2. AttacksOK' /\ KillsAccounted'  BY CombatAccounts
  <2> QED BY <2>1, <2>2 DEF CombatIInv, TypeOK, VitalsIInv, AttacksOK
<1> QED BY <1>1, CombatInitOK, PTL DEF Spec

\* Every death is rewarded exactly once, however attacks overlap with each other,
\* with mobs being restarted or revived and with players coming and going
\* (combat.go:244-267, vitals.go:66-89).
THEOREM CombatAccountsBalance == Spec => []KillsAccounted
<1>1. CombatIInv => KillsAccounted  BY DEF CombatIInv
<1> QED BY <1>1, CombatInvariant, PTL
=============================================================================
