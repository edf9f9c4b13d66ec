------------------------------- MODULE Combat -------------------------------
(***************************************************************************)
(* Concurrent ExecuteAttack calls (backend/game/combat/combat.go), one per  *)
(* COMBAT_ATTACK message, over the shared pool registry.  An attack checks  *)
(* its attacker, spends mana, resolves its defender (starting or reviving a *)
(* mob), computes damage and deducts it; each is a separate registry call,  *)
(* and players select characters and disconnect in between.  Hooks and the  *)
(* damage calculation are external: an attack may be vetoed, fail, miss or  *)
(* deal any damage.                                                         *)
(***************************************************************************)
EXTENDS Vitals, FiniteSets

CONSTANTS Proc,       \* goroutines that execute attacks
          Mob,        \* the entities that are mobs
          MobHP,      \* MaxHP of a mob's definition
          PlayerHP,   \* a character's max_hp and max_mp
          PlayerMP,
          MaxKills    \* bound: attacks on an entity that kill it or may still do so

ASSUME ProcsAreFinite == IsFiniteSet(Proc)
ASSUME MobsAreEntities == Mob \subseteq Entity
ASSUME CombatBounds == {MobHP, PlayerHP, PlayerMP, MaxKills} \subseteq Nat

Player == Entity \ Mob

VARIABLES
    pc,         \* the next step of the attack
    attack,     \* its attacker, defender, mana cost and computed damage
    kills,      \* observation: kills[e] times e's pool went from alive to dead
    rewarded    \* rewarded[e]: RewardKill calls for e

attackVars == <<pc, attack, kills, rewarded>>
vars == <<vitalsVars, attackVars>>

Init ==
    /\ VitalsInit
    /\ pc = [p \in Proc |-> "idle"]
    /\ attack = [p \in Proc |-> [by |-> NoPool, on |-> NoPool, cost |-> 0, damage |-> 0]]
    /\ kills = [e \in Entity |-> 0]
    /\ rewarded = [e \in Entity |-> 0]

Goto(p, s) == pc' = [pc EXCEPT ![p] = s]

Finish(p) ==
    /\ Goto(p, "idle")
    /\ attack' = [attack EXCEPT ![p] = [by |-> NoPool, on |-> NoPool, cost |-> 0, damage |-> 0]]

\* handleSelectCharacter starts a fresh session, also over a running one; a
\* disconnect ends it.
SelectCharacter(c) ==
    /\ Start(c, PlayerHP, PlayerMP)
    /\ UNCHANGED attackVars

Disconnect(c) == HasPool(c) /\ End(c) /\ UNCHANGED attackVars

Attacking(e) == {p \in Proc : attack[p].on = e}

\* The attacker resolves and is not known to be dead.
BeginAttack(p, a, d, cost) ==
    /\ pc[p] = "idle"
    /\ kills[d] + Cardinality(Attacking(d)) < MaxKills
    /\ ~(HasPool(a) /\ pools[a].dead)
    /\ attack' = [attack EXCEPT ![p] = [by |-> a, on |-> d, cost |-> cost, damage |-> 0]]
    /\ Goto(p, IF cost > 0 THEN "mana" ELSE "resolve")
    /\ UNCHANGED <<vitalsVars, kills, rewarded>>

SpendMana(p) ==
    LET r == attack[p] IN
    /\ pc[p] = "mana"
    /\ SpendMP(r.by, r.cost)
    /\ IF CanSpendMP(r.by, r.cost) THEN Goto(p, "resolve") /\ UNCHANGED attack ELSE Finish(p)
    /\ UNCHANGED <<kills, rewarded>>

\* GetSession of the defender; what it says may be stale at the next step.
ResolveDefender(p) ==
    LET d == attack[p].on IN
    /\ pc[p] = "resolve"
    /\ \/ d \in Mob /\ ~HasPool(d) /\ Goto(p, "start") /\ UNCHANGED attack
       \/ d \in Mob /\ HasPool(d) /\ pools[d].dead /\ Goto(p, "revive") /\ UNCHANGED attack
       \/ Alive(d) /\ Goto(p, "compute") /\ UNCHANGED attack
       \/ d \in Player /\ ~Alive(d) /\ Finish(p)
    /\ UNCHANGED <<vitalsVars, kills, rewarded>>

StartMob(p) ==
    /\ pc[p] = "start"
    /\ Start(attack[p].on, MobHP, 0)
    /\ Goto(p, "compute")
    /\ UNCHANGED <<attack, kills, rewarded>>

ReviveMob(p) ==
    /\ pc[p] = "revive"
    /\ Revive(attack[p].on)
    /\ Goto(p, "compute")
    /\ UNCHANGED <<attack, kills, rewarded>>

\* zzstat and the damage filters: an error, a miss, or damage of at least 0.
ComputeDamage(p) ==
    /\ pc[p] = "compute"
    /\ \/ Finish(p)
       \/ \E damage \in Points :
            /\ attack' = [attack EXCEPT ![p].damage = damage]
            /\ Goto(p, "deduct")
    /\ UNCHANGED <<vitalsVars, kills, rewarded>>

\* A pool that goes from alive to dead in this step.
Dies(e) == Alive(e) /\ pools'[e] # NoPool /\ pools'[e].dead

Mutant_Deduct_RewardsEveryDeadHit(p) ==
    LET r == attack[p] IN
    /\ pc[p] = "deduct"
    /\ DeductAndReserveKill(r.on, r.damage)
    /\ IF HasPool(r.on) /\ pools'[r.on].dead
       THEN Goto(p, "reward") /\ UNCHANGED attack
       ELSE Finish(p)
    /\ kills' = [kills EXCEPT ![r.on] = IF Dies(r.on) THEN @ + 1 ELSE @]
    /\ UNCHANGED rewarded

\* DeductHPAndReserveKill; only the attack that is told killedNow rewards.
Deduct(p) ==
    LET r == attack[p] IN
    /\ pc[p] = "deduct"
    /\ DeductAndReserveKill(r.on, r.damage)
    /\ IF killedNow(r.on, r.damage)
       THEN Goto(p, "reward") /\ UNCHANGED attack
       ELSE Finish(p)
    /\ kills' = [kills EXCEPT ![r.on] = IF Dies(r.on) THEN @ + 1 ELSE @]
    /\ UNCHANGED rewarded

Mutant_RewardKill_NeedsVictimPool(p) ==
    /\ pc[p] = "reward"
    /\ rewarded' = [rewarded EXCEPT ![attack[p].on] = IF HasPool(attack[p].on) THEN @ + 1 ELSE @]
    /\ Finish(p)
    /\ UNCHANGED <<vitalsVars, kills>>

\* RewardKill: quest progress, loot roll, drops; its errors are ignored.
RewardKill(p) ==
    /\ pc[p] = "reward"
    /\ rewarded' = [rewarded EXCEPT ![attack[p].on] = @ + 1]
    /\ Finish(p)
    /\ UNCHANGED <<vitalsVars, kills>>

AttackStep(p) ==
    \/ SpendMana(p) \/ ResolveDefender(p) \/ StartMob(p) \/ ReviveMob(p)
    \/ ComputeDamage(p) \/ Deduct(p) \/ RewardKill(p)

Next ==
    \/ \E c \in Player : SelectCharacter(c) \/ Disconnect(c)
    \/ \E p \in Proc :
        \/ \E a \in Player, d \in Entity, cost \in Points : BeginAttack(p, a, d, cost)
        \/ AttackStep(p)

Spec == Init /\ [][Next]_vars

FairSpec == Spec /\ \A p \in Proc : WF_vars(AttackStep(p))

-----------------------------------------------------------------------------

TypeOK ==
    /\ VitalsTypeOK
    /\ pc \in [Proc -> {"idle", "mana", "resolve", "start", "revive", "compute", "deduct", "reward"}]
    /\ attack \in [Proc -> [by : Entity \cup {NoPool}, on : Entity \cup {NoPool},
                            cost : Nat, damage : Nat]]
    /\ kills \in [Entity -> Nat]
    /\ rewarded \in [Entity -> Nat]

\* Attacks that struck e dead and have not rewarded it yet.
Rewarding(e) == {p \in Proc : attack[p].on = e /\ pc[p] = "reward"}

\* Each death is rewarded exactly once: the rewards given, plus the attacks that
\* were told killedNow and have yet to reward, are the deaths.  Mobs restarted or
\* revived under a running attack on stale state, victims that log out between the
\* blow and the reward, and two blows at once do not change it (combat.go:259-262).
KillsAccounted ==
    \A e \in Entity : kills[e] = rewarded[e] + Cardinality(Rewarding(e))

\* Every kill is rewarded in the end, whatever the victim does meanwhile.
EveryKillRewarded ==
    \A e \in Entity : \A n \in 1 .. MaxKills : kills[e] = n ~> rewarded[e] >= n

\* Inductive: a running attack has an attacker and a defender.
CombatIInv ==
    /\ TypeOK
    /\ PoolsInBounds
    /\ OneCreditPerLife
    /\ \A p \in Proc : pc[p] # "idle" => attack[p].by \in Entity /\ attack[p].on \in Entity
    /\ KillsAccounted
=============================================================================
