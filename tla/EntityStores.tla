---------------------------- MODULE EntityStores ----------------------------
(***************************************************************************)
(* gamekit's tables: entities that mirror characters, and the components    *)
(* kept for each as one JSON value (its assignment, its wallet, its         *)
(* building levels) beside the time each system last ran for it.  A read    *)
(* and a write are single statements; a write replaces the whole value.     *)
(***************************************************************************)
EXTENDS Integers, Sequences

CONSTANTS Resource,     \* currencies of a wallet
          Building,
          MaxEntities,  \* bound
          None          \* no row

VARIABLES
    entities,   \* the rows of entities of idlekit's kind: their owners, in id order
    wallet,     \* wallet[e][r]: entity_wallet
    assigned,   \* assigned[e]: idlekit_assignment, or None
    levels,     \* levels[e][b]: idlekit_building
    lastRun     \* lastRun[e]: when the idle system last ran for e, or None

storeVars == <<entities, wallet, assigned, levels, lastRun>>

EntityId == 1 .. MaxEntities

StoresInit ==
    /\ entities = <<>>
    /\ wallet = [e \in EntityId |-> [r \in Resource |-> 0]]
    /\ assigned = [e \in EntityId |-> None]
    /\ levels = [e \in EntityId |-> [b \in Building |-> 0]]
    /\ lastRun = [e \in EntityId |-> None]

\* One entity, with the components that kept gives it and a last run at time 0.
StoresOf(c, kept) ==
    /\ entities = <<c>>
    /\ wallet = [e \in EntityId |-> IF e = 1 THEN kept.wallet ELSE [r \in Resource |-> 0]]
    /\ assigned = [e \in EntityId |-> IF e = 1 THEN kept.assigned ELSE None]
    /\ levels = [e \in EntityId |-> IF e = 1 THEN kept.levels ELSE [b \in Building |-> 0]]
    /\ lastRun = [e \in EntityId |-> IF e = 1 THEN 0 ELSE None]

\* The ids of an owner's entities; a mirror is the first of them.
ListByOwner(c) == {e \in 1 .. Len(entities) : entities[e] = c}

First(ids) == CHOOSE e \in ids : \A f \in ids : e <= f

Create(c) == Len(entities) < MaxEntities /\ entities' = Append(entities, c)

\* The owner of an entity.
charOf(e) == entities[e]

\* Get and Set of the wallet store.
WalletGet(e) == wallet[e]
WalletSet(e, balances) == wallet' = [wallet EXCEPT ![e] = balances]

AssignmentSet(e, a) == assigned' = [assigned EXCEPT ![e] = a]

\* World.Query on the assignment component, which has a row for assigned entities.
Query == {e \in EntityId : assigned[e] # None}

LevelsSet(e, lv) == levels' = [levels EXCEPT ![e] = lv]

LastRunGet(e) == lastRun[e]
LastRunSet(e, now) == lastRun' = [lastRun EXCEPT ![e] = now]
=============================================================================
