# A TLA+ model of zzrpg

zzrpg is a game server in Go: a plugin kernel (`sdk/engine`), genre-neutral game
systems (`gamekit`) and the RPG built on both (`backend`). State lives in
PostgreSQL and in process memory; players talk to it over HTTP and WebSockets;
several server processes (nodes) may share one database and one Redis.

This directory models the parts of the server in which goroutines, nodes, failed
statements and crashes meet, checks them with TLC on small instances and proves
the central invariants with TLAPS for instances of any size. Paths below are
relative to the repository root.

1. [The system](#1-the-system)
2. [Modules and the code they model](#2-modules-and-the-code-they-model)
3. [What the runs check](#3-what-the-runs-check)
4. [What is proved](#4-what-is-proved)
5. [Fairness](#5-fairness)
6. [Findings and observations](#6-findings-and-observations)
7. [Abstractions](#7-abstractions)
8. [Not modelled](#8-not-modelled)

Run a model with `tlc -config Outbox.cfg MCOutbox`, check a proof with
`tlapm Outbox_proofs.tla`. `PROJECT.json` names the source lines of every
definition, the runs, and for every property a mutant of the model that breaks it.

## 1. The system

| component | code | state | operations | what makes it correct | module |
|---|---|---|---|---|---|
| inventory locking | `backend/game/inventory/service.go` (`keyedMutex`) | table of reference-counted mutexes | `lock`, unlock | one holder per character; no entry outlives its users; every waiter is served | `KeyedMutex` |
| inventory | `backend/game/inventory` | `inventories` rows, unique per (character, slot) | `AddItem`, `MoveItem` | an item is stored once and never lost; each request is atomic; worn items satisfy their requirements; events describe the equipment | `Inventory` |
| outbox, relay, pruner | `sdk/engine/outbox` | `outbox` rows | `Append`, `Dispatch`, `Prune` | an event exists iff its state change committed; it is published before it disappears, in order per character | `Outbox` |
| event bus | `sdk/engine/bus` | handler table | `Publish` (one goroutine per handler) | a panicking handler affects nobody else | `Outbox` |
| vitals registry | `gamekit/vitals`, `backend/platform/session` | HP/MP pools behind one mutex | `Start`, `End`, `DeductAndReserveKill`, `DeductHP`, `Heal`, `SpendMP`, `Revive` | pools within bounds; one killer per life | `Vitals` |
| combat | `backend/game/combat`, `backend/plugins/combat` | none of its own: a sequence of registry calls | `ExecuteAttack` | every death rewarded exactly once | `Combat` |
| WebSocket hub | `backend/platform/socket` | clients, character mapping, channels | `Run`, `AssociateCharacter`, `ReadPump`, `WritePump` | channels closed once; the hub never blocks on itself; dropped connections end; drops are reported | `SocketHub` |
| characters | `backend/game/character`, `gamekit/progression` | `characters`, `character_stats` rows | `Create`, `AddRewards`, `SpendGold`, `RecalculateStats` | the row is what was granted minus what was spent; the newest stats win; the limit of four | `CharacterRows`, `Auth` |
| quests | `backend/game/quests`, `gamekit/quest` | definitions, quest log rows | `AcceptQuest`, `UpdateQuestProgress`, `CompleteQuest` | rows are never torn; progress is earned; one reward per completion | `QuestLog`, `Progress` |
| loot | `backend/game/loot` | loot tables, a read-through cache | `RollLoot`, `CreateLootTable` | the cache holds what is stored | `LootTables`, `Progress` |
| scheduler, idle engine | `gamekit/system`, `gamekit/idle`, `backend/plugins/idlekit` | last-run times, assignments, entities | `runTicker`, `Catchup`, `Assign`, `mirror` | elapsed time is paid once; one entity per character | `Economy`, `IdleRules`, `EntityStores` |
| economy | `gamekit/economy`, idlekit's `resourceWallet` | wallets | `Earn`, `Credit`, `Balances` | a balance is never negative nor more than was earned | `Economy`, `EntityStores` |
| crafting, buildings | `backend/plugins/crafting`, `backend/plugins/buildings` | items, building levels | `Craft`, `Upgrade` | what a character has was paid for | `Economy` |
| auth | `backend/game/auth` | users, refresh tokens, login attempts | `Register`, `Login`, `Refresh`, `Logout` | a login has one session; failures are limited | `Auth` |
| kernel, migrations | `sdk/engine/kernel`, `sdk/engine/admin`, `backend/platform/database`, `backend/cmd/server` | plugin order, service registry, `schema_migrations`, enabled flags | `Run`, `topoSort`, `Init`, `Start`, `Stop`, `Toggle` | dependencies first and last; every migration once and in order | `Kernel`, `Plugins` |
| event log | `sdk/engine/eventlog` | `event_log` rows | append, `Replay` | appended with the state change | `Outbox` (append) |
| event stream | `sdk/engine/eventstream`, `sdk/engine/bus/fanout.go` | Redis stream, consumer groups | publish, consume | not switched on by this build | none |
| hooks, content, items, skills, stat client, infrastructure | `sdk/engine/hooks`, `backend/content`, `backend/platform/statclient`, `sdk/pkg` | definitions, configuration | lookups, formulas, I/O | no control of their own | none |

How they meet:

- A combat message runs on its connection's ReadPump goroutine, calls the session
  registry (shared by all connections) step by step, and on a kill advances quests,
  rolls loot and calls `AddRewards`, whose transaction appends outbox rows. The relay
  of some node publishes them on its bus; subscribers run in goroutines of their own.
- A level-up or an equip event recalculates the character's cached stats, which set
  the rate at which the idle engine pays gold; crafting and buildings spend that gold
  in transactions on the same row.
- Selecting a character associates it with the connection in the hub and starts a
  session in the registry; a dropped connection ends both, from several goroutines.
  The login event mirrors the character to its idle entity and settles offline time,
  while the ticker settles it too.
- The kernel sorts the plugins, core's Init migrates the shared database, and every
  other plugin takes its services from the registry.

The hard behaviours are therefore overlap (goroutines over one registry, lock table,
hub, wallet or quest row), several nodes over one database with locks that are only
local, failed statements and replies lost after a commit, crashes between two
statements, and channels that several parties close or wait on. `PROJECT.json` lists
these hazards one by one with the property that covers each.

## 2. Modules and the code they model

`PerKeyLock` and `AtomicInventory` are abstract specifications; `KeyedMutex` and
`Inventory` are shown to implement them. `Inventory` composes `KeyedMutex` with the
table and `InventoryRules`; `Combat` composes `Vitals` with concurrent attacks;
`Progress` composes `CharacterRows`, `QuestLog` and `LootTables`; `Economy` composes
`CharacterRows`, `EntityStores` and `IdleRules`. MC modules give constants their
values; `*_proofs` modules hold the theorems.

**KeyedMutex.** `locks`, `refs` and `holder` are the map, the `refs` fields and the
mutexes; an address is reused as soon as neither the table nor a goroutine refers to
it. The section under `k.mu` is one step; `Register`, `Acquire`, `Release` and
`Deregister` are the four points between which other goroutines run
(service.go:41-60). `PerKeyLock` is what callers rely on: a request, a grant to one
requester of a key, a release.

**InventoryRules, Inventory, AtomicInventory.** `rows` is the table. A request is a
goroutine with a program counter, one step per database statement: `ListByCharacter`
and `InsertItem` (with the rejection of a full bag) for `AddItem`; `FetchItem`
(with `validateEquipmentRequirements`), `FetchDest`, `WriteMove` (`MoveRow` or
`SwapRows`) and `PublishMove` for `MoveItem`. `DbError` fails any statement,
`LostReply` commits a write and reports an error, a read may be cut short
(`complete`), because `ListByCharacter` does not ask `rows.Err()`. `Return` and
`Leave` are the deferred unlock on every path. Locks are keyed by (node, character),
because each process has its own table. `told` sums the equip and unequip events of
each item: the bus starts a goroutine per handler and keeps no order, so the sum is all
a subscriber can rely on. `silent` holds the characters of whom a move was committed and
never published (a lost reply, or the process died in between); `hit` records a violated unique constraint after a complete read.
`AtomicInventory` adds or exchanges in one step that checks the state it changes.

**Outbox.** A worker runs `AddRewards`: `LockCharacter` (SELECT ... FOR UPDATE),
`AppendRewarded`, `AppendLeveled`, then `Commit` or `Rollback`. Ids come from a
sequence that does not wait for commits, so rows become visible out of order. A relay
runs `Scan`, then `PublishRow` and `MarkRow` row by row; `MarkError` gives up the rest
of the batch; a row whose type has no decoder is marked unpublished. `Prune` deletes
marked rows, `Handle` runs a handler goroutine, `Crash` loses a node's memory and
rolls its transactions back. `published` and `handled` only observe.

**Vitals, Combat.** Every registry method is one step, since it runs under the
registry's mutex. `Combat` splits `ExecuteAttack` at each registry call:
`BeginAttack`, `SpendMana`, `ResolveDefender`, `StartMob` or `ReviveMob`,
`ComputeDamage`, `Deduct`, `RewardKill`. Between them players select characters
(a fresh pool, also over a running one) and disconnect. `credits` and `kills` only
observe. `Heal` and `DeductHP` have no caller in the server: the theorems about
`Vitals` include them, the run does not.

**SocketHub.** The hub goroutine takes `HubRegister`, `HubUnregister`,
`HubBroadcast` and then drops the slow consumers one at a time (`DropStale`). A
ReadPump connects, reads a message that broadcasts, is refused, or selects a character
(`AssociateCharacter`, then `Override` outside the lock, then `Reply`), and ends by
unregistering. A WritePump writes or exits. The three channels of the hub are
rendezvous: the sender's step and the hub's are one. A send on a closed `Send`
channel is `Panic`: nobody recovers it, so the process restarts with empty maps.

**CharacterRows.** `rows`, the row locks, what a transaction has read, and the cached
stats (`derived`). `SelectForUpdate` waits for the holder; `WriteRewards` levels up
from the values that were read with the loop of `progression.Apply` and commits;
`WriteSpend` lets the database subtract. `RecalculateStats` is `ReadBaseStats`,
`GetEquippedModifiers` and `UpdateStats` without a lock. `ledger` records what was
granted and spent, `disturbed` the characters of which two recalculations overlapped or
one was lost.

**QuestLog, LootTables, Progress.** A goroutine runs `RewardKill`: `FetchQuests` keeps
the rows as they were read, then for each one `SaveProgress` or `FinishQuest` (an UPDATE
that only finds an active row, so that one of several callers gets it), `LockRow` and
`AddRewards`, the recalculation a level-up brings, `GrantItems`; after the quests it
looks for the loot table (`FindTable`, `GetLootTable`, `FillCache`), rolls and pays the
drop. Others accept quests, define loot tables and invalidate the cache, change
equipment, or call the administrator's progress endpoint. `DbError` fails a statement
with the error path of its caller (ignored for rewards, returned for rows), `Crash`
ends all goroutines and rolls their transactions back.

**EntityStores, IdleRules, Economy.** `entities`, `wallet`, `assigned`, `levels` and
`lastRun` are the component and last-run stores, empty or as an earlier run left them.
`runTicker` starts `TickAll`, which goes through the assigned entities one after the
other (`NextEntity`), as a login goes through one of them: `Now` reads the time,
`LastRun` asks the database when the entity last ran, `Accrue` (window, producer,
output), `EarnRead` and `Earn` for resources, `AddRewards` for gold and experience,
`Record` writes the time that `Now` read, which may be earlier than what is stored by
then. `CraftHandler` is `Balances`, `SpendGold`, then for each resource of the recipe,
in any order, the mirror lookup, `DebitRead` and `Credit`, then `GrantItem`; a failure
between two of them leaves a partial debit. `UpgradeHandler` is `ReadLevels`,
`SpendGold`, `Raise`. `mirror` runs under its mutex (`MirrorLock`, `Mirror`). Time is a
clock of a few units that may advance between any two statements; integer divisions are
those of the code. `earned`, `credited` and `excess` only observe: `excess` counts the
ticks of an entity that begin while another is under way and those that fail after they
were applied.

**Auth.** `users`, `owner` (the rows of `refresh_tokens`) and `heroes` are the tables,
`limiter` the entries of each node. A login passes `locked`, then the password check,
then `fail` or `success`, which may meet another entry than the one that was asked.
The account is looked up by the name as it was typed, the limiter's entry by
`KeyOf` of it (trimmed, in lower case), so names that differ in case are accounts of
their own that share an entry. A refresh deletes its token's row and returns the owner in one statement (`Consume`),
looks the user up and stores a new token. The times of the limiter are kept as what has
come to pass (window over, lock over); tokens expire at any time. `CreateHandler` needs
an access token, counts without a lock and inserts. `loginOf` records which login a
token continues.

**Plugins, Kernel.** `Plugins` is the catalogue of `backend/cmd/server/main.go`: what
each plugin's `Meta` requires, which services its `Init` takes with `MustResolve` and
provides, how many migrations it has. `Kernel` runs any such catalogue on several nodes:
`Boot` with an order of registration, `topoSort` as a stack of frames (`VisitRoot`,
`VisitDep`, `Ordered`), `Init` of one plugin after the other, core's with every
migration set (`CheckMigration` and the transaction `ApplyMigration` are separate
steps), `Start`, requests through the activation gate, `Toggle`, `Signal`, `Drained`,
`StopPlugin` in reverse, and `Exit` at any time.

## 3. What the runs check

| run | instance | states | properties |
|---|---|---|---|
| `inventory_node` | 2 requests on one node; bag of 2, two equipment slots; a sword and an armour above the hero's level; lost replies | 220 k | `NoConstraintHit`, `EventsAddUp`, `ImplementsAtomicInventory`, `EveryRequestReturns`, `MutualExclusion`, `EvictedWhenIdle`, `ImplementsPerKeyLock` |
| `inventory_cluster` | 2 requests on two nodes, lost replies; states that differ only in what subscribers were told (read by nothing) are explored once | 462 k | `ItemsStoredOnce`, `ItemsConserved` |
| `inventory_equip` | 2 requests, 3 items | | `EquippedItemsMeetRequirements` is violated |
| `outbox` | 2 nodes with a worker each, 2 characters, 2 events, 1 crash | 423 k | `NoEventDropped`, `PublishedInOrder`, `StateAndEventsAgree`, `OutboxIInv`, `BacklogDrains` |
| `outbox_delivery` | 1 node, 1 character, 2 events, 1 crash | | `DeliveredAtLeastOnce` is violated |
| `combat` | 2 attacks, a player and a mob, 2 HP | 49 k | `KillsAccounted`, `PoolsInBounds`, `OneCreditPerLife`, `EveryKillRewarded` |
| `hub` | 2 connections, 1 character, buffer of 1 | 46 k | `ClosedOnce`, `MappingHeld`, `HubServes`, `DroppedClientsEnd` |
| `hub_logout` | 2 connections, 2 characters | | `DropsReported` is violated |
| `progress` | 2 goroutines, 1 character, a quest of 1 wolf and 2 boars, a loot table; 3 calls, 1 crash | 190 k | `RewardsAccounted`, `LogCoherent`, `QuestRewardsAccounted`, `ProgressEarned`, `StatsFresh`, `CacheCoherent`, `CompletedIsFinal`, `EveryCallEnds` |
| `economy` | the ticker and 2 requests at a time, 1 character, 2 resources, a building, a recipe of 1 resource and one of 2 and gold; empty tables or two kinds of earlier ones; 2 time units, 2 requests, 2 faults | 1.4 M | `OneMirror`, `WalletBacked`, `PurchasesPaid`, `TimePaidOnce`, `RewardsAccounted` |
| `kernel` | 2 nodes, the 12 plugins of the server and their 13 migrations; main's order, its reverse, a missing requirement, a duplicate; 2 starts | 695 k | `LifecycleOrder`, `MigrationsInOrder` |
| `auth` | 2 requests, 2 usernames with one key, 2 tokens, 3 logins, 3 names; lock after 2 failures, limit of 1 character; 1 crash | 1.6 M | `OneSessionPerLogin`, `LoginLimited`, `CharactersLimitedUpToOverlap` |

What they show:

- *Lock table and inventory.* The entry of a character is never deleted under somebody
  who has fetched it and not locked it yet, and never leaked; callers see a plain lock
  per key. On one node, whatever a request read is still true when it writes, so each
  is atomic and only a truncated read can meet the unique constraint; once requests
  have published, the events of a character add up to what it wears, in whatever order
  they are handled. A move that is committed and not published is never reported later,
  and its character is excepted. On two nodes the
  locks exclude nobody, and the constraint alone still keeps every item stored exactly
  once, also when the reply of a committed write is lost.
- *Outbox.* No committed event leaves the table before a relay has published it,
  whatever crashes; per character the order of first publication is the commit order,
  because the row lock is held from before the id is drawn until the commit. Marking
  that fails again and again delays the backlog but does not wedge it.
- *Combat.* The registry decides who killed; an attack that works on a stale view of
  its defender (absent, dead, started meanwhile) neither loses nor doubles a reward,
  and a victim that logs out after the blow is still paid for.
- *Hub.* A connection may be removed by a broadcast, an override and its own reader
  at the same time: its channel is closed once. The hub always comes back to its
  `select`.
- *Progress.* Overlapping kills write quest rows they read before: progress may be
  lost, but a row is never torn, never filled by more than was done, and a completed
  quest stays completed, since every write asks for an active row. A completion is
  paid once or is lost to a failure of `AddRewards`, whose error service.go:169 drops.
  Gold, experience and levels add up to the last coin. The cached stats are right
  unless two recalculations overlapped. A reader may fill the cache after the writer
  has invalidated it and still stores the right table, because definitions are only
  inserted and misses are not cached.
- *Economy.* Wallets lose updates, but nobody gains by it: a balance is at most what
  was banked, items and levels cost at most what was spent. A tick that waits between
  reading the time and reading the last run may write an older time over a newer one,
  and the tick after it pays the same time again although no two ticks overlap then:
  so `TimePaidOnce` does not except moments, it counts. Each tick that began while
  another was under way, and each that failed after it was applied, costs one payment
  of a moment at the most. One node has one entity per character.
- *Kernel.* Whatever the order of registration, `Init` finds every service it must
  resolve, plugins stop before what they require, and after Shutdown has drained HTTP
  no request is under way. Nodes that start together apply a migration once: the loser
  of the race rolls back and does not start.
- *Auth.* Rotation never forks a session. Between two clearings of its entry the limiter
  overshoots by the logins that had passed its check, under all names of the key
  together, and the character limit by the requests that had counted.

**Bounds.** Two goroutines (requests, attacks, kills, connections) are enough for every
pairwise overlap. `BufSize = 1` makes slow consumers common (256 in the code);
`MaxBagSlot = 1` full bags; `MaxFailures = 2` and `MaxCharacters = 1` (5 and 4 in the
code) locks and limits. `MaxEvents`, `MaxCrashes`, `MaxKills`, `MaxCalls`,
`MaxRequests`, `MaxFaults`, `MaxTime`, `MaxTokens`, `MaxLogins`, `MaxBoots`,
`MaxToggles` and `MaxEntities` cap counters that grow for ever: two events and one
crash interrupt a batch in the middle while another node takes over; three calls kill a
wolf and both boars, or let two kills race for the last step; two requests are two
crafts, two upgrades, or a login and another against the ticker, on tables where they
can be paid; two time units give a tick that is late a later last run to write over,
and a next tick that pays again; two faults cut a debit short and crash; two tokens are
a login and a rotation, or two logins under two spellings. The
proofs of section 4 do not depend on any of these values. Symmetry is used in `economy`
(the two requests) and `auth` (requests, names), which check no liveness. Deadlock
checking is off where the bounds let an instance come to an end (`Outbox`, `SocketHub`,
`Progress`, `Economy`, `Kernel`, `Auth`).

## 4. What is proved

Eight proof modules (`Inventory`, `Outbox`, `Combat`, `SocketHub`, `Progress`,
`Economy`, `Auth` and `Kernel`, each with `_proofs`); each EXTENDS its component and
follows the same argument: `Init => IInv`, `IInv /\ [Next]_vars => IInv'` with one lemma
or step per action, `IInv => property`, then PTL. `Inventory_proofs` also holds the
theorems of `KeyedMutex`, `Combat_proofs` those of `Vitals`.

| theorem | statement | from |
|---|---|---|
| `LockInvariant`, `LockSafety`, `LockEviction` | `LockSpec => []LockIInv`, `[]MutualExclusion`, `[]EvictedWhenIdle` | `FiniteProcs`, `NoneIsNoValue` |
| `LockRefinement` | `LockSpec => PKL!Spec`: the table implements one lock per key | the same |
| `RequestsUseLock` | `Spec => LockSpec`: the inventory service uses the table as it asks, so the theorems above hold of it | the same, `KeyPerNode` |
| `InventoryInvariant`, `StoredOnce`, `Conserved` | `Spec => []InventoryIInv`, `[]ItemsStoredOnce`, `ItemsConserved`, on any nodes | those of the lock, `NoItemIsNoItem`, `SlotRanges`, `BadSlotIsBad` |
| `NoHit`, `InventoryRefinement` | `Spec => []NoConstraintHit`, `Spec => ImplementsAtomicInventory` | the same and `SingleNode` |
| `EventsSum` | `Spec => []EventsAddUp` | the same and `SingleNode` |
| `OutboxInvariant`, `EventsNotDropped`, `EventsMatchState`, `PublicationOrder` | `Spec => []OutboxIInv`, `[]NoEventDropped`, `[]StateAndEventsAgree`, `[]PublishedInOrder` | `NodeOfType`, `BatchSize`, `EventBounds`, `NoneIsNobody`, `DecodableTypes` |
| `VitalsBounds`, `VitalsCredits` | `VitalsSpec => []PoolsInBounds`, `[]OneCreditPerLife` | `PointsAreNaturals`, `NoPoolIsNoPool` |
| `CombatInvariant`, `CombatAccountsBalance` | `Spec => []CombatIInv`, `[]KillsAccounted` | those of Vitals, `ProcsAreFinite`, `MobsAreEntities`, `CombatBounds` |
| `HubInvariant`, `HubClosesOnce`, `HubKeepsMapping` | `Spec => []HubIInv`, `[]ClosedOnce`, `[]MappingHeld` | `BufferHasRoom`, `NothingIsNoValue` |
| `ProgressInvariant`, `LogsCoherent`, `CachesCoherent`, `CompletedStays`, `RewardsPaidOnce` | `Spec => []ProgressIInv`, `[]LogCoherent`, `[]CacheCoherent`, `CompletedIsFinal`, `[]QuestRewardsAccounted` | `QuestsHaveSteps`, `NoQuestIsNoRow`, `NoTableIsNoTable`, `CallsAreFinite`, `AmountsAreNumbers`, `RewardsAreNumbers`, `CreaturesHaveTables`, `QuestersAreCharacters` |
| `ProgressIsEarned` | `Spec => []ProgressEarned` | the same and `TargetsAreVictims` |
| `StatsAreFresh` | `Spec => []StatsFresh` | those of `ProgressInvariant`, `NoProcIsNoProc` |
| `EconomyInvariant`, `MirroredOnce`, `WalletsBacked`, `PaidOnce`, `RowsAccounted` | `Spec => []EconomyIInv`, `[]OneMirror`, `[]WalletBacked`, `[]TimePaidOnce`, `[]RewardsAccounted` | `CurveBaseIsPositive`, `NoProcIsNoProc`, `WindowsAreOrdered`, `TickerIsAProc`, `NoneIsNoTime`, `ContentIsNatural`, `ContentIsFinite`, `EarlierIsStored`, `EconomyBounds` |
| `PurchasesInvariant`, `PurchasesArePaid` | `Spec => []PurchaseInv`, `[]PurchasesPaid` | the same |
| `SessionInvariant`, `SessionsNotForked`, `CharacterLimit` | `Spec => []SessionIInv`, `[]OneSessionPerLogin`, `[]CharactersLimitedUpToOverlap` | `FinitelyMany`, `NoUserIsNobody`, `LimitAllowsOne`, `AuthBounds` |
| `LoginsLimited` | `Spec => []LoginLimited` | the same, `RequestsHaveNodes`, `NamesHaveKeys`, `FailuresLock` |
| `KernelInvariant`, `PluginsInOrder`, `MigrationsApplied` | `Spec => []KernelIInv`, `[]LifecycleOrder`, `[]MigrationsInOrder` | `CoreIsAPlugin`, `CoreRequiresNothing`, `OrdersArePlugins`, `RequiresAreNames`, `VersionsAreNumbers`, `CatalogCloses` |

They hold for any number of goroutines, nodes, keys, characters, items, connections,
events, quests, entities, recipes, buildings, tokens and plugins, any batch, buffer, bag
and experience curve. Every safety property that a passing run checks is stated by one
of them. Why the strengthenings are needed:

- `LockIInv`: mutual exclusion says nothing about waiters. What keeps it is that the
  table still maps a waiter's key to the mutex it fetched (`EntryStable`), which holds
  because the reference count equals the number of goroutines that refer to an entry
  (`RefsExact`), so it is deleted only by the last of them. `HolderExact` ties the
  mutex to the goroutine inside.
- `InventoryIInv`: an item that is about to be inserted is in no slot and in no other
  request's hands (`StoredInv`), which with the unique constraint is all that keeps items
  apart on several nodes; nothing it says depends on the lock. `OneNodeIInv` adds what
  the lock gives on one node: what a request has read is still what is stored
  (`ReadInv`), since two requests at work on one character would hold the same key
  (`MutualExclusion`, by `RequestsUseLock`). Each write is then a step of
  `AtomicInventory`, and everything else stutters. `EventInv` lets the sum of the
  events be behind by the one move that is about to be published; a move whose reply
  was lost silences its character for good.
- `OutboxIInv`: publication order needs that uncommitted rows of a character have
  larger ids than its committed ones (`CommitOrder`, from the row lock in `TxInv`), and
  that a batch lacks no earlier unpublished row of the same character, although the
  relay read it some time ago (`RelayInv`).
- `VitalsIInv`: a credit has been given only if the pool is dead (`OneCreditPerLife`
  carries this itself), and death and HP 0 go together (`PoolsInBounds`).
- `CombatIInv`: each attack that was told `killedNow` counts as a reward under way; the
  proof moves one goroutine in or out of that set per step and counts.
- `HubIInv`: a client that is registered has a reader that will unregister it, and one
  that is not registered yet has neither a closed channel nor a character.
- `ProgressIInv`: rows in a goroutine's hands are as coherent as rows in the table
  (`Listed`), since any of them may be written back later; a goroutine that pays or is
  about to fill the cache knows for what (`Held`), and what it fills in is what is
  stored, because tables do not change once they exist. `RewardsPaidOnce` counts the
  goroutines that are paying, as in combat.
- `EarnedIInv`: a stale row may be written over a newer one, so it is not enough to bound
  what is stored. Every row, in the table or in a goroutine's hands, holds at most what
  was asked for less what is still outstanding (`Covered`): one unit for each point of
  progress that a call has yet to list or to write on that quest (`Units`). A write turns
  units into progress; a call that gives up only drops them; a call that begins adds the
  same number to both sides. That a row's current step is about its holder's target ties
  a call's units to the step it fills.
- `FreshIInv`: a transaction that has read a row holds its lock, so what it writes back is
  what is stored plus its reward; and the only recalculation of an undisturbed character
  has read base stats and equipment that are still current when it writes.
- `EconomyIInv`: what each call has established at its step (`CallInv`), who holds the
  mirror's mutex and what it has seen (`MirrorInv`), the entities that exist
  (`StoresInv`), that a wallet, and one that was read to be written back, holds no more
  than was banked (`WalletInv`), that the row a transaction has read is the stored one
  and accounted for (`PayInv`). `TimeInv` is an account for each moment: what was paid for
  it, the ticks under way that may still pay for it (`Claims`), and one more if a tick
  that is yet to begin could do so without getting in another's way (`Spare`), come to no
  more than one and the excess. A tick that has not read the last run yet, or whose
  window reaches the moment, claims it while the moment lies after the last run or while
  some tick under way will record an earlier one (`Late`): that is how a time written
  back too late enters the account before it is paid.
- `PurchaseInv`: the levels an upgrade read long ago may come back when it writes them, so
  these too, with the items and what is paid and not yet granted (`Pending`), must have
  cost no more than was spent.
- `SessionIInv`: a login has one carrier, a request that works on it or a token with a
  row; `Consume` turns the one into the other in one statement. `LimiterIInv` adds the
  limiter's types: `LoginLimited`, which counts with the failures of a locked entry the
  tries that had passed its check, is inductive as it stands.
- `KernelIInv`: every requirement that a frame of `visit` has passed is done, except
  for the last one while the next frame is about it (`Frames`); so a plugin is appended
  after all it requires (`Closed`), whatever the graph. `Position` says how far `Init`
  or `Stop` has come and which services are there. `MigrationIInv` adds what a node has
  seen complete (`Migrated`), which stays true when other nodes go on, as records are
  never removed.

`InventoryIInv` and its parts, `EarnedIInv`, `FreshIInv`, `EconomyIInv` and `PurchaseInv`
were checked by TLC on the instances of section 3 before they were proved.

Three proofs need facts about recursive functions: the levels that experience brings
(`CharacterRows`), the doubling cost of a building (`IdleRules`), and sums over finite
sets. The library's induction theorems cannot be applied here, since they take an
operator; `Economy_proofs` argues by least counterexamples instead (`LessIsWellFounded`:
a set of numbers that is not empty has a least element). It shows that the functions
exist, gives six times the experience below a level in closed form (`XPBelowTotal`), and
proves that the loop of `progression.Apply` has exactly one result (`ResultExists`,
`ResultUnique`), on which the accounts of a row rest.

`SingleNode` (all requests on one node) is a hypothesis of the theorems that name it,
not an assumption of the model: on two nodes `NoConstraintHit` and the refinement fail.
It holds in `inventory_node`, which checks these properties. `CatalogCloses` (a plugin requires the providers of what it
resolves), `CoreRequiresNothing` and the other assumptions are checked by TLC for the
values of each run. `TargetsAreVictims` names the targets of quest steps among those a
call may be about: a call on any other target matches no step.

Only model-checked: every liveness property and the fairness part of
`ImplementsPerKeyLock` (liveness under fairness and `ENABLED` are out of the prover's
reach). `RewardsAccounted` is proved of `Economy`; for `Progress`, whose steps on a row
are a part of the same `CharacterRows`, it is model-checked.

## 5. Fairness

- `Acquire`, `Enter` (SF): `sync.Mutex` in starvation mode hands the mutex to the
  waiter that has waited longest after 1 ms, so a waiter that finds it free again and
  again is not passed over for ever.
- `Release`, `Deregister`, `Statement`, `Return`, `Leave`, `AttackStep`, the pumps,
  `Step` of `Progress` (WF): a goroutine that can run runs; a statement returns a result
  or an error. No fairness is given to arrivals of requests, errors, disconnects or
  crashes.
- `LockRow` of `Progress` (SF): PostgreSQL queues the waiters of a row lock.
- `Scan`, `PublishRow` (WF): the relay's ticker fires every second for ever.
- `MarkRow` (SF): the database may fail an UPDATE any number of times, but does not
  fail every one of them. Without this the backlog need not drain.
- `Handle` (WF): a handler goroutine that was started and not lost in a crash runs.
- `HubRegister`, `HubUnregister`, `HubBroadcast` (SF): Go's `select` chooses at random
  among the senders that are ready. `DropStale` and `Override` are WF.

`Economy`, `Kernel` and `Auth` are checked for safety only.

## 6. Findings and observations

Findings, each with a run that ends in a counterexample:

- **`inventory_equip`, code bug.** Moving a worn item onto an occupied bag slot swaps
  the bag item into the equipment slot unchecked: the branch at service.go:191 treats
  the swap as an unequip and validates nothing, while service.go:167 promises the
  rules for moves to equipment slots. The trace equips the sword, then moves it onto a
  bag slot with an item of another class.
- **`outbox_delivery`, documentation.** outbox.go:10 and relay.go:14 promise
  at-least-once delivery. `Publish` returns when the handler goroutines are started
  (relay.go:91), the row is marked, and a crash before they run loses the event for its
  subscribers. What does hold is `NoEventDropped`: at-least-once *publication*.
- **`hub_logout`, documentation.** hub.go:29-30 says the logout handler is invoked
  whenever a character's connection is dropped. A connection that switched from one
  character to another stays mapped under the first; when somebody selects the first,
  its `CharacterID` is zeroed (hub.go:100) and it is dropped without a report for the
  character it plays.

Met while modelling, and part of the models as the code has them:

- Overlapping kills lose quest progress, and overlapping wallet updates lose credits or
  debits (quests/service.go:134, idlekit/plugin.go:291). Two crafts may pass one check
  of the wallet, against crafting.go:156 ("Costs are fully checked before anything is
  debited"): the second debit is clamped at zero. Resources are debited one by one, so
  a failure between two of them leaves a craft without output partly paid.
- A tick reads the time (scheduler.go:89) before it reads the last run (:91). One that
  waits in between finds a later last run, pays nothing, writes its older time over it
  (:99), and the next tick pays what was paid already. `TimePaidOnce` bounds this.
- Accounts are looked up by the name as typed, the limiter's entries by the name trimmed
  and in lower case (auth/service.go:110, :115). Whoever has an account `ANN` clears the
  failures of `ann` by logging in to it, so that more failures of one username fit in a
  window than "this many failed logins for one username within the lockout window"
  (loginlimiter.go:8-9). `LoginLimited` holds between two such clearings.
- Handlers of two events run in any order (bus.go:107-117): a subscriber that takes the
  last equip event it sees for the current state may be wrong; the character plugin
  reads the table again instead.
- Creations that overlap exceed the limit of four characters (character/repository.go:28).
- A quest's reward is lost when `AddRewards` fails after `CompleteQuest`
  (quests/service.go:169).
- Production is an integer per tick: with ticks of 15 seconds gathering and low building
  levels yield 0 while the last-run time advances, so that an online player earns
  nothing; windows below the minimum are recorded without credit. `Assign` does not
  settle the time of the earlier assignment. Recipes ask for metal, which nothing
  produces.
- The mutex of `mirror` is local: two nodes may create two entities for a character.
- A refresh whose `Save` fails has consumed its token and ends the session. A logout
  that races a refresh deletes the old token and leaves the new one. An access token
  stays valid until it expires. A failure that is counted after the window has elapsed
  replaces an entry and with it a lock that still held.
- A plugin that fails in Init or Start ends Run without `stopAll`: plugins that were
  initialised are not stopped. `Shutdown` does not wait for WebSocket connections.
- The cross-node event stream is never enabled: `setupEventStream` asks for a
  `*bus.Fanout` (core/plugin.go:177) and `ic.Bus()` is the kernel's `*gatedBus`
  (kernel.go:207).
- main.go:41 calls the stat plugin "optional"; the character plugin requires it.

## 7. Abstractions

- Events, messages, items and tokens have no contents. Points are naturals (`float64` in
  the code, where they are only added, subtracted and compared); a mob has no MP.
- The damage of an attack, hooks and the outcome of a loot roll are external: any
  outcome. Stats are the base stats and what is worn.
- `Swap` is a transaction of three updates and is one step. On one node the lock
  justifies it. In a cluster it runs at READ COMMITTED: it takes the row out of its
  first slot and keeps both the row and the slot's unique key locked until it commits,
  so what its second update finds is what it exchanges, and a competing writer either
  waits, finds the row gone or fails on the unique constraint.
- An item row is inserted under a fresh identity: a client that repeats `AddItem`
  after an error asks for another row.
- Transactions on a character write the row together with their commit; nobody else can
  see or change the locked row in between. `Progress` and `Economy` leave the outbox
  rows of the same transaction to `Outbox`, and the inventory calls to `Inventory`.
- A handler is one goroutine per event and node rather than one per subscriber, so
  "handled" means by all of them.
- The broadcast loop is one step: it runs under the hub's read lock and never blocks.
- The logout callback is represented by its argument. What it does to the session
  registry is modelled in `Combat` (`Disconnect`), not in `SocketHub`.
- Level and class of a character are constants of the inventory: a level only rises,
  a class never changes.
- `Panic` restarts the server. No property forbids it; the hazard list records it.
- In `Economy` a tick's output is computed in one step from the assignment, character and
  levels it reads (several statements of `Accrue` and of the buildings' filter), a level
  of a building is a number, and all goroutines run on one node. When the filter's read
  fails, the code goes on without levels, earns nothing and records the time; in the
  model the tick fails. No property relates these reads to each other.
- In `Progress` and `Economy` a failed statement has had no effect: a reply that is lost
  after the commit of `AddRewards` or `SpendGold` is not modelled there (in `Inventory` it
  is). Such a commit counts as a loss for its caller, who does not retry.
- In `Kernel` a plugin's Init is one step apart from migrations, and any plugin may be
  the one whose process dies; requests are told apart by the plugin they are for.

## 8. Not modelled

- *Event stream* (`sdk/engine/eventstream`, `bus/fanout.go`): not reachable in this build,
  see section 6.
- *Replay* of the event log and `UpdateLastActive`: a read at login, by the start time of
  transactions (eventlog.go:56); what a client must be shown is stated nowhere.
- *Hooks, content, items, skills, registries of content*: set up once and then read.
- *Stat client*: numeric formulas behind a foreign function interface.
- *gamekit's relations, templates, inventory, progression service, `DefaultApplier` and
  economy's `Spend`*, and the *gamedemo* program, the only caller any of them has: the game
  server calls none of them.
- *Infrastructure* (`sdk/pkg`): HTTP middleware, configuration, logging, metrics, pools.
- *The composition of hub and sessions*: whether the end of an old connection may close
  the session of a new one (core/plugin.go:329) is not stated by the code.
