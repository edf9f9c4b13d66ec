------------------------------ MODULE Economy ------------------------------
(***************************************************************************)
(* What characters earn while idle and what they buy: the scheduler ticks   *)
(* the idle engine and settles offline time at login (gamekit/system,       *)
(* gamekit/idle, backend/plugins/idlekit), crafting spends gold and         *)
(* resources (backend/plugins/crafting), buildings spend gold               *)
(* (backend/plugins/buildings).  One node; the ticker is one goroutine,     *)
(* requests and login events have theirs; one step is one statement.        *)
(* Hooks other than the buildings' filter leave states and amounts alone.   *)
(***************************************************************************)
EXTENDS CharacterRows, EntityStores, IdleRules, FiniteSets, Functions

CONSTANTS User, Owner,      \* Owner[c]: the user a character belongs to
          Ticker,           \* the goroutine of runTicker; the others serve requests
          Ore, Product,     \* gathering's resource; Product[b]: the one building b makes
          Recipe,
          Cost, GoldCost,   \* Cost[x][r]: what recipe x takes of r; GoldCost[x]
          Earlier,          \* tables an earlier run may have left: the wallet, the
                            \* levels and the assignment of a mirrored character
          Interval,         \* of the ticker
          MaxTime,          \* bound
          MaxRequests,      \* bound
          MaxFaults         \* bound: failed statements and crashes

ASSUME TickerIsAProc == Ticker \in Proc
ASSUME NoneIsNoTime == None \notin Nat
ASSUME ContentIsNatural ==
    /\ UnitsPerMinute \in Nat \ {0}
    /\ RatePerLevel \in [Building -> Nat] /\ BaseCost \in [Building -> Nat]
    /\ Cost \in [Recipe -> [Resource -> Nat]] /\ GoldCost \in [Recipe -> Nat]
ASSUME ContentIsFinite == IsFiniteSet(Building) /\ IsFiniteSet(Recipe) /\ IsFiniteSet(Proc)
ASSUME EarlierIsStored ==
    \A kept \in Earlier :
        /\ kept.wallet \in [Resource -> Nat] /\ kept.levels \in [Building -> Nat]
        /\ kept.assigned \in {"training", "gathering", None} \cup Building
ASSUME EconomyBounds == Interval \in Nat /\ MaxTime \in Nat /\ MaxEntities \in Nat \ {0}

VARIABLES
    clock,
    tickAt,     \* when the ticker last fired
    entkey,     \* the goroutine that holds the mutex of mirror, or NoProc
    pc, loc,    \* the next step of p, its arguments and what it has read
    items,      \* items[c][x]: crafts of x that granted an item
    earned,     \* observation: earned[e][r] resources banked
    credited,   \* observation: credited[e][t] times that time t was paid for
    excess,     \* observation: excess[e] ticks of e that began while another was
                \* under way, or that failed after they were applied
    requests, faults

obsVars == <<earned, credited, excess>>
boundVars == <<requests, faults>>
timeVars == <<clock, tickAt>>
vars == <<characterVars, storeVars, timeVars, entkey, pc, loc, items, obsVars, boundVars>>

Activity == {"training", "gathering"} \cup Building

Empty == [r \in Resource |-> 0]

NoCall == [op |-> "none", char |-> NoProc, eid |-> 0, todo |-> {}, arg |-> NoProc, now |-> 0,
           window |-> 0, out |-> [gold |-> 0, exp |-> 0, res |-> Empty], seen |-> Empty,
           level |-> [b \in Building |-> 0], due |-> {}]

\* Gold for all levels of a building up to level n.
CostBelow[n \in Nat] ==
    [b \in Building |-> IF n = 0 THEN 0 ELSE CostBelow[n - 1][b] + UpgradeCost(b, n - 1)]

LevelsCost(lv) == SumFunctionOnSet([b \in Building |-> CostBelow[lv[b]][b]], Building)

NewTables ==
    /\ StoresInit
    /\ ledger = [c \in Character |-> NothingYet]
    /\ earned = [e \in EntityId |-> Empty]

\* The tables of an earlier run, in which c was mirrored, earned its wallet and
\* paid for its levels.
KeptTables(c, kept) ==
    /\ StoresOf(c, kept)
    /\ ledger = [d \in Character |->
                   IF d = c THEN [gold |-> LevelsCost(kept.levels), exp |-> 0, spent |-> LevelsCost(kept.levels)]
                   ELSE NothingYet]
    /\ earned = [e \in EntityId |-> IF e = 1 THEN kept.wallet ELSE Empty]

Init ==
    /\ RowsInit
    /\ NewTables \/ \E c \in Character, kept \in Earlier : KeptTables(c, kept)
    /\ clock = 0 /\ tickAt = 0
    /\ entkey = NoProc
    /\ pc = [p \in Proc |-> "idle"]
    /\ loc = [p \in Proc |-> NoCall]
    /\ items = [c \in Character |-> [x \in Recipe |-> 0]]
    /\ credited = [e \in EntityId |-> [t \in 1 .. MaxTime |-> 0]]
    /\ excess = [e \in EntityId |-> 0]
    /\ requests = 0 /\ faults = 0

At(p, s) == pc[p] = s
Goto(p, s) == pc' = [pc EXCEPT ![p] = s]
Finish(p) == Goto(p, "idle") /\ loc' = [loc EXCEPT ![p] = NoCall]

Tick == /\ clock < MaxTime /\ clock' = clock + 1
        /\ UNCHANGED <<characterVars, storeVars, tickAt, entkey, pc, loc, items, obsVars, boundVars>>

-----------------------------------------------------------------------------
\* Requests: each plugin checks that the character belongs to the caller.

Begin(p, op, c, arg, first) ==
    /\ p # Ticker /\ At(p, "idle")
    /\ requests < MaxRequests /\ requests' = requests + 1
    /\ Goto(p, first)
    /\ loc' = [loc EXCEPT ![p].op = op, ![p].char = c, ![p].arg = arg]
    /\ UNCHANGED <<characterVars, storeVars, timeVars, entkey, items, obsVars, faults>>

idlekit_owned(u, c) == Owner[c] = u
crafting_owned(u, c) == Owner[c] = u
buildings_owned(u, c) == Owner[c] = u

\* CharacterLoggedIn: mirror the character and settle its offline time.
LoggedIn(p, c) == Begin(p, "catchup", c, NoProc, "mirror")

\* The idle state endpoint, which mirrors the character before it reads.
StateHandler(p, u, c) == idlekit_owned(u, c) /\ Begin(p, "view", c, NoProc, "mirror")

AssignHandler(p, u, c, a) == idlekit_owned(u, c) /\ Begin(p, "assign", c, a, "mirror")

\* Craft of a recipe there is.
CraftHandler(p, u, c, x) == crafting_owned(u, c) /\ Begin(p, "balance", c, x, "mirror")

UpgradeHandler(p, u, c, b) == buildings_owned(u, c) /\ Begin(p, "upgrade", c, b, "levels")

-----------------------------------------------------------------------------
\* mirror, under its mutex; what follows it depends on the caller.

After == [catchup |-> "now", view |-> "view", assign |-> "assign",
          balance |-> "balance", debit |-> "debit"]

Mutant_MirrorLock_NoMutex(p) ==
    LET mine == ListByOwner(loc[p].char) IN
    /\ At(p, "mirror")
    /\ IF mine = {}
       THEN Goto(p, "create") /\ UNCHANGED loc
       ELSE Goto(p, After[loc[p].op]) /\ loc' = [loc EXCEPT ![p].eid = First(mine)]
    /\ UNCHANGED <<characterVars, storeVars, timeVars, entkey, items, obsVars, boundVars>>

\* The mutex is taken; an entity that exists is found and the mutex given back.
MirrorLock(p) ==
    LET mine == ListByOwner(loc[p].char) IN
    /\ At(p, "mirror")
    /\ entkey = NoProc
    /\ IF mine = {}
       THEN Goto(p, "create") /\ entkey' = p /\ UNCHANGED loc
       ELSE /\ Goto(p, After[loc[p].op]) /\ UNCHANGED entkey
            /\ loc' = [loc EXCEPT ![p].eid = First(mine)]
    /\ UNCHANGED <<characterVars, storeVars, timeVars, items, obsVars, boundVars>>

Mirror(p) ==
    /\ At(p, "create")
    /\ Create(loc[p].char)
    /\ entkey' = NoProc
    /\ Goto(p, After[loc[p].op])
    /\ loc' = [loc EXCEPT ![p].eid = Len(entities')]
    /\ UNCHANGED <<characterVars, wallet, assigned, levels, lastRun, timeVars, items, obsVars, boundVars>>

View(p) ==
    /\ At(p, "view")
    /\ Finish(p)
    /\ UNCHANGED <<characterVars, storeVars, timeVars, entkey, items, obsVars, boundVars>>

\* Assign: only registered activities; the time so far is not settled first.
Assign(p) ==
    /\ At(p, "assign")
    /\ IF loc[p].arg \in Activity THEN AssignmentSet(loc[p].eid, loc[p].arg) ELSE UNCHANGED assigned
    /\ Finish(p)
    /\ UNCHANGED <<characterVars, entities, wallet, levels, lastRun, timeVars, entkey, items, obsVars, boundVars>>

-----------------------------------------------------------------------------
\* TickAll and tickEntity.

runTicker ==
    /\ At(Ticker, "idle")
    /\ clock - tickAt >= Interval
    /\ tickAt' = clock
    /\ Goto(Ticker, "query")
    /\ loc' = [loc EXCEPT ![Ticker].op = "tick"]
    /\ UNCHANGED <<characterVars, storeVars, clock, entkey, items, obsVars, boundVars>>

TickAll(p) ==
    /\ At(p, "query")
    /\ Goto(p, "next") /\ loc' = [loc EXCEPT ![p].todo = Query]
    /\ UNCHANGED <<characterVars, storeVars, timeVars, entkey, items, obsVars, boundVars>>

NextEntity(p) ==
    LET todo == loc[p].todo IN
    /\ At(p, "next")
    /\ IF todo = {} THEN Finish(p)
       ELSE /\ Goto(p, "now")
            /\ loc' = [loc EXCEPT ![p].eid = First(todo), ![p].todo = todo \ {First(todo)}]
    /\ UNCHANGED <<characterVars, storeVars, timeVars, entkey, items, obsVars, boundVars>>

\* The goroutines inside tickEntity for e: they have read the time.
Ticking(e) == {p \in Proc : loc[p].eid = e /\ loc[p].op \in {"tick", "catchup"}
                             /\ pc[p] \in {"last", "accrue", "lock", "pay", "stats", "earn", "bank", "record"}}

\* tickEntity reads the time first; it has no window yet ...
Now(p) ==
    LET e == loc[p].eid IN
    /\ At(p, "now")
    /\ loc' = [loc EXCEPT ![p].now = clock, ![p].window = 0]
    /\ Goto(p, "last")
    /\ excess' = IF Ticking(e) = {} THEN excess ELSE [excess EXCEPT ![e] = @ + 1]
    /\ UNCHANGED <<characterVars, storeVars, timeVars, entkey, items, earned, credited, boundVars>>

\* ... and then asks the database when it last ran, which may take its time: the
\* last run may be a later one by then.  The elapsed time is that since the last
\* run, or one interval when there was none.
LastRun(p) ==
    LET last == LastRunGet(loc[p].eid)
        window == Window(IF last = None THEN Interval ELSE loc[p].now - last) IN
    /\ At(p, "last")
    /\ loc' = [loc EXCEPT ![p].window = window]
    /\ Goto(p, IF window = 0 THEN "record" ELSE "accrue")
    /\ UNCHANGED <<characterVars, storeVars, timeVars, entkey, items, obsVars, boundVars>>

\* stateFor: the rate inputs read from the character, and the buildings' filter.
power(c) == derived[c].base + derived[c].worn

Produce(e, a, window) ==
    LET c == charOf(e) IN
    [gold |-> IF a = "training" THEN TrainingGold(power(c), rows[c].level, window) ELSE 0,
     exp |-> IF a = "training" THEN TrainingExp(rows[c].level, window) ELSE 0,
     res |-> [r \in Resource |->
                IF a = "gathering" /\ r = Ore THEN GatheringOre(rows[c].level, window)
                ELSE IF a \in Building /\ r = Product[a] /\ Unlocked(levels[e][a])
                THEN BuildingOutput(a, levels[e][a], window)
                ELSE 0]]

Counted(e, now, window) ==
    credited' = [credited EXCEPT ![e] = [t \in 1 .. MaxTime |->
                   IF t \in now - window + 1 .. now THEN @[t] + 1 ELSE @[t]]]

\* Accrue: nothing without an assignment; otherwise the output is applied.
Accrue(p) ==
    LET e == loc[p].eid
        out == IF assigned[e] = None THEN NoCall.out ELSE Produce(e, assigned[e], loc[p].window) IN
    /\ At(p, "accrue")
    /\ loc' = [loc EXCEPT ![p].out = out, ![p].char = charOf(e)]
    /\ Goto(p, IF out.gold > 0 \/ out.exp > 0 THEN "lock"
               ELSE IF \E r \in Resource : out.res[r] > 0 THEN "earn" ELSE "record")
    /\ UNCHANGED <<characterVars, storeVars, timeVars, entkey, items, obsVars, boundVars>>

\* Earn reads the wallet ...
EarnRead(p) ==
    /\ At(p, "earn")
    /\ loc' = [loc EXCEPT ![p].seen = WalletGet(loc[p].eid)]
    /\ Goto(p, "bank")
    /\ UNCHANGED <<characterVars, storeVars, timeVars, entkey, items, obsVars, boundVars>>

\* ... and writes back what it read and the output.
Earn(p) ==
    LET r == loc[p] IN
    /\ At(p, "bank")
    /\ WalletSet(r.eid, [x \in Resource |-> r.seen[x] + r.out.res[x]])
    /\ earned' = [earned EXCEPT ![r.eid] = [x \in Resource |-> @[x] + r.out.res[x]]]
    /\ Counted(r.eid, r.now, r.window)
    /\ Goto(p, "record")
    /\ UNCHANGED <<characterVars, entities, assigned, levels, lastRun, timeVars, entkey, loc, items, excess, boundVars>>

\* The ticker goes on to the next entity, a catch-up is through.
Recorded(p) ==
    IF p = Ticker
    THEN Goto(p, "next") /\ loc' = [loc EXCEPT ![p] = [NoCall EXCEPT !.op = "tick", !.todo = loc[p].todo]]
    ELSE Finish(p)

Mutant_Record_OneInterval(p) ==
    LET last == LastRunGet(loc[p].eid) IN
    /\ At(p, "record")
    /\ LastRunSet(loc[p].eid, IF last = None THEN loc[p].now ELSE last + Interval)
    /\ Recorded(p)
    /\ UNCHANGED <<characterVars, entities, wallet, assigned, levels, timeVars, entkey, items, obsVars, boundVars>>

\* The time of the tick is recorded, whether or not anything accrued.
Record(p) ==
    /\ At(p, "record")
    /\ LastRunSet(loc[p].eid, loc[p].now)
    /\ Recorded(p)
    /\ UNCHANGED <<characterVars, entities, wallet, assigned, levels, timeVars, entkey, items, obsVars, boundVars>>

-----------------------------------------------------------------------------
\* Gold: AddRewards of a tick, SpendGold of a craft or an upgrade.

LockRow(p) ==
    /\ At(p, "lock")
    /\ SelectForUpdate(p, loc[p].char)
    /\ Goto(p, "pay")
    /\ UNCHANGED <<statVars, ledger, storeVars, timeVars, entkey, loc, items, obsVars, boundVars>>

AddRewards(p) ==
    LET r == loc[p] IN
    /\ At(p, "pay") /\ r.op \in {"tick", "catchup"}
    /\ WriteRewards(p, r.char, r.out.gold, r.out.exp)
    /\ Counted(r.eid, r.now, r.window)
    /\ Goto(p, IF leveledUp(p, r.out.exp) THEN "stats" ELSE "record")
    /\ UNCHANGED <<statVars, storeVars, timeVars, entkey, loc, items, earned, excess, boundVars>>

\* RecalculateStats, which Progress takes apart.
RecalculateStats(p) ==
    LET c == loc[p].char IN
    /\ At(p, "stats")
    /\ derived' = [derived EXCEPT ![c] = [base |-> rows[c].base, worn |-> worn[c]]]
    /\ Goto(p, "record")
    /\ UNCHANGED <<rowVars, worn, disturbed, ledger, storeVars, timeVars, entkey, loc, items, obsVars, boundVars>>

\* The resources of the recipe are debited one by one, each with the mirror lookup,
\* the Get and the Set of a Credit of its own.
Taken(x) == {r \in Resource : Cost[x][r] > 0}

DebitNext(due) == IF due = {} THEN "item" ELSE "mirror"

Debit(p) ==
    LET due == Taken(loc[p].arg) IN
    /\ loc' = [loc EXCEPT ![p].op = "debit", ![p].due = due]
    /\ Goto(p, DebitNext(due))

Price(p) == IF loc[p].op = "upgrade" THEN UpgradeCost(loc[p].arg, loc[p].level[loc[p].arg]) ELSE GoldCost[loc[p].arg]

SpendGold(p) ==
    LET r == loc[p] IN
    /\ At(p, "pay") /\ r.op \in {"balance", "upgrade"}
    /\ \/ /\ WriteSpend(p, r.char, Price(p))
          /\ IF r.op = "upgrade" THEN Goto(p, "raise") /\ UNCHANGED loc ELSE Debit(p)
       \/ RefuseSpend(p, r.char, Price(p)) /\ Finish(p)
    /\ UNCHANGED <<statVars, storeVars, timeVars, entkey, items, obsVars, boundVars>>

-----------------------------------------------------------------------------
\* Craft.

affordable(x, balances) == \A r \in Resource : balances[r] >= Cost[x][r]

\* The resources are checked before anything is paid.
Balances(p) ==
    /\ At(p, "balance")
    /\ IF affordable(loc[p].arg, WalletGet(loc[p].eid))
       THEN /\ IF GoldCost[loc[p].arg] > 0 THEN Goto(p, "lock") /\ UNCHANGED loc
               ELSE Debit(p)
       ELSE Finish(p)
    /\ UNCHANGED <<characterVars, storeVars, timeVars, entkey, items, obsVars, boundVars>>

DebitRead(p) ==
    /\ At(p, "debit")
    /\ loc' = [loc EXCEPT ![p].seen = WalletGet(loc[p].eid)]
    /\ Goto(p, "debited")
    /\ UNCHANGED <<characterVars, storeVars, timeVars, entkey, items, obsVars, boundVars>>

Mutant_Credit_NoClamp(p) ==
    LET r == loc[p] IN
    /\ At(p, "debited")
    /\ \E x \in r.due :
         /\ WalletSet(r.eid, [r.seen EXCEPT ![x] = @ - Cost[r.arg][x]])
         /\ loc' = [loc EXCEPT ![p].due = @ \ {x}]
         /\ Goto(p, DebitNext(r.due \ {x}))
    /\ UNCHANGED <<characterVars, entities, assigned, levels, lastRun, timeVars, entkey, items, obsVars, boundVars>>

\* Credit of a negative amount, of any resource that is still due (a Go map has no
\* order): a balance that falls below zero is set to zero, the others are written
\* back as they were read.
Credit(p) ==
    LET r == loc[p] IN
    /\ At(p, "debited")
    /\ \E x \in r.due :
         /\ WalletSet(r.eid, [r.seen EXCEPT ![x] = IF @ < Cost[r.arg][x] THEN 0 ELSE @ - Cost[r.arg][x]])
         /\ loc' = [loc EXCEPT ![p].due = @ \ {x}]
         /\ Goto(p, DebitNext(r.due \ {x}))
    /\ UNCHANGED <<characterVars, entities, assigned, levels, lastRun, timeVars, entkey, items, obsVars, boundVars>>

\* AddItem of the inventory, which may refuse.
GrantItem(p) ==
    /\ At(p, "item")
    /\ \/ items' = [items EXCEPT ![loc[p].char][loc[p].arg] = @ + 1]
       \/ UNCHANGED items
    /\ Finish(p)
    /\ UNCHANGED <<characterVars, storeVars, timeVars, entkey, obsVars, boundVars>>

-----------------------------------------------------------------------------
\* Upgrade.

\* entityFor and the levels: a character without an entity is refused.
ReadLevels(p) ==
    LET mine == ListByOwner(loc[p].char) IN
    /\ At(p, "levels")
    /\ IF mine = {} THEN Finish(p)
       ELSE /\ loc' = [loc EXCEPT ![p].eid = First(mine), ![p].level = levels[First(mine)]]
            /\ Goto(p, "lock")
    /\ UNCHANGED <<characterVars, storeVars, timeVars, entkey, items, obsVars, boundVars>>

Mutant_Raise_Fresh(p) ==
    LET r == loc[p] IN
    /\ At(p, "raise")
    /\ LevelsSet(r.eid, [levels[r.eid] EXCEPT ![r.arg] = @ + 1])
    /\ Finish(p)
    /\ UNCHANGED <<characterVars, entities, wallet, assigned, lastRun, timeVars, entkey, items, obsVars, boundVars>>

\* The level that was read, plus one.
Raise(p) ==
    LET r == loc[p] IN
    /\ At(p, "raise")
    /\ LevelsSet(r.eid, [r.level EXCEPT ![r.arg] = @ + 1])
    /\ Finish(p)
    /\ UNCHANGED <<characterVars, entities, wallet, assigned, lastRun, timeVars, entkey, items, obsVars, boundVars>>

-----------------------------------------------------------------------------
\* A statement fails and its caller returns, or the process dies.

\* Entities whose tick was applied and not recorded.
Dead(ps) ==
    {e \in EntityId : \E p \in ps :
        p \in Ticking(e) /\ pc[p] \in {"stats", "record"} /\ loc[p].out # NoCall.out}

DbError(p) ==
    LET c == loc[p].char IN
    /\ faults < MaxFaults /\ faults' = faults + 1
    /\ pc[p] \notin {"idle", "mirror", "view", "next", "item", "stats"}
    /\ Finish(p)
    /\ entkey' = IF entkey = p THEN NoProc ELSE entkey
    /\ IF At(p, "pay") THEN Rollback(p, c) ELSE UNCHANGED <<rows, ledger, rowLock, read>>
    /\ excess' = [e \in EntityId |-> IF e \in Dead({p}) THEN excess[e] + 1 ELSE excess[e]]
    /\ UNCHANGED <<statVars, storeVars, timeVars, items, earned, credited, requests>>

Crash ==
    /\ faults < MaxFaults /\ faults' = faults + 1
    /\ pc' = [p \in Proc |-> "idle"]
    /\ loc' = [p \in Proc |-> NoCall]
    /\ rowLock' = [c \in Character |-> NoProc]
    /\ read' = [p \in Proc |-> NewCharacter]
    /\ entkey' = NoProc
    /\ tickAt' = clock
    /\ excess' = [e \in EntityId |-> IF e \in Dead(Proc) THEN excess[e] + 1 ELSE excess[e]]
    /\ UNCHANGED <<rows, statVars, ledger, storeVars, clock, items, earned, credited, requests>>

-----------------------------------------------------------------------------

Step(p) ==
    \/ MirrorLock(p) \/ Mirror(p) \/ View(p) \/ Assign(p)
    \/ TickAll(p) \/ NextEntity(p) \/ Now(p) \/ LastRun(p) \/ Accrue(p) \/ EarnRead(p) \/ Earn(p) \/ Record(p)
    \/ LockRow(p) \/ AddRewards(p) \/ RecalculateStats(p) \/ SpendGold(p)
    \/ Balances(p) \/ DebitRead(p) \/ Credit(p) \/ GrantItem(p)
    \/ ReadLevels(p) \/ Raise(p)

Next ==
    \/ Tick \/ runTicker \/ Crash
    \/ \E p \in Proc : Step(p) \/ DbError(p)
    \/ \E p \in Proc, u \in User, c \in Character :
        \/ LoggedIn(p, c) /\ u = Owner[c]
        \/ StateHandler(p, u, c)
        \/ \E a \in Activity \cup {None} : AssignHandler(p, u, c, a)
        \/ \E x \in Recipe : CraftHandler(p, u, c, x)
        \/ \E b \in Building : UpgradeHandler(p, u, c, b)

Spec == Init /\ [][Next]_vars

-----------------------------------------------------------------------------

\* A character has one entity, however many logins and requests are the first to
\* mirror it: its wallet, assignment and levels are never split (plugin.go:177).
OneMirror == \A c \in Character : Cardinality(ListByOwner(c)) <= 1

\* Wallets are read, changed and written without a lock, so that updates get
\* lost; but a balance is never negative and never more than was banked.
WalletBacked ==
    \A e \in EntityId, r \in Resource : wallet[e][r] \in 0 .. earned[e][r]

ItemsCost(c) == SumFunctionOnSet([x \in Recipe |-> items[c][x] * GoldCost[x]], Recipe)

\* What a character has was paid for in gold: crafted items and building levels
\* together cost no more than was spent, whatever overlaps or fails half way.
PurchasesPaid ==
    \A c \in Character :
        ItemsCost(c) + SumFunctionOnSet([e \in EntityId |-> LevelsCost(levels[e])], ListByOwner(c))
        <= ledger[c].spent

\* Time is paid once, but for the ticks that get in each other's way: one that
\* begins while another of the entity is under way, and one that fails after it
\* was applied, cost one payment of a moment at the most, however late their
\* statements are and whatever last run they write over (scheduler.go:88-100).
TimePaidOnce == \A e \in EntityId, t \in 1 .. MaxTime : credited[e][t] <= 1 + excess[e]

-----------------------------------------------------------------------------
\* What holds at every step, for the proofs.

Steps == {"idle", "mirror", "create", "view", "assign", "query", "next", "now", "last", "accrue", "earn", "bank",
          "record", "lock", "pay", "stats", "balance", "debit", "debited", "item", "levels", "raise"}

Output == [gold : Nat, exp : Nat, res : [Resource -> Nat]]

Call == [op : {"none", "tick", "upgrade"} \cup DOMAIN After, char : Character \cup {NoProc},
         eid : 0 .. MaxEntities, todo : SUBSET EntityId,
         arg : Activity \cup Recipe \cup {None, NoProc},
         now : Nat, window : Nat, out : Output, seen : [Resource -> Nat], level : [Building -> Nat],
         due : SUBSET Resource]

CharacterTypeOK ==
    /\ rows \in [Character -> Row] /\ read \in [Proc -> Row]
    /\ rowLock \in [Character -> Proc \cup {NoProc}]
    /\ derived \in [Character -> [base : Nat, worn : Nat]] /\ worn \in [Character -> Nat]
    /\ ledger \in [Character -> [gold : Nat, exp : Nat, spent : Nat]]

StoreTypeOK ==
    /\ entities \in Seq(Character) /\ Len(entities) <= MaxEntities
    /\ wallet \in [EntityId -> [Resource -> Nat]]
    /\ assigned \in [EntityId -> Activity \cup {None}]
    /\ levels \in [EntityId -> [Building -> Nat]]
    /\ lastRun \in [EntityId -> Nat \cup {None}]

TypeOK ==
    /\ CharacterTypeOK /\ StoreTypeOK
    /\ clock \in Nat /\ tickAt \in Nat
    /\ entkey \in Proc \cup {NoProc}
    /\ pc \in [Proc -> Steps] /\ loc \in [Proc -> Call]
    /\ items \in [Character -> [Recipe -> Nat]]
    /\ earned \in [EntityId -> [Resource -> Nat]]
    /\ credited \in [EntityId -> [1 .. MaxTime -> Nat]]
    /\ excess \in [EntityId -> Nat]

\* Who may be at a step.
OpsAt(s) ==
    CASE s \in {"mirror", "create"} -> DOMAIN After
      [] s \in {"now", "last", "accrue", "earn", "bank", "record", "stats"} -> {"tick", "catchup"}
      [] s \in {"lock", "pay"} -> {"tick", "catchup", "balance", "upgrade"}
      [] s \in {"debit", "debited", "item"} -> {"debit"}
      [] s \in {"levels", "raise"} -> {"upgrade"}
      [] s \in {"query", "next"} -> {"tick"}
      [] s = "idle" -> {"none"}
      [] OTHER -> {s}

Mirrored == 1 .. Len(entities)

\* What call r has established when it is at step s.
CallAt(s, r) ==
    /\ r.op \in OpsAt(s)
    /\ s = "idle" => r = NoCall
    /\ r.op \in DOMAIN After \cup {"upgrade"} \/ s \in {"lock", "pay", "stats"} => r.char \in Character
    /\ r.op \in {"balance", "debit"} => r.arg \in Recipe
    /\ r.op = "upgrade" => r.arg \in Building
    /\ s \notin {"idle", "mirror", "create", "levels", "query", "next"} => r.eid \in Mirrored
    /\ r.op = "upgrade" /\ s # "levels" => entities[r.eid] = r.char
    /\ r.todo \subseteq Mirrored
    /\ r.out # NoCall.out => r.op \in {"tick", "catchup"}
                             /\ s \in {"lock", "pay", "stats", "earn", "bank", "record"}
    /\ s \in {"lock", "pay", "stats", "earn", "bank"} /\ r.op \in {"tick", "catchup"} => r.out # NoCall.out

CallInv == \A p \in Proc : CallAt(pc[p], loc[p])

\* Entities that do not exist have no components.
StoresInv == \A e \in EntityId \ Mirrored : assigned[e] = None /\ \A b \in Building : levels[e][b] = 0

\* Only the holder of the mutex creates an entity, and it has seen that there is none.
MirrorInv ==
    /\ \A p \in Proc : pc[p] = "create" =>
         entkey = p /\ \A e \in Mirrored : entities[e] # loc[p].char
    /\ \A e, f \in Mirrored : entities[e] = entities[f] => e = f

\* What a goroutine has read of a wallet was banked.
WalletInv ==
    /\ WalletBacked
    /\ \A p \in Proc : pc[p] \in {"bank", "debited"} =>
         \A r \in Resource : loc[p].seen[r] <= earned[loc[p].eid][r]

\* The row lock: what its holder has read is what the row still says.
PayInv ==
    /\ \A p \in Proc : pc[p] = "pay" => rowLock[loc[p].char] = p /\ read[p] = rows[loc[p].char]
    /\ RewardsAccounted

\* The tick of p has been applied and not recorded yet.
Applied(p) == pc[p] \in {"stats", "record"} /\ loc[p].out # NoCall.out

\* When a tick of e that reads its last run at time t or later pays for t: no run is
\* recorded that late, or one that is under way will record an earlier one.
Since(e, t) == lastRun[e] = None \/ t > lastRun[e]

Late(e, t) == \E p \in Ticking(e) : loc[p].now < t

\* The ticks under way that may still pay for t.
Claims(e, t) ==
    {p \in Ticking(e) : /\ ~Applied(p)
                        /\ t <= loc[p].now
                        /\ t > loc[p].now - loc[p].window \/ Since(e, t) \/ Late(e, t)}

\* 1 if a tick that has yet to begin can pay for t without getting in another's way.
Spare(e, t) == IF Late(e, t) \/ (Ticking(e) = {} /\ Since(e, t)) THEN 1 ELSE 0

\* What was paid for t, may be paid by the ticks under way, and by one to come.
TimeInv ==
    /\ \A p \in Proc : loc[p].now <= clock
    /\ \A e \in EntityId : lastRun[e] # None => lastRun[e] <= clock
    /\ \A e \in EntityId, t \in 1 .. MaxTime :
         credited[e][t] + Cardinality(Claims(e, t)) + Spare(e, t) <= 1 + excess[e]

\* What a goroutine at step s with call r has paid for c and not been granted yet.
Owed(s, r, c) ==
    IF r.char # c THEN 0
    ELSE IF r.op = "debit" THEN GoldCost[r.arg]
    ELSE IF s = "raise" THEN UpgradeCost(r.arg, r.level[r.arg]) ELSE 0

Pending(c) == SumFunctionOnSet([p \in Proc |-> Owed(pc[p], loc[p], c)], Proc)

\* p has read the levels of c and may write them back.
Upgrading(s, r, c) == r.char = c /\ r.op = "upgrade" /\ s \in {"lock", "pay", "raise"}

\* Whatever levels c has, or gets back from an upgrade that read them long ago, were
\* paid for, besides its items and what is still to be granted.
Covered(c, v) == LevelsCost(v) + ItemsCost(c) + Pending(c) <= ledger[c].spent

PurchaseInv ==
    \A c \in Character :
        /\ Covered(c, [b \in Building |-> 0])
        /\ \A e \in Mirrored : entities[e] = c => Covered(c, levels[e])
        /\ \A p \in Proc : Upgrading(pc[p], loc[p], c) => Covered(c, loc[p].level)

EconomyIInv ==
    TypeOK /\ CallInv /\ StoresInv /\ MirrorInv /\ WalletInv /\ PayInv /\ TimeInv
=============================================================================
