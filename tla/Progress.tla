------------------------------ MODULE Progress ------------------------------
(***************************************************************************)
(* What a kill is worth: RewardKill advances quests and pays drops          *)
(* (backend/game/killreward), UpdateQuestProgress completes quests and pays *)
(* their rewards (backend/game/quests), AddRewards levels characters up and *)
(* recalculates their stats (backend/game/character), loot tables come      *)
(* through a cache (backend/game/loot).  Every kill, request and event runs *)
(* in a goroutine of its own; one step is one statement or one call.  Hooks *)
(* may veto an accept and leave amounts alone.  Reward items and dropped    *)
(* items go to AddItem, which Inventory models.                             *)
(***************************************************************************)
EXTENDS CharacterRows, QuestLog, LootTables, FiniteSets

CONSTANTS User, Owner,      \* Owner[c]: the user a character belongs to
          Victim,           \* creatures; their quest tags are the quests' targets
          LootTableOf,      \* LootTableOf[v]: its loot table, or NoTable
          MinLevel,         \* MinLevel[q]
          Rewards,          \* Rewards[q]: [gold, exp]
          DropGold,         \* gold that a roll may drop
          Amounts,          \* amounts of an administrator's progress call
          MaxCalls,         \* bound: kills, progress calls and equipment changes
          MaxCrashes        \* bound

ASSUME QuestersAreCharacters == Quester = Character
ASSUME CallsAreFinite == IsFiniteSet(Proc)
ASSUME AmountsAreNumbers == Amounts \subseteq Nat /\ DropGold \in Nat
ASSUME RewardsAreNumbers == Rewards \in [Quest -> [gold : Nat, exp : Nat]]
ASSUME CreaturesHaveTables == LootTableOf \in [Victim -> Table \cup {NoTable}]
ASSUME TargetsAreVictims ==
    \A q \in Quest : \A i \in 1 .. Len(Steps[q]) : Steps[q][i].target \in Victim

VARIABLES
    pc,         \* the next step of goroutine p
    loc,        \* its arguments and what it has read
    paid,       \* observation: paid[c][q] payments of q's reward, and of its items
    lost,       \* observation: lost[c][q] rewards lost to a failure or a crash
    work,       \* observation: work[c][v] progress asked for on target v
    calls, crashes

obsVars == <<paid, lost, work, calls, crashes>>
vars == <<characterVars, questVars, lootVars, pc, loc, obsVars>>

NoQuestRows == [q \in Quest |-> NoQuest]

NoCall == [char |-> NoProc, target |-> NoProc, amount |-> 0, seen |-> NoQuestRows,
           quest |-> NoQuest, gold |-> 0, exp |-> 0, ret |-> "idle", gear |-> 0,
           table |-> NoTable, row |-> NoTable]

Init ==
    /\ CharacterInit /\ QuestInit /\ LootInit
    /\ pc = [p \in Proc |-> "idle"]
    /\ loc = [p \in Proc |-> NoCall]
    /\ paid = [c \in Character |-> [q \in Quest |-> [reward |-> 0, items |-> 0]]]
    /\ lost = [c \in Character |-> [q \in Quest |-> 0]]
    /\ work = [c \in Character |-> [v \in Victim |-> 0]]
    /\ calls = 0 /\ crashes = 0

Goto(p, s) == pc' = [pc EXCEPT ![p] = s]
Finish(p) == Goto(p, "idle") /\ loc' = [loc EXCEPT ![p] = NoCall]
At(p, s) == pc[p] = s

\* AddRewards returns: to the loop over the quests, to the drops, or to nothing.
Back(p) ==
    IF loc[p].ret = "idle" THEN Finish(p)
    ELSE Goto(p, loc[p].ret) /\ loc' = [loc EXCEPT ![p].gold = 0, ![p].exp = 0, ![p].gear = 0]

-----------------------------------------------------------------------------
\* Accepting a quest.

AdminCreate(q) ==
    /\ CreateDefinition(q)
    /\ UNCHANGED <<characterVars, lootVars, pc, loc, obsVars>>

verifyOwner(u, c) == Owner[c] = u

\* The checks of AcceptQuest: the definition, the level, the quest log.
AcceptQuest(c, q) ==
    /\ GetDefinition(q)
    /\ rows[c].level >= MinLevel[q]
    /\ ListCharacterQuests(c)[q] = NoQuest

AcceptQuestHandler(p, u, c, q) ==
    /\ At(p, "idle")
    /\ verifyOwner(u, c)
    /\ AcceptQuest(c, q)
    /\ Goto(p, "accept")
    /\ loc' = [loc EXCEPT ![p].char = c, ![p].quest = q]
    /\ UNCHANGED <<characterVars, questVars, lootVars, obsVars>>

SaveAccepted(p) ==
    /\ At(p, "accept")
    /\ InsertQuest(loc[p].char, loc[p].quest)
    /\ Finish(p)
    /\ UNCHANGED <<characterVars, defs, lootVars, obsVars>>

-----------------------------------------------------------------------------
\* RewardKill and UpdateQuestProgress.

Called == calls < MaxCalls /\ calls' = calls + 1

Asked(c, v, amount) == work' = [work EXCEPT ![c][v] = @ + amount]

\* The creature resolvers: a mob from the content pack, or another player.
Resolve(v) == [questTag |-> v, lootTable |-> LootTableOf[v]]

RewardKill(p, c, v) ==
    /\ At(p, "idle") /\ Called
    /\ Goto(p, "list")
    /\ loc' = [loc EXCEPT ![p].char = c, ![p].amount = 1,
                          ![p].target = Resolve(v).questTag, ![p].table = Resolve(v).lootTable]
    /\ Asked(c, v, 1)
    /\ UNCHANGED <<characterVars, questVars, lootVars, paid, lost, crashes>>

\* The administrator's progress endpoint: no loot follows.
UpdateQuestProgressHandler(p, c, v, amount) ==
    /\ At(p, "idle") /\ Called
    /\ Goto(p, "list")
    /\ loc' = [loc EXCEPT ![p].char = c, ![p].target = v, ![p].amount = amount]
    /\ Asked(c, v, amount)
    /\ UNCHANGED <<characterVars, questVars, lootVars, paid, lost, crashes>>

\* The rows UpdateQuestProgress works on from here on, the ones that match.
FetchQuests(p) ==
    LET listed == ListCharacterQuests(loc[p].char) IN
    /\ At(p, "list")
    /\ loc' = [loc EXCEPT ![p].seen = [q \in Quest |->
                 IF IsActive(listed[q]) /\ Matches(q, listed[q], loc[p].target)
                 THEN listed[q] ELSE NoQuest]]
    /\ Goto(p, "next")
    /\ UNCHANGED <<characterVars, questVars, lootVars, obsVars>>

Todo(p) == {q \in Quest : loc[p].seen[q] # NoQuest}

\* UpdateQuestProgress returns, with or without an error that RewardKill ignores.
LeaveQuests(p) ==
    /\ Goto(p, "loot")
    /\ loc' = [loc EXCEPT ![p].seen = NoQuestRows, ![p].quest = NoQuest,
                          ![p].target = NoProc, ![p].amount = 0]

SaveProgress(p, q) ==
    LET r == loc[p]
        new == Advance(q, r.seen[q], r.amount) IN
    /\ At(p, "next") /\ q \in Todo(p)
    /\ ~new.completed
    /\ UpdateProgress(r.char, q, new.step, new.progress)
    /\ IF IsActive(log[r.char][q])
       THEN loc' = [loc EXCEPT ![p].seen[q] = NoQuest] /\ UNCHANGED pc
       ELSE LeaveQuests(p)
    /\ UNCHANGED <<characterVars, defs, lootVars, obsVars>>

Mutant_FinishQuest_IgnoresMiss(p, q) ==
    LET r == loc[p]
        new == Advance(q, r.seen[q], r.amount) IN
    /\ At(p, "next") /\ q \in Todo(p)
    /\ new.completed
    /\ CompleteQuest(r.char, q)
    /\ Goto(p, "lock")
    /\ loc' = [loc EXCEPT ![p].seen[q] = NoQuest, ![p].quest = q, ![p].ret = "items",
                 ![p].gold = Rewards[q].gold, ![p].exp = Rewards[q].exp]
    /\ UNCHANGED <<characterVars, defs, lootVars, obsVars>>

\* CompleteQuest decides who pays: it fails for everyone but the first.
FinishQuest(p, q) ==
    LET r == loc[p]
        new == Advance(q, r.seen[q], r.amount) IN
    /\ At(p, "next") /\ q \in Todo(p)
    /\ new.completed
    /\ CompleteQuest(r.char, q)
    /\ IF IsActive(log[r.char][q])
       THEN /\ Goto(p, "lock")
            /\ loc' = [loc EXCEPT ![p].seen[q] = NoQuest, ![p].quest = q, ![p].ret = "items",
                         ![p].gold = Rewards[q].gold, ![p].exp = Rewards[q].exp]
       ELSE LeaveQuests(p)
    /\ UNCHANGED <<characterVars, defs, lootVars, obsVars>>

\* The reward's items, whether or not AddItem succeeds, and QuestCompleted.
GrantItems(p) ==
    /\ At(p, "items")
    /\ paid' = [paid EXCEPT ![loc[p].char][loc[p].quest].items = @ + 1]
    /\ loc' = [loc EXCEPT ![p].quest = NoQuest, ![p].ret = "idle"]
    /\ Goto(p, "next")
    /\ UNCHANGED <<characterVars, questVars, lootVars, lost, work, calls, crashes>>

NoMoreQuests(p) ==
    /\ At(p, "next") /\ Todo(p) = {}
    /\ LeaveQuests(p)
    /\ UNCHANGED <<characterVars, questVars, lootVars, obsVars>>

-----------------------------------------------------------------------------
\* AddRewards and the recalculation a level-up brings.

LockRow(p) ==
    /\ At(p, "lock")
    /\ SelectForUpdate(p, loc[p].char)
    /\ Goto(p, "grant")
    /\ UNCHANGED <<statVars, ledger, questVars, lootVars, loc, obsVars>>

Recalculating(c) == {p \in Proc : loc[p].char = c /\ pc[p] \in {"base", "gear", "stats"}}

\* A recalculation is due while another one runs: the later write may be the
\* older one.
Overlap(c) == IF Recalculating(c) = {} THEN disturbed ELSE disturbed \cup {c}

Paid(c, q) == IF q = NoQuest THEN paid ELSE [paid EXCEPT ![c][q].reward = @ + 1]

Mutant_AddRewards_NoRecalc(p) ==
    LET r == loc[p] IN
    /\ At(p, "grant")
    /\ WriteRewards(p, r.char, r.gold, r.exp)
    /\ Back(p)
    /\ paid' = Paid(r.char, r.quest)
    /\ UNCHANGED <<statVars, questVars, lootVars, lost, work, calls, crashes>>

AddRewards(p) ==
    LET r == loc[p] IN
    /\ At(p, "grant")
    /\ WriteRewards(p, r.char, r.gold, r.exp)
    /\ IF leveledUp(p, r.exp)
       THEN Goto(p, "base") /\ disturbed' = Overlap(r.char) /\ UNCHANGED loc
       ELSE Back(p) /\ UNCHANGED disturbed
    /\ paid' = Paid(r.char, r.quest)
    /\ UNCHANGED <<derived, worn, questVars, lootVars, lost, work, calls, crashes>>

\* An item is put on or taken off; its event starts a recalculation.
EquipmentChanged(p, c) ==
    /\ At(p, "idle") /\ Called
    /\ worn' = [worn EXCEPT ![c] = @ + 1]
    /\ disturbed' = Overlap(c)
    /\ Goto(p, "base")
    /\ loc' = [loc EXCEPT ![p].char = c]
    /\ UNCHANGED <<rowVars, derived, ledger, questVars, lootVars, paid, lost, work, crashes>>

RecalculateBase(p) ==
    /\ At(p, "base")
    /\ ReadBaseStats(p, loc[p].char)
    /\ Goto(p, "gear")
    /\ UNCHANGED <<statVars, ledger, questVars, lootVars, loc, obsVars>>

RecalculateGear(p) ==
    /\ At(p, "gear")
    /\ loc' = [loc EXCEPT ![p].gear = GetEquippedModifiers(loc[p].char)]
    /\ Goto(p, "stats")
    /\ UNCHANGED <<characterVars, questVars, lootVars, obsVars>>

RecalculateStats(p) ==
    /\ At(p, "stats")
    /\ UpdateStats(p, loc[p].char, loc[p].gear)
    /\ Back(p)
    /\ UNCHANGED <<disturbed, ledger, questVars, lootVars, obsVars>>

-----------------------------------------------------------------------------
\* RollLoot and the drops.

FindTable(p) ==
    LET t == loc[p].table IN
    /\ At(p, "loot")
    /\ \/ t = NoTable /\ Finish(p)
       \/ t # NoTable /\ CacheHit(t) /\ Goto(p, "roll")
             /\ loc' = [loc EXCEPT ![p].row = cache[t]]
       \/ t # NoTable /\ Goto(p, "table") /\ UNCHANGED loc    \* a miss, or no answer
    /\ UNCHANGED <<characterVars, questVars, lootVars, obsVars>>

Mutant_GetLootTable_CachesFallback(p) ==
    LET r == loc[p]
        entries == entriesFor(r.table, tables[r.table]) IN
    /\ At(p, "table")
    /\ loc' = [loc EXCEPT ![p].row = entries]
    /\ Goto(p, IF entries # NoTable THEN "fill" ELSE "roll")
    /\ UNCHANGED <<characterVars, questVars, lootVars, obsVars>>

\* The database's row, or the embedded table when there is none or the read fails.
GetLootTable(p) ==
    LET r == loc[p] IN
    /\ At(p, "table")
    /\ \/ /\ tables[r.table] # NoTable
          /\ loc' = [loc EXCEPT ![p].row = tables[r.table]]
          /\ Goto(p, "fill")
       \/ /\ loc' = [loc EXCEPT ![p].row = entriesFor(r.table, NoTable)]
          /\ Goto(p, "roll")
    /\ UNCHANGED <<characterVars, questVars, lootVars, obsVars>>

FillCache(p) ==
    /\ At(p, "fill")
    /\ CacheSet(loc[p].table, loc[p].row) \/ UNCHANGED lootVars
    /\ Goto(p, "roll")
    /\ UNCHANGED <<characterVars, questVars, loc, obsVars>>

\* The roll: no table and no fallback is an error; gold is paid like any reward.
RollLoot(p) ==
    /\ At(p, "roll")
    /\ \/ Finish(p)
       \/ /\ loc[p].row # NoTable
          /\ loc' = [loc EXCEPT ![p].gold = DropGold, ![p].row = NoTable, ![p].table = NoTable,
                                ![p].ret = "idle"]
          /\ Goto(p, "lock")
    /\ UNCHANGED <<characterVars, questVars, lootVars, obsVars>>

CreateLootTable(p, t, content) ==
    /\ At(p, "idle")
    /\ InsertTable(t, content)
    /\ Goto(p, "invalidate")
    /\ loc' = [loc EXCEPT ![p].table = t]
    /\ UNCHANGED <<characterVars, questVars, obsVars>>

Invalidate(p) ==
    /\ At(p, "invalidate")
    /\ CacheDelete(loc[p].table) \/ UNCHANGED lootVars
    /\ Finish(p)
    /\ UNCHANGED <<characterVars, questVars, obsVars>>

Expire(t) == CacheExpire(t) /\ UNCHANGED <<characterVars, questVars, pc, loc, obsVars>>

-----------------------------------------------------------------------------
\* Failures: any statement may fail without effect; a node may crash.

LostReward(r) == IF r.quest = NoQuest THEN lost ELSE [lost EXCEPT ![r.char][r.quest] = @ + 1]

DbError(p) ==
    LET r == loc[p] IN
    /\ \/ /\ pc[p] \in {"list", "next"} /\ (pc[p] = "next" => Todo(p) # {})
          /\ LeaveQuests(p)
          /\ UNCHANGED <<characterVars, lost>>
       \/ /\ At(p, "accept")
          /\ Finish(p)
          /\ UNCHANGED <<characterVars, lost>>
       \/ /\ At(p, "lock")
          /\ Back(p) /\ lost' = LostReward(r)
          /\ UNCHANGED characterVars
       \/ /\ At(p, "grant")
          /\ Rollback(p, r.char) /\ Back(p) /\ lost' = LostReward(r)
          /\ UNCHANGED statVars
       \/ /\ pc[p] \in {"base", "gear", "stats"}
          /\ Back(p)
          /\ disturbed' = disturbed \cup {r.char}
          /\ read' = [read EXCEPT ![p] = NewCharacter]
          /\ UNCHANGED <<rows, rowLock, derived, worn, ledger, lost>>
    /\ UNCHANGED <<questVars, lootVars, paid, work, calls, crashes>>

\* The process dies: its transactions roll back, its goroutines are gone.
Crash ==
    /\ crashes < MaxCrashes /\ crashes' = crashes + 1
    /\ pc' = [p \in Proc |-> "idle"]
    /\ loc' = [p \in Proc |-> NoCall]
    /\ rowLock' = [c \in Character |-> NoProc]
    /\ read' = [p \in Proc |-> NewCharacter]
    /\ disturbed' = disturbed \cup {c \in Character : Recalculating(c) # {}}
    /\ lost' = [c \in Character |-> [q \in Quest |-> lost[c][q] +
                  Cardinality({p \in Proc : pc[p] \in {"lock", "grant"}
                                 /\ loc[p].char = c /\ loc[p].quest = q})]]
    /\ UNCHANGED <<rows, derived, worn, ledger, questVars, lootVars, paid, work, calls>>

-----------------------------------------------------------------------------

Step(p) ==
    \/ SaveAccepted(p) \/ FetchQuests(p) \/ NoMoreQuests(p) \/ GrantItems(p)
    \/ \E q \in Quest : SaveProgress(p, q) \/ FinishQuest(p, q)
    \/ LockRow(p) \/ AddRewards(p)
    \/ RecalculateBase(p) \/ RecalculateGear(p) \/ RecalculateStats(p)
    \/ FindTable(p) \/ GetLootTable(p) \/ FillCache(p) \/ RollLoot(p) \/ Invalidate(p)

Next ==
    \/ \E q \in Quest : AdminCreate(q)
    \/ \E t \in Table : Expire(t)
    \/ Crash
    \/ \E p \in Proc :
        \/ \E c \in Character :
            \/ \E u \in User, q \in Quest : AcceptQuestHandler(p, u, c, q)
            \/ \E v \in Victim : RewardKill(p, c, v)
            \/ \E v \in Victim, n \in Amounts : UpdateQuestProgressHandler(p, c, v, n)
            \/ EquipmentChanged(p, c)
        \/ \E t \in Table, content \in Content : CreateLootTable(p, t, content)
        \/ Step(p)
        \/ DbError(p)

Spec == Init /\ [][Next]_vars

\* A statement returns, and a row lock is granted to somebody who waits for it.
FairSpec == Spec /\ \A p \in Proc : WF_vars(Step(p)) /\ SF_vars(LockRow(p))

-----------------------------------------------------------------------------

Control == {"idle", "accept", "list", "next", "items", "lock", "grant", "base", "gear", "stats",
            "loot", "table", "fill", "roll", "invalidate"}

Entries == Content \cup {NoTable} \cup {Fallback[t] : t \in Table}

Call ==
    [char : Character \cup {NoProc}, target : Victim \cup {NoProc}, amount : Nat,
     seen : [Quest -> QuestRows], quest : Quest \cup {NoQuest}, gold : Nat, exp : Nat,
     ret : {"idle", "items"}, gear : Nat, table : Table \cup {NoTable}, row : Entries]

TypeOK ==
    /\ QuestTypeOK /\ LootTypeOK /\ worn \in [Character -> Nat]
    /\ pc \in [Proc -> Control]
    /\ loc \in [Proc -> Call]
    /\ paid \in [Character -> [Quest -> [reward : Nat, items : Nat]]]
    /\ lost \in [Character -> [Quest -> Nat]]

\* The rows a goroutine has listed are rows that may be written.
Listed(seen) ==
    \A q \in Quest : seen[q] # NoQuest =>
        q \in defs /\ seen[q] \in QuestRow(q) /\ Coherent(q, seen[q])

\* What a goroutine holds at step s, in the record r: while a quest is paid for it
\* is named, and what is about to be cached is what is stored.
Held(s, r) ==
    /\ s \notin {"idle", "invalidate"} => r.char \in Character
    /\ s \in {"idle", "list", "next", "loot", "table", "fill", "roll", "invalidate"} => r.quest = NoQuest
    /\ s = "idle" => r.ret = "idle"
    /\ s = "accept" => r.quest \in defs
    /\ s \in {"lock", "grant", "base", "gear", "stats"} /\ r.ret = "items" => r.quest # NoQuest
    /\ s = "items" => r.quest # NoQuest
    /\ s \in {"table", "fill", "invalidate"} => r.table # NoTable
    /\ s = "fill" => r.row # NoTable /\ r.row = tables[r.table]

ProgressIInv ==
    /\ TypeOK
    /\ \A p \in Proc : Held(pc[p], loc[p]) /\ Listed(loc[p].seen)
    /\ LogCoherent /\ CacheCoherent

Paying(c, q) == {p \in Proc : pc[p] \in {"lock", "grant"} /\ loc[p].char = c /\ loc[p].quest = q}

\* A completed quest is paid once: the payments made, the one under way and the
\* ones lost to a failed AddRewards or a crash (whose error service.go:169
\* ignores) are the completions.  Kills that overlap on the last step, in one
\* process or on two nodes, cannot pay twice.
QuestRewardsAccounted ==
    \A c \in Character, q \in Quest :
        paid[c][q].reward + lost[c][q] + Cardinality(Paying(c, q)) =
            IF log[c][q] # NoQuest /\ log[c][q].status = "COMPLETED" THEN 1 ELSE 0

\* No step is filled by more than the kills and progress calls for its target,
\* however the calls overlap; and nothing completes before they were made.
ProgressEarned ==
    \A c \in Character, q \in Quest :
        log[c][q] # NoQuest =>
            \A i \in 1 .. Len(Steps[q]) :
                /\ log[c][q].progress[i] <= work[c][Steps[q][i].target]
                /\ log[c][q].status = "COMPLETED" =>
                       work[c][Steps[q][i].target] >= Steps[q][i].count

\* The cached stats are those of the base stats and equipment a character has,
\* once no recalculation is due, unless two of them overlapped or one was lost:
\* nothing else leaves them stale (service.go:115-192).
StatsFresh ==
    \A c \in Character \ disturbed :
        Recalculating(c) = {} => derived[c] = [base |-> rows[c].base, worn |-> worn[c]]

\* The calls on target v that have still to list, or to write, q's row of c, and
\* the progress they may still make on it, one element for each unit.
Outstanding(c, v, q) ==
    {p \in Proc : loc[p].char = c /\ loc[p].target = v
                     /\ (At(p, "list") \/ loc[p].seen[q] # NoQuest)}

Units(c, v, q) == UNION {{p} \X (1 .. loc[p].amount) : p \in Outstanding(c, v, q)}

\* What a row holds of a step and what is outstanding on it were both asked for.
Covered(c, q, row) ==
    \A i \in 1 .. Len(Steps[q]) :
        row.progress[i] + Cardinality(Units(c, Steps[q][i].target, q)) <= work[c][Steps[q][i].target]

\* ProgressEarned made inductive: stored rows and rows in a call's hands are
\* covered, as any of these may be written back, and a call works only on rows
\* whose current step is about its target.
EarnedIInv ==
    /\ work \in [Character -> [Victim -> Nat]]
    /\ \A c \in Character, v \in Victim, q \in Quest :
          IsFiniteSet(Units(c, v, q)) /\ Cardinality(Units(c, v, q)) <= work[c][v]
    /\ \A c \in Character, q \in Quest : log[c][q] # NoQuest => Covered(c, q, log[c][q])
    /\ \A p \in Proc, q \in Quest :
          LET r == loc[p] IN
          r.seen[q] # NoQuest =>
             /\ pc[p] \in {"next", "lock", "grant", "base", "gear", "stats", "items"}
             /\ Steps[q][r.seen[q].step].target = r.target
             /\ Covered(r.char, q, r.seen[q])
    /\ ProgressEarned

\* StatsFresh made inductive: a transaction that has read a row holds its lock, and
\* a recalculation that is not disturbed is the only one of its character and has
\* read what is still stored.
FreshIInv ==
    /\ DOMAIN rows = Character /\ DOMAIN rowLock = Character
    /\ DOMAIN read = Proc /\ DOMAIN derived = Character
    /\ \A p \in Proc :
          At(p, "grant") => rowLock[loc[p].char] = p /\ read[p] = rows[loc[p].char]
    /\ \A c \in Character \ disturbed :
          /\ \A p, q \in Recalculating(c) : p = q
          /\ \A p \in Recalculating(c) :
                /\ pc[p] \in {"gear", "stats"} => read[p].base = rows[c].base
                /\ At(p, "stats") => loc[p].gear = worn[c]
    /\ StatsFresh

\* Every kill, request and event is through in the end: no goroutine waits for a
\* row lock for ever.
EveryCallEnds == \A p \in Proc : pc[p] # "idle" ~> pc[p] = "idle"
=============================================================================
