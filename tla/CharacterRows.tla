---------------------------- MODULE CharacterRows ----------------------------
(***************************************************************************)
(* The rows of characters and character_stats, and the transactions of      *)
(* backend/game/character that change them: SELECT ... FOR UPDATE takes the *)
(* row lock, the update commits and gives it back.  RecalculateStats reads  *)
(* and writes without a lock.  Rows are shared by everything that pays or   *)
(* charges a character: quests, loot, idle activities, crafting, buildings. *)
(***************************************************************************)
EXTENDS Integers

CONSTANTS Proc,         \* goroutines that serve requests and handle events
          Character,
          NoProc,       \* nobody holds the row lock
          CurveBase     \* xpCurve.Base: the experience that level 1 asks for

ASSUME CurveBaseIsPositive == CurveBase \in Nat \ {0}
ASSUME NoProcIsNoProc == NoProc \notin Proc

VARIABLES
    rows,       \* rows[c]: gold, level, experience and base stats of c
    rowLock,    \* rowLock[c]: the transaction that holds c's row
    read,       \* read[p]: the row that p's transaction has read
    derived,    \* derived[c]: the base stats and equipment the cached stats are of
    worn,       \* worn[c]: what c wears, as the number of equipment changes
    ledger,     \* observation: gold and experience granted, gold spent
    disturbed   \* observation: characters whose recalculations overlapped or failed

rowVars == <<rows, rowLock, read>>
statVars == <<derived, worn, disturbed>>
characterVars == <<rowVars, statVars, ledger>>

StatGainPerLevel == 2

Row == [gold : Nat, level : Nat \ {0}, exp : Nat, base : Nat]

NewCharacter == [gold |-> 0, level |-> 1, exp |-> 0, base |-> 0]

NothingYet == [gold |-> 0, exp |-> 0, spent |-> 0]

RowsInit ==
    /\ rows = [c \in Character |-> NewCharacter]
    /\ rowLock = [c \in Character |-> NoProc]
    /\ read = [p \in Proc |-> NewCharacter]
    /\ derived = [c \in Character |-> [base |-> 0, worn |-> 0]]
    /\ worn = [c \in Character |-> 0]
    /\ disturbed = {}

CharacterInit == RowsInit /\ ledger = [c \in Character |-> NothingYet]

-----------------------------------------------------------------------------
\* Leveling: gamekit/progression's Base * N^Exp curve with Exp = 2.

XPForLevel(level) == CurveBase * level * level

\* The loop of progression.Apply on the experience to spend and a level.
Apply[xp \in Nat] ==
    [level \in Nat |->
        IF xp >= XPForLevel(level)
        THEN Apply[xp - XPForLevel(level)][level + 1]
        ELSE [level |-> level, exp |-> xp]]

ApplyExperience(row, exp) == Apply[row.exp + exp][row.level]

ApplyLevelUpStatGains(row, levelsGained) == row.base + levelsGained * StatGainPerLevel

-----------------------------------------------------------------------------
\* Transactions.

Mutant_SelectForUpdate_NoLock(p, c) ==
    /\ rowLock' = [rowLock EXCEPT ![c] = p]
    /\ read' = [read EXCEPT ![p] = rows[c]]
    /\ UNCHANGED rows

\* SELECT ... FOR UPDATE waits for the transaction that holds the row.
SelectForUpdate(p, c) ==
    /\ rowLock[c] = NoProc
    /\ rowLock' = [rowLock EXCEPT ![c] = p]
    /\ read' = [read EXCEPT ![p] = rows[c]]
    /\ UNCHANGED rows

EndTx(p, c) ==
    /\ rowLock' = [rowLock EXCEPT ![c] = NoProc]
    /\ read' = [read EXCEPT ![p] = NewCharacter]

leveledUp(p, exp) == ApplyExperience(read[p], exp).level > read[p].level

\* The update half of AddRewards: gold, level, experience and, with a level-up,
\* base stats from the values the transaction has read.
WriteRewards(p, c, gold, exp) ==
    LET new == ApplyExperience(read[p], exp) IN
    /\ rows' = [rows EXCEPT ![c] =
                  [gold |-> read[p].gold + gold, level |-> new.level, exp |-> new.exp,
                   base |-> IF leveledUp(p, exp)
                            THEN ApplyLevelUpStatGains(read[p], new.level - read[p].level)
                            ELSE read[p].base]]
    /\ ledger' = [ledger EXCEPT ![c].gold = @ + gold, ![c].exp = @ + exp]
    /\ EndTx(p, c)

Mutant_CanSpend_Unchecked(p, amount) == TRUE

CanSpend(p, amount) == read[p].gold >= amount

\* The update half of SpendGold (for amounts above 0), in which the database
\* subtracts.
WriteSpend(p, c, amount) ==
    /\ CanSpend(p, amount)
    /\ rows' = [rows EXCEPT ![c].gold = @ - amount]
    /\ ledger' = [ledger EXCEPT ![c].spent = @ + amount]
    /\ EndTx(p, c)

RefuseSpend(p, c, amount) == ~CanSpend(p, amount) /\ EndTx(p, c) /\ UNCHANGED <<rows, ledger>>

Mutant_Rollback_KeepsLock(p, c) ==
    read' = [read EXCEPT ![p] = NewCharacter] /\ UNCHANGED <<rows, rowLock, ledger>>

\* A failed statement rolls back.
Rollback(p, c) == EndTx(p, c) /\ UNCHANGED <<rows, ledger>>

-----------------------------------------------------------------------------
\* RecalculateStats of p: three database calls without a lock.

ReadBaseStats(p, c) == read' = [read EXCEPT ![p] = rows[c]] /\ UNCHANGED <<rows, rowLock>>

GetEquippedModifiers(c) == worn[c]

UpdateStats(p, c, equipment) ==
    /\ derived' = [derived EXCEPT ![c] = [base |-> read[p].base, worn |-> equipment]]
    /\ read' = [read EXCEPT ![p] = NewCharacter]
    /\ UNCHANGED <<rows, rowLock, worn>>

-----------------------------------------------------------------------------

\* The experience it takes to reach a level.
XPBelow[level \in Nat] == IF level <= 1 THEN 0 ELSE XPBelow[level - 1] + XPForLevel(level - 1)

\* A character's row is what was granted minus what was spent, to the last coin,
\* whoever paid and charged at the same time: gold is never negative, level and
\* leftover experience add up to the experience granted, no level is left
\* untaken, and base stats went up with each level (repository.go:187-305).
RewardsAccounted ==
    \A c \in Character :
        LET row == rows[c] IN
        /\ row.gold = ledger[c].gold - ledger[c].spent
        /\ row.gold >= 0
        /\ XPBelow[row.level] + row.exp = ledger[c].exp
        /\ row.exp < XPForLevel(row.level)
        /\ row.base = (row.level - 1) * StatGainPerLevel
=============================================================================
