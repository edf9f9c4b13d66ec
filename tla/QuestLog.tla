------------------------------ MODULE QuestLog ------------------------------
(***************************************************************************)
(* character_quests and quest_definitions with the statements of            *)
(* backend/game/quests/repository.go, and gamekit/quest's Advance.  Each    *)
(* statement is atomic and none takes a lock that outlives it; the service  *)
(* decides on rows it listed earlier.  Steps are numbered from 1.           *)
(***************************************************************************)
EXTENDS Integers, Sequences

CONSTANTS Quester,    \* characters
          Quest,
          Steps,      \* Steps[q]: its objectives, [target, count]
          NoQuest     \* no row

ASSUME QuestsHaveSteps ==
    \A q \in Quest :
        /\ Len(Steps[q]) \in Nat \ {0}
        /\ \A i \in 1 .. Len(Steps[q]) : Steps[q][i].count \in Nat \ {0}

VARIABLES defs,       \* quest_definitions
          log         \* log[c][q]: the row of character_quests

questVars == <<defs, log>>

NoProgress(q) == [i \in 1 .. Len(Steps[q]) |-> 0]

QuestInit ==
    /\ defs = {}
    /\ log = [c \in Quester |-> [q \in Quest |-> NoQuest]]

IsActive(row) == row # NoQuest /\ row.status = "ACTIVE"

\* INSERT into quest_definitions; its primary key refuses a second one.
CreateDefinition(q) == q \notin defs /\ defs' = defs \cup {q} /\ UNCHANGED log

GetDefinition(q) == q \in defs

\* INSERT of an accepted quest; no effect when the primary key refuses it.
InsertQuest(c, q) ==
    log' = IF log[c][q] = NoQuest
           THEN [log EXCEPT ![c][q] = [status |-> "ACTIVE", step |-> 1, progress |-> NoProgress(q)]]
           ELSE log

ListCharacterQuests(c) == log[c]

Mutant_Matches_AnyTarget(q, row, target) ==
    /\ row.step \in 1 .. Len(Steps[q])
    /\ row.progress[row.step] < Steps[q][row.step].count

Matches(q, row, target) ==
    /\ row.step \in 1 .. Len(Steps[q])
    /\ Steps[q][row.step].target = target
    /\ row.progress[row.step] < Steps[q][row.step].count

Smaller(a, b) == IF a < b THEN a ELSE b

Mutant_Advance_Uncapped(q, row, amount) ==
    LET next == row.progress[row.step] + amount
        done == next >= Steps[q][row.step].count
        last == row.step = Len(Steps[q]) IN
    [step |-> IF done /\ ~last THEN row.step + 1 ELSE row.step,
     progress |-> [row.progress EXCEPT ![row.step] = next],
     completed |-> done /\ last]

\* What Advance makes of a row that matches.
Advance(q, row, amount) ==
    LET count == Steps[q][row.step].count
        next == Smaller(row.progress[row.step] + amount, count)
        done == next >= count
        last == row.step = Len(Steps[q]) IN
    [step |-> IF done /\ ~last THEN row.step + 1 ELSE row.step,
     progress |-> [row.progress EXCEPT ![row.step] = next],
     completed |-> done /\ last]

Mutant_UpdateProgress_AnyStatus(c, q, step, progress) ==
    log' = IF log[c][q] # NoQuest
           THEN [log EXCEPT ![c][q].step = step, ![c][q].progress = progress]
           ELSE log

\* UPDATE ... WHERE status = 'ACTIVE'.
UpdateProgress(c, q, step, progress) ==
    log' = IF IsActive(log[c][q])
           THEN [log EXCEPT ![c][q].step = step, ![c][q].progress = progress]
           ELSE log

CompleteQuest(c, q) ==
    log' = IF IsActive(log[c][q]) THEN [log EXCEPT ![c][q].status = "COMPLETED"] ELSE log

-----------------------------------------------------------------------------

QuestRow(q) ==
    [status : {"ACTIVE", "COMPLETED"}, step : 1 .. Len(Steps[q]),
     progress : [1 .. Len(Steps[q]) -> Nat]]

ASSUME NoQuestIsNoRow == NoQuest \notin Quest /\ \A q \in Quest : NoQuest \notin QuestRow(q)

QuestRows == {NoQuest} \cup UNION {QuestRow(q) : q \in Quest}

QuestTypeOK ==
    /\ defs \subseteq Quest
    /\ log \in [Quester -> [Quest -> QuestRows]]
    /\ \A c \in Quester, q \in Quest : log[c][q] # NoQuest => log[c][q] \in QuestRow(q)

\* A row describes a quest some player could have: the steps behind it are full,
\* the current one is not, the later ones are untouched, and only accepted
\* definitions have rows.  Stale writes of overlapping kills may lose progress
\* but never tear a row (service.go:152-189).
Coherent(q, row) ==
    \A i \in 1 .. Len(Steps[q]) :
        /\ i < row.step => row.progress[i] = Steps[q][i].count
        /\ i = row.step => row.progress[i] < Steps[q][i].count
        /\ i > row.step => row.progress[i] = 0

LogCoherent ==
    \A c \in Quester, q \in Quest :
        log[c][q] # NoQuest => q \in defs /\ Coherent(q, log[c][q])

\* A completed quest stays as it is: no late kill reopens it and no second accept
\* restarts it (repository.go:115-253).
CompletedIsFinal ==
    [][\A c \in Quester, q \in Quest :
         log[c][q] # NoQuest =>
            /\ log'[c][q] # NoQuest
            /\ log[c][q].status = "COMPLETED" => log'[c][q] = log[c][q]]_questVars
=============================================================================
