------------------------------ MODULE IdleRules ------------------------------
(***************************************************************************)
(* The arithmetic of idle accrual, buildings and recipes.  Time is counted  *)
(* in units of which UnitsPerMinute make a minute; every product of a rate  *)
(* and a window is cut to a whole number, as int64(...) cuts it.            *)
(***************************************************************************)
EXTENDS Integers

CONSTANTS UnitsPerMinute,
          MinWindow,        \* a shorter window accrues nothing
          CapWindow,        \* a longer one counts as this
          RatePerLevel,     \* RatePerLevel[b]: output per level and minute
          BaseCost          \* BaseCost[b]: gold for level 1

ASSUME WindowsAreOrdered == MinWindow \in Nat \ {0} /\ CapWindow \in Nat /\ CapWindow >= MinWindow

\* Window: nothing below the minimum, at most the cap.
Window(elapsed) ==
    IF elapsed < MinWindow THEN 0 ELSE IF elapsed > CapWindow THEN CapWindow ELSE elapsed

\* training: gold from power and level, experience from level.
TrainingGold(power, level, window) == ((power + 10 * level) * window) \div (10 * UnitsPerMinute)
TrainingExp(level, window) == (2 * level * window) \div UnitsPerMinute

\* gathering: ore from level.
GatheringOre(level, window) == ((10 + level) * window) \div (10 * UnitsPerMinute)

\* A building's producer runs once the building has a level.
Unlocked(level) == level > 0
BuildingOutput(b, level, window) == (level * RatePerLevel[b] * window) \div UnitsPerMinute

\* The loop of UpgradeCost, which doubles the cost once per level.
Doublings[level \in Nat] == IF level = 0 THEN 1 ELSE 2 * Doublings[level - 1]

UpgradeCost(b, level) == BaseCost[b] * Doublings[level]
=============================================================================
