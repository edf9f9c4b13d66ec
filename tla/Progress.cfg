SPECIFICATION FairSpec
CONSTANTS
    hero = hero
    ann = ann
    hunt = hunt
    wolf = wolf
    boar = boar
    pelts = pelts
    NoProc = NoProc
    NoQuest = NoQuest
    NoTable = NoTable
    Proc = {p1, p2}
    Character = {hero}
    Quester = {hero}
    CurveBase = 1
    Quest = {hunt}
    Steps <- MCSteps
    Table = {pelts}
    Content = {"stored"}
    Fallback <- MCFallback
    User = {ann}
    Owner <- MCOwner
    Victim = {wolf, boar}
    LootTableOf <- MCLootTableOf
    MinLevel <- MCMinLevel
    Rewards <- MCRewards
    DropGold = 1
    Amounts = {2}
    MaxCalls = 3
    MaxCrashes = 1
INVARIANTS RewardsAccounted LogCoherent QuestRewardsAccounted ProgressEarned StatsFresh CacheCoherent
PROPERTIES CompletedIsFinal EveryCallEnds
CHECK_DEADLOCK FALSE
