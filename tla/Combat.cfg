SPECIFICATION FairSpec
CONSTANTS
    NoPool = NoPool
    Proc = {p1, p2}
    Entity = {hero, wolf}
    Mob = {wolf}
    Points = {0, 1, 2}
    MobHP = 2
    PlayerHP = 2
    PlayerMP = 1
    MaxKills = 2
INVARIANTS KillsAccounted PoolsInBounds OneCreditPerLife
PROPERTY EveryKillRewarded
