SPECIFICATION Spec
CONSTANTS
    hero = hero
    ann = ann
    ore = ore
    wood = wood
    sawmill = sawmill
    plank = plank
    shield = shield
    p1 = p1
    p2 = p2
    NoProc = NoProc
    None = None
    ticker = ticker
    Ticker = ticker
    Proc = {ticker, p1, p2}
    Character = {hero}
    CurveBase = 2
    Resource = {ore, wood}
    Building = {sawmill}
    MaxEntities = 2
    UnitsPerMinute = 1
    MinWindow = 1
    CapWindow = 1
    RatePerLevel <- MCRatePerLevel
    BaseCost <- MCBaseCost
    User = {ann}
    Owner <- MCOwner
    Ore = ore
    Product <- MCProduct
    Recipe = {plank, shield}
    Cost <- MCCost
    GoldCost <- MCGoldCost
    Earlier <- MCEarlier
    Interval = 1
    MaxTime = 2
    MaxRequests = 2
    MaxFaults = 2
SYMMETRY Symmetry
CHECK_DEADLOCK FALSE
INVARIANTS OneMirror WalletBacked PurchasesPaid TimePaidOnce RewardsAccounted
