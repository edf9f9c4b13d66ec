SPECIFICATION Spec
CONSTANTS
    p1 = p1
    p2 = p2
    hero = hero
    sword = sword
    axe = axe
    armour = armour
    None = None
    NoItem = NoItem
    Proc = {p1, p2}
    Mutex = {m1, m2}
    Character = {hero}
    Item = {sword, axe}
    Key <- MCKey
    NodeOf <- TwoNodes
    MaxBagSlot = 1
    AccessorySlot = 1000
    BadSlot = 500
    LostReplies = TRUE
    SlotType <- MCSlotType
    MinLevel <- MCMinLevel
    Classes <- MCClasses
    Level <- MCLevel
    ClassName <- MCClassName
VIEW TableView
INVARIANTS ItemsStoredOnce
PROPERTIES ItemsConserved
