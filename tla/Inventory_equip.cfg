SPECIFICATION Spec
CONSTANTS
    p1 = p1
    p2 = p2
    hero = hero
    sword = sword
    axe = axe
    armour = armour
    None = None
    NoItem = NoItem
    Proc = {p1, p2}
    Mutex = {m1, m2}
    Character = {hero}
    Item = {sword, axe, armour}
    Key <- MCKey
    NodeOf <- OneNode
    MaxBagSlot = 1
    AccessorySlot = 1001
    BadSlot = 500
    LostReplies = FALSE
    SlotType <- MCSlotType
    MinLevel <- MCMinLevel
    Classes <- MCClasses
    Level <- MCLevel
    ClassName <- MCClassName
INVARIANTS EquippedItemsMeetRequirements
