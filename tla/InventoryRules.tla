--------------------------- MODULE InventoryRules ---------------------------
(***************************************************************************)
(* The pure rules of the inventory: slot ranges and equipment requirements  *)
(* (backend/game/inventory/inventory.go, service.go).  Item definitions are *)
(* constants: they are content loaded at boot.  A character's level only    *)
(* rises and its class never changes, so both are constants here.           *)
(***************************************************************************)
EXTENDS Integers, FiniteSets, FiniteSetsExt

CONSTANTS Character, Item,
          NoItem,           \* an empty slot
          MaxBagSlot,       \* 99 in the code
          AccessorySlot,    \* 1005 in the code, the last equipment slot
          SlotType,         \* SlotType[i]: the equipment slot i is made for
          MinLevel,         \* MinLevel[i]: the level i asks for
          Classes,          \* Classes[i]: the classes i is restricted to; {} is anybody
          Level,            \* Level[c]
          ClassName         \* ClassName[c]

ASSUME NoItemIsNoItem == NoItem \notin Item

MinBagSlot == 0
WeaponSlot == 1000

ASSUME SlotRanges == MaxBagSlot \in Nat /\ MaxBagSlot < WeaponSlot
                     /\ AccessorySlot \in Int /\ AccessorySlot >= WeaponSlot

BagSlots == MinBagSlot .. MaxBagSlot

isEquipmentSlot(slot) == slot >= WeaponSlot /\ slot <= AccessorySlot

isValidSlot(slot) == slot \in BagSlots \/ isEquipmentSlot(slot)

Slots == BagSlots \cup (WeaponSlot .. AccessorySlot)

EmptyInventory == [slot \in Slots |-> NoItem]

Occupied(inv) == {slot \in Slots : inv[slot] # NoItem}

\* The first empty bag slot, or -1 when the bag is full.
emptySlot(occupied) ==
    LET free == BagSlots \ occupied IN IF free = {} THEN -1 ELSE Min(free)

validateEquipmentRequirements(c, item, targetSlot) ==
    /\ SlotType[item] = targetSlot
    /\ Level[c] >= MinLevel[item]
    /\ Classes[item] = {} \/ ClassName[c] \in Classes[item]

\* Swap exchanges two slots through the temporary slot -99, in one transaction.
Exchanged(inv, slotA, slotB) == [inv EXCEPT ![slotA] = inv[slotB], ![slotB] = inv[slotA]]
=============================================================================
