--------------------------- MODULE AtomicInventory ---------------------------
(***************************************************************************)
(* The inventory as its callers see it: an item is added to the first free  *)
(* bag slot, or two slots are exchanged, in one step that checks and writes *)
(* the same state.                                                          *)
(***************************************************************************)
EXTENDS InventoryRules

VARIABLE rows     \* rows[c][slot]: the item in a slot, or NoItem

Init == rows = [c \in Character |-> EmptyInventory]

Add(c, item) ==
    LET slot == emptySlot(Occupied(rows[c])) IN
    /\ \A d \in Character, s \in Slots : rows[d][s] # item
    /\ slot # -1
    /\ rows' = [rows EXCEPT ![c][slot] = item]

Move(c, from, to) ==
    /\ rows[c][from] # NoItem
    /\ isEquipmentSlot(to) => validateEquipmentRequirements(c, rows[c][from], to)
    /\ isEquipmentSlot(from) /\ isEquipmentSlot(to) /\ rows[c][to] # NoItem
          => validateEquipmentRequirements(c, rows[c][to], from)
    /\ rows' = [rows EXCEPT ![c] = Exchanged(@, from, to)]

Next ==
    \E c \in Character :
        \/ \E item \in Item : Add(c, item)
        \/ \E from, to \in Slots : Move(c, from, to)

Spec == Init /\ [][Next]_rows
=============================================================================
