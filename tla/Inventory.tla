------------------------------ MODULE Inventory ------------------------------
(***************************************************************************)
(* AddItem and MoveItem of the inventory service as concurrent requests     *)
(* (backend/game/inventory/service.go, repository.go).  A request takes the *)
(* lock of its character on its own node, then issues one database          *)
(* statement (or one transaction) per step; any of them may fail, and every *)
(* return runs the deferred unlock.  The table rows is shared by the nodes  *)
(* and protected only by its UNIQUE (character_id, slot_index) constraint.  *)
(***************************************************************************)
EXTENDS InventoryRules, KeyedMutex

CONSTANTS NodeOf,        \* NodeOf[p]: the process that goroutine p runs in
          BadSlot,       \* a slot number that is neither bag nor equipment
          LostReplies    \* may the database commit a write and report an error?

ASSUME KeyPerNode == \A p \in Proc, c \in Character : <<NodeOf[p], c>> \in Key
ASSUME BadSlotIsBad == ~isValidSlot(BadSlot)

VARIABLES
    rows,     \* the inventories table: rows[c][slot]
    step,     \* the next statement of the request that goroutine p serves
    req,      \* its arguments and what it has read so far
    told,     \* told[c][i]: equip events published for item i of c, less its
              \* unequip events.  Each handler of an event runs in a goroutine of
              \* its own (sdk/engine/bus/bus.go:107-117), those of two events in
              \* any order: a subscriber can rely on their sum and on nothing else.
              \* It is not kept (0) for a character of silent.
    silent,   \* characters a move of whom was committed and never published, because
              \* its reply was lost or the process died first (observation only)
    hit       \* running requests whose write met the unique constraint although
              \* their read was complete (observation only)

requestVars == <<rows, step, req, told, silent, hit>>
vars == <<requestVars, lockVars>>

NoRequest == [char |-> None, item |-> NoItem, from |-> BadSlot, to |-> BadSlot,
              dest |-> NoItem, complete |-> TRUE]

Init ==
    /\ LockInit
    /\ rows = [c \in Character |-> EmptyInventory]
    /\ step = [p \in Proc |-> "none"]
    /\ req = [p \in Proc |-> NoRequest]
    /\ told = [c \in Character |-> [i \in Item |-> 0]]
    /\ silent = {}
    /\ hit = {}

Goto(p, s) == step' = [step EXCEPT ![p] = s]

\* A request works on the database only inside its critical section.
At(p, s) == lockPc[p] = "holding" /\ step[p] = s /\ UNCHANGED lockVars

\* An item row is inserted once: it is not stored and no request carries it.
Fresh(item) ==
    /\ \A c \in Character, s \in Slots : rows[c][s] # item
    /\ \A p \in Proc : req[p].item # item

\* An administrator grants an item; quests, loot and crafting call AddItem alike.
CallAddItem(p, c, item) ==
    /\ step[p] = "none"
    /\ Fresh(item)
    /\ Register(p, <<NodeOf[p], c>>)
    /\ Goto(p, "list")
    /\ req' = [req EXCEPT ![p] = [NoRequest EXCEPT !.char = c, !.item = item]]
    /\ UNCHANGED <<rows, told, silent, hit>>

\* The owner of c asks for a move: slots out of bounds reach MoveItem too.
CallMoveItem(p, c, from, to) ==
    /\ step[p] = "none"
    /\ Register(p, <<NodeOf[p], c>>)
    /\ Goto(p, "fetch")
    /\ req' = [req EXCEPT ![p] = [NoRequest EXCEPT !.char = c, !.from = from, !.to = to]]
    /\ UNCHANGED <<rows, told, silent, hit>>

Mutant_Enter_NoWait(p) ==
    /\ lockPc[p] = "waiting"
    /\ lockPc' = [lockPc EXCEPT ![p] = "holding"]
    /\ UNCHANGED <<locks, refs, holder, lockKey, lockRef, requestVars>>

Enter(p) == Acquire(p) /\ UNCHANGED requestVars

\* ListByCharacter reads rows in slot order and never asks rows.Err(), so a read
\* cut short looks like a shorter inventory.
ListByCharacter(p) ==
    LET occupied == Occupied(rows[req[p].char]) IN
    /\ At(p, "list")
    /\ \E seen \in SUBSET occupied :
        LET slot == emptySlot(seen) IN
        /\ \A s \in seen, t \in occupied \ seen : s < t
        /\ Goto(p, IF slot = -1 THEN "done" ELSE "insert")
        /\ req' = [req EXCEPT ![p].to = slot, ![p].complete = (seen = occupied)]
    /\ UNCHANGED <<rows, told, silent, hit>>

\* A write that the unique constraint rejects: the request returns the error.
Rejected(p) ==
    /\ Goto(p, "done")
    /\ hit' = IF req[p].complete THEN hit \cup {p} ELSE hit
    /\ UNCHANGED <<rows, req, told, silent>>

Mutant_InsertItem_RetriesAlways(p) ==
    LET c == req[p].char
        slot == req[p].to IN
    /\ At(p, "insert")
    /\ \/ rows[c][slot] # NoItem /\ Rejected(p)
       \/ /\ rows[c][slot] = NoItem
          /\ rows' = [rows EXCEPT ![c][slot] = req[p].item]
          /\ Goto(p, "list")
          /\ UNCHANGED <<req, told, silent, hit>>

InsertItem(p) ==
    LET c == req[p].char
        slot == req[p].to IN
    /\ At(p, "insert")
    /\ \/ rows[c][slot] # NoItem /\ Rejected(p)
       \/ /\ rows[c][slot] = NoItem
          /\ rows' = [rows EXCEPT ![c][slot] = req[p].item]
          /\ Goto(p, "done")
          /\ UNCHANGED <<req, told, silent, hit>>

Mutant_FetchItem_NoRules(p) ==
    LET r == req[p]
        ok == /\ isValidSlot(r.from) /\ isValidSlot(r.to)
              /\ rows[r.char][r.from] # NoItem IN
    /\ At(p, "fetch")
    /\ \/ ok /\ Goto(p, "dest")
             /\ req' = [req EXCEPT ![p].item = rows[r.char][r.from]]
       \/ ~ok /\ Goto(p, "done") /\ UNCHANGED req
    /\ UNCHANGED <<rows, told, silent, hit>>

\* Steps 1 to 3 of MoveItem: bounds, the item to move, its equipment rules.
FetchItem(p) ==
    LET r == req[p]
        ok == /\ isValidSlot(r.from) /\ isValidSlot(r.to)
              /\ rows[r.char][r.from] # NoItem
              /\ isEquipmentSlot(r.to)
                   => validateEquipmentRequirements(r.char, rows[r.char][r.from], r.to) IN
    /\ At(p, "fetch")
    /\ \/ ok /\ Goto(p, "dest")
             /\ req' = [req EXCEPT ![p].item = rows[r.char][r.from]]
       \/ ~ok /\ Goto(p, "done") /\ UNCHANGED req
    /\ UNCHANGED <<rows, told, silent, hit>>

\* Step 4: the destination, and the rules for a swap between two equipment slots.
FetchDest(p) ==
    LET r == req[p]
        dest == rows[r.char][r.to]
        ok == isEquipmentSlot(r.from) /\ isEquipmentSlot(r.to) /\ dest # NoItem
                => validateEquipmentRequirements(r.char, dest, r.from) IN
    /\ At(p, "dest")
    /\ \/ ok /\ Goto(p, "write") /\ req' = [req EXCEPT ![p].dest = dest]
       \/ ~ok /\ Goto(p, "done") /\ UNCHANGED req
    /\ UNCHANGED <<rows, told, silent, hit>>

Mutant_MoveRow_Overwrites(p) ==
    LET r == req[p] IN
    /\ r.dest = NoItem
    /\ rows[r.char][r.from] # NoItem
    /\ rows' = [rows EXCEPT ![r.char][r.to] = rows[r.char][r.from], ![r.char][r.from] = NoItem]
    /\ Goto(p, "publish")
    /\ UNCHANGED <<req, told, silent, hit>>

\* Move is one UPDATE: it matches no row when the slot was emptied meanwhile and
\* meets the unique constraint when the destination was filled meanwhile.
MoveRow(p) ==
    LET r == req[p] IN
    /\ r.dest = NoItem
    /\ \/ /\ rows[r.char][r.from] = NoItem
          /\ Goto(p, "done")
          /\ UNCHANGED <<rows, req, told, silent, hit>>
       \/ /\ rows[r.char][r.from] # NoItem /\ rows[r.char][r.to] # NoItem
          /\ Rejected(p)
       \/ /\ rows[r.char][r.from] # NoItem /\ rows[r.char][r.to] = NoItem
          /\ rows' = [rows EXCEPT ![r.char] = Exchanged(@, r.from, r.to)]
          /\ Goto(p, "publish")
          /\ UNCHANGED <<req, told, silent, hit>>

SwapRows(p) ==
    LET r == req[p] IN
    /\ r.dest # NoItem
    /\ rows' = [rows EXCEPT ![r.char] = Exchanged(@, r.from, r.to)]
    /\ Goto(p, "publish")
    /\ UNCHANGED <<req, told, silent, hit>>

WriteMove(p) == At(p, "write") /\ (MoveRow(p) \/ SwapRows(p))

Equips(slot) == IF isEquipmentSlot(slot) THEN 1 ELSE 0

Mutant_PublishMove_SwapUnreported(p) ==
    LET r == req[p]
        gain == IF r.char \in silent THEN 0 ELSE Equips(r.to) - Equips(r.from) IN
    /\ At(p, "publish")
    /\ told' = [told EXCEPT ![r.char] = [i \in Item |-> @[i] + (IF i = r.item THEN gain ELSE 0)]]
    /\ Goto(p, "done")
    /\ UNCHANGED <<rows, req, silent, hit>>

\* Step 5: up to four events while the lock is still held.  The item that leaves
\* an equipment slot is reported off, the one that enters an equipment slot on.
PublishMove(p) ==
    LET r == req[p]
        gain == IF r.char \in silent THEN 0 ELSE Equips(r.to) - Equips(r.from) IN
    /\ At(p, "publish")
    /\ told' = [told EXCEPT ![r.char] = [i \in Item |->
                  @[i] + (IF i = r.item THEN gain ELSE 0) - (IF i = r.dest THEN gain ELSE 0)]]
    /\ Goto(p, "done")
    /\ UNCHANGED <<rows, req, silent, hit>>

\* Any statement may fail without effect; the service returns the error.
DbError(p) ==
    /\ \E s \in {"list", "insert", "fetch", "dest", "write"} : At(p, s)
    /\ Goto(p, "done")
    /\ UNCHANGED <<rows, req, told, silent, hit>>

\* The connection breaks after the commit: the write is done, the service sees
\* an error and publishes nothing.  To the table and to the subscribers, a process
\* that dies between the commit and the publish looks the same.
LostReply(p) ==
    LET r == req[p] IN
    /\ LostReplies
    /\ \/ /\ At(p, "insert")
          /\ rows[r.char][r.to] = NoItem
          /\ rows' = [rows EXCEPT ![r.char][r.to] = r.item]
          /\ UNCHANGED <<told, silent>>
       \/ /\ At(p, "write")
          /\ rows[r.char][r.from] # NoItem
          /\ r.dest = NoItem => rows[r.char][r.to] = NoItem
          /\ rows' = [rows EXCEPT ![r.char] = Exchanged(@, r.from, r.to)]
          /\ silent' = silent \cup {r.char}
          /\ told' = [told EXCEPT ![r.char] = [i \in Item |-> 0]]
    /\ Goto(p, "done")
    /\ UNCHANGED <<req, hit>>

Mutant_Return_ForgetsUnlock(p) ==
    /\ step[p] = "done"
    /\ Goto(p, "none")
    /\ req' = [req EXCEPT ![p] = NoRequest]
    /\ hit' = hit \ {p}
    /\ UNCHANGED <<rows, told, silent, lockVars>>

\* The deferred unlock.
Return(p) ==
    /\ step[p] = "done"
    /\ Release(p)
    /\ Goto(p, "none")
    /\ req' = [req EXCEPT ![p] = NoRequest]
    /\ hit' = hit \ {p}
    /\ UNCHANGED <<rows, told, silent>>

Leave(p) == Deregister(p) /\ UNCHANGED requestVars

Statement(p) ==
    \/ ListByCharacter(p) \/ InsertItem(p)
    \/ FetchItem(p) \/ FetchDest(p) \/ WriteMove(p) \/ PublishMove(p)
    \/ DbError(p) \/ LostReply(p)

Next ==
    \E p \in Proc :
        \/ \E c \in Character, item \in Item : CallAddItem(p, c, item)
        \/ \E c \in Character, from, to \in Slots \cup {BadSlot} : CallMoveItem(p, c, from, to)
        \/ Enter(p)
        \/ Statement(p)
        \/ Return(p)
        \/ Leave(p)

\* A goroutine that can run runs; a statement returns (a result or an error);
\* sync.Mutex does not starve a waiter.
Fairness ==
    \A p \in Proc :
        /\ SF_vars(Enter(p))
        /\ WF_vars(Statement(p))
        /\ WF_vars(Return(p))
        /\ WF_vars(Leave(p))

Spec == Init /\ [][Next]_vars

FairSpec == Spec /\ Fairness

-----------------------------------------------------------------------------

Request == [char : Character \cup {None}, item : Item \cup {NoItem},
            from : Slots \cup {BadSlot}, to : Slots \cup {BadSlot, -1},
            dest : Item \cup {NoItem}, complete : BOOLEAN]

RequestTypeOK ==
    /\ rows \in [Character -> [Slots -> Item \cup {NoItem}]]
    /\ step \in [Proc -> {"none", "list", "insert", "fetch", "dest", "write", "publish", "done"}]
    /\ req \in [Proc -> Request]
    /\ told \in [Character -> [Item -> Int]]
    /\ silent \subseteq Character
    /\ hit \subseteq Proc

TypeOK == LockTypeOK /\ RequestTypeOK

\* On one node the critical section removes the window in which a write could
\* meet the unique constraint (service.go:106-109 and 151-153).  Only a read that
\* ListByCharacter cut short can still lead there.
NoConstraintHit == hit = {}

\* No interleaving of requests, failed statements or lost replies loses a stored
\* item or stores it twice, on any number of nodes.
StoredAt(c, item) == {s \in Slots : rows[c][s] = item}

ItemsConserved ==
    [][\A c \in Character, item \in Item :
         Cardinality(StoredAt(c, item)) = 1 => Cardinality(StoredAt(c, item)') = 1]_vars

ItemsStoredOnce ==
    \A item \in Item : Cardinality({at \in Character \X Slots : rows[at[1]][at[2]] = item}) <= 1

\* What is worn in an inventory.
WornIn(inv) == {inv[s] : s \in WeaponSlot .. AccessorySlot} \ {NoItem}

WornBit(inv, i) == IF i \in WornIn(inv) THEN 1 ELSE 0

\* The equip and unequip events add up to what is worn, in whatever order their
\* handlers run, once the requests that have written have also published, for
\* every character but those a move of whom was never published (service.go:208-222).
EventsAddUp ==
    \A c \in Character \ silent :
        (\A p \in Proc : ~(step[p] = "publish" /\ req[p].char = c))
        => \A i \in Item : told[c][i] = WornBit(rows[c], i)

AtomicInv == INSTANCE AtomicInventory

\* On one node every request is atomic: what its write does is what the rules
\* allow in the state it writes to, whatever it read before.
ImplementsAtomicInventory == AtomicInv!Spec

\* Every request returns and gives its lock back.
EveryRequestReturns == \A p \in Proc : lockPc[p] # "idle" ~> lockPc[p] = "idle"

\* Every worn item fits its slot, the wearer's level and class: "Check equipment
\* rules if moving to equipment slots (1000+)" (service.go:167).
EquippedItemsMeetRequirements ==
    \A c \in Character, s \in WeaponSlot .. AccessorySlot :
        rows[c][s] # NoItem => validateEquipmentRequirements(c, rows[c][s], s)

-----------------------------------------------------------------------------
\* What holds at every step, for the proofs.

Adding(p) == step[p] \in {"list", "insert"}
Moving(p) == step[p] \in {"dest", "write", "publish"}

\* What a goroutine works on: the lock it holds or awaits is the one of its
\* request, and its arguments have passed the checks before the statement it is at.
RequestInv(p) ==
    LET r == req[p] IN
    /\ step[p] = "none" <=> lockPc[p] \in {"idle", "leaving"}
    /\ step[p] = "none" => r = NoRequest
    /\ step[p] # "none" => r.char \in Character /\ lockKey[p] = <<NodeOf[p], r.char>>
    /\ lockPc[p] = "waiting" => step[p] \in {"list", "fetch"}
    /\ Adding(p) => r.item \in Item
    /\ step[p] = "insert" => r.to \in BagSlots
    /\ Moving(p) => r.item \in Item /\ r.from \in Slots /\ r.to \in Slots
    /\ Moving(p) \/ step[p] = "fetch" => r.complete

\* An item is stored once, and one that is still to be inserted is not stored and
\* carried by one request.
StoredInv ==
    /\ \A c, d \in Character, s, t \in Slots :
         rows[c][s] # NoItem /\ rows[c][s] = rows[d][t] => c = d /\ s = t
    /\ \A p \in Proc : Adding(p) =>
         /\ \A c \in Character, s \in Slots : rows[c][s] # req[p].item
         /\ \A q \in Proc : Adding(q) /\ req[q].item = req[p].item => q = p

InventoryIInv == TypeOK /\ LockIInv /\ (\A p \in Proc : RequestInv(p)) /\ StoredInv

\* All goroutines run in one process.
SingleNode == \A p, q \in Proc : NodeOf[p] = NodeOf[q]

\* What a request has read is still so when it writes, on one node.
ReadInv(p) ==
    LET r == req[p]
        inv == rows[r.char] IN
    /\ step[p] = "insert" =>
         /\ \A s \in BagSlots : s < r.to => inv[s] # NoItem
         /\ r.complete => inv[r.to] = NoItem
    /\ step[p] \in {"dest", "write"} =>
         /\ inv[r.from] = r.item
         /\ isEquipmentSlot(r.to) => validateEquipmentRequirements(r.char, r.item, r.to)
    /\ step[p] = "write" =>
         /\ inv[r.to] = r.dest
         /\ isEquipmentSlot(r.from) /\ isEquipmentSlot(r.to) /\ r.dest # NoItem
               => validateEquipmentRequirements(r.char, r.dest, r.from)
    /\ step[p] = "publish" => inv[r.to] = r.item /\ inv[r.from] = r.dest

OneNodeIInv == InventoryIInv /\ NoConstraintHit /\ \A p \in Proc : ReadInv(p)

\* What subscribers were told of a character is behind by the one move that is
\* about to be published.
EventInv ==
    /\ EventsAddUp
    /\ \A p \in Proc : step[p] = "publish" /\ req[p].char \notin silent =>
         \A i \in Item : told[req[p].char][i]
                         = WornBit(Exchanged(rows[req[p].char], req[p].from, req[p].to), i)
=============================================================================
