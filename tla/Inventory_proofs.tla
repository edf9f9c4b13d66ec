-------------------------- MODULE Inventory_proofs --------------------------
(* Proofs about the lock table, for any finite set of goroutines and any sets *)
(* of keys and addresses, and about the requests that use it, for any number  *)
(* of nodes, characters, items and slots.                                     *)
EXTENDS Inventory, FiniteSetTheorems, TLAPS

-----------------------------------------------------------------------------
\* The lock table by itself.

\* The goroutines that reference an address are finitely many, and one more or
\* one fewer of them changes the count that refs must show by one.
LEMMA CountReferencing ==
    ASSUME NEW S, S \subseteq Proc
    PROVE  /\ IsFiniteSet(S)
           /\ Cardinality(S) \in Nat
           /\ Cardinality(S) = 0 <=> S = {}
           /\ \A p \in Proc \ S : Cardinality(S \cup {p}) = Cardinality(S) + 1
           /\ \A p \in S : Cardinality(S \ {p}) = Cardinality(S) - 1
<1>1. IsFiniteSet(S)
  BY FiniteProcs, FS_Subset
<1>2. Cardinality(S) \in Nat
  BY <1>1, FS_CardinalityType
<1>3. Cardinality(S) = 0 <=> S = {}
  BY <1>1, FS_EmptySet
<1>4. \A p \in Proc \ S : Cardinality(S \cup {p}) = Cardinality(S) + 1
  BY <1>1, FS_AddElement
<1>5. \A p \in S : Cardinality(S \ {p}) = Cardinality(S) - 1
  BY <1>1, FS_RemoveElement
<1> QED  BY <1>1, <1>2, <1>3, <1>4, <1>5

\* The empty table satisfies the inductive invariant.
LEMMA LockInitIInv == LockInit => LockIInv
<1> SUFFICES ASSUME LockInit PROVE LockIInv
  OBVIOUS
<1> USE NoneIsNoValue DEF LockInit
<1>1. LockTypeOK /\ EntryStable /\ NoSharedEntry /\ EvictedWhenIdle
  BY DEF LockTypeOK, EntryStable, NoSharedEntry, EvictedWhenIdle
<1>2. RefsExact
  <2> SUFFICES ASSUME NEW m \in Mutex PROVE refs[m] = Cardinality(Referencing(m))
    BY DEF RefsExact
  <2>1. Referencing(m) = {}
    BY DEF Referencing
  <2> QED  BY <2>1, FS_EmptySet
<1>3. HolderExact
  BY DEF HolderExact
<1> QED  BY <1>1, <1>2, <1>3 DEF LockIInv

\* Counting a new reference under k.mu keeps the invariant.
LEMMA RegisterIInv ==
    ASSUME NEW p \in Proc, NEW k \in Key, LockIInv, Register(p, k)
    PROVE  LockIInv'
<1> USE NoneIsNoValue
<1>1. PICK m \in Mutex :
        /\ Entry(k, m)
        /\ locks' = [locks EXCEPT ![k] = m]
        /\ refs' = [refs EXCEPT ![m] = IF locks[k] = None THEN 1 ELSE @ + 1]
        /\ holder' = [holder EXCEPT ![m] = IF locks[k] = None THEN None ELSE @]
        /\ lockRef' = [lockRef EXCEPT ![p] = m]
  BY DEF Register
<1>2. /\ lockPc[p] = "idle"
      /\ lockKey' = [lockKey EXCEPT ![p] = k]
      /\ lockPc' = [lockPc EXCEPT ![p] = "waiting"]
      /\ lockRef[p] = None /\ lockKey[p] = None
  BY DEF Register, LockIInv, EntryStable
<1>3. LockTypeOK'
  BY <1>1, <1>2 DEF LockIInv, LockTypeOK
<1>4. EntryStable'
  BY <1>1, <1>2 DEF LockIInv, LockTypeOK, EntryStable, Entry
<1>5. NoSharedEntry'
  BY <1>1 DEF LockIInv, LockTypeOK, NoSharedEntry, Entry, Unreferenced
<1>6. EvictedWhenIdle'
  BY <1>1, <1>2 DEF LockIInv, LockTypeOK, EvictedWhenIdle
<1>7. RefsExact'
  <2> SUFFICES ASSUME NEW n \in Mutex
               PROVE refs'[n] = Cardinality(Referencing(n)')
    BY DEF RefsExact
  <2>1. Referencing(n) \subseteq Proc /\ p \in Proc \ Referencing(n)
    BY <1>2 DEF Referencing
  <2>2. CASE n # m
    <3>1. Referencing(n)' = Referencing(n)
      BY <1>1, <1>2, <2>2 DEF LockIInv, LockTypeOK, Referencing
    <3>2. refs'[n] = refs[n]
      BY <1>1, <2>2 DEF LockIInv, LockTypeOK
    <3> QED  BY <3>1, <3>2 DEF LockIInv, RefsExact
  <2>3. CASE n = m
    <3>1. Referencing(n)' = Referencing(n) \cup {p}
      BY <1>1, <1>2, <2>3 DEF LockIInv, LockTypeOK, Referencing
    <3>2. Cardinality(Referencing(n)') = Cardinality(Referencing(n)) + 1
      BY <2>1, <3>1, CountReferencing
    <3>3. CASE locks[k] = None
      <4>1. Referencing(n) = {}
        BY <1>1, <2>3, <3>3 DEF Entry, Unreferenced, Referencing
      <4>2. Cardinality(Referencing(n)) = 0
        BY <4>1, FS_EmptySet
      <4> QED  BY <1>1, <2>3, <3>2, <3>3, <4>2 DEF LockIInv, LockTypeOK
    <3>4. CASE locks[k] # None
      BY <1>1, <2>3, <3>2, <3>4 DEF LockIInv, LockTypeOK, RefsExact
    <3> QED  BY <3>3, <3>4
  <2> QED  BY <2>2, <2>3
<1>8. HolderExact'
  BY <1>1, <1>2 DEF LockIInv, LockTypeOK, HolderExact, Entry, Unreferenced
<1> QED  BY <1>3, <1>4, <1>5, <1>6, <1>7, <1>8 DEF LockIInv

\* Locking m.mu keeps the invariant.
LEMMA AcquireIInv ==
    ASSUME NEW p \in Proc, LockIInv, Acquire(p)
    PROVE  LockIInv'
<1> USE NoneIsNoValue DEF LockIInv, Acquire
<1>1. LockTypeOK'
  BY DEF LockTypeOK, EntryStable
<1>2. EntryStable' /\ NoSharedEntry' /\ EvictedWhenIdle'
  BY DEF LockTypeOK, EntryStable, NoSharedEntry, EvictedWhenIdle
<1>3. RefsExact'
  BY DEF RefsExact, Referencing
<1>4. HolderExact'
  BY DEF LockTypeOK, EntryStable, HolderExact
<1> QED  BY <1>1, <1>2, <1>3, <1>4

\* Unlocking m.mu keeps the invariant.
LEMMA ReleaseIInv ==
    ASSUME NEW p \in Proc, LockIInv, Release(p)
    PROVE  LockIInv'
<1> USE NoneIsNoValue DEF LockIInv, Release
<1>1. LockTypeOK'
  BY DEF LockTypeOK, EntryStable
<1>2. EntryStable' /\ NoSharedEntry' /\ EvictedWhenIdle'
  BY DEF LockTypeOK, EntryStable, NoSharedEntry, EvictedWhenIdle
<1>3. RefsExact'
  BY DEF RefsExact, Referencing
<1>4. HolderExact'
  BY DEF LockTypeOK, EntryStable, HolderExact
<1> QED  BY <1>1, <1>2, <1>3, <1>4

\* Dropping a reference under k.mu keeps the invariant: the entry is deleted
\* exactly when the count says nobody else refers to it.
LEMMA DeregisterIInv ==
    ASSUME NEW p \in Proc, LockIInv, Deregister(p)
    PROVE  LockIInv'
<1> DEFINE m == lockRef[p]
           k == lockKey[p]
<1> USE NoneIsNoValue
<1>1. /\ m \in Mutex /\ k \in Key /\ locks[k] = m
      /\ lockPc[p] = "leaving"
      /\ p \in Referencing(m)
  BY DEF LockIInv, EntryStable, Deregister, Referencing
<1>2. /\ refs' = [refs EXCEPT ![m] = @ - 1]
      /\ locks' = [locks EXCEPT ![k] = IF refs[m] = 1 THEN None ELSE @]
      /\ lockPc' = [lockPc EXCEPT ![p] = "idle"]
      /\ lockKey' = [lockKey EXCEPT ![p] = None]
      /\ lockRef' = [lockRef EXCEPT ![p] = None]
      /\ holder' = holder
  BY DEF Deregister, Left
<1>3. \A n \in Mutex : Referencing(n)' = IF n = m THEN Referencing(n) \ {p} ELSE Referencing(n)
  BY <1>1, <1>2 DEF LockIInv, LockTypeOK, Referencing
<1>4. /\ Cardinality(Referencing(m)) \in Nat \ {0}
      /\ refs[m] = Cardinality(Referencing(m))
      /\ Cardinality(Referencing(m) \ {p}) = refs[m] - 1
  <2>1. Referencing(m) \subseteq Proc
    BY DEF Referencing
  <2> QED  BY <1>1, <2>1, CountReferencing DEF LockIInv, RefsExact
<1>5. \/ refs[m] = 1 /\ \A q \in Proc : q # p => lockRef[q] # m
      \/ refs[m] # 1 /\ \E q \in Proc : q # p /\ lockRef[q] = m
  <2>1. Referencing(m) \ {p} \subseteq Proc
    BY DEF Referencing
  <2>2. Cardinality(Referencing(m) \ {p}) = 0 <=> Referencing(m) \ {p} = {}
    BY <2>1, CountReferencing
  <2>3. refs[m] = 1 <=> Referencing(m) \ {p} = {}
    BY <1>4, <2>2
  <2> QED  BY <2>3 DEF Referencing
<1> HIDE DEF m, k
<1>6. \A q \in Proc : lockRef[q] = m => lockKey[q] = k
  BY <1>1 DEF LockIInv, LockTypeOK, EntryStable, NoSharedEntry
<1>7. \A q \in Proc : lockKey[q] = k => lockRef[q] = m
  BY <1>1 DEF LockIInv, LockTypeOK, EntryStable
<1>8. LockTypeOK'
  BY <1>1, <1>2, <1>4 DEF LockIInv, LockTypeOK
<1>9. EntryStable'
  BY <1>1, <1>2, <1>5, <1>7 DEF LockIInv, LockTypeOK, EntryStable
<1>10. NoSharedEntry'
  BY <1>1, <1>2 DEF LockIInv, LockTypeOK, NoSharedEntry
<1>11. EvictedWhenIdle'
  <2> SUFFICES ASSUME NEW j \in Key
               PROVE locks'[j] # None <=> \E q \in Proc : lockKey'[q] = j
    BY DEF EvictedWhenIdle
  <2>1. CASE j # k
    BY <1>1, <1>2, <2>1, k = lockKey[p] DEF LockIInv, LockTypeOK, EvictedWhenIdle, k
  <2>2. CASE j = k
    BY <1>1, <1>2, <1>5, <1>6, <1>7, <2>2 DEF LockIInv, LockTypeOK
  <2> QED  BY <2>1, <2>2
<1>12. RefsExact'
  <2> SUFFICES ASSUME NEW n \in Mutex
               PROVE refs'[n] = Cardinality(Referencing(n)')
    BY DEF RefsExact
  <2>1. CASE n = m
    BY <1>1, <1>2, <1>3, <1>4, <2>1 DEF LockIInv, LockTypeOK
  <2>2. CASE n # m
    BY <1>1, <1>2, <1>3, <2>2 DEF LockIInv, LockTypeOK, RefsExact
  <2> QED  BY <2>1, <2>2
<1>13. HolderExact'
  BY <1>1, <1>2 DEF LockIInv, LockTypeOK, HolderExact
<1> QED  BY <1>8, <1>9, <1>10, <1>11, <1>12, <1>13 DEF LockIInv

\* Every step of the lock table keeps the inductive invariant.
LEMMA LockStepIInv == LockIInv /\ [LockNext]_lockVars => LockIInv'
<1> SUFFICES ASSUME LockIInv, [LockNext]_lockVars PROVE LockIInv'
  OBVIOUS
<1>1. CASE LockNext
  BY <1>1, RegisterIInv, AcquireIInv, ReleaseIInv, DeregisterIInv DEF LockNext
<1>2. CASE UNCHANGED lockVars
  BY <1>2 DEF lockVars, LockIInv, LockTypeOK, EntryStable, NoSharedEntry,
              EvictedWhenIdle, RefsExact, Referencing, HolderExact
<1> QED  BY <1>1, <1>2

\* The inductive invariant is an invariant of the lock table: its variables keep
\* their types, its reference counts are exact and no entry is replaced under a
\* goroutine that uses it.
THEOREM LockInvariant == LockSpec => []LockIInv
<1> QED  BY LockInitIInv, LockStepIInv, PTL DEF LockSpec

\* At most one goroutine is inside the critical section of a key.
THEOREM LockSafety == LockSpec => []MutualExclusion
<1>1. LockIInv => MutualExclusion
  BY DEF LockIInv, EntryStable, HolderExact, MutualExclusion
<1> QED  BY <1>1, LockInvariant, PTL

\* An entry of the table exists exactly while some goroutine uses its key.
THEOREM LockEviction == LockSpec => []EvictedWhenIdle
<1>1. LockIInv => EvictedWhenIdle
  BY DEF LockIInv
<1> QED  BY <1>1, LockInvariant, PTL

\* A key is owned by the goroutine in its critical section, and by nobody else.
LEMMA OwnerOfKey ==
    ASSUME LockIInv, NEW k \in Key
    PROVE  /\ OwnerOf(k) \in Proc \cup {None}
           /\ \A p \in Proc : OwnerOf(k) = p <=> lockPc[p] = "holding" /\ lockKey[p] = k
<1>1. MutualExclusion
  BY DEF LockIInv, EntryStable, HolderExact, MutualExclusion
<1>2. CASE \E p \in Proc : lockPc[p] = "holding" /\ lockKey[p] = k
  BY <1>1, <1>2, NoneIsNoValue DEF OwnerOf, MutualExclusion
<1>3. CASE ~ \E p \in Proc : lockPc[p] = "holding" /\ lockKey[p] = k
  BY <1>3, NoneIsNoValue DEF OwnerOf
<1> QED  BY <1>2, <1>3

\* Registering is asking for the key.
LEMMA RegisterRequests ==
    ASSUME NEW p \in Proc, NEW k \in Key, LockIInv, LockIInv', Register(p, k)
    PROVE  PKL!Request(p, k)
<1>1. /\ lockPc[p] = "idle"
      /\ lockPc' = [lockPc EXCEPT ![p] = "waiting"]
      /\ lockKey' = [lockKey EXCEPT ![p] = k]
  BY DEF Register
<1>2. [q \in Proc |-> WantOf(q)]' = [[q \in Proc |-> WantOf(q)] EXCEPT ![p] = k]
  BY <1>1 DEF WantOf, LockIInv, LockTypeOK
<1>3. ASSUME NEW j \in Key PROVE OwnerOf(j)' = OwnerOf(j)
  BY <1>1, OwnerOfKey DEF OwnerOf, LockIInv, LockTypeOK
<1>4. ~ \E j \in Key : OwnerOf(j) = p
  BY <1>1, OwnerOfKey
<1> QED  BY <1>1, <1>2, <1>3, <1>4 DEF PKL!Request, PKL!Owns, WantOf

\* Locking m.mu is being granted the key.
LEMMA AcquireGrants ==
    ASSUME NEW p \in Proc, LockIInv, LockIInv', Acquire(p)
    PROVE  PKL!Grant(p, lockKey[p])
<1> DEFINE k == lockKey[p]
<1>1. /\ lockPc[p] = "waiting" /\ k \in Key
      /\ lockPc' = [lockPc EXCEPT ![p] = "holding"]
      /\ lockKey' = lockKey
      /\ holder[locks[k]] = None /\ locks[k] \in Mutex
  BY DEF Acquire, LockIInv, EntryStable
<1>2. [q \in Proc |-> WantOf(q)]' = [[q \in Proc |-> WantOf(q)] EXCEPT ![p] = None]
  BY <1>1 DEF WantOf, LockIInv, LockTypeOK
<1>3. OwnerOf(k) = None
  <2>1. \A q \in Proc : lockPc[q] = "holding" => lockKey[q] # k
    BY <1>1, NoneIsNoValue DEF LockIInv, LockTypeOK, EntryStable, HolderExact
  <2> QED  BY <2>1 DEF OwnerOf
<1>4. OwnerOf(k)' = p
  BY <1>1, OwnerOfKey DEF OwnerOf, LockIInv, LockTypeOK, EntryStable, MutualExclusion, HolderExact
<1>5. ASSUME NEW j \in Key, j # k PROVE OwnerOf(j)' = OwnerOf(j)
  <2>1. \A q \in Proc : (lockPc[q] = "holding" /\ lockKey[q] = j)' <=> lockPc[q] = "holding" /\ lockKey[q] = j
    BY <1>1, <1>5 DEF LockIInv, LockTypeOK
  <2> QED  BY <2>1 DEF OwnerOf
<1> QED  BY <1>1, <1>2, <1>3, <1>4, <1>5 DEF PKL!Grant, WantOf

\* Unlocking m.mu is giving the key back.
LEMMA ReleaseFrees ==
    ASSUME NEW p \in Proc, LockIInv, LockIInv', Release(p)
    PROVE  PKL!Free(p, lockKey[p])
<1> DEFINE k == lockKey[p]
<1>1. /\ lockPc[p] = "holding" /\ k \in Key
      /\ lockPc' = [lockPc EXCEPT ![p] = "leaving"]
      /\ lockKey' = lockKey
  BY DEF Release, LockIInv, EntryStable
<1>2. [q \in Proc |-> WantOf(q)]' = [q \in Proc |-> WantOf(q)]
  BY <1>1 DEF WantOf, LockIInv, LockTypeOK
<1>3. OwnerOf(k) = p
  BY <1>1, OwnerOfKey
<1>4. OwnerOf(k)' = None
  <2>1. \A q \in Proc : ~(lockPc[q] = "holding" /\ lockKey[q] = k)'
    <3>1. \A q \in Proc : lockPc[q] = "holding" /\ lockKey[q] = k => q = p
      BY <1>1, <1>3, OwnerOfKey
    <3> QED  BY <1>1, <3>1 DEF LockIInv, LockTypeOK
  <2> QED  BY <2>1, <1>1 DEF OwnerOf
<1>5. ASSUME NEW j \in Key, j # k PROVE OwnerOf(j)' = OwnerOf(j)
  <2>1. \A q \in Proc : (lockPc[q] = "holding" /\ lockKey[q] = j)' <=> lockPc[q] = "holding" /\ lockKey[q] = j
    BY <1>1, <1>5 DEF LockIInv, LockTypeOK
  <2> QED  BY <2>1 DEF OwnerOf
<1> QED  BY <1>1, <1>2, <1>3, <1>4, <1>5 DEF PKL!Free

\* Dropping the reference changes nothing a user of the lock can see.
LEMMA DeregisterStutters ==
    ASSUME NEW p \in Proc, LockIInv, LockIInv', Deregister(p)
    PROVE  UNCHANGED PKL!vars
<1>1. /\ lockPc[p] = "leaving"
      /\ lockPc' = [lockPc EXCEPT ![p] = "idle"]
      /\ lockKey' = [lockKey EXCEPT ![p] = None]
  BY DEF Deregister, Left
<1>2. [q \in Proc |-> WantOf(q)]' = [q \in Proc |-> WantOf(q)]
  BY <1>1 DEF WantOf, LockIInv, LockTypeOK
<1>3. ASSUME NEW j \in Key PROVE OwnerOf(j)' = OwnerOf(j)
  <2>1. \A q \in Proc : (lockPc[q] = "holding" /\ lockKey[q] = j)' <=> lockPc[q] = "holding" /\ lockKey[q] = j
    BY <1>1 DEF LockIInv, LockTypeOK
  <2> QED  BY <2>1 DEF OwnerOf
<1> QED  BY <1>2, <1>3 DEF PKL!vars

\* The reference-counted table implements one plain lock per key (safety part of
\* ImplementsPerKeyLock; its fairness is left to model checking).
THEOREM LockRefinement == LockSpec => PKL!Spec
<1>1. LockInit => PKL!Init
  BY DEF LockInit, PKL!Init, WantOf, OwnerOf
<1>2. LockIInv /\ LockIInv' /\ [LockNext]_lockVars => [PKL!Next]_PKL!vars
  <2> SUFFICES ASSUME LockIInv, LockIInv', [LockNext]_lockVars
               PROVE  PKL!Next \/ UNCHANGED PKL!vars
    OBVIOUS
  <2>1. CASE UNCHANGED lockVars
    BY <2>1 DEF lockVars, PKL!vars, WantOf, OwnerOf
  <2>2. ASSUME NEW p \in Proc, NEW k \in Key, Register(p, k) PROVE PKL!Next
    BY <2>2, RegisterRequests DEF PKL!Next
  <2>3. ASSUME NEW p \in Proc, Acquire(p) PROVE PKL!Next
    <3>1. lockKey[p] \in Key
      BY <2>3 DEF Acquire, LockIInv, EntryStable
    <3> QED  BY <2>3, <3>1, AcquireGrants DEF PKL!Next
  <2>4. ASSUME NEW p \in Proc, Release(p) PROVE PKL!Next
    <3>1. lockKey[p] \in Key
      BY <2>4 DEF Release, LockIInv, EntryStable
    <3> QED  BY <2>4, <3>1, ReleaseFrees DEF PKL!Next
  <2> QED  BY <2>1, <2>2, <2>3, <2>4, DeregisterStutters DEF LockNext
<1> QED  BY <1>1, <1>2, LockInvariant, PTL DEF LockSpec, PKL!Spec

-----------------------------------------------------------------------------
\* Requests use the lock table as it is meant to be used.

\* Every step of a request is a step of the lock table, or leaves it alone.
LEMMA LockMoves == [Next]_vars => [LockNext]_lockVars
<1> SUFFICES ASSUME [Next]_vars PROVE [LockNext]_lockVars
  OBVIOUS
<1>1. CASE UNCHANGED vars
  BY <1>1 DEF vars
<1>2. ASSUME NEW p \in Proc, NEW c \in Character, NEW item \in Item, CallAddItem(p, c, item)
      PROVE  LockNext
  BY <1>2, KeyPerNode DEF CallAddItem, LockNext
<1>3. ASSUME NEW p \in Proc, NEW c \in Character, NEW from, NEW to, CallMoveItem(p, c, from, to)
      PROVE  LockNext
  BY <1>3, KeyPerNode DEF CallMoveItem, LockNext
<1>4. ASSUME NEW p \in Proc, Enter(p) \/ Return(p) \/ Leave(p)
      PROVE  LockNext
  BY <1>4 DEF Enter, Return, Leave, LockNext
<1>5. ASSUME NEW p \in Proc, Statement(p)
      PROVE  UNCHANGED lockVars
  BY <1>5 DEF Statement, ListByCharacter, InsertItem, FetchItem, FetchDest, WriteMove,
              PublishMove, DbError, LostReply, At
<1> QED  BY <1>1, <1>2, <1>3, <1>4, <1>5 DEF Next

\* The inventory service is a user of the lock table: with LockSafety, at most one
\* request of a node works on a character; with LockRefinement, the table is a
\* plain lock per character and node to it (service.go:106-109, 151-153).
THEOREM RequestsUseLock == Spec => LockSpec
<1>1. Init => LockInit
  BY DEF Init
<1> QED  BY <1>1, LockMoves, PTL DEF Spec, LockSpec

-----------------------------------------------------------------------------
\* Types.

\* A request that has not started is a request.
LEMMA NoRequestType == NoRequest \in Request
  BY DEF NoRequest, Request

\* The arguments of AddItem and MoveItem.
LEMMA CallType ==
    ASSUME NEW c \in Character
    PROVE  /\ \A item \in Item : [NoRequest EXCEPT !.char = c, !.item = item] \in Request
           /\ \A from, to \in Slots \cup {BadSlot} :
                [NoRequest EXCEPT !.char = c, !.from = from, !.to = to] \in Request
  BY DEF NoRequest, Request

\* What the reads of a request leave in it.
LEMMA ReadType ==
    ASSUME NEW r \in Request
    PROVE  /\ \A slot \in Slots \cup {-1}, b \in BOOLEAN :
                [r EXCEPT !.to = slot, !.complete = b] \in Request
           /\ \A i \in Item \cup {NoItem} : [r EXCEPT !.item = i] \in Request
           /\ \A i \in Item \cup {NoItem} : [r EXCEPT !.dest = i] \in Request
  BY DEF Request

\* A slot that passes the bounds check is a slot of the table.
LEMMA ValidSlots == \A slot \in Slots \cup {BadSlot} : isValidSlot(slot) => slot \in Slots
  BY BadSlotIsBad DEF isValidSlot

\* The order of the naturals as a relation.
Less == {ss \in Nat \X Nat : ss[1] < ss[2]}

\* Descending chains of numbers end.
LEMMA LessIsWellFounded == IsWellFoundedOn(Less, Nat)
  BY NatLessThanWellFounded DEF OpToRel, Less

\* What is not smaller is at least as large.
LEMMA NotLess == ASSUME NEW x \in Nat, NEW y \in Nat, ~(<<y, x>> \in Less) PROVE x <= y
  BY DEF Less

\* A non-empty set of naturals has a smallest element.
LEMMA LeastNatural ==
    ASSUME NEW S, S \subseteq Nat, S # {}
    PROVE  \E x \in S : \A y \in S : x <= y
<1>1. \E x \in S : \A y \in S : ~(<<y, x>> \in Less)
  BY LessIsWellFounded, WFMin
<1>2. PICK m \in S : \A y \in S : ~(<<y, m>> \in Less)
  BY <1>1
<1>3. \A z \in S : m <= z
  BY <1>2, NotLess
<1> QED  BY <1>3

\* A non-empty set of bag slots has a smallest element.
LEMMA SmallestSlot ==
    ASSUME NEW S, S \subseteq BagSlots, S # {}
    PROVE  Min(S) \in S /\ \A t \in S : Min(S) <= t
<1>1. S \subseteq Nat
  BY SlotRanges DEF BagSlots, MinBagSlot
<1>2. \E x \in S : \A y \in S : x <= y
  BY <1>1, LeastNatural
<1> QED  BY <1>2 DEF Min

\* The first empty slot is a bag slot all of whose predecessors are taken.
LEMMA EmptySlot ==
    ASSUME NEW seen
    PROVE  \/ emptySlot(seen) = -1
           \/ /\ emptySlot(seen) \in BagSlots \ seen
              /\ \A s \in BagSlots : s < emptySlot(seen) => s \in seen
<1>1. CASE BagSlots \ seen = {}
  BY <1>1 DEF emptySlot
<1>2. CASE BagSlots \ seen # {}
  <2> DEFINE m == Min(BagSlots \ seen)
  <2>1. m \in BagSlots \ seen /\ \A t \in BagSlots \ seen : m <= t
    BY <1>2, SmallestSlot
  <2>2. emptySlot(seen) = m
    BY <1>2 DEF emptySlot
  <2> HIDE DEF m
  <2>3. \A s \in BagSlots : s < m => s \in seen
    BY <2>1, SlotRanges DEF BagSlots, MinBagSlot
  <2> QED  BY <2>1, <2>2, <2>3
<1> QED  BY <1>1, <1>2

-----------------------------------------------------------------------------
\* The inductive invariant of the requests, on any number of nodes.

\* Of all requests, only the one of goroutine p moves.
Only(p) ==
    \A q \in Proc \ {p} :
        step'[q] = step[q] /\ req'[q] = req[q] /\ lockPc'[q] = lockPc[q] /\ lockKey'[q] = lockKey[q]

\* Every action is a step of one goroutine.
LEMMA OneMoves ==
    ASSUME TypeOK, NEW p \in Proc,
           \/ \E c \in Character, item \in Item : CallAddItem(p, c, item)
           \/ \E c \in Character, from, to \in Slots \cup {BadSlot} : CallMoveItem(p, c, from, to)
           \/ Enter(p) \/ Statement(p) \/ Return(p) \/ Leave(p)
    PROVE  Only(p)
<1>1. CASE \E c \in Character, item \in Item : CallAddItem(p, c, item)
  BY <1>1, ZenonT(60) DEF TypeOK, RequestTypeOK, LockTypeOK, Only, CallAddItem, Register, Goto
<1>2. CASE \E c \in Character, from, to \in Slots \cup {BadSlot} : CallMoveItem(p, c, from, to)
  BY <1>2, ZenonT(60) DEF TypeOK, RequestTypeOK, LockTypeOK, Only, CallMoveItem, Register, Goto
<1>3. CASE Enter(p) \/ Return(p) \/ Leave(p)
  BY <1>3 DEF TypeOK, RequestTypeOK, LockTypeOK, Only, Enter, Return, Leave, Acquire, Release, Deregister, Left,
              Goto, requestVars
<1>4. CASE Statement(p)
  <2> USE DEF TypeOK, RequestTypeOK, Only, At, Goto, lockVars
  <2>1. CASE ListByCharacter(p)
    BY <2>1 DEF ListByCharacter
  <2>2. CASE InsertItem(p)
    BY <2>2 DEF InsertItem, Rejected
  <2>3. CASE FetchItem(p)
    BY <2>3 DEF FetchItem
  <2>4. CASE FetchDest(p)
    BY <2>4 DEF FetchDest
  <2>5. CASE WriteMove(p)
    BY <2>5 DEF WriteMove, MoveRow, SwapRows, Rejected
  <2>6. CASE PublishMove(p)
    BY <2>6 DEF PublishMove
  <2>7. CASE DbError(p)
    BY <2>7 DEF DbError
  <2>8. CASE LostReply(p)
    BY <2>8 DEF LostReply
  <2> QED  BY <1>4, <2>1, <2>2, <2>3, <2>4, <2>5, <2>6, <2>7, <2>8 DEF Statement
<1> QED  BY <1>1, <1>2, <1>3, <1>4

\* A step of one goroutine leaves the others as they were.
LEMMA OthersStay ==
    ASSUME NEW p \in Proc, Only(p), \A q \in Proc : RequestInv(q), RequestInv(p)'
    PROVE  \A q \in Proc : RequestInv(q)'
<1> SUFFICES ASSUME NEW q \in Proc \ {p} PROVE RequestInv(q)'
  OBVIOUS
<1>1. step'[q] = step[q] /\ req'[q] = req[q] /\ lockPc'[q] = lockPc[q] /\ lockKey'[q] = lockKey[q]
  BY DEF Only
<1>2. RequestInv(q)
  OBVIOUS
<1> QED  BY ONLY <1>1, <1>2 DEF RequestInv, Adding, Moving

\* A step that writes no row carries no item that it did not carry before.
LEMMA StoredKept ==
    ASSUME StoredInv, NEW p \in Proc, Only(p), rows' = rows,
           Adding(p)' => Adding(p) /\ req'[p].item = req[p].item
    PROVE  StoredInv'
<1>1. \A q \in Proc : Adding(q)' => Adding(q) /\ req'[q].item = req[q].item
  BY DEF Only, Adding
<1> QED  BY <1>1 DEF StoredInv

\* The row that AddItem inserts is the only one of its item.
LEMMA StoredInserted ==
    ASSUME TypeOK, StoredInv, NEW p \in Proc, Only(p), Adding(p), ~Adding(p)',
           NEW c \in Character, NEW slot \in Slots, rows[c][slot] = NoItem,
           req[p].item \in Item,
           rows' = [rows EXCEPT ![c][slot] = req[p].item]
    PROVE  StoredInv'
<1>1. \A d \in Character, s \in Slots :
        rows'[d][s] = IF d = c /\ s = slot THEN req[p].item ELSE rows[d][s]
  BY DEF TypeOK, RequestTypeOK
<1>2. \A d \in Character, s \in Slots : rows[d][s] # req[p].item
  BY DEF StoredInv
<1>3. \A d, e \in Character, s, t \in Slots :
         rows'[d][s] # NoItem /\ rows'[d][s] = rows'[e][t] => d = e /\ s = t
  <2> SUFFICES ASSUME NEW d \in Character, NEW e \in Character, NEW s \in Slots, NEW t \in Slots,
                      rows'[d][s] # NoItem, rows'[d][s] = rows'[e][t]
               PROVE  d = e /\ s = t
    OBVIOUS
  <2>1. rows[d][s] # NoItem /\ rows[d][s] = rows[e][t] => d = e /\ s = t
    BY DEF StoredInv
  <2> QED  BY <1>1, <1>2, <2>1
<1>4. \A q \in Proc : Adding(q)' => q # p /\ Adding(q) /\ req'[q].item = req[q].item
  BY DEF Only, Adding
<1>5. \A q \in Proc : Adding(q) /\ q # p => req[q].item # req[p].item
  BY DEF StoredInv
<1>6. ASSUME NEW q \in Proc, Adding(q)'
      PROVE  /\ \A d \in Character, s \in Slots : rows'[d][s] # req'[q].item
             /\ \A o \in Proc : Adding(o)' /\ req'[o].item = req'[q].item => o = q
  <2>1. q # p /\ Adding(q) /\ req'[q].item = req[q].item
    BY <1>4, <1>6
  <2>2. \A d \in Character, s \in Slots : rows[d][s] # req[q].item
    BY <2>1 DEF StoredInv
  <2>3. \A o \in Proc : Adding(o) /\ req[o].item = req[q].item => o = q
    BY <2>1 DEF StoredInv
  <2> QED  BY <1>1, <1>4, <1>5, <2>1, <2>2, <2>3
<1> QED  BY <1>3, <1>6 DEF StoredInv

\* Exchanging two slots moves items and neither drops nor copies one.
LEMMA StoredExchanged ==
    ASSUME TypeOK, StoredInv, NEW p \in Proc, Only(p), ~Adding(p)',
           NEW c \in Character, NEW from \in Slots, NEW to \in Slots,
           rows' = [rows EXCEPT ![c] = Exchanged(@, from, to)]
    PROVE  StoredInv'
<1>1. \A d \in Character, s \in Slots :
        rows'[d][s] = IF d # c THEN rows[d][s]
                      ELSE IF s = to THEN rows[c][from]
                      ELSE IF s = from THEN rows[c][to]
                      ELSE rows[c][s]
  BY DEF TypeOK, RequestTypeOK, Exchanged
<1>2. \A d, e \in Character, s, t \in Slots :
         rows'[d][s] # NoItem /\ rows'[d][s] = rows'[e][t] => d = e /\ s = t
  <2> SUFFICES ASSUME NEW d \in Character, NEW e \in Character, NEW s \in Slots, NEW t \in Slots,
                      rows'[d][s] # NoItem, rows'[d][s] = rows'[e][t]
               PROVE  d = e /\ s = t
    OBVIOUS
  <2>1. \A u, v \in Slots : rows[d][u] # NoItem /\ rows[d][u] = rows[e][v] => d = e /\ u = v
    BY DEF StoredInv
  <2> QED  BY <1>1, <2>1
<1>3. \A q \in Proc : Adding(q)' => Adding(q) /\ req'[q].item = req[q].item
  BY DEF Only, Adding
<1>4. ASSUME NEW q \in Proc, Adding(q)'
      PROVE  /\ \A d \in Character, s \in Slots : rows'[d][s] # req'[q].item
             /\ \A o \in Proc : Adding(o)' /\ req'[o].item = req'[q].item => o = q
  <2>1. Adding(q) /\ req'[q].item = req[q].item
    BY <1>3, <1>4
  <2>2. \A d \in Character, s \in Slots : rows[d][s] # req[q].item
    BY <2>1 DEF StoredInv
  <2>3. \A o \in Proc : Adding(o) /\ req[o].item = req[q].item => o = q
    BY <2>1 DEF StoredInv
  <2> QED  BY <1>1, <1>3, <2>1, <2>2, <2>3
<1> QED  BY <1>2, <1>4 DEF StoredInv

\* Each action keeps the types, what its own request knows and where items are.
Kept(p) == RequestTypeOK' /\ RequestInv(p)' /\ StoredInv'

\* AddItem is called on an idle goroutine.
LEMMA CallAddItemKept ==
    ASSUME InventoryIInv, NEW p \in Proc, NEW c \in Character, NEW item \in Item,
           CallAddItem(p, c, item), Only(p)
    PROVE  Kept(p)
<1> DEFINE r == [NoRequest EXCEPT !.char = c, !.item = item]
<1>1. /\ step[p] = "none" /\ step' = [step EXCEPT ![p] = "list"]
      /\ req' = [req EXCEPT ![p] = r]
      /\ rows' = rows /\ told' = told /\ silent' = silent /\ hit' = hit
      /\ lockPc'[p] = "waiting" /\ lockKey'[p] = <<NodeOf[p], c>>
  BY DEF InventoryIInv, TypeOK, LockTypeOK, CallAddItem, Register, Goto
<1>2. r \in Request /\ r.char = c /\ r.item = item
  BY CallType DEF NoRequest
<1> HIDE DEF r
<1>3. RequestTypeOK'
  BY <1>1, <1>2 DEF InventoryIInv, TypeOK, RequestTypeOK
<1>4. step'[p] = "list" /\ req'[p] = r
  BY <1>1 DEF InventoryIInv, TypeOK, RequestTypeOK
<1>5. RequestInv(p)'
  BY <1>1, <1>2, <1>4 DEF RequestInv, Adding, Moving
<1>6. StoredInv'
  <2>1. \A q \in Proc : Adding(q)' /\ q # p => Adding(q) /\ req'[q].item = req[q].item
    BY DEF Only, Adding
  <2>2. \A d \in Character, s \in Slots : rows[d][s] # item
    BY DEF CallAddItem, Fresh
  <2>3. \A q \in Proc : req[q].item # item
    BY DEF CallAddItem, Fresh
  <2>4. StoredInv
    BY DEF InventoryIInv
  <2> QED  BY <1>1, <1>2, <1>4, <2>1, <2>2, <2>3, <2>4 DEF StoredInv
<1> QED  BY <1>3, <1>5, <1>6 DEF Kept

\* MoveItem is called with any slots, also bad ones.
LEMMA CallMoveItemKept ==
    ASSUME InventoryIInv, NEW p \in Proc, NEW c \in Character,
           NEW from \in Slots \cup {BadSlot}, NEW to \in Slots \cup {BadSlot},
           CallMoveItem(p, c, from, to), Only(p)
    PROVE  Kept(p)
<1> DEFINE r == [NoRequest EXCEPT !.char = c, !.from = from, !.to = to]
<1>1. /\ step[p] = "none" /\ step' = [step EXCEPT ![p] = "fetch"]
      /\ req' = [req EXCEPT ![p] = r]
      /\ rows' = rows /\ told' = told /\ silent' = silent /\ hit' = hit
      /\ lockPc'[p] = "waiting" /\ lockKey'[p] = <<NodeOf[p], c>>
  BY DEF InventoryIInv, TypeOK, LockTypeOK, CallMoveItem, Register, Goto
<1>2. r \in Request /\ r.char = c /\ r.complete
  BY CallType DEF NoRequest
<1> HIDE DEF r
<1>3. RequestTypeOK'
  BY <1>1, <1>2 DEF InventoryIInv, TypeOK, RequestTypeOK
<1>4. step'[p] = "fetch" /\ req'[p] = r
  BY <1>1 DEF InventoryIInv, TypeOK, RequestTypeOK
<1>5. RequestInv(p)'
  BY <1>1, <1>2, <1>4 DEF RequestInv, Adding, Moving
<1>6. StoredInv'
  BY <1>1, <1>4, StoredKept DEF InventoryIInv, Adding
<1> QED  BY <1>3, <1>5, <1>6 DEF Kept

\* A request enters under its lock, unlocks, and leaves.
LEMMA LockStepsKept ==
    ASSUME InventoryIInv, NEW p \in Proc, Enter(p) \/ Return(p) \/ Leave(p), Only(p)
    PROVE  Kept(p)
<1>1. CASE Enter(p)
  <2>1. UNCHANGED requestVars /\ lockPc[p] = "waiting" /\ lockPc'[p] = "holding" /\ lockKey' = lockKey
    BY <1>1 DEF Enter, Acquire, InventoryIInv, TypeOK, LockTypeOK
  <2>2. RequestTypeOK'
    BY <2>1 DEF InventoryIInv, TypeOK, RequestTypeOK, requestVars
  <2>3. RequestInv(p)'
    BY <2>1 DEF InventoryIInv, RequestInv, Adding, Moving, requestVars
  <2>4. StoredInv'
    BY <2>1, StoredKept DEF InventoryIInv, Adding, requestVars
  <2> QED  BY <2>2, <2>3, <2>4 DEF Kept
<1>2. CASE Return(p)
  <2>1. /\ step' = [step EXCEPT ![p] = "none"] /\ req' = [req EXCEPT ![p] = NoRequest]
        /\ rows' = rows /\ told' = told /\ silent' = silent /\ hit' = hit \ {p}
        /\ lockPc'[p] = "leaving"
    BY <1>2 DEF Return, Release, Goto, InventoryIInv, TypeOK, LockTypeOK
  <2>2. RequestTypeOK'
    BY <2>1, NoRequestType DEF InventoryIInv, TypeOK, RequestTypeOK
  <2>3. step'[p] = "none" /\ req'[p] = NoRequest
    BY <2>1 DEF InventoryIInv, TypeOK, RequestTypeOK
  <2>4. RequestInv(p)'
    BY <2>1, <2>3 DEF RequestInv, Adding, Moving
  <2>5. StoredInv'
    BY <2>1, <2>3, StoredKept DEF InventoryIInv, Adding
  <2> QED  BY <2>2, <2>4, <2>5 DEF Kept
<1>3. CASE Leave(p)
  <2>1. UNCHANGED requestVars /\ lockPc[p] = "leaving" /\ lockPc'[p] = "idle"
    BY <1>3 DEF Leave, Deregister, Left, InventoryIInv, TypeOK, LockTypeOK
  <2>2. RequestTypeOK'
    BY <2>1 DEF InventoryIInv, TypeOK, RequestTypeOK, requestVars
  <2>3. RequestInv(p)'
    BY <2>1 DEF InventoryIInv, RequestInv, Adding, Moving, requestVars
  <2>4. StoredInv'
    BY <2>1, StoredKept DEF InventoryIInv, Adding, requestVars
  <2> QED  BY <2>2, <2>3, <2>4 DEF Kept
<1> QED  BY <1>1, <1>2, <1>3

\* A statement that ends the request and writes nothing.
LEMMA EndKept ==
    ASSUME InventoryIInv, NEW p \in Proc, Only(p), step[p] # "none",
           step' = [step EXCEPT ![p] = "done"], UNCHANGED <<rows, req, lockPc, lockKey>>,
           told' \in [Character -> [Item -> Int]], silent' \subseteq Character,
           hit' \subseteq Proc, lockPc[p] # "waiting"
    PROVE  Kept(p)
<1>1. step'[p] = "done" /\ RequestTypeOK'
  BY DEF InventoryIInv, TypeOK, RequestTypeOK
<1>2. RequestInv(p)'
  BY <1>1 DEF InventoryIInv, RequestInv, Adding, Moving
<1>3. StoredInv'
  BY <1>1, StoredKept DEF InventoryIInv, Adding
<1> QED  BY <1>1, <1>2, <1>3 DEF Kept

\* AddItem reads the rows and finds a free slot, or none.
LEMMA ListKept ==
    ASSUME InventoryIInv, NEW p \in Proc, ListByCharacter(p), Only(p)
    PROVE  Kept(p)
<1> DEFINE r(slot, b) == [req[p] EXCEPT !.to = slot, !.complete = b]
<1>1. PICK seen \in SUBSET Occupied(rows[req[p].char]) :
        LET slot == emptySlot(seen) IN
        /\ Goto(p, IF slot = -1 THEN "done" ELSE "insert")
        /\ req' = [req EXCEPT ![p].to = slot,
                              ![p].complete = (seen = Occupied(rows[req[p].char]))]
  BY DEF ListByCharacter
<1> DEFINE slot == emptySlot(seen)
           b == (seen = Occupied(rows[req[p].char]))
<1>2. slot \in BagSlots \cup {-1}
  BY EmptySlot
<1>3. step' = [step EXCEPT ![p] = IF slot = -1 THEN "done" ELSE "insert"]
  BY <1>1 DEF Goto
<1>4. b \in BOOLEAN
  OBVIOUS
<1>5. req' = [req EXCEPT ![p] = r(slot, b)]
  BY <1>1 DEF InventoryIInv, TypeOK, RequestTypeOK
<1>6. /\ rows' = rows /\ told' = told /\ silent' = silent /\ hit' = hit
      /\ step[p] = "list" /\ lockPc[p] = "holding" /\ lockPc' = lockPc /\ lockKey' = lockKey
  BY DEF ListByCharacter, At, lockVars
<1> HIDE DEF slot, b
<1>7. req[p] \in Request
  BY DEF InventoryIInv, TypeOK, RequestTypeOK
<1>8. r(slot, b) \in Request
  BY <1>2, <1>4, <1>7, ReadType DEF Slots
<1>9. /\ r(slot, b).char = req[p].char /\ r(slot, b).item = req[p].item
      /\ r(slot, b).to = slot
  BY <1>7 DEF Request
<1> HIDE DEF r
<1>10. RequestTypeOK'
  BY <1>3, <1>5, <1>6, <1>8 DEF InventoryIInv, TypeOK, RequestTypeOK
<1>11. step'[p] = (IF slot = -1 THEN "done" ELSE "insert") /\ req'[p] = r(slot, b)
  BY <1>3, <1>5 DEF InventoryIInv, TypeOK, RequestTypeOK
<1>12. RequestInv(p)'
  BY <1>2, <1>6, <1>9, <1>11 DEF InventoryIInv, RequestInv, Adding, Moving
<1>13. StoredInv'
  BY <1>6, <1>9, <1>11, StoredKept DEF InventoryIInv, Adding
<1> QED  BY <1>10, <1>12, <1>13 DEF Kept

\* The row that AddItem inserts, whether or not its reply arrives.
LEMMA InsertKept ==
    ASSUME InventoryIInv, NEW p \in Proc, Only(p), At(p, "insert"),
           rows[req[p].char][req[p].to] = NoItem,
           rows' = [rows EXCEPT ![req[p].char][req[p].to] = req[p].item],
           step' = [step EXCEPT ![p] = "done"], UNCHANGED <<req, told, silent, hit>>
    PROVE  Kept(p)
<1>1. /\ req[p].char \in Character /\ req[p].to \in BagSlots /\ req[p].item \in Item
      /\ step[p] = "insert" /\ lockPc[p] = "holding" /\ lockPc' = lockPc /\ lockKey' = lockKey
  BY DEF InventoryIInv, RequestInv, Adding, At, lockVars
<1>2. step'[p] = "done" /\ RequestTypeOK'
  BY <1>1 DEF InventoryIInv, TypeOK, RequestTypeOK, Slots
<1>3. RequestInv(p)'
  BY <1>1, <1>2 DEF InventoryIInv, RequestInv, Adding, Moving
<1>4. StoredInv'
  BY <1>1, <1>2, StoredInserted DEF InventoryIInv, Adding, Slots
<1> QED  BY <1>2, <1>3, <1>4 DEF Kept

\* AddItem inserts, or meets the unique constraint.
LEMMA InsertItemKept ==
    ASSUME InventoryIInv, NEW p \in Proc, InsertItem(p), Only(p)
    PROVE  Kept(p)
<1>1. CASE Rejected(p)
  BY <1>1, EndKept DEF InsertItem, Rejected, Goto, At, lockVars, InventoryIInv, TypeOK, RequestTypeOK
<1>2. CASE ~Rejected(p)
  BY <1>2, InsertKept DEF InsertItem, Goto
<1> QED  BY <1>1, <1>2

\* MoveItem reads the item it moves.
LEMMA FetchItemKept ==
    ASSUME InventoryIInv, NEW p \in Proc, FetchItem(p), Only(p)
    PROVE  Kept(p)
<1> DEFINE i == rows[req[p].char][req[p].from]
           r == [req[p] EXCEPT !.item = i]
<1>1. /\ rows' = rows /\ told' = told /\ silent' = silent /\ hit' = hit
      /\ step[p] = "fetch" /\ lockPc[p] = "holding" /\ lockPc' = lockPc /\ lockKey' = lockKey
  BY DEF FetchItem, At, lockVars
<1>2. CASE Goto(p, "done") /\ UNCHANGED req
  BY <1>1, <1>2, EndKept DEF Goto, InventoryIInv, TypeOK, RequestTypeOK
<1>3. CASE ~(Goto(p, "done") /\ UNCHANGED req)
  <2>1. /\ step' = [step EXCEPT ![p] = "dest"]
        /\ isValidSlot(req[p].from) /\ isValidSlot(req[p].to) /\ i # NoItem
        /\ req' = [req EXCEPT ![p] = r]
    BY <1>3 DEF FetchItem, Goto, InventoryIInv, TypeOK, RequestTypeOK
  <2>2. req[p] \in Request
    BY DEF InventoryIInv, TypeOK, RequestTypeOK
  <2>3. req[p].char \in Character /\ req[p].complete
    BY <1>1 DEF InventoryIInv, RequestInv
  <2>4. req[p].from \in Slots /\ req[p].to \in Slots
    BY <2>1, <2>2, ValidSlots, SlotRanges DEF isValidSlot, isEquipmentSlot, Slots, BagSlots, MinBagSlot, WeaponSlot, Request
  <2>5. i \in Item
    BY <2>1, <2>3, <2>4 DEF InventoryIInv, TypeOK, RequestTypeOK
  <2>6. /\ r \in Request /\ r.item = i /\ r.char = req[p].char /\ r.from = req[p].from
        /\ r.to = req[p].to /\ r.complete = req[p].complete
    BY <2>2, <2>5, ReadType DEF Request
  <2> HIDE DEF r, i
  <2>7. RequestTypeOK' /\ step'[p] = "dest" /\ req'[p] = r
    BY <1>1, <2>1, <2>6 DEF InventoryIInv, TypeOK, RequestTypeOK
  <2>8. RequestInv(p)'
    BY <1>1, <2>3, <2>4, <2>5, <2>6, <2>7 DEF InventoryIInv, RequestInv, Adding, Moving
  <2>9. StoredInv'
    BY <1>1, <2>7, StoredKept DEF InventoryIInv, Adding
  <2> QED  BY <2>7, <2>8, <2>9 DEF Kept
<1> QED  BY <1>2, <1>3

\* MoveItem reads what is in the way.
LEMMA FetchDestKept ==
    ASSUME InventoryIInv, NEW p \in Proc, FetchDest(p), Only(p)
    PROVE  Kept(p)
<1> DEFINE i == rows[req[p].char][req[p].to]
           r == [req[p] EXCEPT !.dest = i]
<1>1. /\ rows' = rows /\ told' = told /\ silent' = silent /\ hit' = hit
      /\ step[p] = "dest" /\ lockPc[p] = "holding" /\ lockPc' = lockPc /\ lockKey' = lockKey
  BY DEF FetchDest, At, lockVars
<1>2. CASE Goto(p, "done") /\ UNCHANGED req
  BY <1>1, <1>2, EndKept DEF Goto, InventoryIInv, TypeOK, RequestTypeOK
<1>3. CASE ~(Goto(p, "done") /\ UNCHANGED req)
  <2>1. step' = [step EXCEPT ![p] = "write"] /\ req' = [req EXCEPT ![p] = r]
    BY <1>3 DEF FetchDest, Goto, InventoryIInv, TypeOK, RequestTypeOK
  <2>2. req[p] \in Request
    BY DEF InventoryIInv, TypeOK, RequestTypeOK
  <2>3. /\ req[p].char \in Character /\ req[p].complete /\ req[p].item \in Item
        /\ req[p].from \in Slots /\ req[p].to \in Slots
    BY <1>1 DEF InventoryIInv, RequestInv, Moving
  <2>4. i \in Item \cup {NoItem}
    BY <2>3 DEF InventoryIInv, TypeOK, RequestTypeOK
  <2>5. /\ r \in Request /\ r.item = req[p].item /\ r.char = req[p].char /\ r.from = req[p].from
        /\ r.to = req[p].to /\ r.complete = req[p].complete
    BY <2>2, <2>4, ReadType DEF Request
  <2> HIDE DEF r, i
  <2>6. RequestTypeOK' /\ step'[p] = "write" /\ req'[p] = r
    BY <1>1, <2>1, <2>5 DEF InventoryIInv, TypeOK, RequestTypeOK
  <2>7. RequestInv(p)'
    BY <1>1, <2>3, <2>5, <2>6 DEF InventoryIInv, RequestInv, Adding, Moving
  <2>8. StoredInv'
    BY <1>1, <2>6, StoredKept DEF InventoryIInv, Adding
  <2> QED  BY <2>6, <2>7, <2>8 DEF Kept
<1> QED  BY <1>2, <1>3

\* Exchanging two slots of an inventory gives an inventory.
LEMMA ExchangedType ==
    ASSUME NEW inv \in [Slots -> Item \cup {NoItem}], NEW a \in Slots, NEW b \in Slots
    PROVE  Exchanged(inv, a, b) \in [Slots -> Item \cup {NoItem}]
  BY DEF Exchanged

\* The exchange of two slots, whether or not its reply arrives.
LEMMA ExchangeKept ==
    ASSUME InventoryIInv, NEW p \in Proc, Only(p), At(p, "write"), NEW s \in {"publish", "done"},
           rows' = [rows EXCEPT ![req[p].char] = Exchanged(@, req[p].from, req[p].to)],
           step' = [step EXCEPT ![p] = s], UNCHANGED <<req, hit>>,
           told' \in [Character -> [Item -> Int]], silent' \subseteq Character
    PROVE  Kept(p)
<1>1. /\ req[p].char \in Character /\ req[p].from \in Slots /\ req[p].to \in Slots
      /\ step[p] = "write" /\ lockPc[p] = "holding" /\ lockPc' = lockPc /\ lockKey' = lockKey
  BY DEF InventoryIInv, RequestInv, Moving, At, lockVars
<1>2. rows' \in [Character -> [Slots -> Item \cup {NoItem}]]
  <2> DEFINE c == req[p].char
             inv == Exchanged(rows[c], req[p].from, req[p].to)
  <2>1. rows \in [Character -> [Slots -> Item \cup {NoItem}]]
    BY DEF InventoryIInv, TypeOK, RequestTypeOK
  <2>2. inv \in [Slots -> Item \cup {NoItem}]
    <3>1. rows[c] \in [Slots -> Item \cup {NoItem}] /\ req[p].from \in Slots /\ req[p].to \in Slots
      BY <1>1, <2>1
    <3> HIDE DEF c
    <3> QED  BY <3>1, ExchangedType
  <2>3. rows' = [rows EXCEPT ![c] = inv]
    OBVIOUS
  <2> HIDE DEF inv, c
  <2> QED  BY <2>1, <2>2, <2>3
<1>3. step'[p] = s /\ RequestTypeOK'
  <2>1. step'[p] = s /\ step' \in [Proc -> {"none", "list", "insert", "fetch", "dest", "write", "publish", "done"}]
    BY DEF InventoryIInv, TypeOK, RequestTypeOK
  <2>2. req' \in [Proc -> Request] /\ hit' \subseteq Proc
    BY DEF InventoryIInv, TypeOK, RequestTypeOK
  <2> QED  BY <1>2, <2>1, <2>2 DEF RequestTypeOK
<1>4. RequestInv(p)'
  BY <1>1, <1>3 DEF InventoryIInv, RequestInv, Adding, Moving
<1>5. StoredInv'
  BY <1>1, <1>3, StoredExchanged DEF InventoryIInv, Adding
<1> QED  BY <1>3, <1>4, <1>5 DEF Kept

\* MoveItem writes.
LEMMA WriteMoveKept ==
    ASSUME InventoryIInv, NEW p \in Proc, WriteMove(p), Only(p)
    PROVE  Kept(p)
<1>1. At(p, "write") /\ step[p] = "write" /\ lockPc[p] = "holding" /\ UNCHANGED <<lockPc, lockKey>>
  BY DEF WriteMove, At, lockVars
<1>2. CASE rows' = rows /\ Goto(p, "done")
  BY <1>1, <1>2, EndKept
     DEF WriteMove, MoveRow, SwapRows, Rejected, Goto, InventoryIInv, TypeOK, RequestTypeOK
<1>3. CASE /\ rows' = [rows EXCEPT ![req[p].char] = Exchanged(@, req[p].from, req[p].to)]
           /\ Goto(p, "publish") /\ UNCHANGED <<req, told, silent, hit>>
  BY <1>1, <1>3, ExchangeKept DEF Goto, InventoryIInv, TypeOK, RequestTypeOK
<1> QED  BY <1>2, <1>3 DEF WriteMove, MoveRow, SwapRows, Rejected

\* MoveItem publishes its events.
LEMMA PublishMoveKept ==
    ASSUME InventoryIInv, NEW p \in Proc, PublishMove(p), Only(p)
    PROVE  Kept(p)
<1>1. /\ step[p] = "publish" /\ lockPc[p] = "holding" /\ UNCHANGED <<lockPc, lockKey, rows, req, silent, hit>>
      /\ Goto(p, "done")
  BY DEF PublishMove, At, lockVars
<1>2. req[p].char \in Character
  BY <1>1 DEF InventoryIInv, RequestInv
<1>3. told' \in [Character -> [Item -> Int]]
  <2>1. Equips(req[p].to) - Equips(req[p].from) \in Int
    BY DEF Equips
  <2>2. PICK gain \in Int :
          told' = [told EXCEPT ![req[p].char] = [i \in Item |->
                    @[i] + (IF i = req[p].item THEN gain ELSE 0)
                         - (IF i = req[p].dest THEN gain ELSE 0)]]
    <3> DEFINE g == IF req[p].char \in silent THEN 0 ELSE Equips(req[p].to) - Equips(req[p].from)
    <3>1. g \in Int
      BY <2>1
    <3>2. told' = [told EXCEPT ![req[p].char] = [i \in Item |->
                    @[i] + (IF i = req[p].item THEN g ELSE 0)
                         - (IF i = req[p].dest THEN g ELSE 0)]]
      BY DEF PublishMove
    <3> HIDE DEF g
    <3> QED  BY <3>1, <3>2
  <2> QED  BY <1>2, <2>2 DEF InventoryIInv, TypeOK, RequestTypeOK
<1> QED  BY <1>1, <1>3, EndKept DEF Goto, InventoryIInv, TypeOK, RequestTypeOK

\* A statement fails, or its reply is lost.
LEMMA FailuresKept ==
    ASSUME InventoryIInv, NEW p \in Proc, DbError(p) \/ LostReply(p), Only(p)
    PROVE  Kept(p)
<1>1. CASE DbError(p)
  BY <1>1, EndKept DEF DbError, At, lockVars, Goto, InventoryIInv, TypeOK, RequestTypeOK
<1>2. CASE LostReply(p) /\ At(p, "insert")
  BY <1>2, InsertKept DEF LostReply, At, Goto
<1>3. CASE LostReply(p) /\ At(p, "write")
  <2>1. /\ req[p].char \in Character
        /\ told' = [told EXCEPT ![req[p].char] = [i \in Item |-> 0]]
        /\ silent' = silent \cup {req[p].char}
    BY <1>3 DEF LostReply, At, InventoryIInv, RequestInv
  <2>2. told' \in [Character -> [Item -> Int]] /\ silent' \subseteq Character
    BY <2>1 DEF InventoryIInv, TypeOK, RequestTypeOK
  <2> QED  BY <1>3, <2>2, ExchangeKept DEF LostReply, At, Goto
<1> QED  BY <1>1, <1>2, <1>3 DEF LostReply

\* The first state satisfies the invariant.
LEMMA InventoryInitIInv == Init => InventoryIInv
<1> SUFFICES ASSUME Init PROVE InventoryIInv
  OBVIOUS
<1>1. LockIInv
  BY LockInitIInv DEF Init
<1>2. TypeOK
  BY <1>1, NoRequestType DEF Init, TypeOK, RequestTypeOK, LockIInv, EmptyInventory
<1>3. ASSUME NEW p \in Proc PROVE RequestInv(p)
  BY DEF Init, LockInit, RequestInv, Adding, Moving
<1>4. StoredInv
  BY DEF Init, StoredInv, Adding, EmptyInventory
<1> QED  BY <1>1, <1>2, <1>3, <1>4 DEF InventoryIInv

\* Every step keeps it.
LEMMA InventoryStepIInv == InventoryIInv /\ [Next]_vars => InventoryIInv'
<1> SUFFICES ASSUME InventoryIInv, [Next]_vars PROVE InventoryIInv'
  OBVIOUS
<1>1. LockIInv'
  BY LockMoves, LockStepIInv DEF InventoryIInv
<1>2. LockTypeOK'
  BY <1>1 DEF LockIInv
<1>3. CASE UNCHANGED vars
  BY <1>1, <1>2, <1>3 DEF vars, requestVars, lockVars, InventoryIInv, TypeOK, RequestTypeOK,
                          RequestInv, StoredInv, Adding, Moving
<1>4. ASSUME NEW p \in Proc, Only(p), Kept(p)
      PROVE  InventoryIInv'
  BY <1>1, <1>2, <1>4, OthersStay DEF InventoryIInv, Kept, TypeOK
<1>5. ASSUME NEW p \in Proc, NEW c \in Character, NEW item \in Item, CallAddItem(p, c, item)
      PROVE  InventoryIInv'
  BY <1>4, <1>5, CallAddItemKept, OneMoves DEF InventoryIInv
<1>6. ASSUME NEW p \in Proc, NEW c \in Character, NEW from \in Slots \cup {BadSlot},
             NEW to \in Slots \cup {BadSlot}, CallMoveItem(p, c, from, to)
      PROVE  InventoryIInv'
  BY <1>4, <1>6, CallMoveItemKept, OneMoves DEF InventoryIInv
<1>7. ASSUME NEW p \in Proc, Enter(p) \/ Return(p) \/ Leave(p)
      PROVE  InventoryIInv'
  BY <1>4, <1>7, LockStepsKept, OneMoves DEF InventoryIInv
<1>8. ASSUME NEW p \in Proc, Statement(p)
      PROVE  InventoryIInv'
  <2>1. Only(p)
    BY <1>8, OneMoves DEF InventoryIInv
  <2> QED  BY <1>4, <1>8, <2>1, ListKept, InsertItemKept, FetchItemKept, FetchDestKept, WriteMoveKept,
              PublishMoveKept, FailuresKept DEF Statement
<1> QED  BY <1>3, <1>5, <1>6, <1>7, <1>8 DEF Next

\* Every state of the inventory service satisfies the invariant.
THEOREM InventoryInvariant == Spec => []InventoryIInv
  BY InventoryInitIInv, InventoryStepIInv, PTL DEF Spec

\* The types of the table, the requests and the locks (service.go, repository.go).
THEOREM InventoryTypes == Spec => []TypeOK
<1>1. InventoryIInv => TypeOK
  BY DEF InventoryIInv
<1> QED  BY <1>1, InventoryInvariant, PTL

\* On any number of nodes, whatever statements fail and whatever replies are lost,
\* an item is in at most one slot of one character (service.go:119-133, 176-205).
THEOREM StoredOnce == Spec => []ItemsStoredOnce
<1>1. ASSUME InventoryIInv PROVE ItemsStoredOnce
  <2> SUFFICES ASSUME NEW item \in Item
               PROVE  Cardinality({at \in Character \X Slots : rows[at[1]][at[2]] = item}) <= 1
    BY DEF ItemsStoredOnce
  <2> DEFINE S == {at \in Character \X Slots : rows[at[1]][at[2]] = item}
  <2>1. \A x, y \in S : x = y
    BY <1>1, NoItemIsNoItem DEF InventoryIInv, StoredInv
  <2> HIDE DEF S
  <2>2. S = {} \/ \E x : S = {x}
    BY <2>1
  <2>3. Cardinality(S) <= 1
    BY <2>2, FS_EmptySet, FS_Singleton, SMTT(30)
  <2> QED  BY <2>3 DEF S
<1> QED  BY <1>1, InventoryInvariant, PTL

-----------------------------------------------------------------------------
\* What a step does to the table.

Inserts(p) ==
    /\ step[p] = "insert" /\ lockPc[p] = "holding"
    /\ rows[req[p].char][req[p].to] = NoItem
    /\ rows' = [rows EXCEPT ![req[p].char][req[p].to] = req[p].item]

Exchanges(p) ==
    /\ step[p] = "write" /\ lockPc[p] = "holding"
    /\ rows' = [rows EXCEPT ![req[p].char] = Exchanged(@, req[p].from, req[p].to)]

\* A step inserts a row into an empty slot, exchanges two slots or writes nothing.
LEMMA RowsWritten ==
    ASSUME NEW p \in Proc,
           \/ \E c \in Character, item \in Item : CallAddItem(p, c, item)
           \/ \E c \in Character, from, to \in Slots \cup {BadSlot} : CallMoveItem(p, c, from, to)
           \/ Enter(p) \/ Statement(p) \/ Return(p) \/ Leave(p)
    PROVE  rows' = rows \/ Inserts(p) \/ Exchanges(p)
<1>1. CASE \E c \in Character, item \in Item : CallAddItem(p, c, item)
  BY <1>1 DEF CallAddItem
<1>2. CASE \E c \in Character, from, to \in Slots \cup {BadSlot} : CallMoveItem(p, c, from, to)
  BY <1>2 DEF CallMoveItem
<1>3. CASE Enter(p) \/ Return(p) \/ Leave(p)
  BY <1>3 DEF Enter, Return, Leave, requestVars
<1>4. CASE InsertItem(p)
  BY <1>4 DEF InsertItem, Rejected, At, Inserts
<1>5. CASE WriteMove(p)
  BY <1>5 DEF WriteMove, MoveRow, SwapRows, Rejected, At, Exchanges
<1>6. CASE LostReply(p)
  BY <1>6 DEF LostReply, At, Inserts, Exchanges
<1>7. CASE ListByCharacter(p) \/ FetchItem(p) \/ FetchDest(p) \/ PublishMove(p) \/ DbError(p)
  BY <1>7 DEF ListByCharacter, FetchItem, FetchDest, PublishMove, DbError
<1> QED  BY <1>1, <1>2, <1>3, <1>4, <1>5, <1>6, <1>7 DEF Statement

\* The slots are finitely many.
LEMMA FiniteSlots == IsFiniteSet(Slots)
<1>1. IsFiniteSet(BagSlots)
  BY SlotRanges, FS_Interval DEF BagSlots, MinBagSlot
<1>2. IsFiniteSet(WeaponSlot .. AccessorySlot)
  BY SlotRanges, FS_Interval DEF WeaponSlot
<1> QED  BY <1>1, <1>2, FS_Union DEF Slots

\* An insertion or an exchange keeps every item that is stored in one slot in one slot.
LEMMA StepConserves ==
    ASSUME InventoryIInv, NEW p \in Proc, rows' = rows \/ Inserts(p) \/ Exchanges(p),
           NEW c \in Character, NEW item \in Item, NEW s \in Slots, StoredAt(c, item) = {s}
    PROVE  \E t \in Slots : StoredAt(c, item)' = {t}
<1>1. CASE rows' = rows
  BY <1>1 DEF StoredAt
<1>2. CASE Inserts(p)
  <2>1. req[p].char \in Character /\ req[p].to \in Slots
    BY <1>2 DEF InventoryIInv, RequestInv, Inserts, Slots
  <2>2. req[p].item # item
    <3>1. rows[c][s] = item
      BY DEF StoredAt
    <3> QED  BY <1>2, <3>1 DEF InventoryIInv, StoredInv, Inserts, Adding
  <2>3. \A t \in Slots : rows'[c][t] = item <=> rows[c][t] = item
    BY <1>2, <2>1, <2>2, NoItemIsNoItem DEF InventoryIInv, TypeOK, RequestTypeOK, Inserts
  <2> QED  BY <2>3 DEF StoredAt
<1>3. CASE Exchanges(p)
  <2> DEFINE from == req[p].from
             to == req[p].to
             t == IF c # req[p].char THEN s ELSE IF s = from THEN to ELSE IF s = to THEN from ELSE s
  <2>1. req[p].char \in Character /\ from \in Slots /\ to \in Slots
    BY <1>3 DEF InventoryIInv, RequestInv, Exchanges, Moving
  <2>2. \A u \in Slots : rows[c][u] = item <=> u = s
    BY DEF StoredAt
  <2>3. \A u \in Slots : rows'[c][u] = IF c # req[p].char THEN rows[c][u]
                                       ELSE IF u = to THEN rows[c][from]
                                       ELSE IF u = from THEN rows[c][to]
                                       ELSE rows[c][u]
    BY <1>3, <2>1 DEF InventoryIInv, TypeOK, RequestTypeOK, Exchanges, Exchanged
  <2>4. t \in Slots /\ \A u \in Slots : rows'[c][u] = item <=> u = t
    BY <2>1, <2>2, <2>3
  <2> HIDE DEF t
  <2>5. StoredAt(c, item)' = {t}
    BY <2>4 DEF StoredAt
  <2> QED  BY <2>4, <2>5
<1> QED  BY <1>1, <1>2, <1>3

\* No step, failed or not, loses a stored item or stores it twice, on any number of
\* nodes: MoveItem writes with one UPDATE or one transaction (repository.go).
THEOREM Conserved == Spec => ItemsConserved
<1>1. ASSUME InventoryIInv, [Next]_vars, NEW c \in Character, NEW item \in Item,
             Cardinality(StoredAt(c, item)) = 1
      PROVE  Cardinality(StoredAt(c, item)') = 1
  <2>1. IsFiniteSet(StoredAt(c, item))
    BY FiniteSlots, FS_Subset DEF StoredAt
  <2>2. PICK s : StoredAt(c, item) = {s}
    BY <1>1, <2>1, FS_Singleton
  <2>3. s \in Slots
    BY <2>2 DEF StoredAt
  <2>4. CASE UNCHANGED vars
    BY <1>1, <2>4 DEF vars, requestVars, StoredAt
  <2>5. ASSUME NEW p \in Proc, rows' = rows \/ Inserts(p) \/ Exchanges(p)
        PROVE  Cardinality(StoredAt(c, item)') = 1
    <3>1. PICK t \in Slots : StoredAt(c, item)' = {t}
      BY <1>1, <2>2, <2>3, <2>5, StepConserves
    <3> QED  BY <3>1, FS_Singleton
  <2> QED  BY <1>1, <2>4, <2>5, RowsWritten DEF Next
<1>2. InventoryIInv /\ [Next]_vars =>
        [\A c \in Character, item \in Item :
           Cardinality(StoredAt(c, item)) = 1 => Cardinality(StoredAt(c, item)') = 1]_vars
  BY <1>1
<1> QED  BY <1>2, InventoryInvariant, PTL DEF Spec, ItemsConserved

-----------------------------------------------------------------------------
\* One node: what a request has read is still so when it writes.

\* On one node, one request at a time works on a character.
LEMMA Alone ==
    ASSUME SingleNode, InventoryIInv, NEW p \in Proc, NEW q \in Proc,
           lockPc[p] = "holding", lockPc[q] = "holding", req[p].char = req[q].char
    PROVE  p = q
<1>1. MutualExclusion
  BY DEF InventoryIInv, LockIInv, LockTypeOK, EntryStable, HolderExact, MutualExclusion
<1>2. step[p] # "none" /\ step[q] # "none"
  BY DEF InventoryIInv, RequestInv
<1>3. lockKey[p] = <<NodeOf[p], req[p].char>> /\ lockKey[q] = <<NodeOf[q], req[q].char>>
  BY <1>2 DEF InventoryIInv, RequestInv
<1>4. NodeOf[p] = NodeOf[q]
  BY DEF SingleNode
<1> QED  BY <1>1, <1>3, <1>4 DEF MutualExclusion

\* A goroutine past its first statement holds its lock.
LEMMA Working ==
    ASSUME InventoryIInv, NEW q \in Proc, step[q] \in {"insert", "dest", "write", "publish"}
    PROVE  lockPc[q] = "holding" /\ req[q].char \in Character
  BY DEF InventoryIInv, RequestInv, TypeOK, LockTypeOK

\* A write changes the inventory of its own character only.
LEMMA OtherInventories ==
    ASSUME InventoryIInv, NEW p \in Proc, rows' = rows \/ Inserts(p) \/ Exchanges(p),
           NEW c \in Character, rows'[c] # rows[c]
    PROVE  c = req[p].char /\ lockPc[p] = "holding"
  BY DEF Inserts, Exchanges, InventoryIInv, TypeOK, RequestTypeOK

\* What the others have read stays true.
LEMMA OthersRead ==
    ASSUME SingleNode, InventoryIInv, \A q \in Proc : ReadInv(q),
           NEW p \in Proc, Only(p), rows' = rows \/ Inserts(p) \/ Exchanges(p), ReadInv(p)'
    PROVE  \A q \in Proc : ReadInv(q)'
<1> SUFFICES ASSUME NEW q \in Proc \ {p} PROVE ReadInv(q)'
  OBVIOUS
<1>1. step'[q] = step[q] /\ req'[q] = req[q]
  BY DEF Only
<1>2. CASE step[q] \notin {"insert", "dest", "write", "publish"}
  BY <1>1, <1>2 DEF ReadInv
<1>3. CASE step[q] \in {"insert", "dest", "write", "publish"}
  <2>1. lockPc[q] = "holding" /\ req[q].char \in Character
    BY <1>3, Working
  <2>2. rows'[req[q].char] = rows[req[q].char]
    BY <2>1, Alone, OtherInventories
  <2>3. ReadInv(q)
    OBVIOUS
  <2> QED  BY ONLY <1>1, <2>2, <2>3 DEF ReadInv
<1> QED  BY <1>2, <1>3

\* A request that has ended, or has not read yet, relies on nothing.
LEMMA NothingRead ==
    ASSUME NEW p \in Proc, step'[p] \notin {"insert", "dest", "write", "publish"}
    PROVE  ReadInv(p)'
  BY DEF ReadInv

\* What AddItem has listed is what is stored.
LEMMA ListReads ==
    ASSUME InventoryIInv, NEW p \in Proc, ListByCharacter(p)
    PROVE  ReadInv(p)' /\ hit' = hit
<1> DEFINE occupied == Occupied(rows[req[p].char])
<1>1. PICK seen \in SUBSET occupied :
        LET slot == emptySlot(seen) IN
        /\ Goto(p, IF slot = -1 THEN "done" ELSE "insert")
        /\ req' = [req EXCEPT ![p].to = slot, ![p].complete = (seen = occupied)]
  BY DEF ListByCharacter
<1> DEFINE slot == emptySlot(seen)
<1>2. rows' = rows /\ hit' = hit
  BY DEF ListByCharacter
<1>3. req[p] \in Request
  BY DEF InventoryIInv, TypeOK, RequestTypeOK
<1>4. /\ step'[p] = (IF slot = -1 THEN "done" ELSE "insert")
      /\ req'[p].to = slot /\ req'[p].complete = (seen = occupied) /\ req'[p].char = req[p].char
  BY <1>1, <1>3 DEF Goto, InventoryIInv, TypeOK, RequestTypeOK, Request
<1>5. CASE slot = -1
  BY <1>2, <1>4, <1>5, NothingRead
<1>6. CASE slot # -1
  <2>1. slot \in BagSlots \ seen /\ \A s \in BagSlots : s < slot => s \in seen
    BY <1>6, EmptySlot
  <2> HIDE DEF slot
  <2>2. \A s \in BagSlots : s \in seen => rows[req[p].char][s] # NoItem
    BY DEF Occupied
  <2>3. seen = occupied => rows[req[p].char][slot] = NoItem
    BY <2>1 DEF Occupied, Slots
  <2> HIDE DEF occupied
  <2>4. step'[p] = "insert"
    BY <1>4, <1>6
  <2> QED  BY <1>2, <1>4, <2>1, <2>2, <2>3, <2>4 DEF ReadInv
<1> QED  BY <1>5, <1>6

\* What MoveItem has read of its item is what is stored.
LEMMA FetchItemReads ==
    ASSUME InventoryIInv, NEW p \in Proc, FetchItem(p)
    PROVE  ReadInv(p)' /\ hit' = hit
<1> DEFINE i == rows[req[p].char][req[p].from]
<1>1. rows' = rows /\ hit' = hit
  BY DEF FetchItem
<1>2. CASE Goto(p, "done")
  BY <1>1, <1>2, NothingRead DEF Goto, InventoryIInv, TypeOK, RequestTypeOK
<1>3. CASE ~Goto(p, "done")
  <2>1. /\ step' = [step EXCEPT ![p] = "dest"] /\ req' = [req EXCEPT ![p].item = i]
        /\ isEquipmentSlot(req[p].to) => validateEquipmentRequirements(req[p].char, i, req[p].to)
    BY <1>3 DEF FetchItem, Goto
  <2>2. req[p] \in Request
    BY DEF InventoryIInv, TypeOK, RequestTypeOK
  <2>3. /\ step'[p] = "dest" /\ req'[p].item = i /\ req'[p].from = req[p].from
        /\ req'[p].to = req[p].to /\ req'[p].char = req[p].char
    BY <2>1, <2>2 DEF InventoryIInv, TypeOK, RequestTypeOK, Request
  <2> QED  BY <1>1, <2>1, <2>3 DEF ReadInv
<1> QED  BY <1>2, <1>3

\* So is what it has read of the destination.
LEMMA FetchDestReads ==
    ASSUME InventoryIInv, NEW p \in Proc, ReadInv(p), FetchDest(p)
    PROVE  ReadInv(p)' /\ hit' = hit
<1> DEFINE i == rows[req[p].char][req[p].to]
<1>1. rows' = rows /\ hit' = hit /\ step[p] = "dest"
  BY DEF FetchDest, At
<1>2. CASE Goto(p, "done")
  BY <1>1, <1>2, NothingRead DEF Goto, InventoryIInv, TypeOK, RequestTypeOK
<1>3. CASE ~Goto(p, "done")
  <2>1. /\ step' = [step EXCEPT ![p] = "write"] /\ req' = [req EXCEPT ![p].dest = i]
        /\ isEquipmentSlot(req[p].from) /\ isEquipmentSlot(req[p].to) /\ i # NoItem
             => validateEquipmentRequirements(req[p].char, i, req[p].from)
    BY <1>3 DEF FetchDest, Goto
  <2>2. req[p] \in Request
    BY DEF InventoryIInv, TypeOK, RequestTypeOK
  <2>3. /\ step'[p] = "write" /\ req'[p].dest = i /\ req'[p].from = req[p].from
        /\ req'[p].to = req[p].to /\ req'[p].char = req[p].char /\ req'[p].item = req[p].item
    BY <2>1, <2>2 DEF InventoryIInv, TypeOK, RequestTypeOK, Request
  <2> QED  BY <1>1, <2>1, <2>3 DEF ReadInv
<1> QED  BY <1>2, <1>3

\* The write of a move finds what the request has read, so nothing rejects it.
LEMMA WriteMoveReads ==
    ASSUME InventoryIInv, NEW p \in Proc, ReadInv(p), WriteMove(p)
    PROVE  ReadInv(p)' /\ hit' = hit
<1>1. step[p] = "write" /\ UNCHANGED req
  BY DEF WriteMove, At, MoveRow, SwapRows, Rejected
<1>2. /\ req[p].char \in Character /\ req[p].from \in Slots /\ req[p].to \in Slots
      /\ req[p].item \in Item
  BY <1>1 DEF InventoryIInv, RequestInv, Moving
<1>3. rows[req[p].char][req[p].from] = req[p].item /\ rows[req[p].char][req[p].to] = req[p].dest
  BY <1>1 DEF ReadInv
<1>4. /\ rows' = [rows EXCEPT ![req[p].char] = Exchanged(@, req[p].from, req[p].to)]
      /\ step' = [step EXCEPT ![p] = "publish"] /\ hit' = hit
  BY <1>2, <1>3, NoItemIsNoItem DEF WriteMove, MoveRow, SwapRows, Rejected, Goto
<1>5. /\ step'[p] = "publish"
      /\ rows'[req[p].char][req[p].to] = req[p].item
      /\ rows'[req[p].char][req[p].from] = req[p].dest
  BY <1>2, <1>3, <1>4 DEF InventoryIInv, TypeOK, RequestTypeOK, Exchanged
<1> QED  BY <1>1, <1>4, <1>5 DEF ReadInv

\* A statement keeps what its request knows, and none meets the unique constraint
\* after a complete read.
LEMMA StatementReads ==
    ASSUME InventoryIInv, NEW p \in Proc, ReadInv(p), Statement(p)
    PROVE  ReadInv(p)' /\ hit' = hit
<1>1. CASE InsertItem(p)
  <2>1. step[p] = "insert" /\ Goto(p, "done")
    BY <1>1 DEF InsertItem, At, Rejected
  <2>2. hit' = hit
    BY <1>1, <2>1 DEF InsertItem, Rejected, ReadInv
  <2> QED  BY <2>1, <2>2, NothingRead DEF Goto, InventoryIInv, TypeOK, RequestTypeOK
<1>2. CASE PublishMove(p) \/ DbError(p) \/ LostReply(p)
  BY <1>2, NothingRead DEF PublishMove, DbError, LostReply, Goto, InventoryIInv, TypeOK, RequestTypeOK
<1> QED  BY <1>1, <1>2, ListReads, FetchItemReads, FetchDestReads, WriteMoveReads DEF Statement

\* The first state satisfies the invariant of one node.
LEMMA OneNodeInitIInv == Init => OneNodeIInv
  BY InventoryInitIInv DEF Init, OneNodeIInv, NoConstraintHit, ReadInv

\* On one node every step keeps it: the lock keeps others from the rows.
LEMMA OneNodeStepIInv ==
    ASSUME SingleNode, OneNodeIInv, [Next]_vars
    PROVE  OneNodeIInv'
<1>1. InventoryIInv'
  BY InventoryStepIInv DEF OneNodeIInv
<1>2. CASE UNCHANGED vars
  BY <1>1, <1>2 DEF OneNodeIInv, NoConstraintHit, ReadInv, vars, requestVars
<1>3. ASSUME NEW p \in Proc, Only(p), rows' = rows \/ Inserts(p) \/ Exchanges(p),
             ReadInv(p)', hit' = {}
      PROVE  OneNodeIInv'
  BY <1>1, <1>3, OthersRead DEF OneNodeIInv, NoConstraintHit
<1>4. ASSUME NEW p \in Proc, NEW c \in Character, NEW item \in Item, CallAddItem(p, c, item)
      PROVE  OneNodeIInv'
  <2>1. Only(p) /\ rows' = rows /\ hit' = hit /\ step'[p] = "list"
    BY <1>4, OneMoves DEF CallAddItem, Goto, OneNodeIInv, InventoryIInv, TypeOK, RequestTypeOK
  <2> QED  BY <1>3, <2>1, NothingRead DEF OneNodeIInv, NoConstraintHit
<1>5. ASSUME NEW p \in Proc, NEW c \in Character, NEW from \in Slots \cup {BadSlot},
             NEW to \in Slots \cup {BadSlot}, CallMoveItem(p, c, from, to)
      PROVE  OneNodeIInv'
  <2>1. Only(p) /\ rows' = rows /\ hit' = hit /\ step'[p] = "fetch"
    BY <1>5, OneMoves DEF CallMoveItem, Goto, OneNodeIInv, InventoryIInv, TypeOK, RequestTypeOK
  <2> QED  BY <1>3, <2>1, NothingRead DEF OneNodeIInv, NoConstraintHit
<1>6. ASSUME NEW p \in Proc, Enter(p) \/ Leave(p)
      PROVE  OneNodeIInv'
  <2>1. UNCHANGED requestVars
    BY <1>6 DEF Enter, Leave
  <2> QED  BY <1>1, <2>1 DEF OneNodeIInv, NoConstraintHit, ReadInv, requestVars
<1>7. ASSUME NEW p \in Proc, Return(p)
      PROVE  OneNodeIInv'
  <2>1. Only(p) /\ rows' = rows /\ hit' = hit \ {p} /\ step'[p] = "none"
    BY <1>7, OneMoves DEF Return, Goto, OneNodeIInv, InventoryIInv, TypeOK, RequestTypeOK
  <2> QED  BY <1>3, <2>1, NothingRead DEF OneNodeIInv, NoConstraintHit
<1>8. ASSUME NEW p \in Proc, Statement(p)
      PROVE  OneNodeIInv'
  <2>1. Only(p) /\ (rows' = rows \/ Inserts(p) \/ Exchanges(p))
    BY <1>8, OneMoves, RowsWritten DEF OneNodeIInv, InventoryIInv
  <2> QED  BY <1>3, <1>8, <2>1, StatementReads DEF OneNodeIInv, NoConstraintHit
<1> QED  BY <1>2, <1>4, <1>5, <1>6, <1>7, <1>8 DEF Next

\* On one node, what a request reads under its lock is what it writes to.
THEOREM OneNodeInvariant == ASSUME SingleNode PROVE Spec => []OneNodeIInv
<1>1. OneNodeIInv /\ [Next]_vars => OneNodeIInv'
  BY OneNodeStepIInv
<1> QED  BY <1>1, OneNodeInitIInv, PTL DEF Spec

\* On one node no write that follows a complete read meets the unique constraint
\* (service.go:106-109, 151-153).
THEOREM NoHit == ASSUME SingleNode PROVE Spec => []NoConstraintHit
<1>1. OneNodeIInv => NoConstraintHit
  BY DEF OneNodeIInv
<1> QED  BY <1>1, OneNodeInvariant, PTL

-----------------------------------------------------------------------------
\* One node: every write is a step of the atomic inventory.

\* The rules that the atomic inventory applies are those of the service.
LEMMA SameRules ==
    /\ AtomicInv!Slots = Slots
    /\ AtomicInv!BagSlots = BagSlots
    /\ \A slot : AtomicInv!isEquipmentSlot(slot) <=> isEquipmentSlot(slot)
    /\ \A c, item, slot : AtomicInv!validateEquipmentRequirements(c, item, slot)
                            <=> validateEquipmentRequirements(c, item, slot)
    /\ \A inv, a, b : AtomicInv!Exchanged(inv, a, b) = Exchanged(inv, a, b)
<1>1. AtomicInv!Slots = Slots /\ AtomicInv!BagSlots = BagSlots
  BY DEF AtomicInv!Slots, AtomicInv!BagSlots, AtomicInv!MinBagSlot, AtomicInv!WeaponSlot,
         BagSlots, MinBagSlot, Slots, WeaponSlot
<1>2. \A slot : AtomicInv!isEquipmentSlot(slot) <=> isEquipmentSlot(slot)
  BY DEF AtomicInv!isEquipmentSlot, isEquipmentSlot, AtomicInv!WeaponSlot, WeaponSlot
<1>3. \A c, item, slot : AtomicInv!validateEquipmentRequirements(c, item, slot)
                            <=> validateEquipmentRequirements(c, item, slot)
  BY DEF AtomicInv!validateEquipmentRequirements, validateEquipmentRequirements
<1>4. \A inv, a, b : AtomicInv!Exchanged(inv, a, b) = Exchanged(inv, a, b)
  BY DEF AtomicInv!Exchanged, Exchanged
<1> QED  BY <1>1, <1>2, <1>3, <1>4

\* A row that AddItem inserts is in the first free bag slot, even after a read that
\* was cut short: all slots before it are taken.
LEMMA InsertIsAdd ==
    ASSUME OneNodeIInv, NEW p \in Proc, Inserts(p)
    PROVE  AtomicInv!Next
<1> DEFINE c == req[p].char
           slot == req[p].to
           occupied == AtomicInv!Occupied(rows[c])
           free == BagSlots \ occupied
<1>1. /\ c \in Character /\ slot \in BagSlots /\ req[p].item \in Item
      /\ rows[c][slot] = NoItem
      /\ \A s \in BagSlots : s < slot => rows[c][s] # NoItem
      /\ \A d \in Character, s \in Slots : rows[d][s] # req[p].item
  BY DEF OneNodeIInv, InventoryIInv, RequestInv, ReadInv, StoredInv, Inserts, Adding
<1>2. slot \in free /\ \A t \in free : slot <= t
  BY <1>1, SameRules, SlotRanges DEF AtomicInv!Occupied, Slots, BagSlots, MinBagSlot
<1>3. AtomicInv!emptySlot(occupied) = slot
  <2> HIDE DEF free, slot
  <2>1. free \subseteq Int
    BY SlotRanges DEF free, BagSlots, MinBagSlot
  <2>2. \A x \in free : (\A y \in free : x <= y) => x = slot
    BY <1>2, <2>1
  <2>3. AtomicInv!Min(free) = slot
    BY <1>2, <2>2 DEF AtomicInv!Min
  <2>4. AtomicInv!emptySlot(occupied) = IF free = {} THEN -1 ELSE AtomicInv!Min(free)
    BY SameRules DEF AtomicInv!emptySlot, free
  <2> QED  BY <1>2, <2>3, <2>4
<1>4. slot # -1
  BY <1>1, SlotRanges DEF BagSlots, MinBagSlot
<1>5. rows' = [rows EXCEPT ![c][slot] = req[p].item]
  BY DEF Inserts
<1>6. AtomicInv!Add(c, req[p].item)
  BY <1>1, <1>3, <1>4, <1>5, SameRules DEF AtomicInv!Add
<1> QED  BY <1>1, <1>6 DEF AtomicInv!Next

\* The two slots that MoveItem exchanges satisfy the rules when they are exchanged.
LEMMA ExchangeIsMove ==
    ASSUME OneNodeIInv, NEW p \in Proc, Exchanges(p)
    PROVE  AtomicInv!Next
<1> DEFINE c == req[p].char
           from == req[p].from
           to == req[p].to
<1>1. step[p] = "write"
  BY DEF Exchanges
<1>2. c \in Character /\ from \in Slots /\ to \in Slots /\ req[p].item \in Item
  BY <1>1 DEF OneNodeIInv, InventoryIInv, RequestInv, Moving
<1>3. /\ rows[c][from] = req[p].item /\ rows[c][to] = req[p].dest
      /\ isEquipmentSlot(to) => validateEquipmentRequirements(c, req[p].item, to)
      /\ isEquipmentSlot(from) /\ isEquipmentSlot(to) /\ req[p].dest # NoItem
           => validateEquipmentRequirements(c, req[p].dest, from)
  BY <1>1 DEF OneNodeIInv, ReadInv
<1>4. rows' = [rows EXCEPT ![c] = Exchanged(@, from, to)]
  BY DEF Exchanges
<1> HIDE DEF c, from, to
<1>5. AtomicInv!Move(c, from, to)
  BY <1>2, <1>3, <1>4, SameRules, NoItemIsNoItem DEF AtomicInv!Move
<1> QED  BY <1>2, <1>5, SameRules DEF AtomicInv!Next

\* On one node the service implements the inventory whose every operation checks
\* and writes in one step, whatever statements fail and whatever replies are lost
\* (service.go:95-227).
THEOREM InventoryRefinement == ASSUME SingleNode PROVE Spec => ImplementsAtomicInventory
<1>1. Init => AtomicInv!Init
  BY SameRules DEF Init, AtomicInv!Init, EmptyInventory, AtomicInv!EmptyInventory
<1>2. OneNodeIInv /\ [Next]_vars => [AtomicInv!Next]_rows
  <2> SUFFICES ASSUME OneNodeIInv, [Next]_vars PROVE AtomicInv!Next \/ rows' = rows
    OBVIOUS
  <2>1. CASE UNCHANGED vars
    BY <2>1 DEF vars, requestVars
  <2>2. ASSUME NEW p \in Proc, rows' = rows \/ Inserts(p) \/ Exchanges(p)
        PROVE  AtomicInv!Next \/ rows' = rows
    BY <2>2, InsertIsAdd, ExchangeIsMove
  <2> QED  BY <2>1, <2>2, RowsWritten DEF Next
<1> QED  BY <1>1, <1>2, OneNodeInvariant, PTL DEF Spec, ImplementsAtomicInventory, AtomicInv!Spec

-----------------------------------------------------------------------------
\* One node: the events add up to the equipment.

EquipmentSlots == WeaponSlot .. AccessorySlot

\* An item is worn when it is in an equipment slot.
LEMMA WornMember ==
    ASSUME NEW inv, NEW x
    PROVE  x \in WornIn(inv) <=> x # NoItem /\ \E s \in EquipmentSlots : inv[s] = x
  BY DEF WornIn, EquipmentSlots

\* The slots that isEquipmentSlot accepts.
LEMMA EquipmentSlot == \A slot \in Slots : isEquipmentSlot(slot) <=> slot \in EquipmentSlots
  BY SlotRanges DEF isEquipmentSlot, EquipmentSlots, Slots, BagSlots, MinBagSlot, WeaponSlot

\* Exchanging the same two slots again restores them.
LEMMA ExchangedTwice ==
    ASSUME NEW inv \in [Slots -> Item \cup {NoItem}], NEW a \in Slots, NEW b \in Slots
    PROVE  Exchanged(Exchanged(inv, a, b), a, b) = inv
  BY DEF Exchanged

Said(i, item, dest, gain) == (IF i = item THEN gain ELSE 0) - (IF i = dest THEN gain ELSE 0)

\* The events of a move say how it changed what is worn: now is the inventory after
\* the move from slot a to slot b.
LEMMA EventsOfMove ==
    ASSUME NEW now \in [Slots -> Item \cup {NoItem}], NEW a \in Slots, NEW b \in Slots,
           now[b] \in Item,
           \A s, t \in Slots : now[s] # NoItem /\ now[s] = now[t] => s = t,
           NEW i \in Item
    PROVE  WornBit(now, i) = WornBit(Exchanged(now, a, b), i)
                               + Said(i, now[b], now[a], Equips(b) - Equips(a))
<1> DEFINE item == now[b]
           dest == now[a]
           old == Exchanged(now, a, b)
<1>1. /\ item \in Item /\ item # NoItem /\ i # NoItem
      /\ isEquipmentSlot(a) <=> a \in EquipmentSlots
      /\ isEquipmentSlot(b) <=> b \in EquipmentSlots
  BY NoItemIsNoItem, EquipmentSlot
<1>2. \A s \in Slots : old[s] = IF s = b THEN dest ELSE IF s = a THEN item ELSE now[s]
  BY DEF Exchanged
<1>3. \A s \in Slots : (now[s] = item <=> s = b) /\ (old[s] = item <=> s = a)
  BY <1>1, <1>2
<1>4. i = dest => \A s \in Slots : (now[s] = i <=> s = a) /\ (old[s] = i <=> s = b)
  BY <1>1, <1>2
<1>5. i # item /\ i # dest => \A s \in Slots : old[s] = i <=> now[s] = i
  BY <1>2
<1>6. EquipmentSlots \subseteq Slots
  BY DEF EquipmentSlots, Slots
<1>7. i \in WornIn(old) <=> \E s \in EquipmentSlots : old[s] = i
  BY <1>1, WornMember
<1>8. i \in WornIn(now) <=> \E s \in EquipmentSlots : now[s] = i
  BY <1>1, WornMember
<1> HIDE DEF old
<1>9. i = item => (i \in WornIn(old) <=> isEquipmentSlot(a)) /\ (i \in WornIn(now) <=> isEquipmentSlot(b))
  BY <1>1, <1>3, <1>6, <1>7, <1>8
<1>10. i = dest => (i \in WornIn(old) <=> isEquipmentSlot(b)) /\ (i \in WornIn(now) <=> isEquipmentSlot(a))
  BY <1>1, <1>4, <1>6, <1>7, <1>8
<1>11. i # item /\ i # dest => (i \in WornIn(old) <=> i \in WornIn(now))
  BY <1>5, <1>6, <1>7, <1>8
<1> HIDE DEF item, dest
<1>12. WornBit(now, i) = WornBit(old, i) + Said(i, item, dest, Equips(b) - Equips(a))
  BY <1>9, <1>10, <1>11 DEF WornBit, Said, Equips
<1> QED  BY <1>12 DEF item, dest, old

\* Nobody else publishes for the character of a request that holds its lock.
LEMMA NobodyPublishes ==
    ASSUME SingleNode, InventoryIInv, NEW p \in Proc, lockPc[p] = "holding", step[p] # "publish",
           NEW q \in Proc, step[q] = "publish"
    PROVE  req[q].char # req[p].char
  BY Alone, Working

\* What EventInv says of one character.
Publishing(c) == {p \in Proc : step[p] = "publish" /\ req[p].char = c}

ToldOf(c) ==
    c \notin silent =>
        /\ Publishing(c) = {} => \A i \in Item : told[c][i] = WornBit(rows[c], i)
        /\ \A p \in Publishing(c), i \in Item :
             told[c][i] = WornBit(Exchanged(rows[c], req[p].from, req[p].to), i)

\* EventInv is that of every character.
LEMMA EventInvOfEach ==
    ASSUME \A p \in Proc : step[p] = "publish" => req[p].char \in Character
    PROVE  EventInv <=> \A c \in Character : ToldOf(c)
  BY DEF EventInv, EventsAddUp, ToldOf, Publishing

\* A step that is not one of the requests publishing for a character, writes no row
\* of it and publishes nothing leaves it as it was.
LEMMA Untold ==
    ASSUME NEW p \in Proc, Only(p), NEW c \in Character, ToldOf(c),
           told'[c] = told[c], \A s \in EquipmentSlots : rows'[c][s] = rows[c][s],
           c \in silent => c \in silent',
           p \notin Publishing(c), p \notin Publishing(c)',
           rows'[c] = rows[c] \/ Publishing(c) = {}
    PROVE  ToldOf(c)'
<1>1. Publishing(c)' = Publishing(c)
  BY DEF Only, Publishing
<1>2. \A q \in Publishing(c) : req'[q] = req[q]
  BY DEF Only, Publishing
<1>3. \A i \in Item : WornBit(rows'[c], i) = WornBit(rows[c], i)
  BY WornMember DEF WornBit
<1> QED  BY <1>1, <1>2, <1>3 DEF ToldOf

\* A step that writes, reports and publishes nothing.
LEMMA QuietStep ==
    ASSUME NEW p \in Proc, Only(p), rows' = rows, told' = told, silent' = silent,
           step[p] # "publish", step'[p] # "publish", \A c \in Character : ToldOf(c)
    PROVE  \A c \in Character : ToldOf(c)'
<1> SUFFICES ASSUME NEW c \in Character PROVE ToldOf(c)'
  OBVIOUS
<1>1. p \notin Publishing(c) /\ p \notin Publishing(c)'
  BY DEF Publishing
<1> QED  BY <1>1, Untold

\* A request at another statement than the publishing holds its lock: none of its
\* character's moves waits to be published.
LEMMA NonePublishing ==
    ASSUME SingleNode, InventoryIInv, NEW p \in Proc, lockPc[p] = "holding", step[p] # "publish"
    PROVE  Publishing(req[p].char) = {}
  BY NobodyPublishes DEF Publishing

\* AddItem fills a bag slot: nothing that is worn changes.
LEMMA InsertQuiet ==
    ASSUME SingleNode, InventoryIInv, NEW p \in Proc, Only(p), Inserts(p), told' = told,
           silent' = silent, step'[p] # "publish", \A c \in Character : ToldOf(c)
    PROVE  \A c \in Character : ToldOf(c)'
<1> DEFINE d == req[p].char
<1>1. /\ d \in Character /\ req[p].to \in BagSlots /\ lockPc[p] = "holding" /\ step[p] = "insert"
      /\ rows' = [rows EXCEPT ![d][req[p].to] = req[p].item]
  BY DEF InventoryIInv, RequestInv, Inserts
<1>2. Publishing(d) = {}
  BY <1>1, NonePublishing
<1> SUFFICES ASSUME NEW c \in Character PROVE ToldOf(c)'
  OBVIOUS
<1>3. p \notin Publishing(c) /\ p \notin Publishing(c)'
  BY <1>1 DEF Publishing
<1>4. \A s \in EquipmentSlots : s # req[p].to /\ s \in Slots
  BY <1>1, SlotRanges DEF EquipmentSlots, BagSlots, MinBagSlot, WeaponSlot, Slots
<1> HIDE DEF d
<1>5. \A s \in EquipmentSlots : rows'[c][s] = rows[c][s]
  BY <1>1, <1>4 DEF InventoryIInv, TypeOK, RequestTypeOK
<1>6. c # d => rows'[c] = rows[c]
  BY <1>1 DEF InventoryIInv, TypeOK, RequestTypeOK
<1> QED  BY <1>2, <1>3, <1>5, <1>6, Untold

\* A committed move changes the inventory of its own character only.
LEMMA ExchangeElsewhere ==
    ASSUME InventoryIInv, NEW p \in Proc, Exchanges(p)
    PROVE  /\ req[p].char \in Character /\ req[p].from \in Slots /\ req[p].to \in Slots
           /\ lockPc[p] = "holding" /\ step[p] = "write"
           /\ \A c \in Character : c # req[p].char => rows'[c] = rows[c]
           /\ rows'[req[p].char] = Exchanged(rows[req[p].char], req[p].from, req[p].to)
           /\ rows[req[p].char] \in [Slots -> Item \cup {NoItem}]
<1>1. /\ req[p].char \in Character /\ req[p].from \in Slots /\ req[p].to \in Slots
      /\ lockPc[p] = "holding" /\ step[p] = "write"
  BY DEF InventoryIInv, RequestInv, Exchanges, Moving
<1> QED  BY <1>1 DEF InventoryIInv, TypeOK, RequestTypeOK, Exchanges

\* A move that is written and not published yet: the subscriber is one move behind.
LEMMA ExchangeUnreported ==
    ASSUME SingleNode, InventoryIInv, NEW p \in Proc, Only(p), Exchanges(p), told' = told,
           silent' = silent, req' = req, step'[p] = "publish", \A c \in Character : ToldOf(c)
    PROVE  \A c \in Character : ToldOf(c)'
<1> DEFINE from == req[p].from
           to == req[p].to
<1> PICK d \in Character : d = req[p].char
  BY ExchangeElsewhere
<1>1. /\ d \in Character /\ from \in Slots /\ to \in Slots
      /\ lockPc[p] = "holding" /\ step[p] = "write"
      /\ \A c \in Character : c # d => rows'[c] = rows[c]
      /\ rows'[d] = Exchanged(rows[d], from, to)
      /\ rows[d] \in [Slots -> Item \cup {NoItem}]
  BY ExchangeElsewhere
<1>2. Publishing(d) = {} /\ Publishing(d)' = {p}
  <2>1. Publishing(d) = {}
    BY <1>1, NonePublishing
  <2> QED  BY <2>1 DEF Publishing, Only
<1> HIDE DEF from, to
<1>3. ToldOf(d)'
  <2>1. ASSUME d \notin silent, NEW i \in Item
        PROVE  told'[d][i] = WornBit(Exchanged(rows'[d], from, to), i)
    <3>1. told[d][i] = WornBit(rows[d], i)
      BY <1>1, <1>2, <2>1 DEF ToldOf
    <3>2. Exchanged(rows'[d], from, to) = rows[d]
      BY <1>1, ExchangedTwice
    <3> QED  BY <3>1, <3>2
  <2> QED  BY <1>2, <2>1 DEF ToldOf, from, to
<1>4. ASSUME NEW c \in Character, c # d PROVE ToldOf(c)'
  <2>1. p \notin Publishing(c) /\ p \notin Publishing(c)'
    BY <1>4 DEF Publishing
  <2>2. rows'[c] = rows[c]
    BY <1>1, <1>4
  <2> QED  BY <2>1, <2>2, Untold
<1> QED  BY <1>3, <1>4

\* A move that is written and never published: nothing more is claimed of its character.
LEMMA ExchangeSilent ==
    ASSUME InventoryIInv, NEW p \in Proc, Only(p), Exchanges(p),
           told' = [told EXCEPT ![req[p].char] = [i \in Item |-> 0]],
           silent' = silent \cup {req[p].char}, step'[p] # "publish",
           \A c \in Character : ToldOf(c)
    PROVE  \A c \in Character : ToldOf(c)'
<1> PICK d \in Character : d = req[p].char
  BY ExchangeElsewhere
<1>1. /\ step[p] = "write"
      /\ \A c \in Character : c # d => rows'[c] = rows[c]
  BY ExchangeElsewhere
<1>2. ToldOf(d)'
  BY DEF ToldOf
<1>3. ASSUME NEW c \in Character, c # d PROVE ToldOf(c)'
  <2>1. p \notin Publishing(c) /\ p \notin Publishing(c)'
    BY <1>1 DEF Publishing
  <2>2. told'[c] = told[c]
    BY <1>3 DEF InventoryIInv, TypeOK, RequestTypeOK
  <2>3. rows'[c] = rows[c] /\ (c \in silent => c \in silent')
    BY <1>1, <1>3
  <2> QED  BY <2>1, <2>2, <2>3, Untold
<1> QED  BY <1>2, <1>3

\* Publishing a move brings the sum of the events up to date.
LEMMA PublishReports ==
    ASSUME SingleNode, OneNodeIInv, NEW p \in Proc, Only(p), PublishMove(p),
           \A c \in Character : ToldOf(c)
    PROVE  \A c \in Character : ToldOf(c)'
<1> PICK d \in Character : d = req[p].char
  BY DEF PublishMove, At, OneNodeIInv, InventoryIInv, RequestInv
<1> DEFINE from == req[p].from
           to == req[p].to
           item == req[p].item
           dest == req[p].dest
           gain == IF d \in silent THEN 0 ELSE Equips(to) - Equips(from)
<1>1. /\ step[p] = "publish" /\ lockPc[p] = "holding" /\ rows' = rows /\ req' = req
      /\ silent' = silent /\ Goto(p, "done")
      /\ told' = [told EXCEPT ![d] = [i \in Item |->
                   @[i] + (IF i = item THEN gain ELSE 0) - (IF i = dest THEN gain ELSE 0)]]
  BY DEF PublishMove, At
<1>2. /\ d \in Character /\ from \in Slots /\ to \in Slots /\ item \in Item
      /\ rows[d][to] = item /\ rows[d][from] = dest
  BY <1>1 DEF OneNodeIInv, ReadInv, InventoryIInv, RequestInv, Moving
<1>3. /\ rows[d] \in [Slots -> Item \cup {NoItem}] /\ told \in [Character -> [Item -> Int]]
      /\ \A s, t \in Slots : rows[d][s] # NoItem /\ rows[d][s] = rows[d][t] => s = t
  BY <1>2 DEF OneNodeIInv, InventoryIInv, TypeOK, RequestTypeOK, StoredInv
<1>4. p \in Publishing(d) /\ p \notin Publishing(d)' /\ \A c : c # d => p \notin Publishing(c)
  BY <1>1 DEF Publishing, Goto, OneNodeIInv, InventoryIInv, TypeOK, RequestTypeOK
<1>5. Publishing(d)' = {}
  <2>1. \A q \in Publishing(d) : q = p
    BY <1>1, Alone, Working DEF Publishing, OneNodeIInv
  <2>2. \A q \in Publishing(d)' : q # p => q \in Publishing(d)
    BY <1>1 DEF Publishing, Only
  <2> QED  BY <1>4, <2>1, <2>2
<1>6. ASSUME NEW c \in Character, c # d PROVE ToldOf(c)'
  <2>1. p \notin Publishing(c) /\ p \notin Publishing(c)'
    BY <1>1, <1>4, <1>6 DEF Publishing
  <2>2. told'[c] = told[c]
    BY <1>1, <1>3, <1>6
  <2>3. rows'[c] = rows[c] /\ (c \in silent => c \in silent')
    BY <1>1
  <2> QED  BY <2>1, <2>2, <2>3, Untold
<1>7. ASSUME d \notin silent, NEW i \in Item PROVE told'[d][i] = WornBit(rows[d], i)
  <2>1. told[d][i] = WornBit(Exchanged(rows[d], from, to), i)
    BY <1>2, <1>4, <1>7 DEF ToldOf
  <2> HIDE DEF from, to, item, dest
  <2>2. gain = Equips(to) - Equips(from)
    BY <1>7
  <2>3. rows[d][to] \in Item
    BY <1>2
  <2>4. WornBit(rows[d], i) = WornBit(Exchanged(rows[d], from, to), i)
                                + Said(i, rows[d][to], rows[d][from], Equips(to) - Equips(from))
    BY <1>2, <1>3, <2>3, EventsOfMove, SMTT(60)
  <2>5. WornBit(rows[d], i) = told[d][i] + Said(i, item, dest, gain)
    BY <1>2, <2>1, <2>2, <2>4
  <2>6. gain \in Int /\ told[d][i] \in Int
    BY <1>2, <1>3, <2>2 DEF Equips
  <2> HIDE DEF gain
  <2>7. told'[d][i] = told[d][i] + (IF i = item THEN gain ELSE 0) - (IF i = dest THEN gain ELSE 0)
    BY <1>1, <1>2, <1>3
  <2> QED  BY <2>5, <2>6, <2>7 DEF Said
<1>8. ToldOf(d)'
  BY <1>1, <1>5, <1>7 DEF ToldOf
<1> QED  BY <1>6, <1>8

\* On one node every step keeps the events in line with the equipment.
LEMMA EventStepInv ==
    ASSUME SingleNode, OneNodeIInv, [Next]_vars, \A c \in Character : ToldOf(c)
    PROVE  \A c \in Character : ToldOf(c)'
<1> USE DEF OneNodeIInv
<1>1. CASE UNCHANGED vars
  BY <1>1 DEF vars, requestVars, ToldOf, Publishing
<1>2. ASSUME NEW p \in Proc, NEW c \in Character, NEW item \in Item, CallAddItem(p, c, item)
      PROVE  \A d \in Character : ToldOf(d)'
  <2>1. /\ Only(p) /\ rows' = rows /\ told' = told /\ silent' = silent
        /\ step[p] # "publish" /\ step'[p] # "publish"
    BY <1>2, OneMoves DEF CallAddItem, Goto, InventoryIInv, TypeOK, RequestTypeOK
  <2> QED  BY <2>1, QuietStep
<1>3. ASSUME NEW p \in Proc, NEW c \in Character, NEW from \in Slots \cup {BadSlot},
             NEW to \in Slots \cup {BadSlot}, CallMoveItem(p, c, from, to)
      PROVE  \A d \in Character : ToldOf(d)'
  <2>1. /\ Only(p) /\ rows' = rows /\ told' = told /\ silent' = silent
        /\ step[p] # "publish" /\ step'[p] # "publish"
    BY <1>3, OneMoves DEF CallMoveItem, Goto, InventoryIInv, TypeOK, RequestTypeOK
  <2> QED  BY <2>1, QuietStep
<1>4. ASSUME NEW p \in Proc, Enter(p) \/ Leave(p)
      PROVE  \A d \in Character : ToldOf(d)'
  BY <1>4 DEF Enter, Leave, requestVars, ToldOf, Publishing
<1>5. ASSUME NEW p \in Proc, Return(p)
      PROVE  \A d \in Character : ToldOf(d)'
  <2>1. /\ Only(p) /\ rows' = rows /\ told' = told /\ silent' = silent
        /\ step[p] # "publish" /\ step'[p] # "publish"
    BY <1>5, OneMoves DEF Return, Goto, InventoryIInv, TypeOK, RequestTypeOK
  <2> QED  BY <2>1, QuietStep
<1>6. ASSUME NEW p \in Proc, Statement(p)
      PROVE  \A d \in Character : ToldOf(d)'
  <2>1. Only(p)
    BY <1>6, OneMoves DEF InventoryIInv
  <2>2. CASE PublishMove(p)
    BY <2>1, <2>2, PublishReports
  <2>3. CASE ListByCharacter(p) \/ FetchItem(p) \/ FetchDest(p) \/ DbError(p)
    <3>1. /\ rows' = rows /\ told' = told /\ silent' = silent
          /\ step[p] # "publish" /\ step'[p] # "publish"
      BY <2>3 DEF ListByCharacter, FetchItem, FetchDest, DbError, At, Goto, InventoryIInv, TypeOK,
                  RequestTypeOK
    <3> QED  BY <2>1, <3>1, QuietStep
  <2>4. CASE InsertItem(p)
    <3>1. /\ rows' = rows \/ Inserts(p)
          /\ told' = told /\ silent' = silent /\ step[p] # "publish" /\ step'[p] # "publish"
      BY <2>4 DEF InsertItem, Rejected, Inserts, At, Goto, InventoryIInv, TypeOK, RequestTypeOK
    <3> QED  BY <2>1, <3>1, QuietStep, InsertQuiet
  <2>5. CASE WriteMove(p)
    <3>1. CASE rows' = rows /\ Goto(p, "done")
      <4>1. told' = told /\ silent' = silent /\ step[p] # "publish" /\ step'[p] # "publish"
        BY <2>5, <3>1 DEF WriteMove, MoveRow, SwapRows, Rejected, At, Goto, InventoryIInv, TypeOK,
                          RequestTypeOK
      <4> QED  BY <2>1, <3>1, <4>1, QuietStep
    <3>2. CASE ~(rows' = rows /\ Goto(p, "done"))
      <4>1. /\ At(p, "write") /\ Goto(p, "publish") /\ UNCHANGED <<req, told, silent>>
            /\ rows' = [rows EXCEPT ![req[p].char] = Exchanged(@, req[p].from, req[p].to)]
        BY <2>5, <3>2 DEF WriteMove, MoveRow, SwapRows, Rejected
      <4>2. Exchanges(p) /\ told' = told /\ silent' = silent /\ req' = req
        BY <4>1 DEF Exchanges, At
      <4>3. step'[p] = "publish"
        BY <4>1 DEF Goto, InventoryIInv, TypeOK, RequestTypeOK
      <4> QED  BY <2>1, <4>2, <4>3, ExchangeUnreported
    <3> QED  BY <3>1, <3>2
  <2>6. CASE LostReply(p)
    <3>1. step[p] # "publish" /\ step'[p] # "publish"
      BY <2>6 DEF LostReply, At, Goto, InventoryIInv, TypeOK, RequestTypeOK
    <3>2. CASE At(p, "insert")
      <4>1. Inserts(p) /\ told' = told /\ silent' = silent
        BY <2>6, <3>2 DEF LostReply, At, Inserts
      <4> QED  BY <2>1, <3>1, <4>1, InsertQuiet
    <3>3. CASE At(p, "write")
      <4>1. /\ Exchanges(p)
            /\ told' = [told EXCEPT ![req[p].char] = [i \in Item |-> 0]]
            /\ silent' = silent \cup {req[p].char}
        BY <2>6, <3>3 DEF LostReply, At, Exchanges
      <4> QED  BY <2>1, <3>1, <4>1, ExchangeSilent
    <3> QED  BY <2>6, <3>2, <3>3 DEF LostReply
  <2> QED  BY <1>6, <2>2, <2>3, <2>4, <2>5, <2>6 DEF Statement
<1> QED  BY <1>1, <1>2, <1>3, <1>4, <1>5, <1>6 DEF Next

\* A request that publishes does so for a character.
LEMMA PublishersAtWork ==
    ASSUME InventoryIInv
    PROVE  \A p \in Proc : step[p] = "publish" => req[p].char \in Character
  BY DEF InventoryIInv, RequestInv

\* On one node the equip and unequip events published for a character add up to what
\* it wears, whatever statements fail, up to the move that is being published and
\* until a reply of the database is lost (service.go:208-222): what a subscriber can
\* rely on whose handlers run in any order (sdk/engine/bus/bus.go:107-117).
THEOREM EventsSum == ASSUME SingleNode PROVE Spec => []EventsAddUp
<1>1. Init => EventInv
  <2> SUFFICES ASSUME Init PROVE EventInv
    OBVIOUS
  <2>1. ASSUME NEW c \in Character, NEW i \in Item PROVE told[c][i] = WornBit(rows[c], i)
    <3>1. \A s \in EquipmentSlots : rows[c][s] = NoItem
      BY DEF Init, EmptyInventory, EquipmentSlots, Slots
    <3>2. i \notin WornIn(rows[c])
      BY <3>1, WornMember
    <3> QED  BY <3>2 DEF Init, WornBit
  <2> QED  BY <2>1 DEF Init, EventInv, EventsAddUp
<1>2. OneNodeIInv /\ OneNodeIInv' /\ EventInv /\ [Next]_vars => EventInv'
  <2> SUFFICES ASSUME OneNodeIInv, OneNodeIInv', EventInv, [Next]_vars PROVE EventInv'
    OBVIOUS
  <2>1. \A c \in Character : ToldOf(c)
    BY EventInvOfEach, PublishersAtWork DEF OneNodeIInv
  <2>2. \A c \in Character : ToldOf(c)'
    BY <2>1, EventStepInv
  <2> QED  BY <2>2, PublishersAtWork DEF EventInv, EventsAddUp, ToldOf, Publishing, OneNodeIInv,
              InventoryIInv, RequestInv
<1>3. EventInv => EventsAddUp
  BY DEF EventInv
<1> QED  BY <1>1, <1>2, <1>3, OneNodeInvariant, PTL DEF Spec

=============================================================================
