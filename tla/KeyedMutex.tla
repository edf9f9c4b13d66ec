----------------------------- MODULE KeyedMutex -----------------------------
(***************************************************************************)
(* The reference-counted lock table of the inventory service                *)
(* (backend/game/inventory/service.go:12-61).  lock(key) registers interest *)
(* in the entry of the key under k.mu, then blocks on the entry's own       *)
(* mutex; the function it returns unlocks that mutex first and only then    *)
(* drops the reference, again under k.mu, deleting the entry at zero.       *)
(*                                                                          *)
(* A section that runs under k.mu never blocks inside, so it is one step.   *)
(* Between the steps of one goroutine every other goroutine may run.        *)
(* A refMutex is named by its address: an address that neither the table    *)
(* nor a goroutine refers to is free, and &refMutex{} takes any free one.   *)
(***************************************************************************)
EXTENDS Integers, FiniteSets

CONSTANTS Proc,     \* goroutines
          Key,      \* lock keys (characters)
          Mutex,    \* addresses of refMutex values
          None      \* nil

ASSUME FiniteProcs == IsFiniteSet(Proc)
ASSUME NoneIsNoValue == None \notin Proc \cup Key \cup Mutex

VARIABLES
    locks,    \* k.locks: the refMutex of a key, or None when it has no entry
    refs,     \* refs[m]: the reference count stored in m
    holder,   \* holder[m]: the goroutine that has locked m.mu
    lockPc,   \* where a goroutine is in lock and in the unlock function
    lockKey,  \* the key it called lock with (captured by the unlock function)
    lockRef   \* the refMutex it registered with (captured likewise)

lockVars == <<locks, refs, holder, lockPc, lockKey, lockRef>>

LockInit ==
    /\ locks = [k \in Key |-> None]
    /\ refs = [m \in Mutex |-> 0]
    /\ holder = [m \in Mutex |-> None]
    /\ lockPc = [p \in Proc |-> "idle"]
    /\ lockKey = [p \in Proc |-> None]
    /\ lockRef = [p \in Proc |-> None]

Unreferenced(m) ==
    /\ \A k \in Key : locks[k] # m
    /\ \A p \in Proc : lockRef[p] # m

Entry(k, m) == IF locks[k] = None THEN Unreferenced(m) ELSE m = locks[k]

\* lock, first half: find or create the entry and count the reference.  A new
\* refMutex starts with refs = 0 and an unlocked mu.
Register(p, k) ==
    /\ lockPc[p] = "idle"
    /\ \E m \in Mutex :
        /\ Entry(k, m)
        /\ locks' = [locks EXCEPT ![k] = m]
        /\ refs' = [refs EXCEPT ![m] = IF locks[k] = None THEN 1 ELSE @ + 1]
        /\ holder' = [holder EXCEPT ![m] = IF locks[k] = None THEN None ELSE @]
        /\ lockRef' = [lockRef EXCEPT ![p] = m]
    /\ lockKey' = [lockKey EXCEPT ![p] = k]
    /\ lockPc' = [lockPc EXCEPT ![p] = "waiting"]

\* lock, second half: m.mu.Lock() returns.
Acquire(p) ==
    /\ lockPc[p] = "waiting"
    /\ holder[lockRef[p]] = None
    /\ holder' = [holder EXCEPT ![lockRef[p]] = p]
    /\ lockPc' = [lockPc EXCEPT ![p] = "holding"]
    /\ UNCHANGED <<locks, refs, lockKey, lockRef>>

\* The unlock function, first half: m.mu.Unlock().
Release(p) ==
    /\ lockPc[p] = "holding"
    /\ holder' = [holder EXCEPT ![lockRef[p]] = None]
    /\ lockPc' = [lockPc EXCEPT ![p] = "leaving"]
    /\ UNCHANGED <<locks, refs, lockKey, lockRef>>

Left(p) ==
    /\ lockPc' = [lockPc EXCEPT ![p] = "idle"]
    /\ lockKey' = [lockKey EXCEPT ![p] = None]
    /\ lockRef' = [lockRef EXCEPT ![p] = None]
    /\ UNCHANGED holder

Mutant_Deregister_AlwaysDeletes(p) ==
    /\ lockPc[p] = "leaving"
    /\ refs' = [refs EXCEPT ![lockRef[p]] = @ - 1]
    /\ locks' = [locks EXCEPT ![lockKey[p]] = None]
    /\ Left(p)

Mutant_Deregister_NeverDeletes(p) ==
    /\ lockPc[p] = "leaving"
    /\ refs' = [refs EXCEPT ![lockRef[p]] = @ - 1]
    /\ UNCHANGED locks
    /\ Left(p)

Mutant_Deregister_CountsTwice(p) ==
    /\ lockPc[p] = "leaving"
    /\ refs' = [refs EXCEPT ![lockRef[p]] = @ - 2]
    /\ locks' = [locks EXCEPT ![lockKey[p]] = IF refs[lockRef[p]] <= 2 THEN None ELSE @]
    /\ Left(p)

\* The unlock function, second half: drop the reference, delete at zero.
Deregister(p) ==
    /\ lockPc[p] = "leaving"
    /\ refs' = [refs EXCEPT ![lockRef[p]] = @ - 1]
    /\ locks' = [locks EXCEPT ![lockKey[p]] = IF refs[lockRef[p]] = 1 THEN None ELSE @]
    /\ Left(p)

LockNext ==
    \E p \in Proc :
        \/ \E k \in Key : Register(p, k)
        \/ Acquire(p)
        \/ Release(p)
        \/ Deregister(p)

\* sync.Mutex hands a mutex to a goroutine that has waited for 1 ms before any
\* newcomer, so a waiter that finds it free again and again gets it: strong
\* fairness.  Critical sections are finite, and k.mu is always released.
LockFairness ==
    \A p \in Proc :
        SF_lockVars(Acquire(p)) /\ WF_lockVars(Release(p)) /\ WF_lockVars(Deregister(p))

LockSpec == LockInit /\ [][LockNext]_lockVars

-----------------------------------------------------------------------------

Referencing(m) == {p \in Proc : lockRef[p] = m}

LockTypeOK ==
    /\ locks \in [Key -> Mutex \cup {None}]
    /\ refs \in [Mutex -> Nat]
    /\ holder \in [Mutex -> Proc \cup {None}]
    /\ lockPc \in [Proc -> {"idle", "waiting", "holding", "leaving"}]
    /\ lockKey \in [Proc -> Key \cup {None}]
    /\ lockRef \in [Proc -> Mutex \cup {None}]

\* Two goroutines inside the critical section of one key are one goroutine: the
\* entry of a key is never replaced while somebody holds or awaits the old one
\* (service.go:37-40).
MutualExclusion ==
    \A p, q \in Proc :
        lockPc[p] = "holding" /\ lockPc[q] = "holding" /\ lockKey[p] = lockKey[q] => p = q

\* The table has an entry for exactly the keys some goroutine holds, awaits or
\* is just leaving, so it does not grow with the characters ever seen
\* (service.go:18-20).
EvictedWhenIdle ==
    \A k \in Key : locks[k] # None <=> \E p \in Proc : lockKey[p] = k

\* The table implements a plain lock per key: a goroutine that has unlocked and
\* has not dropped its reference yet counts as outside.
WantOf(p) == IF lockPc[p] = "waiting" THEN lockKey[p] ELSE None

OwnerOf(k) ==
    IF \E p \in Proc : lockPc[p] = "holding" /\ lockKey[p] = k
    THEN CHOOSE p \in Proc : lockPc[p] = "holding" /\ lockKey[p] = k
    ELSE None

PKL == INSTANCE PerKeyLock WITH
    want <- [p \in Proc |-> WantOf(p)],
    owner <- [k \in Key |-> OwnerOf(k)]

\* keyedMutex implements PerKeyLock, with its fairness.
ImplementsPerKeyLock == PKL!FairSpec

\* What a goroutine inside lock or unlock knows: the table still maps its key to
\* the refMutex it registered with.
EntryStable ==
    \A p \in Proc :
        IF lockPc[p] = "idle"
        THEN lockKey[p] = None /\ lockRef[p] = None
        ELSE lockKey[p] \in Key /\ lockRef[p] \in Mutex /\ locks[lockKey[p]] = lockRef[p]

NoSharedEntry ==
    \A j, k \in Key : locks[j] # None /\ locks[j] = locks[k] => j = k

RefsExact == \A m \in Mutex : refs[m] = Cardinality(Referencing(m))

HolderExact ==
    \A m \in Mutex, p \in Proc :
        holder[m] = p <=> lockPc[p] = "holding" /\ lockRef[p] = m

\* The inductive invariant behind MutualExclusion: reference counts are exact,
\* so an entry is deleted only when nobody can still lock or unlock it
\* (service.go:26-27 and 54-59).
LockIInv ==
    LockTypeOK /\ EntryStable /\ NoSharedEntry /\ EvictedWhenIdle /\ RefsExact /\ HolderExact
=============================================================================
