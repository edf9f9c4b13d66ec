---------------------------- MODULE Outbox_proofs ----------------------------
(* Proofs about the outbox, for any numbers of workers, nodes, characters,    *)
(* events and crashes and any batch size.                                     *)
EXTENDS Outbox, FiniteSetTheorems, TLAPS

\* Every set of row ids is finite.
LEMMA RowsFinite ==
    ASSUME NEW S, S \subseteq EventId
    PROVE  IsFiniteSet(S)
<1>1. IsFiniteSet(1 .. MaxEvents)
  BY EventBounds, FS_Interval
<1> QED  BY <1>1, FS_Subset DEF EventId

\* The empty database satisfies the inductive invariant.
LEMMA InitIInv == Init => OutboxIInv
<1> SUFFICES ASSUME Init PROVE OutboxIInv
  OBVIOUS
<1> USE NoneIsNobody, EventBounds DEF Init
<1>1. TypeOK
  BY DEF TypeOK, EventId, EventType
<1>2. TxInv /\ CommitOrder /\ TablesInv /\ NoEventDropped /\ PublishedInOrder
  BY DEF TxInv, CommitOrder, TablesInv, NoEventDropped, PublishedInOrder
<1>3. RelayInv
  BY DEF RelayInv, IsHead
<1>4. StateAndEventsAgree
  <2>1. \A c \in Character : RewardRows(c) = {}
    BY DEF RewardRows
  <2> QED  BY <2>1, FS_EmptySet DEF StateAndEventsAgree
<1> QED  BY <1>1, <1>2, <1>3, <1>4 DEF OutboxIInv

\* Taking the row lock keeps the invariant.
LEMMA LockCharacterIInv ==
    ASSUME NEW w \in Worker, NEW c \in Character, OutboxIInv, LockCharacter(w, c)
    PROVE  OutboxIInv'
<1> USE NoneIsNobody DEF LockCharacter, tableVars, relayVars, busVars, OutboxIInv
<1>1. TypeOK'
  BY DEF TypeOK
<1>2. TxInv' /\ CommitOrder'
  BY DEF TypeOK, TxInv, CommitOrder
<1>3. TablesInv' /\ NoEventDropped' /\ PublishedInOrder'
  BY DEF TablesInv, NoEventDropped, PublishedInOrder, CanPublish, Undispatched
<1>4. RelayInv'
  BY DEF RelayInv, IsHead, CanPublish
<1>5. StateAndEventsAgree'
  BY DEF StateAndEventsAgree, RewardRows
<1> QED  BY <1>1, <1>2, <1>3, <1>4, <1>5

\* A worker inserts a row: the row is its own and newer than all others.
LEMMA AppendIInv ==
    ASSUME NEW w \in Worker, NEW type \in EventType, NEW pc \in {"rewarded", "leveled"},
           OutboxIInv, outboxAppend(w, type), txPc[w] # "idle",
           \/ txPc[w] = "locked" /\ type = "RewardsGranted"
           \/ txPc[w] = "rewarded" /\ type = "CharacterLeveledUp",
           txPc' = [txPc EXCEPT ![w] = pc],
           UNCHANGED <<rewards, eventLog, outbox, marked, rowLock, txChar, relayVars, busVars, crashes>>
    PROVE  OutboxIInv'
<1> USE NoneIsNobody, EventBounds DEF outboxAppend, relayVars, busVars, OutboxIInv, EventId
<1>1. /\ nextId \in EventId
      /\ \A e \in EventId : e # nextId => charOf'[e] = charOf[e] /\ typeOf'[e] = typeOf[e]
      /\ charOf'[nextId] = txChar[w] /\ typeOf'[nextId] = type
      /\ txChar[w] \in Character
  BY DEF TypeOK, TxInv
<1>2. \A e \in eventLog : e \in EventId /\ charOf'[e] = charOf[e] /\ typeOf'[e] = typeOf[e] /\ e < nextId
  BY <1>1 DEF TypeOK, TablesInv
<1>3. TypeOK'
  BY <1>1 DEF TypeOK
<1>4. TxInv'
  <2> SUFFICES ASSUME NEW v \in Worker
               PROVE  /\ IF txPc'[v] = "idle" THEN txChar'[v] = None
                         ELSE txChar'[v] \in Character /\ rowLock'[txChar'[v]] = v
                      /\ txPc'[v] \in {"idle", "locked"} => txRows'[v] = {}
                      /\ \A e \in txRows'[v] : e < nextId' /\ e \notin eventLog' /\ charOf'[e] = txChar'[v]
                      /\ txPc'[v] \in {"rewarded", "leveled"} =>
                           \E r \in txRows'[v] : \A e \in txRows'[v] : typeOf'[e] = "RewardsGranted" <=> e = r
    BY DEF TxInv
  <2>1. \A e \in txRows[v] : e \in EventId /\ e < nextId /\ charOf'[e] = charOf[e] /\ typeOf'[e] = typeOf[e]
    BY <1>1 DEF TypeOK, TxInv
  <2>2. CASE v # w
    <3>1. txRows'[v] = txRows[v] /\ txPc'[v] = txPc[v]
      BY <2>2 DEF TypeOK
    <3>2. \A e \in txRows[v] : e < nextId' /\ e \notin eventLog' /\ charOf'[e] = txChar'[v]
      BY <2>1 DEF TypeOK, TxInv
    <3> QED  BY <2>1, <3>1, <3>2 DEF TxInv
  <2>3. CASE v = w
    <3>1. txRows'[v] = txRows[v] \cup {nextId} /\ txPc'[v] = pc
      BY <2>3 DEF TypeOK
    <3>2. \A e \in txRows'[v] : e < nextId' /\ e \notin eventLog' /\ charOf'[e] = txChar'[v]
      BY <1>1, <1>2, <2>1, <2>3, <3>1 DEF TypeOK, TxInv
    <3>3. \E r \in txRows'[v] : \A e \in txRows'[v] : typeOf'[e] = "RewardsGranted" <=> e = r
      <4>1. CASE txPc[w] = "locked"
        BY <1>1, <2>3, <3>1, <4>1 DEF TxInv
      <4>2. CASE txPc[w] = "rewarded"
        <5>1. PICK r \in txRows[w] : \A e \in txRows[w] : typeOf[e] = "RewardsGranted" <=> e = r
          BY <4>2 DEF TxInv
        <5>2. \A e \in txRows[w] : e # nextId
          BY DEF TypeOK, TxInv
        <5> QED  BY <1>1, <2>1, <2>3, <3>1, <4>2, <5>1, <5>2
      <4> QED  BY <4>1, <4>2
    <3> QED  BY <2>3, <3>1, <3>2, <3>3 DEF TxInv
  <2> QED  BY <2>2, <2>3
<1>5. CommitOrder'
  BY <1>1, <1>2 DEF CommitOrder, TypeOK
<1>6. TablesInv' /\ NoEventDropped' /\ PublishedInOrder'
  BY <1>1, <1>2 DEF TypeOK, TablesInv, NoEventDropped, PublishedInOrder, CanPublish, Undispatched
<1>7. RelayInv'
  <2>1. \A n \in Node, e \in EventId : IsHead(n, e) => e \in eventLog
    BY DEF IsHead, RelayInv
  <2> QED  BY <1>2, <2>1 DEF TypeOK, TablesInv, RelayInv, IsHead, CanPublish
<1>8. StateAndEventsAgree'
  <2>1. \A c \in Character : RewardRows(c)' = RewardRows(c)
    BY <1>2 DEF RewardRows
  <2> QED  BY <2>1 DEF StateAndEventsAgree
<1> QED  BY <1>3, <1>4, <1>5, <1>6, <1>7, <1>8

\* Ending transactions without making their rows visible keeps the invariant of
\* the others.
LEMMA EndTxInv ==
    ASSUME NEW W \in SUBSET Worker, OutboxIInv, EndTx(W), UNCHANGED tableVars
    PROVE  /\ txPc' \in [Worker -> {"idle", "locked", "rewarded", "leveled"}]
           /\ txChar' \in [Worker -> Character \cup {None}]
           /\ txRows' \in [Worker -> SUBSET EventId]
           /\ rowLock' \in [Character -> Worker \cup {None}]
           /\ TxInv' /\ CommitOrder'
<1> USE NoneIsNobody DEF EndTx, tableVars, OutboxIInv
<1>1. /\ txPc' \in [Worker -> {"idle", "locked", "rewarded", "leveled"}]
      /\ txChar' \in [Worker -> Character \cup {None}]
      /\ txRows' \in [Worker -> SUBSET EventId]
      /\ rowLock' \in [Character -> Worker \cup {None}]
  BY DEF TypeOK
<1>2. TxInv'
  BY DEF TypeOK, TxInv
<1>3. CommitOrder'
  BY DEF TypeOK, CommitOrder
<1> QED  BY <1>1, <1>2, <1>3

\* Rolling back keeps the invariant.
LEMMA RollbackIInv ==
    ASSUME NEW w \in Worker, OutboxIInv, Rollback(w)
    PROVE  OutboxIInv'
<1>1. EndTx({w}) /\ UNCHANGED <<tableVars, marked, relayVars, busVars, crashes>> /\ {w} \in SUBSET Worker
  BY DEF Rollback
<1>2. /\ TxInv' /\ CommitOrder'
      /\ txPc' \in [Worker -> {"idle", "locked", "rewarded", "leveled"}]
      /\ txChar' \in [Worker -> Character \cup {None}]
      /\ txRows' \in [Worker -> SUBSET EventId]
      /\ rowLock' \in [Character -> Worker \cup {None}]
  BY <1>1, EndTxInv
<1> USE <1>1 DEF tableVars, relayVars, busVars, OutboxIInv
<1>3. TypeOK'
  BY <1>2 DEF TypeOK
<1>4. TablesInv' /\ NoEventDropped' /\ PublishedInOrder'
  BY DEF TablesInv, NoEventDropped, PublishedInOrder, CanPublish, Undispatched
<1>5. RelayInv'
  BY DEF RelayInv, IsHead, CanPublish
<1>6. StateAndEventsAgree'
  BY DEF StateAndEventsAgree, RewardRows
<1> QED  BY <1>2, <1>3, <1>4, <1>5, <1>6

\* Committing keeps the invariant: the new rows come after every committed row of
\* their character and bring exactly one RewardsGranted.
LEMMA CommitIInv ==
    ASSUME NEW w \in Worker, OutboxIInv, Commit(w)
    PROVE  OutboxIInv'
<1> DEFINE R == txRows[w]
<1>0. PICK c \in Character : c = txChar[w]
  BY DEF Commit, OutboxIInv, TxInv
<1>1. /\ rewards' = [rewards EXCEPT ![c] = @ + 1]
      /\ eventLog' = eventLog \cup R
      /\ outbox' = outbox \cup R
      /\ EndTx({w})
      /\ UNCHANGED <<nextId, charOf, typeOf, marked, relayVars, busVars, crashes>>
      /\ txPc[w] \in {"rewarded", "leveled"}
  BY <1>0 DEF Commit
<1>2. /\ rowLock[c] = w
      /\ R \subseteq EventId
      /\ \A e \in R : e < nextId /\ e \notin eventLog /\ charOf[e] = c
  BY <1>0, <1>1 DEF OutboxIInv, TypeOK, TxInv
<1>3. PICK r \in R : \A e \in R : typeOf[e] = "RewardsGranted" <=> e = r
  BY <1>1 DEF OutboxIInv, TxInv
<1>4. \A e \in R, f \in eventLog : charOf[f] = c => f < e
  BY <1>0 DEF OutboxIInv, CommitOrder
<1>5. \A v \in Worker : v # w => \A e \in txRows[v] : charOf[e] # c
  BY <1>2, NoneIsNobody DEF OutboxIInv, TypeOK, TxInv
<1>6. TypeOK'
  BY <1>1, <1>2, NoneIsNobody DEF OutboxIInv, TypeOK, EndTx, relayVars, busVars
<1>7. TxInv'
  BY <1>1, <1>2, <1>5, NoneIsNobody DEF OutboxIInv, TypeOK, EndTx, TxInv
<1>8. CommitOrder'
  BY <1>1, <1>2, <1>5, NoneIsNobody DEF OutboxIInv, TypeOK, EndTx, TxInv, CommitOrder
<1>9. TablesInv'
  BY <1>1, <1>2 DEF OutboxIInv, TablesInv, busVars
<1>10. NoEventDropped'
  BY <1>1, <1>2 DEF OutboxIInv, TablesInv, NoEventDropped, CanPublish, Undispatched, busVars
<1>11. RelayInv'
  BY <1>1, <1>2, <1>4 DEF OutboxIInv, TypeOK, EventId, RelayInv, IsHead, CanPublish, relayVars, busVars
<1>12. PublishedInOrder'
  BY <1>1, <1>2, <1>4 DEF OutboxIInv, TypeOK, EventId, TablesInv, PublishedInOrder, CanPublish, busVars
<1>13. StateAndEventsAgree'
  <2>1. RewardRows(c)' = RewardRows(c) \cup {r} /\ r \notin RewardRows(c)
    BY <1>1, <1>2, <1>3 DEF RewardRows
  <2>2. IsFiniteSet(RewardRows(c))
    BY RowsFinite DEF RewardRows, OutboxIInv, TypeOK
  <2>3. Cardinality(RewardRows(c)') = Cardinality(RewardRows(c)) + 1
    BY <2>1, <2>2, FS_AddElement
  <2>4. \A d \in Character : d # c => RewardRows(d)' = RewardRows(d)
    BY <1>1, <1>2 DEF RewardRows
  <2>5. \A d \in Character : rewards'[d] = Cardinality(RewardRows(d)')
    BY <1>1, <1>2, <2>3, <2>4 DEF OutboxIInv, TypeOK, StateAndEventsAgree
  <2> QED  BY <1>1, <2>5 DEF OutboxIInv, StateAndEventsAgree, busVars
<1> QED  BY <1>6, <1>7, <1>8, <1>9, <1>10, <1>11, <1>12, <1>13 DEF OutboxIInv

\* A step that leaves the tables and the transactions alone keeps what they say.
LEMMA TablesUntouched ==
    ASSUME OutboxIInv, UNCHANGED <<tableVars, txVars>>
    PROVE  TxInv' /\ CommitOrder' /\ \A c \in Character : rewards'[c] = Cardinality(RewardRows(c)')
BY DEF OutboxIInv, tableVars, txVars, TxInv, CommitOrder, StateAndEventsAgree, RewardRows

\* Reading a batch keeps the invariant: a scan that returns a row returns every
\* unmarked row before it.
LEMMA ScanIInv ==
    ASSUME NEW n \in Node, OutboxIInv, Scan(n)
    PROVE  OutboxIInv'
<1>1. PICK B \in SUBSET EventId : FirstRows(Undispatched, B) /\ batch' = [batch EXCEPT ![n] = B]
  BY DEF Scan
<1>2. /\ relayPc' = [relayPc EXCEPT ![n] = "publish"]
      /\ UNCHANGED <<tableVars, marked, txVars, busVars, crashes>>
  BY DEF Scan
<1>3. TxInv' /\ CommitOrder' /\ \A c \in Character : rewards'[c] = Cardinality(RewardRows(c)')
  BY <1>2, TablesUntouched
<1>4. TypeOK'
  BY <1>1, <1>2 DEF OutboxIInv, TypeOK, tableVars, txVars, busVars
<1>5. TablesInv' /\ NoEventDropped' /\ PublishedInOrder' /\ StateAndEventsAgree'
  BY <1>2, <1>3 DEF OutboxIInv, TablesInv, NoEventDropped, PublishedInOrder, StateAndEventsAgree,
                    CanPublish, Undispatched, tableVars, busVars
<1>6. B \subseteq eventLog
  BY <1>1 DEF OutboxIInv, TablesInv, FirstRows, Undispatched
<1>7. \A f \in B, e \in eventLog :
        e < f /\ charOf[e] = charOf[f] /\ CanPublish(e) => e \in published \cup B
  BY <1>1 DEF OutboxIInv, TypeOK, EventId, NoEventDropped, FirstRows, Undispatched
<1>8. RelayInv'
  BY <1>1, <1>2, <1>6, <1>7 DEF OutboxIInv, TypeOK, RelayInv, IsHead, CanPublish, tableVars, busVars
<1> QED  BY <1>3, <1>4, <1>5, <1>8 DEF OutboxIInv

\* Publishing the first row of a batch keeps the invariant, per-character order
\* included.
LEMMA PublishRowIInv ==
    ASSUME NEW n \in Node, NEW e \in EventId, OutboxIInv, PublishRow(n, e)
    PROVE  OutboxIInv'
<1>1. /\ IsHead(n, e) /\ e \in eventLog
      /\ relayPc' = [relayPc EXCEPT ![n] = "mark"]
      /\ published \subseteq published' /\ published' \subseteq published \cup {e}
      /\ CanPublish(e) => e \in published'
      /\ UNCHANGED <<tableVars, marked, txVars, batch, handled, crashes>>
  BY DEF PublishRow, OutboxIInv, RelayInv, IsHead, CanPublish
<1>2. TxInv' /\ CommitOrder' /\ \A c \in Character : rewards'[c] = Cardinality(RewardRows(c)')
  BY <1>1, TablesUntouched
<1>3. TypeOK'
  BY <1>1 DEF OutboxIInv, TypeOK, tableVars, txVars, PublishRow
<1>4. TablesInv' /\ NoEventDropped' /\ StateAndEventsAgree'
  BY <1>1, <1>2 DEF OutboxIInv, TablesInv, NoEventDropped, StateAndEventsAgree,
                    CanPublish, Undispatched, tableVars
<1>5. PublishedInOrder'
  <2>1. \A f \in eventLog : f < e /\ charOf[f] = charOf[e] /\ CanPublish(f) => f \in published
    BY <1>1 DEF OutboxIInv, TypeOK, EventId, RelayInv, IsHead
  <2> QED  BY <1>1, <2>1 DEF OutboxIInv, PublishedInOrder, CanPublish, tableVars
<1>6. RelayInv'
  <2>1. \A f \in EventId : IsHead(n, f) => f = e
    BY <1>1 DEF IsHead, EventId
  <2>2. \A m \in Node, f \in EventId : IsHead(m, f)' <=> IsHead(m, f)
    BY <1>1 DEF IsHead
  <2> QED  BY <1>1, <2>1, <2>2 DEF OutboxIInv, TypeOK, RelayInv, CanPublish, tableVars
<1> QED  BY <1>2, <1>3, <1>4, <1>5, <1>6 DEF OutboxIInv

\* Marking the row just published keeps the invariant.
LEMMA MarkRowIInv ==
    ASSUME NEW n \in Node, NEW e \in EventId, OutboxIInv, MarkRow(n, e)
    PROVE  OutboxIInv'
<1>1. /\ IsHead(n, e) /\ e \in batch[n] /\ e \in eventLog
      /\ CanPublish(e) => e \in published
      /\ marked' = marked \cup (outbox \cap {e})
      /\ batch' = [batch EXCEPT ![n] = @ \ {e}]
      /\ relayPc' = [relayPc EXCEPT ![n] = IF batch[n] = {e} THEN "idle" ELSE "publish"]
      /\ UNCHANGED <<tableVars, txVars, busVars, crashes>>
  BY DEF MarkRow, OutboxIInv, RelayInv, IsHead
<1>2. TxInv' /\ CommitOrder' /\ \A c \in Character : rewards'[c] = Cardinality(RewardRows(c)')
  BY <1>1, TablesUntouched
<1>3. TypeOK'
  BY <1>1 DEF OutboxIInv, TypeOK, tableVars, txVars, busVars
<1>4. TablesInv' /\ NoEventDropped' /\ StateAndEventsAgree' /\ PublishedInOrder'
  BY <1>1, <1>2 DEF OutboxIInv, TablesInv, NoEventDropped, StateAndEventsAgree, PublishedInOrder,
                    CanPublish, Undispatched, tableVars, busVars
<1>5. RelayInv'
  BY <1>1 DEF OutboxIInv, TypeOK, RelayInv, IsHead, CanPublish, tableVars, busVars
<1> QED  BY <1>2, <1>3, <1>4, <1>5 DEF OutboxIInv

\* Giving a batch up keeps the invariant.
LEMMA MarkErrorIInv ==
    ASSUME NEW n \in Node, OutboxIInv, MarkError(n)
    PROVE  OutboxIInv'
<1>1. /\ batch' = [batch EXCEPT ![n] = {}]
      /\ relayPc' = [relayPc EXCEPT ![n] = "idle"]
      /\ UNCHANGED <<tableVars, marked, txVars, busVars, crashes>>
  BY DEF MarkError
<1>2. TxInv' /\ CommitOrder' /\ \A c \in Character : rewards'[c] = Cardinality(RewardRows(c)')
  BY <1>1, TablesUntouched
<1>3. TypeOK'
  BY <1>1 DEF OutboxIInv, TypeOK, tableVars, txVars, busVars
<1>4. TablesInv' /\ NoEventDropped' /\ StateAndEventsAgree' /\ PublishedInOrder'
  BY <1>1, <1>2 DEF OutboxIInv, TablesInv, NoEventDropped, StateAndEventsAgree, PublishedInOrder,
                    CanPublish, Undispatched, tableVars, busVars
<1>5. RelayInv'
  BY <1>1 DEF OutboxIInv, TypeOK, RelayInv, IsHead, CanPublish, tableVars, busVars
<1> QED  BY <1>2, <1>3, <1>4, <1>5 DEF OutboxIInv

\* Pruning keeps the invariant: a deleted row was marked, hence published.
LEMMA PruneIInv ==
    ASSUME NEW e \in EventId, OutboxIInv, Prune(e)
    PROVE  OutboxIInv'
<1>1. /\ e \in marked
      /\ outbox' = outbox \ {e} /\ marked' = marked \ {e}
      /\ UNCHANGED <<nextId, charOf, typeOf, rewards, eventLog, txVars, relayVars, busVars, crashes>>
  BY DEF Prune
<1>2. TxInv' /\ CommitOrder'
  BY <1>1 DEF OutboxIInv, TxInv, CommitOrder, txVars
<1>3. TypeOK'
  BY <1>1 DEF OutboxIInv, TypeOK, txVars, relayVars, busVars
<1>4. TablesInv' /\ NoEventDropped' /\ PublishedInOrder'
  BY <1>1 DEF OutboxIInv, TablesInv, RelayInv, NoEventDropped, PublishedInOrder,
              CanPublish, Undispatched, busVars
<1>5. StateAndEventsAgree'
  BY <1>1 DEF OutboxIInv, StateAndEventsAgree, RewardRows, busVars
<1>6. RelayInv'
  BY <1>1 DEF OutboxIInv, RelayInv, IsHead, CanPublish, relayVars, busVars
<1> QED  BY <1>2, <1>3, <1>4, <1>5, <1>6 DEF OutboxIInv

\* Running a handler keeps the invariant.
LEMMA HandleIInv ==
    ASSUME NEW n \in Node, NEW e \in EventId, OutboxIInv, Handle(n, e)
    PROVE  OutboxIInv'
<1>1. UNCHANGED <<tableVars, marked, txVars, relayVars, published, crashes>>
  BY DEF Handle
<1>2. TxInv' /\ CommitOrder' /\ \A c \in Character : rewards'[c] = Cardinality(RewardRows(c)')
  BY <1>1, TablesUntouched
<1>3. TypeOK'
  BY <1>1 DEF OutboxIInv, TypeOK, tableVars, txVars, relayVars, Handle
<1>4. TablesInv' /\ NoEventDropped' /\ StateAndEventsAgree' /\ PublishedInOrder'
  BY <1>1, <1>2 DEF OutboxIInv, TablesInv, NoEventDropped, StateAndEventsAgree, PublishedInOrder,
                    CanPublish, Undispatched, tableVars
<1>5. RelayInv'
  BY <1>1 DEF OutboxIInv, RelayInv, IsHead, CanPublish, tableVars, relayVars
<1> QED  BY <1>2, <1>3, <1>4, <1>5 DEF OutboxIInv

\* A crash keeps the invariant: what is lost is no part of it.
LEMMA CrashIInv ==
    ASSUME NEW n \in Node, OutboxIInv, Crash(n)
    PROVE  OutboxIInv'
<1>1. /\ crashes < MaxCrashes /\ crashes' = crashes + 1
      /\ EndTx({w \in Worker : NodeOf[w] = n})
      /\ relayPc' = [relayPc EXCEPT ![n] = "idle"]
      /\ batch' = [batch EXCEPT ![n] = {}]
      /\ running' = [running EXCEPT ![n] = {}]
      /\ UNCHANGED <<tableVars, marked, published, handled>>
  BY DEF Crash
<1>2. {w \in Worker : NodeOf[w] = n} \in SUBSET Worker
  OBVIOUS
<1>3. /\ TxInv' /\ CommitOrder'
      /\ txPc' \in [Worker -> {"idle", "locked", "rewarded", "leveled"}]
      /\ txChar' \in [Worker -> Character \cup {None}]
      /\ txRows' \in [Worker -> SUBSET EventId]
      /\ rowLock' \in [Character -> Worker \cup {None}]
  BY <1>1, <1>2, EndTxInv
<1>4. TypeOK'
  BY <1>1, <1>3, EventBounds DEF OutboxIInv, TypeOK, tableVars
<1>5. TablesInv' /\ NoEventDropped' /\ PublishedInOrder'
  BY <1>1 DEF OutboxIInv, TablesInv, NoEventDropped, PublishedInOrder, CanPublish, Undispatched, tableVars
<1>6. StateAndEventsAgree'
  BY <1>1 DEF OutboxIInv, StateAndEventsAgree, RewardRows, tableVars
<1>7. RelayInv'
  BY <1>1 DEF OutboxIInv, TypeOK, RelayInv, IsHead, CanPublish, tableVars
<1> QED  BY <1>3, <1>4, <1>5, <1>6, <1>7 DEF OutboxIInv

\* Every step of the system keeps the inductive invariant.
LEMMA StepIInv == OutboxIInv /\ [Next]_vars => OutboxIInv'
<1> SUFFICES ASSUME OutboxIInv, [Next]_vars PROVE OutboxIInv'
  OBVIOUS
<1>1. ASSUME NEW w \in Worker, TxNext(w) PROVE OutboxIInv'
  <2>1. ASSUME AppendRewarded(w) PROVE OutboxIInv'
    BY <2>1, AppendIInv DEF AppendRewarded, EventType
  <2>2. ASSUME AppendLeveled(w) PROVE OutboxIInv'
    BY <2>2, AppendIInv DEF AppendLeveled, EventType
  <2> QED  BY <1>1, <2>1, <2>2, LockCharacterIInv, CommitIInv, RollbackIInv DEF TxNext
<1>2. ASSUME NEW n \in Node, RelayNext(n) PROVE OutboxIInv'
  BY <1>2, ScanIInv, MarkErrorIInv, PublishRowIInv, MarkRowIInv DEF RelayNext
<1>3. CASE UNCHANGED vars
  <2>1. UNCHANGED <<tableVars, txVars, marked, relayVars, busVars, crashes>>
    BY <1>3 DEF vars
  <2>2. TxInv' /\ CommitOrder' /\ \A c \in Character : rewards'[c] = Cardinality(RewardRows(c)')
    BY <2>1, TablesUntouched
  <2>3. TypeOK'
    BY <2>1 DEF OutboxIInv, TypeOK, tableVars, txVars, relayVars, busVars
  <2>4. TablesInv' /\ NoEventDropped' /\ StateAndEventsAgree' /\ PublishedInOrder'
    BY <2>1, <2>2 DEF OutboxIInv, TablesInv, NoEventDropped, StateAndEventsAgree, PublishedInOrder,
                      CanPublish, Undispatched, tableVars, busVars
  <2>5. RelayInv'
    BY <2>1 DEF OutboxIInv, RelayInv, IsHead, CanPublish, tableVars, relayVars, busVars
  <2> QED  BY <2>2, <2>3, <2>4, <2>5 DEF OutboxIInv
<1> QED  BY <1>1, <1>2, <1>3, CrashIInv, HandleIInv, PruneIInv DEF Next

\* The inductive invariant holds in every reachable state.
THEOREM OutboxInvariant == Spec => []OutboxIInv
<1> QED  BY InitIInv, StepIInv, PTL DEF Spec

\* No committed event is dropped before a relay has published it.
THEOREM EventsNotDropped == Spec => []NoEventDropped
<1>1. OutboxIInv => NoEventDropped
  BY DEF OutboxIInv
<1> QED  BY <1>1, OutboxInvariant, PTL

\* Committed rewards and recorded events always agree, and nothing uncommitted is
\* ever published.
THEOREM EventsMatchState == Spec => []StateAndEventsAgree
<1>1. OutboxIInv => StateAndEventsAgree
  BY DEF OutboxIInv
<1> QED  BY <1>1, OutboxInvariant, PTL

\* The events of a character are first published in the order of their commits.
THEOREM PublicationOrder == Spec => []PublishedInOrder
<1>1. OutboxIInv => PublishedInOrder
  BY DEF OutboxIInv
<1> QED  BY <1>1, OutboxInvariant, PTL
=============================================================================
