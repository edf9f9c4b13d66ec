------------------------------- MODULE Outbox -------------------------------
(***************************************************************************)
(* The transactional outbox: AddRewards writes a character and its domain   *)
(* events in one transaction (backend/game/character/repository.go), and a  *)
(* relay on every node polls the shared outbox table, publishes each row on *)
(* its in-process bus and marks it (sdk/engine/outbox).  The bus starts one *)
(* goroutine per subscriber and returns (sdk/engine/bus/bus.go).  A node    *)
(* may crash between any two steps: its transactions roll back, its batch   *)
(* and the handler goroutines that have not run are gone.                   *)
(*                                                                          *)
(* Row ids come from a sequence and are drawn when a row is inserted, not   *)
(* when its transaction commits, so rows may become visible out of order.   *)
(***************************************************************************)
EXTENDS Integers, FiniteSets

CONSTANTS Worker,        \* goroutines that run AddRewards
          Node,          \* processes
          Character,
          NodeOf,        \* NodeOf[w]: the process of a worker
          None,
          Decodable,     \* event types the decoder registry knows
          Batch,         \* rows per scan (100 in the code)
          MaxEvents,     \* bound: rows ever inserted
          MaxCrashes     \* bound: crashes of nodes

EventType == {"RewardsGranted", "CharacterLeveledUp"}

ASSUME NodeOfType == NodeOf \in [Worker -> Node]
ASSUME BatchSize == Batch \in Nat \ {0}
ASSUME EventBounds == MaxEvents \in Nat /\ MaxCrashes \in Nat
ASSUME NoneIsNobody == None \notin Worker \cup Character
ASSUME DecodableTypes == Decodable \subseteq EventType

EventId == 1 .. MaxEvents

VARIABLES
    nextId,     \* the sequence behind outbox.id
    charOf,     \* charOf[e], typeOf[e]: the content of row e
    typeOf,
    rewards,    \* rewards[c]: committed rewards in the characters row of c
    eventLog,   \* the event_log table: committed rows, never deleted
    outbox,     \* the outbox table: committed rows not pruned yet
    marked,     \* rows with published_at set
    rowLock,    \* rowLock[c]: the transaction that holds c FOR UPDATE
    txPc,       \* where a worker is in AddRewards
    txChar,     \* the character it rewards
    txRows,     \* rows it has inserted and not committed
    relayPc,    \* where the relay of a node is in Dispatch
    batch,      \* rows it has read and not dispatched
    running,    \* running[n]: events whose handler goroutine has not run
    published,  \* events that some relay has published (observation)
    handled,    \* events that some handler has processed (observation)
    crashes

tableVars == <<nextId, charOf, typeOf, rewards, eventLog, outbox>>
txVars == <<rowLock, txPc, txChar, txRows>>
relayVars == <<relayPc, batch>>
busVars == <<running, published, handled>>
vars == <<tableVars, marked, txVars, relayVars, busVars, crashes>>

Init ==
    /\ nextId = 1
    /\ charOf = [e \in EventId |-> None]
    /\ typeOf = [e \in EventId |-> "RewardsGranted"]
    /\ rewards = [c \in Character |-> 0]
    /\ eventLog = {} /\ outbox = {} /\ marked = {}
    /\ rowLock = [c \in Character |-> None]
    /\ txPc = [w \in Worker |-> "idle"]
    /\ txChar = [w \in Worker |-> None]
    /\ txRows = [w \in Worker |-> {}]
    /\ relayPc = [n \in Node |-> "idle"]
    /\ batch = [n \in Node |-> {}]
    /\ running = [n \in Node |-> {}]
    /\ published = {} /\ handled = {}
    /\ crashes = 0

-----------------------------------------------------------------------------
(* AddRewards, one transaction.                                              *)

Mutant_LockCharacter_NoForUpdate(w, c) ==
    /\ txPc[w] = "idle"
    /\ txPc' = [txPc EXCEPT ![w] = "locked"]
    /\ txChar' = [txChar EXCEPT ![w] = c]
    /\ UNCHANGED <<rowLock, txRows, tableVars, marked, relayVars, busVars, crashes>>

\* SELECT ... FOR UPDATE waits for the transaction that holds the row.
LockCharacter(w, c) ==
    /\ txPc[w] = "idle"
    /\ rowLock[c] = None
    /\ rowLock' = [rowLock EXCEPT ![c] = w]
    /\ txPc' = [txPc EXCEPT ![w] = "locked"]
    /\ txChar' = [txChar EXCEPT ![w] = c]
    /\ UNCHANGED <<txRows, tableVars, marked, relayVars, busVars, crashes>>

\* outbox.Append inside the transaction: the row gets its id now and stays
\* invisible.  RewardsGranted first, CharacterLeveledUp second if the level rose.
outboxAppend(w, type) ==
    /\ nextId <= MaxEvents
    /\ nextId' = nextId + 1
    /\ charOf' = [charOf EXCEPT ![nextId] = txChar[w]]
    /\ typeOf' = [typeOf EXCEPT ![nextId] = type]
    /\ txRows' = [txRows EXCEPT ![w] = @ \cup {nextId}]

AppendRewarded(w) ==
    /\ txPc[w] = "locked"
    /\ outboxAppend(w, "RewardsGranted")
    /\ txPc' = [txPc EXCEPT ![w] = "rewarded"]
    /\ UNCHANGED <<rewards, eventLog, outbox, marked, rowLock, txChar, relayVars, busVars, crashes>>

AppendLeveled(w) ==
    /\ txPc[w] = "rewarded"
    /\ outboxAppend(w, "CharacterLeveledUp")
    /\ txPc' = [txPc EXCEPT ![w] = "leveled"]
    /\ UNCHANGED <<rewards, eventLog, outbox, marked, rowLock, txChar, relayVars, busVars, crashes>>

\* The transactions of the workers in W end: their row locks go.
EndTx(W) ==
    /\ txPc' = [w \in Worker |-> IF w \in W THEN "idle" ELSE txPc[w]]
    /\ txRows' = [w \in Worker |-> IF w \in W THEN {} ELSE txRows[w]]
    /\ rowLock' = [c \in Character |-> IF rowLock[c] \in W THEN None ELSE rowLock[c]]
    /\ txChar' = [w \in Worker |-> IF w \in W THEN None ELSE txChar[w]]

\* Everything the transaction wrote becomes visible at once.
Commit(w) ==
    /\ txPc[w] \in {"rewarded", "leveled"}
    /\ rewards' = [rewards EXCEPT ![txChar[w]] = @ + 1]
    /\ eventLog' = eventLog \cup txRows[w]
    /\ outbox' = outbox \cup txRows[w]
    /\ EndTx({w})
    /\ UNCHANGED <<nextId, charOf, typeOf, marked, relayVars, busVars, crashes>>

Mutant_Rollback_RowsStay(w) ==
    /\ txPc[w] # "idle"
    /\ eventLog' = eventLog \cup txRows[w]
    /\ outbox' = outbox \cup txRows[w]
    /\ EndTx({w})
    /\ UNCHANGED <<rewards, nextId, charOf, typeOf, marked, relayVars, busVars, crashes>>

\* Any statement fails, or the character does not exist.
Rollback(w) ==
    /\ txPc[w] # "idle"
    /\ EndTx({w})
    /\ UNCHANGED <<tableVars, marked, relayVars, busVars, crashes>>

-----------------------------------------------------------------------------
(* Relay.Dispatch, one poll cycle.                                           *)

Undispatched == outbox \ marked

\* SELECT ... WHERE published_at IS NULL ORDER BY id LIMIT batch: the rows with
\* the smallest ids.
FirstRows(rows, B) ==
    /\ B \subseteq rows /\ B # {}
    /\ \A e \in B, f \in rows \ B : e < f
    /\ Cardinality(B) <= Batch
    /\ Cardinality(B) < Batch => B = rows

\* The rows of a batch are dispatched in the order of their ids.
IsHead(n, e) == e \in batch[n] /\ \A f \in batch[n] : e <= f

Mutant_Scan_Cursor(n) ==
    /\ relayPc[n] = "idle"
    /\ \E B \in SUBSET EventId :
        /\ FirstRows({e \in Undispatched : \A f \in marked : f < e}, B)
        /\ batch' = [batch EXCEPT ![n] = B]
    /\ relayPc' = [relayPc EXCEPT ![n] = "publish"]
    /\ UNCHANGED <<tableVars, marked, txVars, busVars, crashes>>

Scan(n) ==
    /\ relayPc[n] = "idle"
    /\ \E B \in SUBSET EventId :
        /\ FirstRows(Undispatched, B)
        /\ batch' = [batch EXCEPT ![n] = B]
    /\ relayPc' = [relayPc EXCEPT ![n] = "publish"]
    /\ UNCHANGED <<tableVars, marked, txVars, busVars, crashes>>

\* bus.Publish starts the handler goroutines and returns.  A row that cannot be
\* decoded is skipped.
PublishRow(n, e) ==
    /\ relayPc[n] = "publish"
    /\ IsHead(n, e)
    /\ \/ /\ typeOf[e] \in Decodable
          /\ running' = [running EXCEPT ![n] = @ \cup {e}]
          /\ published' = published \cup {e}
       \/ typeOf[e] \notin Decodable /\ UNCHANGED <<running, published>>
    /\ relayPc' = [relayPc EXCEPT ![n] = "mark"]
    /\ UNCHANGED <<tableVars, marked, txVars, batch, handled, crashes>>

Mutant_MarkRow_WholeBatch(n, e) ==
    /\ relayPc[n] = "mark"
    /\ IsHead(n, e)
    /\ marked' = marked \cup (outbox \cap batch[n])
    /\ batch' = [batch EXCEPT ![n] = {}]
    /\ relayPc' = [relayPc EXCEPT ![n] = "idle"]
    /\ UNCHANGED <<tableVars, txVars, busVars, crashes>>

\* UPDATE ... SET published_at; a row pruned meanwhile matches nothing.
MarkRow(n, e) ==
    /\ relayPc[n] = "mark"
    /\ IsHead(n, e)
    /\ marked' = marked \cup (outbox \cap {e})
    /\ batch' = [batch EXCEPT ![n] = @ \ {e}]
    /\ relayPc' = [relayPc EXCEPT ![n] = IF batch[n] = {e} THEN "idle" ELSE "publish"]
    /\ UNCHANGED <<tableVars, txVars, busVars, crashes>>

\* The UPDATE fails: Dispatch returns, and the next tick scans again.
MarkError(n) ==
    /\ relayPc[n] = "mark"
    /\ batch' = [batch EXCEPT ![n] = {}]
    /\ relayPc' = [relayPc EXCEPT ![n] = "idle"]
    /\ UNCHANGED <<tableVars, marked, txVars, busVars, crashes>>

Mutant_Prune_AnyRow(e) ==
    /\ e \in outbox
    /\ outbox' = outbox \ {e}
    /\ marked' = marked \ {e}
    /\ UNCHANGED <<nextId, charOf, typeOf, rewards, eventLog, txVars, relayVars, busVars, crashes>>

\* Relay.Prune: DELETE of published rows older than the retention.  How old a row
\* is is not modelled, so any set of published rows may go.
Prune(e) ==
    /\ e \in outbox \cap marked
    /\ outbox' = outbox \ {e}
    /\ marked' = marked \ {e}
    /\ UNCHANGED <<nextId, charOf, typeOf, rewards, eventLog, txVars, relayVars, busVars, crashes>>

\* A handler goroutine runs (to its end or to a recovered panic).
Handle(n, e) ==
    /\ e \in running[n]
    /\ running' = [running EXCEPT ![n] = @ \ {e}]
    /\ handled' = handled \cup {e}
    /\ UNCHANGED <<tableVars, marked, txVars, relayVars, published, crashes>>

\* The process dies and is started again.
Crash(n) ==
    /\ crashes < MaxCrashes
    /\ crashes' = crashes + 1
    /\ EndTx({w \in Worker : NodeOf[w] = n})
    /\ relayPc' = [relayPc EXCEPT ![n] = "idle"]
    /\ batch' = [batch EXCEPT ![n] = {}]
    /\ running' = [running EXCEPT ![n] = {}]
    /\ UNCHANGED <<tableVars, marked, published, handled>>

-----------------------------------------------------------------------------

TxNext(w) ==
    \/ \E c \in Character : LockCharacter(w, c)
    \/ AppendRewarded(w) \/ AppendLeveled(w) \/ Commit(w) \/ Rollback(w)

RelayNext(n) ==
    \/ Scan(n) \/ MarkError(n)
    \/ \E e \in EventId : PublishRow(n, e) \/ MarkRow(n, e)

Next ==
    \/ \E w \in Worker : TxNext(w)
    \/ \E n \in Node : RelayNext(n) \/ Crash(n)
    \/ \E n \in Node, e \in EventId : Handle(n, e)
    \/ \E e \in EventId : Prune(e)

\* The ticker fires every second for ever, so a relay with something to do does
\* it, and the database does not reject one UPDATE for ever.
RelayFairness ==
    \A n \in Node :
        /\ WF_vars(Scan(n))
        /\ WF_vars(\E e \in EventId : PublishRow(n, e))
        /\ SF_vars(\E e \in EventId : MarkRow(n, e))

Spec == Init /\ [][Next]_vars

RelaySpec == Spec /\ RelayFairness

\* And a goroutine runs.
FairSpec == RelaySpec /\ \A n \in Node, e \in EventId : WF_vars(Handle(n, e))

-----------------------------------------------------------------------------

TypeOK ==
    /\ nextId \in 1 .. MaxEvents + 1
    /\ charOf \in [EventId -> Character \cup {None}]
    /\ typeOf \in [EventId -> EventType]
    /\ rewards \in [Character -> Nat]
    /\ eventLog \subseteq EventId /\ outbox \subseteq EventId /\ marked \subseteq EventId
    /\ rowLock \in [Character -> Worker \cup {None}]
    /\ txPc \in [Worker -> {"idle", "locked", "rewarded", "leveled"}]
    /\ txChar \in [Worker -> Character \cup {None}]
    /\ txRows \in [Worker -> SUBSET EventId]
    /\ relayPc \in [Node -> {"idle", "publish", "mark"}]
    /\ batch \in [Node -> SUBSET EventId]
    /\ running \in [Node -> SUBSET EventId]
    /\ published \subseteq EventId /\ handled \subseteq EventId
    /\ crashes \in 0 .. MaxCrashes

CanPublish(e) == typeOf[e] \in Decodable

\* An event whose reward is committed is never dropped before it is published:
\* until a relay has published it, it waits in the outbox, unmarked, whatever
\* fails or crashes and whatever the pruner deletes (outbox.go:1-8,
\* relay.go:102-104 "Undispatched rows are never removed").
NoEventDropped ==
    \A e \in eventLog : CanPublish(e) => e \in published \/ e \in Undispatched

RewardRows(c) == {e \in eventLog : charOf[e] = c /\ typeOf[e] = "RewardsGranted"}

\* A committed reward has its event and an event has its committed reward: they
\* "can never diverge" (outbox.go:3-6), and only committed events are published.
StateAndEventsAgree ==
    /\ \A c \in Character : rewards[c] = Cardinality(RewardRows(c))
    /\ published \subseteq eventLog
    /\ outbox \subseteq eventLog

\* The events of one character are first published in the order of their
\* transactions, although ids are drawn before commit and several relays scan
\* the table: FOR UPDATE keeps the ids of one character in commit order.
PublishedInOrder ==
    \A e, f \in eventLog :
        /\ e < f /\ charOf[e] = charOf[f]
        /\ CanPublish(e) /\ f \in published
        => e \in published

\* Every row leaves the backlog in the end, the ones no decoder knows included
\* (relay.go:48-51): with NoEventDropped, every committed event that can be is
\* published, although rows become visible out of the order of their ids.
BacklogDrains == \A e \in EventId : e \in outbox ~> e \notin Undispatched

\* "durable, atomic, at-least-once delivery of DB-tied events" (outbox.go:10):
\* every committed event reaches its subscribers at least once.
DeliveredAtLeastOnce ==
    \A e \in EventId : e \in eventLog /\ CanPublish(e) ~> e \in handled

-----------------------------------------------------------------------------
(* The inductive invariant.                                                  *)

\* A transaction works under the lock of its character, on rows of its own.
TxInv ==
    \A w \in Worker :
        /\ IF txPc[w] = "idle"
           THEN txChar[w] = None
           ELSE txChar[w] \in Character /\ rowLock[txChar[w]] = w
        /\ txPc[w] \in {"idle", "locked"} => txRows[w] = {}
        /\ \A e \in txRows[w] : e < nextId /\ e \notin eventLog /\ charOf[e] = txChar[w]
        /\ txPc[w] \in {"rewarded", "leveled"} =>
             \E r \in txRows[w] : \A e \in txRows[w] : typeOf[e] = "RewardsGranted" <=> e = r

\* Uncommitted rows of a character come after all its committed ones.
CommitOrder ==
    \A w \in Worker : \A e \in txRows[w], f \in eventLog : charOf[f] = txChar[w] => f < e

TablesInv ==
    /\ outbox \subseteq eventLog /\ marked \subseteq outbox /\ published \subseteq eventLog
    /\ \A e \in eventLog : e < nextId /\ charOf[e] \in Character

\* A row is marked after it was published, and a batch misses no earlier row of
\* the same character that is still to be published.
RelayInv ==
    /\ \A e \in marked : CanPublish(e) => e \in published
    /\ \A n \in Node :
        /\ batch[n] \subseteq eventLog
        /\ relayPc[n] = "mark" => \A e \in EventId : IsHead(n, e) /\ CanPublish(e) => e \in published
        /\ \A f \in batch[n], e \in eventLog :
             e < f /\ charOf[e] = charOf[f] /\ CanPublish(e) => e \in published \cup batch[n]

\* What makes the outbox correct, in one inductive invariant: rows are marked only
\* after they were published and commit in id order per character
\* (repository.go:217-299, relay.go:52-100).
OutboxIInv ==
    /\ TypeOK /\ TxInv /\ CommitOrder /\ TablesInv /\ RelayInv
    /\ NoEventDropped /\ StateAndEventsAgree /\ PublishedInOrder
=============================================================================
