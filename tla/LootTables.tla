----------------------------- MODULE LootTables -----------------------------
(***************************************************************************)
(* loot_tables behind the read-through cache of backend/game/loot/cache.go. *)
(* Reads, fills and invalidations are separate calls to the database and to *)
(* Redis; a cached entry may expire, and a call to the cache may fail.      *)
(***************************************************************************)
CONSTANTS Table,        \* loot table ids
          Content,      \* what a definition of a table may say
          NoTable,      \* no row, no cached entry
          Fallback      \* Fallback[t]: the embedded definition of t, or NoTable

ASSUME NoTableIsNoTable == NoTable \notin Table /\ NoTable \notin Content

VARIABLES tables,       \* loot_tables
          cache         \* the Redis keys loot:table:<id>

lootVars == <<tables, cache>>

LootInit ==
    /\ tables = [t \in Table |-> NoTable]
    /\ cache = [t \in Table |-> NoTable]

CacheHit(t) == cache[t] # NoTable

\* Set after a miss: what the reader found in the database some time ago.
CacheSet(t, content) == cache' = [cache EXCEPT ![t] = content] /\ UNCHANGED tables

CacheExpire(t) == CacheHit(t) /\ cache' = [cache EXCEPT ![t] = NoTable] /\ UNCHANGED tables

\* INSERT only: the primary key refuses to define a table again.
InsertTable(t, content) ==
    /\ tables[t] = NoTable
    /\ tables' = [tables EXCEPT ![t] = content]
    /\ UNCHANGED cache

CacheDelete(t) == cache' = [cache EXCEPT ![t] = NoTable] /\ UNCHANGED tables

\* entriesFor: the row that was read, or else the embedded definition.
entriesFor(t, row) == IF row # NoTable THEN row ELSE Fallback[t]

-----------------------------------------------------------------------------

LootTypeOK ==
    /\ tables \in [Table -> Content \cup {NoTable}]
    /\ cache \in [Table -> Content \cup {NoTable}]

\* "Invalidate so a subsequent read reflects the new definition immediately"
\* (cache.go:53): a cached table is the stored one, although a reader may fill
\* the cache after the writer invalidated it.  Definitions are only inserted,
\* and misses are never cached.
CacheCoherent == \A t \in Table : CacheHit(t) => cache[t] = tables[t]
=============================================================================
