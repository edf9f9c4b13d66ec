------------------------------ MODULE Plugins ------------------------------
(***************************************************************************)
(* The plugins of backend/cmd/server/main.go: what each one's Meta requires, *)
(* which services its Init takes from the registry with MustResolve (it     *)
(* panics without them), which ones it registers, and how many migrations    *)
(* its module carries.  Optional look-ups (Resolve) are left out.           *)
(***************************************************************************)
EXTENDS Integers, Sequences

Entry(requires, resolves, provides, versions) ==
    [requires |-> requires, resolves |-> resolves, provides |-> provides, versions |-> versions]

core == Entry(<<>>, {}, {"eventDecoders", "db", "session", "cache", "hub", "msgRouter"}, 10)
stat == Entry(<<>>, {}, {"stat"}, 0)
auth == Entry(<<"core">>, {"db"}, {"wsAuthenticator"}, 0)
items == Entry(<<"core">>, {"db"}, {}, 0)
character ==
    Entry(<<"core", "stat">>, {"db", "stat", "session", "eventDecoders", "hub", "msgRouter"},
          {"character"}, 0)
inventory == Entry(<<"core", "character">>, {"db", "character"}, {"inventory"}, 0)
loot == Entry(<<"core">>, {"db", "cache"}, {"loot"}, 0)
quests ==
    Entry(<<"core", "character", "inventory">>, {"db", "character", "inventory"}, {"quests"}, 0)
combat ==
    Entry(<<"core", "stat", "character", "inventory", "loot", "quests">>,
          {"character", "inventory", "loot", "quests", "stat", "hub", "msgRouter", "session"}, {}, 0)
idlekit == Entry(<<"core", "character">>, {"character", "db"}, {"idleActivities", "resourceWallet"}, 2)
buildings ==
    Entry(<<"core", "character", "idlekit">>, {"db", "character", "idleActivities"}, {}, 1)
crafting ==
    Entry(<<"core", "character", "inventory", "idlekit">>,
          {"db", "character", "inventory", "resourceWallet"}, {"crafting"}, 0)

Catalog ==
    [core |-> core, stat |-> stat, auth |-> auth, items |-> items, character |-> character,
     inventory |-> inventory, loot |-> loot, quests |-> quests, combat |-> combat,
     idlekit |-> idlekit, buildings |-> buildings, crafting |-> crafting]

\* The order in which main registers them, and the services of Run itself.
MainOrder ==
    <<"core", "stat", "auth", "items", "character", "inventory", "loot", "quests", "combat",
      "idlekit", "buildings", "crafting">>

RunServices == {"metrics", "pluginManager", "pluginMigrations"}
=============================================================================
