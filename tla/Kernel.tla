------------------------------- MODULE Kernel -------------------------------
(***************************************************************************)
(* The plugin kernel of sdk/engine/kernel on several nodes that share one   *)
(* database: Run sorts the registered plugins, initialises them in order    *)
(* (core's Init applies every migration), starts them, serves, and on a     *)
(* signal drains requests and stops the plugins in reverse.  topoSort's     *)
(* recursion is a stack of frames; a plugin's state is visiting while it    *)
(* has a frame and done once it is ordered.                                 *)
(***************************************************************************)
EXTENDS Integers, Sequences, Functions

CONSTANTS Node, Plugin,
          Core,             \* the plugin that owns the database
          Requires,         \* Requires[p]: the sequence of names p requires
          Provides,         \* Provides[p]: services that p's Init registers
          Resolves,         \* Resolves[p]: services that p's Init cannot do without
          KernelServices,   \* services that Run registers itself
          Versions,         \* Versions[p]: how many migrations p's module has
          Orders,           \* orders in which main registers plugins
          Routed,           \* plugins that requests of this model are for
          MaxBoots, MaxToggles  \* bounds

ASSUME CoreIsAPlugin == Core \in Plugin
ASSUME OrdersArePlugins == \A o \in Orders : o \in Seq(Plugin)
ASSUME RequiresAreNames == Requires \in [Plugin -> Seq(Plugin)]
ASSUME CoreRequiresNothing == Requires[Core] = <<>>
ASSUME VersionsAreNumbers == Versions \in [Plugin -> Nat]
ASSUME CatalogCloses ==
    \A p \in Plugin : Resolves[p] \subseteq
        KernelServices \cup UNION {Provides[d] : d \in Range(Requires[p])}

VARIABLES
    pc,         \* what a node's Run does
    reg,        \* reg[n]: the registered plugins
    root,       \* root[n]: the loop over them in topoSort
    stack,      \* stack[n]: frames [name, next] of visit
    ordered,    \* ordered[n]: topoSort's result so far
    at,         \* at[n]: the plugin that is initialised, started or stopped next
    services,   \* services[n]: the registry
    mig,        \* mig[n]: the migration under way, [set, version]
    applied,    \* applied[p][v]: times that version v of p's module took effect
    signalled,  \* nodes whose context is cancelled
    disabled,   \* disabled[n]: plugins an administrator switched off
    inflight,   \* inflight[n]: plugins with an HTTP request under way
    late,       \* nodes whose Shutdown gave up waiting
    boots, toggles

sortVars == <<reg, root, stack, ordered>>
serveVars == <<disabled, inflight, late, toggles>>
vars == <<pc, sortVars, at, services, mig, applied, signalled, serveVars, boots>>

Init ==
    /\ pc = [n \in Node |-> "down"]
    /\ reg = [n \in Node |-> <<>>]
    /\ root = [n \in Node |-> 1]
    /\ stack = [n \in Node |-> <<>>]
    /\ ordered = [n \in Node |-> <<>>]
    /\ at = [n \in Node |-> 1]
    /\ services = [n \in Node |-> {}]
    /\ mig = [n \in Node |-> [set |-> 0, version |-> 1]]
    /\ applied = [p \in Plugin |-> [v \in 1 .. Versions[p] |-> 0]]
    /\ signalled = {}
    /\ disabled = [n \in Node |-> {}]
    /\ inflight = [n \in Node |-> {}]
    /\ late = {}
    /\ boots = 0 /\ toggles = 0

Goto(n, s) == pc' = [pc EXCEPT ![n] = s]
At(n, s) == pc[n] = s

-----------------------------------------------------------------------------
\* main registers the plugins and calls Run; two of one name end it.
Boot(n, order) ==
    /\ At(n, "down") /\ boots < MaxBoots
    /\ boots' = boots + 1
    /\ reg' = [reg EXCEPT ![n] = order]
    /\ Goto(n, IF \E i, j \in 1 .. Len(order) : i # j /\ order[i] = order[j] THEN "ended" ELSE "sort")
    /\ UNCHANGED <<root, stack, ordered, at, services, mig, applied, signalled, serveVars>>

\* The process goes away, after Run has returned or in the middle of it: main
\* stops nothing that Run did not stop, and only the database is left.
Exit(n) ==
    /\ ~At(n, "down")
    /\ Goto(n, "down")
    /\ reg' = [reg EXCEPT ![n] = <<>>]
    /\ root' = [root EXCEPT ![n] = 1]
    /\ stack' = [stack EXCEPT ![n] = <<>>]
    /\ ordered' = [ordered EXCEPT ![n] = <<>>]
    /\ at' = [at EXCEPT ![n] = 1]
    /\ services' = [services EXCEPT ![n] = {}]
    /\ mig' = [mig EXCEPT ![n] = [set |-> 0, version |-> 1]]
    /\ signalled' = signalled \ {n}
    /\ disabled' = [disabled EXCEPT ![n] = {}]
    /\ inflight' = [inflight EXCEPT ![n] = {}]
    /\ late' = late \ {n}
    /\ UNCHANGED <<applied, toggles, boots>>

-----------------------------------------------------------------------------
\* topoSort.

done(n) == Range(ordered[n])
visiting(n) == {stack[n][k].name : k \in 1 .. Len(stack[n])}
Top(n) == stack[n][Len(stack[n])]

Visit(n, name) == Append(stack[n], [name |-> name, next |-> 1])

\* The loop over the registered plugins, when no visit is under way.
VisitRoot(n) ==
    /\ At(n, "sort") /\ stack[n] = <<>>
    /\ root[n] <= Len(reg[n])
    /\ root' = [root EXCEPT ![n] = @ + 1]
    /\ stack' = IF reg[n][root[n]] \in done(n) THEN stack
                ELSE [stack EXCEPT ![n] = Visit(n, reg[n][root[n]])]
    /\ UNCHANGED <<pc, reg, ordered, at, services, mig, applied, signalled, serveVars, boots>>

\* The next requirement of the plugin on top: unknown names and cycles fail.
VisitDep(n) ==
    LET top == Top(n)
        dep == Requires[top.name][top.next] IN
    /\ At(n, "sort") /\ stack[n] # <<>>
    /\ top.next <= Len(Requires[top.name])
    /\ IF dep \notin Range(reg[n]) \/ dep \in visiting(n)
       THEN Goto(n, "ended") /\ UNCHANGED stack
       ELSE /\ UNCHANGED pc
            /\ stack' = LET moved == [stack[n] EXCEPT ![Len(stack[n])].next = @ + 1] IN
                        [stack EXCEPT ![n] = IF dep \in done(n) THEN moved
                                             ELSE Append(moved, [name |-> dep, next |-> 1])]
    /\ UNCHANGED <<reg, root, ordered, at, services, mig, applied, signalled, serveVars, boots>>

Mutant_Ordered_BeforeDeps(n) ==
    LET top == Top(n) IN
    /\ At(n, "sort") /\ stack[n] # <<>>
    /\ top.next + 1 > Len(Requires[top.name])
    /\ ordered' = [ordered EXCEPT ![n] = Append(@, top.name)]
    /\ stack' = [stack EXCEPT ![n] = SubSeq(@, 1, Len(@) - 1)]
    /\ UNCHANGED <<pc, reg, root, at, services, mig, applied, signalled, serveVars, boots>>

\* All requirements are done: the plugin is appended and its frame removed.
Ordered(n) ==
    LET top == Top(n) IN
    /\ At(n, "sort") /\ stack[n] # <<>>
    /\ top.next > Len(Requires[top.name])
    /\ ordered' = [ordered EXCEPT ![n] = Append(@, top.name)]
    /\ stack' = [stack EXCEPT ![n] = SubSeq(@, 1, Len(@) - 1)]
    /\ UNCHANGED <<pc, reg, root, at, services, mig, applied, signalled, serveVars, boots>>

\* Run registers its own services and goes on to Init.
Sorted(n) ==
    /\ At(n, "sort") /\ stack[n] = <<>> /\ root[n] > Len(reg[n])
    /\ services' = [services EXCEPT ![n] = KernelServices]
    /\ Goto(n, "init")
    /\ UNCHANGED <<sortVars, at, mig, applied, signalled, serveVars, boots>>

-----------------------------------------------------------------------------
\* Init, one plugin after the other; core's applies the migrations first.

Next1(n) == ordered[n][at[n]]
Advance(n) == at' = [at EXCEPT ![n] = @ + 1]

BeginMigrations(n) ==
    /\ At(n, "init") /\ at[n] <= Len(ordered[n])
    /\ Next1(n) = Core
    /\ Goto(n, "migrate")
    /\ UNCHANGED <<sortVars, at, services, mig, applied, signalled, serveVars, boots>>

\* The set under way: core's own, then the plugins' in order.
Module(n) == IF mig[n].set = 0 THEN Core ELSE ordered[n][mig[n].set]

\* Core's plugin has no set of its own besides the engine's.
Files(n) == IF mig[n].set > 0 /\ Module(n) = Core THEN 0 ELSE Versions[Module(n)]

NextSet(n) ==
    /\ At(n, "migrate")
    /\ mig[n].version > Files(n)
    /\ mig[n].set < Len(ordered[n])
    /\ mig' = [mig EXCEPT ![n] = [set |-> @.set + 1, version |-> 1]]
    /\ UNCHANGED <<pc, sortVars, at, services, applied, signalled, serveVars, boots>>

\* SELECT EXISTS: a recorded migration is skipped.
CheckMigration(n) ==
    LET v == mig[n].version IN
    /\ At(n, "migrate") /\ n \notin signalled
    /\ v <= Files(n)
    /\ IF applied[Module(n)][v] > 0
       THEN mig' = [mig EXCEPT ![n].version = @ + 1] /\ UNCHANGED pc
       ELSE Goto(n, "apply") /\ UNCHANGED mig
    /\ UNCHANGED <<sortVars, at, services, applied, signalled, serveVars, boots>>

Mutant_ApplyMigration_NotUnique(n) ==
    /\ At(n, "apply") /\ n \notin signalled
    /\ applied' = [applied EXCEPT ![Module(n)][mig[n].version] = @ + 1]
    /\ mig' = [mig EXCEPT ![n].version = @ + 1] /\ Goto(n, "migrate")
    /\ UNCHANGED <<sortVars, at, services, signalled, serveVars, boots>>

\* The transaction: its record is unique, so that of two nodes one rolls back
\* and fails to start.
ApplyMigration(n) ==
    LET v == mig[n].version IN
    /\ At(n, "apply") /\ n \notin signalled
    /\ IF applied[Module(n)][v] > 0
       THEN Goto(n, "ended") /\ UNCHANGED <<applied, mig>>
       ELSE /\ applied' = [applied EXCEPT ![Module(n)][v] = @ + 1]
            /\ mig' = [mig EXCEPT ![n].version = @ + 1]
            /\ Goto(n, "migrate")
    /\ UNCHANGED <<sortVars, at, services, signalled, serveVars, boots>>

\* What an Init does to the registry: it panics without a service it must
\* resolve, and fails on a name that is taken.
Provided(n, p) ==
    IF Resolves[p] \subseteq services[n] /\ Provides[p] \cap services[n] = {}
    THEN services' = [services EXCEPT ![n] = @ \cup Provides[p]] /\ UNCHANGED pc
    ELSE Goto(n, "ended") /\ UNCHANGED services

InitCore(n) ==
    /\ At(n, "migrate")
    /\ mig[n].set = Len(ordered[n]) /\ mig[n].version > Files(n)
    /\ services' = [services EXCEPT ![n] = @ \cup Provides[Core]]
    /\ Advance(n)
    /\ Goto(n, "init")
    /\ UNCHANGED <<sortVars, mig, applied, signalled, serveVars, boots>>

InitPlugin(n) ==
    /\ At(n, "init") /\ at[n] <= Len(ordered[n])
    /\ Next1(n) # Core
    /\ Provided(n, Next1(n))
    /\ Advance(n)
    /\ UNCHANGED <<sortVars, mig, applied, signalled, serveVars, boots>>

Initialised(n) ==
    /\ At(n, "init") /\ at[n] > Len(ordered[n])
    /\ at' = [at EXCEPT ![n] = 1]
    /\ Goto(n, "start")
    /\ UNCHANGED <<sortVars, services, mig, applied, signalled, serveVars, boots>>

\* Start, in the same order.
StartPlugin(n) ==
    /\ At(n, "start") /\ at[n] <= Len(ordered[n])
    /\ Advance(n)
    /\ UNCHANGED <<pc, sortVars, services, mig, applied, signalled, serveVars, boots>>

Started(n) ==
    /\ At(n, "start") /\ at[n] > Len(ordered[n])
    /\ Goto(n, "serve")
    /\ UNCHANGED <<sortVars, at, services, mig, applied, signalled, serveVars, boots>>

-----------------------------------------------------------------------------
\* Serving: requests pass the gate of the plugin that owns the route.

IsActive(n, p) == p \notin disabled[n]

Toggle(n, p) ==
    /\ At(n, "serve") /\ toggles < MaxToggles
    /\ p \in Range(ordered[n]) /\ p # Core
    /\ disabled' = [disabled EXCEPT ![n] = IF p \in @ THEN @ \ {p} ELSE @ \cup {p}]
    /\ toggles' = toggles + 1
    /\ UNCHANGED <<pc, sortVars, at, services, mig, applied, signalled, inflight, late, boots>>

gate(n, p) ==
    /\ At(n, "serve") /\ p \in done(n) /\ p \notin inflight[n]
    /\ IsActive(n, p)
    /\ inflight' = [inflight EXCEPT ![n] = @ \cup {p}]
    /\ UNCHANGED <<pc, sortVars, at, services, mig, applied, signalled, disabled, late, toggles, boots>>

EndRequest(n, p) ==
    /\ p \in inflight[n]
    /\ inflight' = [inflight EXCEPT ![n] = @ \ {p}]
    /\ UNCHANGED <<pc, sortVars, at, services, mig, applied, signalled, disabled, late, toggles, boots>>

-----------------------------------------------------------------------------
\* Shutdown.

Signal(n) ==
    /\ pc[n] \notin {"down", "ended"} /\ n \notin signalled
    /\ signalled' = signalled \cup {n}
    /\ UNCHANGED <<pc, sortVars, at, services, mig, applied, serveVars, boots>>

\* A statement under a cancelled context fails, and with it core's Init.
Cancelled(n) ==
    /\ pc[n] \in {"migrate", "apply"} /\ n \in signalled
    /\ Goto(n, "ended")
    /\ UNCHANGED <<sortVars, at, services, mig, applied, signalled, serveVars, boots>>

\* Shutdown takes no new requests and waits for the ones under way ...
BeginShutdown(n) ==
    /\ At(n, "serve") /\ n \in signalled
    /\ Goto(n, "drain")
    /\ UNCHANGED <<sortVars, at, services, mig, applied, signalled, serveVars, boots>>

StopAll(n) == Goto(n, "stop") /\ at' = [at EXCEPT ![n] = Len(ordered[n])]

\* ... until they are through, or for ten seconds.
Drained(n) ==
    /\ At(n, "drain")
    /\ \/ inflight[n] = {} /\ UNCHANGED late
       \/ inflight[n] # {} /\ late' = late \cup {n}
    /\ StopAll(n)
    /\ UNCHANGED <<sortVars, services, mig, applied, signalled, disabled, inflight, toggles, boots>>

\* The listener fails: the plugins are stopped at once.
ServeError(n) ==
    /\ At(n, "serve")
    /\ late' = late \cup {n}
    /\ StopAll(n)
    /\ UNCHANGED <<sortVars, services, mig, applied, signalled, disabled, inflight, toggles, boots>>

\* Errors of Stop are logged and the loop goes on.
StopPlugin(n) ==
    /\ At(n, "stop") /\ at[n] > 0
    /\ at' = [at EXCEPT ![n] = @ - 1]
    /\ UNCHANGED <<pc, sortVars, services, mig, applied, signalled, serveVars, boots>>

Stopped(n) ==
    /\ At(n, "stop") /\ at[n] = 0
    /\ Goto(n, "ended")
    /\ UNCHANGED <<sortVars, at, services, mig, applied, signalled, serveVars, boots>>

-----------------------------------------------------------------------------

Step(n) ==
    \/ VisitRoot(n) \/ VisitDep(n) \/ Ordered(n) \/ Sorted(n)
    \/ BeginMigrations(n) \/ NextSet(n) \/ CheckMigration(n) \/ ApplyMigration(n)
    \/ InitCore(n) \/ InitPlugin(n) \/ Initialised(n) \/ StartPlugin(n) \/ Started(n)
    \/ Cancelled(n) \/ BeginShutdown(n) \/ Drained(n) \/ StopPlugin(n) \/ Stopped(n)

Next ==
    \E n \in Node :
        \/ \E o \in Orders : Boot(n, o)
        \/ Step(n)
        \/ \E p \in Routed : Toggle(n, p) \/ gate(n, p) \/ EndRequest(n, p)
        \/ Signal(n) \/ ServeError(n) \/ Exit(n)

Spec == Init /\ [][Next]_vars

-----------------------------------------------------------------------------

\* Plugins whose Init has returned, and those that run: started, or initialised,
\* and not stopped yet.
Before(n) == {ordered[n][i] : i \in 1 .. at[n] - 1}
Running(n) == {ordered[n][i] : i \in 1 .. at[n]}

\* A plugin is initialised after all it requires, in whatever order main registers
\* the plugins, and what it resolves is there: the kernel never panics for a
\* missing service (kernel.go:84-191).  It is stopped before anything it requires,
\* and with no request under way unless Shutdown gave up or the listener failed.
LifecycleOrder ==
    \A n \in Node :
        /\ pc[n] \in {"init", "migrate", "apply"} =>
             /\ \A p \in Before(n) : Range(Requires[p]) \subseteq Before(n)
             /\ at[n] <= Len(ordered[n]) => Resolves[Next1(n)] \subseteq services[n]
        /\ pc[n] = "stop" =>
             /\ \A p \in Running(n) : Range(Requires[p]) \subseteq Running(n)
             /\ n \notin late => inflight[n] = {}

\* A migration takes effect once although nodes start at the same time; the ones
\* of a module in sequence, the engine's first and then those of the modules it
\* requires; and a node that serves has them all (migrations.go:31-146).
MigrationsInOrder ==
    /\ \A p \in Plugin : \A v \in 1 .. Versions[p] :
        /\ applied[p][v] <= 1
        /\ applied[p][v] = 1 =>
             /\ \A w \in 1 .. v - 1 : applied[p][w] = 1
             /\ \A q \in (Range(Requires[p]) \cup {Core}) \ {p} :
                    \A w \in 1 .. Versions[q] : applied[q][w] = 1
    /\ \A n \in Node : pc[n] \in {"start", "serve"} /\ Core \in done(n) =>
         \A p \in done(n) : \A v \in 1 .. Versions[p] : applied[p][v] = 1

-----------------------------------------------------------------------------
\* What holds of a node at every step, for the proofs.

Stage == {"down", "sort", "init", "migrate", "apply", "start", "serve", "drain", "stop", "ended"}
Frame == [name : Plugin, next : Nat \ {0}]
Service == KernelServices \cup UNION {Provides[p] : p \in Plugin}
Cursor == [set : Nat, version : Nat \ {0}]

TypeOK ==
    /\ pc \in [Node -> Stage]
    /\ reg \in [Node -> Seq(Plugin)] /\ root \in [Node -> Nat \ {0}]
    /\ stack \in [Node -> Seq(Frame)] /\ ordered \in [Node -> Seq(Plugin)]
    /\ at \in [Node -> Nat] /\ services \in [Node -> SUBSET Service]
    /\ mig \in [Node -> Cursor]
    /\ DOMAIN applied = Plugin /\ \A p \in Plugin : applied[p] \in [1 .. Versions[p] -> Nat]
    /\ inflight \in [Node -> SUBSET Plugin]
    /\ signalled \subseteq Node /\ late \subseteq Node

\* Before the plugins are sorted nothing has been done with them.
Fresh(n) ==
    /\ pc[n] = "down" => stack[n] = <<>> /\ ordered[n] = <<>>
    /\ pc[n] \in {"down", "sort"} => at[n] = 1 /\ mig[n] = [set |-> 0, version |-> 1]

\* The requirements that a frame of visit has passed are done, except for the
\* last one while the next frame is about it.
Frames(n) ==
    \A k \in 1 .. Len(stack[n]) : \A d \in 1 .. Len(Requires[stack[n][k].name]) :
        d < stack[n][k].next =>
            \/ Requires[stack[n][k].name][d] \in done(n)
            \/ /\ k < Len(stack[n])
               /\ Requires[stack[n][k].name][d] = stack[n][k + 1].name

\* Every plugin in topoSort's result comes after those it requires.
Closed(n) ==
    \A i \in 1 .. Len(ordered[n]) : \A d \in 1 .. Len(Requires[ordered[n][i]]) :
        \E j \in 1 .. i - 1 : ordered[n][j] = Requires[ordered[n][i]][d]

\* Where Run is in that result, and what the plugins before have registered.
Position(n) ==
    /\ pc[n] \in {"init", "migrate", "apply"} =>
         /\ at[n] \in 1 .. Len(ordered[n]) + 1
         /\ KernelServices \subseteq services[n]
         /\ \A i \in 1 .. at[n] - 1 : Provides[ordered[n][i]] \subseteq services[n]
    /\ pc[n] \in {"migrate", "apply"} => at[n] <= Len(ordered[n]) /\ Next1(n) = Core
    /\ pc[n] = "stop" => at[n] <= Len(ordered[n]) /\ (n \notin late => inflight[n] = {})

NodeInv(n) == Fresh(n) /\ Frames(n) /\ Closed(n) /\ Position(n)

KernelIInv == TypeOK /\ \A n \in Node : NodeInv(n)

\* A module whose migrations have all been applied.
Complete(p) == \A v \in 1 .. Versions[p] : applied[p][v] = 1

\* A node has seen the sets before its own completed, and of its own set the
\* versions before; a node that has been through core's Init has seen them all.
Migrated(n) ==
    /\ mig[n].set <= Len(ordered[n])
    /\ mig[n].set > 0 => Complete(Core)
    /\ \A i \in 1 .. mig[n].set - 1 : Complete(ordered[n][i])
    /\ \A v \in 1 .. Versions[Module(n)] : v < mig[n].version => applied[Module(n)][v] = 1
    /\ pc[n] = "apply" => mig[n].version <= Files(n)
    /\ pc[n] \in {"init", "migrate", "apply"} /\ Core \in Before(n) =>
         \A p \in done(n) : Complete(p)
    /\ pc[n] \in {"start", "serve"} /\ Core \in done(n) => \A p \in done(n) : Complete(p)

\* What has been applied once, in order.
AppliedInOrder ==
    \A p \in Plugin : \A v \in 1 .. Versions[p] :
        /\ applied[p][v] <= 1
        /\ applied[p][v] = 1 =>
             /\ \A w \in 1 .. v - 1 : applied[p][w] = 1
             /\ \A q \in (Range(Requires[p]) \cup {Core}) \ {p} : Complete(q)

MigrationIInv == AppliedInOrder /\ \A n \in Node : Migrated(n)
=============================================================================
