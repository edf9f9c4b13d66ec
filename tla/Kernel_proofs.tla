---------------------------- MODULE Kernel_proofs ----------------------------
(* topoSort, the plugin lifecycle and the migrations are right for every set   *)
(* of plugins, every requirement graph, every order of registration and any     *)
(* number of nodes.                                                            *)
EXTENDS Kernel, SequenceTheorems, TLAPS

\* A step of node n.
NodeStep(n) ==
    \/ \E o \in Orders : Boot(n, o)
    \/ Step(n)
    \/ \E p \in Routed : Toggle(n, p) \/ gate(n, p) \/ EndRequest(n, p)
    \/ Signal(n) \/ ServeError(n) \/ Exit(n)

\* Node m is as it was.
Same(m) ==
    /\ pc'[m] = pc[m] /\ stack'[m] = stack[m] /\ ordered'[m] = ordered[m]
    /\ at'[m] = at[m] /\ services'[m] = services[m] /\ mig'[m] = mig[m]
    /\ inflight'[m] = inflight[m] /\ (m \in late' <=> m \in late)

-----------------------------------------------------------------------------
\* Sequences as topoSort uses them.

\* A frame moves on to its next requirement.
LEMMA MoveFrame ==
    ASSUME NEW s \in Seq(Frame), s # <<>>
    PROVE  LET t == [s EXCEPT ![Len(s)].next = @ + 1] IN
           /\ t \in Seq(Frame)
           /\ Len(t) = Len(s)
           /\ \A k \in 1 .. Len(s) :
                 t[k].name = s[k].name /\ t[k].next = IF k = Len(s) THEN s[k].next + 1 ELSE s[k].next
<1> DEFINE t == [s EXCEPT ![Len(s)].next = @ + 1]
<1>0. Len(s) \in Nat /\ Len(s) # 0 /\ DOMAIN s = 1 .. Len(s)
  BY EmptySeq
<1>1. Len(s) \in 1 .. Len(s) /\ Len(s) \in Nat /\ DOMAIN s = 1 .. Len(s)
  BY <1>0
<1>2. \A k \in 1 .. Len(s) : s[k] \in Frame
  BY ElementOfSeq
<1>3. t = [k \in 1 .. Len(s) |-> IF k = Len(s) THEN [s[k] EXCEPT !.next = @ + 1] ELSE s[k]]
  BY <1>1
<1>4. \A k \in 1 .. Len(s) : [s[k] EXCEPT !.next = @ + 1] \in Frame
  BY <1>2 DEF Frame
<1>5. t \in [1 .. Len(s) -> Frame]
  BY <1>2, <1>3, <1>4
<1>6. t \in Seq(Frame) /\ Len(t) = Len(s)
  BY <1>1, <1>5
<1>7. \A k \in 1 .. Len(s) :
        t[k].name = s[k].name /\ t[k].next = IF k = Len(s) THEN s[k].next + 1 ELSE s[k].next
  BY <1>2, <1>3 DEF Frame
<1> QED  BY <1>6, <1>7

-----------------------------------------------------------------------------
\* Types, and the nodes that do not step.

\* The initial state is well typed.
LEMMA InitType == Init => TypeOK
  BY CoreIsAPlugin, VersionsAreNumbers DEF Init, TypeOK, Stage, Cursor

\* What a step leaves alone.
LEMMA OthersSame ==
    ASSUME TypeOK, NEW n \in Node, NodeStep(n), NEW m \in Node, m # n
    PROVE  Same(m)
<1>1. CASE \E o \in Orders : Boot(n, o)
  BY <1>1 DEF Boot, Goto, At, sortVars, serveVars, TypeOK, Same
<1>2. CASE VisitRoot(n)
  BY <1>2 DEF VisitRoot, Visit, done, Goto, At, sortVars, serveVars, TypeOK, Same
<1>3. CASE VisitDep(n)
  BY <1>3 DEF VisitDep, Top, done, Goto, At, sortVars, serveVars, TypeOK, Same
<1>4. CASE Ordered(n)
  BY <1>4 DEF Ordered, Top, Goto, At, sortVars, serveVars, TypeOK, Same
<1>5. CASE Sorted(n)
  BY <1>5 DEF Sorted, Goto, At, sortVars, serveVars, TypeOK, Same
<1>6. CASE BeginMigrations(n)
  BY <1>6 DEF BeginMigrations, Goto, At, sortVars, serveVars, TypeOK, Same
<1>7. CASE NextSet(n)
  BY <1>7 DEF NextSet, Goto, At, sortVars, serveVars, TypeOK, Same
<1>8. CASE CheckMigration(n)
  BY <1>8 DEF CheckMigration, Goto, At, sortVars, serveVars, TypeOK, Same
<1>9. CASE ApplyMigration(n)
  BY <1>9 DEF ApplyMigration, Module, Goto, At, sortVars, serveVars, TypeOK, Same
<1>10. CASE InitCore(n)
  BY <1>10 DEF InitCore, Advance, Goto, At, sortVars, serveVars, TypeOK, Same
<1>11. CASE InitPlugin(n)
  BY <1>11 DEF InitPlugin, Provided, Advance, Next1, Goto, At, sortVars, serveVars, TypeOK, Same
<1>12. CASE Initialised(n)
  BY <1>12 DEF Initialised, Goto, At, sortVars, serveVars, TypeOK, Same
<1>13. CASE StartPlugin(n)
  BY <1>13 DEF StartPlugin, Advance, Goto, At, sortVars, serveVars, TypeOK, Same
<1>14. CASE Started(n)
  BY <1>14 DEF Started, Goto, At, sortVars, serveVars, TypeOK, Same
<1>15. CASE Cancelled(n)
  BY <1>15 DEF Cancelled, Goto, At, sortVars, serveVars, TypeOK, Same
<1>16. CASE BeginShutdown(n)
  BY <1>16 DEF BeginShutdown, Goto, At, sortVars, serveVars, TypeOK, Same
<1>17. CASE Drained(n)
  BY <1>17 DEF Drained, StopAll, Goto, At, sortVars, serveVars, TypeOK, Same
<1>18. CASE StopPlugin(n)
  BY <1>18 DEF StopPlugin, Goto, At, sortVars, serveVars, TypeOK, Same
<1>19. CASE Stopped(n)
  BY <1>19 DEF Stopped, Goto, At, sortVars, serveVars, TypeOK, Same
<1>20. CASE Signal(n)
  BY <1>20 DEF Signal, Goto, At, sortVars, serveVars, TypeOK, Same
<1>21. CASE ServeError(n)
  BY <1>21 DEF ServeError, StopAll, Goto, At, sortVars, serveVars, TypeOK, Same
<1>22. CASE Exit(n)
  BY <1>22 DEF Exit, Goto, At, sortVars, serveVars, TypeOK, Same
<1>23. CASE \E p \in Routed : Toggle(n, p) \/ gate(n, p) \/ EndRequest(n, p)
  BY <1>23 DEF Toggle, gate, EndRequest, Goto, At, sortVars, serveVars, TypeOK, Same
<1> QED  BY <1>1, <1>2, <1>3, <1>4, <1>5, <1>6, <1>7, <1>8, <1>9, <1>10, <1>11, <1>12, <1>13, <1>14, <1>15, <1>16, <1>17, <1>18, <1>19, <1>20, <1>21, <1>22, <1>23 DEF NodeStep, Step

\* The sequences of topoSort stay sequences of plugins and frames.
LEMMA SortType ==
    ASSUME TypeOK, NEW n \in Node, VisitRoot(n) \/ VisitDep(n) \/ Ordered(n)
    PROVE  TypeOK'
<1>1. CASE VisitRoot(n)
  <2>1. reg[n][root[n]] \in Plugin
    BY <1>1 DEF VisitRoot, TypeOK
  <2>2. [name |-> reg[n][root[n]], next |-> 1] \in Frame
    BY <2>1 DEF Frame
  <2>3. stack[n] \in Seq(Frame)
    BY DEF TypeOK
  <2>4. Visit(n, reg[n][root[n]]) \in Seq(Frame)
    BY <2>2, <2>3 DEF Visit
  <2>5. stack' \in [Node -> Seq(Frame)]
    BY <1>1, <2>4 DEF VisitRoot, TypeOK
  <2> QED  BY <1>1, <2>5 DEF VisitRoot, TypeOK, serveVars
<1>2. CASE VisitDep(n)
  <2>1. stack[n] \in Seq(Frame) /\ stack[n] # <<>>
    BY <1>2 DEF VisitDep, TypeOK
  <2> DEFINE moved == [stack[n] EXCEPT ![Len(stack[n])].next = @ + 1]
             dep == Requires[Top(n).name][Top(n).next]
  <2>2. moved \in Seq(Frame)
    BY <2>1, MoveFrame DEF Frame
  <2>3. Top(n) \in Frame
    BY <2>1, EmptySeq, ElementOfSeq DEF Top
  <2>4. dep \in Plugin
    BY <1>2, <2>3, RequiresAreNames DEF VisitDep, Frame
  <2>5. [name |-> dep, next |-> 1] \in Frame
    BY <2>4 DEF Frame
  <2>6. stack' = stack \/ stack' = [stack EXCEPT ![n] = moved]
          \/ stack' = [stack EXCEPT ![n] = Append(moved, [name |-> dep, next |-> 1])]
    BY <1>2 DEF VisitDep
  <2> HIDE DEF moved, dep
  <2>a. Append(moved, [name |-> dep, next |-> 1]) \in Seq(Frame)
    BY <2>2, <2>5
  <2>7. stack' \in [Node -> Seq(Frame)]
    BY <2>2, <2>a, <2>6 DEF TypeOK
  <2>8. pc' = pc \/ pc' = [pc EXCEPT ![n] = "ended"]
    BY <1>2 DEF VisitDep, Goto
  <2> QED  BY <1>2, <2>7, <2>8 DEF VisitDep, Stage, TypeOK, serveVars
<1>3. CASE Ordered(n)
  <2>1. stack[n] \in Seq(Frame) /\ stack[n] # <<>>
    BY <1>3 DEF Ordered, TypeOK
  <2>2. Top(n) \in Frame
    BY <2>1, EmptySeq, ElementOfSeq DEF Top
  <2>3. Top(n).name \in Plugin
    BY <2>2 DEF Frame
  <2>4. SubSeq(stack[n], 1, Len(stack[n]) - 1) \in Seq(Frame)
    BY <2>1, EmptySeq
  <2>5. stack' \in [Node -> Seq(Frame)]
    BY <1>3, <2>4 DEF Ordered, TypeOK
  <2>6. ordered' \in [Node -> Seq(Plugin)]
    BY <1>3, <2>3 DEF Ordered, TypeOK
  <2> QED  BY <1>3, <2>5, <2>6 DEF Ordered, TypeOK, serveVars
<1> QED  BY <1>1, <1>2, <1>3

\* A count goes up.
LEMMA CountsUp ==
    ASSUME NEW m \in Nat, NEW f \in [1 .. m -> Nat], NEW v
    PROVE  [f EXCEPT ![v] = @ + 1] \in [1 .. m -> Nat]
<1>1. CASE v \in 1 .. m
  BY <1>1
<1>2. CASE v \notin 1 .. m
  <2>1. [f EXCEPT ![v] = @ + 1] = f
    BY <1>2
  <2> QED  BY <2>1
<1> QED  BY <1>1, <1>2

\* A cursor moves to the next version.
LEMMA CursorMoves ==
    ASSUME TypeOK, NEW n \in Node
    PROVE  [mig EXCEPT ![n].version = @ + 1] \in [Node -> Cursor]
<1>1. mig[n] \in Cursor
  BY DEF TypeOK
<1>2. [mig[n] EXCEPT !.version = @ + 1] \in Cursor
  BY <1>1 DEF Cursor
<1> QED  BY <1>2 DEF TypeOK

\* Every step keeps the types.
LEMMA StepType == ASSUME TypeOK, NEW n \in Node, NodeInv(n), NodeStep(n) PROVE TypeOK'
<1>1. CASE \E o \in Orders : Boot(n, o)
  BY <1>1, OrdersArePlugins DEF Boot, Stage, Goto, At, sortVars, serveVars, TypeOK
<1>2. CASE Sorted(n)
  BY <1>2, CoreIsAPlugin DEF Sorted, Goto, At, sortVars, serveVars, TypeOK, Stage, Service
<1>3. CASE BeginMigrations(n)
  BY <1>3 DEF BeginMigrations, Goto, At, sortVars, serveVars, TypeOK, Stage
<1>4. CASE NextSet(n)
  BY <1>4 DEF NextSet, Goto, At, sortVars, serveVars, TypeOK, Stage, Cursor
<1>5. CASE CheckMigration(n)
  <2>1. mig' = mig \/ mig' = [mig EXCEPT ![n].version = @ + 1]
    BY <1>5 DEF CheckMigration
  <2>2. mig' \in [Node -> Cursor]
    <3>1. mig \in [Node -> Cursor]
      BY DEF TypeOK
    <3>2. [mig EXCEPT ![n].version = @ + 1] \in [Node -> Cursor]
      BY CursorMoves
    <3> QED  BY <2>1, <3>1, <3>2
  <2>3. pc' \in [Node -> Stage]
    BY <1>5 DEF CheckMigration, Goto, TypeOK, Stage
  <2>4. UNCHANGED <<reg, root, stack, ordered, at, services, applied, inflight, signalled, late>>
    BY <1>5 DEF CheckMigration, sortVars, serveVars
  <2> QED  BY <2>2, <2>3, <2>4 DEF TypeOK
<1>6. CASE ApplyMigration(n)
  <2>a. mig' = mig \/ mig' = [mig EXCEPT ![n].version = @ + 1]
    BY <1>6 DEF ApplyMigration
  <2>b. mig' \in [Node -> Cursor]
    <3>1. mig \in [Node -> Cursor]
      BY DEF TypeOK
    <3>2. [mig EXCEPT ![n].version = @ + 1] \in [Node -> Cursor]
      BY CursorMoves
    <3> QED  BY <2>a, <3>1, <3>2
  <2>c. pc' \in [Node -> Stage]
    BY <1>6 DEF ApplyMigration, Goto, TypeOK, Stage
  <2>d. UNCHANGED <<reg, root, stack, ordered, at, services, inflight, signalled, late>>
    BY <1>6 DEF ApplyMigration, sortVars, serveVars
  <2>1. CASE applied' = applied
    BY <2>b, <2>c, <2>d, <2>1 DEF TypeOK
  <2>2. CASE applied' # applied
    <3>1. applied' = [applied EXCEPT ![Module(n)][mig[n].version] = @ + 1]
      BY <1>6, <2>2 DEF ApplyMigration
    <3>2. ASSUME NEW p \in Plugin PROVE applied'[p] \in [1 .. Versions[p] -> Nat]
      <4>1. applied[p] \in [1 .. Versions[p] -> Nat] /\ p \in DOMAIN applied
        BY DEF TypeOK
      <4>2. CASE p # Module(n)
        BY <3>1, <4>1, <4>2
      <4>3. CASE p = Module(n)
        <5>1. applied'[p] = [applied[p] EXCEPT ![mig[n].version] = @ + 1]
          BY <3>1, <4>1, <4>3
        <5>2. Versions[p] \in Nat
          BY VersionsAreNumbers
        <5> QED  BY <4>1, <5>1, <5>2, CountsUp
      <4> QED  BY <4>2, <4>3
    <3>3. DOMAIN applied' = Plugin
      BY <3>1 DEF TypeOK
    <3> QED  BY <2>b, <2>c, <2>d, <3>2, <3>3 DEF TypeOK
  <2> QED  BY <2>1, <2>2
<1>7. CASE InitCore(n)
  BY <1>7, CoreIsAPlugin DEF InitCore, Advance, Goto, At, sortVars, serveVars, TypeOK, Stage, Service
<1>8. CASE InitPlugin(n)
  <2>1. Next1(n) \in Plugin
    BY <1>8 DEF InitPlugin, Next1, At, TypeOK, NodeInv, Position
  <2>2. services[n] \cup Provides[Next1(n)] \in SUBSET Service
    BY <2>1 DEF TypeOK, Service
  <2>3. services' \in [Node -> SUBSET Service]
    BY <1>8, <2>2 DEF InitPlugin, Provided, TypeOK
  <2>4. pc' = pc \/ pc' = [pc EXCEPT ![n] = "ended"]
    BY <1>8 DEF InitPlugin, Provided, Goto
  <2>5. pc' \in [Node -> Stage]
    BY <2>4 DEF TypeOK, Stage
  <2>6. at' \in [Node -> Nat]
    BY <1>8 DEF InitPlugin, Advance, TypeOK
  <2> QED  BY <1>8, <2>3, <2>5, <2>6 DEF InitPlugin, sortVars, serveVars, TypeOK
<1>9. CASE Initialised(n)
  BY <1>9 DEF Initialised, Goto, At, sortVars, serveVars, TypeOK, Stage
<1>10. CASE StartPlugin(n)
  BY <1>10 DEF StartPlugin, Advance, Goto, At, sortVars, serveVars, TypeOK, Stage
<1>11. CASE Started(n)
  BY <1>11 DEF Started, Goto, At, sortVars, serveVars, TypeOK, Stage
<1>12. CASE Cancelled(n)
  BY <1>12 DEF Cancelled, Goto, At, sortVars, serveVars, TypeOK, Stage
<1>13. CASE BeginShutdown(n)
  BY <1>13 DEF BeginShutdown, Goto, At, sortVars, serveVars, TypeOK, Stage
<1>14. CASE Drained(n)
  BY <1>14 DEF Drained, StopAll, Goto, At, sortVars, serveVars, TypeOK, Stage
<1>15. CASE StopPlugin(n)
  BY <1>15 DEF StopPlugin, Goto, At, sortVars, serveVars, TypeOK, Stage
<1>16. CASE Stopped(n)
  BY <1>16 DEF Stopped, Goto, At, sortVars, serveVars, TypeOK, Stage
<1>17. CASE Signal(n)
  BY <1>17 DEF Signal, Goto, At, sortVars, serveVars, TypeOK, Stage
<1>18. CASE ServeError(n)
  BY <1>18 DEF ServeError, StopAll, Goto, At, sortVars, serveVars, TypeOK, Stage
<1>19. CASE Exit(n)
  BY <1>19 DEF Exit, Goto, At, sortVars, serveVars, TypeOK, Stage, Cursor
<1>20. CASE \E p \in Routed : Toggle(n, p) \/ gate(n, p) \/ EndRequest(n, p)
  <2>1. done(n) \subseteq Plugin
    BY DEF done, Range, TypeOK
  <2>2. PICK p : Toggle(n, p) \/ gate(n, p) \/ EndRequest(n, p)
    BY <1>20
  <2>3. \/ inflight' = inflight
        \/ p \in Plugin /\ inflight' = [inflight EXCEPT ![n] = @ \cup {p}]
        \/ inflight' = [inflight EXCEPT ![n] = @ \ {p}]
    BY <2>1, <2>2 DEF Toggle, gate, EndRequest
  <2>a. PICK v : v \subseteq Plugin /\ inflight' = [inflight EXCEPT ![n] = v]
    <3>1. inflight \in [Node -> SUBSET Plugin] /\ inflight[n] \subseteq Plugin
      BY DEF TypeOK
    <3>2. CASE inflight' = inflight
      BY <3>1, <3>2
    <3>3. CASE p \in Plugin /\ inflight' = [inflight EXCEPT ![n] = @ \cup {p}]
      BY <3>1, <3>3
    <3>4. CASE inflight' = [inflight EXCEPT ![n] = @ \ {p}]
      BY <3>1, <3>4
    <3> QED  BY <2>3, <3>2, <3>3, <3>4
  <2>4. inflight' \in [Node -> SUBSET Plugin]
    BY <2>a DEF TypeOK
  <2> QED  BY <2>2, <2>4 DEF Toggle, gate, EndRequest, sortVars, TypeOK
<1> QED  BY <1>1, <1>2, <1>3, <1>4, <1>5, <1>6, <1>7, <1>8, <1>9, <1>10, <1>11, <1>12, <1>13, <1>14, <1>15, <1>16, <1>17, <1>18, <1>19, <1>20, SortType DEF NodeStep, Step

\* A node that does not step keeps its invariant.
LEMMA SameNode == ASSUME NEW m \in Node, NodeInv(m), Same(m) PROVE NodeInv(m)'
<1>1. Fresh(m)' /\ Closed(m)'
  BY DEF NodeInv, Fresh, Closed, Same
<1>2. Frames(m)'
  BY DEF NodeInv, Frames, Same, done
<1>3. Position(m)'
  BY DEF NodeInv, Position, Same, Next1
<1> QED  BY <1>1, <1>2, <1>3 DEF NodeInv

\* The part of the invariant about topoSort, in steps outside it.
LEMMA SameSort ==
    ASSUME NEW n \in Node, NodeInv(n), stack'[n] = stack[n], ordered'[n] = ordered[n]
    PROVE  Frames(n)' /\ Closed(n)'
<1>1. done(n)' = done(n) /\ Frames(n) /\ Closed(n)
  BY DEF done, NodeInv
<1>2. Frames(n)'
  BY ONLY <1>1, stack'[n] = stack[n] DEF Frames
<1>3. Closed(n)'
  BY ONLY <1>1, ordered'[n] = ordered[n] DEF Closed
<1> QED  BY <1>2, <1>3

\* No plugin has been visited yet.
LEMMA NothingSorted ==
    ASSUME NEW n \in Node, stack'[n] = <<>>, ordered'[n] = <<>>
    PROVE  Frames(n)' /\ Closed(n)'
  BY DEF Frames, Closed

\* A visit of the loop over the registered plugins: its frame has passed nothing.
LEMMA VisitRootNode ==
    ASSUME TypeOK, NEW n \in Node, NodeInv(n), VisitRoot(n)
    PROVE  NodeInv(n)'
<1>1. Fresh(n)' /\ Position(n)' /\ Closed(n)'
  BY DEF VisitRoot, At, NodeInv, Fresh, Position, Closed, TypeOK, serveVars, Next1
<1>2. Frames(n)'
  <2>1. CASE stack' = stack
    BY <2>1 DEF VisitRoot, NodeInv, Frames, done
  <2>2. CASE stack' # stack
    <3>1. stack'[n] = Append(<<>>, [name |-> reg[n][root[n]], next |-> 1])
      BY <2>2 DEF VisitRoot, Visit, TypeOK
    <3>2. Len(stack'[n]) = 1 /\ stack'[n][1].next = 1
      BY <3>1
    <3> QED  BY <3>2 DEF Frames
  <2> QED  BY <2>1, <2>2
<1> QED  BY <1>1, <1>2 DEF NodeInv

\* A requirement of the plugin on top: it is done already, or a frame for it is
\* put above.
LEMMA VisitDepNode ==
    ASSUME TypeOK, NEW n \in Node, NodeInv(n), VisitDep(n)
    PROVE  NodeInv(n)'
<1> DEFINE s == stack[n]
           moved == [s EXCEPT ![Len(s)].next = @ + 1]
           top == s[Len(s)]
           dep == Requires[top.name][top.next]
<1>1. s \in Seq(Frame) /\ s # <<>>
  BY DEF VisitDep, TypeOK
<1>2. Len(s) \in Nat \ {0} /\ top \in Frame
  BY <1>1, EmptySeq, ElementOfSeq
<1>3. /\ moved \in Seq(Frame) /\ Len(moved) = Len(s)
      /\ \A k \in 1 .. Len(s) :
            moved[k].name = s[k].name
            /\ moved[k].next = IF k = Len(s) THEN s[k].next + 1 ELSE s[k].next
  BY <1>1, MoveFrame
<1>4. Fresh(n)' /\ Position(n)' /\ Closed(n)'
  BY DEF VisitDep, At, Goto, NodeInv, Fresh, Position, Closed, TypeOK, serveVars, Next1
<1>5. \A k \in 1 .. Len(s) : s[k] \in Frame
  BY <1>1, ElementOfSeq
<1>6. done(n)' = done(n)
  BY DEF VisitDep, done
<1>7. \A k \in 1 .. Len(s) : \A d \in 1 .. Len(Requires[s[k].name]) :
        d < s[k].next => \/ Requires[s[k].name][d] \in done(n)
                         \/ k < Len(s) /\ Requires[s[k].name][d] = s[k + 1].name
  BY DEF NodeInv, Frames
<1>8. CASE stack' = stack
  BY <1>4, <1>6, <1>8 DEF NodeInv, Frames
<1>9. CASE dep \in done(n) /\ stack'[n] = moved
  <2> HIDE DEF s, moved
  <2>1. \A k \in 1 .. Len(moved) : \A d \in 1 .. Len(Requires[moved[k].name]) :
          d < moved[k].next => \/ Requires[moved[k].name][d] \in done(n)
                               \/ k < Len(moved) /\ Requires[moved[k].name][d] = moved[k + 1].name
    <3> SUFFICES ASSUME NEW k \in 1 .. Len(moved), NEW d \in 1 .. Len(Requires[moved[k].name]),
                        d < moved[k].next, Requires[moved[k].name][d] \notin done(n)
                 PROVE  k < Len(moved) /\ Requires[moved[k].name][d] = moved[k + 1].name
      OBVIOUS
    <3>1. s[k] \in Frame /\ k \in 1 .. Len(s) /\ d \in Nat
      BY <1>2, <1>3, <1>5
    <3>2. s[k].next \in Nat
      BY <3>1 DEF Frame
    <3>3. d < s[k].next
      BY <1>2, <1>3, <1>9, <3>1, <3>2
    <3>4. k < Len(s) /\ Requires[s[k].name][d] = s[k + 1].name
      BY <1>3, <1>7, <3>1, <3>3
    <3> QED  BY <1>2, <1>3, <3>1, <3>4
  <2> QED  BY <1>4, <1>6, <1>9, <2>1 DEF NodeInv, Frames
<1>10. CASE stack'[n] = Append(moved, [name |-> dep, next |-> 1])
  <2> DEFINE f == [name |-> dep, next |-> 1]
             t == Append(moved, f)
  <2> HIDE DEF s, moved, dep
  <2>1. Len(t) = Len(s) + 1 /\ t[Len(s) + 1] = f /\ \A k \in 1 .. Len(s) : t[k] = moved[k]
    BY <1>2, <1>3
  <2>2. f.name = dep /\ f.next = 1
    OBVIOUS
  <2> HIDE DEF t, f
  <2>3. \A k \in 1 .. Len(t) : \A d \in 1 .. Len(Requires[t[k].name]) :
          d < t[k].next => \/ Requires[t[k].name][d] \in done(n)
                           \/ k < Len(t) /\ Requires[t[k].name][d] = t[k + 1].name
    <3> SUFFICES ASSUME NEW k \in 1 .. Len(t), NEW d \in 1 .. Len(Requires[t[k].name]),
                        d < t[k].next, Requires[t[k].name][d] \notin done(n)
                 PROVE  k < Len(t) /\ Requires[t[k].name][d] = t[k + 1].name
      OBVIOUS
    <3>1. k # Len(s) + 1
      BY <2>1, <2>2
    <3>2. k \in 1 .. Len(s) /\ k < Len(t)
      BY <1>2, <2>1, <3>1
    <3>3. t[k].name = s[k].name /\ s[k] \in Frame
          /\ t[k].next = IF k = Len(s) THEN s[k].next + 1 ELSE s[k].next
      BY <1>3, <1>5, <2>1, <3>2
    <3>4. s[k].next \in Nat /\ d \in Nat
      BY <3>3 DEF Frame
    <3>5. CASE d < s[k].next
      <4>1. k < Len(s) /\ Requires[s[k].name][d] = s[k + 1].name
        BY <1>7, <3>2, <3>3, <3>5
      <4>2. t[k + 1].name = s[k + 1].name
        BY <1>2, <1>3, <2>1, <3>2, <4>1
      <4> QED  BY <3>2, <3>3, <4>1, <4>2
    <3>6. CASE ~(d < s[k].next)
      <4>1. k = Len(s) /\ d = s[k].next
        BY <3>3, <3>4, <3>6
      <4>2. Requires[t[k].name][d] = dep
        BY <3>3, <4>1 DEF dep
      <4> QED  BY <2>1, <2>2, <3>2, <4>1, <4>2
    <3> QED  BY <3>5, <3>6
  <2>4. stack'[n] = t
    BY <1>10 DEF t, f
  <2> QED  BY <1>4, <1>6, <2>3, <2>4 DEF NodeInv, Frames
<1>11. \/ stack' = stack
       \/ dep \in done(n) /\ stack'[n] = moved
       \/ stack'[n] = Append(moved, [name |-> dep, next |-> 1])
  BY DEF VisitDep, Top, TypeOK
<1> QED  BY <1>8, <1>9, <1>10, <1>11

\* The plugin on top has all it requires in the result before it.
LEMMA OrderedNode ==
    ASSUME TypeOK, NEW n \in Node, NodeInv(n), Ordered(n)
    PROVE  NodeInv(n)'
<1> DEFINE s == stack[n]
           o == ordered[n]
           top == s[Len(s)]
<1>1. s \in Seq(Frame) /\ s # <<>> /\ o \in Seq(Plugin) /\ Len(o) \in Nat
  BY DEF Ordered, TypeOK
<1>2. Len(s) \in Nat \ {0} /\ top \in Frame
  BY <1>1, EmptySeq, ElementOfSeq
<1>3. top.name \in Plugin /\ top.next \in Nat /\ top.next > Len(Requires[top.name])
  BY <1>2 DEF Frame, Ordered, Top
<1>a. Requires[top.name] \in Seq(Plugin)
  BY <1>3, RequiresAreNames
<1>4. \A d \in 1 .. Len(Requires[top.name]) : Requires[top.name][d] \in done(n)
  BY <1>2, <1>3, <1>a DEF NodeInv, Frames
<1>5. ordered'[n] = Append(o, top.name) /\ stack'[n] = SubSeq(s, 1, Len(s) - 1)
  BY DEF Ordered, Top, TypeOK
<1>6. /\ Len(ordered'[n]) = Len(o) + 1 /\ ordered'[n][Len(o) + 1] = top.name
      /\ \A i \in 1 .. Len(o) : ordered'[n][i] = o[i]
  BY <1>1, <1>3, <1>5
<1>7. /\ Len(stack'[n]) = Len(s) - 1
      /\ \A k \in 1 .. Len(s) - 1 : stack'[n][k] = s[k]
  BY <1>1, <1>2, <1>5
<1>8. done(n) = {o[i] : i \in 1 .. Len(o)} /\ done(n)' = done(n) \cup {top.name}
  <2>1. DOMAIN o = 1 .. Len(o) /\ DOMAIN ordered'[n] = 1 .. Len(o) + 1
    BY <1>1, <1>3, <1>5
  <2>2. done(n) = {o[i] : i \in 1 .. Len(o)} /\ done(n)' = {ordered'[n][i] : i \in 1 .. Len(o) + 1}
    BY <2>1 DEF done, Range
  <2>3. \A i \in 1 .. Len(o) + 1 : i \in 1 .. Len(o) \/ i = Len(o) + 1
    BY <1>1
  <2>4. \A i \in 1 .. Len(o) : i \in 1 .. Len(o) + 1
    BY <1>1
  <2>5. Len(o) + 1 \in 1 .. Len(o) + 1
    BY <1>1
  <2> HIDE DEF o
  <2>6. {ordered'[n][i] : i \in 1 .. Len(o) + 1} = {o[i] : i \in 1 .. Len(o)} \cup {top.name}
    BY <1>6, <2>3, <2>4, <2>5, Zenon
  <2> QED  BY <2>2, <2>6
<1>9. Fresh(n)'
  BY DEF Ordered, At, NodeInv, Fresh
<1>10. Position(n)'
  BY DEF Ordered, At, Position
<1>11. Closed(n)'
  <2> SUFFICES ASSUME NEW i \in 1 .. Len(o) + 1, NEW d \in 1 .. Len(Requires[ordered'[n][i]])
               PROVE  \E j \in 1 .. i - 1 : ordered'[n][j] = Requires[ordered'[n][i]][d]
    BY <1>6 DEF Closed
  <2>1. CASE i = Len(o) + 1
    <3>a. d \in 1 .. Len(Requires[top.name])
      BY <1>6, <2>1
    <3>1. PICK j \in 1 .. Len(o) : o[j] = Requires[top.name][d]
      BY ONLY <1>4, <1>8, <3>a
    <3>2. j \in 1 .. i - 1 /\ ordered'[n][j] = o[j] /\ ordered'[n][i] = top.name
      BY <1>1, <1>6, <2>1
    <3> QED  BY ONLY <3>1, <3>2
  <2>2. CASE i # Len(o) + 1
    <3>1. i \in 1 .. Len(o) /\ ordered'[n][i] = o[i]
      BY <1>1, <1>6, <2>2
    <3>2. PICK j \in 1 .. i - 1 : o[j] = Requires[o[i]][d]
      BY <3>1 DEF NodeInv, Closed
    <3>3. j \in 1 .. Len(o)
      BY <1>1, <3>1
    <3>4. ordered'[n][j] = o[j]
      BY <1>6, <3>3
    <3> QED  BY ONLY <3>1, <3>2, <3>4
  <2> QED  BY <2>1, <2>2
<1>12. Frames(n)'
  <2> SUFFICES ASSUME NEW k \in 1 .. Len(s) - 1, NEW d \in 1 .. Len(Requires[s[k].name]),
                      d < s[k].next
               PROVE  \/ Requires[s[k].name][d] \in done(n)'
                      \/ k < Len(s) - 1 /\ Requires[s[k].name][d] = s[k + 1].name
    <3>1. \A k \in 1 .. Len(s) - 1 : k < Len(s) - 1 => stack'[n][k + 1] = s[k + 1]
      <4> TAKE k \in 1 .. Len(s) - 1
      <4> HAVE k < Len(s) - 1
      <4>1. k + 1 \in 1 .. Len(s) - 1
        BY <1>2
      <4> QED  BY <1>7, <4>1
    <3>2. Len(stack'[n]) = Len(s) - 1 /\ \A k \in 1 .. Len(s) - 1 : stack'[n][k] = s[k]
      BY <1>7
    <3> QED  BY ONLY <3>1, <3>2,
                     \A k \in 1 .. Len(s) - 1 : \A d \in 1 .. Len(Requires[s[k].name]) :
                         d < s[k].next =>
                             \/ Requires[s[k].name][d] \in done(n)'
                             \/ k < Len(s) - 1 /\ Requires[s[k].name][d] = s[k + 1].name
             DEF Frames
  <2>1. \/ Requires[s[k].name][d] \in done(n)
        \/ k < Len(s) /\ Requires[s[k].name][d] = s[k + 1].name
    <3>1. Frames(n) /\ k \in 1 .. Len(stack[n])
      BY <1>2 DEF NodeInv
    <3> QED  BY ONLY <3>1, d \in 1 .. Len(Requires[s[k].name]), d < s[k].next DEF Frames
  <2>2. k = Len(s) - 1 => s[k + 1].name = top.name
    BY <1>2
  <2>3. k < Len(s) - 1 \/ k = Len(s) - 1
    BY <1>2
  <2> QED  BY <1>8, <2>1, <2>2, <2>3
<1> QED  BY <1>9, <1>10, <1>11, <1>12 DEF NodeInv

-----------------------------------------------------------------------------
\* The other steps of a node.

\* What main and topoSort hand over to Init, and what Exit leaves.
LEMMA BootNode ==
    ASSUME TypeOK, NEW n \in Node, NodeInv(n),
           (\E o \in Orders : Boot(n, o)) \/ Exit(n) \/ Sorted(n)
    PROVE  NodeInv(n)'
<1>1. CASE \E o \in Orders : Boot(n, o)
  <2>1. Fresh(n)' /\ Position(n)'
    BY <1>1 DEF Boot, At, Goto, NodeInv, Fresh, Position, TypeOK
  <2> QED  BY <1>1, <2>1, SameSort DEF Boot, NodeInv
<1>2. CASE Exit(n)
  <2>1. pc'[n] = "down" /\ stack'[n] = <<>> /\ ordered'[n] = <<>>
        /\ at'[n] = 1 /\ mig'[n] = [set |-> 0, version |-> 1]
    BY <1>2 DEF Exit, Goto, TypeOK
  <2> QED  BY <2>1, NothingSorted DEF NodeInv, Fresh, Position
<1>3. CASE Sorted(n)
  <2>1. pc'[n] = "init" /\ services'[n] = KernelServices /\ at'[n] = 1
        /\ ordered'[n] = ordered[n] /\ stack'[n] = stack[n]
    BY <1>3 DEF Sorted, At, Goto, sortVars, TypeOK, NodeInv, Fresh
  <2>2. 1 \in 1 .. Len(ordered[n]) + 1
    BY DEF TypeOK
  <2>3. Fresh(n)' /\ Position(n)'
    BY <2>1, <2>2 DEF Fresh, Position
  <2> QED  BY <2>1, <2>3, SameSort DEF NodeInv
<1> QED  BY <1>1, <1>2, <1>3

\* Steps of the migrations, which stay with the plugin that Init is at.
LEMMA MigrationNode ==
    ASSUME TypeOK, NEW n \in Node, NodeInv(n),
           \/ BeginMigrations(n) \/ NextSet(n) \/ CheckMigration(n)
           \/ ApplyMigration(n) \/ Cancelled(n)
    PROVE  NodeInv(n)'
<1>1. /\ stack'[n] = stack[n] /\ ordered'[n] = ordered[n] /\ at'[n] = at[n]
      /\ services'[n] = services[n]
  BY DEF BeginMigrations, NextSet, CheckMigration, ApplyMigration, Cancelled, sortVars
<1>2. \/ pc'[n] = "ended"
      \/ pc[n] \in {"migrate", "apply"} /\ pc'[n] \in {"migrate", "apply"}
      \/ pc[n] = "init" /\ pc'[n] = "migrate" /\ at[n] <= Len(ordered[n]) /\ Next1(n) = Core
  BY DEF BeginMigrations, NextSet, CheckMigration, ApplyMigration, Cancelled, At, Goto, TypeOK
<1>3. Fresh(n)' /\ Position(n)'
  BY <1>1, <1>2 DEF NodeInv, Fresh, Position, Next1
<1> QED  BY <1>1, <1>3, SameSort DEF NodeInv

\* An Init that succeeds leaves its services behind.
LEMMA InitNode ==
    ASSUME TypeOK, NEW n \in Node, NodeInv(n), InitCore(n) \/ InitPlugin(n)
    PROVE  NodeInv(n)'
<1>1. /\ stack'[n] = stack[n] /\ ordered'[n] = ordered[n] /\ at'[n] = at[n] + 1
      /\ pc[n] \in {"init", "migrate"} /\ at[n] \in Nat /\ Len(ordered[n]) \in Nat
  BY DEF InitCore, InitPlugin, Advance, At, sortVars, TypeOK
<1>2. at[n] \in 1 .. Len(ordered[n])
  BY DEF InitCore, InitPlugin, At, NodeInv, Position, TypeOK
<1>3. \/ pc'[n] = "ended"
      \/ pc'[n] = "init" /\ services'[n] = services[n] \cup Provides[ordered[n][at[n]]]
  BY DEF InitCore, InitPlugin, Provided, Goto, At, Next1, NodeInv, Position, TypeOK
<1>4. \A i \in 1 .. at[n] + 1 - 1 : i \in 1 .. at[n] - 1 \/ i = at[n]
  BY <1>1
<1>5. KernelServices \subseteq services[n]
      /\ \A i \in 1 .. at[n] - 1 : Provides[ordered[n][i]] \subseteq services[n]
  BY <1>1 DEF NodeInv, Position
<1>6. at[n] + 1 \in 1 .. Len(ordered[n]) + 1
  BY <1>1, <1>2
<1>7. CASE pc'[n] = "ended"
  BY <1>1, <1>7, SameSort DEF NodeInv, Fresh, Position
<1>8. CASE pc'[n] = "init" /\ services'[n] = services[n] \cup Provides[ordered[n][at[n]]]
  <2>1. Fresh(n)'
    BY <1>8 DEF Fresh
  <2>2. KernelServices \subseteq services'[n]
    BY <1>5, <1>8
  <2>3. \A i \in 1 .. at'[n] - 1 : Provides[ordered'[n][i]] \subseteq services'[n]
    BY <1>1, <1>4, <1>5, <1>8
  <2>4. at'[n] \in 1 .. Len(ordered'[n]) + 1
    BY <1>1, <1>6
  <2>5. Position(n)'
    BY <1>8, <2>2, <2>3, <2>4 DEF Position
  <2> QED  BY <1>1, <2>1, <2>5, SameSort DEF NodeInv
<1> QED  BY <1>3, <1>7, <1>8

\* Serving and stopping.
LEMMA ServeNode ==
    ASSUME TypeOK, NEW n \in Node, NodeInv(n),
           \/ Initialised(n) \/ StartPlugin(n) \/ Started(n) \/ BeginShutdown(n)
           \/ Drained(n) \/ StopPlugin(n) \/ Stopped(n) \/ Signal(n) \/ ServeError(n)
           \/ \E p \in Routed : Toggle(n, p) \/ gate(n, p) \/ EndRequest(n, p)
    PROVE  NodeInv(n)'
<1>1. CASE Initialised(n) \/ StartPlugin(n) \/ Started(n) \/ BeginShutdown(n) \/ Stopped(n)
  <2>1. /\ stack'[n] = stack[n] /\ ordered'[n] = ordered[n]
        /\ pc'[n] \in {"start", "serve", "drain", "ended"}
    BY <1>1 DEF Initialised, StartPlugin, Started, BeginShutdown, Stopped, At, Goto, sortVars, TypeOK
  <2> QED  BY <2>1, SameSort DEF NodeInv, Fresh, Position
<1>2. CASE Drained(n) \/ ServeError(n)
  <2>1. /\ stack'[n] = stack[n] /\ ordered'[n] = ordered[n] /\ pc'[n] = "stop"
        /\ at'[n] = Len(ordered[n]) /\ inflight'[n] = inflight[n]
        /\ (n \notin late' => inflight[n] = {})
    BY <1>2 DEF Drained, ServeError, StopAll, At, Goto, sortVars, TypeOK
  <2>2. Len(ordered[n]) \in Nat
    BY DEF TypeOK
  <2> QED  BY <2>1, <2>2, SameSort DEF NodeInv, Fresh, Position
<1>3. CASE StopPlugin(n)
  <2>1. /\ stack'[n] = stack[n] /\ ordered'[n] = ordered[n] /\ pc'[n] = "stop" /\ pc[n] = "stop"
        /\ at'[n] = at[n] - 1 /\ inflight'[n] = inflight[n] /\ late' = late
        /\ at[n] \in Nat /\ Len(ordered[n]) \in Nat
    BY <1>3 DEF StopPlugin, At, sortVars, serveVars, TypeOK
  <2>2. at[n] <= Len(ordered[n]) /\ (n \notin late => inflight[n] = {})
    BY <2>1 DEF NodeInv, Position
  <2> QED  BY <2>1, <2>2, SameSort DEF NodeInv, Fresh, Position
<1>4. CASE Signal(n)
  <2>1. Same(n)
    BY <1>4 DEF Signal, Same, sortVars, serveVars
  <2> QED  BY <2>1, SameNode
<1>5. CASE \E p \in Routed : Toggle(n, p) \/ gate(n, p) \/ EndRequest(n, p)
  <2>1. PICK p \in Routed : Toggle(n, p) \/ gate(n, p) \/ EndRequest(n, p)
    BY <1>5
  <2>2. /\ stack'[n] = stack[n] /\ ordered'[n] = ordered[n] /\ pc'[n] = pc[n]
        /\ at'[n] = at[n] /\ mig'[n] = mig[n] /\ services'[n] = services[n] /\ late' = late
    BY <2>1 DEF Toggle, gate, EndRequest, sortVars
  <2>3. pc[n] = "stop" /\ inflight[n] = {} => inflight'[n] = {}
    BY <2>1 DEF Toggle, gate, EndRequest, At
  <2>4. Fresh(n)' /\ Position(n)'
    BY <2>2, <2>3 DEF NodeInv, Fresh, Position, Next1
  <2> QED  BY <2>2, <2>4, SameSort DEF NodeInv
<1> QED  BY <1>1, <1>2, <1>3, <1>4, <1>5

\* The invariant holds at first and every step of every node keeps it.
LEMMA InitKernel == Init => KernelIInv
<1> SUFFICES ASSUME Init PROVE KernelIInv
  OBVIOUS
<1>1. ASSUME NEW n \in Node PROVE NodeInv(n)
  BY DEF Init, NodeInv, Fresh, Frames, Closed, Position
<1> QED  BY <1>1, InitType DEF KernelIInv

\* One step.
LEMMA NextKernel == ASSUME KernelIInv, [Next]_vars PROVE KernelIInv'
<1>1. CASE UNCHANGED vars
  <2>1. TypeOK'
    BY <1>1 DEF KernelIInv, TypeOK, vars, sortVars, serveVars
  <2>2. \A m \in Node : Same(m)
    BY <1>1 DEF Same, vars, sortVars, serveVars
  <2> QED  BY <2>1, <2>2, SameNode DEF KernelIInv
<1>2. CASE Next
  <2>1. PICK n \in Node : NodeStep(n)
    BY <1>2 DEF Next, NodeStep
  <2>2. TypeOK /\ \A m \in Node : NodeInv(m)
    BY DEF KernelIInv
  <2>3. TypeOK'
    BY <2>1, <2>2, StepType
  <2>4. NodeInv(n)'
    BY <2>1, <2>2, VisitRootNode, VisitDepNode, OrderedNode, BootNode, MigrationNode, InitNode, ServeNode
    DEF NodeStep, Step
  <2>5. ASSUME NEW m \in Node, m # n PROVE NodeInv(m)'
    BY <2>1, <2>2, <2>5, OthersSame, SameNode
  <2> QED  BY <2>3, <2>4, <2>5 DEF KernelIInv
<1> QED  BY <1>1, <1>2

\* topoSort's frames, its result and Run's position in it fit together at every
\* step of Run (kernel.go:84-191 and :193-233).
THEOREM KernelInvariant == Spec => []KernelIInv
  BY InitKernel, NextKernel, PTL DEF Spec

\* A prefix of topoSort's result contains all that its plugins require.
LEMMA PrefixCloses ==
    ASSUME TypeOK, NEW n \in Node, Closed(n), NEW i \in 0 .. Len(ordered[n]),
           NEW k \in 1 .. i, NEW q \in Range(Requires[ordered[n][k]])
    PROVE  \E j \in 1 .. k - 1 : ordered[n][j] = q
<1>1. ordered[n] \in Seq(Plugin) /\ k \in 1 .. Len(ordered[n])
  BY DEF TypeOK
<1>2. Requires[ordered[n][k]] \in Seq(Plugin)
  BY <1>1, ElementOfSeq, RequiresAreNames
<1>3. PICK d \in 1 .. Len(Requires[ordered[n][k]]) : q = Requires[ordered[n][k]][d]
  BY <1>2 DEF Range
<1> QED  BY <1>1, <1>3 DEF Closed

\* Plugins are initialised after and stopped before those they require, for any
\* requirement graph and any order of registration (kernel.go:84-191).
THEOREM PluginsInOrder == Spec => []LifecycleOrder
<1>1. KernelIInv => LifecycleOrder
  <2> SUFFICES ASSUME KernelIInv, NEW n \in Node
               PROVE  /\ pc[n] \in {"init", "migrate", "apply"} =>
                          /\ \A p \in Before(n) : Range(Requires[p]) \subseteq Before(n)
                          /\ at[n] <= Len(ordered[n]) => Resolves[Next1(n)] \subseteq services[n]
                      /\ pc[n] = "stop" =>
                          /\ \A p \in Running(n) : Range(Requires[p]) \subseteq Running(n)
                          /\ n \notin late => inflight[n] = {}
    BY DEF LifecycleOrder
  <2>1. TypeOK /\ Closed(n) /\ Position(n) /\ at[n] \in Nat /\ Len(ordered[n]) \in Nat
    BY DEF KernelIInv, NodeInv, TypeOK
  <2>2. ASSUME pc[n] \in {"init", "migrate", "apply"}, NEW p \in Before(n), NEW q \in Range(Requires[p])
        PROVE  q \in Before(n)
    <3>1. PICK k \in 1 .. at[n] - 1 : p = ordered[n][k]
      BY <2>2 DEF Before
    <3>2. at[n] - 1 \in 0 .. Len(ordered[n])
      BY <2>1, <2>2 DEF Position
    <3>3. PICK j \in 1 .. k - 1 : ordered[n][j] = q
      BY <2>1, <2>2, <3>1, <3>2, PrefixCloses
    <3>4. j \in 1 .. at[n] - 1
      BY <2>1, <3>3
    <3> QED  BY <3>3, <3>4 DEF Before
  <2>3. ASSUME pc[n] \in {"init", "migrate", "apply"}, at[n] <= Len(ordered[n]), NEW s \in Resolves[Next1(n)]
        PROVE  s \in services[n]
    <3>1. at[n] \in 1 .. Len(ordered[n])
      BY <2>1, <2>3 DEF Position
    <3>2. Next1(n) \in Plugin
      BY <2>1, <3>1 DEF Next1, TypeOK
    <3>3. CASE s \in KernelServices
      BY <2>1, <2>3, <3>3 DEF Position
    <3>4. CASE s \notin KernelServices
      <4>1. PICK q \in Range(Requires[Next1(n)]) : s \in Provides[q]
        BY <2>3, <3>2, <3>4, CatalogCloses
      <4>2. at[n] \in 0 .. Len(ordered[n]) /\ at[n] \in 1 .. at[n]
        BY <3>1
      <4>3. PICK j \in 1 .. at[n] - 1 : ordered[n][j] = q
        BY <2>1, <4>1, <4>2, PrefixCloses DEF Next1
      <4> QED  BY <2>1, <2>3, <4>1, <4>3 DEF Position
    <3> QED  BY <3>3, <3>4
  <2>4. ASSUME pc[n] = "stop", NEW p \in Running(n), NEW q \in Range(Requires[p])
        PROVE  q \in Running(n)
    <3>1. PICK k \in 1 .. at[n] : p = ordered[n][k]
      BY <2>4 DEF Running
    <3>2. at[n] \in 0 .. Len(ordered[n])
      BY <2>1, <2>4 DEF Position
    <3>3. PICK j \in 1 .. k - 1 : ordered[n][j] = q
      BY <2>1, <2>4, <3>1, <3>2, PrefixCloses
    <3>4. j \in 1 .. at[n]
      BY <2>1, <3>3
    <3> QED  BY <3>3, <3>4 DEF Running
  <2> QED  BY <2>1, <2>2, <2>3, <2>4 DEF Position
<1> QED  BY <1>1, KernelInvariant, PTL

-----------------------------------------------------------------------------
\* Migrations.

\* What has been applied stays applied.
Kept == \A p \in Plugin : \A v \in 1 .. Versions[p] : applied[p][v] = 1 => applied'[p][v] = 1

\* A module that is complete after the step.
CompleteNext(p) == \A v \in 1 .. Versions[p] : applied'[p][v] = 1

\* Names of modules are names of plugins.
LEMMA ModuleType ==
    ASSUME TypeOK, NEW n \in Node, Migrated(n)
    PROVE  /\ mig[n].set \in Nat /\ mig[n].version \in Nat \ {0} /\ Len(ordered[n]) \in Nat
           /\ Module(n) \in Plugin /\ Versions[Module(n)] \in Nat
           /\ \A i \in 1 .. Len(ordered[n]) : ordered[n][i] \in Plugin
           /\ done(n) = {ordered[n][i] : i \in 1 .. Len(ordered[n])}
<1>1. mig[n] \in Cursor /\ ordered[n] \in Seq(Plugin)
  BY DEF TypeOK
<1>2. mig[n].set \in Nat /\ mig[n].version \in Nat \ {0} /\ Len(ordered[n]) \in Nat
  BY <1>1 DEF Cursor
<1>3. \A i \in 1 .. Len(ordered[n]) : ordered[n][i] \in Plugin
  BY <1>1, ElementOfSeq
<1>4. mig[n].set <= Len(ordered[n])
  BY DEF Migrated
<1>5. Module(n) \in Plugin
  BY <1>2, <1>3, <1>4, CoreIsAPlugin DEF Module
<1>6. done(n) = {ordered[n][i] : i \in 1 .. Len(ordered[n])}
  BY <1>1 DEF done, Range
<1> QED  BY <1>2, <1>3, <1>5, <1>6, VersionsAreNumbers

\* A node that goes on with the same sets, at a place that asks for no more.
LEMMA KeepsMigrated ==
    ASSUME TypeOK, NEW n \in Node, Migrated(n), Kept,
           ordered'[n] = ordered[n], mig'[n] = mig[n],
           pc'[n] = "apply" => pc[n] = "apply",
           pc'[n] \in {"init", "migrate", "apply"} /\ Core \in Before(n)' =>
               pc[n] \in {"init", "migrate", "apply"} /\ Core \in Before(n),
           pc'[n] \in {"start", "serve"} => pc[n] \in {"start", "serve"}
    PROVE  Migrated(n)'
<1>1. /\ mig[n].set \in Nat /\ Module(n) \in Plugin /\ Len(ordered[n]) \in Nat
      /\ \A i \in 1 .. Len(ordered[n]) : ordered[n][i] \in Plugin
      /\ done(n) = {ordered[n][i] : i \in 1 .. Len(ordered[n])}
  BY ModuleType
<1>2. \A p \in Plugin : Complete(p) => CompleteNext(p)
  BY DEF Kept, Complete, CompleteNext
<1>3. Module(n)' = Module(n) /\ Files(n)' = Files(n) /\ done(n)' = done(n)
  BY DEF Module, Files, done
<1>4. mig[n].set <= Len(ordered[n])
  BY DEF Migrated
<1>5. mig'[n].set > 0 => CompleteNext(Core)
  BY <1>2, CoreIsAPlugin DEF Migrated
<1>6. \A i \in 1 .. mig[n].set - 1 : CompleteNext(ordered[n][i])
  <2> TAKE i \in 1 .. mig[n].set - 1
  <2>1. i \in 1 .. Len(ordered[n]) /\ Complete(ordered[n][i])
    BY <1>1, <1>4 DEF Migrated
  <2>2. ordered[n][i] \in Plugin
    BY <1>1, <2>1
  <2> QED  BY <1>2, <2>1, <2>2
<1>7. \A v \in 1 .. Versions[Module(n)] : v < mig[n].version => applied'[Module(n)][v] = 1
  BY <1>1 DEF Migrated, Kept
<1>8. \A p \in done(n) : p \in Plugin
  BY <1>1
<1>9. pc'[n] \in {"init", "migrate", "apply"} /\ Core \in Before(n)' => \A p \in done(n) : CompleteNext(p)
  BY <1>2, <1>8 DEF Migrated
<1>10. pc'[n] \in {"start", "serve"} /\ Core \in done(n) => \A p \in done(n) : CompleteNext(p)
  BY <1>2, <1>8 DEF Migrated
<1>11. pc'[n] = "apply" => mig'[n].version <= Files(n)'
  BY <1>3 DEF Migrated
<1> QED  BY <1>3, <1>4, <1>5, <1>6, <1>7, <1>9, <1>10, <1>11 DEF Migrated, Complete, CompleteNext

\* Nothing has been migrated by a node that has not sorted its plugins.
LEMMA NothingMigrated ==
    ASSUME NEW n \in Node, mig'[n] = [set |-> 0, version |-> 1], Len(ordered'[n]) \in Nat,
           pc'[n] \notin {"migrate", "apply", "start", "serve"},
           pc'[n] = "init" => at'[n] = 1
    PROVE  Migrated(n)'
<1>1. mig'[n].set = 0 /\ mig'[n].version = 1 /\ Module(n)' = Core
  BY DEF Module
<1>2. pc'[n] = "init" => Before(n)' = {}
  BY DEF Before
<1> QED  BY <1>1, <1>2 DEF Migrated

\* All of the set under way is applied once its last version is passed.
LEMMA SetComplete ==
    ASSUME TypeOK, NEW n \in Node, Migrated(n), mig[n].version > Files(n)
    PROVE  Complete(Core) /\ Complete(Module(n))
<1>1. mig[n].set \in Nat /\ mig[n].version \in Nat /\ Module(n) \in Plugin /\ Versions[Module(n)] \in Nat
  BY ModuleType
<1>2. CASE mig[n].set = 0
  BY <1>1, <1>2 DEF Migrated, Module, Files, Complete
<1>3. CASE mig[n].set > 0 /\ Module(n) = Core
  BY <1>3 DEF Migrated
<1>4. CASE mig[n].set > 0 /\ Module(n) # Core
  BY <1>1, <1>4 DEF Migrated, Files, Complete
<1> QED  BY <1>1, <1>2, <1>3, <1>4

\* Steps of the migrations other than the transaction.
LEMMA CheckMigrated ==
    ASSUME TypeOK, NEW n \in Node, NodeInv(n), MigrationIInv, NextSet(n) \/ CheckMigration(n)
    PROVE  Migrated(n)'
<1>1. /\ mig[n].set \in Nat /\ mig[n].version \in Nat \ {0} /\ Len(ordered[n]) \in Nat
      /\ Module(n) \in Plugin /\ Versions[Module(n)] \in Nat
      /\ \A i \in 1 .. Len(ordered[n]) : ordered[n][i] \in Plugin
  BY ModuleType DEF MigrationIInv
<1>2. ordered'[n] = ordered[n] /\ at'[n] = at[n] /\ applied' = applied /\ pc[n] = "migrate"
  BY DEF NextSet, CheckMigration, At, sortVars
<1>3. Migrated(n) /\ done(n)' = done(n) /\ Before(n)' = Before(n)
  BY <1>2 DEF MigrationIInv, done, Before
<1>4. \A p : Complete(p)' <=> Complete(p)
  BY <1>2 DEF Complete
<1>5. CASE NextSet(n)
  <2>1. /\ mig'[n].set = mig[n].set + 1 /\ mig'[n].version = 1 /\ pc'[n] = "migrate"
        /\ mig[n].set < Len(ordered[n]) /\ mig[n].version > Files(n)
    BY <1>2, <1>5 DEF NextSet, TypeOK
  <2>2. Complete(Core) /\ Complete(Module(n))
    BY <1>3, <2>1, SetComplete
  <2>3. \A i \in 1 .. mig[n].set : Complete(ordered[n][i])
    <3> TAKE i \in 1 .. mig[n].set
    <3>1. CASE i = mig[n].set
      BY <1>1, <2>2, <3>1 DEF Module
    <3>2. CASE i # mig[n].set
      BY <1>1, <1>3, <3>2 DEF Migrated
    <3> QED  BY <3>1, <3>2
  <2>4. mig'[n].set <= Len(ordered[n])
    BY <1>1, <2>1
  <2>5. \A i \in 1 .. mig'[n].set - 1 : i \in 1 .. mig[n].set
    BY <1>1, <2>1
  <2>6. \A v \in Nat : ~(v \in 1 .. v /\ v < mig'[n].version)
    BY <2>1
  <2>7. \A v \in 1 .. Versions[Module(n)'] : v < mig'[n].version => applied'[Module(n)'][v] = 1
    BY <2>1
  <2>8. /\ pc'[n] \in {"init", "migrate", "apply"} /\ Core \in Before(n)' => \A p \in done(n)' : Complete(p)'
    BY <1>2, <1>3, <1>4 DEF Migrated
  <2> QED  BY <1>2, <1>4, <2>1, <2>2, <2>3, <2>4, <2>5, <2>7, <2>8 DEF Migrated
<1>6. CASE CheckMigration(n) /\ applied[Module(n)][mig[n].version] > 0
  <2>1. /\ mig'[n].set = mig[n].set /\ mig'[n].version = mig[n].version + 1 /\ pc'[n] = "migrate"
        /\ mig[n].version <= Files(n)
    <3>1. mig[n] \in Cursor /\ mig' = [mig EXCEPT ![n].version = @ + 1] /\ n \in DOMAIN mig
      BY <1>6 DEF CheckMigration, TypeOK
    <3>2. mig'[n] = [mig[n] EXCEPT !.version = @ + 1]
      BY <3>1
    <3>3. mig'[n].set = mig[n].set /\ mig'[n].version = mig[n].version + 1
      BY <3>1, <3>2 DEF Cursor
    <3> QED  BY <1>2, <1>6, <3>3 DEF CheckMigration
  <2>2. Module(n)' = Module(n)
    BY <1>2, <2>1 DEF Module
  <2>3. mig[n].version \in 1 .. Versions[Module(n)]
    BY <1>1, <2>1 DEF Files
  <2>4. applied[Module(n)][mig[n].version] = 1
    <3>1. applied[Module(n)][mig[n].version] \in Nat
      BY <1>1, <2>3 DEF TypeOK
    <3>2. applied[Module(n)][mig[n].version] <= 1
      BY <1>1, <2>3 DEF MigrationIInv, AppliedInOrder
    <3> QED  BY <1>6, <3>1, <3>2
  <2>5. \A v \in 1 .. Versions[Module(n)] : v < mig[n].version + 1 => v < mig[n].version \/ v = mig[n].version
    BY <1>1
  <2>6. \A v \in 1 .. Versions[Module(n)] : v < mig'[n].version => applied'[Module(n)][v] = 1
    BY <1>2, <1>3, <2>1, <2>4, <2>5 DEF Migrated
  <2>7. pc'[n] \in {"init", "migrate", "apply"} /\ Core \in Before(n)' => \A p \in done(n)' : Complete(p)'
    BY <1>2, <1>3, <1>4 DEF Migrated
  <2> QED  BY <1>2, <1>3, <1>4, <2>1, <2>2, <2>6, <2>7 DEF Migrated
<1>7. CASE CheckMigration(n) /\ ~(applied[Module(n)][mig[n].version] > 0)
  <2>1. mig'[n] = mig[n] /\ pc'[n] = "apply" /\ mig[n].version <= Files(n)
    BY <1>7 DEF CheckMigration, Goto, TypeOK
  <2>2. Module(n)' = Module(n) /\ Files(n)' = Files(n)
    BY <1>2, <2>1 DEF Module, Files
  <2>3. pc'[n] \in {"init", "migrate", "apply"} /\ Core \in Before(n)' => \A p \in done(n)' : Complete(p)'
    BY <1>2, <1>3, <1>4 DEF Migrated
  <2> QED  BY <1>2, <1>3, <1>4, <2>1, <2>2, <2>3 DEF Migrated
<1> QED  BY <1>5, <1>6, <1>7

\* The transaction: its record is unique, and all that comes before is there.
LEMMA ApplyMigrated ==
    ASSUME TypeOK, NEW n \in Node, NodeInv(n), MigrationIInv, ApplyMigration(n)
    PROVE  Kept /\ AppliedInOrder' /\ Migrated(n)'
<1> DEFINE M == Module(n)
           v == mig[n].version
<1>1. /\ mig[n].set \in Nat /\ v \in Nat \ {0} /\ Len(ordered[n]) \in Nat
      /\ M \in Plugin /\ Versions[M] \in Nat
      /\ \A i \in 1 .. Len(ordered[n]) : ordered[n][i] \in Plugin
      /\ done(n) = {ordered[n][i] : i \in 1 .. Len(ordered[n])}
  BY ModuleType DEF MigrationIInv
<1>2. ordered'[n] = ordered[n] /\ at'[n] = at[n] /\ pc[n] = "apply" /\ v <= Files(n)
  BY DEF ApplyMigration, At, sortVars, MigrationIInv, Migrated
<1>3. v \in 1 .. Versions[M]
  BY <1>1, <1>2 DEF Files
<1>4. CASE applied[M][v] > 0
  <2>1. applied' = applied /\ mig' = mig /\ pc'[n] = "ended"
    BY <1>4 DEF ApplyMigration, Goto, TypeOK
  <2>2. Kept
    BY <2>1 DEF Kept
  <2>3. AppliedInOrder'
    BY <2>1 DEF MigrationIInv, AppliedInOrder, Complete
  <2>4. Migrated(n)
    BY DEF MigrationIInv
  <2>5. Migrated(n)'
    BY <1>2, <2>1, <2>2, <2>4, KeepsMigrated
  <2> QED  BY <2>2, <2>3, <2>5
<1>5. CASE ~(applied[M][v] > 0)
  <2>1. /\ applied' = [applied EXCEPT ![M][v] = @ + 1] /\ pc'[n] = "migrate"
        /\ mig' = [mig EXCEPT ![n].version = @ + 1]
    BY <1>5 DEF ApplyMigration, Goto, TypeOK
  <2>2. applied[M][v] = 0
    BY <1>1, <1>3, <1>5 DEF TypeOK
  <2>3. \A p \in Plugin : \A w \in 1 .. Versions[p] :
          applied'[p][w] = IF p = M /\ w = v THEN 1 ELSE applied[p][w]
    <3> TAKE p \in Plugin
    <3> TAKE w \in 1 .. Versions[p]
    <3>1. p \in DOMAIN applied /\ applied[p] \in [1 .. Versions[p] -> Nat]
      BY DEF TypeOK
    <3>2. CASE p # M
      BY <2>1, <3>1, <3>2
    <3>3. CASE p = M
      <4>1. applied'[p] = [applied[p] EXCEPT ![v] = @ + 1]
        BY <2>1, <3>1, <3>3
      <4> QED  BY <2>2, <3>1, <3>3, <4>1
    <3> QED  BY <3>2, <3>3
  <2>4. Kept
    BY <2>3 DEF Kept
  <2>5. \A p \in Plugin : Complete(p) => CompleteNext(p)
    BY <2>4 DEF Kept, Complete, CompleteNext
  <2>6. Migrated(n) /\ mig[n].set <= Len(ordered[n])
    BY DEF MigrationIInv, Migrated
  <2>7. \A w \in 1 .. Versions[M] : w < v => applied[M][w] = 1
    BY <2>6 DEF Migrated
  <2>8. \A q \in (Range(Requires[M]) \cup {Core}) \ {M} : q \in Plugin /\ Complete(q)
    <3> TAKE q \in (Range(Requires[M]) \cup {Core}) \ {M}
    <3>1. CASE mig[n].set = 0
      <4>1. M = Core
        BY <3>1 DEF Module
      <4>2. Range(Requires[M]) = {}
        BY <4>1, CoreRequiresNothing DEF Range
      <4> QED  BY <4>1, <4>2
    <3>2. CASE mig[n].set > 0
      <4>1. M = ordered[n][mig[n].set] /\ Complete(Core) /\ Core \in Plugin
        BY <2>6, <3>2, CoreIsAPlugin DEF Module, Migrated
      <4>2. CASE q = Core
        BY <4>1, <4>2
      <4>3. CASE q # Core
        <5>1. q \in Range(Requires[ordered[n][mig[n].set]])
          BY <4>1, <4>3
        <5>2. mig[n].set \in 0 .. Len(ordered[n]) /\ mig[n].set \in 1 .. mig[n].set
          BY <1>1, <2>6, <3>2
        <5>3. PICK j \in 1 .. mig[n].set - 1 : ordered[n][j] = q
          BY <5>1, <5>2, PrefixCloses DEF NodeInv
        <5>4. j \in 1 .. Len(ordered[n])
          BY <1>1, <2>6, <5>3
        <5> QED  BY <1>1, <2>6, <5>3, <5>4 DEF Migrated
      <4> QED  BY <4>2, <4>3
    <3> QED  BY <1>1, <3>1, <3>2
  <2> HIDE DEF M, v
  <2>9. AppliedInOrder'
    <3> SUFFICES ASSUME NEW p \in Plugin, NEW w \in 1 .. Versions[p]
                 PROVE  /\ applied'[p][w] <= 1
                        /\ applied'[p][w] = 1 =>
                             /\ \A x \in 1 .. w - 1 : applied'[p][x] = 1
                             /\ \A q \in (Range(Requires[p]) \cup {Core}) \ {p} : CompleteNext(q)
      BY DEF AppliedInOrder, Complete, CompleteNext
    <3>0. \A x \in 1 .. w - 1 : x \in 1 .. Versions[p] /\ x < w
      BY VersionsAreNumbers
    <3>a. \A q \in (Range(Requires[p]) \cup {Core}) \ {p} : q \in Plugin
      <4>1. Requires[p] \in Seq(Plugin)
        BY RequiresAreNames
      <4> QED  BY <4>1, CoreIsAPlugin DEF Range
    <3>1. CASE p = M /\ w = v
      <4>1. applied'[p][w] = 1
        BY <2>3, <3>1
      <4>2. \A x \in 1 .. w - 1 : applied'[p][x] = 1
        BY <2>4, <2>7, <3>0, <3>1 DEF Kept
      <4>3. \A q \in (Range(Requires[p]) \cup {Core}) \ {p} : CompleteNext(q)
        BY <2>5, <2>8, <3>1
      <4> QED  BY <4>1, <4>2, <4>3
    <3>2. CASE ~(p = M /\ w = v)
      <4>1. applied'[p][w] = applied[p][w]
        BY <2>3, <3>2
      <4>2. /\ applied[p][w] <= 1
            /\ applied[p][w] = 1 =>
                 /\ \A x \in 1 .. w - 1 : applied[p][x] = 1
                 /\ \A q \in (Range(Requires[p]) \cup {Core}) \ {p} : Complete(q)
        BY DEF MigrationIInv, AppliedInOrder
      <4>3. applied[p][w] = 1 => \A x \in 1 .. w - 1 : applied'[p][x] = 1
        BY <2>4, <3>0, <4>2 DEF Kept
      <4>4. applied[p][w] = 1 => \A q \in (Range(Requires[p]) \cup {Core}) \ {p} : CompleteNext(q)
        BY <2>5, <3>a, <4>2
      <4> QED  BY <4>1, <4>2, <4>3, <4>4
    <3> QED  BY <3>1, <3>2
  <2>10. Migrated(n)'
    <3>1. mig'[n].set = mig[n].set /\ mig'[n].version = v + 1
      <4>1. mig[n] \in Cursor /\ n \in DOMAIN mig
        BY DEF TypeOK
      <4>2. mig'[n] = [mig[n] EXCEPT !.version = @ + 1]
        BY <2>1, <4>1
      <4> QED  BY <4>1, <4>2 DEF Cursor, v
    <3>2. Module(n)' = M /\ done(n)' = done(n) /\ Before(n)' = Before(n)
      BY <1>2, <3>1 DEF Module, done, Before, M
    <3>3. \A w \in 1 .. Versions[M] : w < v + 1 => applied'[M][w] = 1
      <4> TAKE w \in 1 .. Versions[M]
      <4> HAVE w < v + 1
      <4>1. CASE w = v
        BY <1>1, <2>3, <4>1
      <4>2. CASE w # v
        <5>1. w < v
          BY <1>1, <4>2
        <5> QED  BY <1>1, <2>4, <2>7, <5>1 DEF Kept
      <4> QED  BY <4>1, <4>2
    <3>4. mig[n].set > 0 => CompleteNext(Core)
      BY <2>5, <2>6, CoreIsAPlugin DEF Migrated
    <3>5. \A i \in 1 .. mig[n].set - 1 : CompleteNext(ordered[n][i])
      <4> TAKE i \in 1 .. mig[n].set - 1
      <4>1. i \in 1 .. Len(ordered[n]) /\ Complete(ordered[n][i])
        BY <1>1, <2>6 DEF Migrated
      <4>2. ordered[n][i] \in Plugin
        BY <1>1, <4>1
      <4> QED  BY <2>5, <4>1, <4>2
    <3>6. \A p \in done(n) : p \in Plugin
      BY <1>1
    <3>7. Core \in Before(n) => \A p \in done(n) : CompleteNext(p)
      BY <1>2, <2>5, <2>6, <3>6 DEF Migrated
    <3> QED  BY <1>2, <2>1, <2>6, <3>1, <3>2, <3>3, <3>4, <3>5, <3>7 DEF Migrated, Complete, CompleteNext
  <2> QED  BY <2>4, <2>9, <2>10
<1> QED  BY <1>4, <1>5

\* Core's Init returns when every set of the node is complete.
LEMMA InitMigrated ==
    ASSUME TypeOK, NEW n \in Node, NodeInv(n), Migrated(n), applied' = applied,
           InitCore(n) \/ InitPlugin(n) \/ Initialised(n)
    PROVE  Migrated(n)'
<1>1. /\ mig[n].set \in Nat /\ Len(ordered[n]) \in Nat /\ at[n] \in Nat
      /\ \A i \in 1 .. Len(ordered[n]) : ordered[n][i] \in Plugin
      /\ done(n) = {ordered[n][i] : i \in 1 .. Len(ordered[n])}
  BY ModuleType DEF TypeOK
<1>2. ordered'[n] = ordered[n] /\ mig'[n] = mig[n]
  BY DEF InitCore, InitPlugin, Initialised, sortVars
<1>3. Module(n)' = Module(n) /\ Files(n)' = Files(n) /\ done(n)' = done(n)
  BY <1>2 DEF Module, Files, done
<1>4. \A p : Complete(p)' <=> Complete(p)
  BY DEF Complete
<1>5. CASE InitCore(n)
  <2>1. pc'[n] = "init" /\ mig[n].set = Len(ordered[n]) /\ mig[n].version > Files(n)
    BY <1>5 DEF InitCore, Goto, TypeOK
  <2>2. Complete(Core) /\ Complete(Module(n))
    BY <2>1, SetComplete
  <2>3. \A i \in 1 .. Len(ordered[n]) : Complete(ordered[n][i])
    <3> TAKE i \in 1 .. Len(ordered[n])
    <3>1. CASE i = mig[n].set
      BY <1>1, <2>2, <3>1 DEF Module
    <3>2. CASE i # mig[n].set
      BY <1>1, <2>1, <3>2 DEF Migrated
    <3> QED  BY <3>1, <3>2
  <2>4. \A p \in done(n) : Complete(p)
    BY <1>1, <2>3
  <2> QED  BY <1>2, <1>3, <1>4, <2>1, <2>4 DEF Migrated
<1>6. CASE InitPlugin(n)
  <2>1. pc[n] = "init" /\ (pc'[n] = "init" \/ pc'[n] = "ended") /\ at'[n] = at[n] + 1
        /\ ordered[n][at[n]] # Core
    BY <1>6 DEF InitPlugin, Provided, Advance, Goto, At, Next1, TypeOK
  <2>2. Core \in Before(n)' => Core \in Before(n)
    <3>1. at[n] \in Nat
      BY <1>1
    <3> HAVE Core \in Before(n)'
    <3>2. PICK i \in 1 .. at'[n] - 1 : Core = ordered'[n][i]
      BY DEF Before
    <3>3. Core = ordered[n][i] /\ i # at[n]
      BY <1>2, <2>1, <3>2
    <3>4. i \in 1 .. at[n] - 1
      BY <2>1, <3>1, <3>2, <3>3
    <3> QED  BY <3>3, <3>4 DEF Before
  <2>3. Core \in Before(n)' => \A p \in done(n) : Complete(p)
    BY <2>1, <2>2 DEF Migrated
  <2> QED  BY <1>2, <1>3, <1>4, <2>1, <2>3 DEF Migrated
<1>7. CASE Initialised(n)
  <2>1. pc[n] = "init" /\ pc'[n] = "start" /\ at[n] > Len(ordered[n])
    BY <1>7 DEF Initialised, At, Goto, TypeOK
  <2>2. \A i \in 1 .. Len(ordered[n]) : i \in 1 .. at[n] - 1
    BY <1>1, <2>1
  <2>3. Core \in done(n) => Core \in Before(n)
    BY <1>1, <2>2 DEF Before
  <2>4. Core \in done(n) => \A p \in done(n) : Complete(p)
    BY <2>1, <2>3 DEF Migrated
  <2> QED  BY <1>2, <1>3, <1>4, <2>1, <2>4 DEF Migrated
<1> QED  BY <1>5, <1>6, <1>7

\* A step of node n leaves it with the sets it has seen complete.
LEMMA StepMigrated ==
    ASSUME KernelIInv, MigrationIInv, NEW n \in Node, NodeStep(n)
    PROVE  Kept /\ AppliedInOrder' /\ Migrated(n)'
<1>1. TypeOK /\ NodeInv(n) /\ Migrated(n)
  BY DEF KernelIInv, MigrationIInv
<1>2. CASE ApplyMigration(n)
  BY <1>1, <1>2, ApplyMigrated
<1>3. CASE ~ApplyMigration(n)
  <2>1. applied' = applied
    <3>1. CASE \E o \in Orders : Boot(n, o)
      BY <3>1 DEF Boot
    <3>2. CASE VisitRoot(n) \/ VisitDep(n) \/ Ordered(n) \/ Sorted(n)
      BY <3>2 DEF VisitRoot, VisitDep, Ordered, Sorted
    <3>3. CASE BeginMigrations(n) \/ NextSet(n) \/ CheckMigration(n) \/ InitCore(n) \/ InitPlugin(n)
               \/ Initialised(n) \/ StartPlugin(n) \/ Started(n) \/ Cancelled(n)
      BY <3>3 DEF BeginMigrations, NextSet, CheckMigration, InitCore, InitPlugin, Initialised,
                  StartPlugin, Started, Cancelled
    <3>4. CASE BeginShutdown(n) \/ Drained(n) \/ StopPlugin(n) \/ Stopped(n) \/ Signal(n)
               \/ ServeError(n) \/ Exit(n)
      BY <3>4 DEF BeginShutdown, Drained, StopPlugin, Stopped, Signal, ServeError, Exit
    <3>5. CASE \E p \in Routed : Toggle(n, p) \/ gate(n, p) \/ EndRequest(n, p)
      BY <3>5 DEF Toggle, gate, EndRequest
    <3> QED  BY <1>3, <3>1, <3>2, <3>3, <3>4, <3>5 DEF NodeStep, Step
  <2>2. Kept
    BY <2>1 DEF Kept
  <2>3. AppliedInOrder'
    BY <2>1 DEF MigrationIInv, AppliedInOrder, Complete
  <2>4. TypeOK'
    BY <1>1, StepType
  <2>5. CASE VisitRoot(n) \/ VisitDep(n) \/ Ordered(n) \/ Sorted(n) \/ Exit(n)
    <3>1. mig'[n] = [set |-> 0, version |-> 1]
      BY <1>1, <2>5 DEF VisitRoot, VisitDep, Ordered, Sorted, Exit, At, NodeInv, Fresh, TypeOK
    <3>2. pc'[n] \in {"sort", "ended", "init", "down"} /\ (pc'[n] = "init" => at'[n] = 1)
      BY <1>1, <2>5 DEF VisitRoot, VisitDep, Ordered, Sorted, Exit, At, Goto, NodeInv, Fresh, TypeOK
    <3>3. Len(ordered'[n]) \in Nat
      BY <2>4 DEF TypeOK
    <3>4. Migrated(n)'
      BY <3>1, <3>2, <3>3, NothingMigrated
    <3> QED  BY <2>2, <2>3, <3>4
  <2>6. CASE NextSet(n) \/ CheckMigration(n)
    BY <1>1, <2>2, <2>3, <2>6, CheckMigrated
  <2>7. CASE InitCore(n) \/ InitPlugin(n) \/ Initialised(n)
    BY <1>1, <2>1, <2>2, <2>3, <2>7, InitMigrated
  <2>8. CASE \/ \E o \in Orders : Boot(n, o)
             \/ BeginMigrations(n) \/ StartPlugin(n) \/ Started(n) \/ Cancelled(n)
             \/ BeginShutdown(n) \/ Drained(n) \/ StopPlugin(n) \/ Stopped(n)
             \/ Signal(n) \/ ServeError(n)
             \/ \E p \in Routed : Toggle(n, p) \/ gate(n, p) \/ EndRequest(n, p)
    <3>1. ordered'[n] = ordered[n] /\ mig'[n] = mig[n]
      BY <2>8 DEF Boot, BeginMigrations, StartPlugin, Started, Cancelled, BeginShutdown, Drained,
                  StopPlugin, Stopped, Signal, ServeError, Toggle, gate, EndRequest, sortVars
    <3>2. \/ pc'[n] = pc[n] /\ at'[n] = at[n]
          \/ pc'[n] \in {"sort", "ended", "drain", "stop"}
          \/ pc[n] = "init" /\ pc'[n] = "migrate" /\ at'[n] = at[n]
          \/ pc[n] = "start" /\ pc'[n] \in {"start", "serve"}
      BY <1>1, <2>8
      DEF Boot, BeginMigrations, StartPlugin, Started, Cancelled, BeginShutdown, Drained, StopAll,
          StopPlugin, Stopped, Signal, ServeError, Toggle, gate, EndRequest, At, Goto, TypeOK
    <3>3. at'[n] = at[n] => Before(n)' = Before(n)
      BY <3>1 DEF Before
    <3>4. Migrated(n)'
      BY <1>1, <2>2, <3>1, <3>2, <3>3, KeepsMigrated
    <3> QED  BY <2>2, <2>3, <3>4
  <2> QED  BY <1>3, <2>5, <2>6, <2>7, <2>8 DEF NodeStep, Step
<1> QED  BY <1>2, <1>3

\* No migration has been applied to the empty database.
LEMMA InitMigrations == Init => MigrationIInv
<1> SUFFICES ASSUME Init PROVE MigrationIInv
  OBVIOUS
<1>1. AppliedInOrder
  BY VersionsAreNumbers DEF Init, AppliedInOrder
<1>2. ASSUME NEW n \in Node PROVE Migrated(n)
  BY DEF Init, Migrated, Module
<1> QED  BY <1>1, <1>2 DEF MigrationIInv

\* One step.
LEMMA NextMigrations == ASSUME KernelIInv, MigrationIInv, [Next]_vars PROVE MigrationIInv'
<1>0. TypeOK
  BY DEF KernelIInv
<1>1. CASE UNCHANGED vars
  <2>1. Kept /\ AppliedInOrder'
    BY <1>1 DEF Kept, MigrationIInv, AppliedInOrder, Complete, vars
  <2>2. ASSUME NEW m \in Node PROVE Migrated(m)'
    <3>1. pc' = pc /\ ordered' = ordered /\ mig' = mig /\ Before(m)' = Before(m)
      BY <1>1 DEF Before, vars, sortVars
    <3> QED  BY <1>0, <2>1, <3>1, KeepsMigrated DEF MigrationIInv
  <2> QED  BY <2>1, <2>2 DEF MigrationIInv
<1>2. CASE Next
  <2>1. PICK n \in Node : NodeStep(n)
    BY <1>2 DEF Next, NodeStep
  <2>2. Kept /\ AppliedInOrder' /\ Migrated(n)'
    BY <2>1, StepMigrated
  <2>3. ASSUME NEW m \in Node, m # n PROVE Migrated(m)'
    <3>1. Same(m)
      BY <1>0, <2>1, <2>3, OthersSame
    <3>2. pc'[m] = pc[m] /\ ordered'[m] = ordered[m] /\ mig'[m] = mig[m] /\ Before(m)' = Before(m)
      BY <3>1 DEF Same, Before
    <3> QED  BY <1>0, <2>2, <3>2, KeepsMigrated DEF MigrationIInv
  <2> QED  BY <2>2, <2>3 DEF MigrationIInv
<1> QED  BY <1>1, <1>2

\* Every migration is applied once and in order although any number of nodes
\* start, crash and start again at the same time (migrations.go:31-146).
THEOREM MigrationsApplied == Spec => []MigrationsInOrder
<1>1. KernelIInv /\ MigrationIInv => MigrationsInOrder
  BY DEF MigrationIInv, AppliedInOrder, Migrated, Complete, MigrationsInOrder
<1>2. Init => MigrationIInv
  BY InitMigrations
<1>3. KernelIInv /\ MigrationIInv /\ [Next]_vars => MigrationIInv'
  BY NextMigrations
<1> QED  BY <1>1, <1>2, <1>3, KernelInvariant, PTL DEF Spec
=============================================================================
