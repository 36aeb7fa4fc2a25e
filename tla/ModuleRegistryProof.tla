------------------------- MODULE ModuleRegistryProof -------------------------
(***************************************************************************)
(* Proofs about MutableModuleRegistry, for every set of modules and every  *)
(* import relation.  The inductive invariant says of each of the three     *)
(* graphs the registry holds (the current one, the backup and the history  *)
(* variable) that it is well formed, and that the backup is the graph of   *)
(* the moment the transaction was opened.  The last section is about the   *)
(* recursion of the scan: of a scan that is under way its invariant says   *)
(* which modules are scanned and which are being scanned, what has been    *)
(* made of the graph so far, and what is left to each call.                *)
(***************************************************************************)
EXTENDS ModuleScan, FiniteSetTheorems, SequenceTheorems, TLAPS

-----------------------------------------------------------------------------
(* Closure: the set a traversal visits.                                     *)

\* A traversal visits no more than any closed set that holds its start.
LEMMA ClosureLeast ==
    ASSUME NEW x \in Mod, NEW succ \in [Mod -> SUBSET Mod],
           NEW S \in SUBSET Mod, x \in S, Closed(S, succ)
    PROVE  Closure(x, succ) \subseteq S
BY DEF Closure

\* A traversal visits its start and the successors of what it visits.
LEMMA ClosureClosed ==
    ASSUME NEW x \in Mod, NEW succ \in [Mod -> SUBSET Mod]
    PROVE  /\ Closure(x, succ) \in SUBSET Mod
           /\ x \in Closure(x, succ)
           /\ Closed(Closure(x, succ), succ)
<1>1. Closure(x, succ) \in SUBSET Mod /\ x \in Closure(x, succ)
  BY DEF Closure
<1>2. ASSUME NEW p \in Closure(x, succ), NEW q \in succ[p]
      PROVE  q \in Closure(x, succ)
  <2>1. p \in Mod /\ q \in Mod
    BY <1>1, <1>2
  <2>2. ASSUME NEW S \in SUBSET Mod, x \in S, Closed(S, succ)
        PROVE  q \in S
    <3>1. p \in S
      BY <2>2, <1>2 DEF Closure
    <3> QED
      BY <3>1, <2>2, <1>2 DEF Closed
  <2> QED
    BY <2>1, <2>2 DEF Closure
<1> QED
  BY <1>1, <1>2 DEF Closed

\* Fewer successors, fewer modules visited.
LEMMA ClosureMonotone ==
    ASSUME NEW x \in Mod,
           NEW succ1 \in [Mod -> SUBSET Mod], NEW succ2 \in [Mod -> SUBSET Mod],
           \A m \in Mod : succ1[m] \subseteq succ2[m]
    PROVE  Closure(x, succ1) \subseteq Closure(x, succ2)
<1>1. /\ Closure(x, succ2) \in SUBSET Mod
      /\ x \in Closure(x, succ2)
      /\ Closed(Closure(x, succ2), succ2)
  BY ClosureClosed
<1>2. Closed(Closure(x, succ2), succ1)
  BY <1>1 DEF Closed
<1> QED
  BY <1>1, <1>2, ClosureLeast

-----------------------------------------------------------------------------
(* What every graph of the registry satisfies.                              *)

Linked(g) == \A m \in g.metas : g.imports[m] \subseteq g.children[m]
Counted(g) ==
    \A m \in Mod : g.app[m] > 0 <=> m \in (g.metas \intersect PerApp) \ {Root}
Identified(g) == g.ids = g.metas \intersect WithId
Covered(g) == g.metas # {} => Reachable(g) \subseteq g.metas

\* A child of a registered module is registered, or has been and is still
\* marked as scanned.
Seen(g) == \A m \in g.metas : g.children[m] \subseteq g.metas \union g.scanned
Meaningful(g) == g.metas \intersect Malformed = {}

\* The part that the scan keeps even when it fails, and all of it.
Sound(g) == g \in Graph /\ Linked(g) /\ Counted(g) /\ Identified(g)
Good(g) == Sound(g) /\ Covered(g) /\ Seen(g) /\ Meaningful(g)

\* A registry that has loaded nothing is good.
LEMMA EmptyGood == Good(EmptyGraph)
BY DEF Good, Sound, Linked, Counted, Identified, Covered, Seen, Meaningful, EmptyGraph, Graph

\* The scan of a module gives a graph of the right type.
LEMMA ScanType ==
    ASSUME NEW g \in Graph, NEW x \in Mod
    PROVE  ScanModule(g, x) \in Graph
<1>1. ScanSet(g, x) \subseteq Mod
  BY DEF ScanSet, Closure
<1>2. \A i \in 0..2, j \in 0..2 : SaturatingAdd(i, j) \in 0..2
  BY DEF SaturatingAdd
<1>3. g.metas \subseteq Mod /\ g.scanned \subseteq Mod /\ g.ids \subseteq Mod
      /\ g.imports \in [Mod -> SUBSET Mod] /\ g.children \in [Mod -> SUBSET Mod]
      /\ g.app \in [Mod -> 0..2]
  BY DEF Graph
<1>4. \A m \in Mod : ToScan(m) \subseteq Mod /\ Imports[m] \subseteq Mod
  BY ModuleAssumption DEF ToScan
<1>5. (IF ScannedAgain(g, x) THEN {x} ELSE {}) \subseteq Mod
  OBVIOUS
<1>6. ScanModule(g, x).app \in [Mod -> 0..2]
  BY <1>2, <1>3 DEF ScanModule
<1>7. /\ ScanModule(g, x).imports \in [Mod -> SUBSET Mod]
      /\ ScanModule(g, x).children \in [Mod -> SUBSET Mod]
  BY <1>3, <1>4 DEF ScanModule
<1> QED
  BY <1>1, <1>3, <1>5, <1>6, <1>7 DEF ScanModule, Graph

\* The scan keeps import lists and childrenMap in step, counts the providers
\* of what it registers, and enters its ids.
LEMMA ScanSound ==
    ASSUME NEW g, Sound(g), NEW x \in Mod
    PROVE  Sound(ScanModule(g, x))
<1> DEFINE visited == ScanSet(g, x)
           h == ScanModule(g, x)
<1>1. g \in Graph /\ h \in Graph
  BY ScanType DEF Sound
<1>2. visited \subseteq Mod
  BY DEF ScanSet, Closure
<1>3. Linked(h)
  <2> SUFFICES ASSUME NEW m \in h.metas PROVE h.imports[m] \subseteq h.children[m]
    BY DEF Linked
  <2>1. m \in Mod
    BY <1>1 DEF Graph
  <2>2. CASE m \in visited
    BY <2>1, <2>2 DEF ScanModule, ToScan
  <2>3. CASE m \notin visited
    BY <2>1, <2>3 DEF ScanModule, Sound, Linked
  <2> QED
    BY <2>2, <2>3
<1>4. Counted(h)
  <2> SUFFICES ASSUME NEW m \in Mod
               PROVE  h.app[m] > 0 <=> m \in (h.metas \intersect PerApp) \ {Root}
    BY DEF Counted
  <2>1. g.app[m] \in 0..2 /\ (g.app[m] > 0 <=> m \in (g.metas \intersect PerApp) \ {Root})
    BY <1>1 DEF Graph, Sound, Counted
  <2>2. h.metas = g.metas \union visited
    BY DEF ScanModule
  <2>3. CASE m \in (visited \intersect PerApp) \ {Root}
    <3>1. h.app[m] = SaturatingAdd(g.app[m], 1) \/ h.app[m] = SaturatingAdd(g.app[m], 2)
      BY <2>3 DEF ScanModule
    <3> QED
      BY <3>1, <2>1, <2>2, <2>3 DEF SaturatingAdd
  <2>4. CASE m \notin (visited \intersect PerApp) \ {Root}
    <3>1. h.app[m] = SaturatingAdd(g.app[m], 0)
      BY <2>4 DEF ScanModule
    <3> QED
      BY <3>1, <2>1, <2>2, <2>4 DEF SaturatingAdd
  <2> QED
    BY <2>3, <2>4
<1>5. Identified(h)
  BY DEF ScanModule, Sound, Identified
<1> QED
  BY <1>1, <1>3, <1>4, <1>5 DEF Sound

\* The scan of x registers what it visits, and all that this imports.
LEMMA ScanSeen ==
    ASSUME NEW g, g \in Graph, NEW x \in Mod,
           \A m \in g.metas : g.children[m] \subseteq g.metas \union g.scanned \union {x}
    PROVE  Seen(ScanModule(g, x))
<1> DEFINE succ == [m \in Mod |-> ToScan(m) \ g.scanned]
           visited == ScanSet(g, x)
           h == ScanModule(g, x)
<1>1. succ \in [Mod -> SUBSET Mod]
  BY ModuleAssumption DEF ToScan
<1>2. visited = Closure(x, succ)
  BY DEF ScanSet
<1> HIDE DEF succ
<1>3. visited \subseteq Mod /\ x \in visited /\ Closed(visited, succ)
  BY <1>1, <1>2, ClosureClosed
<1>4. /\ h.metas = g.metas \union visited
      /\ g.scanned \union (visited \ {x}) \subseteq h.scanned
      /\ g.metas \subseteq Mod
      /\ \A m \in Mod : h.children[m] = IF m \in visited THEN ToScan(m) ELSE g.children[m]
  BY DEF ScanModule, Graph
<1> HIDE DEF h, visited
<1>5. ASSUME NEW m \in h.metas PROVE h.children[m] \subseteq h.metas \union h.scanned
  <2>1. m \in Mod
    BY <1>3, <1>4, <1>5
  <2>2. CASE m \in visited
    <3>1. ToScan(m) \ g.scanned \subseteq visited
      BY <1>3, <2>1, <2>2 DEF Closed, succ
    <3> QED
      BY <1>4, <2>1, <2>2, <3>1
  <2>3. CASE m \notin visited
    BY <1>3, <1>4, <1>5, <2>1, <2>3
  <2> QED
    BY <2>2, <2>3
<1> QED
  BY <1>5 DEF Seen, h

\* Linking an import, on both sides, keeps a sound graph sound.
LEMMA AddLinkSound ==
    ASSUME NEW g, Sound(g), NEW x \in Mod, NEW t \in Mod
    PROVE  Sound(AddChild([g EXCEPT !.imports[t] = @ \union {x}], t, x))
BY DEF Sound, AddChild, Graph, Linked, Counted, Identified

\* Unlinking one keeps a sound graph sound and lets the root reach no more.
LEMMA UnlinkSound ==
    ASSUME NEW g, Sound(g), NEW x \in Mod, NEW t \in Mod
    PROVE  LET h == RemoveChild([g EXCEPT !.imports[t] = @ \ {x}], t, x)
           IN  Sound(h) /\ Reachable(h) \subseteq Reachable(g) /\ h.metas = g.metas
<1> DEFINE h == RemoveChild([g EXCEPT !.imports[t] = @ \ {x}], t, x)
<1>1. Sound(h) /\ h.metas = g.metas
  BY DEF Sound, RemoveChild, Graph, Linked, Counted, Identified
<1>2. /\ h.children \in [Mod -> SUBSET Mod]
      /\ g.children \in [Mod -> SUBSET Mod]
      /\ \A m \in Mod : h.children[m] \subseteq g.children[m]
  BY DEF Sound, RemoveChild, Graph
<1>3. Reachable(h) \subseteq Reachable(g)
  BY <1>2, ClosureMonotone, ModuleAssumption DEF Reachable
<1> QED
  BY <1>1, <1>3

\* Pruning keeps a sound graph sound, and what it keeps is what the root
\* reached.
LEMMA PruneSound ==
    ASSUME NEW g, Sound(g)
    PROVE  LET h == PruneUnreachableModules(g)
           IN  /\ Sound(h)
               /\ h.metas = g.metas \intersect Reachable(g)
               /\ Reachable(h) = Reachable(g)
<1> DEFINE h == PruneUnreachableModules(g)
           orphans == g.metas \ Reachable(g)
<1>1. CASE orphans = {}
  BY <1>1 DEF PruneUnreachableModules
<1>2. CASE orphans # {}
  <2>1. /\ h.metas = g.metas \ orphans
        /\ h.ids = g.ids \ orphans
        /\ h.imports = g.imports
        /\ h.scanned = g.scanned
        /\ h.children = [m \in Mod |-> IF m \in orphans THEN {} ELSE g.children[m]]
        /\ h.app = [m \in Mod |->
               IF m \in ((g.metas \ orphans) \intersect PerApp) \ {Root} THEN 1 ELSE 0]
    BY <1>2 DEF PruneUnreachableModules, RebuildProvidersPerApp, Sound, Graph
  <2>2. h \in Graph
    <3>1. g \in Graph
      BY DEF Sound
    <3>2. [m \in Mod |-> IF m \in orphans THEN {} ELSE g.children[m]] \in [Mod -> SUBSET Mod]
      BY <3>1 DEF Graph
    <3>3. [m \in Mod |-> IF m \in ((g.metas \ orphans) \intersect PerApp) \ {Root}
                         THEN 1 ELSE 0] \in [Mod -> 0..2]
      OBVIOUS
    <3>4. h = [g EXCEPT !.metas = g.metas \ orphans,
                        !.ids = g.ids \ orphans,
                        !.children = [m \in Mod |-> IF m \in orphans THEN {} ELSE g.children[m]],
                        !.app = [m \in Mod |->
                            IF m \in ((g.metas \ orphans) \intersect PerApp) \ {Root} THEN 1 ELSE 0]]
      BY <1>2, <3>1 DEF PruneUnreachableModules, RebuildProvidersPerApp, Graph
    <3> HIDE DEF h, orphans
    <3> QED
      BY <3>1, <3>2, <3>3, <3>4 DEF Graph
  <2>3. Linked(h)
    BY <2>1 DEF Sound, Linked, Graph
  <2>4. Counted(h)
    <3> HIDE DEF h, orphans
    <3> SUFFICES ASSUME NEW m \in Mod
                 PROVE  h.app[m] > 0 <=> m \in (h.metas \intersect PerApp) \ {Root}
      BY DEF Counted
    <3>1. h.app[m] = IF m \in (h.metas \intersect PerApp) \ {Root} THEN 1 ELSE 0
      BY <2>1, Zenon
    <3> QED
      BY <3>1
  <2>5. Identified(h)
    BY <2>1 DEF Sound, Identified
  <2>6. /\ h.children \in [Mod -> SUBSET Mod]
        /\ g.children \in [Mod -> SUBSET Mod]
        /\ \A m \in Mod : h.children[m] \subseteq g.children[m]
    BY <2>1, <2>2 DEF Graph, Sound
  <2>7. Reachable(h) \subseteq Reachable(g)
    BY <2>6, ClosureMonotone, ModuleAssumption DEF Reachable
  <2>8. Reachable(g) \subseteq Reachable(h)
    <3>1. /\ Reachable(h) \in SUBSET Mod
          /\ Root \in Reachable(h)
          /\ Closed(Reachable(h), h.children)
      BY <2>6, ClosureClosed, ModuleAssumption DEF Reachable
    <3>2. ASSUME NEW p \in Reachable(h) PROVE g.children[p] \subseteq Reachable(h)
      <4>1. p \in Mod /\ p \notin orphans
        BY <2>7, <3>1
      <4>2. h.children[p] = g.children[p]
        BY <2>1, <4>1
      <4> QED
        BY <3>1, <4>2 DEF Closed
    <3> HIDE DEF h
    <3>3. Closed(Reachable(h), g.children)
      BY <3>2 DEF Closed
    <3> QED
      BY <2>6, <3>1, <3>3, ClosureLeast, ModuleAssumption DEF Reachable
  <2> QED
    BY <2>1, <2>2, <2>3, <2>4, <2>5, <2>7, <2>8 DEF Sound
<1> QED
  BY <1>1, <1>2

-----------------------------------------------------------------------------
(* The steps.                                                               *)

IInv ==
    /\ Good(graph)
    /\ Good(baseline)
    /\ outcome \in Outcomes
    /\ oldGraph # NoGraph => oldGraph = baseline
    /\ oldGraph = NoGraph => baseline = graph

\* The graphs that a transaction falls back on are good ones.
LEMMA BackupGood ==
    ASSUME IInv
    PROVE  /\ Backup = baseline
           /\ Good(Backup)
           /\ Backup # NoGraph
BY NoGraphAssumption DEF IInv, Backup, Good, Sound

\* An import added with success leaves a good graph.
LEMMA AddedGood ==
    ASSUME IInv, NEW x \in Mod, NEW t \in Mod, Valid(Added(x, t))
    PROVE  Good(Added(x, t))
<1> DEFINE g == AddChild([graph EXCEPT !.imports[t] = @ \union {x}], t, x)
<1>1. Sound(g)
  BY AddLinkSound DEF IInv, Good
<1>2. Sound(ScanModule(g, x))
  <2> HIDE DEF g
  <2> QED
    BY <1>1, ScanSound
<1>3. /\ g \in Graph /\ g.metas = graph.metas /\ g.scanned = graph.scanned
      /\ \A m \in Mod : g.children[m] \subseteq graph.children[m] \union {x}
  BY <1>1 DEF Sound, AddChild, IInv, Good, Graph
<1>4. Seen(ScanModule(g, x))
  <2>1. \A m \in g.metas : g.children[m] \subseteq g.metas \union g.scanned \union {x}
    BY <1>3 DEF IInv, Good, Seen, Graph
  <2> HIDE DEF g
  <2> QED
    BY <1>3, <2>1, ScanSeen
<1> QED
  BY <1>2, <1>4 DEF Added, Good, Covered, Meaningful, Valid

\* So does an import removed, and nothing is left that the root cannot reach.
LEMMA RemovedGood ==
    ASSUME IInv, NEW x \in Mod, NEW t \in Mod
    PROVE  Good(Removed(x, t)) /\ Removed(x, t).metas \subseteq Reachable(Removed(x, t))
<1> DEFINE g == RemoveChild([graph EXCEPT !.imports[t] = @ \ {x}], t, x)
           h == PruneUnreachableModules(g)
<1>1. Sound(g) /\ Reachable(g) \subseteq Reachable(graph) /\ g.metas = graph.metas
  BY UnlinkSound DEF IInv, Good
<1> HIDE DEF g
<1>2. /\ Sound(h)
      /\ h.metas = g.metas \intersect Reachable(g)
      /\ Reachable(h) = Reachable(g)
  BY <1>1, PruneSound
<1>3. Covered(h)
  <2> SUFFICES ASSUME h.metas # {} PROVE Reachable(h) \subseteq h.metas
    BY DEF Covered
  <2>1. graph.metas # {}
    BY <1>1, <1>2
  <2>2. Reachable(graph) \subseteq graph.metas
    BY <2>1 DEF IInv, Good, Covered
  <2> QED
    BY <1>1, <1>2, <2>2
<1>4. h.metas \subseteq graph.metas /\ h.metas \subseteq Reachable(h)
  BY <1>1, <1>2
<1>5. Seen(h)
  <2> SUFFICES ASSUME NEW m \in h.metas PROVE h.children[m] \subseteq h.metas
    BY DEF Seen
  <2>1. Reachable(h) \subseteq h.metas
    BY <1>3 DEF Covered
  <2>2. h.children \in [Mod -> SUBSET Mod]
    BY <1>2 DEF Sound, Graph
  <2> HIDE DEF h
  <2>3. Closed(Reachable(h), h.children)
    BY <2>2, ClosureClosed, ModuleAssumption DEF Reachable
  <2> QED
    BY <1>4, <2>1, <2>3 DEF Closed
<1>6. Meaningful(h)
  BY <1>4 DEF IInv, Good, Meaningful
<1> QED
  BY <1>2, <1>3, <1>4, <1>5, <1>6 DEF Removed, Good, g

\* The scan of the root module gives a good graph.
LEMMA ScannedRootGood ==
    ASSUME Valid(ScanModule(EmptyGraph, Root))
    PROVE  Good(ScanModule(EmptyGraph, Root))
<1>1. Sound(EmptyGraph)
  BY EmptyGood DEF Good
<1>2. Sound(ScanModule(EmptyGraph, Root))
  BY <1>1, ScanSound, ModuleAssumption
<1>3. Seen(ScanModule(EmptyGraph, Root))
  BY <1>1, ScanSeen, ModuleAssumption DEF Sound, EmptyGraph
<1> QED
  BY <1>2, <1>3 DEF Good, Covered, Meaningful, Valid

\* An operation that ends with a good graph and either the transaction's
\* backup or none keeps the invariant.
LEMMA FinishKeepsIInv ==
    ASSUME IInv, NEW g, Good(g), NEW result \in Outcomes,
           NEW old, old = NoGraph \/ old = Backup,
           Finish(g, old, result)
    PROVE  IInv'
BY BackupGood, NoGraphAssumption DEF IInv, Finish, Good, Sound, Linked, Counted, Identified, Covered,
   Seen, Meaningful, Graph, Reachable

\* An operation that changes nothing keeps the invariant.
LEMMA ReturnKeepsIInv ==
    ASSUME IInv, NEW result \in Outcomes, Return(result)
    PROVE  IInv'
BY BackupGood, NoGraphAssumption DEF Return, Finish, IInv, Good, Sound, Linked, Counted, Identified, Covered,
   Seen, Meaningful, Graph, Reachable

\* The registry starts with the invariant.
LEMMA InitIInv == Init => IInv
BY EmptyGood, NoGraphAssumption DEF Init, IInv, Outcomes

\* Every operation keeps the invariant.
LEMMA NextIInv == IInv /\ [Next]_vars => IInv'
<1> SUFFICES ASSUME IInv, [Next]_vars PROVE IInv'
  OBVIOUS
<1> USE DEF Outcomes
<1>1. CASE ScanRootModule
  <2>1. CASE graph.metas = {} /\ Valid(ScanModule(EmptyGraph, Root))
             /\ Finish(ScanModule(EmptyGraph, Root), oldGraph, "true")
    <3>1. oldGraph = NoGraph \/ oldGraph = Backup
      BY DEF Backup
    <3> QED
      BY <2>1, <3>1, ScannedRootGood, FinishKeepsIInv
  <2> QED
    BY <1>1, <2>1, ReturnKeepsIInv DEF ScanRootModule
<1>2. ASSUME NEW r \in Requests, NEW byId \in BOOLEAN, AddImport(r[1], r[2], byId)
      PROVE  IInv'
  <2>1. r[1] \in Mod /\ r[2] \in Mod
    BY RequestsAssumption
  <2>2. CASE Valid(Added(r[1], r[2])) /\ Finish(Added(r[1], r[2]), Backup, "true")
    BY <2>1, <2>2, AddedGood, FinishKeepsIInv
  <2>3. CASE Finish(Backup, NoGraph, "thrown")
    BY <2>3, BackupGood, FinishKeepsIInv
  <2> QED
    BY <1>2, <2>2, <2>3, ReturnKeepsIInv DEF AddImport
<1>3. ASSUME NEW r \in Requests, NEW byId \in BOOLEAN, RemoveImport(r[1], r[2], byId)
      PROVE  IInv'
  <2>1. r[1] \in Mod /\ r[2] \in Mod
    BY RequestsAssumption
  <2>2. CASE Finish(Removed(r[1], r[2]), Backup, "true")
    BY <2>1, <2>2, RemovedGood, FinishKeepsIInv
  <2> QED
    BY <1>3, <2>2, ReturnKeepsIInv DEF RemoveImport
<1>4. CASE StartTransaction
  <2>1. Good(graph)
    BY DEF IInv
  <2> QED
    BY <1>4, <2>1, FinishKeepsIInv DEF StartTransaction
<1>5. CASE Rollback
  <2>1. CASE oldGraph # NoGraph /\ Finish(oldGraph, NoGraph, "true")
    <3>1. Good(oldGraph)
      BY <2>1 DEF IInv
    <3> QED
      BY <2>1, <3>1, FinishKeepsIInv
  <2> QED
    BY <1>5, <2>1, ReturnKeepsIInv DEF Rollback
<1>6. CASE Commit
  <2>1. Good(graph)
    BY DEF IInv
  <2> QED
    BY <1>6, <2>1, FinishKeepsIInv DEF Commit
<1>7. CASE UNCHANGED vars
  BY <1>7 DEF vars, IInv, Good, Sound, Linked, Counted, Identified, Covered, Seen, Meaningful
<1> QED
  BY <1>1, <1>2, <1>3, <1>4, <1>5, <1>6, <1>7 DEF Next

\* The invariant holds in every state.
LEMMA SpecIInv == Spec => []IInv
BY InitIInv, NextIInv, PTL DEF Spec

-----------------------------------------------------------------------------
(* The results.                                                             *)

\* Every variable of the registry keeps its type.
THEOREM TypeCorrect == Spec => []TypeOK
<1>1. IInv => TypeOK
  BY DEF IInv, TypeOK, Good, Sound
<1> QED
  BY <1>1, SpecIInv, PTL

\* Whatever is added, removed, rolled back or committed, every module that
\* the importers and the propagator reach from the root has metadata.
THEOREM ReachableAlwaysRegistered == Spec => []ReachableRegistered
<1>1. IInv => ReachableRegistered
  BY DEF IInv, ReachableRegistered, Good, Covered
<1> QED
  BY <1>1, SpecIInv, PTL

\* providersPerApp, the map of ids and childrenMap always agree with the set of
\* registered modules.
THEOREM DerivedStateAgrees ==
    Spec => []DerivedInStep
<1>1. IInv => DerivedInStep
  BY DEF IInv, DerivedInStep, PerAppOfRegistered, IdsOfRegistered, ImportsAreChildren,
         Good, Sound, Linked, Counted, Identified
<1> QED
  BY <1>1, SpecIInv, PTL

\* A transaction that is undone, by rollback or by a failing addImport, undoes
\* every operation made since no transaction was open.
THEOREM UndoIsComplete == Spec => UndoRestoresBaseline
<1>1. IInv /\ [Next]_vars
        => [oldGraph # NoGraph /\ oldGraph' = NoGraph /\ ~Commit
              => graph' = baseline]_vars
  <2> SUFFICES ASSUME IInv, Next, oldGraph # NoGraph, oldGraph' = NoGraph, ~Commit
               PROVE  graph' = baseline
    BY DEF vars
  <2>1. Backup = baseline /\ Backup # NoGraph /\ oldGraph = baseline
    BY BackupGood DEF IInv
  <2>2. ASSUME NEW x, NEW t, NEW byId, AddImport(x, t, byId)
        PROVE  graph' = baseline
    BY <2>1, <2>2 DEF AddImport, Finish, Return
  <2>3. ASSUME NEW x, NEW t, NEW byId, RemoveImport(x, t, byId)
        PROVE  FALSE
    BY <2>1, <2>3 DEF RemoveImport, Finish, Return
  <2>4. ~ScanRootModule /\ ~StartTransaction
    BY <2>1 DEF ScanRootModule, StartTransaction, Finish, Return
  <2>5. Rollback => graph' = baseline
    BY <2>1 DEF Rollback, Finish, Return
  <2> QED
    BY <2>2, <2>3, <2>4, <2>5 DEF Next
<1> QED
  BY <1>1, SpecIInv, PTL DEF Spec, UndoRestoresBaseline

\* A removal prunes everything that the root no longer reaches.
LEMMA RemovalStep ==
    IInv => \A r \in Requests, byId \in BOOLEAN :
              outcome' = "true" /\ RemoveImport(r[1], r[2], byId)
                => graph'.metas \subseteq Reachable(graph')
<1> SUFFICES ASSUME IInv, NEW r \in Requests, NEW byId \in BOOLEAN,
                    RemoveImport(r[1], r[2], byId), outcome' = "true"
             PROVE  graph'.metas \subseteq Reachable(graph')
  OBVIOUS
<1>1. graph' = Removed(r[1], r[2])
  BY DEF RemoveImport, Finish, Return
<1> QED
  BY <1>1, RemovedGood, RequestsAssumption DEF Reachable

\* No operation changes the graph without a backup, replaces an open backup, or
\* undoes only in part.
LEMMA NextIsPromised ==
    ASSUME IInv, IInv', Next PROVE Promise!Next \/ UNCHANGED <<graph, oldGraph>>
<1>1. graph' \in Graph
  BY DEF IInv, Good, Sound
<1>2. Backup = Promise!Opened
  BY DEF Backup, Promise!Opened, Promise!IsOpen
<1>3. ASSUME NEW result, Return(result)
      PROVE  UNCHANGED <<graph, oldGraph>>
  BY <1>3 DEF Return, Finish
<1>4. ASSUME NEW g, NEW result, Finish(g, Backup, result)
      PROVE  Promise!Next
  BY <1>1, <1>2, <1>4 DEF Finish, Promise!Next, Promise!Change
<1>5. CASE ScanRootModule
  <2>1. CASE graph.metas = {} /\ Finish(ScanModule(EmptyGraph, Root), oldGraph, "true")
    BY <1>1, <2>1 DEF Finish, Promise!Next, Promise!Load, IInv, Good, Sound
  <2> QED
    BY <1>3, <1>5, <2>1 DEF ScanRootModule
<1>6. ASSUME NEW x, NEW t, NEW byId, AddImport(x, t, byId)
      PROVE  Promise!Next \/ UNCHANGED <<graph, oldGraph>>
  <2>1. CASE Finish(Backup, NoGraph, "thrown")
    <3>1. CASE oldGraph = NoGraph
      BY <2>1, <3>1 DEF Finish, Backup
    <3>2. CASE oldGraph # NoGraph
      BY <2>1, <3>2 DEF Finish, Backup, Promise!Next, Promise!Undo, Promise!IsOpen
    <3> QED
      BY <3>1, <3>2
  <2> QED
    BY <1>3, <1>4, <1>6, <2>1 DEF AddImport
<1>7. ASSUME NEW x, NEW t, NEW byId, RemoveImport(x, t, byId)
      PROVE  Promise!Next \/ UNCHANGED <<graph, oldGraph>>
  BY <1>3, <1>4, <1>7 DEF RemoveImport
<1>8. CASE StartTransaction
  BY <1>4, <1>8 DEF StartTransaction
<1>9. CASE Rollback
  <2>1. CASE oldGraph # NoGraph /\ Finish(oldGraph, NoGraph, "true")
    BY <2>1 DEF Finish, Promise!Next, Promise!Undo, Promise!IsOpen
  <2> QED
    BY <1>3, <1>9, <2>1 DEF Rollback
<1>10. CASE Commit
  BY <1>10 DEF Commit, Finish, Promise!Next, Promise!Commit
<1> QED
  BY <1>5, <1>6, <1>7, <1>8, <1>9, <1>10 DEF Next

\* A graph that is loaded from nothing is where the transaction starts.
LEMMA InitIsPromised == Init => Promise!Init
BY EmptyGood DEF Good, Sound, EmptyGraph, Init, Promise!Init

\* The registry implements the abstract transaction.
THEOREM RegistryIsTransactional == Spec => IsTransactional
<1>1. IInv /\ IInv' /\ [Next]_vars => [Promise!Next]_<<graph, oldGraph>>
  BY NextIsPromised DEF vars
<1> QED
  BY <1>1, InitIsPromised, SpecIInv, PTL DEF Spec, IsTransactional, Promise!Spec, Promise!vars

\* An addImport to a registered target throws only for a malformed module it
\* visits, or if a module pruned before is still marked as scanned: otherwise
\* the modules it registers, and with them those of before, are closed.
LEMMA AddFailure ==
    ASSUME IInv, NEW x \in Mod, NEW t \in Mod, NEW byId, AddImport(x, t, byId),
           Registered(graph, t, byId), outcome' = "thrown",
           ScanSet(graph, x) \intersect Malformed = {},
           graph.scanned \subseteq graph.metas
    PROVE  FALSE
<1> DEFINE g == AddChild([graph EXCEPT !.imports[t] = @ \union {x}], t, x)
           h == ScanModule(g, x)
<1>1. ~Valid(h)
  BY DEF AddImport, Return, Finish, Added
<1>2. Sound(g) /\ h \in Graph
  BY AddLinkSound, ScanType DEF IInv, Good, Sound
<1>3. /\ g.metas = graph.metas /\ g.scanned = graph.scanned
      /\ \A m \in Mod : g.children[m] \subseteq graph.children[m] \union {x}
      /\ graph.children \in [Mod -> SUBSET Mod]
  BY DEF AddChild, IInv, Good, Sound, Graph
<1> DEFINE succ == [m \in Mod |-> ToScan(m) \ g.scanned]
           visited == ScanSet(g, x)
<1>4. visited = ScanSet(graph, x) /\ visited = Closure(x, succ)
  BY <1>3 DEF ScanSet
<1>5. succ \in [Mod -> SUBSET Mod]
  BY ModuleAssumption DEF ToScan
<1> HIDE DEF succ
<1>6. visited \subseteq Mod /\ x \in visited /\ Closed(visited, succ)
  BY <1>4, <1>5, ClosureClosed
<1>7. /\ h.metas = graph.metas \union visited
      /\ \A m \in Mod : h.children[m] = IF m \in visited THEN ToScan(m) ELSE g.children[m]
  BY <1>3 DEF ScanModule
<1>8. h.metas \intersect Malformed = {}
  BY <1>4, <1>7 DEF IInv, Good, Meaningful
<1> HIDE DEF h, g, visited
<1>9. ASSUME NEW m \in h.metas PROVE h.children[m] \subseteq h.metas
  <2>1. m \in Mod
    BY <1>2, <1>9 DEF Graph
  <2>2. CASE m \in visited
    <3>1. ToScan(m) \ graph.scanned \subseteq visited
      BY <1>3, <1>6, <2>1, <2>2 DEF Closed, succ
    <3> QED
      BY <1>7, <2>1, <2>2, <3>1
  <2>3. CASE m \notin visited
    <3>1. m \in graph.metas
      BY <1>7, <1>9, <2>3
    <3>2. graph.children[m] \subseteq graph.metas
      BY <3>1 DEF IInv, Good, Seen
    <3> QED
      BY <1>3, <1>6, <1>7, <2>1, <2>3, <3>2
  <2> QED
    BY <2>2, <2>3
<1>10. Root \in h.metas
  <2>1. graph.metas # {} /\ graph.children \in [Mod -> SUBSET Mod]
    BY <1>3 DEF Registered
  <2>2. Root \in Reachable(graph)
    BY <2>1, ClosureClosed, ModuleAssumption DEF Reachable
  <2> QED
    BY <1>7, <2>1, <2>2 DEF IInv, Good, Covered
<1>11. Reachable(h) \subseteq h.metas
  <2>1. h.metas \in SUBSET Mod /\ h.children \in [Mod -> SUBSET Mod]
    BY <1>2 DEF Graph
  <2>2. Closed(h.metas, h.children)
    BY <1>9 DEF Closed
  <2> QED
    BY <1>10, <2>1, <2>2, ClosureLeast, ModuleAssumption DEF Reachable
<1> QED
  BY <1>1, <1>8, <1>11 DEF Valid

-----------------------------------------------------------------------------
(* The registry in an application: besides its own operations, reinit()     *)
(* opens a transaction, and ends it when it fails.                          *)

\* The graphs are good whatever the application does with the registry.
LEMMA ProvidersKeepIInv ==
    ASSUME IInv, [ProvidersNext]_<<vars, providersVars>> PROVE IInv'
<1> USE DEF Outcomes
<1>1. CASE RegistryStep
  <2>1. Next
    BY <1>1 DEF RegistryStep, Next
  <2> QED
    BY <2>1, NextIInv
<1>2. CASE StartApp
  BY <1>2, NextIInv DEF StartApp
<1>3. Good(graph) /\ Good(Backup) /\ (oldGraph # NoGraph => Good(oldGraph))
  BY BackupGood DEF IInv
<1>4. CASE Reinit
  BY <1>3, <1>4, FinishKeepsIInv DEF Reinit
<1>5. CASE ReinitCollides
  BY <1>3, <1>5, FinishKeepsIInv DEF ReinitCollides, HandleReinitError
<1>6. ASSUME NEW autocommit \in BOOLEAN, ReinitSucceeds(autocommit) PROVE IInv'
  <2>1. CASE Commit
    BY <2>1, NextIInv DEF Next
  <2> QED
    BY <1>6, <2>1, ReturnKeepsIInv DEF ReinitSucceeds
<1>7. CASE ReinitFails
  <2>1. CASE Return("thrown")
    BY <2>1, ReturnKeepsIInv
  <2>2. CASE oldGraph # NoGraph /\ HandleReinitError(oldGraph, oldRootProviders)
    BY <1>3, <2>2, FinishKeepsIInv DEF HandleReinitError
  <2> QED
    BY <1>7, <2>1, <2>2 DEF ReinitFails
<1>8. CASE UNCHANGED <<vars, providersVars>>
  BY <1>8, NextIInv
<1> QED
  BY <1>1, <1>2, <1>4, <1>5, <1>6, <1>7, <1>8 DEF ProvidersNext

\* The invariant of the registry holds in every state of an application.
LEMMA ProvidersIInv == ProvidersSpec => []IInv
<1>1. ProvidersInit => IInv
  BY InitIInv DEF ProvidersInit
<1> QED
  BY <1>1, ProvidersKeepIInv, PTL DEF ProvidersSpec

\* In an application, too, what is derived from the registered modules agrees
\* with them.
THEOREM DerivedInApplication == ProvidersSpec => []DerivedInStep
<1>1. IInv => DerivedInStep
  BY DEF IInv, DerivedInStep, PerAppOfRegistered, IdsOfRegistered, ImportsAreChildren,
         Good, Sound, Linked, Counted, Identified
<1> QED
  BY <1>1, ProvidersIInv, PTL

\* In an application, too, a removal that succeeds leaves no module that the root
\* does not reach.
THEOREM RemovalPrunes == ProvidersSpec => RemovalLeavesNoOrphan
<1>1. IInv => [\A r \in Requests, byId \in BOOLEAN :
                  outcome' = "true" /\ RemoveImport(r[1], r[2], byId)
                    => graph'.metas \subseteq Reachable(graph')]_vars
  BY RemovalStep
<1> QED
  BY <1>1, ProvidersIInv, PTL DEF ProvidersSpec, RemovalLeavesNoOrphan

\* What reinit() does to the registry, with what its failure handler undoes, is
\* transactional as well.
THEOREM ApplicationIsTransactional == ProvidersSpec => IsTransactional
<1>1. ProvidersInit => Promise!Init
  BY InitIsPromised DEF ProvidersInit
<1>2. IInv /\ IInv' /\ [ProvidersNext]_<<vars, providersVars>>
        => [Promise!Next]_<<graph, oldGraph>>
  <2> SUFFICES ASSUME IInv, IInv', ProvidersNext
               PROVE  Promise!Next \/ UNCHANGED <<graph, oldGraph>>
    BY DEF vars, providersVars
  <2>1. Next => Promise!Next \/ UNCHANGED <<graph, oldGraph>>
    BY NextIsPromised
  <2>2. CASE RegistryStep
    BY <2>1, <2>2 DEF RegistryStep, Next
  <2>3. CASE StartApp
    BY <2>3 DEF StartApp, vars
  <2>4. CASE Reinit
    <3>1. Finish(graph, Backup, "true") /\ graph' \in Graph
      BY <2>4 DEF Reinit, IInv, Good, Sound
    <3> QED
      BY <3>1 DEF Finish, Backup, Promise!Next, Promise!Change, Promise!Opened, Promise!IsOpen
  <2>5. ASSUME Finish(Backup, NoGraph, "thrown")
        PROVE  Promise!Next \/ UNCHANGED <<graph, oldGraph>>
    BY <2>5 DEF Finish, Backup, Promise!Next, Promise!Undo, Promise!IsOpen
  <2>6. CASE ReinitCollides
    BY <2>5, <2>6 DEF ReinitCollides, HandleReinitError
  <2>7. ASSUME NEW autocommit \in BOOLEAN, ReinitSucceeds(autocommit)
        PROVE  Promise!Next \/ UNCHANGED <<graph, oldGraph>>
    BY <2>1, <2>7 DEF ReinitSucceeds, Return, Finish, Next
  <2>8. CASE ReinitFails
    BY <2>5, <2>8 DEF ReinitFails, HandleReinitError, Return, Finish, Backup
  <2> QED
    BY <2>2, <2>3, <2>4, <2>6, <2>7, <2>8 DEF ProvidersNext
<1> QED
  BY <1>1, <1>2, ProvidersIInv, PTL
     DEF ProvidersSpec, IsTransactional, Promise!Spec, Promise!vars

\* In an application addImport fails only for a malformed module or because of
\* the marks that pruned modules leave behind.
THEOREM AdditionFailsForCause == ProvidersSpec => AddFailsForCause
<1>1. IInv /\ [ProvidersNext]_<<vars, providersVars>>
        => [outcome' = "thrown" /\ graph.scanned \subseteq graph.metas =>
              \A r \in Requests, byId \in BOOLEAN :
                 Registered(graph, r[2], byId) /\ AddImport(r[1], r[2], byId)
                   => ScanSet(graph, r[1]) \intersect Malformed # {}]_vars
  <2> SUFFICES ASSUME IInv, outcome' = "thrown", graph.scanned \subseteq graph.metas,
                      NEW r \in Requests, NEW byId \in BOOLEAN,
                      Registered(graph, r[2], byId), AddImport(r[1], r[2], byId)
               PROVE  ScanSet(graph, r[1]) \intersect Malformed # {}
    BY DEF vars
  <2>1. r[1] \in Mod /\ r[2] \in Mod
    BY RequestsAssumption
  <2> QED
    BY <2>1, AddFailure
<1> QED
  BY <1>1, ProvidersIInv, PTL DEF ProvidersSpec, AddFailsForCause

-----------------------------------------------------------------------------
(* Who provides a token.                                                    *)

\* Every token of one list is provided by the same module in the other.
KeptIn(one, other) == \A T \in Token : one[T] # Nobody => other[T] = one[T]

RootList == [T \in Token |-> IF T \in Declares[Root] THEN Root ELSE Nobody]
Lists == [Token -> Mod \union {Nobody}]

\* Whoever provides a token is entitled to: the root if it declares it, or the
\* module that the root has resolved a collision to, or else one that exports it.
Entitled(list) ==
    \A T \in Token :
        list[T] # Nobody =>
            \/ T \in Declares[Root] /\ list[T] = Root
            \/ /\ T \notin Declares[Root]
               /\ T \in DOMAIN Resolved => list[T] = Resolved[T]
               /\ T \notin DOMAIN Resolved =>
                     list[T] \in Mod \ {Root} /\ T \in Declares[list[T]]

\* Before there is an injector the list is the root's own.
BeforeStart ==
    injector = NoInjector => rootProviders = RootList /\ oldGraph = NoGraph

\* The lists grow from the root's own to the backup's, to the current one, to
\* what the injector was created from.
AfterStart ==
    injector # NoInjector =>
        /\ graph.metas # {} /\ baseline.metas # {}
        /\ injector.modules \subseteq Mod
        /\ injector.providers \in Lists
        /\ Entitled(injector.providers)
        /\ KeptIn(rootProviders, injector.providers)

ListsInv ==
    /\ rootProviders \in Lists /\ oldRootProviders \in Lists
    /\ KeptIn(RootList, rootProviders)
    /\ oldGraph # NoGraph =>
          KeptIn(RootList, oldRootProviders) /\ KeptIn(oldRootProviders, rootProviders)
    /\ BeforeStart
    /\ AfterStart
    /\ reinitializing => injector # NoInjector

\* Merging keeps what is in the list and adds those entitled.
LEMMA MergedKeeps ==
    ASSUME NEW g, Good(g), NEW list \in Lists, KeptIn(RootList, list), Entitled(list),
           ~Throws(g, list)
    PROVE  /\ Merged(g, list) \in Lists
           /\ Entitled(Merged(g, list))
           /\ KeptIn(list, Merged(g, list))
<1>1. ASSUME NEW T \in Token
      PROVE  /\ Exported(g, T) \in Mod \union {Nobody}
             /\ T \in DOMAIN Resolved => Exported(g, T) = Resolved[T]
             /\ T \notin DOMAIN Resolved /\ Exported(g, T) # Nobody =>
                   Exported(g, T) \in Mod \ {Root} /\ T \in Declares[Exported(g, T)]
  BY ProvidersAssumption DEF Exported, Exporters
<1>2. \A T \in Token : T \in Declares[Root] => list[T] = Root
  BY ProvidersAssumption, ModuleAssumption DEF KeptIn, RootList
<1>3. Merged(g, list) \in Lists /\ KeptIn(list, Merged(g, list))
  BY <1>1 DEF Merged, Lists, KeptIn
<1>4. Entitled(Merged(g, list))
  <2> SUFFICES ASSUME NEW T \in Token, Merged(g, list)[T] # Nobody
               PROVE  \/ T \in Declares[Root] /\ Merged(g, list)[T] = Root
                      \/ /\ T \notin Declares[Root]
                         /\ T \in DOMAIN Resolved => Merged(g, list)[T] = Resolved[T]
                         /\ T \notin DOMAIN Resolved =>
                               /\ Merged(g, list)[T] \in Mod \ {Root}
                               /\ T \in Declares[Merged(g, list)[T]]
    BY DEF Entitled
  <2>1. CASE list[T] # Nobody
    <3>1. Merged(g, list)[T] = list[T]
      BY <2>1 DEF Merged
    <3> QED
      BY <2>1, <3>1 DEF Entitled
  <2>2. CASE list[T] = Nobody
    <3>1. Merged(g, list)[T] = Exported(g, T) /\ T \notin Declares[Root]
      BY <1>2, <2>2, ModuleAssumption, ProvidersAssumption DEF Merged
    <3> QED
      BY <1>1, <3>1
  <2> QED
    BY <2>1, <2>2
<1> QED
  BY <1>3, <1>4

\* A module that the injector takes a token from, and that is registered, goes
\* on to provide it: nobody else may export the token without a collision.
LEMMA MergedIsLoyal ==
    ASSUME NEW g, Good(g), NEW list \in Lists, KeptIn(RootList, list),
           NEW older \in Lists, Entitled(older), KeptIn(list, older),
           ~Throws(g, list),
           NEW T \in Token, older[T] \in g.metas
    PROVE  Merged(g, list)[T] = older[T]
<1>1. g.metas \subseteq Mod /\ g.app \in [Mod -> 0..2] /\ older[T] # Nobody
  BY ProvidersAssumption DEF Good, Sound, Graph
<1>2. CASE list[T] # Nobody
  BY <1>2 DEF KeptIn, Merged
<1>3. CASE list[T] = Nobody
  <2>1. Merged(g, list)[T] = Exported(g, T)
    BY <1>3 DEF Merged
  <2>2. T \notin Declares[Root]
    BY <1>3, ProvidersAssumption, ModuleAssumption DEF KeptIn, RootList
  <2>3. CASE T \in DOMAIN Resolved
    BY <1>1, <2>1, <2>2, <2>3 DEF Entitled, Exported
  <2>4. CASE T \notin DOMAIN Resolved
    <3>1. older[T] \in Mod \ {Root} /\ T \in Declares[older[T]]
      BY <1>1, <2>2, <2>4 DEF Entitled
    <3>2. older[T] \in PerApp
      BY <3>1, ProvidersAssumption
    <3>3. older[T] \in Exporters(g, T)
      BY <1>1, <3>1, <3>2 DEF Exporters, Good, Sound, Counted
    <3>4. ~(Cardinality(Exporters(g, T)) > 1)
      BY <1>3, <2>4 DEF Throws, Collisions
    <3>5. IsFiniteSet(Exporters(g, T))
      <4>1. Exporters(g, T) \in SUBSET Mod
        BY DEF Exporters
      <4> QED
        BY ONLY <4>1, ProvidersAssumption, FS_Subset
    <3>6. Cardinality(Exporters(g, T)) = 1
      <4>1. Cardinality(Exporters(g, T)) \in Nat
        BY ONLY <3>5, FS_CardinalityType
      <4>2. Cardinality(Exporters(g, T)) # 0
        BY ONLY <3>3, <3>5, FS_EmptySet
      <4> QED
        BY <3>4, <4>1, <4>2
    <3>7. Exporters(g, T) = {older[T]}
      <4>1. \E m : Exporters(g, T) = {m}
        BY ONLY <3>5, <3>6, FS_Singleton
      <4> QED
        BY <3>3, <4>1
    <3> QED
      BY <2>1, <2>4, <3>7 DEF Exported
  <2> QED
    BY <2>3, <2>4
<1> QED
  BY <1>2, <1>3

\* The lists an operation starts from: the current one, and what undoing gives.
LEMMA ListsOf ==
    ASSUME IInv, ListsInv
    PROVE  /\ KeptIn(Undone, rootProviders) /\ Undone \in Lists /\ KeptIn(RootList, Undone)
           /\ \A one, two, three :
                 KeptIn(one, two) /\ KeptIn(two, three) => KeptIn(one, three)
           /\ \A one, two : KeptIn(one, two) /\ Entitled(two) => Entitled(one)
           /\ Entitled(RootList)
<1>1. KeptIn(Undone, rootProviders) /\ Undone \in Lists /\ KeptIn(RootList, Undone)
  BY DEF Undone, ListsInv, KeptIn
<1>2. \A one, two, three : KeptIn(one, two) /\ KeptIn(two, three) => KeptIn(one, three)
  BY DEF KeptIn
<1>3. \A one, two : KeptIn(one, two) /\ Entitled(two) => Entitled(one)
  BY DEF KeptIn, Entitled
<1>4. Entitled(RootList)
  BY ProvidersAssumption DEF RootList, Entitled
<1> QED
  BY <1>1, <1>2, <1>3, <1>4

\* A registry operation leaves the injector alone; the list it leaves is the one
\* there was or the one undoing gives.
LEMMA RegistryKeepsLists == ASSUME IInv, ListsInv, RegistryStep PROVE ListsInv'
<1>1. UNCHANGED <<injector, reinitializing>>
  BY DEF RegistryStep
<1>2. \/ rootProviders' = rootProviders
      \/ rootProviders' = Undone /\ oldGraph' = NoGraph
  BY DEF RegistryStep, Rollback, Finish, Return
<1>3. /\ rootProviders' \in Lists /\ oldRootProviders' \in Lists
      /\ KeptIn(RootList, rootProviders') /\ KeptIn(rootProviders', rootProviders)
  <2>1. NoProviders \in Lists /\ KeptIn(rootProviders, rootProviders)
    BY DEF NoProviders, Lists, KeptIn
  <2> QED
    BY <1>2, <2>1, ListsOf DEF RegistryStep, Backed, ListsInv
<1>4. oldGraph' # NoGraph =>
         KeptIn(RootList, oldRootProviders') /\ KeptIn(oldRootProviders', rootProviders')
  <2>1. KeptIn(rootProviders, rootProviders)
    BY DEF KeptIn
  <2> QED
    BY <1>2, <2>1 DEF RegistryStep, Backed, ListsInv
<1>5. BeforeStart'
  BY <1>1 DEF RegistryStep, ListsInv, BeforeStart, ScanRootModule, Finish, Return, Undone
<1>6. AfterStart'
  <2> SUFFICES ASSUME injector # NoInjector
               PROVE  graph'.metas # {} /\ baseline'.metas # {}
                      /\ KeptIn(rootProviders', injector.providers)
    BY <1>1 DEF AfterStart, ListsInv
  <2>1. graph.metas # {} /\ baseline.metas # {} /\ KeptIn(rootProviders, injector.providers)
    BY DEF ListsInv, AfterStart
  <2>2. KeptIn(rootProviders', injector.providers)
    BY <1>3, <2>1, ListsOf
  <2>3. Backup.metas # {} /\ (oldGraph # NoGraph => oldGraph.metas # {})
    BY <2>1 DEF IInv, Backup
  <2>4. ASSUME NEW g, g.metas # {}, NEW old, NEW result, Finish(g, old, result)
        PROVE  graph'.metas # {} /\ baseline'.metas # {}
    BY <2>1, <2>4 DEF Finish
  <2>5. ASSUME NEW result, Return(result) PROVE graph'.metas # {} /\ baseline'.metas # {}
    BY <2>1, <2>4, <2>5 DEF Return
  <2>6. ASSUME NEW r \in Requests, NEW byId \in BOOLEAN, AddImport(r[1], r[2], byId)
        PROVE  graph'.metas # {} /\ baseline'.metas # {}
    <3>1. Registered(graph, r[2], byId) => Added(r[1], r[2]).metas # {}
      BY DEF Added, ScanModule, AddChild, Registered, IInv, Good, Sound, Graph
    <3> QED
      BY <2>3, <2>4, <2>5, <2>6, <3>1 DEF AddImport
  <2>7. ASSUME NEW r \in Requests, NEW byId \in BOOLEAN, RemoveImport(r[1], r[2], byId)
        PROVE  graph'.metas # {} /\ baseline'.metas # {}
    <3>1. Removed(r[1], r[2]).metas # {}
      <4> DEFINE g == RemoveChild([graph EXCEPT !.imports[r[2]] = @ \ {r[1]}], r[2], r[1])
      <4>1. Sound(g) /\ Reachable(g) \subseteq Reachable(graph) /\ g.metas = graph.metas
        BY UnlinkSound, RequestsAssumption DEF IInv, Good
      <4>2. Root \in Reachable(g) /\ Reachable(graph) \subseteq graph.metas
        <5>1. g.children \in [Mod -> SUBSET Mod]
          BY <4>1 DEF Sound, Graph
        <5> HIDE DEF g
        <5> QED
          BY <2>1, <5>1, ClosureClosed, ModuleAssumption DEF Reachable, IInv, Good, Covered
      <4> HIDE DEF g
      <4>3. PruneUnreachableModules(g).metas = g.metas \intersect Reachable(g)
        BY <4>1, PruneSound
      <4> QED
        BY <4>1, <4>2, <4>3 DEF Removed, g
    <3> QED
      BY <2>4, <2>5, <2>7, <3>1 DEF RemoveImport
  <2>8. CASE ScanRootModule
    BY <2>1, <2>2, <2>5, <2>8 DEF ScanRootModule
  <2>9. CASE StartTransaction \/ Commit \/ Rollback
    BY <2>1, <2>2, <2>3, <2>4, <2>5, <2>9 DEF StartTransaction, Commit, Rollback
  <2> QED
    BY <2>2, <2>6, <2>7, <2>8, <2>9 DEF RegistryStep
<1> QED
  BY <1>1, <1>3, <1>4, <1>5, <1>6 DEF ListsInv

\* An injector created from a list that has only grown replaces the last one
\* without taking a token from a module that is still registered.
LEMMA BootstrappedFromOlder ==
    ASSUME IInv, ListsInv, NEW g, Good(g), g.metas # {},
           NEW list \in Lists, KeptIn(RootList, list), KeptIn(list, rootProviders),
           ~Throws(g, list), Bootstrapped(g, list)
    PROVE  /\ rootProviders' \in Lists /\ KeptIn(list, rootProviders')
           /\ KeptIn(RootList, rootProviders')
           /\ injector' # NoInjector /\ injector'.modules \subseteq Mod
           /\ injector'.providers = rootProviders' /\ Entitled(injector'.providers)
           /\ \A T \in Token : injector.providers[T] \in injector'.modules
                 => injector'.providers[T] = injector.providers[T]
<1>1. Entitled(list)
  <2>1. CASE injector = NoInjector
    BY <2>1, ListsOf DEF ListsInv, BeforeStart
  <2>2. CASE injector # NoInjector
    BY <2>2, ListsOf DEF ListsInv, AfterStart
  <2> QED
    BY <2>1, <2>2
<1>2. /\ rootProviders' = Merged(g, list)
      /\ injector' = [providers |-> Merged(g, list), modules |-> g.metas]
  BY DEF Bootstrapped
<1>3. Merged(g, list) \in Lists /\ Entitled(Merged(g, list)) /\ KeptIn(list, Merged(g, list))
  BY <1>1, MergedKeeps
<1>4. g.metas \subseteq Mod
  BY DEF Good, Sound, Graph
<1>5. ASSUME NEW T \in Token, injector.providers[T] \in g.metas
      PROVE  Merged(g, list)[T] = injector.providers[T]
  <2>1. CASE injector = NoInjector
    BY <1>4, <1>5, <2>1, ProvidersAssumption DEF NoInjector, NoProviders
  <2>2. CASE injector # NoInjector
    <3>1. /\ injector.providers \in Lists /\ Entitled(injector.providers)
          /\ KeptIn(rootProviders, injector.providers)
      BY <2>2 DEF ListsInv, AfterStart
    <3>2. KeptIn(list, injector.providers)
      BY <3>1, ListsOf
    <3> QED
      BY <1>5, <3>1, <3>2, MergedIsLoyal
  <2> QED
    BY <2>1, <2>2
<1>6. KeptIn(RootList, rootProviders')
  BY <1>2, <1>3, ListsOf
<1> QED
  BY <1>2, <1>3, <1>4, <1>5, <1>6 DEF NoInjector

\* No module that is still registered loses a token in this step.
Loyal ==
    \A T \in Token : injector.providers[T] \in injector'.modules
        => injector'.providers[T] = injector.providers[T]

\* Where the injector stays as it is, no token changes hands.
LEMMA SameInjectorIsLoyal == UNCHANGED injector => Loyal
BY DEF Loyal

\* After a failure the graph and the list are those of the backup.
LEMMA HandledKeepsLists ==
    ASSUME IInv, ListsInv, injector # NoInjector, HandleReinitError(Backup, Undone)
    PROVE  ListsInv' /\ Loyal
<1>1. graph' = Backup /\ oldGraph' = NoGraph /\ baseline' = Backup
      /\ oldRootProviders' = NoProviders /\ NoProviders \in Lists
  BY DEF HandleReinitError, Finish, NoProviders, Lists
<1>2. Good(Backup) /\ Backup.metas # {}
  BY BackupGood DEF ListsInv, AfterStart
<1>3. KeptIn(Undone, rootProviders) /\ Undone \in Lists /\ KeptIn(RootList, Undone)
  BY ListsOf
<1>4. CASE Throws(Backup, Undone)
  <2>1. rootProviders' = Undone /\ UNCHANGED injector
    BY <1>4 DEF HandleReinitError
  <2>2. KeptIn(Undone, injector.providers)
    BY <1>3, ListsOf DEF ListsInv, AfterStart
  <2> QED
    BY <1>1, <1>2, <1>3, <2>1, <2>2, SameInjectorIsLoyal
       DEF ListsInv, BeforeStart, AfterStart
<1>5. CASE ~Throws(Backup, Undone)
  <2>1. Bootstrapped(Backup, Undone)
    BY <1>5 DEF HandleReinitError
  <2>2. /\ rootProviders' \in Lists
        /\ KeptIn(RootList, rootProviders')
        /\ injector' # NoInjector /\ injector'.modules \subseteq Mod
        /\ injector'.providers = rootProviders' /\ Entitled(injector'.providers)
        /\ Loyal
    BY <1>2, <1>3, <1>5, <2>1, BootstrappedFromOlder DEF Loyal
  <2>3. KeptIn(rootProviders', rootProviders')
    BY DEF KeptIn
  <2> QED
    BY <1>1, <1>2, <2>2, <2>3 DEF ListsInv, BeforeStart, AfterStart
<1> QED
  BY <1>4, <1>5

\* The lists keep growing in step, and every injector is loyal to the last one.
LEMMA NextKeepsLists ==
    ASSUME IInv, ListsInv, ProvidersNext PROVE ListsInv' /\ Loyal
<1>1. CASE RegistryStep
  BY <1>1, RegistryKeepsLists, SameInjectorIsLoyal DEF RegistryStep
<1>2. KeptIn(rootProviders, rootProviders) /\ KeptIn(RootList, rootProviders)
      /\ rootProviders \in Lists /\ Good(graph)
  BY DEF KeptIn, ListsInv, IInv
<1>3. CASE StartApp
  <2>1. /\ rootProviders' \in Lists /\ KeptIn(RootList, rootProviders')
        /\ injector' # NoInjector /\ injector'.modules \subseteq Mod
        /\ injector'.providers = rootProviders' /\ Entitled(injector'.providers)
        /\ Loyal
    BY <1>2, <1>3, BootstrappedFromOlder DEF StartApp, Loyal
  <2>2. oldGraph = NoGraph /\ graph.metas # {} /\ baseline.metas # {}
        /\ UNCHANGED <<graph, oldGraph, baseline, oldRootProviders, reinitializing>>
    BY <1>3 DEF StartApp, ListsInv, BeforeStart, IInv, vars
  <2>3. KeptIn(rootProviders', rootProviders')
    BY DEF KeptIn
  <2> QED
    BY <2>1, <2>2, <2>3 DEF ListsInv, BeforeStart, AfterStart
<1>4. CASE Reinit
  <2>1. graph.metas # {} /\ Backup.metas # {} /\ baseline.metas # {}
    BY <1>4, BackupGood DEF Reinit, ListsInv, AfterStart
  <2>2. /\ rootProviders' \in Lists /\ KeptIn(RootList, rootProviders')
        /\ KeptIn(rootProviders, rootProviders')
        /\ injector' # NoInjector /\ injector'.modules \subseteq Mod
        /\ injector'.providers = rootProviders' /\ Entitled(injector'.providers)
        /\ Loyal
    BY <1>2, <1>4, <2>1, BootstrappedFromOlder DEF Reinit, Loyal
  <2>3. graph' = graph /\ oldGraph' = Backup /\ baseline' = baseline
        /\ oldRootProviders' = Undone
    BY <1>4, BackupGood DEF Reinit, Finish
  <2>4. KeptIn(rootProviders', rootProviders') /\ KeptIn(Undone, rootProviders')
        /\ Undone \in Lists /\ KeptIn(RootList, Undone)
    BY <2>2, ListsOf DEF KeptIn
  <2> QED
    BY <2>1, <2>2, <2>3, <2>4 DEF ListsInv, BeforeStart, AfterStart
<1>5. CASE ReinitCollides
  <2>1. ListsInv' /\ Loyal
    BY <1>5, HandledKeepsLists DEF ReinitCollides
  <2> QED
    BY <2>1
<1>6. ASSUME NEW autocommit \in BOOLEAN, ReinitSucceeds(autocommit) PROVE ListsInv' /\ Loyal
  <2>1. injector # NoInjector /\ UNCHANGED <<rootProviders, injector>> /\ ~reinitializing'
        /\ graph' = graph
        /\ \/ oldGraph' = NoGraph /\ baseline' = graph
           \/ oldGraph' = oldGraph /\ baseline' = IF oldGraph = NoGraph THEN graph ELSE baseline
    BY <1>6 DEF ReinitSucceeds, Commit, Return, Finish, ListsInv
  <2>2. NoProviders \in Lists
    BY DEF NoProviders, Lists
  <2>3. /\ oldRootProviders' \in Lists
        /\ oldGraph' # NoGraph => KeptIn(RootList, oldRootProviders')
                                  /\ KeptIn(oldRootProviders', rootProviders')
    BY <1>2, <1>6, <2>1, <2>2 DEF ReinitSucceeds, Backed, ListsInv
  <2> QED
    BY <2>1, <2>3, SameInjectorIsLoyal DEF ListsInv, BeforeStart, AfterStart
<1>7. CASE ReinitFails
  <2>1. injector # NoInjector
    BY <1>7 DEF ReinitFails, ListsInv
  <2>2. CASE oldGraph = NoGraph /\ Return("thrown")
             /\ UNCHANGED <<rootProviders, oldRootProviders, injector>>
    <3>1. graph' = graph /\ oldGraph' = oldGraph /\ baseline' = graph
      BY <2>2 DEF Return, Finish
    <3>2. ~reinitializing'
      BY <1>7 DEF ReinitFails
    <3> QED
      BY <2>1, <2>2, <3>1, <3>2, SameInjectorIsLoyal DEF ListsInv, BeforeStart, AfterStart
  <2>3. CASE oldGraph # NoGraph /\ HandleReinitError(oldGraph, oldRootProviders)
    BY <2>1, <2>3, HandledKeepsLists DEF Backup, Undone
  <2> QED
    BY <1>7, <2>2, <2>3 DEF ReinitFails
<1> QED
  BY <1>1, <1>3, <1>4, <1>5, <1>6, <1>7 DEF ProvidersNext

\* What is known of the lists holds in every state of an application.
LEMMA ListsInvariant == ProvidersSpec => []ListsInv
<1>1. ProvidersInit => ListsInv
  BY ModuleAssumption, ProvidersAssumption
     DEF ProvidersInit, Init, ListsInv, Lists, KeptIn, RootList, NoProviders, BeforeStart,
         AfterStart
<1>2. IInv /\ ListsInv /\ [ProvidersNext]_<<vars, providersVars>> => ListsInv'
  <2> SUFFICES ASSUME IInv, ListsInv, UNCHANGED <<vars, providersVars>> PROVE ListsInv'
    BY NextKeepsLists
  <2> QED
    BY DEF vars, providersVars, ListsInv, BeforeStart, AfterStart
<1> QED
  BY <1>1, <1>2, ProvidersIInv, PTL DEF ProvidersSpec

\* Whatever is imported, removed, undone and reinitialised, with or without
\* failures, no module takes a token over from one that is still registered.
THEOREM TokensStay == ProvidersSpec => NoTakeover
<1>1. IInv /\ ListsInv /\ [ProvidersNext]_<<vars, providersVars>>
        => [\A T \in Token :
              injector.providers[T] \in injector'.modules
                => injector'.providers[T] = injector.providers[T]]_injector
  BY NextKeepsLists DEF Loyal, vars, providersVars
<1> QED
  BY <1>1, ProvidersIInv, ListsInvariant, PTL DEF ProvidersSpec, NoTakeover

-----------------------------------------------------------------------------
(* The scan, call by call.                                                  *)

\* The calls of scanModule(x) on the graph g that are under way, when the modules
\* fin are scanned and the modules sc are being scanned.  Each module that is met
\* is scanned, is being scanned, or was before; each call is for another module,
\* but for x, that is called once more if it is imported by what it imports.
Frame == [mod : Mod, todo : SUBSET Mod]
Walk(g, x, fin, sc, calls) ==
    LET met == g.scanned \union fin \union sc
    IN  /\ calls \in Seq(Frame) /\ calls # <<>> /\ calls[1].mod = x
        /\ fin \union sc \subseteq ScanSet(g, x) \ (g.scanned \union Malformed)
        /\ x \notin Malformed /\ fin \intersect sc = {}
        /\ sc = {calls[i].mod : i \in 2..Len(calls)}
        /\ \A i, j \in 2..Len(calls) : calls[i].mod = calls[j].mod => i = j
        /\ x \in fin \union sc => \E p \in ScanSet(g, x) : x \in ToScan(p)
        /\ \A m \in fin : ToScan(m) \subseteq met
        /\ \A i \in DOMAIN calls : /\ calls[i].todo \subseteq ToScan(calls[i].mod)
                                   /\ ToScan(calls[i].mod) \subseteq calls[i].todo \union met

\* What the scan has made of g: it has stored the modules fin, and entered the
\* children of those that are met.
Partly(g, fin, met) ==
    [metas    |-> g.metas \union fin,
     imports  |-> [m \in Mod |-> IF m \in fin THEN Imports[m] ELSE g.imports[m]],
     children |-> [m \in Mod |-> IF m \in met THEN ToScan(m) ELSE g.children[m]],
     scanned  |-> g.scanned \union fin,
     ids      |-> g.ids \union (fin \intersect WithId),
     app      |-> [m \in Mod |-> SaturatingAdd(g.app[m], IF m \in (fin \intersect PerApp) \ {Root}
                                                         THEN 1 ELSE 0)]]
GraphOf(metas, imports, children, scanned, ids, app) ==
    [metas |-> metas, imports |-> imports, children |-> children, scanned |-> scanned,
     ids |-> ids, app |-> app]
Kept(g, fin, one, met) ==
    GraphOf(g.metas \union one, Partly(g, one, met).imports, Partly(g, fin, met).children,
            g.scanned \union fin, g.ids \union (one \intersect WithId), Partly(g, one, met).app)
Entered(h, m) == [h EXCEPT !.children[m] = ToScan(m)]
Stored(s, m) == [s EXCEPT !.graph = SetMeta(@, m), !.calls = Front(@)]
At(phase, of, h, sc, calls) ==
    [phase |-> phase, of |-> of, graph |-> h, scanning |-> sc, calls |-> calls]
Walking(g, x, fin, sc, calls) ==
    At("running", <<g, x>>, Partly(g, fin, fin \union sc \union {x}), sc, calls)

\* A scan is under way, has returned what it should, or has met a malformed module.
Scanning(s, g, x) ==
    \/ \E fin, sc \in SUBSET Mod : \E calls \in Seq(Frame) :
          Walk(g, x, fin, sc, calls) /\ s = Walking(g, x, fin, sc, calls)
    \/ /\ s.phase = "returned" /\ s.of = <<g, x>>
       /\ ScanSet(g, x) \intersect Malformed = {} /\ s.graph = ScanModule(g, x)
    \/ /\ s.phase = "thrown" /\ s.of = <<g, x>>
       /\ ScanSet(g, x) \intersect Malformed # {}
ScanInv == scan = Idle \/ \E g \in Graph, x \in Mod : Scanning(scan, g, x)

\* What a scan of x visits: x, and the children of what it visits that were not
\* scanned before; and it is the least such set.
LEMMA VisitsAre ==
    ASSUME NEW g \in Graph, NEW x \in Mod
    PROVE  /\ ScanSet(g, x) \subseteq Mod /\ x \in ScanSet(g, x)
           /\ \A m \in ScanSet(g, x) : ToScan(m) \ g.scanned \subseteq ScanSet(g, x)
           /\ \A S \in SUBSET Mod : x \in S /\ (\A m \in S : ToScan(m) \ g.scanned \subseteq S)
                                      => ScanSet(g, x) \subseteq S
<1> DEFINE succ == [m \in Mod |-> ToScan(m) \ g.scanned]
<1>1. \A m \in Mod : ToScan(m) \subseteq Mod
  BY ModuleAssumption DEF ToScan
<1>2. succ \in [Mod -> SUBSET Mod]
  BY <1>1
<1>3. ScanSet(g, x) = Closure(x, succ)
  BY DEF ScanSet
<1>4. \A m \in Mod : succ[m] = ToScan(m) \ g.scanned
  OBVIOUS
<1> HIDE DEF succ
<1>5. /\ Closure(x, succ) \in SUBSET Mod /\ x \in Closure(x, succ)
      /\ Closed(Closure(x, succ), succ)
  BY <1>2, ClosureClosed
<1>6. ASSUME NEW S \in SUBSET Mod, x \in S, \A m \in S : ToScan(m) \ g.scanned \subseteq S
      PROVE  ScanSet(g, x) \subseteq S
  <2>1. Closed(S, succ)
    BY <1>4, <1>6 DEF Closed
  <2> QED
    BY <1>2, <1>3, <1>6, <2>1, ClosureLeast
<1>7. \A m \in ScanSet(g, x) : ToScan(m) \ g.scanned \subseteq ScanSet(g, x)
  BY <1>3, <1>4, <1>5 DEF Closed
<1> QED
  BY <1>3, <1>5, <1>6, <1>7

\* Nothing is stored yet.
LEMMA PartlyStarts ==
    ASSUME NEW g \in Graph, NEW x \in Mod
    PROVE  Entered(g, x) = Partly(g, {}, {x})
<1>1. /\ g = [metas |-> g.metas, imports |-> g.imports, children |-> g.children,
              scanned |-> g.scanned, ids |-> g.ids, app |-> g.app]
      /\ g.imports \in [Mod -> SUBSET Mod] /\ g.children \in [Mod -> SUBSET Mod]
      /\ g.app \in [Mod -> 0..2]
  BY DEF Graph
<1>2. g.app = [m \in Mod |-> SaturatingAdd(g.app[m], 0)]
  <2>1. \A m \in Mod : SaturatingAdd(g.app[m], 0) = g.app[m]
    BY <1>1 DEF SaturatingAdd
  <2> QED
    BY <1>1, <2>1
<1>3. [g.children EXCEPT ![x] = ToScan(x)] = [m \in Mod |-> IF m \in {x} THEN ToScan(m) ELSE g.children[m]]
  BY <1>1
<1>4. g.imports = [m \in Mod |-> IF m \in {} THEN Imports[m] ELSE g.imports[m]]
  BY <1>1
<1>5. [g EXCEPT !.children[x] = ToScan(x)] =
         [metas |-> g.metas, imports |-> g.imports, children |-> [g.children EXCEPT ![x] = ToScan(x)],
          scanned |-> g.scanned, ids |-> g.ids, app |-> g.app]
  BY <1>1
<1>6. [m \in Mod |-> SaturatingAdd(g.app[m], IF m \in ({} \intersect PerApp) \ {Root} THEN 1 ELSE 0)]
         = [m \in Mod |-> SaturatingAdd(g.app[m], 0)]
  OBVIOUS
<1> QED
  BY <1>2, <1>3, <1>4, <1>5, <1>6 DEF Partly, Entered

\* One list of children is entered in a graph.
LEMMA EntersIs ==
    ASSUME NEW a, NEW b, NEW c, NEW d, NEW e, NEW f, NEW m, NEW v
    PROVE  [[metas |-> a, imports |-> b, children |-> c, scanned |-> d, ids |-> e, app |-> f]
               EXCEPT !.children[m] = v]
             = [metas |-> a, imports |-> b, children |-> [c EXCEPT ![m] = v], scanned |-> d,
                ids |-> e, app |-> f]
OBVIOUS

\* The children of one more module are entered.
LEMMA PartlyEnters ==
    ASSUME NEW g \in Graph, NEW fin, NEW met, NEW m \in Mod
    PROVE  Entered(Partly(g, fin, met), m) = Partly(g, fin, met \union {m})
<1> DEFINE c == [k \in Mod |-> IF k \in met THEN ToScan(k) ELSE g.children[k]]
           b == [k \in Mod |-> IF k \in fin THEN Imports[k] ELSE g.imports[k]]
           f == [k \in Mod |-> SaturatingAdd(g.app[k], IF k \in (fin \intersect PerApp) \ {Root}
                                                       THEN 1 ELSE 0)]
           d == [k \in Mod |-> IF k \in met \union {m} THEN ToScan(k) ELSE g.children[k]]
<1>1. [c EXCEPT ![m] = ToScan(m)] = d
  OBVIOUS
<1>2. Partly(g, fin, met) = [metas |-> g.metas \union fin, imports |-> b, children |-> c,
                             scanned |-> g.scanned \union fin,
                             ids |-> g.ids \union (fin \intersect WithId), app |-> f]
  BY DEF Partly
<1>3. Partly(g, fin, met \union {m}) =
         [metas |-> g.metas \union fin, imports |-> b, children |-> d,
          scanned |-> g.scanned \union fin,
          ids |-> g.ids \union (fin \intersect WithId), app |-> f]
  BY DEF Partly
<1>4. PICK a, e, h, v : /\ a = g.metas \union fin /\ e = g.scanned \union fin
                         /\ h = g.ids \union (fin \intersect WithId) /\ v = ToScan(m)
  OBVIOUS
<1> HIDE DEF b, c, d, f
<1>5. Partly(g, fin, met) =
         [metas |-> a, imports |-> b, children |-> c, scanned |-> e, ids |-> h, app |-> f]
  BY <1>2, <1>4
<1>6. [Partly(g, fin, met) EXCEPT !.children[m] = v] =
         [metas |-> a, imports |-> b, children |-> [c EXCEPT ![m] = v], scanned |-> e, ids |-> h,
          app |-> f]
  BY <1>5, EntersIs
<1>7. [c EXCEPT ![m] = v] = d
  BY <1>1, <1>4
<1> QED
  BY <1>3, <1>4, <1>6, <1>7 DEF Entered

\* What setMeta adds to the lists, for one module.
Additional(a, e, f, m, x, y, v, w) ==
    /\ x = a \union {m} /\ y = e \union ({m} \intersect WithId) /\ v = Imports[m]
    /\ w = IF m \in PerApp \ {Root} THEN SaturatingAdd(f[m], 1) ELSE f[m]

\* What setMeta changes.
LEMMA SetMetaIs ==
    ASSUME NEW a, NEW b, NEW c, NEW d, NEW e, NEW f, NEW m, NEW x, NEW y, NEW v, NEW w,
           Additional(a, e, f, m, x, y, v, w)
    PROVE  SetMeta([metas |-> a, imports |-> b, children |-> c, scanned |-> d, ids |-> e,
                    app |-> f], m)
             = [metas |-> x, imports |-> [b EXCEPT ![m] = v], children |-> c, scanned |-> d,
                ids |-> y, app |-> [f EXCEPT ![m] = w]]
<1>1. PICK g : g = [metas |-> a, imports |-> b, children |-> c, scanned |-> d, ids |-> e,
                    app |-> f]
  OBVIOUS
<1>2. PICK g1 : g1 = [metas |-> x, imports |-> b, children |-> c, scanned |-> d, ids |-> e,
                      app |-> f]
  OBVIOUS
<1>3. g1 = [g EXCEPT !.metas = @ \union {m}]
  BY <1>1, <1>2 DEF Additional
<1>4. PICK g2 : g2 = [metas |-> x, imports |-> [b EXCEPT ![m] = v], children |-> c, scanned |-> d,
                      ids |-> e, app |-> f]
  OBVIOUS
<1>5. g2 = [g1 EXCEPT !.imports[m] = v]
  BY <1>2, <1>4
<1>6. PICK g3 : g3 = [metas |-> x, imports |-> [b EXCEPT ![m] = v], children |-> c, scanned |-> d,
                      ids |-> y, app |-> f]
  OBVIOUS
<1>7. g3 = [g2 EXCEPT !.ids = @ \union ({m} \intersect WithId)]
  BY <1>4, <1>6, SMTT(60) DEF Additional
<1>8. [g3 EXCEPT !.app[m] = IF m \in PerApp \ {Root} THEN SaturatingAdd(@, 1) ELSE @]
        = [metas |-> x, imports |-> [b EXCEPT ![m] = v], children |-> c, scanned |-> d,
           ids |-> y, app |-> [f EXCEPT ![m] = w]]
  BY <1>6, SMTT(60) DEF Additional
<1>9. SetMeta(g, m) = [g3 EXCEPT !.app[m] = IF m \in PerApp \ {Root} THEN SaturatingAdd(@, 1) ELSE @]
  BY <1>3, <1>5, <1>7 DEF SetMeta, Additional
<1> QED
  BY <1>1, <1>8, <1>9

\* The last call returns, to the one that made it or from the scan.
LEMMA FinishIs ==
    ASSUME NEW a, NEW b, NEW c, NEW d, NEW e, NEW f, NEW m, NEW of, NEW sc, NEW calls
    PROVE  FinishScanning(At("running", of, GraphOf(a, b, c, d, e, f), sc, calls), m) =
              At("running", of, GraphOf(a, b, c, d \union {m}, e, f), sc \ {m}, calls)
<1> PICK s : s = [phase |-> "running", of |-> of,
                  graph |-> [metas |-> a, imports |-> b, children |-> c, scanned |-> d, ids |-> e,
                             app |-> f],
                  scanning |-> sc, calls |-> calls]
  OBVIOUS
<1>1. PICK x, y : x = sc \ {m} /\ y = d \union {m}
  OBVIOUS
<1>2. PICK t : t = [phase |-> "running", of |-> of,
                    graph |-> [metas |-> a, imports |-> b, children |-> c, scanned |-> d, ids |-> e,
                               app |-> f],
                    scanning |-> x, calls |-> calls]
  OBVIOUS
<1>3. [s EXCEPT !.scanning = @ \ {m}] = t
  BY <1>1, <1>2
<1>4. [t EXCEPT !.graph.scanned = y] =
         [phase |-> "running", of |-> of,
          graph |-> [metas |-> a, imports |-> b, children |-> c, scanned |-> y, ids |-> e,
                     app |-> f],
          scanning |-> x, calls |-> calls]
  BY <1>2
<1>5. FinishScanning(s, m) = [t EXCEPT !.graph.scanned = y]
  BY <1>1, <1>2, <1>3 DEF FinishScanning
<1> QED
  BY <1>1, <1>4, <1>5 DEF At, GraphOf

\* One more module is stored, which has not been stored in this scan.
LEMMA PartlyStores ==
    ASSUME NEW g \in Graph, NEW fin \in SUBSET Mod, NEW met, NEW m \in Mod \ fin
    PROVE  SetMeta(Partly(g, fin, met), m) = Kept(g, fin, fin \union {m}, met)
<1> DEFINE b(S) == [k \in Mod |-> IF k \in S THEN Imports[k] ELSE g.imports[k]]
           c == [k \in Mod |-> IF k \in met THEN ToScan(k) ELSE g.children[k]]
           f(S) == [k \in Mod |-> SaturatingAdd(g.app[k], IF k \in (S \intersect PerApp) \ {Root}
                                                          THEN 1 ELSE 0)]
           one == fin \union {m}
<1>1. g.app[m] \in 0..2
  BY DEF Graph
<1>2. [b(fin) EXCEPT ![m] = Imports[m]] = b(one)
  OBVIOUS
<1>3. [f(fin) EXCEPT ![m] = IF m \in PerApp \ {Root} THEN SaturatingAdd(@, 1) ELSE @] = f(one)
  <2>1. f(fin)[m] = g.app[m]
    BY <1>1 DEF SaturatingAdd
  <2>2. f(one)[m] = IF m \in PerApp \ {Root} THEN SaturatingAdd(g.app[m], 1) ELSE g.app[m]
    BY <1>1 DEF SaturatingAdd
  <2>3. \A k \in Mod : k # m => f(fin)[k] = f(one)[k]
    OBVIOUS
  <2>4. /\ f(fin) = [k \in Mod |-> f(fin)[k]] /\ f(one) = [k \in Mod |-> f(one)[k]]
    OBVIOUS
  <2> HIDE DEF f, one
  <2>5. PICK f1, f2 : f1 = f(fin) /\ f2 = f(one)
    OBVIOUS
  <2>6. f1 = [k \in Mod |-> f1[k]] /\ f2 = [k \in Mod |-> f2[k]]
    BY <2>4, <2>5
  <2>7. PICK v : v = IF m \in PerApp \ {Root} THEN SaturatingAdd(f1[m], 1) ELSE f1[m]
    OBVIOUS
  <2>8. f2[m] = v /\ \A k \in Mod : k # m => f1[k] = f2[k]
    BY <2>1, <2>2, <2>3, <2>5, <2>7
  <2>9. [f1 EXCEPT ![m] = v] = f2
    BY <2>6, <2>8
  <2> QED
    BY <2>5, <2>7, <2>9
<1>4. /\ Partly(g, fin, met) =
           [metas |-> g.metas \union fin, imports |-> b(fin), children |-> c,
            scanned |-> g.scanned \union fin,
            ids |-> g.ids \union (fin \intersect WithId), app |-> f(fin)]
      /\ Partly(g, one, met).imports = b(one) /\ Partly(g, fin, met).children = c
      /\ Partly(g, one, met).app = f(one)
  BY DEF Partly
<1>5. /\ (g.metas \union fin) \union {m} = g.metas \union one
      /\ (g.ids \union (fin \intersect WithId)) \union ({m} \intersect WithId)
           = g.ids \union (one \intersect WithId)
  OBVIOUS
<1> HIDE DEF b, c, f, one
<1>7. PICK a1, b1, d1, e1, f1 : /\ a1 = g.metas \union fin /\ b1 = b(fin) /\ d1 = g.scanned \union fin
                                /\ e1 = g.ids \union (fin \intersect WithId) /\ f1 = f(fin)
  OBVIOUS
<1>8. PICK a2, e2, v, w : /\ a2 = a1 \union {m} /\ e2 = e1 \union ({m} \intersect WithId)
                          /\ v = Imports[m]
                          /\ w = IF m \in PerApp \ {Root} THEN SaturatingAdd(f1[m], 1) ELSE f1[m]
  OBVIOUS
<1>9. Partly(g, fin, met) =
        [metas |-> a1, imports |-> b1, children |-> c, scanned |-> d1, ids |-> e1, app |-> f1]
  BY <1>4, <1>7
<1>10. SetMeta([metas |-> a1, imports |-> b1, children |-> c, scanned |-> d1, ids |-> e1,
                app |-> f1], m)
         = [metas |-> a2, imports |-> [b1 EXCEPT ![m] = v], children |-> c, scanned |-> d1,
            ids |-> e2, app |-> [f1 EXCEPT ![m] = w]]
  BY <1>8, SetMetaIs DEF Additional
<1>11. [b1 EXCEPT ![m] = v] = b(one) /\ [f1 EXCEPT ![m] = w] = f(one)
  BY <1>2, <1>3, <1>7, <1>8
<1> QED
  BY <1>4, <1>5, <1>7, <1>8, <1>9, <1>10, <1>11 DEF one, GraphOf, Kept

\* What a state of a scan is made of.
LEMMA AtHas ==
    ASSUME NEW p, NEW of, NEW h, NEW q, NEW cs
    PROVE  LET s == At(p, of, h, q, cs)
           IN  s.phase = p /\ s.of = of /\ s.graph = h /\ s.scanning = q /\ s.calls = cs
BY DEF At

\* What a call up to its loop does to a scan.
LEMMA CalledThrows ==
    ASSUME NEW p, NEW of, NEW h, NEW q, NEW cs, NEW m \in Malformed
    PROVE  Called(At(p, of, h, q, cs), m) = At("thrown", of, h, q, cs)
BY DEF Called, At

\* A call for a module that is not malformed enters its children.
LEMMA CalledIs ==
    ASSUME NEW p, NEW of, NEW h, NEW q, NEW cs, NEW m, m \notin Malformed
    PROVE  Called(At(p, of, h, q, cs), m) =
              At(p, of, Entered(h, m), q,
                 Append(cs, [mod |-> m, todo |-> ToScan(m)]))
<1>1. PICK v, h2, cs2 : /\ v = ToScan(m) /\ h2 = [h EXCEPT !.children[m] = v]
                        /\ cs2 = Append(cs, [mod |-> m, todo |-> v])
  OBVIOUS
<1>2. PICK t : t = [phase |-> p, of |-> of, graph |-> h2, scanning |-> q, calls |-> cs]
  OBVIOUS
<1>7. PICK s : s = [phase |-> p, of |-> of, graph |-> h, scanning |-> q, calls |-> cs]
  OBVIOUS
<1>3. [s EXCEPT !.graph.children[m] = v] = t
  <2>1. s.graph = h
    BY <1>7
  <2>2. [s EXCEPT !.graph = h2] = t
    BY <1>2, <1>7
  <2> QED
    BY <1>1, <2>1, <2>2
<1>4. [t EXCEPT !.calls = cs2] =
         [phase |-> p, of |-> of, graph |-> h2, scanning |-> q, calls |-> cs2]
  BY <1>2
<1>5. t.calls = cs
  BY <1>2
<1>6. Called(s, m) = [t EXCEPT !.calls = Append(@, [mod |-> m, todo |-> v])]
  BY <1>1, <1>3 DEF Called
<1> QED
  BY <1>1, <1>4, <1>5, <1>6, <1>7 DEF At, Entered

\* What one turn of the loop does to the calls under way.
Turned(cs, child) == [cs EXCEPT ![Len(cs)].todo = @ \ {child}]
\* One child fewer is left to the last call, and nothing else changes.
LEMMA TurnedIs ==
    ASSUME NEW cs \in Seq(Frame), cs # <<>>, NEW child
    PROVE  /\ Turned(cs, child) \in Seq(Frame) /\ Len(Turned(cs, child)) = Len(cs)
           /\ \A i \in 1..Len(cs) : Turned(cs, child)[i].mod = cs[i].mod
           /\ \A i \in 1..Len(cs) : i # Len(cs) => Turned(cs, child)[i] = cs[i]
           /\ Turned(cs, child)[Len(cs)].todo = cs[Len(cs)].todo \ {child}
<1>1. Len(cs) \in 1..Len(cs) /\ cs[Len(cs)] \in Frame
  BY ElementOfSeq, EmptySeq, LenProperties
<1>2. PICK n \in Nat, e \in Frame : n = Len(cs) /\ e = cs[Len(cs)]
  BY <1>1
<1>3. PICK f : f = [e EXCEPT !.todo = @ \ {child}]
  OBVIOUS
<1>4. f \in Frame /\ f.mod = e.mod /\ f.todo = e.todo \ {child}
  BY <1>2, <1>3 DEF Frame
<1>5. Turned(cs, child) = [cs EXCEPT ![n] = f]
  BY <1>2, <1>3 DEF Turned
<1>6. [cs EXCEPT ![n] = f] \in Seq(Frame) /\ Len([cs EXCEPT ![n] = f]) = n
  BY <1>1, <1>2, <1>4, ExceptSeq
<1>7. \A i \in 1..n : [cs EXCEPT ![n] = f][i] = IF i = n THEN f ELSE cs[i]
  BY <1>2, LenProperties
<1> QED
  BY <1>1, <1>2, <1>4, <1>5, <1>6, <1>7

\* A turn of the loop changes only the calls.
LEMMA TakenIs ==
    ASSUME NEW p, NEW of, NEW h, NEW q, NEW cs, NEW child
    PROVE  Taken(At(p, of, h, q, cs), child) = At(p, of, h, q, Turned(cs, child))
<1> PICK s : s = [phase |-> p, of |-> of, graph |-> h, scanning |-> q, calls |-> cs]
  OBVIOUS
<1>1. PICK n, v, cs2 : /\ n = Len(cs) /\ v = cs[n].todo \ {child}
                        /\ cs2 = [cs EXCEPT ![n].todo = v]
  OBVIOUS
<1>2. s.calls = cs
  OBVIOUS
<1>3. [s EXCEPT !.calls = cs2] =
         [phase |-> p, of |-> of, graph |-> h, scanning |-> q, calls |-> cs2]
  OBVIOUS
<1>4. Taken(s, child) = [s EXCEPT !.calls = cs2]
  BY <1>1, <1>2 DEF Taken
<1> QED
  BY <1>1, <1>3, <1>4 DEF Turned, At

\* A child is marked as being scanned before it is.
LEMMA BeginScanningIs ==
    ASSUME NEW p, NEW of, NEW h, NEW q, NEW cs, NEW child
    PROVE  BeginScanning(At(p, of, h, q, cs), child) = At(p, of, h, q \union {child}, cs)
BY DEF BeginScanning, At

\* The loop skips a child that has been met.
LEMMA WalkSkips ==
    ASSUME NEW g \in Graph, NEW x \in Mod, NEW fin, NEW sc, NEW calls, NEW child,
           Walk(g, x, fin, sc, calls), child \in g.scanned \union fin \union sc
    PROVE  Walk(g, x, fin, sc, Turned(calls, child))
<1> DEFINE cs == Turned(calls, child)
           n == Len(calls)
<1>1. calls \in Seq(Frame) /\ calls # <<>> /\ calls[1].mod = x /\ n \in Nat \ {0}
      /\ DOMAIN calls = 1..n
  BY EmptySeq, LenProperties DEF Walk
<1>2. /\ cs \in Seq(Frame) /\ Len(cs) = n /\ \A i \in 1..n : cs[i].mod = calls[i].mod
      /\ \A i \in 1..n : i # n => cs[i] = calls[i]
      /\ cs[n].todo = calls[n].todo \ {child}
  BY <1>1, TurnedIs
<1> HIDE DEF cs, n
<1>3. cs # <<>> /\ DOMAIN cs = 1..n /\ cs[1].mod = x
  BY <1>1, <1>2, EmptySeq, LenProperties
<1>4. /\ sc = {cs[i].mod : i \in 2..n}
      /\ \A i, j \in 2..n : cs[i].mod = cs[j].mod => i = j
  <2>1. /\ sc = {calls[i].mod : i \in 2..n}
        /\ \A i, j \in 2..n : calls[i].mod = calls[j].mod => i = j
    BY DEF Walk, n
  <2>2. \A i \in 2..n : cs[i].mod = calls[i].mod
    BY <1>1, <1>2
  <2> QED
    BY <2>1, <2>2
<1>5. ASSUME NEW i \in 1..n
      PROVE  /\ cs[i].todo \subseteq ToScan(cs[i].mod)
             /\ ToScan(cs[i].mod) \subseteq cs[i].todo \union (g.scanned \union fin \union sc)
  <2>1. /\ calls[i].todo \subseteq ToScan(calls[i].mod)
        /\ ToScan(calls[i].mod) \subseteq calls[i].todo \union (g.scanned \union fin \union sc)
    BY <1>1 DEF Walk
  <2> QED
    BY <1>2, <2>1
<1>6. /\ fin \union sc \subseteq ScanSet(g, x) \ (g.scanned \union Malformed)
      /\ x \notin Malformed /\ fin \intersect sc = {}
      /\ x \in fin \union sc => \E p \in ScanSet(g, x) : x \in ToScan(p)
      /\ \A m \in fin : ToScan(m) \subseteq g.scanned \union fin \union sc
  BY DEF Walk
<1>7. Walk(g, x, fin, sc, cs)
  BY <1>2, <1>3, <1>4, <1>5, <1>6 DEF Walk
<1> QED
  BY <1>7 DEF cs

\* The loop calls scanModule for a child that has not been met.
LEMMA WalkEnters ==
    ASSUME NEW g \in Graph, NEW x \in Mod, NEW fin, NEW sc, NEW calls, NEW child,
           Walk(g, x, fin, sc, calls), child \in calls[Len(calls)].todo,
           child \notin g.scanned \union fin \union sc
    PROVE  /\ child \in ScanSet(g, x)
           /\ child \notin Malformed =>
                 Walk(g, x, fin, sc \union {child},
                      Append(Turned(calls, child), [mod |-> child, todo |-> ToScan(child)]))
<1> DEFINE cs == Turned(calls, child)
           n == Len(calls)
           e == [mod |-> child, todo |-> ToScan(child)]
           more == Append(cs, e)
           scs == sc \union {child}
<1>1. calls \in Seq(Frame) /\ calls # <<>> /\ calls[1].mod = x /\ n \in Nat \ {0}
      /\ DOMAIN calls = 1..n
  BY EmptySeq, LenProperties DEF Walk
<1>2. /\ cs \in Seq(Frame) /\ Len(cs) = n /\ \A i \in 1..n : cs[i].mod = calls[i].mod
      /\ \A i \in 1..n : i # n => cs[i] = calls[i]
      /\ cs[n].todo = calls[n].todo \ {child}
  BY <1>1, TurnedIs
<1>3. /\ fin \union sc \subseteq ScanSet(g, x) \ (g.scanned \union Malformed)
      /\ x \notin Malformed /\ fin \intersect sc = {}
      /\ sc = {calls[i].mod : i \in 2..n}
      /\ \A i, j \in 2..n : calls[i].mod = calls[j].mod => i = j
      /\ x \in fin \union sc => \E p \in ScanSet(g, x) : x \in ToScan(p)
      /\ \A m \in fin : ToScan(m) \subseteq g.scanned \union fin \union sc
      /\ \A i \in 1..n : /\ calls[i].todo \subseteq ToScan(calls[i].mod)
                         /\ ToScan(calls[i].mod) \subseteq calls[i].todo
                               \union (g.scanned \union fin \union sc)
  BY <1>1 DEF Walk
<1>4. calls[n].mod \in ScanSet(g, x) /\ child \in ToScan(calls[n].mod)
  <2>1. n = 1 \/ n \in 2..n
    BY <1>1
  <2> QED
    BY <1>1, <1>3, <2>1, VisitsAre
<1>5. child \in ScanSet(g, x) /\ child \in Mod
  BY <1>4, VisitsAre
<1>6. ASSUME child \notin Malformed PROVE Walk(g, x, fin, scs, more)
  <2>1. e \in Frame /\ e.mod = child /\ e.todo = ToScan(child)
    BY <1>5, ModuleAssumption DEF Frame, ToScan
  <2> HIDE DEF e, n, cs
  <2>2. /\ more \in Seq(Frame) /\ more # <<>> /\ Len(more) = n + 1
        /\ \A i \in 1..n : more[i] = cs[i]
        /\ more[n + 1] = e
    BY <1>2, <2>1, AppendProperties
  <2>3. DOMAIN more = 1..(n + 1)
    BY <2>2, LenProperties
  <2> HIDE DEF more
  <2>4. \A i \in 1..(n + 1) : more[i].mod = IF i = n + 1 THEN child ELSE calls[i].mod
    <3>1. \A i \in 1..(n + 1) : i # n + 1 => i \in 1..n
      BY <1>1
    <3> QED
      BY <1>2, <2>1, <2>2, <3>1
  <2>5. scs = {more[i].mod : i \in 2..(n + 1)}
    <3>1. \A i \in 2..(n + 1) : i = n + 1 \/ i \in 2..n
      BY <1>1
    <3>2. \A i \in 2..n : i \in 2..(n + 1) /\ i \in 1..(n + 1) /\ i # n + 1
      BY <1>1
    <3>3. n + 1 \in 2..(n + 1) /\ n + 1 \in 1..(n + 1)
      BY <1>1
    <3> QED
      BY <1>3, <2>4, <3>1, <3>2, <3>3
  <2>6. \A i, j \in 2..(n + 1) : more[i].mod = more[j].mod => i = j
    <3>1. \A i \in 2..(n + 1) : i \in 1..(n + 1) /\ (i = n + 1 \/ i \in 2..n)
      BY <1>1
    <3>2. \A i \in 2..n : calls[i].mod \in sc
      BY <1>3
    <3>3. child \notin sc
      OBVIOUS
    <3> QED
      BY <1>3, <2>4, <3>1, <3>2, <3>3
  <2>7. ASSUME NEW i \in DOMAIN more
        PROVE  /\ more[i].todo \subseteq ToScan(more[i].mod)
               /\ ToScan(more[i].mod) \subseteq more[i].todo \union (g.scanned \union fin \union scs)
    <3>1. CASE i = n + 1
      BY <2>1, <2>2, <3>1
    <3>2. CASE i \in 1..n
      <4>1. more[i].mod = calls[i].mod
            /\ more[i].todo = IF i = n THEN calls[n].todo \ {child} ELSE calls[i].todo
        BY <1>2, <2>2, <3>2
      <4>2. /\ calls[i].todo \subseteq ToScan(calls[i].mod)
            /\ ToScan(calls[i].mod) \subseteq calls[i].todo \union (g.scanned \union fin \union sc)
        BY <1>3, <3>2
      <4> QED
        BY <4>1, <4>2
    <3> QED
      BY <1>1, <2>3, <3>1, <3>2
  <2>8. more[1].mod = x
    <3>1. 1 \in 1..(n + 1) /\ 1 # n + 1
      BY <1>1
    <3> QED
      BY <1>1, <2>4, <3>1
  <2>9. /\ fin \union scs \subseteq ScanSet(g, x) \ (g.scanned \union Malformed)
        /\ fin \intersect scs = {}
        /\ x \in fin \union scs => \E p \in ScanSet(g, x) : x \in ToScan(p)
        /\ \A m \in fin : ToScan(m) \subseteq g.scanned \union fin \union scs
    BY <1>3, <1>4, <1>5, <1>6
  <2>10. Len(more) = n + 1
    BY <2>2
  <2> QED
    BY <1>3, <2>2, <2>5, <2>6, <2>7, <2>8, <2>9, <2>10 DEF Walk
<1> QED
  BY <1>5, <1>6

\* A call returns to the one that made it.
LEMMA WalkReturns ==
    ASSUME NEW g \in Graph, NEW x \in Mod, NEW fin, NEW sc, NEW calls, NEW m,
           Walk(g, x, fin, sc, calls), Len(calls) # 1,
           calls[Len(calls)].todo = {}, m = calls[Len(calls)].mod
    PROVE  m \in sc /\ Walk(g, x, fin \union {m}, sc \ {m}, Front(calls))
<1> DEFINE n == Len(calls)
           k == n - 1
           cs == Front(calls)
           one == fin \union {m}
           less == sc \ {m}
<1>1. calls \in Seq(Frame) /\ calls # <<>> /\ calls[1].mod = x /\ n \in Nat \ {0}
      /\ DOMAIN calls = 1..n
  BY EmptySeq, LenProperties DEF Walk
<1>2. n \in 2..n /\ k \in Nat \ {0} /\ n = k + 1
  BY <1>1
<1>3. /\ fin \union sc \subseteq ScanSet(g, x) \ (g.scanned \union Malformed)
      /\ x \notin Malformed /\ fin \intersect sc = {}
      /\ sc = {calls[i].mod : i \in 2..n}
      /\ \A i, j \in 2..n : calls[i].mod = calls[j].mod => i = j
      /\ x \in fin \union sc => \E p \in ScanSet(g, x) : x \in ToScan(p)
      /\ \A p \in fin : ToScan(p) \subseteq g.scanned \union fin \union sc
      /\ \A i \in 1..n : /\ calls[i].todo \subseteq ToScan(calls[i].mod)
                         /\ ToScan(calls[i].mod) \subseteq calls[i].todo
                               \union (g.scanned \union fin \union sc)
  BY <1>1 DEF Walk
<1>4. m \in sc
  BY <1>2, <1>3
<1>5. cs = SubSeq(calls, 1, k)
  BY <1>1, <1>2 DEF Front
<1>6. /\ cs \in Seq(Frame) /\ Len(cs) = k /\ \A i \in 1..k : cs[i] = calls[i]
  <2>1. SubSeq(calls, 1, k) \in Seq(Frame) /\ Len(SubSeq(calls, 1, k)) = k
        /\ \A i \in 1..k : SubSeq(calls, 1, k)[i] = calls[i]
    BY <1>1, <1>2, SubSeqProperties
  <2> QED
    BY <1>5, <2>1
<1> HIDE DEF cs, n, k
<1>7. DOMAIN cs = 1..k /\ cs # <<>>
  BY <1>2, <1>6, EmptySeq, LenProperties
<1>8. \A i \in 1..k : i \in 1..n /\ i # n
  BY <1>2
<1>9. \A i \in 2..k : i \in 2..n /\ i # n /\ i \in 1..k
  BY <1>2
<1>10. \A i \in 2..n : i = n \/ i \in 2..k
  BY <1>2
<1>11. less = {cs[i].mod : i \in 2..k}
  <2>1. \A i \in 2..k : cs[i].mod \in sc /\ cs[i].mod # m
    BY <1>2, <1>3, <1>6, <1>9 DEF n
  <2>2. \A p \in sc : p # m => \E i \in 2..k : p = cs[i].mod
    BY <1>3, <1>6, <1>9, <1>10 DEF n
  <2> QED
    BY <2>1, <2>2
<1>12. \A i, j \in 2..k : cs[i].mod = cs[j].mod => i = j
  BY <1>3, <1>6, <1>9
<1>13. g.scanned \union one \union less = g.scanned \union fin \union sc
  BY <1>4
<1>14. ASSUME NEW i \in 1..k
       PROVE  /\ cs[i].todo \subseteq ToScan(cs[i].mod)
              /\ ToScan(cs[i].mod) \subseteq cs[i].todo \union (g.scanned \union one \union less)
  BY <1>3, <1>6, <1>8, <1>13
<1>15. cs[1].mod = x
  BY <1>1, <1>2, <1>6
<1>16. /\ one \union less \subseteq ScanSet(g, x) \ (g.scanned \union Malformed)
       /\ one \intersect less = {}
       /\ x \in one \union less => \E p \in ScanSet(g, x) : x \in ToScan(p)
  BY <1>3, <1>4
<1>17. \A p \in one : ToScan(p) \subseteq g.scanned \union one \union less
  <2>1. ToScan(m) \subseteq g.scanned \union fin \union sc
    BY <1>2, <1>3 DEF n
  <2> QED
    BY <1>3, <1>13, <2>1
<1>18. Walk(g, x, one, less, cs)
  BY <1>3, <1>6, <1>7, <1>11, <1>12, <1>14, <1>15, <1>16, <1>17 DEF Walk
<1> QED
  BY <1>4, <1>18 DEF cs

\* The first call begins the scan, or throws.
LEMMA ScanningBegins ==
    ASSUME NEW g \in Graph, NEW x \in Mod, NEW s,
           s = At("running", <<g, x>>, g, {}, <<>>)
    PROVE  Scanning(Called(s, x), g, x)
<1>1. x \in ScanSet(g, x)
  BY VisitsAre
<1>2. CASE x \in Malformed
  <2>1. PICK of, q, nil : of = <<g, x>> /\ q = {} /\ nil = <<>>
    OBVIOUS
  <2>3. Called(s, x) = At("thrown", of, g, q, nil)
    BY <1>2, <2>1, CalledThrows
  <2>2. Called(s, x).phase = "thrown" /\ Called(s, x).of = <<g, x>>
    BY <2>1, <2>3, AtHas
  <2> QED
    BY <1>1, <1>2, <2>2 DEF Scanning
<1>3. CASE x \notin Malformed
  <2>1. PICK e : e = [mod |-> x, todo |-> ToScan(x)]
    OBVIOUS
  <2>2. e \in Frame /\ e.mod = x /\ e.todo = ToScan(x)
    BY <2>1, ModuleAssumption DEF Frame, ToScan
  <2>3. PICK cs : cs = <<e>>
    OBVIOUS
  <2>4. cs \in Seq(Frame) /\ cs # <<>> /\ Len(cs) = 1 /\ cs[1] = e /\ DOMAIN cs = {1}
        /\ cs = Append(<<>>, e)
    BY <2>2, <2>3
  <2>5. 2..Len(cs) = {} /\ {cs[i].mod : i \in 2..Len(cs)} = {}
    BY <2>4
  <2>6. Walk(g, x, {}, {}, cs)
    BY <1>3, <2>2, <2>4, <2>5 DEF Walk
  <2>7. Called(s, x) = At("running", <<g, x>>, Entered(g, x), {},
                          Append(<<>>, [mod |-> x, todo |-> ToScan(x)]))
    <3>1. PICK of, q, nil : of = <<g, x>> /\ q = {} /\ nil = <<>>
      OBVIOUS
    <3>2. s = At("running", of, g, q, nil)
      BY <3>1
    <3>3. Called(s, x) = At("running", of, Entered(g, x), q,
                            Append(nil, [mod |-> x, todo |-> ToScan(x)]))
      BY <1>3, <3>2, CalledIs
    <3> QED
      BY <3>1, <3>3
  <2>8. Called(s, x) = Walking(g, x, {}, {}, cs)
    <3>1. Partly(g, {}, {} \union {} \union {x}) = Partly(g, {}, {x})
      OBVIOUS
    <3> QED
      BY <2>1, <2>4, <2>7, <3>1, PartlyStarts DEF Walking
  <2> QED
    BY <2>4, <2>6, <2>8 DEF Scanning
<1> QED
  BY <1>2, <1>3

\* One turn of the loop goes on, or throws.
LEMMA ScanningVisits ==
    ASSUME NEW g \in Graph, NEW x \in Mod, NEW fin \in SUBSET Mod, NEW sc \in SUBSET Mod,
           NEW calls \in Seq(Frame), NEW s, Walk(g, x, fin, sc, calls),
           s = Walking(g, x, fin, sc, calls), NEW child \in Last(s.calls).todo
    PROVE  Scanning(IF IsVisited(s, child) THEN Taken(s, child)
                    ELSE Called(BeginScanning(Taken(s, child), child), child), g, x)
<1>1. PICK h : h = Partly(g, fin, fin \union sc \union {x})
  OBVIOUS
<1>2. s = At("running", <<g, x>>, h, sc, calls) /\ h.scanned = g.scanned \union fin
  BY <1>1 DEF Walking, Partly
<1>3. IsVisited(s, child) <=> child \in g.scanned \union fin \union sc
  BY <1>2 DEF IsVisited, At
<1>4. calls # <<>> /\ child \in calls[Len(calls)].todo
  BY <1>2 DEF Walk, Last, At
<1>5. PICK cs : cs = Turned(calls, child)
  OBVIOUS
<1>6. cs \in Seq(Frame)
  BY <1>4, <1>5, TurnedIs
<1>7. Taken(s, child) = At("running", <<g, x>>, h, sc, cs)
  BY <1>2, <1>5, TakenIs
<1>8. CASE IsVisited(s, child)
  <2>1. Walk(g, x, fin, sc, cs)
    BY <1>3, <1>5, <1>8, WalkSkips
  <2>2. Taken(s, child) = Walking(g, x, fin, sc, cs)
    BY <1>1, <1>7 DEF Walking
  <2> QED
    BY <1>6, <1>8, <2>1, <2>2 DEF Scanning
<1>9. CASE ~IsVisited(s, child)
  <2>1. PICK t, scs : /\ t = BeginScanning(Taken(s, child), child)
                      /\ scs = sc \union {child}
    OBVIOUS
  <2>2. t = At("running", <<g, x>>, h, scs, cs)
    BY <1>7, <2>1, BeginScanningIs
  <2>3. /\ child \in ScanSet(g, x)
        /\ child \notin Malformed =>
              Walk(g, x, fin, scs, Append(cs, [mod |-> child, todo |-> ToScan(child)]))
    BY <1>3, <1>4, <1>5, <1>9, <2>1, WalkEnters
  <2>4. child \in Mod /\ scs \in SUBSET Mod
    BY <2>1, <2>3, VisitsAre
  <2>5. CASE child \in Malformed
    <3>1. Called(t, child) = At("thrown", <<g, x>>, h, scs, cs)
      BY <2>2, <2>5, CalledThrows
    <3>2. Called(t, child).phase = "thrown" /\ Called(t, child).of = <<g, x>>
      BY <3>1 DEF At
    <3> QED
      BY <1>9, <2>1, <2>3, <2>5, <3>2 DEF Scanning
  <2>6. CASE child \notin Malformed
    <3>1. PICK more : more = Append(cs, [mod |-> child, todo |-> ToScan(child)])
      OBVIOUS
    <3>2. Called(t, child) = At("running", <<g, x>>, Entered(h, child), scs, more)
      BY <2>2, <2>6, <3>1, CalledIs
    <3>3. Entered(h, child) = Partly(g, fin, fin \union scs \union {x})
      <4>1. PICK met : met = fin \union sc \union {x}
        OBVIOUS
      <4>2. Entered(Partly(g, fin, met), child)
              = Partly(g, fin, met \union {child})
        BY <2>4, PartlyEnters
      <4>3. met \union {child} = fin \union scs \union {x}
        BY <2>1, <4>1
      <4> QED
        BY <1>1, <4>1, <4>2, <4>3
    <3>4. Called(t, child) = Walking(g, x, fin, scs, more)
      BY <3>2, <3>3 DEF Walking
    <3>5. Walk(g, x, fin, scs, more)
      BY <2>3, <2>6, <3>1
    <3>6. more \in Seq(Frame)
      BY <3>5 DEF Walk
    <3> QED
      BY <1>9, <2>1, <2>4, <3>4, <3>5, <3>6 DEF Scanning
  <2> QED
    BY <2>5, <2>6
<1> QED
  BY <1>8, <1>9

\* What a call stores, and where the calls are then.
LEMMA StoredIs ==
    ASSUME NEW p, NEW of, NEW h, NEW q, NEW cs, NEW m
    PROVE  Stored(At(p, of, h, q, cs), m) = At(p, of, SetMeta(h, m), q, Front(cs))
<1>1. PICK k, few : k = SetMeta(h, m) /\ few = Front(cs)
  OBVIOUS
<1>2. PICK s : s = [phase |-> p, of |-> of, graph |-> h, scanning |-> q, calls |-> cs]
  OBVIOUS
<1>3. s.graph = h
  BY <1>2
<1>4. PICK s1 : s1 = [phase |-> p, of |-> of, graph |-> k, scanning |-> q, calls |-> cs]
  OBVIOUS
<1>5. s1 = [s EXCEPT !.graph = k] /\ s1.calls = cs
  BY <1>2, <1>4
<1>6. [s1 EXCEPT !.calls = few]
        = [phase |-> p, of |-> of, graph |-> k, scanning |-> q, calls |-> few]
  BY <1>4
<1>7. [s EXCEPT !.graph = SetMeta(@, m), !.calls = Front(@)] = [s1 EXCEPT !.calls = few]
  BY <1>1, <1>3, <1>5
<1> QED
  BY <1>1, <1>2, <1>6, <1>7 DEF At, Stored

\* A call that has been made by another one returns to it.
LEMMA ScanningFinishes ==
    ASSUME NEW g \in Graph, NEW x \in Mod, NEW fin \in SUBSET Mod, NEW sc \in SUBSET Mod,
           NEW calls \in Seq(Frame), NEW s, Walk(g, x, fin, sc, calls),
           s = Walking(g, x, fin, sc, calls), NEW m, m = calls[Len(calls)].mod,
           calls[Len(calls)].todo = {}, Len(calls) # 1
    PROVE  Scanning(FinishScanning(Stored(s, m), m), g, x)
<1>1. PICK one, less, few, met, h : /\ one = fin \union {m} /\ less = sc \ {m} /\ few = Front(calls)
                                    /\ met = fin \union sc \union {x} /\ h = Partly(g, fin, met)
  OBVIOUS
<1>2. m \in sc /\ Walk(g, x, one, less, few)
  BY <1>1, WalkReturns
<1>3. fin \intersect sc = {}
  BY DEF Walk
<1>4. m \in Mod \ fin /\ one \in SUBSET Mod /\ less \in SUBSET Mod /\ met = one \union less \union {x}
  BY <1>1, <1>2, <1>3
<1>5. s = At("running", <<g, x>>, h, sc, calls)
  BY <1>1 DEF Walking
<1>6. Stored(s, m) = At("running", <<g, x>>, SetMeta(h, m), sc, few)
  BY <1>1, <1>5, StoredIs
<1>7. SetMeta(h, m) = Kept(g, fin, one, met)
  BY <1>1, <1>4, PartlyStores
<1>8. PICK a, b, c, d, e, f : /\ a = g.metas \union one
                              /\ b = Partly(g, one, met).imports
                              /\ c = h.children
                              /\ d = g.scanned \union fin
                              /\ e = g.ids \union (one \intersect WithId)
                              /\ f = Partly(g, one, met).app
  OBVIOUS
<1>9. PICK of, k : of = <<g, x>> /\ k = SetMeta(h, m)
  OBVIOUS
<1>10. k = GraphOf(a, b, c, d, e, f)
  BY <1>1, <1>7, <1>8, <1>9 DEF Kept
<1>11. FinishScanning(At("running", of, k, sc, few), m)
         = At("running", of, GraphOf(a, b, c, d \union {m}, e, f), sc \ {m}, few)
  BY <1>10, FinishIs
<1>12. Partly(g, one, met) = GraphOf(a, b, c, d \union {m}, e, f)
  BY <1>1, <1>8 DEF Partly, GraphOf
<1>13. FinishScanning(At("running", of, k, sc, few), m) = Walking(g, x, one, less, few)
  BY <1>1, <1>4, <1>9, <1>11, <1>12 DEF Walking
<1>14. few \in Seq(Frame)
  BY <1>2 DEF Walk
<1>15. FinishScanning(Stored(s, m), m) = Walking(g, x, one, less, few)
  BY <1>6, <1>9, <1>13
<1> QED
  BY <1>2, <1>4, <1>14, <1>15 DEF Scanning

\* When the first call returns, it has visited what a scan visits, and it has
\* been made twice if the walk has come to x again.
LEMMA WalkEnds ==
    ASSUME NEW g \in Graph, NEW x \in Mod, NEW fin \in SUBSET Mod, NEW sc \in SUBSET Mod,
           NEW calls \in Seq(Frame), Walk(g, x, fin, sc, calls), Len(calls) = 1,
           calls[1].todo = {}
    PROVE  /\ sc = {} /\ ScanSet(g, x) = fin \union {x}
           /\ ScanSet(g, x) \intersect Malformed = {}
           /\ ScannedAgain(g, x) <=> x \in fin
           /\ x \in fin => x \notin g.scanned
<1>1. sc = {} /\ DOMAIN calls = 1..1
  BY LenProperties DEF Walk
<1>2. /\ fin \subseteq ScanSet(g, x) \ (g.scanned \union Malformed) /\ x \notin Malformed
      /\ x \in fin => \E p \in ScanSet(g, x) : x \in ToScan(p)
      /\ \A m \in fin : ToScan(m) \subseteq g.scanned \union fin
      /\ ToScan(x) \subseteq g.scanned \union fin
  BY <1>1 DEF Walk
<1>3. fin \union {x} \in SUBSET Mod
      /\ \A m \in fin \union {x} : ToScan(m) \ g.scanned \subseteq fin \union {x}
  BY <1>2
<1>4. ScanSet(g, x) = fin \union {x}
  <2>1. ScanSet(g, x) \subseteq fin \union {x}
    BY <1>3, VisitsAre
  <2> QED
    BY <1>2, <2>1, VisitsAre
<1>5. ScannedAgain(g, x) <=> x \in fin
  BY <1>2, <1>4 DEF ScannedAgain
<1> QED
  BY <1>1, <1>2, <1>4, <1>5

\* What the first call stores is then what the scan is to make of the graph.
LEMMA StoredIsScanned ==
    ASSUME NEW g \in Graph, NEW x \in Mod, NEW fin \in SUBSET Mod,
           ScanSet(g, x) = fin \union {x}, ScannedAgain(g, x) <=> x \in fin,
           x \in fin => x \notin g.scanned
    PROVE  SetMeta(Partly(g, fin, fin \union {x}), x) = ScanModule(g, x)
<1> DEFINE one == fin \union {x}
           times(m) == IF m \notin (one \intersect PerApp) \ {Root} THEN 0
                       ELSE IF m = x /\ x \in fin THEN 2 ELSE 1
           b == [m \in Mod |-> IF m \in one THEN Imports[m] ELSE g.imports[m]]
           c == [m \in Mod |-> IF m \in one THEN ToScan(m) ELSE g.children[m]]
           f == [m \in Mod |-> SaturatingAdd(g.app[m], times(m))]
<1>1. ScanModule(g, x) = GraphOf(g.metas \union one, b, c, g.scanned \union fin,
                                  g.ids \union (one \intersect WithId), f)
  <2>1. g.scanned \union (one \ {x}) \union (IF x \in fin THEN {x} ELSE {}) = g.scanned \union fin
    OBVIOUS
  <2>2. PICK v, again : v = ScanSet(g, x) /\ again = ScannedAgain(g, x)
    OBVIOUS
  <2>3. v = one /\ (again <=> x \in fin)
    BY <2>2
  <2> HIDE DEF one
  <2>4. ScanModule(g, x) =
          [metas    |-> g.metas \union v,
           imports  |-> [m \in Mod |-> IF m \in v THEN Imports[m] ELSE g.imports[m]],
           children |-> [m \in Mod |-> IF m \in v THEN ToScan(m) ELSE g.children[m]],
           scanned  |-> g.scanned \union (v \ {x}) \union (IF ScannedAgain(g, x) THEN {x} ELSE {}),
           ids      |-> g.ids \union (v \intersect WithId),
           app      |-> [m \in Mod |-> SaturatingAdd(g.app[m],
                            IF m \notin (v \intersect PerApp) \ {Root} THEN 0
                            ELSE IF m = x /\ ScannedAgain(g, x) THEN 2 ELSE 1)]]
    BY <2>2 DEF ScanModule
  <2>5. (IF ScannedAgain(g, x) THEN {x} ELSE {}) = IF x \in fin THEN {x} ELSE {}
    OBVIOUS
  <2>6. [m \in Mod |-> SaturatingAdd(g.app[m],
                            IF m \notin (v \intersect PerApp) \ {Root} THEN 0
                            ELSE IF m = x /\ ScannedAgain(g, x) THEN 2 ELSE 1)] = f
    BY <2>3
  <2> QED
    BY <2>1, <2>3, <2>4, <2>5, <2>6 DEF GraphOf
<1>2. PICK h : h = SetMeta(Partly(g, fin, one), x)
  OBVIOUS
<1>3. Partly(g, one, one).imports = b /\ Partly(g, fin, one).children = c
  BY DEF Partly
<1>4. CASE x \notin fin
  <2>1. h = Kept(g, fin, one, one)
    BY <1>2, <1>4, PartlyStores
  <2>2. Partly(g, one, one).app = f
    BY <1>4 DEF Partly
  <2> QED
    BY <1>1, <1>2, <1>3, <2>1, <2>2 DEF Kept
<1>5. CASE x \in fin
  <2>1. one = fin
    BY <1>5
  <2>2. PICK a, d, e, f1 : /\ a = g.metas \union fin /\ d = g.scanned \union fin
                           /\ e = g.ids \union (fin \intersect WithId)
                           /\ f1 = Partly(g, fin, fin).app
    OBVIOUS
  <2>3. Partly(g, fin, fin).imports = b /\ Partly(g, fin, fin).children = c
    BY <1>3, <2>1
  <2> HIDE DEF one, b, c, f
  <2>4. Partly(g, fin, fin) = GraphOf(a, b, c, d, e, f1)
    BY <2>2, <2>3 DEF Partly, GraphOf
  <2>5. PICK w : w = IF x \in PerApp \ {Root} THEN SaturatingAdd(f1[x], 1) ELSE f1[x]
    OBVIOUS
  <2>6. Additional(a, e, f1, x, a, e, Imports[x], w)
    BY <1>5, <2>2, <2>5 DEF Additional, one
  <2>7. SetMeta(GraphOf(a, b, c, d, e, f1), x)
          = GraphOf(a, [b EXCEPT ![x] = Imports[x]], c, d, e, [f1 EXCEPT ![x] = w])
    BY <2>6, SetMetaIs DEF GraphOf
  <2>8. [b EXCEPT ![x] = Imports[x]] = b
    BY <1>5, <2>1 DEF b
  <2>9. [f1 EXCEPT ![x] = w] = f
    <3>1. g.app \in [Mod -> 0..2] /\ \A m \in Mod : g.app[m] \in 0..2
      BY DEF Graph
    <3>2. f1 = [m \in Mod |-> SaturatingAdd(g.app[m], IF m \in (fin \intersect PerApp) \ {Root}
                                                       THEN 1 ELSE 0)]
      BY <2>2 DEF Partly
    <3>3. \A m \in Mod : m # x => f1[m] = f[m]
      BY <1>5, <2>1, <3>2 DEF f
    <3>4. f[x] = w
      <4>1. g.app[x] \in 0..2
        BY <3>1
      <4>2. CASE x \in PerApp \ {Root}
        BY <1>5, <2>1, <2>5, <3>2, <4>1, <4>2 DEF f, SaturatingAdd
      <4>3. CASE x \notin PerApp \ {Root}
        BY <1>5, <2>1, <2>5, <3>2, <4>1, <4>3 DEF f, SaturatingAdd
      <4> QED
        BY <4>2, <4>3
    <3>5. f = [m \in Mod |-> f[m]] /\ f1 = [m \in Mod |-> f1[m]]
      BY <3>2 DEF f
    <3> QED
      BY <3>3, <3>4, <3>5
  <2>10. h = GraphOf(a, b, c, d, e, f)
    BY <1>2, <2>1, <2>4, <2>7, <2>8, <2>9
  <2>11. ScanModule(g, x) = GraphOf(a, b, c, d, e, f)
    BY <1>1, <2>1, <2>2
  <2> QED
    BY <1>2, <2>10, <2>11 DEF one
<1> QED
  BY <1>1, <1>2, <1>3, <1>4, <1>5

\* The first call returns from the scan, with the graph that it is to make.
LEMMA ScanningReturns ==
    ASSUME NEW g \in Graph, NEW x \in Mod, NEW fin \in SUBSET Mod, NEW sc \in SUBSET Mod,
           NEW calls \in Seq(Frame), NEW s, Walk(g, x, fin, sc, calls),
           s = Walking(g, x, fin, sc, calls), NEW m, m = calls[Len(calls)].mod,
           calls[Len(calls)].todo = {}, Len(calls) = 1
    PROVE  Scanning([Stored(s, m) EXCEPT !.phase = "returned"], g, x)
<1>1. m = x /\ calls[1].todo = {}
  BY DEF Walk
<1>2. /\ sc = {} /\ ScanSet(g, x) = fin \union {x}
      /\ ScanSet(g, x) \intersect Malformed = {}
      /\ ScannedAgain(g, x) <=> x \in fin
      /\ x \in fin => x \notin g.scanned
  BY <1>1, WalkEnds
<1>3. SetMeta(Partly(g, fin, fin \union {x}), x) = ScanModule(g, x)
  BY <1>2, StoredIsScanned
<1>4. PICK h, of, few : h = Partly(g, fin, fin \union {x}) /\ of = <<g, x>> /\ few = Front(calls)
  OBVIOUS
<1>5. s = At("running", of, h, sc, calls)
  <2>1. fin \union sc \union {x} = fin \union {x}
    BY <1>2
  <2> QED
    BY <1>4, <2>1 DEF Walking
<1>6. Stored(s, m) = At("running", of, ScanModule(g, x), sc, few)
  BY <1>1, <1>3, <1>4, <1>5, StoredIs
<1>7. PICK k : k = ScanModule(g, x)
  OBVIOUS
<1>8. PICK t : t = [At("running", of, k, sc, few) EXCEPT !.phase = "returned"]
  OBVIOUS
<1>9. t.phase = "returned" /\ t.of = of /\ t.graph = k
  BY <1>8 DEF At
<1>10. Scanning(t, g, x)
  BY <1>2, <1>4, <1>7, <1>9 DEF Scanning
<1> QED
  BY <1>6, <1>7, <1>8, <1>10

-----------------------------------------------------------------------------
(* Beside the registry.                                                     *)

\* The graph of each scan that can begin is one.
LEMMA ScansAre == ASSUME IInv PROVE \A of \in Scans : \E g \in Graph, x \in Mod : of = <<g, x>>
<1>1. CASE graph.metas = {}
  <2>1. EmptyGraph \in Graph /\ Root \in Mod
    BY EmptyGood, ModuleAssumption DEF Good, Sound
  <2> QED
    BY <1>1, <2>1 DEF Scans
<1>2. CASE graph.metas # {}
  <2>1. ASSUME NEW r \in Requests
        PROVE  /\ AddChild([graph EXCEPT !.imports[r[2]] = @ \union {r[1]}], r[2], r[1]) \in Graph
               /\ r[1] \in Mod
    <3>1. PICK x \in Mod, t \in Mod : r = <<x, t>>
      BY RequestsAssumption
    <3>2. Sound(AddChild([graph EXCEPT !.imports[t] = @ \union {x}], t, x))
      BY AddLinkSound DEF IInv, Good
    <3> QED
      BY <3>1, <3>2 DEF Sound
  <2> QED
    BY <1>2, <2>1 DEF Scans
<1> QED
  BY <1>1, <1>2

\* The scan keeps to what is known of it.
LEMMA ScanKeeps == ASSUME IInv, ScanInv, ScanNext PROVE ScanInv'
<1>1. CASE BeginScan
  <2>1. PICK of \in Scans :
           scan' = Called([phase |-> "running", of |-> of, graph |-> of[1], scanning |-> {},
                           calls |-> <<>>], of[2])
    BY <1>1 DEF BeginScan
  <2>2. PICK g \in Graph, x \in Mod : of = <<g, x>>
    BY ScansAre
  <2>3. scan' = Called(At("running", <<g, x>>, g, {}, <<>>), x)
    BY <2>1, <2>2 DEF At
  <2>4. Scanning(scan', g, x)
    BY <2>3, ScanningBegins
  <2> QED
    BY <2>4 DEF ScanInv
<1>2. ASSUME scan.phase = "running"
      PROVE  \E g \in Graph, x \in Mod : \E fin, sc \in SUBSET Mod : \E calls \in Seq(Frame) :
                Walk(g, x, fin, sc, calls) /\ scan = Walking(g, x, fin, sc, calls)
  <2>1. scan # Idle
    BY <1>2 DEF Idle
  <2>2. PICK g \in Graph, x \in Mod : Scanning(scan, g, x)
    BY <2>1 DEF ScanInv
  <2>3. \E fin, sc \in SUBSET Mod : \E calls \in Seq(Frame) :
           Walk(g, x, fin, sc, calls) /\ scan = Walking(g, x, fin, sc, calls)
    BY <1>2, <2>2 DEF Scanning
  <2> QED
    BY <2>3
<1>3. CASE VisitChild
  <2>1. PICK g \in Graph, x \in Mod : \E fin, sc \in SUBSET Mod : \E calls \in Seq(Frame) :
           Walk(g, x, fin, sc, calls) /\ scan = Walking(g, x, fin, sc, calls)
    BY <1>2, <1>3 DEF VisitChild
  <2>2. PICK fin \in SUBSET Mod, sc \in SUBSET Mod, calls \in Seq(Frame) :
           Walk(g, x, fin, sc, calls) /\ scan = Walking(g, x, fin, sc, calls)
    BY <2>1
  <2>3. PICK child \in Last(scan.calls).todo :
           scan' = IF IsVisited(scan, child) THEN Taken(scan, child)
                   ELSE Called(BeginScanning(Taken(scan, child), child), child)
    BY <1>3 DEF VisitChild
  <2>4. Scanning(scan', g, x)
    BY <2>2, <2>3, ScanningVisits
  <2> QED
    BY <2>4 DEF ScanInv
<1>4. CASE ReturnScan
  <2>1. PICK g \in Graph, x \in Mod : \E fin, sc \in SUBSET Mod : \E calls \in Seq(Frame) :
           Walk(g, x, fin, sc, calls) /\ scan = Walking(g, x, fin, sc, calls)
    BY <1>2, <1>4 DEF ReturnScan
  <2>2. PICK fin \in SUBSET Mod, sc \in SUBSET Mod, calls \in Seq(Frame) :
           Walk(g, x, fin, sc, calls) /\ scan = Walking(g, x, fin, sc, calls)
    BY <2>1
  <2>3. scan.calls = calls
    BY <2>2 DEF Walking, At
  <2>4. PICK m : m = calls[Len(calls)].mod
    OBVIOUS
  <2>5. /\ calls[Len(calls)].todo = {}
        /\ scan' = IF Len(calls) = 1 THEN [Stored(scan, m) EXCEPT !.phase = "returned"]
                   ELSE FinishScanning(Stored(scan, m), m)
    BY <1>4, <2>3, <2>4 DEF ReturnScan, Stored, Last
  <2>6. CASE Len(calls) = 1
    <3>1. Scanning([Stored(scan, m) EXCEPT !.phase = "returned"], g, x)
      BY <2>2, <2>4, <2>5, <2>6, ScanningReturns
    <3> QED
      BY <2>5, <2>6, <3>1 DEF ScanInv
  <2>7. CASE Len(calls) # 1
    <3>1. Scanning(FinishScanning(Stored(scan, m), m), g, x)
      BY <2>2, <2>4, <2>5, <2>7, ScanningFinishes
    <3> QED
      BY <2>5, <2>7, <3>1 DEF ScanInv
  <2> QED
    BY <2>6, <2>7
<1>5. CASE EndScan
  BY <1>5 DEF EndScan, ScanInv
<1> QED
  BY <1>1, <1>3, <1>4, <1>5 DEF ScanNext

\* The registry beside which scans are walked is the one of the application.
LEMMA RegistryIsProviders == RegistrySpec => ProvidersSpec
<1>1. [RegistryNext]_allVars => [ProvidersNext]_<<vars, providersVars>>
  BY DEF RegistryNext, allVars
<1>2. RegistryInit => ProvidersInit
  BY DEF RegistryInit
<1> QED
  BY <1>1, <1>2, PTL DEF RegistrySpec, ProvidersSpec

\* In whatever order the children of the modules are walked, every scan of an
\* application ends with the graph that ScanModule gives, or throws at a module
\* that is malformed: what is proved of the registry holds of the recursion.
THEOREM ScanAlwaysComputes == RegistrySpec => []ScanComputes
<1>1. RegistryInit => ScanInv
  BY DEF RegistryInit, ScanInv
<1>2. IInv /\ ScanInv /\ [RegistryNext]_allVars => ScanInv'
  <2> SUFFICES ASSUME IInv, ScanInv, [RegistryNext]_allVars PROVE ScanInv'
    OBVIOUS
  <2>1. CASE UNCHANGED scan
    BY <2>1 DEF ScanInv
  <2>2. CASE ScanNext
    BY <2>2, ScanKeeps
  <2> QED
    BY <2>1, <2>2 DEF RegistryNext, allVars
<1>3. ScanInv => ScanComputes
  <2> SUFFICES ASSUME ScanInv, scan.phase \in {"returned", "thrown"} PROVE ScanComputes
    BY DEF ScanComputes
  <2>1. scan # Idle
    BY DEF Idle
  <2>2. PICK g \in Graph, x \in Mod : Scanning(scan, g, x)
    BY <2>1 DEF ScanInv
  <2>3. scan.phase # "running"
    OBVIOUS
  <2>4. ~ \E fin, sc \in SUBSET Mod : \E calls \in Seq(Frame) :
            Walk(g, x, fin, sc, calls) /\ scan = Walking(g, x, fin, sc, calls)
    <3>1. \A fin, sc \in SUBSET Mod : \A calls \in Seq(Frame) :
             Walking(g, x, fin, sc, calls).phase = "running"
      BY DEF Walking, At
    <3> QED
      BY <2>3, <3>1
  <2>5. scan.of = <<g, x>> => scan.of[1] = g /\ scan.of[2] = x
    OBVIOUS
  <2>6. CASE /\ scan.phase = "returned" /\ scan.of = <<g, x>>
             /\ ScanSet(g, x) \intersect Malformed = {} /\ scan.graph = ScanModule(g, x)
    BY <2>5, <2>6 DEF ScanComputes
  <2>7. CASE /\ scan.phase = "thrown" /\ scan.of = <<g, x>>
             /\ ScanSet(g, x) \intersect Malformed # {}
    BY <2>5, <2>7 DEF ScanComputes
  <2> QED
    BY <2>2, <2>4, <2>6, <2>7 DEF Scanning
<1>4. RegistrySpec => []IInv
  BY RegistryIsProviders, ProvidersIInv
<1> QED
  BY <1>1, <1>2, <1>3, <1>4, PTL DEF RegistrySpec
=============================================================================
