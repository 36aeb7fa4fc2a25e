------------------------ MODULE MutableModuleRegistry ------------------------
(***************************************************************************)
(* packages/core/src/init/mutable-module-registry.ts: the registry whose   *)
(* graph of modules is changed at run time by addImport and removeImport,  *)
(* inside a transaction that is kept as a copy of the graph (oldGraph) and *)
(* ended by commit or rollback.  Every operation runs to its end on the    *)
(* JavaScript thread: one operation is one step.                           *)
(***************************************************************************)
EXTENDS ModuleGraph

CONSTANTS
    Requests,   \* the <<input, target>> pairs that callers use
    NoGraph     \* oldGraph when no transaction is open

ASSUME RequestsAssumption == Requests \subseteq Mod \X Mod
ASSUME NoGraphAssumption == NoGraph \notin Graph

VARIABLES
    graph,      \* moduleGraph
    oldGraph,   \* oldGraph: the graph when the transaction was opened
    outcome,    \* how the last operation ended
    baseline    \* history: the graph when last no transaction was open

vars == <<graph, oldGraph, outcome, baseline>>

Outcomes == {"none", "true", "false", "thrown"}

TypeOK ==
    /\ graph \in Graph
    /\ oldGraph \in Graph \union {NoGraph}
    /\ outcome \in Outcomes
    /\ baseline \in Graph

Init ==
    /\ graph = EmptyGraph
    /\ oldGraph = NoGraph
    /\ outcome = "none"
    /\ baseline = EmptyGraph

-----------------------------------------------------------------------------
(* getNormalizedModuleMeta(moduleId) by reference or by string id.          *)
Registered(g, m, byId) == m \in g.metas /\ (byId => m \in g.ids)

(* startTransaction: a second one keeps the first backup.                   *)
Backup == IF oldGraph = NoGraph THEN graph ELSE oldGraph

Finish(g, old, result) ==
    /\ graph' = g
    /\ oldGraph' = old
    /\ outcome' = result
    /\ baseline' = IF old = NoGraph THEN g ELSE baseline

Return(result) == Finish(graph, oldGraph, result)

-----------------------------------------------------------------------------
(* scanRootModule, as far as the application gets past it: when it throws,  *)
(* the application is never created and nobody can use the registry.        *)
ScanRootModule ==
    \/ /\ graph.metas = {}
       /\ Valid(ScanModule(EmptyGraph, Root))
       /\ Finish(ScanModule(EmptyGraph, Root), oldGraph, "true")
    \/ /\ graph.metas # {}          \* forbiddenRescanRootModule
       /\ Return("true")

\* A mistake: the new import is not scanned.
AddedUnscanned(x, t) ==
    AddChild([graph EXCEPT !.imports[t] = @ \union {x}], t, x)

(* The graph that addImport has made when its try block ends.               *)
Added(x, t) ==
    ScanModule(AddChild([graph EXCEPT !.imports[t] = @ \union {x}], t, x), x)

AddImport(x, t, byId) ==
    \/ /\ ~Registered(graph, t, byId)      \* ImportAdditionFailure
       /\ Return("thrown")
    \/ /\ Registered(graph, t, byId)
       /\ x \in graph.imports[t]           \* moduleAlreadyImported
       /\ Return("false")
    \/ /\ Registered(graph, t, byId)
       /\ x \notin graph.imports[t]
       /\ LET added == Added(x, t)
          IN  IF Valid(added) THEN Finish(added, Backup, "true")
                              ELSE Finish(Backup, NoGraph, "thrown")

Removed(x, t) ==
    PruneUnreachableModules(
        RemoveChild([graph EXCEPT !.imports[t] = @ \ {x}], t, x))

RemoveImport(x, t, byId) ==
    \/ /\ ~Registered(graph, x, byId)      \* moduleNotFound
       /\ Return("false")
    \/ /\ Registered(graph, x, byId)
       /\ ~Registered(graph, t, byId)      \* ImportRemovalFailure
       /\ Return("thrown")
    \/ /\ Registered(graph, x, byId)
       /\ Registered(graph, t, byId)
       /\ x \notin graph.imports[t]        \* moduleNotFound
       /\ Return("false")
    \/ /\ Registered(graph, x, byId)
       /\ Registered(graph, t, byId)
       /\ x \in graph.imports[t]
       /\ Finish(Removed(x, t), Backup, "true")

\* A mistake: an explicit start takes a new backup.
StartTransactionAnew == Finish(graph, graph, "true")

StartTransaction ==
    Finish(graph, Backup, IF oldGraph = NoGraph THEN "true" ELSE "false")

Rollback ==
    \/ /\ oldGraph = NoGraph               \* ForbiddenRollback
       /\ Return("thrown")
    \/ /\ oldGraph # NoGraph
       /\ Finish(oldGraph, NoGraph, "true")

Commit == Finish(graph, NoGraph, "true")

Next ==
    \/ ScanRootModule
    \/ \E r \in Requests, byId \in BOOLEAN :
          \/ AddImport(r[1], r[2], byId)
          \/ RemoveImport(r[1], r[2], byId)
    \/ StartTransaction
    \/ Rollback
    \/ Commit

Spec == Init /\ [][Next]_vars

-----------------------------------------------------------------------------
(* Safety.                                                                  *)

\* Once the root is scanned, every module that can be reached from it over
\* childrenMap has metadata: the importers and the aspect propagator, which
\* walk childrenMap and throw on a missing meta, find every module they meet.
ReachableRegistered ==
    graph.metas # {} => Reachable(graph) \subseteq graph.metas

\* providersPerApp holds the providers of exactly the registered modules
\* other than the root: none is lost by a rebuild or a rollback and none
\* outlives the module that declared it.
PerAppOfRegistered ==
    \A m \in Mod : graph.app[m] > 0 <=> m \in (graph.metas \intersect PerApp) \ {Root}

\* A module is found by its string id exactly while it is registered.
IdsOfRegistered == graph.ids = graph.metas \intersect WithId

\* An import list and childrenMap agree: whatever a registered module imports
\* is one of its children, so that pruning never drops an imported module.
ImportsAreChildren ==
    \A m \in graph.metas : graph.imports[m] \subseteq graph.children[m]

\* Rebuilt, restored or changed, everything derived from the set of registered
\* modules agrees with it: providers, ids and child lists.
DerivedInStep == PerAppOfRegistered /\ IdsOfRegistered /\ ImportsAreChildren

\* However many operations a transaction has made, undoing it (an explicit
\* rollback, or an addImport that fails) gives back the graph of the last
\* moment at which no transaction was open, and closes the transaction.
UndoRestoresBaseline ==
    [][ oldGraph # NoGraph /\ oldGraph' = NoGraph /\ ~Commit
          => graph' = baseline ]_vars

\* A removal that succeeds leaves no module that the root does not reach.
RemovalLeavesNoOrphan ==
    [][ \A r \in Requests, byId \in BOOLEAN :
          outcome' = "true" /\ RemoveImport(r[1], r[2], byId)
            => graph'.metas \subseteq Reachable(graph') ]_vars

\* An addImport to a registered target fails only for a malformed module or
\* because a module pruned earlier is still marked as scanned.
AddFailsForCause ==
    [][ outcome' = "thrown" /\ graph.scanned \subseteq graph.metas =>
          \A r \in Requests, byId \in BOOLEAN :
             Registered(graph, r[2], byId) /\ AddImport(r[1], r[2], byId)
               => ScanSet(graph, r[1]) \intersect Malformed # {} ]_vars

\* The registry is transactional: seen as one value and its backup, every
\* operation loads, changes, undoes or commits that value, or leaves it alone.
Promise == INSTANCE Transaction
    WITH Value <- Graph, Unloaded <- {g \in Graph : g.metas = {}},
         Nothing <- NoGraph, current <- graph, backup <- oldGraph
IsTransactional == Promise!Spec
=============================================================================
