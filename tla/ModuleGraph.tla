----------------------------- MODULE ModuleGraph -----------------------------
(***************************************************************************)
(* The module dependency graph of an application: the data structure of    *)
(* packages/core/src/init/module-graph.ts and the pure part of the scan    *)
(* that fills it (module-registry.ts).  A graph is a record:               *)
(*                                                                         *)
(*   metas     the modules registered in normalizedMetaMap                 *)
(*   imports   importedStaticModules and importedDynamicModules of a meta  *)
(*   children  childrenMap (an absent entry is the empty set)              *)
(*   scanned   scannedModules                                              *)
(*   ids       the modules whose string id has an entry in moduleIdMap     *)
(*   app       how often a module's providers are in providersPerApp:      *)
(*             0, 1, or 2 for "more than once"                             *)
(*                                                                         *)
(* All registry operations are synchronous, so one scan is one function of *)
(* the graph; module ModuleScan holds its recursion, whose result a run    *)
(* compares with the one given here.                                       *)
(***************************************************************************)
EXTENDS Naturals

CONSTANTS
    Mod,        \* module references (ModRefId)
    Root,       \* the module with the rootModule decorator
    Imports,    \* the imports each module declares in its decorator
    Exports,    \* the modules each module re-exports
    WithId,     \* the modules that have a string id
    PerApp,     \* the modules that declare providersPerApp
    Malformed   \* the modules whose normalisation or validation throws

\* A module other than the root can only re-export what it imports
\* (assertReexportedModulesAreImported); string ids are taken to be unique.
ASSUME ModuleAssumption ==
    /\ Root \in Mod
    /\ Imports \in [Mod -> SUBSET Mod]
    /\ Exports \in [Mod -> SUBSET Mod]
    /\ \A m \in Mod \ {Root} : Exports[m] \subseteq Imports[m]
    /\ WithId \subseteq Mod
    /\ PerApp \subseteq Mod
    /\ Malformed \subseteq Mod

Graph == [metas    : SUBSET Mod,
          imports  : [Mod -> SUBSET Mod],
          children : [Mod -> SUBSET Mod],
          scanned  : SUBSET Mod,
          ids      : SUBSET Mod,
          app      : [Mod -> 0..2]]

EmptyGraph == [metas    |-> {},
               imports  |-> [m \in Mod |-> {}],
               children |-> [m \in Mod |-> {}],
               scanned  |-> {},
               ids      |-> {},
               app      |-> [m \in Mod |-> 0]]

-----------------------------------------------------------------------------
(* What a depth-first traversal from x visits: the least set that holds x   *)
(* and is closed under succ.                                                *)
Closed(S, succ) == \A p \in S : succ[p] \subseteq S
Closure(x, succ) ==
    {m \in Mod : \A S \in SUBSET Mod : x \in S /\ Closed(S, succ) => m \in S}

Reachable(g) == Closure(Root, g.children)

(* getModulesToScan: the modules a module's metadata makes the scan visit.  *)
ToScan(m) == Imports[m] \union Exports[m]

-----------------------------------------------------------------------------
AddChild(g, parent, child) ==
    [g EXCEPT !.children[parent] = @ \union {child}]

RemoveChild(g, parent, child) ==
    [g EXCEPT !.children[parent] = @ \ {child}]

(* rebuildProvidersPerApp: the providers of every registered module but the *)
(* root, once each.                                                         *)
RebuildProvidersPerApp(g) ==
    [g EXCEPT !.app = [m \in Mod |->
        IF m \in (g.metas \intersect PerApp) \ {Root} THEN 1 ELSE 0]]

(* A mistake a rewrite could make: prune what no module imports any more,   *)
(* which a cycle of imports defeats.                                        *)
PruneUnreferenced(g) ==
    LET orphans == {m \in g.metas \ {Root} :
                        \A p \in g.metas : m \notin g.children[p]}
    IN  RebuildProvidersPerApp([g EXCEPT !.metas = @ \ orphans,
                                         !.ids = @ \ orphans])

\* A mistake: providersPerApp is not brought up to date.
PruneWithoutRebuild(g) ==
    LET orphans == g.metas \ Reachable(g)
    IN  [g EXCEPT !.metas = @ \ orphans, !.ids = @ \ orphans]

(* pruneUnreachableModules: scannedModules keeps the pruned modules, and    *)
(* providersPerApp is rebuilt only when there was something to prune.       *)
PruneUnreachableModules(g) ==
    LET orphans == g.metas \ Reachable(g)
        pruned  == [g EXCEPT !.metas = @ \ orphans,
                             !.ids = @ \ orphans,
                             !.children = [m \in Mod |->
                                 IF m \in orphans THEN {} ELSE g.children[m]]]
    IN  IF orphans = {} THEN g ELSE RebuildProvidersPerApp(pruned)

(* scanModule(x) on graph g: x is scanned unconditionally, its descendants  *)
(* unless they are already scanned.  x itself is not marked as being        *)
(* scanned, so a descendant that imports it scans it a second time.         *)
ScanSet(g, x) == Closure(x, [m \in Mod |-> ToScan(m) \ g.scanned])
ScannedAgain(g, x) ==
    x \notin g.scanned /\ \E p \in ScanSet(g, x) : x \in ToScan(p)

SaturatingAdd(i, j) == IF i + j > 2 THEN 2 ELSE i + j

ScanModule(g, x) ==
    LET visited == ScanSet(g, x)
        times(m) == IF m \notin (visited \intersect PerApp) \ {Root} THEN 0
                    ELSE IF m = x /\ ScannedAgain(g, x) THEN 2 ELSE 1
    IN  [metas    |-> g.metas \union visited,
         imports  |-> [m \in Mod |-> IF m \in visited THEN Imports[m]
                                                      ELSE g.imports[m]],
         children |-> [m \in Mod |-> IF m \in visited THEN ToScan(m)
                                                      ELSE g.children[m]],
         scanned  |-> g.scanned \union (visited \ {x})
                        \union (IF ScannedAgain(g, x) THEN {x} ELSE {}),
         ids      |-> g.ids \union (visited \intersect WithId),
         app      |-> [m \in Mod |-> SaturatingAdd(g.app[m], times(m))]]

(* propagateAspectsAndValidate throws when the traversal from the root      *)
(* meets a module without metadata (MissingModuleMetadata), and the scan or *)
(* checkModulesHaveMeaningfulMetadata when a module is malformed.           *)
Valid(g) ==
    /\ Reachable(g) \subseteq g.metas
    /\ g.metas \intersect Malformed = {}
=============================================================================
