---------------------------- MODULE ExtensionOrder ---------------------------
(***************************************************************************)
(* The order of the extensions of a module (packages/core/src/extension/   *)
(* topological-sort.ts and tarjan-graph.ts, called by shallow-modules-     *)
(* importer.ts), from the configurations [extension, before, after] of its *)
(* own extensions and of those it imports: configs has them at their       *)
(* places in the list, not necessarily at all of them.  "before" and       *)
(* "after" are the classes of beforeExtensions and afterExtensions, empty  *)
(* when the option is left out.  The two searches are taken step by step,  *)
(* path being the classes whose call is under way.                         *)
(***************************************************************************)
EXTENDS Naturals, Sequences, FiniteSets

Origin(configs) == {configs[i].extension : i \in DOMAIN configs}

\* A mistake: beforeExtensions are taken for afterExtensions.
EdgesTurned(c) ==
    LET all == c.before \o c.after
    IN  [j \in DOMAIN all |-> <<c.extension, all[j]>>]

\* What one configuration adds to the graph: an edge leads from an extension to
\* one that runs before it.
EdgesOf(c) ==
    [j \in DOMAIN c.before |-> <<c.before[j], c.extension>>]
        \o [j \in DOMAIN c.after |-> <<c.extension, c.after[j]>>]

getGraph(configs) ==
    {d \in Origin(configs) \X Origin(configs) :
        \E i \in DOMAIN configs : \E j \in DOMAIN EdgesOf(configs[i]) :
            EdgesOf(configs[i])[j] = d}

-----------------------------------------------------------------------------
(* What JavaScript keeps in the order of its insertion.                     *)

Least(S) == CHOOSE i \in S : \A k \in S : i <= k

\* The first class of S in the Set origin.
FirstOf(configs, S) ==
    configs[Least({i \in DOMAIN configs : configs[i].extension \in S})].extension

\* The first class of S in the Set of the graph for e, if there is one.
Neighbors(configs, e, S) == {n \in S : <<e, n>> \in getGraph(configs)}
Leading(c, e, S) ==
    {j \in DOMAIN EdgesOf(c) : EdgesOf(c)[j][1] = e /\ EdgesOf(c)[j][2] \in S}
FirstNeighbor(configs, e, S) ==
    LET i == Least({k \in DOMAIN configs : Leading(configs[k], e, S) # {}})
    IN  EdgesOf(configs[i])[Least(Leading(configs[i], e, S))][2]

-----------------------------------------------------------------------------
Last(s) == s[Len(s)]
Under(at) == {at.path[i] : i \in DOMAIN at.path}
Unvisited(configs, at) == Origin(configs) \ at.visited

Enter(at, e) == [at EXCEPT !.visited = @ \union {e}, !.path = Append(@, e)]
Leave(at) == [at EXCEPT !.path = SubSeq(@, 1, Len(@) - 1)]

\* The calls for classes that have been visited return at once.
dfs(configs, at) ==
    LET new == Unvisited(configs, at)
        e == Last(at.path)
    IN  CASE at.path = <<>> /\ new = {} -> at
          [] at.path = <<>> /\ new # {} -> Enter(at, FirstOf(configs, new))
          [] at.path # <<>> /\ Neighbors(configs, e, new) # {} ->
                Enter(at, FirstNeighbor(configs, e, new))
          [] at.path # <<>> /\ Neighbors(configs, e, new) = {} ->
                [Leave(at) EXCEPT !.ordered = Append(@, e)]

sorting(configs) ==
    LET search[n \in Nat] ==
            IF n = 0 THEN [visited |-> {}, path |-> <<>>, ordered |-> <<>>]
            ELSE dfs(configs, search[n - 1])
    IN  search

\* Each class is entered and left once.
topologicalSort(configs) == sorting(configs)[2 * Cardinality(Origin(configs))].ordered

-----------------------------------------------------------------------------
\* The search ends where it meets a class that it is still under.
dfsWithPath(configs, at) ==
    LET new == Unvisited(configs, at)
        e == Last(at.path)
        met == new \union Under(at)
        n == FirstNeighbor(configs, e, met)
    IN  CASE at.found \/ (at.path = <<>> /\ new = {}) -> at
          [] ~at.found /\ at.path = <<>> /\ new # {} -> Enter(at, FirstOf(configs, new))
          [] ~at.found /\ at.path # <<>> /\ Neighbors(configs, e, met) # {} ->
                IF n \in Under(at) THEN [at EXCEPT !.found = TRUE] ELSE Enter(at, n)
          [] ~at.found /\ at.path # <<>> /\ Neighbors(configs, e, met) = {} -> Leave(at)

searching(configs) ==
    LET search[n \in Nat] ==
            IF n = 0 THEN [visited |-> {}, path |-> <<>>, found |-> FALSE]
            ELSE dfsWithPath(configs, search[n - 1])
    IN  search

findCycle(configs) == searching(configs)[2 * Cardinality(Origin(configs))].found

\* ExtensionCyclicDependency: only those that state beforeExtensions are asked.
checkExtensionsGraph(configs) ==
    findCycle([i \in {k \in DOMAIN configs : configs[k].before # <<>>} |-> configs[i]])
=============================================================================
