-------------------------------- MODULE Router --------------------------------
(***************************************************************************)
(* The router of the REST application: DefaultRouter (packages/rest/src/   *)
(* services/router.ts), which keeps one radix tree for each HTTP method,   *)
(* and setRoutes of the dispatcher extension (packages/rest/src/extensions *)
(* /dispatcher.extension.ts:334-362), which fills them when the application*)
(* starts, in the order in which the modules were imported.  The trees     *)
(* share nothing, and all() calls on() for one method after the other: the *)
(* state is the tree of one method.                                        *)
(*                                                                         *)
(* The class Tree (packages/rest/src/services/tree.ts) comes first, as     *)
(* functions of a node.  A path is a sequence of characters and so are the *)
(* keys of the nodes; a handle is the path it was registered with.  A      *)
(* result that is thrown is the name of the error.  Nodes hold what theirs *)
(* of the code hold; the type of the root, which nothing tells from a      *)
(* static one, is left out.                                                *)
(***************************************************************************)
EXTENDS Naturals, SequencesExt

Wildcards == {":", "*"}
NoHandle == <<>>

NewTree(type, priority) ==
    [path |-> <<>>, wildChild |-> FALSE, type |-> type, indices |-> <<>>,
     children |-> <<>>, handle |-> NoHandle, priority |-> priority]

Done(node) == [node |-> node, error |-> "none"]
Throw(node, error) == [node |-> node, error |-> error]

CountParams(path) == Len(SelectSeq(path, LAMBDA c : c \in Wildcards))

\* The first n characters are dropped, as in path.slice(n).
From(path, n) == SubSeq(path, n + 1, Len(path))

\* Where the segment of path that position i is in ends: at the next slash.
SegmentEnd(path, i) ==
    LET slashes == {k \in i..Len(path) : path[k] = "/"}
    IN  IF slashes = {} THEN Len(path) + 1 ELSE Min(slashes)

Ahead(path, tree) == Len(LongestCommonPrefix({path, tree.path}))

-----------------------------------------------------------------------------
(* insertChild, one wildcard at a time: path is what is left of it from     *)
(* offset on.                                                               *)

RECURSIVE InsertChild(_, _, _, _)

\* The loop goes on until numParams wildcards are found; when there are fewer
\* it reads past the end of the path for ever.
InsertParam(tree, numParams, path, i, handle) ==
    LET end   == SegmentEnd(path, i)
        name  == SubSeq(path, i, end - 1)
        param == [NewTree("param", 1) EXCEPT !.path = name]
        below == InsertChild(NewTree("static", 1), numParams - 1, From(path, end - 1), handle)
        node(child) == [tree EXCEPT !.path = IF i > 1 THEN SubSeq(path, 1, i - 1) ELSE @,
                                    !.children = <<child>>,
                                    !.wildChild = TRUE]
    IN  IF end <= Len(path)
        THEN [node  |-> node([param EXCEPT !.children = <<below.node>>]),
              error |-> below.error]
        ELSE IF numParams > 1 THEN Throw(tree, "Endless")
        ELSE Done(node([param EXCEPT !.handle = handle]))

InsertCatchAll(tree, numParams, path, i, handle) ==
    LET rest  == [NewTree("catchAll", 1) EXCEPT !.path = From(path, i - 2),
                                                !.handle = handle]
        outer == [NewTree("catchAll", 1) EXCEPT !.wildChild = TRUE,
                                                !.children = <<rest>>]
    IN  IF SegmentEnd(path, i) <= Len(path) \/ numParams > 1
        THEN Throw(tree, "CatchAllRoutesOnlyAtEnd")
        ELSE IF tree.path # <<>> /\ Last(tree.path) = "/"
        THEN Throw(tree, "CatchAllConflictWithExistingHandle")
        ELSE IF i = 1 \/ path[i - 1] # "/"
        THEN Throw(tree, "NoBeforeCatchAll")
        ELSE Done([tree EXCEPT !.path = SubSeq(path, 1, i - 2),
                               !.children = <<outer>>,
                               !.indices = <<"/">>])

InsertChild(tree, numParams, path, handle) ==
    LET i    == SelectInSeq(path, LAMBDA c : c \in Wildcards)
        name == SubSeq(path, i, SegmentEnd(path, i) - 1)
    IN  IF numParams = 0
        THEN Done([tree EXCEPT !.path = path, !.handle = handle])
        ELSE IF i = 0 THEN Throw(tree, "Endless")
        ELSE IF CountParams(name) > 1 THEN Throw(tree, "OnlyOneWildcardPerPath")
        ELSE IF tree.children # <<>> THEN Throw(tree, "WildcardRouteConflicts")
        ELSE IF Len(name) < 2 THEN Throw(tree, "WildcardsMustNonEmpty")
        ELSE IF path[i] = ":" THEN InsertParam(tree, numParams, path, i, handle)
        ELSE InsertCatchAll(tree, numParams, path, i, handle)

-----------------------------------------------------------------------------
(* mergeTree and what it calls.                                             *)

SplitAdge(tree, i) ==
    LET lower == [tree EXCEPT !.path = From(tree.path, i), !.type = "static",
                              !.priority = @ - 1]
    IN  [tree EXCEPT !.children = <<lower>>, !.indices = <<tree.path[i + 1]>>,
                     !.path = SubSeq(tree.path, 1, i), !.handle = NoHandle,
                     !.wildChild = FALSE]

Raised(tree) == [tree EXCEPT !.priority = @ + 1]

\* Where addPriority moves the child at pos to: before those with a lower one.
NewPos(tree, pos) ==
    LET prio == tree.children[pos].priority + 1
    IN  Min({k \in 1..pos : \A j \in k..(pos - 1) : tree.children[j].priority < prio})

Moved(s, from, to, e) == InsertAt(RemoveAt(s, from), to, e)

AddPriority(tree, pos) ==
    LET to == NewPos(tree, pos)
    IN  [tree EXCEPT !.children = Moved(@, pos, to, Raised(tree.children[pos])),
                     !.indices = Moved(@, pos, to, tree.indices[pos])]

\* The child at pos replaced by what a call below has made of it.
WithChild(tree, pos, result) ==
    [node |-> [tree EXCEPT !.children = ReplaceAt(@, pos, result.node)],
     error |-> result.error]

\* A mistake: a name that goes on after the wildcard is taken for the same one.
WildcardMatchesPrefix(wild, path) ==
    /\ IsPrefix(wild.path, path)
    /\ wild.type # "catchAll"

WildcardMatches(wild, path) ==
    /\ IsPrefix(wild.path, path)
    /\ wild.type # "catchAll"
    /\ Len(wild.path) >= Len(path) \/ path[Len(wild.path) + 1] = "/"

RECURSIVE MergeTree(_, _, _, _)
MergeTree(old, numParams, path, handle) ==
    LET i    == Ahead(path, old)
        tree == IF i < Len(old.path) THEN SplitAdge(old, i) ELSE old
        new  == From(path, i)
        j    == SelectInSeq(tree.indices, LAMBDA c : c = new[1])
    IN  IF new = <<>> THEN
            IF tree.handle # NoHandle THEN Throw(tree, "HandleAlreadyRegistered")
            ELSE Done([tree EXCEPT !.handle = handle])
        ELSE IF tree.wildChild THEN           \* checkWildcardMatches
            IF ~WildcardMatches(tree.children[1], new)
            THEN Throw(tree, "ConflictsWithExistingWildcard")
            ELSE WithChild(tree, 1,
                     MergeTree(Raised(tree.children[1]), numParams - 1, new, handle))
        ELSE IF tree.type = "param" /\ new[1] = "/" /\ Len(tree.children) = 1 THEN
            WithChild(tree, 1, MergeTree(Raised(tree.children[1]), numParams, new, handle))
        ELSE IF j > 0 THEN
            LET raised == AddPriority(tree, j)
                to     == NewPos(tree, j)
            IN  WithChild(raised, to, MergeTree(raised.children[to], numParams, new, handle))
        ELSE IF new[1] \notin Wildcards THEN
            LET longer == [tree EXCEPT !.indices = Append(@, new[1]),
                                       !.children = Append(@, NewTree("static", 0))]
                to     == NewPos(longer, Len(longer.children))
                raised == AddPriority(longer, Len(longer.children))
            IN  WithChild(raised, to, InsertChild(raised.children[to], numParams, new, handle))
        ELSE InsertChild(tree, numParams, new, handle)

AddRoute(tree, path, handle) ==
    IF tree.path # <<>> \/ tree.children # <<>>
    THEN MergeTree(Raised(tree), CountParams(path), path, handle)
    ELSE InsertChild(Raised(tree), CountParams(path), path, handle)

-----------------------------------------------------------------------------
(* search: the handle, and the values of the parameters met on the way.     *)

\* A mistake: a parameter takes the rest of the path.
ParamEndLast(path) == Len(path) + 1

ParamEnd(path) == SegmentEnd(path, 1)

RECURSIVE Walk(_, _, _)
Walk(tree, path, params) ==
    LET rest  == From(path, Len(tree.path))
        i     == SelectInSeq(tree.indices, LAMBDA c : c = rest[1])
        wild  == tree.children[1]
        end   == ParamEnd(rest)
        saved == Append(params, [key   |-> From(wild.path, 1),
                                 value |-> SubSeq(rest, 1, end - 1)])
        found(handle, ps) == [handle |-> handle, params |-> ps]
    IN  IF path = tree.path THEN found(tree.handle, params)
        ELSE IF ~IsStrictPrefix(tree.path, path) THEN found(NoHandle, params)
        ELSE IF ~tree.wildChild THEN
            IF i = 0 THEN found(NoHandle, params)
            ELSE Walk(tree.children[i], rest, params)
        ELSE IF wild.type = "catchAll" THEN
            found(wild.handle, Append(params, [key |-> From(wild.path, 2), value |-> rest]))
        ELSE IF end > Len(rest) THEN found(wild.handle, saved)
        ELSE IF wild.children = <<>> THEN found(NoHandle, saved)
        ELSE Walk(wild.children[1], From(rest, end - 1), saved)

Search(tree, path) == Walk(tree, path, <<>>)

-----------------------------------------------------------------------------
(* The router.                                                              *)

CONSTANTS
    Route,      \* the full paths that controllers can be given
    Probe,      \* the paths that requests can ask for
    MaxRoutes   \* bound: how many routes the application registers

ASSUME RouteAssumption == \A r \in Route \union Probe : Len(r) > 0 /\ r[1] = "/"
ASSUME MaxRoutesAssumption == MaxRoutes \in Nat

VARIABLES
    tree,       \* trees[method]
    registered, \* history: the routes in it
    error       \* what ended the start of the application

vars == <<tree, registered, error>>

Init ==
    /\ tree = NewTree("static", 0)
    /\ registered = {}
    /\ error = "none"

-----------------------------------------------------------------------------
(* on(): what an exception leaves behind is never used.                     *)
On(path) ==
    LET result == AddRoute(tree, path, path)
    IN  /\ error = "none" /\ Cardinality(registered) < MaxRoutes
        /\ error' = result.error
        /\ IF result.error = "none"
           THEN /\ tree' = result.node
                /\ registered' = registered \union {path}
           ELSE UNCHANGED <<tree, registered>>

(* setRoutes: the next route of the next controller.                        *)
Next == \E path \in Route : On(path)

Spec == Init /\ [][Next]_vars

(* find(): a method without a tree finds nothing, as an empty tree does.    *)
Find(path) == Search(tree, path)

-----------------------------------------------------------------------------
(* What a path means, said of the path alone.                               *)

(* Where the wildcard of the segment that ends at i stands, or 0.           *)
WildcardBefore(path, i) ==
    LET starts == {k \in 1..i : path[k] \in Wildcards /\ \A j \in k..i : path[j] # "/"}
    IN  IF starts = {} THEN 0 ELSE Min(starts)

(* A segment has at most one wildcard, with a name; the segment of a "*" is *)
(* the last and holds nothing else.                                         *)
ValidPath(path) ==
    \A i \in 1..Len(path) : path[i] \in Wildcards =>
        /\ i < Len(path) /\ path[i + 1] \notin Wildcards \union {"/"}
        /\ \A j \in (i + 1)..(SegmentEnd(path, i) - 1) : path[j] \notin Wildcards
        /\ path[i] = "*" => path[i - 1] = "/" /\ SegmentEnd(path, i) > Len(path)

(* Two paths are compatible when no request can mean both: they differ, and *)
(* where they part neither enters a wildcard that the other does not.       *)
Compatible(p, q) ==
    LET i        == Len(LongestCommonPrefix({p, q}))
        NextOf(r) == IF i < Len(r) THEN r[i + 1] ELSE "end"
        nexts    == {NextOf(p), NextOf(q)}
    IN  /\ p # q
        /\ IF WildcardBefore(p, i) > 0
           THEN nexts \subseteq {"/", "end"} /\ p[WildcardBefore(p, i)] # "*"
           ELSE /\ "*" \notin nexts
                /\ ":" \in nexts => "end" \in nexts

(* The values of the parameters if path matches the pattern from position k *)
(* on: a parameter takes what is left of the segment, which may be nothing  *)
(* unless the pattern ends with it; a "*" takes everything, with the slash. *)
RECURSIVE MatchesOf(_, _)
MatchesOf(pattern, path) ==
    IF pattern = <<>> THEN IF path = <<>> THEN {<<>>} ELSE {}
    ELSE IF pattern[1] = ":" THEN
        LET name  == SubSeq(pattern, 2, SegmentEnd(pattern, 1) - 1)
            value == SubSeq(path, 1, SegmentEnd(path, 1) - 1)
            after == From(pattern, SegmentEnd(pattern, 1) - 1)
        IN  IF after = <<>> /\ value = <<>> THEN {}
            ELSE {<<[key |-> name, value |-> value]>> \o m :
                      m \in MatchesOf(after, From(path, Len(value)))}
    ELSE IF path = <<>> \/ pattern[1] # path[1] THEN {}
    ELSE IF Len(pattern) > 1 /\ pattern[2] = "*" THEN
        {<<[key |-> From(pattern, 2), value |-> path]>>}
    ELSE MatchesOf(Tail(pattern), Tail(path))

-----------------------------------------------------------------------------
RECURSIVE NodesOf(_)
NodesOf(node) ==
    {node} \union UNION {NodesOf(node.children[i]) : i \in 1..Len(node.children)}

Handles(node) == {n.handle : n \in NodesOf(node)} \ {NoHandle}

\* Every node of the tree can be found: a wildcard is the only child of its
\* node, the index characters of other nodes are those their children begin
\* with, the children are ordered by priority, and the priority is the number
\* of routes below.
WellFormed ==
    \A node \in NodesOf(tree) :
        LET children == node.children
        IN  /\ node.priority = Cardinality(Handles(node))
            /\ \A i \in 2..Len(children) :
                  children[i - 1].priority >= children[i].priority
            /\ node.wildChild =>
                  /\ Len(children) = 1
                  /\ children[1].type \in {"param", "catchAll"}
                  /\ node.indices = <<>>
            /\ ~node.wildChild /\ node.type # "param" =>
                  /\ Len(node.indices) = Len(children)
                  /\ IsInjective(node.indices)
            /\ ~node.wildChild =>
                  \A i \in 1..Len(node.indices) :
                     children[i].path # <<>> => children[i].path[1] = node.indices[i]

\* A request finds the route that its path matches, with the values of the
\* parameters, and nothing if there is none; whatever else is registered, and
\* in whatever order, it can never be two.
FindIsMatching ==
    \A path \in Probe :
        LET matching == {r \in registered : MatchesOf(r, path) # {}}
            found    == Find(path)
        IN  IF matching = {} THEN found.handle = NoHandle
            ELSE /\ matching = {found.handle}
                 /\ MatchesOf(found.handle, path) = {found.params}

\* Whether a route is refused does not depend on the order of the modules: it
\* is when its path is malformed or some path of the method means the same.
\* The search for wildcards always ends.
RefusesConflictsOnly ==
    [][ \A path \in Route :
          On(path) =>
              /\ error' = "none" <=>
                    ValidPath(path) /\ \A r \in registered : Compatible(r, path)
              /\ error' # "Endless" ]_vars
=============================================================================
