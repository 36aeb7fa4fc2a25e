------------------------------ MODULE RestModules ----------------------------
(***************************************************************************)
(* The applications that are started one after the other in a process:     *)
(* each time the modules are scanned and their aspects propagated          *)
(* (ModuleAspects), and the rest aspect finds out, from the root down,     *)
(* under which prefix and behind which guards the controllers of a module  *)
(* are served, if at all (rest-shallow-modules-importer.ts, called by      *)
(* collectProvidersShallow of app-initializer.ts).                         *)
(***************************************************************************)
EXTENDS ModuleAspects

CONSTANTS
    Rest,       \* the aspect @restAspect
    Apps,       \* the applications considered
    MaxInit     \* bound: how often the application is started

VARIABLES
    app,        \* one of Apps (constant)
    phase,      \* "stopped", "hosting", "down", "up", "importing", "done" or "failed"
    init,       \* how often the application has been started
    shared,     \* dynamicAspectOptionsMap of each dynamic module
    scan,       \* the scan: [metas, scanned]
    served,     \* shallowModuleImportsMap of the rest aspect
    failure     \* why the application does not start

vars == <<app, phase, init, shared, scan, served, failure>>

Refs == DOMAIN app.refs
State == [shared |-> shared, metas |-> scan.metas, scanned |-> scan.scanned, visited |-> {}]
NotServed == [r \in Refs |-> Unset]

Init ==
    /\ app \in Apps
    /\ phase = "stopped"
    /\ init = 0
    /\ shared = [r \in Refs |-> [a \in Aspects |-> Unset]]
    /\ scan = [metas |-> NoMetas(app), scanned |-> <<>>]
    /\ served = NotServed
    /\ failure = "none"

Keep(s) == shared' = s.shared /\ scan' = [metas |-> s.metas, scanned |-> s.scanned]

(* scanRootModule: a new registry, with the modules of the process.         *)
ScanRootModule ==
    /\ phase = "stopped" /\ init < MaxInit
    /\ phase' = "hosting"
    /\ init' = init + 1
    /\ Keep(ScanEach(app, [State EXCEPT !.metas = NoMetas(app), !.scanned = <<>>], <<Root>>, {}))
    /\ served' = NotServed
    /\ UNCHANGED <<app, failure>>

ApplyHostOptions ==
    /\ phase = "hosting"
    /\ IF Unhosted(State) = {} THEN phase' = "down" /\ UNCHANGED <<shared, scan>>
       ELSE \E a \in Unhosted(State) : Keep(ApplyToHost(app, State, a)) /\ UNCHANGED phase
    /\ UNCHANGED <<app, init, served, failure>>

PropagateTopDown ==
    /\ phase = "down" /\ phase' = "up"
    /\ Keep(TopDown(app, State, <<Root>>, {}))
    /\ UNCHANGED <<app, init, served, failure>>

AccumulateBottomUp ==
    /\ phase = "up" /\ phase' = "importing"
    /\ Keep(BottomUp(app, State, <<Root>>))
    /\ UNCHANGED <<app, init, served, failure>>

-----------------------------------------------------------------------------
(* RestShallowModulesImporter.  A module is imported along every path that  *)
(* leads to it, and the last one counts.                                    *)
RestParams(r) == IF scan.metas[r].params[Rest] = Unset THEN NoParams ELSE scan.metas[r].params[Rest]
HasControllers(r) == \E d \in ToSet(Class(app, r).aspects) : d.id = Rest /\ d.controllers

\* checkImportsAndAppends
AppendError(r) ==
    LET meta     == scan.metas[r]
        classes  == {app.refs[i].class : i \in ToSet(meta.static) \union ToSet(meta.dynamic)}
        wrong(k) == ~HasControllers(meta.appends[k]) \/ app.refs[meta.appends[k]].class \in classes
        first    == meta.appends[CHOOSE k \in DOMAIN meta.appends :
                                   wrong(k) /\ \A n \in 1..k - 1 : ~wrong(n)]
    IN  IF \A k \in DOMAIN meta.appends : ~wrong(k) THEN "none"
        ELSE IF ~HasControllers(first) THEN "ModuleMustHaveControllers"
        ELSE "ModuleIncludesInImportsAndAppends"

(* getPrefixAndGuards, of what module r imports or appends: the place of a  *)
(* module is [prefix, guards].                                              *)
Segment(p) == IF p \in {"none", ""} THEN <<>> ELSE <<p>>

\* A mistake: an absolute path is joined to the prefix.
PlaceBelowPrefix(r, place, child, isImport) ==
    LET p == RestParams(child)
    IN  IF app.refs[child].dynamic \/ ~isImport
        THEN [prefix |-> place.prefix \o Segment(p.absolute) \o Segment(p.path),
              guards |-> place.guards \o [k \in DOMAIN p.guards |-> [guard |-> p.guards[k], from |-> r]]]
        ELSE [prefix |-> place.prefix, guards |-> <<>>]

PlaceOf(r, place, child, isImport) ==
    LET p       == RestParams(child)
        dynamic == app.refs[child].dynamic
    IN  IF dynamic \/ ~isImport
        THEN [prefix |-> IF dynamic /\ p.absolute # "none" THEN Segment(p.absolute)
                         ELSE place.prefix \o (IF dynamic THEN Segment(p.path) ELSE <<>>),
              guards |-> place.guards \o [k \in DOMAIN p.guards |-> [guard |-> p.guards[k], from |-> r]]]
        ELSE [prefix |-> place.prefix, guards |-> <<>>]

\* A mistake: a module that is appended needs a path as well.
AppliesWithPath(r, isAppends) == r = Root \/ (isAppends /\ HasPath(RestParams(r)))

\* applyControllers
Applies(r, isAppends) == r = Root \/ isAppends \/ HasPath(RestParams(r))

(* What r leads to, each with isImport.                                     *)
Leads(r) ==
    LET to(rs, isImport) == [k \in DOMAIN rs |-> [ref |-> rs[k], isImport |-> isImport]]
        meta == scan.metas[r]
    IN  to(meta.static, TRUE) \o to(meta.dynamic, TRUE) \o to(meta.appends, FALSE)

RECURSIVE ImportEach(_, _, _, _, _)
ImportEach(t, r, place, leads, scanning) ==
    IF leads = <<>> \/ t.err # "none" THEN t
    ELSE LET c     == Head(leads).ref
             at    == PlaceOf(r, place, c, Head(leads).isImport)
             entry == [prefix |-> at.prefix, guards |-> at.guards, apply |-> Applies(c, ~Head(leads).isImport)]
             below == ImportEach([t EXCEPT !.err = AppendError(c)], c, at, Leads(c), scanning \union {c})
         IN  ImportEach(IF c \in scanning THEN t ELSE [below EXCEPT !.map[c] = entry],
                        r, place, Tail(leads), scanning)

ImportModulesShallow ==
    LET nowhere == [prefix |-> <<>>, guards |-> <<>>]
        result  == ImportEach([map |-> NotServed, err |-> AppendError(Root)], Root, nowhere, Leads(Root), {})
    IN  /\ phase = "importing"
        /\ IF Rest \notin scan.metas[Root].all THEN phase' = "done" /\ UNCHANGED <<served, failure>>
           ELSE IF result.err # "none" THEN phase' = "failed" /\ failure' = result.err /\ UNCHANGED served
           ELSE /\ phase' = "done"
                /\ served' = [result.map EXCEPT ![Root] = nowhere @@ [apply |-> TRUE]]
                /\ UNCHANGED failure
        /\ UNCHANGED <<app, init, shared, scan>>

\* The application is closed; another one is made of the same modules.
Close ==
    /\ phase = "done" /\ phase' = "stopped"
    /\ UNCHANGED <<app, init, shared, scan, served, failure>>

Next ==
    \/ ScanRootModule \/ ApplyHostOptions \/ PropagateTopDown \/ AccumulateBottomUp
    \/ ImportModulesShallow \/ Close

Spec == Init /\ [][Next]_vars

-----------------------------------------------------------------------------
(* What is declared: the edges between modules.                             *)
Edge(from, to, kind, params) == [from |-> from, to |-> to, kind |-> kind, params |-> params]
KindOf(r) == IF app.refs[r].dynamic THEN "dynamic" ELSE "static"
GivenBy(entry) ==
    LET own == app.refs[entry.ref].params
    IN  IF HasPath(own) \/ ~entry.wrapped THEN own ELSE [entry.params EXCEPT !.guards = own.guards \o @]
EdgesOf(r) ==
    {Edge(r, i, KindOf(i), app.refs[i].params) : i \in ToSet(Class(app, r).imports)}
    \union UNION {{Edge(r, e.ref, KindOf(e.ref), GivenBy(e)) : e \in ToSet(d.imports)}
                  \union {Edge(r, i, "append", app.refs[i].params) : i \in ToSet(d.appends)}
                    : d \in ToSet(Class(app, r).aspects)}
Edges == UNION {EdgesOf(r) : r \in Refs}

\* The chains of edges that lead from the root to r, without circles.
Chains[n \in 0..Cardinality(Refs)] ==
    IF n = 0 THEN {<<>>}
    ELSE LET shorter == Chains[n - 1]
             end(c) == IF c = <<>> THEN Root ELSE Last(c).to
         IN  shorter \union {Append(x[1], x[2]) : x \in {y \in shorter \X Edges :
                 /\ y[2].from = end(y[1]) /\ y[2].to # Root
                 /\ \A k \in DOMAIN y[1] : y[1][k].to # y[2].to}}
AllChains == Chains[Cardinality(Refs)]
ChainsTo(r) == {c \in AllChains : c # <<>> /\ Last(c).to = r}

\* The prefix starts at the last absolute path, the guards after the last
\* module that is imported without parameters.

PrefixAlong(c) ==
    LET step(s, e) == IF e.kind = "static" THEN s
                      ELSE IF e.params.absolute # "none" THEN <<e.params.absolute>>
                      ELSE IF e.params.path \in {"none", ""} THEN s
                      ELSE Append(s, e.params.path)
    IN  FoldLeft(step, <<>>, c)
GuardsAlong(c) ==
    LET step(s, e) == IF e.kind = "static" THEN <<>>
                      ELSE s \o [k \in DOMAIN e.params.guards |-> [guard |-> e.params.guards[k], from |-> e.from]]
    IN  FoldLeft(step, <<>>, c)

(* Every dynamic module is imported or appended in one place.               *)
Settled == \A e, f \in Edges : e.to = f.to /\ app.refs[e.to].dynamic => e = f

(* A module is served under the prefix and behind the guards that one of    *)
(* the chains of imports from the root to it declares; each guard comes     *)
(* from the module that asks for it.  A further application of the process  *)
(* may have a guard twice, but no other one.                                *)
PlacedAsDeclared ==
    phase = "done" /\ Settled =>
        \A r \in Refs \ {Root} : served[r] # Unset /\ served[r].apply =>
            \E c \in ChainsTo(r) :
                /\ served[r].prefix = PrefixAlong(c)
                /\ IF init = 1 THEN served[r].guards = GuardsAlong(c)
                   ELSE ToSet(served[r].guards) = ToSet(GuardsAlong(c))

(* The controllers of a module are served if every module that leads to it  *)
(* appends it or gives it a path, and only if one of them does.             *)
ServedWhenAsked ==
    LET asks(e) == e.kind = "append" \/ (e.kind = "dynamic" /\ HasPath(e.params))
    IN  phase = "done" /\ Settled /\ served[Root] # Unset =>
        \A r \in Refs \ {Root} : ChainsTo(r) # {} =>
            LET last == {Last(c) : c \in ChainsTo(r)}
            IN  /\ (\A e \in last : asks(e)) => served[r] # Unset /\ served[r].apply
                /\ (served[r] # Unset /\ served[r].apply) => \E e \in last : asks(e)

(* What is served, and where, is what the imports of the modules say.       *)
ServedAsDeclared == PlacedAsDeclared /\ ServedWhenAsked

(* The root knows of every aspect of the application.  A module that is not *)
(* dynamic, has no aspects of its own and may inherit has the aspects that  *)
(* lie on every chain of imports that leads to it; no module has one that   *)
(* is neither its own nor on such a chain.  The host of an aspect that is   *)
(* used has what the aspect declares for it.                                *)
Declares(r, a) == \E d \in ToSet(Class(app, r).aspects) : d.id = a
On(c, a) == \E k \in DOMAIN c : Declares(c[k].from, a)
Inheriting(r) == Class(app, r).inherits /\ ~app.refs[r].dynamic /\ Class(app, r).aspects = <<>>
AspectsAreInherited ==
    phase \in {"importing", "done"} =>
        /\ scan.metas[Root].all = UNION {scan.metas[r].own : r \in Refs}
        /\ \A a \in Aspects : \A r \in {r \in Refs \ {Root} : ChainsTo(r) # {}} :
              /\ Inheriting(r) /\ (\A c \in ChainsTo(r) : On(c, a)) => a \in scan.metas[r].own
              /\ a \in scan.metas[r].own => Declares(r, a) \/ \E c \in ChainsTo(r) : On(c, a)
        /\ \A a \in Aspects : HostImports[a] # Unset /\ (\E r \in ToSet(scan.scanned) : Declares(r, a)) =>
              \A i \in ToSet(HostImports[a].imports) : i \in ToSet(scan.scanned) /\ a \in scan.metas[i].own
=============================================================================
