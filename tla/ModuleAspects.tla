----------------------------- MODULE ModuleAspects ---------------------------
(***************************************************************************)
(* packages/core/src/init: how the aspects of modules (such as             *)
(* @restAspect) are scanned, inherited and collected (module-normalizer,   *)
(* module-meta-processor, module-registry, module-aspect-propagator), with *)
(* the normaliser of the rest aspect.  The whole of it is synchronous.     *)
(*                                                                         *)
(* An application is a record                                              *)
(*   classes  by name: aspects, a sequence of what is declared with each   *)
(*            aspect [id, imports, appends, controllers], imports of the   *)
(*            base decorator, inherits                                     *)
(*   refs     the modules: [class, dynamic, params]; several dynamic       *)
(*            modules may be made of one class                             *)
(* and an import of an aspect an entry [ref, wrapped, params].             *)
(***************************************************************************)
EXTENDS Integers, Sequences, FiniteSets, SequencesExt

CONSTANTS
    Host,          \* the host module of each aspect
    HostImports    \* what hostStaticAspectOptions import, by aspect; Unset without options

Root == 1
Unset == <<>>      \* no entry in a Map
Aspects == DOMAIN Host

(* Parameters of an import: "none" is undefined, "" an empty path.          *)
NoParams == [path |-> "none", absolute |-> "none", guards |-> <<>>]
HasPath(p) == p.path # "none" \/ p.absolute # "none"

\* applyBaseOptions
Merged(over, base) ==
    LET or(v, w) == IF v = "none" THEN w ELSE v
    IN  [path |-> or(over.path, base.path), absolute |-> or(over.absolute, base.absolute),
         guards |-> base.guards \o over.guards]

Add(s, e) == IF e \in ToSet(s) THEN s ELSE Append(s, e)
Has(map, key) == map[key] # Unset

-----------------------------------------------------------------------------
(* The state of the scan: shared are the dynamicAspectOptionsMaps of the    *)
(* dynamic modules (objects that outlive an application), metas the         *)
(* normalised metadata:                                                     *)
(*   own, all      keys of moduleAspectsMap and allModuleAspectsMap         *)
(*   params        of normalizedAspectsMetaMap, by aspect                   *)
(*   static, dynamic, appends, children                                     *)
NoMeta == [own |-> {}, all |-> {}, params |-> [a \in Aspects |-> Unset],
           static |-> <<>>, dynamic |-> <<>>, appends |-> <<>>, children |-> <<>>]
NoMetas(app) == [r \in DOMAIN app.refs |-> NoMeta]

Class(app, r) == app.classes[app.refs[r].class]

\* normalizeAspectMeta: RestModuleNormalizer.mergeDynamicModule
ParamsOf(app, s, r, a) ==
    LET ref == app.refs[r]
    IN  IF HasPath(ref.params) THEN ref.params
        ELSE IF ref.dynamic /\ Has(s.shared[r], a) THEN s.shared[r][a]
        ELSE NoParams
NormalizeAspectMeta(app, s, r, a) == [s EXCEPT !.metas[r].params[a] = ParamsOf(app, s, r, a)]

\* ensureHostModuleImported
EnsureHost(s, r, a) ==
    IF Host[a] = r THEN s ELSE [s EXCEPT !.metas[r].static = Add(@, Host[a])]

(* applyAspectImports, one entry: the options of the import are kept in the *)
(* dynamic module itself, on top of those that are there already.           *)
ImportEntry(app, s, r, a, entry) ==
    LET given == IF entry.wrapped THEN Merged(entry.params, app.refs[entry.ref].params)
                 ELSE app.refs[entry.ref].params
        old   == s.shared[entry.ref][a]
    IN  IF ~app.refs[entry.ref].dynamic THEN [s EXCEPT !.metas[r].static = Add(@, entry.ref)]
        ELSE [s EXCEPT !.shared[entry.ref][a] = IF old = Unset THEN given ELSE Merged(given, old),
                       !.metas[r].dynamic = Add(@, entry.ref)]

\* appendModules, one module
AppendEntry(app, s, r, a, ref) ==
    LET p == app.refs[ref].params
    IN  [s EXCEPT !.metas[r].appends = Append(@, ref),
                  !.shared[ref][a] = IF HasPath(p) THEN p ELSE @]

\* normalizeAspects, one aspect
ApplyAspect(app, s, r, decl) ==
    LET a        == decl.id
        hosted   == EnsureHost([s EXCEPT !.metas[r].all = @ \union {a}], r, a)
        imported == FoldLeft(LAMBDA t, e : ImportEntry(app, t, r, a, e), hosted, decl.imports)
    IN  FoldLeft(LAMBDA t, e : AppendEntry(app, t, r, a, e),
                 NormalizeAspectMeta(app, imported, r, a), decl.appends)

\* ModuleNormalizer.normalize
Normalize(app, s, r) ==
    LET c     == Class(app, r)
        split == [NoMeta EXCEPT !.own = {d.id : d \in ToSet(c.aspects)},
                                !.static = SelectSeq(c.imports, LAMBDA i : ~app.refs[i].dynamic),
                                !.dynamic = SelectSeq(c.imports, LAMBDA i : app.refs[i].dynamic)]
    IN  FoldLeft(LAMBDA t, d : ApplyAspect(app, t, r, d), [s EXCEPT !.metas[r] = split], c.aspects)

ModulesToScan(m) == m.appends \o m.static \o m.dynamic

(* scanModule: a module is normalised before the modules it leads to.       *)
RECURSIVE ScanEach(_, _, _, _)
ScanEach(app, s, rs, scanning) ==
    IF rs = <<>> THEN s
    ELSE LET r    == Head(rs)
             norm == Normalize(app, s, r)
             kids == FoldLeft(Add, <<>>, ModulesToScan(norm.metas[r]))
             below == ScanEach(app, [norm EXCEPT !.metas[r].children = kids], kids, scanning \union {r})
         IN  ScanEach(app, IF r \in scanning \/ r \in ToSet(s.scanned) THEN s
                           ELSE [below EXCEPT !.scanned = Append(@, r)],
                      Tail(rs), scanning)

(* applyHostStaticAspectOptions, for one aspect that a scanned module has:  *)
(* its host gets the aspect, and what the aspect imports for it is scanned. *)
ApplyToHost(app, s, a) ==
    LET h    == Host[a]
        with == [s EXCEPT !.metas[h].own = @ \union {a},
                          !.metas[h].static = FoldLeft(Add, @, HostImports[a].imports)]
        norm == NormalizeAspectMeta(app, with, h, a)
    IN  ScanEach(app, [norm EXCEPT !.metas[h].children = FoldLeft(Add, @, ModulesToScan(norm.metas[h]))],
                 HostImports[a].imports, {h})

Unhosted(s) ==
    {a \in Aspects : /\ HostImports[a] # Unset /\ Host[a] \in ToSet(s.scanned)
                     /\ a \notin s.metas[Host[a]].own
                     /\ \E r \in ToSet(s.scanned) : a \in s.metas[r].own}

-----------------------------------------------------------------------------
(* propagateAspectsTopDown: each module once, with the aspects of the path  *)
(* it is reached by first.                                                  *)
\* registerAspectOnModule and addChild
Register(app, s, r, a) ==
    LET hosted == NormalizeAspectMeta(app, EnsureHost(s, r, a), r, a)
    IN  [hosted EXCEPT !.metas[r].own = @ \union {a}, !.metas[r].all = @ \union {a},
                       !.metas[r].children = Add(@, Host[a])]
RegisterAll(app, s, r, as) == FoldLeft(LAMBDA t, a : Register(app, t, r, a), s, SetToSeq(as))

\* applyAspectsForDynamicModule, inheritParentAspects
Inherit(app, s, r, parents) ==
    LET effective == parents \union s.metas[r].own
        asked     == {a \in effective : app.refs[r].dynamic /\ Has(s.shared[r], a)}
        dynamic   == RegisterAll(app, s, r, asked \ s.metas[r].own)
    IN  RegisterAll(app, dynamic, r,
                    IF Class(app, r).inherits /\ dynamic.metas[r].own = {} THEN effective ELSE {})

\* A mistake: a module passes on only the aspects that it has itself.
PassedOwn(parents, own) == own

Passed(parents, own) == parents \union own

RECURSIVE TopDown(_, _, _, _)
TopDown(app, s, rs, parents) ==
    IF rs = <<>> THEN s
    ELSE LET r    == Head(rs)
             here == Inherit(app, [s EXCEPT !.visited = @ \union {r}], r, parents)
         IN  TopDown(app, IF r \in s.visited THEN s
                          ELSE TopDown(app, here, here.metas[r].children, Passed(parents, here.metas[r].own)),
                     Tail(rs), parents)

(* accumulateAspectsBottomUp: a module after its children; what it has from *)
(* them only is normalised for it too.                                      *)
Accumulate(app, s, r) ==
    LET all  == s.metas[r].all \union UNION {s.metas[c].all : c \in ToSet(s.metas[r].children)}
        lack == {a \in all \ s.metas[r].own : s.metas[r].params[a] = Unset}
    IN  [s EXCEPT !.metas[r].all = all,
                  !.metas[r].params = [a \in Aspects |-> IF a \in lack THEN ParamsOf(app, s, r, a) ELSE @[a]]]

RECURSIVE BottomUp(_, _, _)
BottomUp(app, s, rs) ==
    IF rs = <<>> THEN s
    ELSE LET r     == Head(rs)
             below == BottomUp(app, [s EXCEPT !.visited = @ \union {r}], s.metas[r].children)
         IN  BottomUp(app, IF r \in s.visited THEN s ELSE Accumulate(app, below, r), Tail(rs))
=============================================================================
