------------------------------ MODULE DeepImports ----------------------------
(***************************************************************************)
(* How the providers of an application come together each time it is       *)
(* initialised: the modules are normalised once, then collected            *)
(* (collectProvidersShallow of app-initializer.ts), then completed with    *)
(* what the imported providers depend on, one module after the other, in   *)
(* the metadata of the module itself (deep-modules-importer.ts).  An       *)
(* application is a record of its modules and of providersPerApp.          *)
(***************************************************************************)
EXTENDS ModuleImports

CONSTANTS
    Apps,       \* the applications considered
    MaxInit     \* bound: how often an application is initialised

ASSUME AppsAssumption ==
    /\ InjectorId = 1..4 /\ Parent = [i \in 1..4 |-> i - 1]
    /\ \A a \in Apps : \A m \in DOMAIN a.modules : Root \notin ToSet(a.modules[m].imports)
    /\ \A a \in Apps : ToSet(ScanOrder(a.modules)) = DOMAIN a.modules

VARIABLES
    app,        \* one of Apps (constant)
    phase,      \* "scanned", "collecting", "completing", "done" or "failed"
    init,       \* which initialisation this is
    lists,      \* providersPer<Level> of each module
    exts,       \* extensionProviders of each module
    registry,   \* baseImportRegistry of each module
    todo,       \* modules still to be completed
    skip,       \* extensionsTokens
    failure,    \* why the application does not start: [kind, module]
    served      \* the lists that the injectors in use were made of

vars == <<app, phase, init, lists, exts, registry, todo, skip, failure, served>>

Mods == app.modules
NoFailure == [kind |-> "none", module |-> None]

Init ==
    /\ app \in Apps
    /\ phase = "scanned"
    /\ init = 0
    /\ lists = [m \in DOMAIN Mods |-> Mods[m].own]
    /\ exts = [m \in DOMAIN Mods |-> Mods[m].ext]
    /\ registry = [m \in DOMAIN Mods |-> NothingImported]
    /\ todo = <<>>
    /\ skip = {}
    /\ failure = NoFailure
    /\ served = lists

Fail(kind, m) == phase' = "failed" /\ failure' = [kind |-> kind, module |-> m]

-----------------------------------------------------------------------------
(* The scan normalises every module; the first that it cannot is reported.  *)
Normalize ==
    LET err(m) == NormalizationError(m, Mods[m])
    IN  /\ phase = "scanned"
        /\ IF \E m \in DOMAIN Mods : err(m) # "none"
           THEN \E m \in DOMAIN Mods : err(m) # "none" /\ Fail(err(m), m)
           ELSE phase' = "collecting" /\ failure' = NoFailure
        /\ UNCHANGED <<app, init, lists, exts, registry, todo, skip, served>>

(* collectProvidersShallow: nothing is changed when it throws.              *)
Collect ==
    LET own(m) == ImportShallow(Mods, lists, m)
        new    == [m \in DOMAIN Mods |-> own(m)]
    IN  /\ phase = "collecting"
        /\ IF \E m \in DOMAIN Mods : new[m].err # "none"
           THEN /\ \E m \in DOMAIN Mods : new[m].err # "none" /\ Fail(new[m].err, m)
                /\ UNCHANGED <<init, registry, todo>>
           ELSE /\ registry' = new
                /\ todo' = ScanOrder(Mods)
                /\ init' = init + 1
                /\ phase' = "completing"
                /\ UNCHANGED failure
        /\ skip' = {}
        /\ UNCHANGED <<app, lists, exts, served>>

-----------------------------------------------------------------------------
(* DeepModulesImporter.  A search reads the lists of all modules and adds   *)
(* what it finds to target or, for extensions, to the lists of the module   *)
(* `into` themselves.  chain are the providers whose dependencies are being *)
(* searched (dependencyChain), skip the tokens of extensions.               *)
Search(into, sk) == [into |-> into, lists |-> lists, target |-> [l \in 1..4 |-> <<>>],
                     skip |-> sk, chain |-> <<>>, err |-> "none"]
Put(d, l, ps) == IF d.into = None THEN [d EXCEPT !.target[l] = ps \o @]
                 ELSE [d EXCEPT !.lists[d.into][l] = ps \o @]

(* getDependencies: each token once, required unless every mention of it is *)
(* optional; the visibility is not looked at.                               *)
DependenciesOf(d, p) ==
    LET deps  == SelectSeq(Deps[p.impl], LAMBDA e : e.token \notin {InjectorToken} \union d.skip)
        first(k) == \A n \in 1..k - 1 : deps[n].token # deps[k].token
        required(t) == \E n \in DOMAIN deps : deps[n].token = t /\ ~deps[n].optional
    IN  FoldLeft(LAMBDA r, k : IF ~first(k) THEN r
                               ELSE Append(r, [token |-> deps[k].token, required |-> required(deps[k].token)]),
                 <<>>, [k \in DOMAIN deps |-> k])

AppTokens == TokensOf(app.perApp)

(* Where a dependency of a provider of module src may be: in the lists of   *)
(* that module, at the first of the levels that has it, or else, unless the *)
(* application provides it, among what that module imports.                 *)
\* A mistake: what is found is added at the level of the one who asks.
LocalHere(d, src, levels, token) ==
    LET found == SelectSeq(levels, LAMBDA l : With(LastProviders(d.lists[src][l]), token) # <<>>)
    IN  IF found = <<>> THEN <<>>
        ELSE <<[level |-> Head(levels), module |-> src,
                providers |-> With(LastProviders(d.lists[src][Head(found)]), token)]>>

Local(d, src, levels, token) ==
    LET at(l) == With(LastProviders(d.lists[src][l]), token)
        found == SelectSeq(levels, LAMBDA l : at(l) # <<>>)
    IN  IF found = <<>> THEN <<>>
        ELSE <<[level |-> Head(found), module |-> src, providers |-> at(Head(found))]>>

Imported(src, levels, token) ==
    LET found == SelectSeq(levels, LAMBDA l : token \in Keys(registry[src].single[l]))
        entry == Entry(registry[src].single[Head(found)], token)
    IN  IF found = <<>> \/ token \in AppTokens THEN <<>>
        ELSE <<[level |-> Head(found), module |-> entry.module, providers |-> entry.providers]>>

Sources(d, src, levels, token) ==
    Local(d, src, levels, token) \o Imported(src, levels, token)

Needless(dep) == ~dep.required \/ dep.token \in AppTokens

RECURSIVE FetchDeps(_, _, _, _), FetchAgain(_, _, _, _, _)

\* fetchDependenciesAgain, for each of ps.
FetchAgain(d, src, ps, levels, l) ==
    IF ps = <<>> \/ d.err # "none" THEN d
    ELSE LET item == <<src, Head(ps)>>
             put  == Put(d, l, <<Head(ps)>>)
         IN  FetchAgain(
               IF item \in ToSet(d.chain) THEN [put EXCEPT !.err = "CyclicImports"]
               ELSE [FetchDeps([put EXCEPT !.chain = Append(@, item)], src,
                               DependenciesOf(d, Head(ps)), levels) EXCEPT !.chain = d.chain],
               src, Tail(ps), levels, l)

\* fetchDeps, fetchImportedDeps: found locally, or imported, or missing.
FetchDeps(d, src, deps, levels) ==
    IF deps = <<>> \/ d.err # "none" THEN d
    ELSE LET from == Sources(d, src, levels, Head(deps).token)
         IN  FetchDeps(
               IF from # <<>>
               THEN FetchAgain(d, from[1].module, from[1].providers, levels, from[1].level)
               ELSE IF Needless(Head(deps)) THEN d
               ELSE [d EXCEPT !.err = "NoProviderDuringImportResolution"],
               src, Tail(deps), levels)

FetchEach(d, src, ps, levels) ==
    FoldLeft(LAMBDA e, p : FetchDeps(e, src, DependenciesOf(e, p), levels), d, ps)

(* resolveImportedProviders: the levels from the narrowest, single          *)
(* providers before multi ones; each is searched from its own level up.     *)
LevelsFrom(l) == SelectSeq(<<4, 3, 2>>, LAMBDA k : k <= l)
ImportedAt(m, l) ==
    registry[m].single[l]
    \o [k \in DOMAIN registry[m].multi[l] |->
           [module |-> registry[m].multi[l][k].key, providers |-> registry[m].multi[l][k].providers]]

ResolveImported(m) ==
    LET level(d, l) == FoldLeft(LAMBDA e, i : FetchEach(Put(e, l, i.providers), i.module,
                                                        i.providers, LevelsFrom(l)),
                                d, ImportedAt(m, l))
    IN  FoldLeft(level, Search(None, skip), <<4, 3, 2>>)

(* hasUnresolvedDeps: whether the module that imports an extension lacks    *)
(* something the extension depends on: "no", "yes", or an error.            *)
RECURSIVE Unresolved(_, _, _), UnresolvedIn(_, _, _), UnresolvedAny(_, _, _)
UnresolvedAny(d, src, ps) ==
    IF ps = <<>> THEN "no"
    ELSE LET item == <<src, Head(ps)>>
             r    == IF item \in ToSet(d.chain) THEN "CyclicImports"
                     ELSE Unresolved([d EXCEPT !.chain = Append(@, item)], src, DependenciesOf(d, Head(ps)))
         IN  IF r = "no" THEN UnresolvedAny(d, src, Tail(ps)) ELSE r
\* The first source that lacks nothing will do.
UnresolvedIn(d, sources, dep) ==
    IF sources = <<>> THEN IF Needless(dep) THEN "no" ELSE "yes"
    ELSE LET r == UnresolvedAny(d, Head(sources).module, Head(sources).providers)
         IN  IF r = "yes" THEN UnresolvedIn(d, Tail(sources), dep) ELSE r
Unresolved(d, src, deps) ==
    IF deps = <<>> THEN "no"
    ELSE LET r == UnresolvedIn(d, Sources(d, src, <<2>>, Head(deps).token), Head(deps))
         IN  IF r = "no" THEN Unresolved(d, src, Tail(deps)) ELSE r

(* mergeExtensionProviders: the dependencies of imported extensions, those  *)
(* that the module does not meet itself.                                    *)
SkippedTokens(m) == {InputToken} \union UNION {TokensOf(e.providers) : e \in ToSet(registry[m].ext)}
MergeExtensions(m) ==
    LET merge(d, src, p) ==
            LET r == Unresolved(d, m, DependenciesOf(d, p))
            IN  CASE r = "no" -> d
                  [] r = "yes" -> FetchDeps(d, src, DependenciesOf(d, p), <<2>>)
                  [] OTHER -> [d EXCEPT !.err = r]
        entry(d, e) == FoldLeft(LAMBDA f, p : IF f.err = "none" THEN merge(f, e.key, p) ELSE f,
                                d, e.providers)
    IN  FoldLeft(entry, Search(m, SkippedTokens(m)), registry[m].ext)

NewExtensions(m) ==
    FoldLeft(LAMBDA ps, e : SelectSeq(e.providers, LAMBDA p : p.multi \/ p \notin ToSet(ps)) \o ps,
             exts[m], registry[m].ext)

-----------------------------------------------------------------------------
(* One module is completed; its own providers come last in the lists, and   *)
(* so win.  An error ends the initialisation (ProviderImportFailure).       *)
CompleteModule ==
    LET m        == Head(todo)
        imported == ResolveImported(m)
        merged   == MergeExtensions(m)
        err      == IF imported.err # "none" THEN imported.err ELSE merged.err
    IN  /\ phase = "completing"
        /\ skip' = SkippedTokens(m)
        /\ IF err # "none"
           THEN Fail(err, m) /\ UNCHANGED <<lists, exts, todo, served>>
           ELSE /\ lists' = [lists EXCEPT ![m] =
                              [l \in 1..4 |-> imported.target[l] \o merged.lists[m][l]]]
                /\ exts' = [exts EXCEPT ![m] = NewExtensions(m)]
                /\ todo' = Tail(todo)
                /\ phase' = IF Tail(todo) = <<>> THEN "done" ELSE "completing"
                /\ served' = IF Tail(todo) = <<>> THEN lists' ELSE served
                /\ UNCHANGED failure
        /\ UNCHANGED <<app, init, registry>>

(* The application is initialised again with the metadata as it is by now:  *)
(* reinit() clones the graph for a rollback, and goes on with the original. *)
Reinitialize ==
    /\ phase = "done" /\ init < MaxInit
    /\ phase' = "collecting"
    /\ UNCHANGED <<app, init, lists, exts, registry, todo, skip, failure, served>>

Next == Normalize \/ Collect \/ CompleteModule \/ Reinitialize

Spec == Init /\ [][Next]_vars /\ WF_vars(Next)

-----------------------------------------------------------------------------
(* Properties.  The layout of a module is what its injectors are made of.   *)
LayoutOf(ls, m) == <<app.perApp, ls[m][2], ls[m][3], ls[m][4]>>
Layout(m) == LayoutOf(lists, m)

\* <<module, level, token>> for what m imports.
ImportsOf(m) ==
    {<<e.module, l, e.key>> : <<l, e>> \in UNION {{l} \X ToSet(registry[m].single[l]) : l \in Levels}}
    \union UNION {{<<e.key, l, t>> : t \in TokensOf(e.providers)} :
                     <<l, e>> \in UNION {{l} \X ToSet(registry[m].multi[l]) : l \in Levels}}

\* What the token stands for in a layout, asked for at level l: itself and
\* all that it takes to build it.
NodesFor(layout, l, t) == {Node(l, l, t)} \union Below(layout, {Node(l, l, t)})
Wiring(layout, l, t) ==
    {[level |-> n.owner, token |-> n.token, impls |-> ToSet(Impls(layout[n.owner], n.token))] :
        n \in NodesFor(layout, l, t)}
Incomplete(layout, l, t) ==
    {w \in Wiring(layout, l, t) : ~Complete(layout, Node(w.level, w.level, w.token))}

\* Tokens that two providers compete for in some module: its own ones, and
\* what the imported ones take at home; and those a module has at two levels.
Offered(m) ==
    UNION {Wiring(Layout(i[1]), i[2], i[3]) : i \in ImportsOf(m)}
    \union {[level |-> l, token |-> t, impls |-> ToSet(Impls(Mods[m].own[l], t))] :
               <<l, t>> \in UNION {{l} \X TokensOf(Mods[m].own[l]) : l \in Levels}}
LevelsWith(m, t) == {l \in Levels : t \in TokensOf(lists[m][l])}
Contested ==
    LET tokens(m) == UNION {TokensOf(lists[m][l]) : l \in Levels}
        offers(m) == Offered(m)
    IN  UNION {{o.token : o \in {o \in offers(m) : \E q \in offers(m) : q.token = o.token /\ q # o}}
               \union {t \in tokens(m) : Cardinality(LevelsWith(m, t)) > 1} : m \in DOMAIN Mods}

(* An imported provider is built in the module that imports it of the same  *)
(* providers as in the module that declares it, however deep and through    *)
(* however many modules, where no token on the way is contested.            *)
ImportsAreWiredAsAtHome ==
    phase = "done" /\ init = 1 =>
        LET contested == Contested
        IN  \A m \in DOMAIN Mods : \A i \in ImportsOf(m) :
            LET home  == Wiring(Layout(i[1]), i[2], i[3])
                there == Wiring(Layout(m), i[2], i[3])
            IN  {w.token : w \in home \union there} \intersect contested = {} => there = home

(* Whatever is contested, an imported provider that lacks nothing at home   *)
(* lacks nothing where it is imported, at any initialisation, but for what  *)
(* the importing module itself declares.                                    *)
ImportsAreComplete ==
    phase = "done" =>
        \A m \in DOMAIN Mods : \A i \in ImportsOf(m) :
            Incomplete(Layout(i[1]), i[2], i[3]) = {}
            => \A w \in Incomplete(Layout(m), i[2], i[3]) :
                    w.token \in TokensOf(Mods[m].own[w.level])

(* What a module imports works there as it works at home.                   *)
ImportsAreWired == ImportsAreWiredAsAtHome /\ ImportsAreComplete

\* What reaches module m by importing: <<exporter, re-exporter, provider>>.
RECURSIVE Reaching(_, _, _)
Reaching(srcs, reexporter, depth) ==
    IF srcs = <<>> THEN {}
    ELSE {<<Head(srcs), reexporter>>}
         \union Reaching((IF depth = 0 THEN <<>> ELSE Mods[Head(srcs)].reexports), Head(srcs), depth - 1)
         \union Reaching(Tail(srcs), reexporter, depth)
OffersTo(srcs, l) ==
    UNION {{<<s, p>> : p \in ToSet(Exported(Mods[s[1]], FALSE)[l])} :
              s \in Reaching(srcs, None, Len(Mods))}
Clash(m, l, o, q) ==
    /\ o[2].token = q[2].token /\ o[2].impl # q[2].impl
    /\ ~({Kind[o[2].impl], Kind[q[2].impl]} \subseteq {"functionFactory", "methodFactory"})
    /\ o[2].token \notin TokensOf(Mods[m].own[l]) \union ResolvedTokens(Mods[m], l)
Overrides(o, q) == q[1][2] = o[1][1]

(* Two different providers of one token never reach a module unnoticed: it  *)
(* declares the token, resolves the collision, imports the one from a       *)
(* module that re-exports the other, or both are factories; and a collision *)
(* that is reported is one of two different providers.                      *)
CollisionsFound ==
    LET clashes(m, srcs) == {<<l, o, q>> \in UNION {{l} \X OffersTo(srcs, l) \X OffersTo(srcs, l) : l \in Levels} :
                                Clash(m, l, o, q)}
    IN  /\ phase = "completing" /\ init = 1 =>
               \A m \in DOMAIN Mods : \A c \in clashes(m, Mods[m].imports) :
                   Overrides(c[2], c[3]) \/ Overrides(c[3], c[2])
        /\ failure.kind = "ProvidersCollision" =>
               clashes(failure.module, Mods[failure.module].imports) \union clashes(Root, <<Root>>) # {}

(* Providers of a token that, one way or another, takes itself.             *)
AllProviders(m) == UNION {ToSet(lists[m][l]) : l \in Levels} \union ToSet(exts[m])
Circular ==
    LET all       == UNION {AllProviders(m) : m \in DOMAIN Mods}
        tokens    == {p.token : p \in all}
        wanted(p) == {e.token : e \in ToSet(Deps[p.impl])} \intersect tokens
        closure[T \in SUBSET tokens] ==
            LET more == T \union UNION {wanted(p) : p \in {p \in all : p.token \in T}}
            IN  IF more = T THEN T ELSE closure[more]
    IN  \E p \in all : p.token \in closure[wanted(p)]
(* Initialising the application again, with nothing changed, succeeds and   *)
(* leaves every token of every module to the same providers.  A circle of   *)
(* tokens may be found only then, because what was imported from one module *)
(* at first is searched in another one from now on; and a token that the    *)
(* application provides as well may change hands.                           *)
SameWiring(before, after) ==
    \A m \in DOMAIN Mods : \A l \in Levels :
        /\ TokensOf(before[m][l]) = TokensOf(after[m][l])
        /\ \A t \in TokensOf(before[m][l]) : ToSet(Impls(before[m][l], t)) = ToSet(Impls(after[m][l], t))
Overlaid == \E m \in DOMAIN Mods, l \in Levels : AppTokens \intersect TokensOf(Mods[m].own[l]) # {}
WiringIsStable ==
    [][/\ init > 1 \/ (init = 1 /\ phase = "collecting") => phase' # "failed" \/ Circular'
       /\ init > 1 /\ ~Overlaid => SameWiring(served, served')]_vars
=============================================================================
