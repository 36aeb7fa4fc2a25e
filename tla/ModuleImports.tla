----------------------------- MODULE ModuleImports ---------------------------
(***************************************************************************)
(* packages/core/src/init: what a module's metadata exports                *)
(* (module-meta-processor.ts) and what the modules that import it get      *)
(* (shallow-modules-importer.ts): pure functions of the modules.           *)
(*                                                                         *)
(* A module is a record                                                    *)
(*   imports, reexports   sequences of modules                             *)
(*   own        its providers, by level: 1 App, 2 Mod, 3 Rou, 4 Req        *)
(*   exports    the tokens it exports                                      *)
(*   resolved   resolvedCollisionsPer<Level>: [level, token, module]       *)
(*   external   isExternal                                                 *)
(*   ext        exported extension providers                               *)
(* An import registry has, by level, the providers imported under a token  *)
(* (entries [key, module, reexporter, providers]) and the multi providers  *)
(* of a module ([key, providers]); a Map is the sequence of its entries.   *)
(***************************************************************************)
EXTENDS Providers

CONSTANT Kind   \* how a provider is defined: "class", "value", "token", ...

App == 1
Levels == 2..4
None == 0
Root == 1

Flatten(ss) == FoldLeft(LAMBDA s, t : s \o t, <<>>, ss)
ByLevel(F(_)) == [l \in 1..4 |-> IF l = App THEN <<>> ELSE F(l)]

-----------------------------------------------------------------------------
(* normalizeExports, exportProviders, assertReexportedModulesAreImported.   *)
Exports(mod, t, l, multi) ==
    LET own == With(mod.own[l], t)
    IN  IF (\E k \in DOMAIN own : own[k].multi) = multi THEN own ELSE <<>>

Exported(mod, multi) ==
    ByLevel(LAMBDA l : Flatten([k \in DOMAIN mod.exports |-> Exports(mod, mod.exports[k], l, multi)]))

NormalizationError(m, mod) ==
    LET local(t) == \E l \in Levels : t \in TokensOf(mod.own[l])
        strange  == {t \in ToSet(mod.exports) : ~local(t)}
    IN  IF \E t \in strange : t \notin TokensOf(mod.own[App]) THEN "UnknownExport"
        ELSE IF strange # {} THEN "ForbiddenAppExport"
        ELSE IF m # Root /\ ~(ToSet(mod.reexports) \subseteq ToSet(mod.imports)) THEN "ReexportFailure"
        ELSE "none"

-----------------------------------------------------------------------------
(* Maps.                                                                    *)
Find(map, key) == {k \in DOMAIN map : map[k].key = key}
Keys(map) == {map[k].key : k \in DOMAIN map}
Entry(map, key) == map[CHOOSE k \in Find(map, key) : TRUE]
MapSet(map, entry) ==
    IF Find(map, entry.key) = {} THEN Append(map, entry)
    ELSE [k \in DOMAIN map |-> IF map[k].key = entry.key THEN entry ELSE map[k]]
MapMerge(base, over) == FoldLeft(MapSet, base, over)

(* getCollisions: equal kinds are compared by what they define, different   *)
(* kinds differ, except for the two kinds of factories.                     *)
\* A mistake: only class providers are compared.
DifferingClasses(p, q) == p.impl # q.impl /\ Kind[p.impl] = "class" /\ Kind[q.impl] = "class"

Differ(p, q) ==
    /\ p.impl # q.impl
    /\ {Kind[p.impl], Kind[q.impl]} # {"functionFactory", "methodFactory"}

(* getLastProviders: the last provider of a token, but all multi providers. *)
\* A mistake: the first one.
FirstProviders(ps) ==
    LET stays(k) == ps[k].multi \/ \A n \in DOMAIN ps : n < k => ps[n].token # ps[k].token
    IN  FoldLeft(LAMBDA kept, k : IF stays(k) THEN Append(kept, ps[k]) ELSE kept, <<>>,
                 [k \in DOMAIN ps |-> k])

LastProviders(ps) ==
    LET stays(k) == ps[k].multi \/ \A n \in DOMAIN ps : n > k => ps[n].token # ps[k].token
    IN  FoldLeft(LAMBDA kept, k : IF stays(k) THEN Append(kept, ps[k]) ELSE kept, <<>>,
                 [k \in DOMAIN ps |-> k])

-----------------------------------------------------------------------------
(* ShallowModulesImporter of module m; lists has the providers each module  *)
(* has by now, s what m has imported so far.                                *)
NothingImported == [single |-> ByLevel(LAMBDA l : <<>>), multi |-> ByLevel(LAMBDA l : <<>>),
                    ext |-> <<>>, err |-> "none"]

Resolutions(mod, l) == {r \in ToSet(mod.resolved) : r.level = l}
ResolvedTokens(mod, l) == {r.token : r \in Resolutions(mod, l)}

\* getResolvedCollisionsPerLevel
ResolveCollision(s, mods, lists, m, l, token) ==
    LET r         == CHOOSE r \in Resolutions(mods[m], l) : r.token = token
        providers == With(LastProviders(lists[r.module][l]), token)
    IN  IF r.module \notin DOMAIN mods THEN [s EXCEPT !.err = "AppCollisionNotFound"]
        ELSE IF providers = <<>> THEN [s EXCEPT !.err = "LevelCollisionNotFound"]
        ELSE [s EXCEPT !.single[l] = MapSet(@, [key |-> token, module |-> r.module,
                                                reexporter |-> None, providers |-> providers])]

\* addProviders, for one provider of module src.
AddProvider(s, mods, lists, m, src, reexporter, l, p) ==
    LET old      == Entry(s.single[l], p.token)
        settled  == TokensOf(lists[m][l]) \union ResolvedTokens(mods[m], l)
        collides == p.token \notin settled /\ \E q \in ToSet(Tail(old.providers)) \union {p} :
                                                  Differ(Head(old.providers), q)
    IN  IF s.err # "none" THEN s
        ELSE IF Find(s.single[l], p.token) = {} \/ old.reexporter = src
             THEN [s EXCEPT !.single[l] = MapSet(@, [key |-> p.token, module |-> src,
                                                     reexporter |-> reexporter, providers |-> <<p>>])]
        ELSE IF collides THEN [s EXCEPT !.err = "ProvidersCollision"]
        ELSE IF p.token \in ResolvedTokens(mods[m], l)
             THEN ResolveCollision(s, mods, lists, m, l, p.token)
        ELSE s

AddProviders(s, mods, lists, m, src, reexporter) ==
    LET single == Exported(mods[src], FALSE)
        multi  == Exported(mods[src], TRUE)
        level(r, l) == FoldLeft(LAMBDA q, p : AddProvider(q, mods, lists, m, src, reexporter, l, p),
                                r, single[l])
        added  == FoldLeft(level, s, <<2, 3, 4>>)
        all    == [added EXCEPT
                     !.multi = [l \in 1..4 |-> IF multi[l] = <<>> THEN @[l]
                                  ELSE MapSet(@[l], [key |-> src, providers |-> multi[l]])],
                     !.ext = IF mods[src].ext = <<>> THEN @
                             ELSE MapSet(@, [key |-> src, providers |-> mods[src].ext])]
        multiTokens(l) == UNION {TokensOf(e.providers) : e \in ToSet(all.multi[l])}
    IN  IF added.err # "none" THEN added
        ELSE IF \E l \in Levels : ResolvedTokens(mods[m], l) \intersect multiTokens(l) # {}
             THEN [all EXCEPT !.err = "LevelMultiProviderCollision"]
        ELSE all

(* importProvidersAndExtensions of each module of srcs: first what it       *)
(* re-exports, then its own.  A module that is being re-exported is not     *)
(* visited again on the way down (unfinishedExportModules).                 *)
RECURSIVE ImportFrom(_, _, _, _, _, _, _)
ImportFrom(s, mods, lists, m, srcs, reexporter, unfinished) ==
    IF srcs = <<>> THEN s
    ELSE LET src == Head(srcs)
         IN  ImportFrom(
               IF src \in unfinished THEN s
               ELSE AddProviders(
                      ImportFrom(s, mods, lists, m, mods[src].reexports, src,
                                 IF reexporter = None THEN {} ELSE unfinished \union {src}),
                      mods, lists, m, src, reexporter),
               mods, lists, m, Tail(srcs), reexporter, unfinished)

ImportAll(mods, lists, m, srcs) ==
    ImportFrom(NothingImported, mods, lists, m, srcs, None, {})

(* exportAppProviders, and importModulesShallow for one module: what it     *)
(* imports overrides what the root exports to every module that is not      *)
(* external.                                                                *)
AppExports(mods, lists) == ImportAll(mods, lists, Root, <<Root>>)

ImportShallow(mods, lists, m) ==
    LET app == AppExports(mods, lists)
        own == ImportAll(mods, lists, m, mods[m].imports)
    IN  IF mods[m].external \/ own.err # "none" THEN own
        ELSE [single |-> [l \in 1..4 |-> MapMerge(app.single[l], own.single[l])],
              multi  |-> [l \in 1..4 |-> MapMerge(app.multi[l], own.multi[l])],
              ext    |-> MapMerge(app.ext, own.ext),
              err    |-> app.err]

(* The order in which scanModule leaves its results in the map: a module    *)
(* after those it imports, unless it is one of those that lead to it.       *)
RECURSIVE Scan(_, _, _, _)
Scan(done, mods, ms, scanning) ==
    IF ms = <<>> THEN done
    ELSE Scan(LET below == Scan(done, mods, mods[Head(ms)].imports, scanning \union {Head(ms)})
              IN  IF Head(ms) \in scanning THEN done
                  ELSE IF Head(ms) \in ToSet(below) THEN below ELSE Append(below, Head(ms)),
              mods, Tail(ms), scanning)

ScanOrder(mods) == Scan(<<>>, mods, <<Root>>, {})
=============================================================================
