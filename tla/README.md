# A verification project for holu

holu is a TypeScript framework for Node.js: a monorepo of packages around `core`
(modules, dependency injection, extensions, initialisation), with `rest` and `trpc`
applications, adapters (`typeorm`, `i18n`, `schedule`, `cors`, ...) and a `cli`. This
directory holds TLA+ models of the parts of it in which order, failure and concurrency
decide what happens, the TLC configurations that check them, and proofs about seven of them.
Paths below are relative to the repository; `packages/` is meant when none is given.

1. [The system](#1-the-system) — inventory: parts, state, interactions, what is hard
2. [The modules](#2-the-modules) — what models what, and how
3. [The runs](#3-the-runs) — what is checked, on what bounds, under what fairness
4. [What the code does not keep](#4-what-the-code-does-not-keep)
5. [The proofs](#5-the-proofs)
6. [What is left out](#6-what-is-left-out)
7. [The plan](#7-the-plan)

## 1. The system

Everything runs on one JavaScript thread: a step is the code between two points at which
the thread is given up (an `await`, a timer, an event, a callback). Interleavings exist
between such steps, between the application and its clients, and between the CLI, the
processes it starts and the file system. What is synchronous is hard for another reason:
long sequences of calls, repeated initialisations, and results that depend on the order
in which modules come.

### Parts that are modelled

**Module registry** (`core/src/init/module-registry.ts`, `mutable-module-registry.ts`,
`module-graph.ts`). State: `moduleGraph` (metadata, import lists, `childrenMap`, string ids,
`scannedModules`, application providers) and `oldGraph`, the copy an open transaction keeps.
Operations: scan from the root, `addImport`, `removeImport`, `startTransaction`, `commit`,
`rollback`. All are synchronous, but they are called by request handlers in any order over
the life of the application. Hard: scans of graphs with cycles and shared modules; several
copies of one fact (ids, children, providers) kept up to date on different paths; an
`addImport` that fails half way. Correct if: what the root reaches is registered, the copies
agree, undo is complete, removal leaves nothing unreachable.

**Initializer and reinitializer** (`core/src/init/app-initializer.ts`, `app-reinitializer.ts`,
`module-injector-store.ts`, `rest/src/init/rest-app-initializer.ts`). State: the injector of
the application, the store of module injectors, the routes mounted in the router of each
generation, the dispatcher requests go through, the list of application providers, the flag
that buffers logs. `reinit()` opens a transaction, merges providers, runs three stages of
extensions with an `await` in each, and commits, or rolls back and initialises the old
imports again. It is called from request handlers, so two calls can overlap. Hard: shared
fields read after an await, failure in every phase and in the roll back itself. Correct if:
requests are always served by one whole generation, failures restore the committed imports.

**Normalisation, importers and aspects** (`core/src/init/module-meta-processor.ts`,
`shallow-modules-importer.ts`, `deep-modules-importer.ts`, `module-aspect-propagator.ts`,
`rest/src/init/rest-shallow-modules-importer.ts`). State: the metadata of each module, which
an initialisation changes and the next one starts from, and the options kept in dynamic
module objects, which several modules share. Operations: normalise, collect exports and
re-exports, find collisions, fetch what imported providers depend on, hand aspects down and
gather them again, add up prefixes and guards. Hard: cycles of imports, the order of modules,
metadata that is read after it was changed. Correct if: each module gets what its imports
offer and no two things under one name unnoticed, and controllers are served where, and
behind what, the imports say.

**Injector and reflector** (`core/src/di/injector.ts`, `path-tracer.ts`, `deps-checker.ts`,
`reflector.ts`, `parent-params.ts`). State: the values that each injector of a hierarchy
keeps. A call is synchronous, but it is a recursion that stores values on its way, also if it
fails later. Hard: circles that only some of the paths meet, visibility, values that must not
be shared between requests; parameters of ancestors that are positions in one list. Correct
if: what can be built is built, of the right things, and nobody holds what is another's.

**Extension manager** (`core/src/extension/`). State: the order of the extensions of each
module, the stack of running `stage1` calls, results per module and for the application,
counters of the modules that are left, the pending list of those who asked for the results
of the application too early. Hard: orders that several packages declare, requests
that wait for each other's groups, completeness of results, being called twice. Correct if:
each runs after those declared before it, who asks gets an answer, complete answers are
complete, nobody is served twice.

**Routes and requests** (`rest/src/extensions/`, `rest/src/services/`,
`rest/src/interceptors/`, the extensions of `cors`, `body-parser`, `session-cookie`). State:
chains of interceptors of each route, the response. Hard: several extensions add to one
chain; user code throws anywhere, before or after it has written; HEAD and OPTIONS are
answered by other code than the route's. Correct if: every request is answered once, guards
come before what they guard, HEAD says what GET would.

**Router** (`rest/src/services/tree.ts`, `router.ts`, `setRoutes` in
`rest/src/extensions/dispatcher.extension.ts`). State: a radix tree per method. Hard:
positions in strings, parameters and catch-alls, children reordered by priority. Correct if:
a path finds the one route it matches, and what is refused does not depend on order.

**tRPC applications** (`trpc/src/`). State: the procedures kept in the context of each module,
the router in the dispatcher of each generation. Operations: preparing the routes of all
controllers, building the router of what the modules return, requests, `reinit()`,
`resetRequestListener()`. Hard: procedures found again under the source text of a method,
inherited controllers, requests under way while everything is replaced. Correct if: a path
is served by the method that was put there, behind its guards, with its arguments.

**Scheduler and lifecycle** (`schedule/src/`, `core/src/init/base-application.ts`,
`rest/src/init/rest-application.ts`). State: declared, mounted and running jobs, delays;
the calls of `close()`, shutdown hooks, server, connections, timer. Hard: signals and calls
of `close()` that run into each other, clients that never hang up, instances that appear
during shutdown, names that are reused while a delay runs. Correct if: hooks run once and in
order, `close()` ends, nothing runs that cannot be found and stopped.

**Data sources** (`typeorm/src/typeorm.extension.ts`, `typeorm.module.ts`,
`data-source-manager.ts`, `retry.ts`). State: the options collected in the root's list, the
data sources, what is injected under their tokens, the manager of each generation. Hard:
connections that fail and are retried while the application starts, is reinitialised or is
closed. Correct if: what the application was started with is destroyed when it is closed, and
attempts end.

**CLI** (`cli/src/runner/process-manager.ts`, `cli/src/commands/start.command.ts`,
`cli/src/assets/asset-watcher.ts`). State: the current child, the promise of the stop under
way, kill timers; the loop over compiler events, the restart timer, the abort; files in two
directories and the events that are still to come. Hard: children that crash, ignore SIGTERM
or are killed while they are being stopped; builds during a restart; Ctrl+C anywhere; files
that change between a copy and a watch. Correct if: nothing is left behind, the last good
build is served, calls end, assets are mirrored.

### How they interact

```
 request handler --addImport/removeImport--> MutableModuleRegistry <--transaction--+
        |                                            | metas, providersPerApp      |
        +------------reinit()----> AppReinitializer --> AppInitializer             |
                                       |                 |                         |
                                       |   ModuleAspects, ModuleImports, DeepImports
                                       |                 | stage1 (ExtensionOrder, ExtensionManager)
                                       +---commit/rollback---------------------------+
                                                         | stage2, stage3 (Injector, Reflector)
 client --request--> dispatcher --> Router <--RestRoutes-+--> mountJobs --> Scheduler
              |                                          +--> DataSources --> databases
              +--> chain of interceptors --> response    +--> TrpcApplication: procedures
 signal --close()--> BaseApplication --> hooks of instances, server, Scheduler, DataSources
 compiler --'compiled'--> StartCommand --> ProcessManager --> child process
 file system --change--> WatchMode (asset watcher) --> file system
```

### Parts that are not modelled

See PROJECT.json `components` for each one with its files, and section 6 for reasons:
the watch compiler, `cli new`, i18n and authjs, openapi, sentry, jwt, sqb, the testing
packages, stubs, examples and documentation.

## 2. The modules

Abstract specifications say what a part promises; the detailed ones are checked against them.

| module | models | composed with |
|---|---|---|
| `Transaction` | promise of the registry: a value under a backup | `IsTransactional` in MutableModuleRegistry; used by AppReinitializer for its imports |
| `ModuleGraph` | the graph, pruning, and the scan as one function | extended by MutableModuleRegistry |
| `MutableModuleRegistry` | every operation of the registry | extends ModuleGraph, implements Transaction |
| `ModuleScan` | the recursion of `scanModule`, call by call | extends AppProviders; its ends compared with ModuleGraph |
| `AppProviders` | `prepareProvidersPerApp` over generations | extends MutableModuleRegistry |
| `ModuleRegistryProof` | proofs about MutableModuleRegistry, AppProviders and ModuleScan | |
| `AppInitializer` | `bootstrapProvidersPerApp`, `bootstrapModulesAndExtensions` | extended by AppReinitializer |
| `AppReinitializer` | `reinit()`, `handleReinitError`, requests, `close()` | extends AppInitializer, uses Transaction |
| `AppReinitializerProof` | proofs about AppReinitializer | |
| `Providers` | what providers need; what can be built where, defined without calls | extended by Injector and ModuleImports |
| `Injector` | `get`, `pull`, the check of dependencies, values kept | extends Providers |
| `ModuleImports` | exports, re-exports, collisions: pure functions | extends Providers |
| `DeepImports` | initialisations, dependencies of imported providers | extends ModuleImports |
| `ModuleAspects` | aspects: scan, propagation down and up | extended by RestModules |
| `RestModules` | prefixes and guards of each module, initialisations | extends ModuleAspects |
| `ExtensionOrder` | the sort of extensions and the search for circles | extended by ExtensionManager |
| `ExtensionManager` | `stage1`, groups, pending list, counters | extends ExtensionOrder |
| `ExtensionManagerProof` | proofs about ExtensionOrder and ExtensionManager | |
| `RestRoutes` | how extensions make handlers and chains of interceptors | extended by RequestPipeline |
| `HttpResponse` | ServerResponse and NullBodyResponse | extended by RequestPipeline |
| `RequestPipeline` | a request and its HEAD twin through the application | extends both |
| `RequestPipelineProof` | proofs about RestRoutes, HttpResponse and RequestPipeline | extended by HeadAndOptionsProof |
| `HeadAndOptionsProof` | proofs that HEAD and OPTIONS follow the other methods | |
| `Router` | `Tree` as functions of a node; registration of routes, requests | |
| `Reflector` | metadata of classes and their ancestors, arguments | given to TrpcApplication by MCTrpcApplication |
| `TrpcApplication` | procedures, routers, requests, `reinit()` | takes what Reflector says of a class as parameters |
| `TrpcApplicationProof` | proofs about TrpcApplication | |
| `Scheduler` | orchestrator and registry of jobs | extended by RestApplication |
| `RestApplication` | start, hooks, `close()`, server and clients | extends Scheduler |
| `DataSources` | TypeormExtension, retries, DataSourceManager | extended by TypeormApplication |
| `TypeormApplication` | an application with data sources | extends RestApplication and DataSources |
| `RestApplicationProof` | proofs about TypeormApplication, RestApplication and Scheduler | |
| `AppSlot` | promise of the process manager: one process per slot | `ImplementsSlot` in StartCommand |
| `ProcessManager` | `start`, `restart`, `stop`, child events | extended by StartCommand |
| `StartCommand` | the watch loop | extends ProcessManager, implements AppSlot |
| `WatchMode` | the asset watcher and its file system; `runWatchMode` with it | extends StartCommand |
| `StartCommandProof` | proofs about ProcessManager, StartCommand and WatchMode | |
| `MC*` | constants for the runs | |

`PROJECT.json`, `map`, gives the lines behind every definition. Operators whose comment
begins with "A mistake" (or "Mistakes") are not part of a specification: each is a plausible
bug in the definition that follows it, and replacing that definition by it must break the
property named in `mutants`.

### Registry

A module reference is a model value; a graph is a record. `imports`, `children`, `ids` and
`app` are the separate structures of the code, so that they can disagree; `app` counts how
often a module's providers are in the list (0, 1, more), because a scan that meets its start
again adds them twice. One operation is one step: nothing in it awaits. `ScanModule` gives the
result of a scan as a closure. `ModuleScan` holds the actual recursion: beside a registry that is
between two operations, a scan that one of them would make is walked through on a graph of its
own, with `scanningModules` and the stack of calls; one step is a turn of a loop or the
return of a call, children come in any order, and an exception ends it. `ScanComputes` compares
its end with `ScanModule`. Module metadata is reduced to imports,
re-exports, "has an id", "declares application providers" and "is malformed" (its
normalisation or validation throws). The mutual dependence of string ids is reduced to
presence: ids are taken to be unique. `baseline` is a history variable.

`AppProviders` adds what each initialisation does to the providers of the application. The
code puts the exported providers in front of `providersPerApp` in the metadata of the root,
which the next initialisation reads again; `rootProviders` is that list, reduced to the
module whose provider of a token comes last (the one the injector uses), and it goes with the
graph into the backup and back. The providers that the framework itself contributes are
left out. `reinit()` is two steps, before and after its awaits, and registry operations
come between.

### Reinitializer

The registry is reduced to the set of optional imports, through the abstract `Transaction`
(whose implementation by the registry is checked and proved). Injectors of the application
are numbered; a module's injector is known by its parent's number, `routes[i]` are the
modules whose routes are in the router of injector `i`. Every `await` of the initialisation
is a point at which another request can run. The local variables of a run are a record
`boot[t]`. `Flaky` modules may throw in every stage; `Colliding` modules make the merge of
providers throw (AppProviders says when that is). `overlap` is chosen once: without it
requests wait for one another. Properties that need this say `~overlap`; the others are
checked in any order of requests. `committed` is a history variable.

### Providers, injectors and imports

A provider is a token and an implementation; the four kinds of providers differ in the
model only where the code treats them differently (aliases, values, factories). What an
implementation needs is a constant (`Deps`), with the marks a dependency may have: optional,
`skipSelf`, `fromSelf`, data. `Injector` has one step per call of `get()` or `pull()`; the call
is a recursion over a record of registries, instances and the path of the search, in
the order of the code, so that what a failing call leaves behind is left behind. `Providers`
says, without that recursion, what can be built where: `GetsWhatCanBeBuilt` compares the two.

`ModuleImports` are the pure functions that find the exports, re-exports and collisions;
`DeepImports` is an initialisation, module after module, that changes the lists of the
modules themselves, and the next one that starts from them. A Map is the sequence of its
entries, because its order decides. Levels are numbers; the injectors of the levels are a
layout of `Providers`, which is how `ImportsAreWired` can ask what the imported providers are
really made of.

### Aspects

An application is a record of classes and references; several dynamic modules may be of
one class. `ModuleAspects` scans and propagates in the order of the code, with the options
that are kept in the dynamic module object (`shared`), which is constant over the starts of a
process. `RestModules` walks the imports from the root and keeps, for each module, prefix and
guards (`served`). Paths are sequences of segments, guards are names.

### Extensions

`ExtensionOrder` has the two searches of the code, the depth-first sort and the search for
circles, step by step: `dfs` and `dfsWithPath` are one step each (a class is entered or left),
`sorting` and `searching` repeat them, and `path` has the classes whose call is under way. A Set
or a Map is iterated in the order of insertion; the model finds its next member by the least place
among configurations that has put it there (`FirstOf`, `FirstNeighbor`). Each class is entered
and left once, so twice their number of steps is enough, which is proved. `ImportExtensions` does
so for all modules, by a table of the results (`Sorted`). From there one step is one run of `stage1` between two awaits: the code calls
extensions one after the other, so there is a stack, not a set, of calls. Which classes each
module knows is chosen at the start in every possible way (`has`); configurations and
requests come from `Setup`. Results are pairs of module and class: the payload is never
inspected. The members of a group that are still
to run are a set, from which the next one in the order of the entries is taken. `resolved` stands for the promises; a request for a promise that cannot be
resolved is a state from which nothing goes on.

### Requests

`RestRoutes` runs the extensions of each module in any order that their declarations allow
and makes of every route a handler: a chain of named interceptors, the guards, the scope. The
routes of a module are registered in one step; if several of them are refused, which reason is
met first is left open.
`RequestPipeline` sends one request at a time down the chain and up again; each `await` is a
step. What user code does is a script, chosen with the request: what the guard returns, where
an interceptor or the controller writes or throws, and the status that its errors carry: none,
or one from 400 to 599, as `err.info.status` and `err.status` in `DefaultHttpErrorHandler`
(`StatusOf`); errors of the pipeline itself are answered with 500. `HttpResponse` keeps status, headers that
matter, what is on the wire and whether the response has ended, for the response of Node
(external) and for the wrapper that HEAD requests get. After a GET the same request is made
as HEAD with the same script.

### Router

Paths are sequences of characters over a small alphabet, with `/`, `:` and `*`; nodes are
records with the fields of the code, and insertion splits keys, raises priorities, swaps
children and index characters as it does. The tree is recursive data, so the operators are
RECURSIVE and the module is for TLC only. What a path means (`MatchesOf`, `Compatible`,
`ValidPath`) is stated without the tree.

### tRPC

`Reflector` collects the decorators of a class and its ancestors, and flattens the arguments
that stand for a parent's into one list, as positions; arguments are names. Its functions
are tables that are computed once per application. `TrpcApplication` prepares every route (a
call of the method that returns a procedure), keeps the procedures under the texts of the
methods, builds the router of what the modules return and serves one request; `reinit()`
may replace everything while that request is under way. A router that is not set yet ends
the process at the next request, as the exception in the callback of the server does.
What it needs to know of a class (its methods with metadata, their decorators, what they depend
on, whether the injector can resolve them) are operators among its constants. The run gives them
the definitions of `Reflector`; the proofs hold for any.

### Scheduler, lifecycle and data sources

A job is its object; its `key` is its kind and name. `ticking` are the jobs whose callback
will be called, whether or not the registry knows them; `ghosts` records those that a delay
started after their registration was gone. `close()` is modelled in its turns: collecting
instances, hooks of a series settling one by one, closing the server, the timer, the second
series. A second signal comes before or after the listeners are removed, and kills the
process in the second case. Connections are idle or busy and end when the client likes,
or when the server closes them.

`DataSources` is the extension that opens what the list of options asks for, one after the
other, each with its retries. Data sources are numbered by generation; TypeORM's
`initialize()` and `destroy()` take their time and succeed or fail. In `TypeormApplication`
the manager of a generation is a service with a hook.

### CLI

One step is one turn: the synchronous part of a call, the continuation of an await, an
event, a timer. A child is running, dead with its exit event still to come, or gone; it
crashes at any time, with a code or by a signal, and may ignore SIGTERM but not SIGKILL.
`overlap`, chosen once, says whether builds and Ctrl+C come while a call is pending.

The file system of `WatchMode` changes between any two calls of the watcher; contents are
numbers. `fs.watch` reports a change at some time after it, once or several times;
`missed` are the files that changed where nothing was watching. Watcher and command share the thread, and the finally block closes both.

## 3. The runs

Eleven runs must pass; one must find a violation, of a property that a test of the
repository states (section 4).

| run | cfg | what varies | distinct states |
|---|---|---|---|
| `registry` | `MCModuleRegistry` | every sequence of operations on five modules | 167 252 |
| `reinit` | `AppReinitializer` | two calls, failures, changes of imports | 1 831 888 |
| `extensions` | `MCExtensionManager` | eight declarations, every distribution over three modules | 663 903 |
| `shutdown` | `MCTypeormApplication` | signals, clients, jobs, services or data sources | 379 076 |
| `router` | `MCRouter` | up to five of 24 routes in any order | 6 615 |
| `start_command` | `WatchMode` | builds, crashes, Ctrl+C, changes of a file | 95 140 |
| `requests` | `MCRequestPipeline` | applications of two routes, 35 scripts | 653 304 |
| `injector` | `MCInjector` | 120 layouts, every sequence of calls | 4 618 |
| `imports` | `MCDeepImports` | variants of four modules, two initialisations | 11 022 |
| `aspects` | `MCRestModules` | variants of nine modules, two starts | 18 100 |
| `trpc` | `MCTrpcApplication` | 45 applications, `reinit()` between five of them | 46 725 |
| `reinit_at_rest` | `AppReinitializerAtRest` | overlapping calls (violation) | |

**registry**. Five modules: the root imports `a`; `b` and `c` import each other, `b`
re-exports `c`; `d` is malformed. Requests bring in a cycle, share a module between two
importers, break a cycle, fail deep inside an open transaction, and are made by reference or
by id. The bound is the set of modules: imports are a finite set, so operations are not
bounded. Three tokens: one of `b` and `c`, unresolved; one of `a` and `c` resolved to `a` (so
that removing `a` makes the merge throw); one that the root has too. Shows `DerivedInStep`
(copies agree), `ScanComputes`, `RemovalLeavesNoOrphan`, `AddFailsForCause` (an addition
fails only for a malformed module or for a pruned module that is still marked as scanned),
`IsTransactional` and `NoTakeover` (a token does not change hands while its provider stays).

**reinit**. Two calls, overlapping or not, between arbitrary changes of imports; one permanent
module, one colliding and one flaky. A call
initialises at most twice (once, and once more for the roll back), each creating at most two
injectors, so that with the first one nine are enough for two calls: the bound is never what
stops a behaviour. Calls are not reused, a third concurrent call is not checked. Deadlock
checking stays on: `close()` and changes of imports aside, the system never gets stuck in an
initialisation. Shows `BaseIsRouted`, `StagesFindInjectors`, `EndsInService`,
`FailureRestores`.

**extensions**. Four classes in three modules in every distribution; eight declarations: as the
packages declare it, in another order, one that runs an asker too early, one in which a class
asks for the results of two others for the application, two in which an extension asks for a
group it belongs to or comes to, and two circles. Three modules are what
it takes to have a first, a middle and a last one; dispatcher may throw. Shows
`OrderIsDeclared` (an extension that is in no group runs in a module only after all that are
declared before it, whatever is asked for meanwhile), `AskersAreServed`,
`ServedInFullAndOnce`, and `RequestsEnd`: nothing waits for ever. (An extension that waits for a
second class is run again, and asks for the first one again: "once" is said of those that ask
for one class only.)

**shutdown**. Two scenes, chosen at the start. Without typeorm: two cron jobs of one name, one
of them declared and delayed, an interval and a timeout; two services, one held under two
tokens; two calls of `close()` or signals; one client. Two calls are what it takes to run
into each other; a third finds `isShuttingDown` as the second does. With typeorm: one call of
`close()`, lists of options with equal and different names, one retry, three generations;
a third generation is what it takes for the list to have been doubled before it is doubled
again. Shows `JobsRunWhileRegistered`, `ShutdownInOrder`, `StartedWithIsDestroyed` and
`CallsEnd` (of `close()` and of initialisations).

**router**. Every sequence of up to five of 24 paths over two letters, the five malformed ones
included, and every requested path of up to five characters. Five routes are enough to split
a key twice and to reorder three children; the nodes depend on first characters and on
equality only. Shows `FindIsMatching` and `RefusesConflictsOnly`.

**start_command**. Three builds and three processes, good or failing builds, crashes and Ctrl+C
at any moment, the `stop` of the finally block and two restarts that can be pending at
once. Three builds are what it takes for one to arrive during the restart that the second has
caused. One asset that changes three times: once before it is watched, once to be handled
late, once more while that is handled. `BuildsBesideAssets` bounds the product: where
there is an asset watcher there is one build (the two share a thread and the end of the
loop, nothing else). Shows `NoOrphan`,
`LatestBuildIsServed`, `CallsEndIfNoticed`, `AssetsAreMirrored` and, for calls that do not
overlap, `ImplementsSlot`.

**requests**. Applications of two modules with one route each, of several methods and scopes,
guards at two levels, CORS in either module or both, sessions and the body parser, and routes
that must not start; 35 scripts, where errors of guards, interceptors, controllers and parsers
have no status, one below 500 or one above. Two modules are what it takes for CORS to be late in
one of them. `RequestsAreAnswered` says which status tells of an error: the one the error has,
whoever threw it, or 500. It does not say that a logged error is a 5xx, which would be
false (`default-http-error-handler.spec.ts` has a 413 and a 409). Shows `RequestsAreAnswered`, `GuardsComeFirst`, `HeadAndOptionsFollow`, `EquippedOnce`.

**injector**. An application, a module and two request injectors; lists of up to three
providers with circles, optional and self-skipping dependencies, providers that are out of
reach, factories that throw, aliases, multi providers, undefined values and data. `MaxDepth`
= 12 stands for the call stack: it is more than the number of tokens times that of
injectors on a path that is no circle, and is reached where the code overflows the stack
(section 4). Shows `GetsWhatCanBeBuilt`, `CheckedMeansBuilt`, `InstancesAreSound`.

**imports**. A root and modules A, B, C in variants that chain dependencies over three modules,
collide, resolve, re-export, import in cycles and export extensions; modules that cannot be
normalised. Two initialisations: the second one meets what the first one left. Shows
`ImportsAreWired`, `CollisionsFound`, `WiringIsStable`.

**aspects**. Nine references, static, dynamic and appended, of modules with two aspects, one of
which gives its host options; two starts in one process, because the second meets the shared
options. Shows `ServedAsDeclared`, `AspectsAreInherited`.

**trpc**. Ten controllers, four of which inherit (through one or two levels, with and without a
constructor), alone, with equal method texts, or beside another module, with the module below
imported not at all, once or twice; guards `g`, `h` and an interceptor `i` with seven scripts.
`reinit()` reaches five of the applications (`Reached`): those that differ in what a request
under way could notice. Shows `PathsServeTheirMethods`, `ResolverIsGuarded`,
`HandlersGetTheirParams`.

`CHECK_DEADLOCK FALSE` is used, in all runs but `registry` and the two of the reinitializer,
where the system comes to rest by itself: `stage1` is over (or waits for a circle, which is
what `RequestsEnd` is about), the process of the application or of the command has ended,
the application has failed to start, the bound on routes, processes or initialisations is
reached.

### Fairness

* ExtensionManager: `WF` of `Next`. The promises of the extensions settle; the code has no
  other source of progress.
* RequestPipeline: `WF` of the steps of a request. User code settles; clients need not ask.
* DeepImports: `WF` of `Next`: all of it is synchronous.
* TypeormApplication: `WF` of each `close()`, of the timer, of an initialisation and of
  `destroy()`. Hooks settle, the event loop calls timers, the driver answers in the end.
  Clients, signals, jobs are not fair: they may never move. `CallsEnd` holds because the
  timer closes the connections, where the server can (`forcible`), and because retries are
  counted.
* WatchMode: `WF` of continuations, timers, exit events, of the death of a child that was
  sent SIGKILL, and of the turns of the watcher. Builds, signals, crashes and changes of files
  need not come.
* MutableModuleRegistry, AppProviders, AppReinitializer, Router, Injector, RestModules,
  TrpcApplication: none, they have no liveness properties (requests never have to come).

## 4. What the code does not keep

One of these has a run that ends in a violation, with a trace of real steps; the others are
kept out of the properties by a condition that the comment of the property names, or were met
while the code was read. None of them is a guess about intent: where a document or a comment
says otherwise it is named.

**Run `reinit_at_rest`: overlapping `reinit()` calls can lose every route**
(`BaseIsRoutedAtRest`). The first returns the field `injectorPerApp`, by then that of the
second, whose router is still empty, and commits, so that the second has nothing to roll
back to.

Registry and initialisation:

* `core/src/init/module-graph.ts:156`: pruned modules stay in `scannedModules`; when their
  importer is imported again they are skipped, have no metadata, and `addImport` fails.
* `core/src/init/app-initializer.ts:83,92`: tokens in the root's list are exempt from the check
  for collisions, and each initialisation leaves the exported ones in it. Two modules imported
  one `reinit()` after the other may provide one token unnoticed, which is an error when they
  are there at the start; the provider of a removed module stays in the list.
* `core/src/init/base-application.ts:151`: `close()` looks for instances in the injector that the
  application was started with; those of a later generation get no shutdown hook.
* `core/src/init/deep-modules-importer.ts:79-81` puts imported providers into the module's own
  metadata, so that multi providers are doubled by each `reinit()`; the comment at
  `base-app-options.ts:50` says that the metadata are cloned.

Importers:

* Dependencies that are fetched again keep their original level. Two imports whose private
  dependencies have one token share one provider silently, and the importer's own one hides
  both. A provider that skips itself for its own token is taken for a circle of imports.
* Later initialisations do not look for collisions at the level of modules, and what was
  imported from a removed module stays. A circle of tokens that imports hid is found only then.
* An application-level provider is preferred to what a module that has not been processed
  yet (a cycle) imports, and changes hands at the next initialisation.
* `fetchImportedDeps` looks at single providers only; a dependency on a multi provider may be
  both imported and fetched. The tokens of extensions are empty for the first module and stale
  later. A factory method and a factory function of one token do not collide; a module that
  exports a token it declares twice collides with itself; overriding holds for direct
  re-exports only.

Aspects:

* The options of an import are kept in the dynamic module object: a second application of a
  process has its guards twice, and they count only if the importing module is scanned before
  any other importer. A plain dynamic module first reached through a module without the aspect
  loses its options (`website/docs/.../02-module-aspects.md`, items 2 and 3).
* A module inherits the aspects of the first parent that is visited; the last import path wins;
  guards of the path are dropped at a static import, where the prefix is kept; a wrapper's
  guards are ignored when the dynamic module has a path of its own.

Extensions:

* `core/src/init/shallow-modules-importer.ts:316`: only configurations with `beforeExtensions`
  are searched for circles. A circle of `afterExtensions`, which `findCycle` would find
  (`tarjan-graph.spec.ts`), is sorted as it happens to be visited; `03-extensions.md` promises
  an error.
* `core/src/extension/extension-manager.ts:75`: a member of a group runs at the turn of the
  extension that asked for the group. If it then asks for an extension that is declared before
  it but comes after that turn, it is told that this extension is "not declared in
  afterExtensions", although it is.

Injector and reflector:

* A circle through a class that injects `Injector`, that skips itself for its own token, or that
  passes data overflows the stack instead of throwing `CyclicDependency`. The check of
  dependencies and `get` differ where data is passed; visibility is ignored there.
* Below a class without a constructor that extends one with `ParentParams`, the arguments are
  nested once more: the grandparent's constructor gets an array as its first argument
  (`01-dependency-injection.md` shows the placeholder as "an array of arguments").
* `getDependencies` reads `paramChain`; `removeOverridenParams` (`reflector.ts:376-400`), with
  its test, clears `params`, which nobody else reads. An override without decorators is given
  the parent's dependencies. `ParentParams` in a method is flattened.
* `getFactoryKey` looks at own methods only: inherited factory methods and tRPC routes fail
  with `FactoryNotFound`.

Requests:

* A controller that writes and then throws leaves the response open. An interceptor that throws
  after `cors()` has answered a preflight request (its own `next` has returned): the error is
  logged, the client has 204. A body is parsed twice for
  a route of POST and PUT, and never for one of ALL. CORS and an ALL route, or an OPTIONS route
  in another module, do not start. A replaced `HttpFrontend` is ignored by route-scoped handlers
  without interceptors (`02-http-interceptors.md:43,52`).
* HEAD: a redirect loses its Location if no header was set; `ctx.sendJson()` logs two errors; the
  cookie of a session is never set. After `setMaxAge(0)` the id of a session is read from the
  request's cookie again (`session-cookie.ts:49`).

tRPC:

* After a `reinit()` the dispatcher has no listener until `resetRequestListener()` is called;
  the next request throws in the callback of the server and ends the process.
* Methods with equal source text in one module: the one prepared later serves both. A
  configuration that names another module's method is silently absent. The root's own
  controllers are never in the router, and equal keys of two imports of the root make tRPC throw.
  Of several `@trpcRoute` the one on top counts; an override with parameter decorators only
  drops the route. A cycle of modules in `getRouterConfig()` recurses without end.
* The `guards` of dynamic options are never read. In procedure mode an interceptor that does not
  call the next one does not stop the resolver.

typeorm:

* `close()` asks the first generation's manager only: data sources opened by a `reinit()` are
  never closed, nor those that open late, by user code or a retry.
* Each initialisation puts the options into the list once more: from the second generation on
  names are opened twice, and the earlier data source of a name is forgotten, as is the first of
  two options with one name.
* The extension updates the first provider of a token, the injector uses the last: after a
  `reinit()` with a replaced module the old data source is injected.

CLI:

* `cli/src/runner/process-manager.ts:91`: a child that was ended by a signal has a null
  `exitCode`; `stop()` takes it for running and waits for an exit event that has already been.
  Line 83: overlapping restarts share one stop, go on in the same turn and spawn two processes.
* A file that was removed while nothing watched stays in the output; a change between the
  copy of a file and the watch is missed; if `fs.watch` throws nothing is mirrored, which is only
  logged.

## 5. The proofs

Checked by TLAPS for every value of the constants that satisfies the named assumptions.

**ModuleRegistryProof** (from `ModuleAssumption`, `RequestsAssumption`, `NoGraphAssumption`).
The inductive invariant says that `graph`, `baseline` and, if there is one, `oldGraph` are
each `Good`, and that an open transaction's backup is `baseline`. Good is more than the
invariants of the run in one place: it must hold of the backup too, since a roll back makes
it current. It is `Sound` (typed, import lists within child lists, providers and ids
agreeing with the metadata), which a scan keeps even when it will be found invalid, and
`Covered` (what the root reaches is registered), which is what `Valid` decides. Lemmas about
`Closure` (least, closed, monotone) carry the argument; a scan is the function `ScanModule` here.

* `DerivedStateAgrees` and `RegistryIsTransactional` state properties of the run; the last one that
  the registry implements `Transaction` (initial states map to initial states, each step to a step
  or a stutter).
* `TypeCorrect`, `ReachableAlwaysRegistered`, `UndoIsComplete`: for every graph; the run does not
  repeat them.

The second half is about AppProviders, whose steps are steps of the registry or leave it alone, so
that `DerivedInApplication`, `RemovalPrunes` and `ApplicationIsTransactional` follow from the same
invariant. `AddFailsForCause` needs two more parts of `Good`: what a registered module's child
list names is registered or marked as scanned (`Seen`), and nothing registered is malformed
(`Meaningful`). Then a scan that is found invalid has met a malformed module, or one that is
marked and has no metadata, which only pruning leaves: `AdditionFailsForCause`. `NoTakeover` says
that a token keeps its provider while the module stays. It rests on a chain of lists, each kept
in the next one (`KeptIn`): what the root itself declares, the list in the root's metadata of the
backup, the current one, what the injector was made of. A new injector differs from the old one in
a token only if the old provider's module is gone or had no right to it (`Entitled`,
`MergedIsLoyal`): `TokensStay`.

The last section closes the gap between a scan as one function and the recursion of the code.
`Walk` says of the calls under way, with the modules `fin` already scanned and `sc` being scanned:
each call but the first is for another module of `sc`; every child of a module that is done has
been met, and every child of a call is still to come or has been met; nothing met is malformed; and the start
is met again only if something visited imports it. `Partly` says what has been made of the graph: the
modules of `fin` are stored, the children of those that are met are entered. When the first call
returns, `sc` is empty and `fin` with the start is closed, so it is all that `ScanSet` names, as
that is the least closed set (`WalkEnds`); the start has been stored twice exactly if it has been met
again (`StoredIsScanned`): `ScanAlwaysComputes`, for any number of modules and any imports.

**AppReinitializerProof** (from `InitializerAssumption`, `ReinitializerAssumption`), for any
sets of modules and any number of calls. The invariant: types; the backup of an open
transaction is `committed` (`BackupIsCommit`); no injector number is ahead of `made`, routes of
injectors not made yet are empty, and each run's locals fit its stage (`InjectorsFit`); logs
are buffered only in a call; and where requests wait for one another, at most one run is
under way (`OneAtATime`) and it has come as far as its stage says with one injector, the
latest (`InStep`). The last one is needed because `Return` reads the field `injectorPerApp`:
that it is the injector of this very run is true only then, and is what overlapping breaks.

* In any order of requests: `StagesAlwaysFindInjectors`, `FailureIsUndone`, and, beyond the run,
  `ReinitTypeCorrect`, `BufferIsFlushed` and `KeepsToTransaction`: each step changes `imports` and
  `backup` as `Transaction` does, or leaves both alone, also where a roll back of `reinit()` or of its
  first catch block writes them directly. (Only of the steps: here the imports are loaded from
  the start.)
* Where requests wait for one another: `ServiceGoesOn` (`BaseIsRouted` and `FailureCanRollBack`)
  and `CallsEndInService`.

**RestApplicationProof** (from `SchedulerAssumption`, `ApplicationAssumption` and
`ManagerAssumption`), about TypeormApplication, thus with and without data sources, for any
numbers of jobs, services, connections, data sources and calls of `close()`. Two invariants,
proved for the steps of RestApplication; a step of TypeormApplication is one of these or a frame
that leaves alone what they speak of. `JobsInv` adds to the property that once the application
is being closed no delay runs and the start is over: otherwise a delay that fires, or jobs that
are mounted, could bring back what the scheduler's hook has stopped. `CloseInv` says that
nothing has happened before the flag is set (`NotYet`), that one call at most is past it
(`OneCloses`), and what its place says of server and hooks (`StageFits`); counts of `onShutdown`
and `beforeShutdown` are then equal because both series go over the same list of instances.

A third pair is about data sources. `DataInv` says which of them the first generation has
provided so far: the last one of each name among the options gone over (`ProvidedUpTo`), whatever
later generations do with the same list; `ManagerInv` that the manager of the first generation,
which `close()` asks, still holds those, and that once its hook has run none of them is open but
those that opened only after it (`late`).

* `JobsStop`: `JobsRunWhileRegistered`. `CloseInOrder`: `ShutdownInOrder`. `SourcesAreDestroyed`:
  `StartedWithIsDestroyed`.

**StartCommandProof** (from the assumptions of ProcessManager and StartCommand), about WatchMode, whose steps
are steps of the command or leave its processes alone; for any number of builds, processes and
calls. Types are not inductive alone: that a process number is never exceeded needs `Budget`,
which counts the restarts under way together with the processes spawned. `ChildrenAreHandled`
says that a process which runs has its exit handlers registered or has been signalled; `SlotInv`
that where calls do not overlap at most one is pending, and which process can be there meanwhile.

* `CommandTypes`; `NothingIsLeftBehind`: `NoOrphan`; `CommandImplementsSlot`: `ImplementsSlot`, that
  each step of the command maps to a step of `AppSlot` or a stutter, under the mapping that the
  property uses (what runs, and who has asked).

**ExtensionManagerProof** (from `ExtensionAssumption`), for any extensions, groups,
configurations, requests and number of modules. What is hard is that an answer "for the whole
application" is decided by counters. `Counted` says what they count: the modules still to come that
know the class (`Later`). `Progress` and `Frames` say what the stack can look like: below is the
entry whose turn it is, above it requests; members of a group that have run are in `inited`.
`Answers` says that each class which asks is `Satisfied`, is being run or is waiting in the
pending list; it follows at the end, when nobody is running and the list is empty, that all are
served. `Collected` and `Complete` say that an answer without delay contains the results of all
modules that know the class: the counter is zero only after all others (`KnownToBeComplete`). `Once`
says that what has been answered in full is not asked for again by one that only asks for that.

The order that the importers make is proved from the two searches on, for any graph. What a step
repeated from a first state does is a function of all numbers (`Iterates`, by the least number
where there is none), so the recursive functions are what their equations say (`SortRuns`,
`SearchRuns`), and an invariant of the steps holds of all of them (`SortStays`, `SearchStays`).
`PathFits` says that the classes under way lead to one another, each is under way once, and every
step so far has entered or left a class, so that after twice as many steps as there are classes all
have been visited and left (`AllVisited`). `SortFits`: a class that is left comes after
all that it leads to, except for those that lead back to it, which are still under way
(`Sorts`). `SearchFits`: as long as nothing was found, what has been left leads only to what has
been left and never back. `SortIsComplete` and `CirclesAreFound` follow: the sort has each class
once and in the order of the edges outside circles, and the search finds a circle just where there
is one. On the side of the manager, `Ordered` says that the members in the call of an entry are of its
group (`InGroup`), that a module that is refused keeps everything from starting (`Refusals`), and that
the order has been kept so far (`InOrder`): an extension without a group runs in the call of its own
entry, before which `Progress` has all earlier entries done, whatever was asked for meanwhile.

* `AskersServed`: `AskersAreServed`. `ServedInFull`: `ServedInFullAndOnce`.
* `OrderAlwaysDeclared`: `OrderIsDeclared`.

**RequestPipelineProof** (from `MethodAssumption`, `AppsAssumption` and `ScriptAssumption`), for any
number of modules, routes, guards, interceptors and scripts. The invariant has two halves. While
the application starts: `Turns` (which extensions have run in which module, and that CORS is
pending or done if a module before wanted it), `Metas` (a route is what its module declares, with
one body parser for each method that has a body once that extension has run, and with one CORS
interceptor once that has), and `Routed` (a registered handler has a chain of front end, guards if
there are any, interceptors and back end; that routes with a method twice are refused is why one
method means one parser). For a request: `InChain` (as many guards have passed and bodies been
read as the place in the chain says) and `Respond` (what is known of the response on the way
down, on the way up, when something was thrown, and at the end). `Respond` distinguishes what
user code has written by hand from what the pipeline writes, as the property does: only of the
latter is the status known. The one that an error is answered with (`FailureStatus`) is stated
of the script and of where the request is; the error handler takes its own from the exception under
way. That they are the same is what `Failed` keeps while something is thrown: the exception is that
of user code unless the front end has found a type without a value (`Typed`). `Scripted` adds that
a chain that cannot be built is never entered.

* `AlwaysAnswered`: `RequestsAreAnswered`. `GuardsAlwaysFirst`: `GuardsComeFirst`.
  `AlwaysEquippedOnce`: `EquippedOnce`.

**HeadAndOptionsProof** (from the same assumptions). `HeadAndOptionsFollow` compares two requests, of
which the second comes after the first is over. So the invariant says of each what it was told as a
function of the handler, the script and the place where the chain first stops (`Told`, at
`FirstStop`), on a response that is as it was made (`Open`): `Course` for the request under way,
on the way down, up and at the end, `Remembered` for GET while HEAD is asked. Both meet the same
handler with the same script, hence stop at the same place; what is left is that an answer written
through `NullBodyResponse` has the status, headers and length of the one it withholds (lemmas
about `Open`, from `OpenHeader` on; by cases of who stops the chain). For OPTIONS, `Listing` says
while the application starts that the declared routes are made, that CorsExtension has made routes
for OPTIONS only where a module has none of its own at a path, that `allow` names every method of
such a path in whatever module and nothing else, and that the router has all of them; `Optioned`
that the handler's answer has that list.

* `HeadAndOptionsAlwaysFollow`: `HeadAndOptionsFollow`.

**TrpcApplicationProof** (from `AppsAssumption`, `MetaAssumption` and `ScriptsAssumption`), for any
modules, controllers, decorators, guards, interceptors, source texts and number of initialisations.
`MetaAssumption` says that decorators belong to the function: a method that a configuration names and
a controller's that is the same function have the same ones. The argument follows a procedure on its
way. In the list of routes the last one of a source text is from the `@trpcRoute` on top (`Ordered`),
so that is what the Context keeps once all routes are prepared (`Prepared`). The router of a module
and its targets are defined side by side by recursion on depth; at each level, what the router has
at a path is what the Context keeps for a target of that path (`Agree`, `LevelAgrees`), hence of the
whole application (`RouterFits`), which the dispatcher in place keeps whatever is initialised later.
Of a request, what is left of its chain and what it has passed are the two parts of the chain of one
such route (`Running`), so one that has run its resolver has passed all guards (`Answered`).

* `PathsAreServed`: `PathsServeTheirMethods`. `ResolversAreGuarded`: `ResolverIsGuarded`.

The proof has shown what the run does not meet: `getModuleTrpcConfigs` keeps the imports by the
method of their class, so of two dynamic modules of one class the last one imported answers, and
where their configurations differ the paths that only the other one has are missing. A target reached through such an import is not `sole`, and of the
others the property speaks; that whatever is served at a path is a target of that path holds
of all.

**Only model-checked.** Liveness (`RequestsEnd`, `CallsEnd`, `LatestBuildIsServed`,
`CallsEndIfNoticed`, `AssetsAreMirrored`), which is out of reach of the prover. What operators
compute that are declared RECURSIVE, which take their modules out of reach: the router
(`FindIsMatching`), the injector (`GetsWhatCanBeBuilt`, `CheckedMeansBuilt`,
`InstancesAreSound`), the reflector (`HandlersGetTheirParams`), importers (`ImportsAreWired`,
`CollisionsFound`, `WiringIsStable`) and aspects (`ServedAsDeclared`, `AspectsAreInherited`). They call
one another in several places and with changing arguments; the sort of extensions, `scanModule` and the
routers of tRPC were restated step by step or by depth, so that an invariant of the steps, or of
the least depth where it fails, proves what they compute. That a set of modules in AppReinitializer
stands for a graph of MutableModuleRegistry is not proved as a composition: both keep to
`Transaction`.

## 6. What is left out

* Registry: the order of aspects. Providers: the framework's own ones; equality of providers
  (two modules that provide the same class do not collide in the code; in `AppProviders`
  different modules provide different things).
* Injector: values set from outside (`setByToken`), ordered multi values, key numbering.
  Reflector: property decorators, how decorators store what they are given, the checks of module
  decorators.
* Normalisation: the checks for modules without metadata, the providers and extensions that
  aspects merge. Aspects: the exports of the root as children. Extensions: `overrideExtension`,
  `exportOnly`, the check of extension providers; an empty `beforeExtensions` is taken for an
  absent one.
* Requests: formats, headers and cookies no answer depends on; the parsers of bodies. Two
  requests at once, because handlers keep nothing between requests. Errors whose status is not
  that of an error (outside 400 to 599), a status that user code sets itself, and error handlers
  other than the default one.
* tRPC: parsers of input, the client, the old error handler that is commented out;
  `resetRequestListener()` in the middle of another initialisation; procedure and injector modes
  mixed on one method; a guard that returns a Response, which its type forbids.
* In `schedule`: the scan of providers for decorators, so that classes declared in two
  modules are not seen. In the lifecycle: a server that does not come to listen.
* typeorm: the static map of entities, tokens, repositories; initialisations that overlap.
* In the CLI: arguments, a start without watching, Windows signals, a child that cannot be
  spawned, `cli new`; and the watch compiler: what it reports is decided by the TypeScript
  compiler, so it appears as the builds that come.
* `i18n`, `authjs`, `openapi`, `openapi-validation`, `sentry`, `jwt`, `sqb`, `rest-diagnostics`:
  lookups, adapters and transformations (of a query, of metadata into a document) without a
  protocol of their own. `testing` and `rest-testing`: subclasses that override providers.
  Stubs, examples, scripts and the website: nothing to model. Together with types, error classes,
  tables (HTTP codes, languages) and log messages, which keep no state, these files are most
  of what the models do not cover.

## 7. The plan

Done: the registry and its transaction, the reinitializer, the providers of the application,
extensions and their order, the injector and the reflector, importers and aspects, the request
pipeline, the router, tRPC, lifecycle, scheduler and data sources, the CLI with its asset
watcher; the proofs about the registry and the providers, the reinitializer, the lifecycle with its
data sources, the extensions and their order, the request pipeline with HEAD and OPTIONS, tRPC and
the start command.

Next, models:

1. *Framework providers in AppProviders*: the defaults that `addDefaultProvidersPerApp` adds each
   time, and equality of providers.
2. *The scan for decorated jobs*: a class in two modules, under Scheduler.
3. *Extensions*: `overrideExtension` and `exportOnly` in ExtensionOrder, stages 2 and 3 in the
   order of stage 1.
4. *Two requests of a tRPC application at once*, with a router that is reset in the middle of an
   initialisation.

Next, proofs: the injector and the router in steps, as the sort of extensions is, and then
`InstancesAreSound` and `FindIsMatching`.
