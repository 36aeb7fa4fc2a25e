--------------------------- MODULE TrpcApplication ---------------------------
(***************************************************************************)
(* packages/trpc: an application whose modules configure a tRPC router.    *)
(* Every initialisation prepares the routes of all controllers: the method *)
(* of the controller is called once and returns a procedure, which is kept *)
(* in the Context of the module under the source text of the method        *)
(* (Context, core/src/ctx/context.ts, is a plain object and a function is  *)
(* no key of one).  The router is made of what the modules return from     *)
(* getRouterConfig(), once by create() and again only if application code  *)
(* calls resetRequestListener().  A request is served by the router of the *)
(* dispatcher in place, whatever is initialised meanwhile.                 *)
(*                                                                         *)
(* An application Apps[a] has modules, under references:                   *)
(*   class        their class, whose prototype has getRouterConfig         *)
(*   imports      what they import, dynamic modules after the static ones  *)
(*   controllers  their controllers                                        *)
(*   perReq       classes whose factories they provide per request         *)
(*   config       what getRouterConfig() returns: at a path, as a sequence *)
(*                of keys, a method of a controller or a module            *)
(* and a root, the imports of the root module.  A method of a controller   *)
(* has as decorators records of guards and interceptors, and also its      *)
(* source text and whether it returns a procedure of its own or one that   *)
(* asks the injector per request for a handler.  What the reflector and    *)
(* the injector say of a class are parameters: Reflector, for the runs.    *)
(***************************************************************************)
EXTENDS Naturals, Sequences, SequencesExt, FiniteSets

CONSTANTS
    Apps,           \* the applications that may be started, by name
    Reached,        \* bound: those of them that reinit() may lead to
    Guards,         \* classes that have canActivate
    Interceptors,   \* classes that have intercept
    Scripts,        \* what guards and interceptors do with a request
    Service,        \* the parameter of type TrpcRouteService
    MaxInit,        \* bound: how many initialisations there are
    \* What the reflector and the injector say of a class, see Reflector:
    methodsOf(_),       \* its methods that have metadata
    decoratorsOf(_, _), \* the decorators of one
    prototypeOf(_, _),  \* Class.prototype.method, a function
    functionOf(_),      \* its source text, and the handler it asks for
    dependsOn(_, _),    \* what the parameters of a method are
    canResolve(_, _),   \* whether [c, c.prototype.m] can be resolved
    perReqOf(_),        \* the classes that a controller provides per request
    factoriesOf(_)      \* the methods of a class that are factories

Mods(a) == Apps[a].mods
Refs(a) == DOMAIN Mods(a)
Root(a) == Apps[a].root

Decorator == [kind : {"route", "factory"}, guards : Seq(STRING), interceptors : Seq(STRING)]

ASSUME AppsAssumption ==
    /\ Reached \subseteq DOMAIN Apps
    /\ \A a \in DOMAIN Apps :
          /\ IsFiniteSet(Refs(a)) /\ Root(a) \in Seq(Refs(a))
          /\ \A r \in Refs(a) :
                /\ Mods(a)[r].imports \in Seq(Refs(a))
                /\ Mods(a)[r].controllers \in Seq(STRING)
                /\ DOMAIN Mods(a)[r].config \subseteq Seq(STRING)

\* The methods with metadata of the controllers of an application.
Marked(a) ==
    UNION {{<<c, m>> : m \in methodsOf(c)} :
              c \in UNION {ToSet(Mods(a)[r].controllers) : r \in Refs(a)}}

\* Metadata belong to the function, whatever class it is reached by.
ASSUME MetaAssumption ==
    \A a \in DOMAIN Apps :
        /\ \A r \in Refs(a) : \A c \in ToSet(Mods(a)[r].controllers) : IsFiniteSet(methodsOf(c))
        /\ \A x \in Marked(a) : decoratorsOf(x[1], x[2]) \in Seq(Decorator)
        /\ \A x \in Marked(a) : \A r \in Refs(a) : \A key \in DOMAIN Mods(a)[r].config :
              LET to == Mods(a)[r].config[key]
              IN  to.kind # "module" /\ prototypeOf(to.class, to.method) = prototypeOf(x[1], x[2])
                  => decoratorsOf(to.class, to.method) = decoratorsOf(x[1], x[2])

ASSUME ScriptsAssumption ==
    \A s \in Scripts : \A x \in Guards \union Interceptors : s[x] \in {"pass", "stop", "throw"}

VARIABLES
    app,        \* the modules as they are configured now
    kept,       \* those of the last initialisation that has succeeded
    init,       \* how many initialisations there were
    phase,      \* what the application does
    todo,       \* the routes that stage3 has yet to prepare
    context,    \* the Context of each module, of this initialisation
    dispatcher, \* the router of AppInitializer.requestDispatcher
    req         \* the request that is being served

vars == <<app, kept, init, phase, todo, context, dispatcher, req>>

NoListener == [set |-> FALSE, of |-> <<>>, router |-> <<>>]

-----------------------------------------------------------------------------
(* TrpcRouteExtension.stage1: for every method of a controller of a module, *)
(* for every trpcRoute() on it, a route.                                    *)
RoutesOfMethod(r, c, m) ==
    LET decorators == decoratorsOf(c, m)
    IN  FlattenSeq([k \in DOMAIN decorators |->
            IF decorators[k].kind = "route"
            THEN <<[ref |-> r, class |-> c, method |-> m, guards |-> decorators[k].guards,
                    interceptors |-> decorators[k].interceptors]>>
            ELSE <<>>])
RoutesIn(r, c) ==
    LET methods == SetToSeq(methodsOf(c))
    IN  FlattenSeq([k \in DOMAIN methods |-> RoutesOfMethod(r, c, methods[k])])
RoutesOfModule(r, controllers) ==
    FlattenSeq([k \in DOMAIN controllers |-> RoutesIn(r, controllers[k])])
Routes(a) ==
    LET refs == SetToSeq(Refs(a))
    IN  FlattenSeq([k \in DOMAIN refs |-> RoutesOfModule(refs[k], Mods(a)[refs[k]].controllers)])

(* ... unless a guard has no canActivate or an interceptor no intercept     *)
(* (normalizeGuards, InvalidInterceptor).                                   *)
Stage1Throws(a) ==
    \E route \in ToSet(Routes(a)) :
       ~(ToSet(route.guards) \subseteq Guards /\ ToSet(route.interceptors) \subseteq Interceptors)

(* setHandlerPerReq of one route calls the method of the controller, which  *)
(* needs the route's service and, for a handler per request, that the       *)
(* controller or its module provides it (getHandler).                       *)
Provided(a, r, c) == perReqOf(c) \union Mods(a)[r].perReq
Tokens(a, r, c) == UNION {{prototypeOf(s, m) : m \in factoriesOf(s)} : s \in Provided(a, r, c)}
CanPrepare(a, route) ==
    LET method == functionOf(prototypeOf(route.class, route.method))
    IN  /\ canResolve(route.class, route.method)
        /\ Service \in dependsOn(route.class, route.method)
        /\ \A s \in Provided(a, route.ref, route.class) :
              factoriesOf(s) # {} /\ \A m \in factoriesOf(s) : canResolve(s, m)
        /\ method.handler # <<>> => method.handler \in Tokens(a, route.ref, route.class)

\* A mistake: a route that answers with a procedure of its own has no chain.
GuardsPerRequestOnly(route) ==
    IF functionOf(prototypeOf(route.class, route.method)).handler = <<>> THEN <<>>
    ELSE [k \in DOMAIN route.guards |-> [kind |-> "guard", of |-> route.guards[k]]]
            \o [k \in DOMAIN route.interceptors |-> [kind |-> "interceptor", of |-> route.interceptors[k]]]

(* The chain of a route: TrpcHttpFrontend, which only passes on, then the   *)
(* guards, then the interceptors of the route, then the backend.            *)
ChainOf(route) ==
    [k \in DOMAIN route.guards |-> [kind |-> "guard", of |-> route.guards[k]]]
       \o [k \in DOMAIN route.interceptors |-> [kind |-> "interceptor", of |-> route.interceptors[k]]]

(* The procedure: its own resolver behind a middleware that runs the chain, *)
(* or a resolver that runs the chain, with the handler at its end.          *)
Procedure(route) ==
    LET f == prototypeOf(route.class, route.method)
    IN  [ref |-> route.ref, method |-> f, chain |-> ChainOf(route),
         runs |-> IF functionOf(f).handler = <<>> THEN f ELSE functionOf(f).handler,
         perReq |-> functionOf(f).handler # <<>>]

Text(c, m) == functionOf(prototypeOf(c, m)).text

-----------------------------------------------------------------------------
(* getModuleTrpcConfigs and transformToTrpcConfig: a module among the       *)
(* imports is found by its getRouterConfig, and the last import of a class  *)
(* counts; a method by its text, in the Context of the module itself.  What *)
(* is not found is undefined, of which tRPC makes an empty router.          *)
Imported(a, r, class) ==
    {k \in DOMAIN Mods(a)[r].imports : Mods(a)[Mods(a)[r].imports[k]].class = class}
LastOf(ks) == CHOOSE k \in ks : \A l \in ks : l <= k

Under(key, router) == [p \in {key \o q : q \in DOMAIN router} |->
                          router[SubSeq(p, Len(key) + 1, Len(p))]]
Union(routers) == [p \in UNION {DOMAIN f : f \in routers} |->
                      (CHOOSE f \in routers : p \in DOMAIN f)[p]]

\* A mistake: the modules of an application share what is found by text.
FoundAnywhere(ctx, r, text) == LET all == Union({ctx[i] : i \in DOMAIN ctx})
                               IN  IF text \in DOMAIN all THEN {all[text]} ELSE {}

(* TrpcInternalService: ctx.get(controllerMethod).                          *)
Found(ctx, r, text) == IF text \in DOMAIN ctx[r] THEN {ctx[r][text]} ELSE {}

\* What one entry of the configuration of a module adds, given the routers of
\* the modules below.
Entry(a, ctx, below, r, key) ==
    LET to == Mods(a)[r].config[key]
        imported == Imported(a, r, to.class)
        found == Found(ctx, r, Text(to.class, to.method))
    IN  IF to.kind # "module" THEN [p \in {key : f \in found} |-> CHOOSE f \in found : TRUE]
        ELSE IF imported = {} THEN <<>>
        ELSE Under(key, below[Mods(a)[r].imports[LastOf(imported)]])
RoutersAbove(a, ctx, below) ==
    [r \in Refs(a) |-> Union({Entry(a, ctx, below, r, key) : key \in DOMAIN Mods(a)[r].config})]
ModuleRouter(a, ctx) ==
    LET routers[d \in 0..Cardinality(Refs(a))] ==
            IF d = 0 THEN [r \in Refs(a) |-> <<>>] ELSE RoutersAbove(a, ctx, routers[d - 1])
    IN  routers[Cardinality(Refs(a))]

(* getRouters and mergeRouters: the routers of what the root imports, which *)
(* tRPC refuses to merge if two have a key.                                 *)
Keys(a, r) == {Head(key) : key \in DOMAIN Mods(a)[r].config}
Mergeable(a) ==
    \A i, j \in DOMAIN Root(a) : i # j => Keys(a, Root(a)[i]) \intersect Keys(a, Root(a)[j]) = {}
AppRouter(a, ctx) == Union({ModuleRouter(a, ctx)[r] : r \in ToSet(Root(a))})

-----------------------------------------------------------------------------
(* bootstrapModulesAndExtensions, of the first or of a later generation:    *)
(* every module gets a Context of its own.                                  *)
NoRequest == [state |-> "none", of |-> NoListener.of, path |-> <<>>, perReq |-> FALSE, rest |-> <<>>,
              script |-> CHOOSE s \in Scripts : TRUE, runs |-> <<>>, passed |-> <<>>, ran |-> <<>>]

Start(a) ==
    /\ init' = init + 1
    /\ app' = a
    /\ context' = [r \in Refs(a) |-> <<>>]
    /\ todo' = Routes(a)
    /\ phase' = "preparing"

Init ==
    /\ app \in DOMAIN Apps
    /\ kept = app
    /\ init = 1
    /\ context = [r \in Refs(app) |-> <<>>]
    /\ todo = Routes(app)
    /\ phase = "preparing"
    /\ dispatcher = NoListener
    /\ req = NoRequest

(* create() ends the process when it fails; AppReinitializer initialises    *)
(* what was before.                                                         *)
Fail ==
    /\ phase = "preparing"
    /\ Stage1Throws(app) \/ (todo # <<>> /\ ~CanPrepare(app, Head(todo)))
    /\ IF init = 1 THEN /\ phase' = "exited"
                        /\ UNCHANGED <<app, init, context, todo>>
                   ELSE Start(kept)
    /\ UNCHANGED <<kept, dispatcher, req>>

(* setHandlerPerReq of the next route of all modules: ctx.set(), under the  *)
(* text of the method.                                                      *)
Kept(ctx, text, procedure) ==
    [x \in DOMAIN ctx \union {text} |-> IF x = text THEN procedure ELSE ctx[x]]

SetHandlerPerReq ==
    /\ phase = "preparing"
    /\ ~Stage1Throws(app)
    /\ todo # <<>>
    /\ CanPrepare(app, Head(todo))
    /\ LET route == Head(todo)
       IN  context' = [context EXCEPT ![route.ref] =
                          Kept(@, Text(route.class, route.method), Procedure(route))]
    /\ todo' = Tail(todo)
    /\ UNCHANGED <<app, kept, init, phase, dispatcher, req>>

(* TrpcAppInitializer.bootstrapModulesAndExtensions ends with the           *)
(* dispatcher of the new injector, which has no listener.                   *)
Bootstrapped ==
    /\ phase = "preparing"
    /\ ~Stage1Throws(app)
    /\ todo = <<>>
    /\ kept' = app
    /\ dispatcher' = NoListener
    /\ phase' = IF init = 1 THEN "created" ELSE "serving"
    /\ UNCHANGED <<app, init, todo, context, req>>

(* resetRequestListener, by create() or by application code.                *)
ResetRequestListener ==
    /\ phase \in {"created", "serving"}
    /\ IF Mergeable(app)
       THEN /\ dispatcher' = [set |-> TRUE, of |-> app, router |-> AppRouter(app, context)]
            /\ phase' = "serving"
       ELSE /\ phase' = IF phase = "created" THEN "exited" ELSE phase
            /\ UNCHANGED dispatcher
    /\ UNCHANGED <<app, kept, init, todo, context, req>>

(* AppReinitializer.reinit(), with other modules or the same.               *)
Reinit ==
    /\ phase = "serving"
    /\ init < MaxInit
    /\ \E a \in Reached : Start(a)
    /\ UNCHANGED <<kept, dispatcher, req>>

-----------------------------------------------------------------------------
(* A request reaches the listener of the server, which asks the dispatcher  *)
(* for its own; if there is none, the exception ends the process.           *)
Serving == phase = "serving" \/ (phase = "preparing" /\ init > 1)
RequestListener(path, script) ==
    /\ Serving
    /\ req.state # "running"
    /\ IF ~dispatcher.set
       THEN /\ phase' = "crashed"
            /\ UNCHANGED req
       ELSE /\ req' = IF path \notin DOMAIN dispatcher.router
                       THEN [NoRequest EXCEPT !.state = "NOT_FOUND", !.path = path, !.of = dispatcher.of]
                       ELSE LET p == dispatcher.router[path]
                            IN  [NoRequest EXCEPT !.state = "running", !.path = path, !.of = dispatcher.of,
                                    !.perReq = p.perReq, !.rest = p.chain, !.runs = p.runs,
                                    !.script = script]
            /\ UNCHANGED phase
    /\ UNCHANGED <<app, kept, init, todo, context, dispatcher>>

Stepping(kind) == Serving /\ req.state = "running" /\ req.rest # <<>> /\ Head(req.rest).kind = kind
Verdict == req.script[Head(req.rest).of]
Onward == [req EXCEPT !.rest = Tail(req.rest)]
Rest == UNCHANGED <<app, kept, init, phase, todo, context, dispatcher>>

(* GuardedInterceptor: a guard that does not return true ends the request   *)
(* with UNAUTHORIZED, in either mode.                                       *)
CanActivate ==
    /\ Stepping("guard")
    /\ req' = CASE Verdict = "pass" -> [Onward EXCEPT !.passed = Append(@, Head(req.rest).of)]
                 [] Verdict = "stop" -> [req EXCEPT !.state = "UNAUTHORIZED"]
                 [] Verdict = "throw" -> [req EXCEPT !.state = "ERROR"]
    /\ Rest

(* An interceptor that answers without calling next: per request that is    *)
(* the answer; the middleware of a procedure calls opts.next() all the same.*)
Intercept ==
    /\ Stepping("interceptor")
    /\ req' = CASE Verdict = "pass" -> Onward
                 [] Verdict = "stop" -> IF req.perReq THEN [req EXCEPT !.state = "OK"]
                                        ELSE [req EXCEPT !.rest = <<>>]
                 [] Verdict = "throw" -> [req EXCEPT !.state = "ERROR"]
    /\ Rest

Resolve ==
    /\ Serving
    /\ req.state = "running"
    /\ req.rest = <<>>
    /\ req' = [req EXCEPT !.state = "OK", !.ran = req.runs]
    /\ Rest

RequestStep == CanActivate \/ Intercept \/ Resolve

Next ==
    \/ Fail
    \/ SetHandlerPerReq
    \/ Bootstrapped
    \/ ResetRequestListener
    \/ Reinit
    \/ \E path \in DOMAIN dispatcher.router \union {<<"nowhere">>}, s \in Scripts : RequestListener(path, s)
    \/ RequestStep

Spec == Init /\ [][Next]_vars

-----------------------------------------------------------------------------
(* What the modules ask for: the methods of the paths of an application.    *)
(* `sole` says that no two modules of one class are imported on the way.    *)
TargetsAt(a, found, r, key) ==
    LET to == Mods(a)[r].config[key]
        imports == Mods(a)[r].imports
        imported == Imported(a, r, to.class)
        sole == \A k, l \in imported : imports[k] = imports[l]
    IN  IF to.kind = "module"
        THEN UNION {{[t EXCEPT !.path = key \o @, !.sole = @ /\ sole] : t \in found[imports[k]]} :
                       k \in imported}
        ELSE {[path |-> key, ref |-> r, class |-> to.class, method |-> to.method, sole |-> TRUE]}
TargetsAbove(a, found) ==
    [r \in Refs(a) |-> UNION {TargetsAt(a, found, r, key) : key \in DOMAIN Mods(a)[r].config}]
ModuleTargets(a) ==
    LET found[d \in 0..Cardinality(Refs(a))] ==
            IF d = 0 THEN [r \in Refs(a) |-> {}] ELSE TargetsAbove(a, found[d - 1])
    IN  found[Cardinality(Refs(a))]
Targets(a) == UNION {ModuleTargets(a)[r] : r \in ToSet(Root(a))}

(* A path is clear if one method only is put there, and no two methods of   *)
(* its module have one source text: otherwise which of them is served is a  *)
(* matter of order.                                                         *)
Fn(t) == prototypeOf(t.class, t.method)
Like(a, t) == {Fn(x) : x \in {y \in ToSet(Routes(a)) : y.ref = t.ref /\ functionOf(Fn(y)).text = functionOf(Fn(t)).text}}
Clear(a, t) ==
    /\ t.sole
    /\ \A x \in Targets(a) : x.path = t.path => x = t
    /\ Like(a, t) \subseteq {Fn(t)}

\* A path is served by the method that the module's getRouterConfig() names,
\* in the module that names it, or by nothing when that is no route of the
\* module; no other path is served.
PathsServeTheirMethods ==
    dispatcher.set =>
        /\ \A t \in Targets(dispatcher.of) : Clear(dispatcher.of, t) =>
              IF Fn(t) \notin Like(dispatcher.of, t) THEN t.path \notin DOMAIN dispatcher.router
              ELSE /\ t.path \in DOMAIN dispatcher.router
                   /\ dispatcher.router[t.path].ref = t.ref
                   /\ dispatcher.router[t.path].method = Fn(t)
        /\ \A p \in DOMAIN dispatcher.router : \E t \in Targets(dispatcher.of) :
              /\ t.path = p
              /\ functionOf(Fn(t)).text = functionOf(dispatcher.router[p].method).text

\* A resolver runs behind the guards that the method of its path declares, in
\* their order, whatever was initialised since the request came; and behind
\* its interceptors too if it is a handler per request.  Of several trpcRoute
\* on a method the one on top counts.
OnTop(t) ==
    LET decorators == decoratorsOf(t.class, t.method)
    IN  decorators[LastOf({k \in DOMAIN decorators : decorators[k].kind = "route"})]
ResolverIsGuarded ==
    req.ran # <<>> =>
        \E t \in Targets(req.of) :
            /\ t.path = req.path
            /\ Clear(req.of, t) =>
                  /\ req.passed = OnTop(t).guards
                  /\ \A g \in ToSet(req.passed) : req.script[g] = "pass"
                  /\ req.ran \in {Fn(t), functionOf(Fn(t)).handler}
                  /\ req.perReq => \A i \in ToSet(OnTop(t).interceptors) : req.script[i] = "pass"
=============================================================================
