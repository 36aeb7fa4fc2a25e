------------------------------ MODULE RestRoutes ------------------------------
(***************************************************************************)
(* How the extensions of a REST application make its routes: stage1 of     *)
(* RestRouteExtension and InterceptorExtension (packages/rest), of         *)
(* BodyParserExtension, SessionCookieExtension and CorsExtension in the    *)
(* modules that import them, and stages 1 and 3 of DispatcherExtension,    *)
(* which turns the metadata of each route into a handler with its chain of *)
(* interceptors and registers it.                                          *)
(*                                                                         *)
(* The extensions of one module run in any order that their declarations   *)
(* allow (the order of the imports decides); how they are called, and that *)
(* one CorsExtension is called for the whole application, is               *)
(* ExtensionManager.  The router is the set of its routes, see Router.     *)
(***************************************************************************)
EXTENDS Naturals, Sequences, SequencesExt, FiniteSets

CONSTANTS
    Apps,       \* the applications: sequences of modules, see AppsAssumption
    Accepted,   \* acceptMethods of the body parser
    Method      \* http.METHODS

ASSUME MethodAssumption == {"GET", "OPTIONS"} \subseteq Method /\ Method \intersect {"ALL", "HEAD"} = {}
Route ==
    [methods : Seq(Method \union {"ALL", "HEAD"}), path : STRING, scope : {"route", "request"},
     guards : Nat, own : BOOLEAN, flaw : {"none", "guard", "interceptor", "slash"}]
AppModule ==
    [routes : Seq(Route), guards : Nat, guardLevel : {"Mod", "Req"},
     cors : BOOLEAN, session : BOOLEAN, body : BOOLEAN]
ASSUME AppsAssumption ==
    /\ Accepted \subseteq Method
    /\ \A a \in Apps : a \in Seq(AppModule) /\ a # <<>>

VARIABLES
    app,        \* one of Apps (constant)
    phase,      \* "stage1", "stage3", "serving" or "failed"
    turn,       \* the module at work
    ran,        \* the extensions that have run stage1 in it
    ctrl,       \* controllersMeta of each module
    corsState,  \* "absent", "pending" or "done"
    allow,      \* registeredPathForOptions
    router,     \* the handlers, by method and path
    failure     \* why the application did not start

routesVars == <<app, phase, turn, ran, ctrl, corsState, allow, router, failure>>

-----------------------------------------------------------------------------
(* RestRouteExtension.                                                      *)

\* The metadata of a route before other extensions add to it.
ControllerMeta(r) ==
    [methods |-> r.methods, path |-> r.path, scope |-> r.scope, guards |-> r.guards,
     own |-> r.own, flaw |-> r.flaw, answersOptions |-> FALSE,
     perRou |-> <<>>, perReq |-> <<>>]

\* HTTP_INTERCEPTORS of the level that the scope of the controller makes count.
Interceptors(c) == IF c.scope = "route" THEN c.perRou ELSE c.perReq
Extend(c, more) == IF c.scope = "route" THEN [c EXCEPT !.perRou = @ \o more]
                   ELSE [c EXCEPT !.perReq = @ \o more]
Push(c, i) == Extend(c, <<i>>)

Update(m, F(_)) == [ctrl EXCEPT ![m] = [j \in DOMAIN @ |-> F(@[j])]]

-----------------------------------------------------------------------------
RoutesInit ==
    /\ app \in Apps
    /\ phase = "stage1" /\ turn = 1 /\ ran = {}
    /\ ctrl = [m \in DOMAIN app |-> <<>>]
    /\ corsState = "absent"
    /\ allow = <<>>
    /\ router = <<>>
    /\ failure = "none"

Fails(why) ==
    /\ phase' = "failed"
    /\ failure' = why
    /\ UNCHANGED <<app, turn, ran, ctrl, corsState, allow, router>>

\* Stage 1 of extension e in the module at work: after RestRouteExtension,
\* before DispatcherExtension.
Runs(e) == phase = "stage1" /\ e \notin ran /\ "rest" \in ran /\ "dispatcher" \notin ran
Ran(e) ==
    /\ ran' = ran \union {e}
    /\ UNCHANGED <<app, phase, turn, router, failure>>

\* FailedValidationOfRoute when a guard of a route is not a guard.
RunRestRoute ==
    /\ phase = "stage1" /\ ran = {}
    /\ IF \E r \in ToSet(app[turn].routes) : r.flaw = "guard" THEN Fails("FailedValidationOfRoute")
       ELSE /\ ctrl' = [ctrl EXCEPT ![turn] =
                          [j \in DOMAIN app[turn].routes |-> ControllerMeta(app[turn].routes[j])]]
            /\ Ran("rest")
            /\ UNCHANGED <<corsState, allow>>

\* InterceptorExtension: the interceptors that a route names itself.
RunInterceptor ==
    /\ Runs("interceptor")
    /\ IF \E c \in ToSet(ctrl[turn]) : c.flaw = "interceptor" THEN Fails("InvalidInterceptor")
       ELSE /\ ctrl' = Update(turn, LAMBDA c : IF c.own THEN Push(c, "own") ELSE c)
            /\ Ran("interceptor")
            /\ UNCHANGED <<corsState, allow>>

\* One interceptor for each method of the route that has a body.
Parsed(c) == {k \in DOMAIN c.methods : c.methods[k] \in Accepted}
BodyParsers(c) == Extend(c, [k \in 1..Cardinality(Parsed(c)) |-> "body"])

RunBodyParser ==
    /\ Runs("body") /\ app[turn].body
    /\ ctrl' = Update(turn, BodyParsers)
    /\ Ran("body")
    /\ UNCHANGED <<corsState, allow>>

\* SessionCookieExtension: request-scoped controllers inject SessionCookie.
RunSessionCookie ==
    /\ Runs("session") /\ app[turn].session
    /\ ctrl' = Update(turn, LAMBDA c : IF c.scope = "route" THEN Push(c, "session") ELSE c)
    /\ Ran("session")
    /\ UNCHANGED <<corsState, allow>>

-----------------------------------------------------------------------------
(* CorsExtension.                                                           *)

PathsWithOptions(metas) == {c.path : c \in {x \in ToSet(metas) : "OPTIONS" \in ToSet(x.methods)}}

OptionsController(path) ==
    [methods |-> <<"OPTIONS">>, path |-> path, scope |-> "route", guards |-> 0, own |-> FALSE,
     flaw |-> "none", answersOptions |-> TRUE, perRou |-> <<>>, perReq |-> <<>>]

\* The paths of module m that get an answer to OPTIONS; a path with a route for
\* OPTIONS in the same module is left alone.
OpenPaths(m) == {c.path : c \in ToSet(ctrl[m])} \ PathsWithOptions(ctrl[m])
RoutesAt(p, m) == {c \in ToSet(ctrl[m]) : c.path = p}

\* A mistake: each module lists its own methods.
AllowedInOne(p) ==
    {"OPTIONS"} \union
        UNION {ToSet(c.methods) : c \in RoutesAt(p, CHOOSE m \in DOMAIN app : p \in OpenPaths(m))}

\* registeredPathForOptions: the methods of a path, of all modules.
Allowed(p) ==
    {"OPTIONS"} \union
        UNION {ToSet(c.methods) : c \in UNION {RoutesAt(p, m) : m \in {n \in DOMAIN app : p \in OpenPaths(n)}}}

\* Its result: a route for each path that no module before had.
NewOptions(m) ==
    LET paths == SetToSeq(OpenPaths(m) \ UNION {OpenPaths(k) : k \in 1..(m - 1)})
    IN  [i \in DOMAIN paths |-> OptionsController(paths[i])]

\* prepareDataAndSetInterceptors, for all modules of the application.
CorsForApp ==
    /\ ctrl' = [m \in DOMAIN app |->
                   [j \in DOMAIN (ctrl[m] \o NewOptions(m)) |-> Push((ctrl[m] \o NewOptions(m))[j], "cors")]]
    /\ allow' = [p \in UNION {OpenPaths(m) : m \in DOMAIN app} |-> Allowed(p)]
    /\ corsState' = "done"

\* A mistake: the extension does not wait for the last module.
RunCorsAtOnce ==
    /\ Runs("cors") /\ app[turn].cors
    /\ CorsForApp
    /\ Ran("cors")

\* The results of the application are complete in its last module; before, the
\* extension returns at once and is called again when stage 1 is over.
RunCors ==
    /\ Runs("cors") /\ app[turn].cors
    /\ IF turn = Len(app) THEN CorsForApp
       ELSE corsState' = "pending" /\ UNCHANGED <<ctrl, allow>>
    /\ Ran("cors")

\* stage1 of DispatcherExtension, the last one of a module.
RunDispatcher ==
    /\ Runs("dispatcher")
    /\ {"interceptor"} \union {e \in {"body", "session", "cors"} : app[turn][e]} \subseteq ran
    /\ Ran("dispatcher")
    /\ UNCHANGED <<ctrl, corsState, allow>>

NextModule ==
    /\ phase = "stage1" /\ "dispatcher" \in ran /\ turn < Len(app)
    /\ turn' = turn + 1 /\ ran' = {}
    /\ UNCHANGED <<app, phase, ctrl, corsState, allow, router, failure>>

\* perAppHandling: the pending extension first, then the other stages.
EndStage1 ==
    /\ phase = "stage1" /\ "dispatcher" \in ran /\ turn = Len(app)
    /\ IF corsState = "pending" THEN CorsForApp ELSE UNCHANGED <<ctrl, allow, corsState>>
    /\ phase' = "stage3" /\ turn' = 1
    /\ UNCHANGED <<app, ran, router, failure>>

-----------------------------------------------------------------------------
(* stage3 of DispatcherExtension.                                           *)

\* Mistakes: guards of the module alone do not bring the interceptor; it comes
\* after the interceptors of the route.
ChainUnguarded(c, m) ==
    <<"frontend">> \o (IF c.guards > 0 THEN <<"guards">> ELSE <<>>) \o Interceptors(c) \o <<"backend">>
ChainGuardedLast(c, m) ==
    <<"frontend">> \o Interceptors(c) \o (IF app[m].guards + c.guards > 0 THEN <<"guards">> ELSE <<>>)
        \o <<"backend">>

\* The order of HTTP_INTERCEPTORS in mergedPerRou and mergedPerReq.
Chain(c, m) ==
    <<"frontend">> \o (IF app[m].guards + c.guards > 0 THEN <<"guards">> ELSE <<>>)
        \o Interceptors(c) \o <<"backend">>

\* hasInterceptors counts the front end and the back end as two.
HandlerOf(c, m) ==
    [module |-> m, path |-> c.path, scope |-> c.scope, methods |-> ToSet(c.methods),
     guards |-> app[m].guards + c.guards, chain |-> Chain(c, m),
     direct |-> c.scope = "route" /\ Len(Chain(c, m)) = 2, answersOptions |-> c.answersOptions]

\* GuardNotFound: a guard of the module that imports m needs a provider there,
\* which for a route-scoped controller may not be one per request.
GuardMissing(c, m) == app[m].guards > 0 /\ app[m].guardLevel = "Req" /\ c.scope = "route"

\* What a method of a route stands for.
Targets(method) == IF method = "ALL" THEN Method ELSE {method}

\* The keys of the router that a method of a route stands for, and a route.
KeysAt(c, i) == Targets(c.methods[i]) \X {c.path}
Keys(c) == UNION {KeysAt(c, i) : i \in DOMAIN c.methods}

\* Two methods, of one route or of two, that the router takes for one.
Conflict(metas) ==
    \E j, k \in DOMAIN metas : \E i \in DOMAIN metas[j].methods, l \in DOMAIN metas[k].methods :
        /\ <<j, i>> # <<k, l>>
        /\ KeysAt(metas[j], i) \intersect KeysAt(metas[k], l) # {}

\* Why setRoutes throws; which of the reasons it meets first does not matter.
Refusals(metas) ==
    {why \in {"InvalidConfigurationOfRoute", "HeadRouteNotSupported", "conflict"} :
        \/ why = "InvalidConfigurationOfRoute" /\ \E c \in ToSet(metas) : c.flaw = "slash"
        \/ why = "HeadRouteNotSupported" /\ \E c \in ToSet(metas) : "HEAD" \in ToSet(c.methods)
        \/ why = "conflict" /\ \/ Conflict(metas)
                               \/ \E c \in ToSet(metas) : Keys(c) \intersect DOMAIN router # {}}

\* setRoutes.
Registered(metas) ==
    [k \in DOMAIN router \union UNION {Keys(c) : c \in ToSet(metas)} |->
        IF k \in DOMAIN router THEN router[k]
        ELSE HandlerOf(CHOOSE c \in ToSet(metas) : k \in Keys(c), turn)]

\* prepareRoutesMeta makes all handlers of a module before one is registered.
Stage3 ==
    /\ phase = "stage3" /\ turn <= Len(app)
    /\ IF \E c \in ToSet(ctrl[turn]) : GuardMissing(c, turn) THEN Fails("GuardNotFound")
       ELSE \/ \E why \in Refusals(ctrl[turn]) : Fails(why)
            \/ /\ Refusals(ctrl[turn]) = {}
               /\ router' = Registered(ctrl[turn])
               /\ turn' = turn + 1
               /\ phase' = IF turn = Len(app) THEN "serving" ELSE phase
               /\ UNCHANGED <<app, ran, ctrl, corsState, allow, failure>>

RoutesNext ==
    \/ RunRestRoute
    \/ RunInterceptor
    \/ RunBodyParser
    \/ RunSessionCookie
    \/ RunCors
    \/ RunDispatcher
    \/ NextModule
    \/ EndStage1
    \/ Stage3
=============================================================================
