--------------------------- MODULE RequestPipeline ----------------------------
(***************************************************************************)
(* A request through a REST application that serves: RequestDispatcher     *)
(* finds the handler, the handler runs its chain of interceptors down to   *)
(* the method of the controller and back, an error goes to the error       *)
(* handler and, when that fails too, to the last resort of the dispatcher  *)
(* (packages/rest/src/services, packages/rest/src/interceptors).  What     *)
(* guards, interceptors and controllers do is a script, one of many; the   *)
(* request is repeated as a HEAD request with the same script.             *)
(*                                                                         *)
(* One request at a time: handlers keep nothing between requests, and the  *)
(* objects of a route are not changed by them.                             *)
(***************************************************************************)
EXTENDS RestRoutes, HttpResponse, FiniteSets

CONSTANT Scripts        \* what user code may do, see ScriptAssumption

Outcomes == {"text", "json", "nothing", "sends", "sendsJson", "redirects", "setsType",
             "streams", "breaks", "throws", "opensSession"}

ASSUME ScriptAssumption ==
    \A s \in Scripts :
        /\ s.handler \in Outcomes
        /\ s.guard \in {"true", "false", "response", "throws"}
        /\ s.own \in {"next", "answers", "throws", "throwsAfter", "unbuildable"}
        /\ s.parse \in {"ok", "throws"}
        \* of the errors that user code throws, 0 if they have none
        /\ s.status \in {0} \union 400..599

VARIABLES
    pc,         \* "idle", "find", "down", "up", "error", "last" or "done"
    method,     \* of the request
    path,
    script,     \* of the request
    handler,    \* the handler found
    at,         \* the position in its chain
    allowed,    \* how many guards have let the request pass
    value,      \* what the promise chain is resolved with
    res,        \* the response
    reads,      \* history: how often the body was read
    passed,     \* history: the controllers' method was called after so many guards
    logged,     \* history: the errors that were logged
    before      \* history: the answer to the same request before it was repeated

requestVars == <<pc, method, path, script, handler, at, allowed, value, res, reads, passed,
                 logged, before>>
vars == <<routesVars, requestVars>>

NoHandler == [chain |-> <<>>]
NotCalled == [called |-> FALSE, guards |-> 0]

Init ==
    /\ RoutesInit
    /\ pc = "idle" /\ method = "GET" /\ path = "nowhere"
    /\ script = CHOOSE s \in Scripts : TRUE
    /\ handler = NoHandler /\ at = 0 /\ allowed = 0 /\ value = "nothing"
    /\ res = NewResponse(FALSE)
    /\ reads = 0 /\ passed = NotCalled /\ logged = 0
    /\ before = <<>>

-----------------------------------------------------------------------------
Serving == phase = "serving" /\ UNCHANGED routesVars

Begin(m, p) ==
    /\ method' = m /\ path' = p
    /\ handler' = NoHandler /\ at' = 0 /\ allowed' = 0 /\ value' = "nothing"
    /\ res' = NewResponse(m = "HEAD")
    /\ reads' = 0 /\ passed' = NotCalled /\ logged' = 0
    /\ pc' = "find"

\* The routes that the application declares.
Declared == UNION {{i} \X DOMAIN app[i].routes : i \in DOMAIN app}
RouteAt(d) == app[d[1]].routes[d[2]]
Paths == {RouteAt(d).path : d \in Declared}

Ask ==
    /\ Serving /\ pc = "idle"
    /\ \E m \in Method, p \in Paths \union {"nowhere"} : Begin(m, p)
    /\ script' \in Scripts
    /\ UNCHANGED before

Result == [wire |-> res.wire, logged |-> logged]

\* requestListener: HEAD is served by the route for GET, with a wrapped response.
AskHead ==
    /\ Serving /\ pc = "done" /\ method = "GET"
    /\ before' = <<Result>>
    /\ Begin("HEAD", path)
    /\ UNCHANGED script

\* Where an exception thrown by r goes; otherwise the request goes on.
Then(r, next) == /\ res' = r
                 /\ pc' = IF Quiet(r) THEN next ELSE "error"

Served == IF method = "HEAD" THEN "GET" ELSE method

\* sendNotFound.
NotFound ==
    /\ Serving /\ pc = "find"
    /\ <<Served, path>> \notin DOMAIN router
    /\ res' = End(SetStatus(res, 404), "empty")
    /\ pc' = "done"
    /\ UNCHANGED <<method, path, script, handler, at, allowed, value, reads, passed, logged, before>>

\* The request-scoped chain is built for the request: an interceptor whose
\* constructor throws does so before any part of the chain has run.  (The one of
\* a route-scoped chain is built when the application starts, or it does not.)
Unbuildable(h) == "own" \in ToSet(h.chain) /\ script.own = "unbuildable" /\ h.scope = "request"

Find ==
    /\ Serving /\ pc = "find"
    /\ <<Served, path>> \in DOMAIN router
    /\ handler' = router[<<Served, path>>]
    /\ IF Unbuildable(handler')
       THEN pc' = "last" /\ res' = Throws(res, "error") /\ at' = 0
       ELSE pc' = "down" /\ at' = 1 /\ UNCHANGED res
    /\ UNCHANGED <<method, path, script, allowed, value, reads, passed, logged, before>>

-----------------------------------------------------------------------------
(* Down the chain.                                                          *)

At(i) == Serving /\ pc = "down" /\ handler.chain[at] = i
Forward == pc' = "down" /\ at' = at + 1

\* HttpFrontend.before: parameters only.
Before ==
    /\ At("frontend")
    /\ Forward
    /\ UNCHANGED <<method, path, script, handler, allowed, value, res, reads, passed, logged, before>>

\* The first guards let the request pass, the last one does as the script says.
GuardSays == IF allowed + 1 < handler.guards THEN "true" ELSE script.guard

GuardPasses ==
    /\ At("guards") /\ GuardSays = "true"
    /\ allowed' = allowed + 1
    /\ IF allowed' = handler.guards THEN Forward ELSE UNCHANGED <<pc, at>>
    /\ UNCHANGED <<method, path, script, handler, value, res, reads, passed, logged, before>>

\* sendResponse: 401 without a body, or the guard's own Response.
GuardRefuses ==
    /\ At("guards") /\ GuardSays \in {"false", "response"}
    /\ value' = IF GuardSays = "false" THEN "nothing" ELSE "json"
    /\ Then(IF GuardSays = "false" THEN End(SetStatus(res, 401), "empty")
            ELSE ApplyResponse(res, 403), "up")
    /\ UNCHANGED <<method, path, script, handler, at, allowed, reads, passed, logged, before>>

GuardThrows ==
    /\ At("guards") /\ GuardSays = "throws"
    /\ Then(Throws(res, "error"), "error")
    /\ UNCHANGED <<method, path, script, handler, at, allowed, value, reads, passed, logged, before>>

\* cors() answers a preflight request itself, and adds its headers to others.
Cors ==
    /\ At("cors")
    /\ IF method = "OPTIONS"
       THEN \/ Then(End(SetHeader(SetStatus(res, 204), "access", "all"), "empty"), "up") /\ at' = at
            \/ Then(SetHeader(res, "access", "all"), "down") /\ at' = at + 1
       ELSE Then(SetHeader(res, "access", "all"), "down") /\ at' = at + 1
    /\ UNCHANGED <<method, path, script, handler, allowed, value, reads, passed, logged, before>>

\* SessionCookie replaces writeHead of the response it is given.
Session ==
    /\ At("session")
    /\ Then([res EXCEPT !.hooked = TRUE], "down") /\ at' = at + 1
    /\ UNCHANGED <<method, path, script, handler, allowed, value, reads, passed, logged, before>>

ParseBody ==
    /\ At("body")
    /\ reads' = reads + 1
    /\ IF script.parse = "ok" THEN Forward /\ UNCHANGED res
       ELSE Then(Throws(res, "error"), "error") /\ UNCHANGED at
    /\ UNCHANGED <<method, path, script, handler, allowed, value, passed, logged, before>>

\* An interceptor of the route calls the next one, answers itself, or throws.
OwnInterceptor ==
    /\ At("own")
    /\ CASE script.own = "answers" -> pc' = "up" /\ value' = "text" /\ UNCHANGED <<res, at>>
         [] script.own = "throws" -> Then(Throws(res, "error"), "error") /\ UNCHANGED <<value, at>>
         [] OTHER -> Forward /\ UNCHANGED <<res, value>>
    /\ UNCHANGED <<method, path, script, handler, allowed, reads, passed, logged, before>>

-----------------------------------------------------------------------------
(* The method of the controller.                                            *)

AllowHeader == IF path \in DOMAIN allow THEN allow[path] ELSE {}

ResponseOf(r) ==
    IF handler.answersOptions
    THEN End(SetHeader(SetStatus(r, 204), "allow", AllowHeader), "empty")
    ELSE CASE script.handler = "sends" -> Send(r, "text")
           [] script.handler = "sendsJson" -> SendJson(r, "json")
           [] script.handler = "redirects" -> Redirect(r)
           [] script.handler = "setsType" -> SetHeader(r, "content-type", "html")
           [] script.handler = "streams" -> End(Write(r), "text")
           [] script.handler = "breaks" -> Throws(Write(r), "error")
           [] script.handler = "throws" -> Throws(r, "error")
           [] script.handler = "opensSession" -> [r EXCEPT !.hooked = TRUE, !.cookie = "id"]
           [] OTHER -> r

Controller ==
    /\ At("backend")
    /\ passed' = [called |-> TRUE, guards |-> allowed]
    /\ value' = IF ~handler.answersOptions /\ script.handler \in {"text", "json"}
                THEN script.handler ELSE "nothing"
    /\ Then(ResponseOf(res), "up") /\ UNCHANGED at
    /\ UNCHANGED <<method, path, script, handler, allowed, reads, logged, before>>

-----------------------------------------------------------------------------
(* Back up the chain, and the ends of a request.                            *)

\* The interceptor of the route that has called the next one sees its result.
ThrowsAfter ==
    /\ script.own = "throwsAfter"
    /\ \E i \in 1..at : handler.chain[i] = "own"

\* A mistake: a controller that returns nothing is taken to have answered.
AfterSilent(r) ==
    IF HeadersSent(r) \/ value = "nothing" THEN r ELSE Send(r, value)

\* HttpFrontend.after; statusCode is never empty, so that its default is Node's.
After(r) ==
    LET type == HeaderOf(r, "content-type")
        body == IF value = "nothing" THEN "empty" ELSE value
    IN  IF HeadersSent(r) THEN r
        ELSE IF value = "json" \/ type = "json" THEN SendJson(r, body)
        ELSE IF type # "none" /\ value = "nothing" THEN Throws(r, "typeError")
        ELSE Send(IF value = "text" /\ type = "none"
                  THEN SetHeader(r, "content-type", "text") ELSE r, body)

Return ==
    /\ Serving /\ pc = "up"
    /\ Then(IF ThrowsAfter THEN Throws(res, "error") ELSE After(res), "done")
    /\ UNCHANGED <<method, path, script, handler, at, allowed, value, reads, passed, logged, before>>

\* An error of user code, a CustomError or another one, may have a status of its
\* own; that of HttpFrontend has 500, those of Node have none.
StatusOf(error) == IF error = "error" /\ script.status # 0 THEN script.status ELSE 500

\* A mistake: the client is told of the error with the status that the response had.
ErrorAnsweredKeeping(r, status) ==
    IF HeadersSent(r) THEN r ELSE SendJson(SetHeader(r, "x-requestId", "id"), "error")

\* DefaultHttpErrorHandler: what it does to the response.
ErrorAnswered(r, status) ==
    LET failed == SetStatus(r, status)
    IN  IF HeadersSent(failed) THEN failed
        ELSE SendJson(SetHeader(failed, "x-requestId", "id"), "error")

HandleError ==
    /\ Serving /\ pc = "error"
    /\ logged' = logged + 1
    /\ LET r == ErrorAnswered(Throws(res, "none"), StatusOf(res.threw))
       IN  res' = r /\ pc' = IF Quiet(r) THEN "done" ELSE "last"
    /\ UNCHANGED <<method, path, script, handler, at, allowed, value, reads, passed, before>>

\* sendInternalServerError.
LastResort ==
    /\ Serving /\ pc = "last"
    /\ logged' = logged + 1
    /\ res' = End(SetStatus(Throws(res, "none"), 500), "empty")
    /\ pc' = "done"
    /\ UNCHANGED <<method, path, script, handler, at, allowed, value, reads, passed, before>>

RequestNext ==
    \/ NotFound
    \/ Find
    \/ Before
    \/ GuardPasses
    \/ GuardRefuses
    \/ GuardThrows
    \/ Cors
    \/ Session
    \/ ParseBody
    \/ OwnInterceptor
    \/ Controller
    \/ Return
    \/ HandleError
    \/ LastResort

Next ==
    \/ RoutesNext /\ UNCHANGED requestVars
    \/ Ask
    \/ AskHead
    \/ RequestNext

\* The promises of a request settle; nobody has to send one.
Spec == Init /\ [][Next]_vars /\ WF_vars(RequestNext)

-----------------------------------------------------------------------------
\* The method of the controller has sent something itself.
ByHand ==
    /\ passed.called
    /\ \/ handler.answersOptions
       \/ script.handler \in {"sends", "sendsJson", "redirects", "streams", "breaks"}

\* The controller has thrown after it had begun to write.
Broken == passed.called /\ script.handler = "breaks" /\ ~handler.answersOptions

\* An interceptor of the route throws when cors() has answered a preflight request.
ThrowsAfterPreflight == ThrowsAfter /\ method = "OPTIONS" /\ ~passed.called

\* The status that a request which fails is to be answered with: that of the
\* error which user code has thrown, if it has one; 500 if the chain could not be
\* built, or if the controller gave its answer a type and returned nothing.
FailureStatus ==
    IF Unbuildable(handler) \/ (passed.called /\ script.handler = "setsType" /\ ~ThrowsAfter)
    THEN 500 ELSE StatusOf("error")

\* Whatever throws, and wherever, the client gets an answer that is complete;
\* except when the controller throws after it has begun to write: the error
\* handler then leaves the response open.  As long as user code leaves the
\* response to the pipeline, and throws nothing once a preflight request has
\* been answered, an error that was logged reaches the client with its own
\* status, or with 500 if it has none, whatever status the response had before;
\* and no answer says that the server has failed (5xx) if nothing was logged.
RequestsAreAnswered ==
    pc = "done" =>
        /\ ~Broken => res.wire.sent /\ res.wire.ended
        /\ ~ByHand /\ ~ThrowsAfterPreflight =>
              IF logged > 0 THEN res.wire.status = FailureStatus ELSE res.wire.status < 500

\* "If there are guards in the current route, then by default
\* RequestScopedGuardedInterceptor is run immediately after HttpFrontend"
\* (02-http-interceptors.md): no body is read and no controller is called before
\* all guards, of the module and of the route, have let the request pass.
GuardsComeFirst ==
    (passed.called \/ reads > 0) /\ ~handler.answersOptions =>
        \E r \in ToSet(app[handler.module].routes) :
            /\ r.path = path /\ ToSet(r.methods) = handler.methods
            /\ allowed = app[handler.module].guards + r.guards

\* A HEAD request is answered as GET is, without the body, and logs what GET
\* logs: when user code leaves the response to the pipeline and has opened no
\* session.  (A guard's Response has the same headers, but another framing.)
HeadIsGet ==
    pc = "done" /\ method = "HEAD" /\ ~ByHand /\ res.cookie = "none" =>
        LET get == before[1].wire
        IN  /\ res.wire.status = get.status /\ res.wire.headers = get.headers
            /\ logged = before[1].logged
            /\ res.wire.length # get.length => script.guard = "response"

\* The answer to OPTIONS names all methods that the application serves at the
\* path, whatever modules they are in.
AllowIsComplete ==
    pc = "done" /\ passed.called /\ handler.answersOptions =>
        res.wire.headers["allow"] =
            {"OPTIONS"} \union UNION {ToSet(RouteAt(d).methods) : d \in {e \in Declared : RouteAt(e).path = path}}

\* What HEAD and OPTIONS say of a path is what its other methods do.
HeadAndOptionsFollow == HeadIsGet /\ AllowIsComplete

Once(i, chain) == \E n \in DOMAIN chain : \A k \in DOMAIN chain : chain[k] = i <=> k = n

\* CorsExtension is imported once or in several modules, early or late: each
\* handler of the application has its interceptor once.  A body that is to be
\* parsed is parsed once before the controller is called; of a route with
\* several methods that have bodies it is parsed again, and of a route for all
\* methods never.
EquippedOnce ==
    /\ phase = "serving" /\ (\E m \in DOMAIN app : app[m].cors) =>
           \A k \in DOMAIN router : Once("cors", router[k].chain)
    /\ passed.called /\ ~handler.answersOptions /\ app[handler.module].body
           => LET parsed == handler.methods \intersect Accepted
              IN  Cardinality(parsed) <= 1 => reads = IF parsed = {} THEN 0 ELSE 1
=============================================================================
