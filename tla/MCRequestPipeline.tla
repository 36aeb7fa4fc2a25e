-------------------------- MODULE MCRequestPipeline --------------------------
(***************************************************************************)
(* Applications of two modules with one route each, from two tables, with  *)
(* and without guards; CORS in either module or both, sessions and the     *)
(* body parser in the first, the body parser in the second.                *)
(***************************************************************************)
EXTENDS RequestPipeline

MCMethod == {"GET", "POST", "PUT", "OPTIONS"}
MCAccepted == {"POST", "PUT"}

Plain(methods, at0, scope, guards, own) ==
    [methods |-> methods, path |-> at0, scope |-> scope, guards |-> guards, own |-> own,
     flaw |-> "none"]

Firsts ==
    {Plain(<<"GET">>, "a", sc, g, o) : sc \in {"route", "request"}, g \in 0..1, o \in BOOLEAN}
    \union {Plain(ms, "a", sc, 0, FALSE) :
                sc \in {"route", "request"},
                ms \in {<<"POST">>, <<"GET", "POST">>, <<"POST", "PUT">>, <<"ALL">>, <<"OPTIONS">>}}
    \union {[Plain(<<"GET">>, "a", "route", 0, TRUE) EXCEPT !.flaw = f] :
                f \in {"guard", "interceptor", "slash"}}
    \union {Plain(<<"OPTIONS">>, "a", "route", 0, TRUE), Plain(<<"HEAD">>, "a", "route", 0, FALSE)}

Seconds == {Plain(<<"POST">>, "a", "route", 0, FALSE), Plain(<<"OPTIONS">>, "a", "request", 0, FALSE),
            Plain(<<"GET">>, "b", "request", 1, FALSE), Plain(<<"GET">>, "a", "route", 0, FALSE)}

Mod(routes, guards, level, cors, session, body) ==
    [routes |-> routes, guards |-> guards, guardLevel |-> level, cors |-> cors,
     session |-> session, body |-> body]

\* A guard of the module matters to the route that has none of its own, too.
MCApps ==
    {<<Mod(<<r>>, 0, "Mod", c1, x, x), Mod(<<s>>, 0, "Mod", c2, FALSE, TRUE)>> :
        r \in Firsts, s \in Seconds, c1 \in BOOLEAN, c2 \in BOOLEAN, x \in BOOLEAN}
    \union
    {<<Mod(<<r>>, 1, level, c1, c1, c1), Mod(<<s>>, 0, "Mod", FALSE, FALSE, TRUE)>> :
        r \in {x \in Firsts : x.methods \in {<<"GET">>, <<"POST">>} /\ x.flaw = "none"},
        s \in {x \in Seconds : x.path = "b"}, c1 \in BOOLEAN, level \in {"Mod", "Req"}}

Calm == [handler |-> "text", guard |-> "true", own |-> "next", parse |-> "ok", status |-> 0]
MCScripts ==
    {[Calm EXCEPT !.handler = o] : o \in Outcomes}
    \union {[Calm EXCEPT !.guard = g] : g \in {"false", "response", "throws"}}
    \union {[Calm EXCEPT !.own = o, !.handler = h] :
                o \in {"answers", "throws", "throwsAfter", "unbuildable"}, h \in {"json", "sends"}}
    \union {[Calm EXCEPT !.parse = "throws", !.status = n] : n \in {0, 413}}
    \union {[s EXCEPT !.status = n] : n \in {409, 503},
                s \in {[Calm EXCEPT !.guard = "throws"], [Calm EXCEPT !.handler = "throws"],
                       [Calm EXCEPT !.handler = "setsType"], [Calm EXCEPT !.own = "unbuildable"],
                       [Calm EXCEPT !.own = "throwsAfter", !.handler = "json"]}}
    \union {[Calm EXCEPT !.handler = "setsType", !.own = "throwsAfter", !.status = 409]}
=============================================================================
