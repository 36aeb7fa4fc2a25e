-------------------------- MODULE MCTrpcApplication --------------------------
(***************************************************************************)
(* A module with one of several controllers, alone, beside a second one    *)
(* whose method has the same source text, or beside another module, and    *)
(* with a module under it that it imports not at all, once or twice.       *)
(***************************************************************************)
EXTENDS TrpcApplication, Reflector

Routed(guards, interceptors) == [kind |-> "route", guards |-> guards, interceptors |-> interceptors]
Factory == [kind |-> "factory", guards |-> <<>>, interceptors |-> <<>>]

Method(decorators, params, text, handler) ==
    [decorators |-> decorators, annotated |-> FALSE, params |-> params, text |-> text, handler |-> handler]
Extending(parent, ctor, own) ==
    [parent |-> parent, marks |-> {"decorated"}, ctor |-> ctor, own |-> own, perReq |-> {}]

ListMethod == Method(<<Routed(<<"g">>, <<"i">>)>>, <<"db", "service">>, "list", <<>>)
AllPosts == <<"PostService", "all">>

MCClasses ==
    [Base        |-> Extending(Object, <<"db", "log">>, [list |-> ListMethod]),
     Posts       |-> [Extending("Base", <<"mail", ParentParams>>,
                         [list |-> Method(<<Routed(<<"g", "h">>, <<"i">>)>>, <<"service">>, "posts", AllPosts),
                          add  |-> Method(<<Routed(<<"g">>, <<>>), Routed(<<"h">>, <<"i">>)>>,
                                          <<"service", "db">>, "add", <<>>)])
                         EXCEPT !.perReq = {"PostService"}],
     Drafts      |-> Extending("Posts", <<"mail", ParentParams, ParentParams>>,
                         [list |-> Method(<<Routed(<<>>, <<"i">>)>>, <<"service">>, "drafts", <<>>),
                          add  |-> Method(<<Routed(<<>>, <<>>)>>, <<"service">>, "addDraft", <<>>)]),
     Memos       |-> Extending("Drafts", Delegated,
                         [list |-> Method(<<Routed(<<"h">>, <<>>)>>, <<"service">>, "memos", <<>>),
                          add  |-> Method(<<Routed(<<"h">>, <<>>)>>, <<ParentParams>>, "addMemo", <<>>)]),
     Heir        |-> Extending("Base", Delegated, <<>>),
     Archive     |-> Extending("Base", <<"db">>, [list |-> [ListMethod EXCEPT
                         !.decorators = <<>>, !.params = <<"oldDb", "service">>, !.text = "archive"]]),
     Silent      |-> Extending("Base", <<"db">>,
                         [list |-> [ListMethod EXCEPT !.decorators = <<>>, !.annotated = TRUE]]),
     Orphan      |-> Extending(Object, <<>>, [list |-> Method(<<Routed(<<>>, <<>>)>>, <<"service">>, "o", AllPosts)]),
     Junk        |-> Extending(Object, <<>>, [list |-> Method(<<Routed(<<"db">>, <<>>)>>, <<"service">>, "j", <<>>)]),
     Mute        |-> Extending(Object, <<>>, [list |-> Method(<<Routed(<<>>, <<>>)>>, <<"db">>, "m", <<>>)]),
     Twin        |-> [Extending(Object, <<"log">>,
                         [list |-> Method(<<Routed(<<>>, <<>>)>>, <<"service">>, "posts", <<"NoteService", "all">>)])
                         EXCEPT !.perReq = {"NoteService"}],
     PostService |-> Extending(Object, <<"db">>, [all |-> Method(<<Factory>>, <<"opts", "db">>, "all", <<>>)]),
     NoteService |-> Extending(Object, <<>>, [all |-> Method(<<Factory>>, <<"db">>, "notes", <<>>)])]

To(class, method) == [kind |-> "method", class |-> class, method |-> method]
Below(class) == [kind |-> "module", class |-> class, method |-> "getRouterConfig"]
Mod(class, imports, controllers, config) ==
    [class |-> class, imports |-> imports, controllers |-> controllers, perReq |-> {}, config |-> config]

Lists(c) == (<<"post", "list">> :> To(c, "list"))
Nests == (<<"post", "notes">> :> Below("NoteModule"))
Adds(c) == IF c \in {"Posts", "Drafts", "Memos"} THEN (<<"post", "add">> :> To(c, "add")) ELSE <<>>
Note(c) == Mod("NoteModule", <<>>, <<c>>, <<"all">> :> To(c, "list"))

Firsts == {"Base", "Posts", "Drafts", "Memos", "Heir", "Archive", "Silent", "Orphan", "Junk", "Mute"}
Others == [base |-> <<"base">> :> To("Base", "list"),
           stray |-> <<"stray">> :> To("Posts", "list"),
           same |-> <<"post", "base">> :> To("Base", "list")]

Names ==
    ({"notes"} \X Firsts \X {<<>>, <<"n1">>, <<"n2">>, <<"n1", "n2">>})
        \union ({"twin"} \X {"Posts", "Twin"} \X {<<>>})
        \union ({"beside"} \X (DOMAIN Others) \X {<<>>})
MCApps == [n \in Names |->
    CASE n[1] = "notes" ->
            [root |-> <<"post">>,
             mods |-> [post |-> Mod("PostModule", n[3], <<n[2]>>, Lists(n[2]) @@ Adds(n[2]) @@ Nests),
                       n1 |-> Note("Base"), n2 |-> Note("Twin")]]
      [] n[1] = "twin" ->
            [root |-> <<"post">>,
             mods |-> [post |-> Mod("PostModule", <<>>, IF n[2] = "Posts" THEN <<"Posts", "Twin">>
                                                        ELSE <<"Twin", "Posts">>,
                                    Lists("Posts") @@ (<<"twin">> :> To("Twin", "list")))]]
      [] n[1] = "beside" ->
            [root |-> <<"post", "other">>,
             mods |-> [post |-> Mod("PostModule", <<>>, <<"Posts">>, Lists("Posts") @@ Adds("Posts")),
                       other |-> Mod("OtherModule", <<>>, <<"Base">>, Others[n[2]])]]]

MCReached ==
    {<<"notes", "Posts", <<"n1">>>>, <<"notes", "Junk", <<>>>>, <<"notes", "Drafts", <<"n2">>>>,
     <<"beside", "base", <<>>>>, <<"beside", "same", <<>>>>}

Calm == [x \in {"g", "h", "i"} |-> "pass"]
MCScripts == {Calm} \union {[Calm EXCEPT ![x] = v] : x \in DOMAIN Calm, v \in {"stop", "throw"}}
MCGuards == {"g", "h"}
MCInterceptors == {"i"}

-----------------------------------------------------------------------------
(* What Reflector says of these classes.                                    *)
MCMethodsOf(c) == DOMAIN CollectMeta[c]
MCDecoratorsOf(c, m) == CollectMeta[c][m].decorators
MCDependsOn(c, m) == ToSet(MethodDeps[c][m])
MCPerReqOf(c) == Declared[c].perReq
MCFactoriesOf(c) == Factories[c]

\* A placeholder for the arguments of the parent gets these, "an array of
\* arguments for the parent constructor" (01-dependency-injection.md): every
\* constructor of a controller or service is called with what it declares,
\* except below a class that has no constructor and extends one that has the
\* placeholder; and so is every method that has decorators of its own.
CalledAsDeclared(f) ==
    /\ ~Redelegates(f[1]) => ConstructorsFit[f[1]]
    /\ HasMeta(f[1], f[2]) /\ ParentParams \notin ToSet(Function(f).params)
          => Fit(Function(f).params, MethodArgs(MethodDeps[f[1]][f[2]]))
HandlersGetTheirParams ==
    \A r \in DOMAIN context : \A text \in DOMAIN context[r] :
        CalledAsDeclared(context[r][text].method) /\ CalledAsDeclared(context[r][text].runs)
=============================================================================
