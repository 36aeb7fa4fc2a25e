-------------------------- MODULE MCExtensionManager -------------------------
(* As the extensions of the packages rest, openapi and cors: route collects *)
(* routes, openapi is in its group, cors wants the routes of the            *)
(* application and dispatcher those of its module.                          *)
EXTENDS ExtensionManager

CONSTANTS route, openapi, cors, dispatcher

MCExt == {route, openapi, cors, dispatcher}
MCLeads == [e \in MCExt |-> IF e = openapi THEN {route} ELSE {}]
PerMod(e) == [of |-> e, perApp |-> FALSE]
PerApp(e) == [of |-> e, perApp |-> TRUE]
Usual ==
    [e \in MCExt |-> CASE e = cors -> <<PerApp(route)>> [] e = dispatcher -> <<PerMod(route)>>
                       [] OTHER -> <<>>]
Config(e, before, after) == [extension |-> e, before |-> before, after |-> after]
Plain(e) == Config(e, <<>>, <<>>)
Routes == Config(route, <<dispatcher>>, <<>>)
Cors == Config(cors, <<dispatcher>>, <<route>>)
InSetup(configs, ofOpenapi) ==
    [configs |-> configs, asks |-> [Usual EXCEPT ![openapi] = ofOpenapi]]

\* As the packages declare it, listed from the last to the first; with openapi
\* first and cors last, as an application may declare it; with cors too early
\* where route is not declared; three where openapi asks for a group, one it is
\* in or one it only comes to in its turn; two circles, of beforeExtensions and of
\* afterExtensions; and one where dispatcher wants two results of the application.
MCSetup ==
    {InSetup(<<Plain(dispatcher), Cors, Plain(openapi), Routes>>, <<>>),
     InSetup(<<Plain(cors), Config(dispatcher, <<cors>>, <<>>), Routes,
               Config(openapi, <<route>>, <<>>)>>, <<>>),
     InSetup(<<Plain(cors), Routes, Plain(openapi), Plain(dispatcher)>>, <<>>),
     InSetup(<<Cors, Plain(dispatcher), Config(openapi, <<>>, <<route>>), Routes>>,
             <<PerMod(route)>>),
     InSetup(<<Plain(dispatcher), Cors, Config(openapi, <<>>, <<cors>>), Routes>>,
             <<PerMod(cors), PerMod(route)>>),
     InSetup(<<Config(dispatcher, <<openapi>>, <<>>), Cors, Config(openapi, <<route>>, <<>>),
               Routes>>, <<>>),
     InSetup(<<Config(openapi, <<>>, <<cors>>), Plain(dispatcher),
               Config(cors, <<>>, <<openapi>>), Routes>>, <<>>),
     [configs |-> <<Plain(openapi), Cors, Plain(dispatcher), Routes>>,
      asks |-> [Usual EXCEPT ![dispatcher] = <<PerApp(route), PerApp(cors)>>]]}
=============================================================================
