----------------------------- MODULE MCDeepImports ---------------------------
(***************************************************************************)
(* A root, a module A with a service S, a module B that offers T and a     *)
(* module C that offers U, in many variants: with a chain S -> T -> U over *)
(* three modules, with multi providers V, with providers that collide,     *)
(* re-exports, exports of the root, extensions X and import cycles.        *)
(***************************************************************************)
EXTENDS DeepImports

Dep(t) == Needs(t)
Optional(t) == [Needs(t) EXCEPT !.optional = TRUE]
MCDeps == [
    s_needs_t |-> <<Dep("T")>>,      s_maybe_t |-> <<Optional("T"), Dep("Injector")>>,
    s_needs_v |-> <<Dep("V"), Dep("T")>>,
    t_plain   |-> <<>>,              t_needs_u |-> <<Dep("U")>>,
    t_needs_s |-> <<Dep("S")>>,      t_other   |-> <<Dep("W")>>,
    u_plain   |-> <<>>,              u_factory |-> <<>>,   u_method |-> <<>>,
    v_first   |-> <<>>,              v_second  |-> <<Dep("W")>>,
    w_plain   |-> <<>>,              x_needs_w |-> <<Dep("W")>>, x_needs_t |-> <<Dep("T")>>]
MCImpl == DOMAIN MCDeps
MCKind == [i \in MCImpl |-> CASE i = "u_factory" -> "functionFactory"
                              [] i = "u_method" -> "methodFactory"
                              [] i = "w_plain" -> "value"
                              [] OTHER -> "class"]
MCInjectorId == 1..4
MCParent == <<0, 1, 2, 3>>

P(t, i) == [token |-> t, impl |-> i, multi |-> FALSE]
M(t, i) == [token |-> t, impl |-> i, multi |-> TRUE]
Module(imports, reexports, mod, req, exports, resolved, external, ext) ==
    [imports |-> imports, reexports |-> reexports, own |-> <<<<>>, mod, <<>>, req>>, exports |-> exports,
     resolved |-> resolved, external |-> external, ext |-> ext]

Resolved(m) == <<[level |-> 2, token |-> "T", module |-> m]>>
Root1(i, re, own, r) == Module(i, re, own, <<>>, <<>>, r, FALSE, <<>>)
Roots == {Root1(<<2>>, re, <<>>, <<>>) : re \in {<<>>, <<3>>}}
         \union {Root1(<<3, 2, 4>>, <<>>, own, r) : own \in {<<>>, <<P("T", "t_plain")>>},
                                              r \in {<<>>, Resolved(3), Resolved(4)}}
As == {Module(<<4, 3>>, re, <<>>, <<P("S", "s_needs_t")>>, <<"S">>, <<>>, FALSE, <<>>) : re \in {<<>>, <<3>>}}
      \union {Module(<<3, 4>>, <<4>>, <<P("S", "s_needs_v"), M("V", "v_first"), M("V", "v_second"),
                                       P("T", "t_other"), P("W", "w_plain")>>, <<>>,
                     e, <<>>, FALSE, <<>>) : e \in {<<"S">>, <<"S", "V", "T">>}}
      \union {Module(<<3>>, <<>>, <<P("S", "s_maybe_t")>>, <<>>, <<"S">>, <<>>, TRUE, <<>>),
              Module(<<3>>, <<>>, <<>>, <<P("S", "s_needs_t")>>, <<"S">>, <<>>, FALSE, <<>>),
              Module(<<3>>, <<>>, <<P("S", "s_maybe_t"), P("U", "u_method")>>, <<>>, <<"S", "U">>, <<>>, FALSE,
                     <<P("X", "x_needs_t")>>)}
Bs == {Module(<<4>>, <<>>, <<P("T", "t_needs_u")>>, <<>>, <<"T">>, <<>>, e, <<>>) : e \in BOOLEAN}
      \union {
       Module(<<4>>, <<4>>, <<P("T", "t_plain"), P("U", "u_method")>>, <<>>, <<"T", "U">>, <<>>, FALSE, <<>>),
       Module(<<4, 2>>, <<>>, <<P("T", "t_needs_s"), M("V", "v_first")>>, <<>>, <<"T", "V">>, <<>>, FALSE, <<>>),
       Module(<<>>, <<>>, <<>>, <<P("T", "t_plain")>>, <<"T">>, <<>>, TRUE, <<>>)}
Cs == {Module(<<>>, <<>>, <<P("U", "u_factory")>>, <<>>, <<"U">>, <<>>, FALSE, <<>>),
       Module(<<3>>, <<>>, <<P("U", "u_plain"), P("T", "t_other"), P("W", "w_plain")>>, <<>>, <<"U", "T">>,
              <<>>, FALSE, <<>>),
       Module(<<>>, <<>>, <<P("U", "u_plain"), P("W", "w_plain")>>, <<>>, <<"U">>, <<>>, FALSE,
              <<P("X", "x_needs_w")>>)}
AppLists == {<<>>, <<P("U", "u_plain")>>}
Sound == {[modules |-> <<r, a, b, c>>, perApp |-> p] : r \in Roots, a \in As, b \in Bs, c \in Cs, p \in AppLists}

\* Modules that cannot be normalised: an unknown export, an export of what is
\* provided to the application, a re-export of what is not imported.
Odd == {Module(<<3>>, <<4>>, <<P("S", "s_needs_t")>>, <<>>, <<"S">>, <<>>, FALSE, <<>>),
        Module(<<3>>, <<>>, <<P("S", "s_needs_t")>>, <<>>, <<"T">>, <<>>, FALSE, <<>>),
        [Module(<<3>>, <<>>, <<>>, <<>>, <<"S">>, <<>>, FALSE, <<>>)
            EXCEPT !.own[1] = <<P("S", "s_needs_t")>>]}
Unsound == {[modules |-> <<r, a, b, c>>, perApp |-> <<>>] :
              r \in {CHOOSE r \in Roots : TRUE}, a \in Odd, b \in Bs, c \in {CHOOSE c \in Cs : TRUE}}
MCApps == {a \in Sound \union Unsound :
              Len(ScanOrder(a.modules)) = 4 /\ (a.modules[1].resolved # <<>> => a.perApp = <<>>)}
=============================================================================
