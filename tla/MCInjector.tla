------------------------------ MODULE MCInjector -----------------------------
(***************************************************************************)
(* An application injector, a module injector and two of requests.         *)
(***************************************************************************)
EXTENDS Injector

Dep(t) == Needs(t)
Optional(t) == [Needs(t) EXCEPT !.optional = TRUE]
SkipSelf(t) == [Needs(t) EXCEPT !.visibility = "skipSelf"]
FromSelf(t) == [Needs(t) EXCEPT !.visibility = "fromSelf"]
WithInput(t) == [Needs(t) EXCEPT !.input = TRUE]

MCDeps == [
    a_needs_bc       |-> <<Dep("B"), Dep("C")>>,
    a_maybe_b        |-> <<Optional("B"), Dep("C")>>,
    a_own_c          |-> <<FromSelf("C")>>,
    a_tells_b        |-> <<WithInput("B"), Dep("C")>>,
    b_needs_c        |-> <<Dep("C")>>,
    b_wraps_b        |-> <<[SkipSelf("B") EXCEPT !.optional = TRUE], Dep("C")>>,
    b_needs_a        |-> <<Dep("Injector"), Dep("A")>>,
    b_told           |-> <<Dep("input"), Dep("C")>>,
    c_plain          |-> <<>>,
    c_void           |-> <<>>,
    c_throws         |-> <<Optional("B")>>,
    c_is_b           |-> <<Dep("B")>>,
    c_multi_1        |-> <<>>,
    c_multi_2        |-> <<>>]
MCImpl == DOMAIN MCDeps
MCAlias == {"c_is_b"}
MCThrowing == {"c_throws"}
MCVoid == {"c_void"}
MCInjectorId == 1..4
MCParent == <<0, 1, 2, 2>>
MCToken == {"A", "B", "C"}

P(t, i) == [token |-> t, impl |-> i, multi |-> FALSE]
M(t, i) == [token |-> t, impl |-> i, multi |-> TRUE]

AppLists == {<<>>, <<P("C", "c_plain")>>,
             <<M("C", "c_multi_1"), M("C", "c_multi_2")>>,
             <<P("B", "b_needs_c"), P("C", "c_void")>>,
             <<P("A", "a_maybe_b"), P("B", "b_needs_a"), P("C", "c_plain")>>}
ModLists == {<<P("B", "b_needs_c")>>, <<P("A", "a_needs_bc"), P("B", "b_wraps_b")>>,
             <<P("A", "a_maybe_b"), P("C", "c_is_b")>>,
             <<P("B", "b_needs_c"), P("C", "c_throws"), P("B", "b_needs_a")>>,
             <<P("B", "b_wraps_b"), P("C", "c_plain")>>,
             <<P("A", "a_tells_b"), P("B", "b_told"), P("C", "c_void")>>}
ReqLists == {<<P("C", "c_plain"), P("A", "a_own_c")>>,
             <<P("A", "a_needs_bc"), P("C", "c_void")>>,
             <<P("A", "a_tells_b"), P("B", "b_told")>>,
             <<P("B", "b_wraps_b")>>}
MCLayouts == {[i \in 1..4 |-> CASE i = 1 -> a [] i = 2 -> m [] OTHER -> r] :
                 a \in AppLists, m \in ModLists, r \in ReqLists}
=============================================================================
