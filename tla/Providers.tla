------------------------------ MODULE Providers ------------------------------
(***************************************************************************)
(* Providers and what they need (packages/core/src/di): the vocabulary of  *)
(* Injector and of ModuleImports, and a definition, without any recursion  *)
(* over calls, of what can be built where.                                 *)
(*                                                                         *)
(* A provider is a record [token, impl, multi]: whatever its kind (class,  *)
(* value, factory, token) it has an implementation, and dependencies come  *)
(* with the implementation.  A dependency is a record [token, optional,    *)
(* visibility, input].  A layout gives each injector its providers, and    *)
(* Parent gives its parent.                                                *)
(***************************************************************************)
EXTENDS Naturals, Sequences, SequencesExt

CONSTANTS
    Impl,       \* implementations: classes, factories, values
    Deps,       \* the dependencies of each implementation, in order
    Alias,      \* implementations of token providers: they return their one dependency
    InjectorId, \* injectors; 1 has no parent
    Parent      \* the parent of an injector

Outside == 0    \* the parent of the outermost injector

ASSUME ProvidersAssumption ==
    /\ InjectorId \subseteq Nat \ {Outside}
    /\ Parent \in [InjectorId -> InjectorId \union {Outside}]
    /\ \A i \in InjectorId : Parent[i] < i
    /\ Alias \subseteq Impl
    /\ \A a \in Alias : Len(Deps[a]) = 1

\* Tokens that no provider stands for: the injector itself, and the data a
\* dependency declared with inject(token, data) passes to its provider.
InjectorToken == "Injector"
InputToken == "input"

Needs(token) == [token |-> token, optional |-> FALSE, visibility |-> "none",
                 input |-> FALSE]

TokensOf(ps) == {ps[k].token : k \in DOMAIN ps}
With(ps, token) == SelectSeq(ps, LAMBDA p : p.token = token)

(* mergeResolvedProviders: of the providers of one token the last one       *)
(* counts, but multi providers all do; both kinds at once are refused.      *)
Mixed(ps) == \E k, n \in DOMAIN ps : ps[k].token = ps[n].token /\ ps[k].multi # ps[n].multi

Impls(ps, token) ==
    LET own == With(ps, token)
    IN  IF own = <<>> THEN <<>>
        ELSE IF own[1].multi THEN [k \in DOMAIN own |-> own[k].impl]
        ELSE <<Last(own).impl>>

-----------------------------------------------------------------------------
(* What a dependency declared at injector i refers to: the nearest injector *)
(* above that provides the token, or Outside.                               *)
Ancestors(i) ==
    LET up[n \in Nat] == IF n = Outside THEN {} ELSE {n} \union up[Parent[n]]
    IN  up[i]

Owner(layout, i, dep) ==
    LET start == IF dep.visibility = "skipSelf" THEN Parent[i] ELSE i
        seen  == IF dep.visibility = "fromSelf" THEN {i} ELSE Ancestors(start)
        hits  == {n \in seen : dep.token \in TokensOf(layout[n])}
    IN  IF hits = {} THEN Outside ELSE CHOOSE n \in hits : \A m \in hits : m <= n

(* A node is what is built: the implementations of a token that `owner`     *)
(* provides, in the context of the injector `at`.  The two differ only when *)
(* data is passed, because that builds in the injector that asks.           *)
Node(at, owner, token) == [at |-> at, owner |-> owner, token |-> token]

DepsOf(layout, node) ==
    LET impls == Impls(layout[node.owner], node.token)
    IN  {d \in UNION {ToSet(Deps[impls[k]]) : k \in DOMAIN impls} :
            d.token \notin {InjectorToken, InputToken}}

\* Data goes to the nearest provider whatever the visibility says.
OwnerOf(layout, i, dep) ==
    IF dep.input THEN Owner(layout, i, Needs(dep.token)) ELSE Owner(layout, i, dep)

Successors(layout, node) ==
    {LET owner == OwnerOf(layout, node.at, d)
     IN  Node(IF d.input THEN node.at ELSE owner, owner, d.token) :
        d \in {d \in DepsOf(layout, node) : OwnerOf(layout, node.at, d) # Outside}}

(* Everything that has to be built for the nodes S, S excluded.             *)
Nodes(layout) == [at : InjectorId, owner : InjectorId,
                  token : UNION {TokensOf(layout[i]) : i \in InjectorId}]
Below(layout, S) ==
    LET next(T) == UNION {Successors(layout, n) : n \in T}
        grow[T \in SUBSET Nodes(layout)] ==
            IF next(T) \subseteq T THEN T ELSE grow[T \union next(T)]
    IN  grow[next(S)]

Complete(layout, node) ==
    \A d \in DepsOf(layout, node) : d.optional \/ OwnerOf(layout, node.at, d) # Outside

(* The dependency can be met at injector i: something provides it, and what *)
(* it takes to build it is provided and does not take itself.               *)
Buildable(layout, i, dep) ==
    /\ Owner(layout, i, dep) # Outside
    /\ LET node  == Node(Owner(layout, i, dep), Owner(layout, i, dep), dep.token)
           all   == {node} \union Below(layout, {node})
       IN  \A n \in all : Complete(layout, n) /\ n \notin Below(layout, {n})
=============================================================================
