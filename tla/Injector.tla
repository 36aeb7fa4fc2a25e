------------------------------- MODULE Injector ------------------------------
(***************************************************************************)
(* packages/core/src/di/injector.ts, path-tracer.ts and deps-checker.ts:   *)
(* a hierarchy of injectors that instantiate providers on demand and keep  *)
(* what they made.  A call of get() or pull() is one step, for everything  *)
(* it does is synchronous; what it does is a recursion over dependencies   *)
(* that changes the registries it passes, also when it fails half way.     *)
(*                                                                         *)
(* A value is a sequence of instances: one, none for undefined, several    *)
(* for the array of a multi provider.  An instance is known by what it is  *)
(* of, the injector it was made in, and a number; the injector itself and  *)
(* data passed with inject(token, data) are instances too.                 *)
(***************************************************************************)
EXTENDS Providers, Functions

CONSTANTS
    Token,      \* the tokens asked for
    Layouts,    \* the providers given to each injector
    Throwing,   \* implementations whose factory throws
    Void,       \* implementations that return undefined
    Requests,   \* injectors that live as long as one request
    MaxDepth    \* bound: calls nested deeper than this overflow the stack

ASSUME InjectorAssumption ==
    /\ Throwing \subseteq Impl /\ Void \subseteq Impl /\ Requests \subseteq InjectorId
    /\ \A l \in Layouts : DOMAIN l = InjectorId /\ \A i \in InjectorId : ~Mixed(l[i])
    /\ MaxDepth \in Nat

VARIABLES
    layout,     \* the prototypes of the registries (constant)
    registry,   \* the values kept by each injector (own properties)
    made        \* the instances there are, and the arguments each was made with

vars == <<layout, registry, made>>

Init ==
    /\ layout \in Layouts
    /\ registry = [i \in InjectorId |-> <<>>]
    /\ made = <<>>

-----------------------------------------------------------------------------
(* What a call works on: the registries, the instances, the PathTracer      *)
(* (latest item first) and its outcome so far.                              *)
Call == [reg |-> registry, made |-> made, path |-> <<>>, args |-> <<>>, err |-> "none", val |-> <<>>]

Returns(c, v) == [c EXCEPT !.val = v]
Throws(c, e) == [c EXCEPT !.err = e]

Kept(c, i, t) == t \in DOMAIN c.reg[i]
Keep(c, i, t) ==
    [c EXCEPT !.reg[i] = [k \in DOMAIN @ \union {t} |-> IF k = t THEN c.val ELSE @[k]]]

Instance(of, at, no) == [of |-> of, at |-> at, no |-> no]
TheInjector(i) == Instance("Injector", i, 0)
Data == Instance("input", Outside, 0)
NewInstance(c, impl, at) ==
    LET no == CHOOSE k \in 1..Cardinality(DOMAIN c.made) + 1 :
                  /\ Instance(impl, at, k) \notin DOMAIN c.made
                  /\ \A j \in 1..k - 1 : Instance(impl, at, j) \in DOMAIN c.made
    IN  Instance(impl, at, no)

(* PathTracer.                                                              *)
Traced(c, t, i) == \E k \in DOMAIN c.path : c.path[k] = <<t, i>>
AddItem(c, t, i) == [c EXCEPT !.path = <<<<t, i>>>> \o @, !.val = <<>>]

\* A mistake: only one item is removed, though each injector passed adds one.
RemoveFirstItem(c) == [c EXCEPT !.path = IF @ = <<>> THEN <<>> ELSE Tail(@)]

\* Removes every leading item of the first one's token.
RemoveFirstToken(c) ==
    LET first == IF c.path = <<>> THEN "" ELSE c.path[1][1]
        rest  == {k \in DOMAIN c.path : c.path[k][1] # first}
    IN  [c EXCEPT !.path = IF rest = {} THEN <<>>
                           ELSE SubSeq(@, CHOOSE k \in rest : \A n \in rest : k <= n, Len(@))]

RECURSIVE GetOrThrow(_, _, _, _, _), Arguments(_, _, _, _, _),
          InstantiateAll(_, _, _, _, _)

SelectInjectorAndGet(c, this, dep, depth) ==
    IF dep.token = InjectorToken THEN Returns(c, <<TheInjector(this)>>)
    ELSE GetOrThrow(c, this, IF dep.visibility = "skipSelf" THEN Parent[this] ELSE this,
                    dep, depth)

(* instantiate: the dependencies in turn, then the factory.                 *)
\* The call c has brought one more argument.
Argument(c, traced) ==
    IF c.err # "none" THEN c
    ELSE [(IF traced THEN RemoveFirstToken(c) ELSE c) EXCEPT !.args = Append(@, c.val)]

Arguments(c, this, deps, data, depth) ==
    IF deps = <<>> \/ c.err # "none" THEN c
    ELSE Arguments(
           Argument(IF Head(deps).token = InputToken THEN Returns(c, data)
                    ELSE [SelectInjectorAndGet(c, this, Head(deps), depth) EXCEPT !.args = c.args],
                    Head(deps).token # InputToken),
           this, Tail(deps), data, depth)

Factory(c, this, impl) ==
    LET new == NewInstance(c, impl, this)
    IN  CASE c.err # "none" -> c
          [] c.err = "none" /\ impl \in Throwing -> Throws(c, "factory")
          [] c.err = "none" /\ impl \in Alias -> Returns(c, c.args[1])
          [] OTHER -> [c EXCEPT !.made = (new :> c.args) @@ @,
                                !.val = IF impl \in Void THEN <<>> ELSE <<new>>]

Instantiate(c, this, impl, data, depth) ==
    Factory(Arguments([c EXCEPT !.args = <<>>], this, Deps[impl], data, depth), this, impl)

\* _instantiateResolved: the values of the factories impls, after those in c.val.
Collect(c, val) == IF c.err # "none" THEN c ELSE Returns(c, val \o c.val)
InstantiateAll(c, this, impls, data, depth) ==
    IF impls = <<>> \/ c.err # "none" THEN c
    ELSE InstantiateAll(Collect(Instantiate(c, this, Head(impls), data, depth), c.val),
                        this, Tail(impls), data, depth)

\* A mistake: the context is the injector whose provider asked.
ContextAsking(this, at) == this

\* The injector in whose context a provider of injector `at` is instantiated.
Context(this, at) == at

\* getResolvedProvider: the nearest prototype, this injector's first.
NearestImpls(this, token) ==
    LET owner == Owner(layout, this, Needs(token))
    IN  IF owner = Outside THEN <<>> ELSE Impls(layout[owner], token)

\* With data: what is made is not kept, and its path is its own.
Finish(c, traced, at, dep) ==
    IF dep.input THEN [c EXCEPT !.path = traced.path]
    ELSE IF c.err = "none" THEN Keep(c, at, dep.token) ELSE c

GetOrThrow(c, this, at, dep, depth) ==
    LET t      == dep.token
        here   == at # Outside
        traced == AddItem(c, t, at)
        impls  == IF ~here THEN <<>>
                  ELSE IF dep.input THEN NearestImpls(this, t) ELSE Impls(layout[at], t)
        data   == IF dep.input THEN <<Data>> ELSE <<>>
        start  == IF dep.input THEN [traced EXCEPT !.path = <<>>] ELSE traced
    IN  IF depth = 0 THEN Throws(c, "overflow")
        ELSE IF Traced(c, t, at) THEN Throws(c, "CyclicDependency")
        ELSE IF here /\ ~dep.input /\ Kept(c, at, t) THEN Returns(traced, c.reg[at][t])
        ELSE IF impls # <<>>
             THEN Finish(InstantiateAll(start, IF dep.input THEN this ELSE Context(this, at),
                                        impls, data, depth - 1), traced, at, dep)
        ELSE IF here /\ ~dep.input /\ dep.visibility # "fromSelf" /\ Parent[at] # Outside
             THEN GetOrThrow(traced, Parent[at], Parent[at],
                             [dep EXCEPT !.visibility = "none"], depth - 1)
        ELSE IF dep.optional THEN Returns(traced, <<>>)
        ELSE Throws(traced, "NoProvider")

(* injector.get(token) and injector.pull(token): the latter builds what only *)
(* a parent provides in the context of this injector, and does not keep it. *)
Got(i, token) == SelectInjectorAndGet(Call, i, Needs(token), MaxDepth)

\* A mistake: what was pulled is kept as if this injector provided it.
PulledKept(i, token) ==
    LET c == InstantiateAll(AddItem(Call, token, i), i, NearestImpls(i, token), <<>>, MaxDepth)
    IN  IF NearestImpls(i, token) = <<>> \/ Kept(Call, i, token) \/ c.err # "none"
        THEN Got(i, token) ELSE Keep(c, i, token)

Pulled(i, token) ==
    LET own == Impls(layout[i], token)
        c   == InstantiateAll(AddItem(Call, token, i), i, NearestImpls(i, token), <<>>, MaxDepth)
    IN  IF Kept(Call, i, token) THEN Returns(Call, registry[i][token])
        ELSE IF NearestImpls(i, token) = <<>> THEN Throws(Call, "NoProvider")
        ELSE IF c.err = "none" /\ own # <<>> THEN Keep(c, i, token) ELSE c

(* What no registry leads to is forgotten: nobody in the model holds it.    *)
HeldBy(reg, i) == UNION {ToSet(reg[i][t]) : t \in DOMAIN reg[i]}
Held(reg, m) ==
    LET args(S) == UNION {UNION {ToSet(m[n][k]) : k \in DOMAIN m[n]} : n \in S \intersect DOMAIN m}
        grow[S \in SUBSET (DOMAIN m \union {Data} \union {TheInjector(i) : i \in InjectorId})] ==
            IF args(S) \subseteq S THEN S ELSE grow[S \union args(S)]
    IN  grow[UNION {HeldBy(reg, i) : i \in InjectorId}] \intersect DOMAIN m

Called(c) ==
    /\ registry' = c.reg
    /\ made' = Restrict(c.made, Held(c.reg, c.made))
    /\ UNCHANGED layout

Get(i, token) == Called(Got(i, token))
Pull(i, token) == Called(Pulled(i, token))

\* A request ends, another one begins with a new injector.
NewRequest(i) ==
    /\ registry[i] # <<>>
    /\ registry' = [registry EXCEPT ![i] = <<>>]
    /\ made' = Restrict(made, Held(registry', made))
    /\ UNCHANGED layout

Next ==
    \/ \E i \in InjectorId, t \in Token : Get(i, t)
    \/ \E i \in InjectorId, t \in Token : Pull(i, t)
    \/ \E i \in Requests : NewRequest(i)

Spec == Init /\ [][Next]_vars

-----------------------------------------------------------------------------
(* DepsChecker.check: the same walk over the prototypes alone, which makes  *)
(* nothing.  Data is passed on, but each injector builds what it provides.  *)
RECURSIVE Checked(_, _, _, _), CheckedEach(_, _, _, _)

CheckedEach(c, at, deps, depth) ==
    IF deps = <<>> \/ c.err # "none" THEN c
    ELSE LET r == Checked(c, at, Head(deps), depth)
         IN  CheckedEach(IF Head(deps).token = InputToken THEN c
                         ELSE IF r.err = "none" THEN RemoveFirstToken(r) ELSE r,
                         at, Tail(deps), depth)

\* A mistake: an optional dependency is not looked into.
CheckedRequired(c, this, dep, depth) ==
    LET owner == Owner(layout, this, dep)
        deps  == FoldLeft(LAMBDA s, impl : s \o Deps[impl], <<>>, Impls(layout[owner], dep.token))
    IN  IF dep.optional \/ dep.token = InjectorToken THEN c
        ELSE IF owner = Outside THEN Throws(c, "NoProvider")
        ELSE IF depth = 0 THEN Throws(c, "overflow")
        ELSE CheckedEach(AddItem(c, dep.token, owner), owner, deps, depth - 1)

\* The injectors between this one and the owner leave their items as well.
Checked(c, this, dep, depth) ==
    LET start  == IF dep.visibility = "skipSelf" THEN Parent[this] ELSE this
        owner  == Owner(layout, this, dep)
        passed == IF start = Outside THEN {Outside}
                  ELSE IF dep.visibility = "fromSelf" THEN {start}
                  ELSE {n \in Ancestors(start) : n >= owner}
        traced == FoldLeft(LAMBDA d, n : AddItem(d, dep.token, n), c,
                           Reverse(SetToSortSeq(passed, <)))
        deps   == FoldLeft(LAMBDA s, impl : s \o Deps[impl], <<>>, Impls(layout[owner], dep.token))
    IN  IF dep.token = InjectorToken THEN c
        ELSE IF depth = 0 THEN Throws(c, "overflow")
        ELSE IF \E n \in passed : Traced(c, dep.token, n) THEN Throws(c, "CyclicDependency")
        ELSE IF owner # Outside THEN CheckedEach(traced, owner, deps, depth - 1)
        ELSE IF dep.optional THEN traced ELSE Throws(traced, "NoProvider")

Check(i, token) == Checked(Call, i, Needs(token), MaxDepth)
-----------------------------------------------------------------------------
(* Whatever was called before: a token can be got from an injector exactly  *)
(* if everything it takes is provided and nothing takes itself, unless a    *)
(* factory throws (get, PathTracer; injector.ts:639, path-tracer.ts:30).    *)
GetsWhatCanBeBuilt ==
    \A i \in InjectorId, t \in Token :
       LET err == Got(i, t).err
       IN  err # "factory" => ((err = "none") <=> Buildable(layout, i, Needs(t)))

(* DepsChecker finds fault exactly where get would (deps-checker.ts:24-29:  *)
(* "An analogue of injector.get()"), whatever has been made already.  Data  *)
(* is excepted: get builds such a provider in the injector that asks for    *)
(* it, the check in the one that provides it.                               *)
TakesData(i, t) ==
    LET owner == Owner(layout, i, Needs(t))
    IN  /\ owner # Outside
        /\ LET node == Node(owner, owner, t)
           IN  \E n \in {node} \union Below(layout, {node}) :
                  \E d \in DepsOf(layout, n) : d.input

CheckedMeansBuilt ==
    \A i \in InjectorId, t \in Token :
       LET err == Got(i, t).err
       IN  \/ err = "factory"
           \/ TakesData(i, t)
           \/ (Check(i, t).err = "none") <=> (err = "none")

(* The arguments of every instance that is kept are what its injector would *)
(* give now: none is of a narrower scope, or was replaced by one made again *)
(* behind its back.  An instance made for data is nobody else's (get's doc, *)
(* injector.ts:590-592).                                                    *)
Current(c, n) ==
    \A k \in DOMAIN c.made[n] :
       LET dep   == Deps[n.of][k]
           owner == Owner(layout, n.at, dep)
           arg   == c.made[n][k]
       IN  CASE dep.token = InjectorToken -> arg = <<TheInjector(n.at)>>
             [] dep.token = InputToken -> TRUE
             [] dep.token \notin {InjectorToken, InputToken} /\ dep.input ->
                  \A j \in ToSet(arg) : j.at = n.at /\ \A i \in InjectorId : j \notin HeldBy(c.reg, i)
             [] OTHER -> IF owner = Outside THEN dep.optional /\ arg = <<>>
                         ELSE Kept(c, owner, dep.token) /\ arg = c.reg[owner][dep.token]

ArgumentsAreCurrent ==
    \A i \in InjectorId : \A n \in HeldBy(registry, i) : n.at \in Ancestors(i) /\ Current(Call, n)

(* An injector makes what it provides once, undefined included: later calls *)
(* give the same and make nothing, and no call replaces what is kept.  What *)
(* is pulled from a parent is new each time, made in the context of the     *)
(* injector that pulls it, and kept by nobody (pull's doc, :752-783); a     *)
(* token provider makes nothing, it returns what it is an alias for.        *)
InstancesAreShared ==
    \A i \in InjectorId, t \in Token :
       LET again  == Got(i, t)
           pulled == Pulled(i, t)
       IN  /\ Kept(Call, i, t) => /\ again.val = registry[i][t] /\ again.made = made
                                  /\ pulled.val = again.val /\ pulled.made = made
           /\ \A j \in InjectorId : \A u \in DOMAIN registry[j] :
                 Kept(again, j, u) /\ again.reg[j][u] = registry[j][u]
           /\ t \notin TokensOf(layout[i]) /\ pulled.err = "none"
              /\ ToSet(NearestImpls(i, t)) \intersect Alias = {} =>
                 /\ ~Kept(pulled, i, t)
                 /\ \A n \in ToSet(pulled.val) : n \notin DOMAIN made /\ n.at = i /\ Current(pulled, n)

(* Whatever is got, in whatever order, the instances that injectors keep    *)
(* are what they would make now, made once and out of what they keep.       *)
InstancesAreSound == ArgumentsAreCurrent /\ InstancesAreShared
=============================================================================
