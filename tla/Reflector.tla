------------------------------ MODULE Reflector ------------------------------
(***************************************************************************)
(* packages/core/src/di/reflector.ts and parent-params.ts: what the        *)
(* decorators of a class and of the classes it extends say of its          *)
(* constructor and methods, and which arguments the injector builds from   *)
(* that.  A class declares                                                 *)
(*   parent  the class it extends, or Object                               *)
(*   marks   the decorators of the class itself                            *)
(*   ctor    what the parameters of its constructor are, or Delegated if   *)
(*           it has none and its parent's is called                        *)
(*   own     its methods: their decorators, in the order in which they are *)
(*           applied, whether parameters are annotated, and what they are  *)
(* TypeScript emits the types of the parameters of what is decorated only. *)
(* All decorators are applied before collectMeta() is first asked, so what *)
(* it has cached never differs from what it would compute.                 *)
(***************************************************************************)
EXTENDS Naturals, Sequences, SequencesExt, TLC

CONSTANTS
    Classes,        \* the classes of the program
    Object,         \* what a class extends that extends nothing
    Delegated,      \* the constructor of a class that has none
    Unknown,        \* a parameter of which nothing is known
    ParentParams    \* the parameter for the arguments of the parent

Class == DOMAIN Classes

ASSUME ReflectorAssumption ==
    /\ Object \notin Class
    /\ \A c \in Class :
          /\ Classes[c].parent \in Class \union {Object}
          /\ Classes[c].ctor = Delegated => Classes[c].parent # Object

(* A function that TLC computes once and not at every application.          *)
Table(f) == f @@ <<>>

Declared == Table(Classes)
Own(c) == DOMAIN Declared[c].own
Unlabelled(params) == [k \in DOMAIN params |-> Unknown]

(* collectMetaChain: the classes from the first ancestor to the class.      *)
MetaChain[c \in Class] ==
    Append(IF Declared[c].parent = Object THEN <<>> ELSE MetaChain[Declared[c].parent], c)

(* collectParamMeta of a constructor, the parent's for one that delegates,  *)
(* and of a method.                                                         *)
CtorMeta[c \in Class] ==
    IF Declared[c].ctor = Delegated THEN CtorMeta[Declared[c].parent]
    ELSE IF Declared[c].marks # {} THEN Declared[c].ctor
    ELSE Unlabelled(Declared[c].ctor)

OwnMeta(own) ==
    [m \in {k \in DOMAIN own : own[k].decorators # <<>> \/ own[k].annotated} |->
        [decorators |-> own[m].decorators, params |-> own[m].params]]
ClassMeta == Table([c \in Class |-> OwnMeta(Declared[c].own)])
HasMeta(c, m) == m \in DOMAIN ClassMeta[c]

(* collectMeta and mergeClassMeta: of a method the decorators of the        *)
(* nearest declaration that has any on it or its parameters, which may be   *)
(* none, and the parameters of all declarations that have decorators.  (The *)
(* params that removeOverridenParams clears are read by nothing else.)      *)
Holders(metas, chain, m) == SelectSeq(chain, LAMBDA k : m \in DOMAIN metas[k])
Merged(metas, chain) ==
    [m \in UNION {DOMAIN metas[k] : k \in ToSet(chain)} |->
        LET of == Holders(metas, chain, m)
        IN  [decorators |-> metas[Last(of)][m].decorators,
             paramChain |-> [k \in DOMAIN of |-> metas[of[k]][m].params]]]
CollectMeta == Table([c \in Class |-> Merged(ClassMeta, MetaChain[c])])

(* ProviderBuilder.useFactories: the methods that are marked as factories.  *)
FactoriesIn(meta) == {m \in DOMAIN meta : \E d \in ToSet(meta[m].decorators) : d.kind = "factory"}
Factories == Table([c \in Class |-> FactoriesIn(CollectMeta[c])])

(* Class.prototype.method: the function of the nearest class that has it.   *)
Prototype(c, m) == <<Last(SelectSeq(MetaChain[c], LAMBDA k : m \in Own(k))), m>>
Function(f) == Declared[f[1]].own[f[2]]

-----------------------------------------------------------------------------
(* ParentParams: the parameters of a chain in one list, in which those of   *)
(* the parent stand wherever its child asks for them, and a recipe that     *)
(* tells which item of the list is which argument.                          *)
Item(at) == [at |-> at, sub |-> <<>>]
Nested(recipe) == [at |-> 0, sub |-> recipe]

RECURSIVE Rebase(_, _)
Rebase(recipe, offset) ==
    [k \in DOMAIN recipe |-> IF recipe[k].at # 0 THEN Item(recipe[k].at + offset)
                             ELSE Nested(Rebase(recipe[k].sub, offset))]

\* A mistake: what is nested in the arguments of the parent stays where it was.
RebaseOnce(recipe, offset) ==
    [k \in DOMAIN recipe |-> IF recipe[k].at # 0 THEN Item(recipe[k].at + offset) ELSE recipe[k]]
RebaseRecipe(recipe, offset) == Rebase(recipe, offset)

ParamsAndRecipe(chain) ==
    LET join(parent, acc, p) ==
            IF p = ParentParams
            THEN [params |-> acc.params \o parent.params,
                  recipe |-> Append(acc.recipe, Nested(RebaseRecipe(parent.recipe, Len(acc.params))))]
            ELSE [params |-> Append(acc.params, p),
                  recipe |-> Append(acc.recipe, Item(Len(acc.params) + 1))]
        level(acc, own) ==
            FoldLeft(LAMBDA a, p : join(acc, a, p), [params |-> <<>>, recipe |-> <<>>], own)
    IN  FoldLeft(level, [params |-> <<>>, recipe |-> <<>>], chain)

(* getArgs.  An argument is made for a parameter, or is a list of such.     *)
One(p) == [one |-> p, list |-> <<>>]
RECURSIVE GetArgs(_, _)
GetArgs(recipe, results) ==
    [k \in DOMAIN recipe |-> IF recipe[k].at # 0 THEN One(results[recipe[k].at])
                             ELSE [one |-> ParentParams, list |-> GetArgs(recipe[k].sub, results)]]

(* The arguments the injector gives to the constructor: Injector.resolve-   *)
(* Provider and resolveFactoryProvider, when the class can be made.         *)
CtorChain(chain, metas) == [k \in DOMAIN chain |-> metas[chain[k]]]
CtorDeps == Table([c \in Class |-> ParamsAndRecipe(CtorChain(MetaChain[c], CtorMeta))])
CtorArgs(deps) == GetArgs(deps.recipe, deps.params)

(* ... and to a factory method, for which no recipe is followed.            *)
DepsOf(meta) == [m \in DOMAIN meta |-> ParamsAndRecipe(meta[m].paramChain).params]
MethodDeps == Table([c \in Class |-> DepsOf(CollectMeta[c])])
MethodArgs(deps) == [k \in DOMAIN deps |-> One(deps[k])]

(* Whether [c, c.prototype.m] can be resolved: getFactoryKey looks among    *)
(* the methods of c itself, and getDependencies throws on a parameter of    *)
(* which nothing is known.                                                  *)
CanResolve(c, m) ==
    /\ m \in Own(c)
    /\ Unknown \notin ToSet(MethodDeps[c][m]) \union ToSet(CtorDeps[c].params)

-----------------------------------------------------------------------------
(* The constructors that new c(...) runs, each with its arguments: one that *)
(* has ParentParams calls super(...parentParams), one that has not calls    *)
(* it with what it likes.                                                   *)
RECURSIVE ConstructorCalls(_, _)
ConstructorCalls(c, args) ==
    LET own  == Declared[c].ctor
        from == {k \in DOMAIN own \intersect DOMAIN args : own[k] = ParentParams}
    IN  IF own = Delegated THEN ConstructorCalls(Declared[c].parent, args)
        ELSE Append(IF from = {} \/ Declared[c].parent = Object THEN <<>>
                    ELSE ConstructorCalls(Declared[c].parent, args[CHOOSE k \in from : TRUE].list),
                    <<own, args>>)

(* The arguments are those that the parameters ask for.                     *)
Fit(params, args) == Len(params) = Len(args) /\ \A k \in DOMAIN params : args[k].one = params[k]

ConstructorsFit == Table([c \in Class |-> \A call \in ToSet(ConstructorCalls(c, CtorArgs(CtorDeps[c]))) : Fit(call[1], call[2])])

(* ... except below a constructor that delegates to one with ParentParams:  *)
(* what it delegates to is then nested once more.                           *)
Redelegates(c) ==
    \E k \in ToSet(MetaChain[c]) : Declared[k].ctor = Delegated /\ ParentParams \in ToSet(CtorMeta[k])
=============================================================================
