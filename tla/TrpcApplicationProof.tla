------------------------- MODULE TrpcApplicationProof -------------------------
(****************************************************************************)
(* What holds of TrpcApplication for any applications, classes, guards and  *)
(* scripts.  The argument follows a procedure on its way: the last route of *)
(* a source text is from the trpcRoute() on top (Ordered), it is what the   *)
(* Context keeps when stage3 is through (Prepared), the routers that the    *)
(* modules return have at each path what their Context keeps for the target *)
(* (Agree, level by level), so the router in place has at each path the     *)
(* chain of a route like the target (RouterFits), and a request has a part  *)
(* of such a chain before it and what it passed behind it (Running).        *)
(****************************************************************************)
EXTENDS TrpcApplication, FiniteSetTheorems, SequenceTheorems, WellFoundedInduction, TLAPS

\* Two methods of one module that share a source text.
Alike(x, y) == x.ref = y.ref /\ Text(x.class, x.method) = Text(y.class, y.method)

\* A route has the guards and interceptors of the trpcRoute() on top.
FromTop(x) == x.guards = OnTop(x).guards /\ x.interceptors = OnTop(x).interceptors

\* The routes there may be, and their sequences in which the last one of a
\* source text is from the trpcRoute() on top.
RouteSet(a) ==
    {[ref |-> r, class |-> x[1], method |-> x[2], guards |-> g, interceptors |-> i] :
        r \in Refs(a), x \in Marked(a), g \in Seq(STRING), i \in Seq(STRING)}
Ordered(a) ==
    {s \in Seq(RouteSet(a)) :
        \A n \in DOMAIN s : (\A m \in DOMAIN s : n < m => ~Alike(s[m], s[n])) => FromTop(s[n])}

\* The Contexts ctx have the first n of the routes of a.
TextOf(x) == Text(x.class, x.method)
Prepared(a, ctx, n) ==
    /\ ctx = [r \in Refs(a) |-> ctx[r]]
    /\ \A m \in 1..n : TextOf(Routes(a)[m]) \in DOMAIN ctx[Routes(a)[m].ref]
    /\ \A r \in Refs(a) : \A x \in DOMAIN ctx[r] : \E m \in 1..n :
          /\ Routes(a)[m].ref = r /\ TextOf(Routes(a)[m]) = x
          /\ \A l \in 1..n : m < l => ~Alike(Routes(a)[l], Routes(a)[m])
          /\ ctx[r][x] = Procedure(Routes(a)[m])

\* What a target is, and a router that serves targets by text.
IsTarget(a, t) ==
    \E r \in Refs(a) : \E key \in DOMAIN Mods(a)[r].config : \E p \in Seq(STRING), b \in BOOLEAN :
        /\ Mods(a)[r].config[key].kind # "module"
        /\ t = [path |-> p, ref |-> r, class |-> Mods(a)[r].config[key].class,
                method |-> Mods(a)[r].config[key].method, sole |-> b]
Agree(a, ctx, router, targets) ==
    /\ DOMAIN router \subseteq Seq(STRING)
    /\ \A t \in targets : IsTarget(a, t)
    /\ \A p \in DOMAIN router : \E t \in targets :
          t.path = p /\ TextOf(t) \in DOMAIN ctx[t.ref] /\ router[p] = ctx[t.ref][TextOf(t)]
    /\ \A t \in targets : t.sole /\ TextOf(t) \in DOMAIN ctx[t.ref] => t.path \in DOMAIN router

\* A router of the application a: at a path of a target, the procedure of a
\* route like it.
Answers(a, t, procedure) ==
    \E x \in ToSet(Routes(a)) : Alike(x, t) /\ FromTop(x) /\ procedure = Procedure(x)
RouterFits(a, router) ==
    /\ \A p \in DOMAIN router : \E t \in Targets(a) : t.path = p /\ Answers(a, t, router[p])
    /\ \A t \in Targets(a) : t.sole /\ Like(a, t) # {} => t.path \in DOMAIN router

\* A request q to the application a for the path of the target t runs what
\* its route x is for.
Asks(q, a, t, x) ==
    /\ t \in Targets(a) /\ t.path = q.path
    /\ x \in ToSet(Routes(a)) /\ Alike(x, t) /\ FromTop(x)
    /\ q.perReq = Procedure(x).perReq
\* It has done k steps of its chain; or is through, by an interceptor that has
\* answered in the place of a procedure.
Guarded(q, x, k) ==
    q.passed = SubSeq(x.guards, 1, IF k <= Len(x.guards) THEN k ELSE Len(x.guards))
Halfway(q, x, k) ==
    /\ q.rest = SubSeq(ChainOf(x), k + 1, Len(ChainOf(x)))
    /\ Guarded(q, x, k)
    /\ \A i \in 1..k : q.script[ChainOf(x)[i].of] = "pass"
AllPassed(q, x) == q.passed = x.guards /\ \A i \in 1..Len(x.guards) : q.script[x.guards[i]] = "pass"
Running(q) ==
    \E t, x :
        /\ Asks(q, q.of, t, x)
        /\ q.runs = Procedure(x).runs
        /\ \/ \E k \in 0..Len(ChainOf(x)) : Halfway(q, x, k)
           \/ q.rest = <<>> /\ ~q.perReq /\ AllPassed(q, x)
Answered(q) ==
    \E t, x :
        /\ Asks(q, q.of, t, x)
        /\ q.ran = Procedure(x).runs
        /\ AllPassed(q, x)
        /\ q.perReq => \A i \in 1..Len(x.interceptors) : q.script[x.interceptors[i]] = "pass"

\* The inductive invariant: how far the preparation is, what is served, and
\* where the request is.
IsRequest(q) ==
    q = [state |-> q.state, of |-> q.of, path |-> q.path, perReq |-> q.perReq, rest |-> q.rest,
         script |-> q.script, runs |-> q.runs, passed |-> q.passed, ran |-> q.ran]
Preparation ==
    /\ app \in DOMAIN Apps /\ kept \in DOMAIN Apps
    /\ \E n \in 0..Len(Routes(app)) :
          /\ todo = SubSeq(Routes(app), n + 1, Len(Routes(app)))
          /\ Prepared(app, context, n)
    /\ phase \in {"created", "serving"} => todo = <<>> /\ ~Stage1Throws(app)
Dispatching ==
    dispatcher.set =>
        /\ dispatcher.of \in DOMAIN Apps /\ ~Stage1Throws(dispatcher.of)
        /\ RouterFits(dispatcher.of, dispatcher.router)
Requesting ==
    /\ IsRequest(req)
    /\ req.state = "running" =>
          /\ req.of \in DOMAIN Apps /\ ~Stage1Throws(req.of) /\ req.script \in Scripts
          /\ req.ran = <<>> /\ Running(req)
    /\ req.ran # <<>> => req.of \in DOMAIN Apps /\ Answered(req)
IInv == Preparation /\ Dispatching /\ Requesting

-----------------------------------------------------------------------------
(* Operators.                                                               *)

\* A set of numbers has a least one.
LEMMA LeastOf ==
    ASSUME NEW S \in SUBSET Nat, S # {}
    PROVE  \E n \in S : \A k \in S : n <= k
<1>1. PICK n \in S : \A k \in S : <<k, n>> \notin OpToRel(<, Nat)
  BY WFMin, NatLessThanWellFounded, Zenon
<1>2. \A k \in S : ~(k < n)
  BY <1>1, Zenon DEF OpToRel
<1> QED
  BY <1>2

\* A non-empty set of indices has a last one.
LEMMA LastIs ==
    ASSUME NEW n \in Nat, NEW K \in SUBSET (1..n), K # {}
    PROVE  LastOf(K) \in K /\ \A l \in K : l <= LastOf(K)
<1> DEFINE U == {b \in Nat : \A l \in K : l <= b}
<1>1. U # {}
  <2> n \in U
    OBVIOUS
  <2> QED
    OBVIOUS
<1>2. PICK b \in U : \A c \in U : b <= c
  <2>1. U \in SUBSET Nat
    OBVIOUS
  <2> HIDE DEF U
  <2> QED
    BY <1>1, <2>1, LeastOf
<1>3. b \in K
  <2> SUFFICES ASSUME b \notin K PROVE FALSE
    OBVIOUS
  <2>1. \A l \in K : l <= b - 1
    OBVIOUS
  <2>2. b # 0
    <3>1. PICK l \in K : l <= b - 1
      BY <2>1
    <3> QED
      BY <3>1
  <2>3. b - 1 \in U
    BY <2>1, <2>2
  <2> QED
    BY <1>2, <2>3
<1>4. \E k \in K : \A l \in K : l <= k
  BY <1>3
<1> QED
  BY <1>4, Zenon DEF LastOf

\* The recursion of FlattenSeq defines a function.
LEMMA FlatteningExists ==
    ASSUME NEW seqs, NEW n \in Nat
    PROVE  \E f : f = [i \in 1..n |-> IF i = 1 THEN seqs[i] ELSE f[i - 1] \o seqs[i]]
<1> DEFINE Good(m) == \E f : f = [i \in 1..m |-> IF i = 1 THEN seqs[i] ELSE f[i - 1] \o seqs[i]]
           Bad == {m \in Nat : ~Good(m)}
<1> SUFFICES ASSUME Bad # {} PROVE FALSE
  OBVIOUS
<1>1. PICK m \in Bad : \A k \in Bad : m <= k
  <2> Bad \in SUBSET Nat
    OBVIOUS
  <2> HIDE DEF Bad
  <2> QED
    BY LeastOf
<1>2. m # 0
  <2>1. [i \in 1..0 |-> 0] = [i \in 1..0 |-> IF i = 1 THEN seqs[i] ELSE [j \in 1..0 |-> 0][i - 1] \o seqs[i]]
    OBVIOUS
  <2>2. Good(0)
    BY <2>1
  <2> QED
    BY <2>2
<1>3. m - 1 \in Nat /\ Good(m - 1)
  <2>1. m - 1 \in Nat /\ ~(m <= m - 1)
    BY <1>2
  <2>2. m - 1 \notin Bad
    BY <1>1, <2>1
  <2> QED
    BY <2>1, <2>2
<1>4. PICK f : f = [i \in 1..(m - 1) |-> IF i = 1 THEN seqs[i] ELSE f[i - 1] \o seqs[i]]
  BY <1>3
<1>5. PICK g : g = [i \in 1..m |-> IF i = m THEN (IF m = 1 THEN seqs[m] ELSE f[m - 1] \o seqs[m]) ELSE f[i]]
  OBVIOUS
<1>6. \A i \in 1..m : g[i] = IF i = 1 THEN seqs[i] ELSE g[i - 1] \o seqs[i]
  <2> TAKE i \in 1..m
  <2>1. CASE i = m
    <3>1. CASE m = 1
      BY <1>5, <2>1, <3>1
    <3>2. CASE m # 1
      <4>1. m - 1 \in 1..m /\ m - 1 # m
        BY <1>2, <3>2
      <4> QED
        BY <1>5, <2>1, <3>2, <4>1
    <3> QED
      BY <3>1, <3>2
  <2>2. CASE i # m
    <3>1. i \in 1..(m - 1)
      BY <2>2
    <3>2. g[i] = f[i]
      BY <1>5, <2>2
    <3>3. i # 1 => i - 1 \in 1..m /\ i - 1 # m
      OBVIOUS
    <3>4. i # 1 => g[i - 1] = f[i - 1]
      BY <1>5, <3>3
    <3> QED
      BY <1>4, <3>1, <3>2, <3>4
  <2> QED
    BY <2>1, <2>2
<1>7. Good(m)
  <2>1. g = [i \in 1..m |-> g[i]]
    BY <1>5
  <2>2. g = [i \in 1..m |-> IF i = 1 THEN seqs[i] ELSE g[i - 1] \o seqs[i]]
    BY <1>6, <2>1
  <2> QED
    BY <2>2
<1> QED
  BY <1>7

\* What FlattenSeq computes, one sequence after the other.
LEMMA FlattenIs ==
    ASSUME NEW S, NEW seqs \in Seq(Seq(S))
    PROVE  \E f \in [0..Len(seqs) -> Seq(S)] :
              /\ f[0] = <<>>
              /\ \A i \in 1..Len(seqs) : f[i] = f[i - 1] \o seqs[i]
              /\ FlattenSeq(seqs) = f[Len(seqs)]
<1>1. CASE Len(seqs) = 0
  <2>1. FlattenSeq(seqs) = <<>>
    BY <1>1 DEF FlattenSeq
  <2> PICK f : f = [i \in 0..Len(seqs) |-> <<>>]
    OBVIOUS
  <2>2. f \in [0..Len(seqs) -> Seq(S)] /\ f[0] = <<>> /\ FlattenSeq(seqs) = f[Len(seqs)]
    BY <1>1, <2>1
  <2>3. 1..Len(seqs) = {}
    BY <1>1
  <2> QED
    BY <2>2, <2>3
<1>2. CASE Len(seqs) # 0
  <2> DEFINE n == Len(seqs)
             G(f) == [i \in 1..n |-> IF i = 1 THEN seqs[i] ELSE f[i - 1] \o seqs[i]]
             g == CHOOSE f : f = G(f)
  <2>0. n \in Nat
    OBVIOUS
  <2>1. \E f : f = G(f)
    BY <2>0, FlatteningExists
  <2>2. g = G(g)
    <3> HIDE DEF G
    <3> QED
      BY <2>1
  <2>3. FlattenSeq(seqs) = g[n]
    BY <1>2 DEF FlattenSeq
  <2> HIDE DEF g
  <2>4. \A i \in 1..n : g[i] = IF i = 1 THEN seqs[i] ELSE g[i - 1] \o seqs[i]
    BY <2>2
  <2> PICK f : f = [i \in 0..n |-> IF i = 0 THEN <<>> ELSE g[i]]
    OBVIOUS
  <2>5. f[0] = <<>> /\ FlattenSeq(seqs) = f[n]
    BY <1>2, <2>3
  <2> DEFINE Bad == {i \in 0..n : f[i] \notin Seq(S)}
  <2>6. \A i \in 1..n : f[i - 1] \in Seq(S) => f[i] = f[i - 1] \o seqs[i] /\ f[i] \in Seq(S)
    <3> SUFFICES ASSUME NEW i \in 1..n, f[i - 1] \in Seq(S)
                 PROVE  f[i] = f[i - 1] \o seqs[i] /\ f[i] \in Seq(S)
      OBVIOUS
    <3>0. seqs[i] \in Seq(S)
      OBVIOUS
    <3>1. CASE i = 1
      <4>1. f[i] = seqs[i] /\ i - 1 = 0
        BY <2>4, <3>1
      <4>2. f[i - 1] = <<>>
        BY <2>5, <4>1
      <4>3. <<>> \o seqs[i] = seqs[i]
        BY <3>0
      <4> QED
        BY <3>0, <4>1, <4>2, <4>3
    <3>2. CASE i # 1
      <4>1. i - 1 \in 1..n
        BY <3>2
      <4>2. f[i] = g[i] /\ f[i - 1] = g[i - 1]
        BY <3>2, <4>1
      <4>3. f[i] = f[i - 1] \o seqs[i]
        BY <2>4, <3>2, <4>2
      <4>4. \A s, t \in Seq(S) : s \o t \in Seq(S)
        OBVIOUS
      <4> QED
        BY <3>0, <4>3, <4>4, Zenon
    <3> QED
      BY <3>1, <3>2
  <2>7. Bad = {}
    <3> SUFFICES ASSUME Bad # {} PROVE FALSE
      OBVIOUS
    <3>1. Bad \in SUBSET Nat
      OBVIOUS
    <3>2. PICK m \in Bad : \A k \in Bad : m <= k
      <4> HIDE DEF Bad
      <4> QED
        BY <3>1, LeastOf
    <3>3. m # 0
      BY <2>5
    <3>4. m - 1 \in 0..n /\ ~(m <= m - 1)
      BY <3>3
    <3>5. f[m - 1] \in Seq(S)
      BY <3>2, <3>4
    <3>6. m \in 1..n /\ f[m] \notin Seq(S)
      BY <3>2, <3>3
    <3> QED
      BY <2>6, <3>5, <3>6
  <2>8. f \in [0..n -> Seq(S)]
    BY <2>7
  <2>9. \A i \in 1..n : f[i] = f[i - 1] \o seqs[i]
    <3> SUFFICES ASSUME NEW i \in 1..n PROVE f[i] = f[i - 1] \o seqs[i]
      OBVIOUS
    <3>1. i - 1 \in 0..n
      BY <2>0
    <3> QED
      BY <2>6, <2>8, <3>1
  <2> QED
    BY <2>5, <2>8, <2>9
<1> QED
  BY <1>1, <1>2

\* A set of sequences that is closed under concatenation is so under FlattenSeq.
LEMMA FlattenStays ==
    ASSUME NEW S, NEW P \in SUBSET Seq(S), <<>> \in P, \A s, t \in P : s \o t \in P,
           NEW seqs \in Seq(P)
    PROVE  FlattenSeq(seqs) \in P
<1>1. seqs \in Seq(Seq(S))
  OBVIOUS
<1>2. PICK f \in [0..Len(seqs) -> Seq(S)] :
              /\ f[0] = <<>>
              /\ \A i \in 1..Len(seqs) : f[i] = f[i - 1] \o seqs[i]
              /\ FlattenSeq(seqs) = f[Len(seqs)]
  BY <1>1, FlattenIs
<1> DEFINE Bad == {i \in 0..Len(seqs) : f[i] \notin P}
<1>3. Bad = {}
  <2> SUFFICES ASSUME Bad # {} PROVE FALSE
    OBVIOUS
  <2>1. Bad \in SUBSET Nat
    OBVIOUS
  <2>2. PICK m \in Bad : \A k \in Bad : m <= k
    <3> HIDE DEF Bad
    <3> QED
      BY <2>1, LeastOf
  <2>3. m # 0
    BY <1>2
  <2>4. m - 1 \in 0..Len(seqs) /\ ~(m <= m - 1) /\ m \in 1..Len(seqs)
    BY <2>3
  <2>5. f[m - 1] \in P
    BY <2>2, <2>4
  <2>6. f[m] = f[m - 1] \o seqs[m]
    BY <1>2, <2>4
  <2>7. seqs[m] \in P
    BY <2>4
  <2> QED
    BY <2>5, <2>6, <2>7
<1> QED
  BY <1>2, <1>3

\* SetToSeq lists the elements of a finite set.
LEMMA SetToSeqIs ==
    ASSUME NEW S, IsFiniteSet(S)
    PROVE  SetToSeq(S) \in Seq(S)
<1>1. Cardinality(S) \in Nat /\ ExistsBijection(1..Cardinality(S), S)
  BY FS_CardinalityType
<1>2. \E f \in [1..Cardinality(S) -> S] : IsInjective(f)
  BY <1>1, Zenon DEF ExistsBijection, Bijection, Injection
<1>3. SetToSeq(S) \in [1..Cardinality(S) -> S]
  BY <1>1, <1>2, Zenon DEF SetToSeq
<1> QED
  BY <1>1, <1>3

-----------------------------------------------------------------------------
(* Routes.                                                                  *)

\* What a route of the set is.
LEMMA RouteIs ==
    ASSUME NEW a, NEW x \in RouteSet(a)
    PROVE  /\ x.ref \in Refs(a) /\ <<x.class, x.method>> \in Marked(a)
           /\ x.guards \in Seq(STRING) /\ x.interceptors \in Seq(STRING)
<1>1. PICK r \in Refs(a), y \in Marked(a), g \in Seq(STRING), i \in Seq(STRING) :
          x = [ref |-> r, class |-> y[1], method |-> y[2], guards |-> g, interceptors |-> i]
  BY DEF RouteSet
<1>2. y = <<y[1], y[2]>>
  <2>1. PICK c, m : y = <<c, m>>
    BY <1>1 DEF Marked
  <2> QED
    BY <2>1
<1> QED
  BY <1>1, <1>2

\* In one sequence after the other the order is kept.
LEMMA OrderedConcat ==
    ASSUME NEW a, NEW s \in Ordered(a), NEW t \in Ordered(a)
    PROVE  s \o t \in Ordered(a)
<1> DEFINE u == s \o t
           S == RouteSet(a)
<1>1. s \in Seq(S) /\ t \in Seq(S)
  BY DEF Ordered
<1>2. /\ u \in Seq(S) /\ Len(u) = Len(s) + Len(t)
      /\ \A i \in 1..Len(s) : u[i] = s[i]
      /\ \A i \in 1..Len(t) : u[Len(s) + i] = t[i]
  <2> HIDE DEF S
  <2> QED
    BY <1>1
<1> HIDE DEF S, u
<1>3. /\ DOMAIN s = 1..Len(s) /\ DOMAIN t = 1..Len(t) /\ DOMAIN u = 1..Len(u)
      /\ Len(s) \in Nat /\ Len(t) \in Nat
  BY <1>1, <1>2
<1>4. SUFFICES ASSUME NEW n \in 1..Len(u), \A m \in 1..Len(u) : n < m => ~Alike(u[m], u[n])
               PROVE  FromTop(u[n])
  BY <1>2, <1>3, Zenon DEF Ordered, u, S
<1>5. CASE n <= Len(s)
  <2>1. n \in 1..Len(s)
    BY <1>2, <1>3, <1>5
  <2>2. \A m \in 1..Len(s) : m \in 1..Len(u) /\ u[m] = s[m]
    BY <1>2, <1>3
  <2>3. \A m \in 1..Len(s) : n < m => ~Alike(s[m], s[n])
    BY <1>4, <2>1, <2>2
  <2> QED
    BY <1>3, <2>1, <2>2, <2>3 DEF Ordered
<1>6. CASE ~(n <= Len(s))
  <2>1. PICK k \in 1..Len(t) : n = Len(s) + k
    <3>1. n - Len(s) \in 1..Len(t) /\ n = Len(s) + (n - Len(s))
      BY <1>2, <1>3, <1>6
    <3> QED
      BY <3>1
  <2>2. \A m \in 1..Len(t) : Len(s) + m \in 1..Len(u) /\ u[Len(s) + m] = t[m]
    BY <1>2, <1>3
  <2>3. \A m \in 1..Len(t) : k < m => n < Len(s) + m
    BY <1>3, <2>1
  <2>4. \A m \in 1..Len(t) : k < m => ~Alike(t[m], t[k])
    BY <1>4, <2>1, <2>2, <2>3
  <2> QED
    BY <1>3, <2>1, <2>2, <2>4 DEF Ordered
<1> QED
  BY <1>5, <1>6

\* So is it in the routes of several, and an empty sequence is in order.
LEMMA OrderedFlatten ==
    ASSUME NEW a, NEW seqs \in Seq(Ordered(a))
    PROVE  FlattenSeq(seqs) \in Ordered(a)
<1>1. <<>> \in Ordered(a)
  <2>1. <<>> \in Seq(RouteSet(a)) /\ DOMAIN <<>> = {}
    OBVIOUS
  <2> QED
    BY <2>1, Zenon DEF Ordered
<1>2. Ordered(a) \in SUBSET Seq(RouteSet(a))
  BY DEF Ordered
<1>3. \A s, t \in Ordered(a) : s \o t \in Ordered(a)
  BY OrderedConcat
<1> QED
  BY <1>1, <1>2, <1>3, FlattenStays

\* The last route of a method is from the trpcRoute() on top.
LEMMA MethodOrdered ==
    ASSUME NEW a \in DOMAIN Apps, NEW r \in Refs(a), NEW c, NEW m, <<c, m>> \in Marked(a)
    PROVE  RoutesOfMethod(r, c, m) \in Ordered(a)
<1>1. PICK decs \in Seq(Decorator) : decs = decoratorsOf(c, m)
  <2>1. decoratorsOf(<<c, m>>[1], <<c, m>>[2]) \in Seq(Decorator)
    BY MetaAssumption, Zenon
  <2> QED
    BY <2>1
<1> DEFINE K == {k \in DOMAIN decs : decs[k].kind = "route"}
           R(k) == [ref |-> r, class |-> c, method |-> m, guards |-> decs[k].guards,
                    interceptors |-> decs[k].interceptors]
           S == {R(k) : k \in K}
           n == Len(decs)
<1>2. n \in Nat /\ DOMAIN decs = 1..n
  BY <1>1
<1>3. PICK seqs : seqs = [k \in 1..n |-> IF decs[k].kind = "route" THEN <<R(k)>> ELSE <<>>]
  OBVIOUS
<1>4. RoutesOfMethod(r, c, m) = FlattenSeq(seqs)
  BY <1>1, <1>2, <1>3 DEF RoutesOfMethod
<1>5. seqs \in Seq(Seq(S)) /\ Len(seqs) = n
  <2>1. \A k \in 1..n : seqs[k] \in Seq(S)
    <3> TAKE k \in 1..n
    <3>1. CASE decs[k].kind = "route"
      <4>1. R(k) \in S /\ seqs[k] = <<R(k)>>
        BY <1>2, <1>3, <3>1
      <4> HIDE DEF R, S
      <4> QED
        BY <4>1
    <3>2. CASE decs[k].kind # "route"
      <4>1. seqs[k] = <<>>
        BY <1>3, <3>2
      <4> HIDE DEF S
      <4> QED
        BY <4>1
    <3> QED
      BY <3>1, <3>2
  <2> HIDE DEF R, S
  <2> QED
    BY <1>2, <1>3, <2>1
<1>6. PICK f \in [0..n -> Seq(S)] :
          /\ f[0] = <<>>
          /\ \A i \in 1..n : f[i] = f[i - 1] \o seqs[i]
          /\ FlattenSeq(seqs) = f[n]
  <2> HIDE DEF S, n
  <2> QED
    BY <1>5, FlattenIs
<1> DEFINE Ends(i) ==
      /\ f[i] # <<>> => \E k \in K : k <= i
      /\ \A k \in K : k <= i /\ (\A l \in K : l <= i => l <= k)
            => Len(f[i]) \in DOMAIN f[i] /\ f[i][Len(f[i])] = R(k)
<1> HIDE DEF S, R, n
<1>7. \A i \in 1..n : Ends(i - 1) => Ends(i)
  <2> SUFFICES ASSUME NEW i \in 1..n, Ends(i - 1) PROVE Ends(i)
    BY Zenon
  <2>1. f[i] = f[i - 1] \o seqs[i] /\ i - 1 \in 0..n /\ f[i - 1] \in Seq(S) /\ f[i] \in Seq(S)
    <3>1. i - 1 \in 0..n /\ i \in 0..n
      BY <1>2
    <3> QED
      BY <1>6, <3>1
  <2>2. CASE i \in K
    <3>1. seqs[i] = <<R(i)>>
      BY <1>3, <2>2
    <3>2. Len(f[i]) = Len(f[i - 1]) + 1 /\ f[i][Len(f[i - 1]) + 1] = R(i)
      BY <2>1, <3>1
    <3>3. Len(f[i]) \in DOMAIN f[i] /\ f[i][Len(f[i])] = R(i)
      <4>1. Len(f[i - 1]) \in Nat /\ DOMAIN f[i] = 1..Len(f[i])
        BY <2>1
      <4>2. PICK j : j = Len(f[i - 1])
        OBVIOUS
      <4> QED
        BY <3>2, <4>1, <4>2
    <3>4. ASSUME NEW k \in K, k <= i, \A l \in K : l <= i => l <= k
          PROVE  k = i
      <4>1. i <= i /\ i \in Nat /\ k \in Nat
        BY <1>2
      <4>2. i <= k
        BY <2>2, <3>4, <4>1
      <4> QED
        BY <3>4, <4>1, <4>2
    <3>5. i <= i
      OBVIOUS
    <3> QED
      BY <2>2, <3>3, <3>4, <3>5, Zenon
  <2>3. CASE i \notin K
    <3>1. seqs[i] = <<>>
      BY <1>2, <1>3, <2>3
    <3>2. f[i] = f[i - 1]
      BY <2>1, <3>1
    <3>3. ASSUME NEW k \in K PROVE k <= i <=> k <= i - 1
      <4>1. k \in 1..n /\ k # i
        BY <1>2, <2>3
      <4> HIDE DEF K
      <4> QED
        BY <1>2, <4>1
    <3>4. f[i] # <<>> => \E k \in K : k <= i
      BY <3>2, <3>3, Zenon
    <3>5. ASSUME NEW k \in K, k <= i, \A l \in K : l <= i => l <= k
          PROVE  Len(f[i]) \in DOMAIN f[i] /\ f[i][Len(f[i])] = R(k)
      <4>1. k <= i - 1
        BY <3>3, <3>5, Zenon
      <4>2. \A l \in K : l <= i - 1 => l <= k
        BY <3>3, <3>5, Zenon
      <4>3. Len(f[i - 1]) \in DOMAIN f[i - 1] /\ f[i - 1][Len(f[i - 1])] = R(k)
        BY <4>1, <4>2, Zenon
      <4> QED
        BY <3>2, <4>3
    <3> QED
      BY <3>4, <3>5, Zenon
  <2> QED
    BY <2>2, <2>3
<1>8. Ends(n)
  <2> DEFINE Bad == {i \in 0..n : ~Ends(i)}
  <2>1. Ends(0)
    BY <1>2, <1>6
  <2>2. Bad = {}
    <3> SUFFICES ASSUME Bad # {} PROVE FALSE
      OBVIOUS
    <3>1. Bad \in SUBSET Nat
      OBVIOUS
    <3>2. PICK b \in Bad : \A k \in Bad : b <= k
      <4> HIDE DEF Bad
      <4> QED
        BY <3>1, LeastOf
    <3>3. b \in 0..n /\ ~Ends(b)
      BY <3>2
    <3> HIDE DEF Ends
    <3>4. b # 0
      BY <2>1, <3>3
    <3>5. b - 1 \in 0..n /\ ~(b <= b - 1) /\ b \in 1..n
      BY <1>2, <3>3, <3>4
    <3>6. Ends(b - 1)
      BY <3>2, <3>5
    <3> QED
      BY <1>7, <3>3, <3>5, <3>6
  <2>3. n \in 0..n
    BY <1>2
  <2> HIDE DEF Ends
  <2> QED
    BY <2>2, <2>3
<1>9. S \in SUBSET RouteSet(a)
  <2> SUFFICES ASSUME NEW k \in K PROVE R(k) \in RouteSet(a)
    BY DEF S
  <2>1. decs[k] \in Decorator
    BY <1>1
  <2>2. decs[k].guards \in Seq(STRING) /\ decs[k].interceptors \in Seq(STRING)
    BY <2>1 DEF Decorator
  <2>3. R(k) = [ref |-> r, class |-> <<c, m>>[1], method |-> <<c, m>>[2], guards |-> decs[k].guards,
                interceptors |-> decs[k].interceptors]
    BY DEF R
  <2> QED
    BY <2>2, <2>3 DEF RouteSet
<1>10. f[n] \in Seq(S) /\ f[n] \in Seq(RouteSet(a))
  <2>1. f[n] \in Seq(S)
    BY <1>2, <1>6
  <2> QED
    BY <1>9, <2>1, SeqMonotonic
<1>11. ASSUME NEW p \in DOMAIN f[n], \A q \in DOMAIN f[n] : p < q => ~Alike(f[n][q], f[n][p])
       PROVE  FromTop(f[n][p])
  <2>0. \A q \in DOMAIN f[n] : f[n][q] \in S
    BY <1>10
  <2>1. \A q \in DOMAIN f[n] : \E k \in K : f[n][q] = R(k)
    BY <2>0, Zenon DEF S
  <2>2. \A q \in DOMAIN f[n] : f[n][q].ref = r /\ f[n][q].class = c /\ f[n][q].method = m
    <3>1. \A k \in K : R(k).ref = r /\ R(k).class = c /\ R(k).method = m
      BY DEF R
    <3> QED
      BY <2>1, <3>1, Zenon
  <2>3. f[n] # <<>> /\ p \in Nat /\ Len(f[n]) \in DOMAIN f[n] /\ p <= Len(f[n])
    BY <1>10
  <2>4. p = Len(f[n])
    <3>1. Alike(f[n][Len(f[n])], f[n][p])
      BY <2>2, <2>3 DEF Alike
    <3>2. ~(p < Len(f[n]))
      BY <1>11, <2>3, <3>1
    <3>3. Len(f[n]) \in Nat
      BY <1>10
    <3> QED
      BY <2>3, <3>2, <3>3
  <2>5. K # {} /\ K \in SUBSET (1..n)
    BY <1>2, <1>8, <2>3
  <2>6. LastOf(K) \in K /\ \A l \in K : l <= LastOf(K)
    <3> HIDE DEF K
    <3> QED
      BY <1>2, <2>5, LastIs
  <2>7. LastOf(K) <= n
    BY <1>2, <2>5, <2>6
  <2>8. f[n][p] = R(LastOf(K))
    BY <1>8, <2>4, <2>6, <2>7, Zenon
  <2>9. OnTop(f[n][p]) = decs[LastOf(K)]
    BY <1>1, <2>2 DEF OnTop
  <2>10. R(LastOf(K)).guards = decs[LastOf(K)].guards /\ R(LastOf(K)).interceptors = decs[LastOf(K)].interceptors
    BY DEF R
  <2> QED
    BY <2>8, <2>9, <2>10, Zenon DEF FromTop
<1> QED
  BY <1>4, <1>6, <1>10, <1>11, Zenon DEF Ordered

\* The routes of an application are in order.
LEMMA RoutesOrdered ==
    ASSUME NEW a \in DOMAIN Apps
    PROVE  Routes(a) \in Ordered(a)
<1>1. \A r \in Refs(a) : \A c \in ToSet(Mods(a)[r].controllers) : RoutesIn(r, c) \in Ordered(a)
  <2> SUFFICES ASSUME NEW r \in Refs(a), NEW c \in ToSet(Mods(a)[r].controllers)
               PROVE  RoutesIn(r, c) \in Ordered(a)
    OBVIOUS
  <2>1. IsFiniteSet(methodsOf(c))
    BY MetaAssumption
  <2>2. PICK methods \in Seq(methodsOf(c)) : methods = SetToSeq(methodsOf(c))
    BY <2>1, SetToSeqIs
  <2>3. \A m \in methodsOf(c) : RoutesOfMethod(r, c, m) \in Ordered(a)
    <3> SUFFICES ASSUME NEW m \in methodsOf(c) PROVE RoutesOfMethod(r, c, m) \in Ordered(a)
      OBVIOUS
    <3>1. <<c, m>> \in Marked(a)
      BY DEF Marked
    <3> QED
      BY <3>1, MethodOrdered
  <2>4. PICK seqs : seqs = [k \in DOMAIN methods |-> RoutesOfMethod(r, c, methods[k])]
    OBVIOUS
  <2>5. seqs \in Seq(Ordered(a))
    <3>1. DOMAIN methods = 1..Len(methods) /\ Len(methods) \in Nat
      OBVIOUS
    <3>2. \A k \in 1..Len(methods) : RoutesOfMethod(r, c, methods[k]) \in Ordered(a)
      BY <2>3
    <3> QED
      BY <2>4, <3>1, <3>2
  <2>6. RoutesIn(r, c) = FlattenSeq(seqs)
    BY <2>2, <2>4 DEF RoutesIn
  <2> QED
    BY <2>5, <2>6, OrderedFlatten
<1>2. \A r \in Refs(a) : RoutesOfModule(r, Mods(a)[r].controllers) \in Ordered(a)
  <2> SUFFICES ASSUME NEW r \in Refs(a)
               PROVE  RoutesOfModule(r, Mods(a)[r].controllers) \in Ordered(a)
    OBVIOUS
  <2>1. PICK controllers \in Seq(STRING) : controllers = Mods(a)[r].controllers
    BY AppsAssumption
  <2>2. DOMAIN controllers = 1..Len(controllers) /\ Len(controllers) \in Nat
    OBVIOUS
  <2>3. \A k \in 1..Len(controllers) : controllers[k] \in ToSet(Mods(a)[r].controllers)
    BY <2>1, <2>2 DEF ToSet
  <2>4. PICK seqs : seqs = [k \in DOMAIN controllers |-> RoutesIn(r, controllers[k])]
    OBVIOUS
  <2>5. seqs \in Seq(Ordered(a))
    <3>1. \A k \in 1..Len(controllers) : RoutesIn(r, controllers[k]) \in Ordered(a)
      BY <1>1, <2>3
    <3> QED
      BY <2>2, <2>4, <3>1
  <2>6. RoutesOfModule(r, Mods(a)[r].controllers) = FlattenSeq(seqs)
    BY <2>1, <2>4 DEF RoutesOfModule
  <2> QED
    BY <2>5, <2>6, OrderedFlatten
<1>3. PICK refs \in Seq(Refs(a)) : refs = SetToSeq(Refs(a))
  BY AppsAssumption, SetToSeqIs
<1>4. PICK seqs : seqs = [k \in DOMAIN refs |-> RoutesOfModule(refs[k], Mods(a)[refs[k]].controllers)]
  OBVIOUS
<1>5. seqs \in Seq(Ordered(a))
  <2>1. DOMAIN refs = 1..Len(refs) /\ Len(refs) \in Nat
    OBVIOUS
  <2>2. \A k \in 1..Len(refs) : RoutesOfModule(refs[k], Mods(a)[refs[k]].controllers) \in Ordered(a)
    BY <1>2
  <2> QED
    BY <1>4, <2>1, <2>2
<1>6. Routes(a) = FlattenSeq(seqs)
  BY <1>3, <1>4 DEF Routes
<1> QED
  BY <1>5, <1>6, OrderedFlatten

-----------------------------------------------------------------------------
(* Routers.                                                                 *)

\* The levels up to n that ModuleRouter and ModuleTargets go through.
RouterLevels(a, ctx, n, f) ==
    [d \in 0..n |-> IF d = 0 THEN [r \in Refs(a) |-> <<>>] ELSE RoutersAbove(a, ctx, f[d - 1])]
TargetLevels(a, n, f) ==
    [d \in 0..n |-> IF d = 0 THEN [r \in Refs(a) |-> {}] ELSE TargetsAbove(a, f[d - 1])]

\* The recursion of ModuleRouter defines a function.
LEMMA RoutersExist ==
    ASSUME NEW a, NEW ctx, NEW n \in Nat
    PROVE  \E f : f = RouterLevels(a, ctx, n, f)
<1> DEFINE Zero == [r \in Refs(a) |-> <<>>]
           Step(x) == RoutersAbove(a, ctx, x)
           Levels(m, f) == [d \in 0..m |-> IF d = 0 THEN Zero ELSE Step(f[d - 1])]
           Good(m) == \E f : f = Levels(m, f)
           Bad == {m \in Nat : ~Good(m)}
<1>0. \A f : Levels(n, f) = RouterLevels(a, ctx, n, f)
  BY DEF RouterLevels
<1> HIDE DEF Zero, Step, Levels
<1> SUFFICES ASSUME Bad # {} PROVE FALSE
  BY <1>0
<1>1. PICK m \in Bad : \A k \in Bad : m <= k
  <2> Bad \in SUBSET Nat
    OBVIOUS
  <2> HIDE DEF Bad
  <2> QED
    BY LeastOf
<1>2. m # 0
  <2>1. PICK f : f = [d \in 0..0 |-> Zero]
    OBVIOUS
  <2>2. f = Levels(0, f)
    BY <2>1 DEF Levels
  <2> QED
    BY <2>2
<1>3. m - 1 \in Nat /\ Good(m - 1)
  <2>1. m - 1 \in Nat /\ ~(m <= m - 1)
    BY <1>2
  <2> QED
    BY <1>1, <2>1
<1>4. PICK f : f = Levels(m - 1, f)
  BY <1>3
<1>5. PICK g : g = [d \in 0..m |-> IF d = m THEN Step(f[m - 1]) ELSE f[d]]
  OBVIOUS
<1>6. \A d \in 0..m : g[d] = IF d = 0 THEN Zero ELSE Step(g[d - 1])
  <2> TAKE d \in 0..m
  <2>1. d # 0 => d - 1 \in 0..m /\ d - 1 # m /\ g[d - 1] = f[d - 1]
    BY <1>5
  <2>2. CASE d = m
    BY <1>2, <1>5, <2>1, <2>2
  <2>3. CASE d # m
    <3>1. d \in 0..(m - 1) /\ g[d] = f[d]
      BY <1>5, <2>3
    <3> QED
      BY <1>4, <2>1, <3>1 DEF Levels
  <2> QED
    BY <2>2, <2>3
<1>7. Good(m)
  <2>1. g = [d \in 0..m |-> g[d]]
    BY <1>5
  <2>2. g = Levels(m, g)
    BY <1>6, <2>1 DEF Levels
  <2> QED
    BY <2>2
<1> QED
  BY <1>7

\* And so does that of ModuleTargets.
LEMMA TargetsExist ==
    ASSUME NEW a, NEW n \in Nat
    PROVE  \E f : f = TargetLevels(a, n, f)
<1> DEFINE Zero == [r \in Refs(a) |-> {}]
           Step(x) == TargetsAbove(a, x)
           Levels(m, f) == [d \in 0..m |-> IF d = 0 THEN Zero ELSE Step(f[d - 1])]
           Good(m) == \E f : f = Levels(m, f)
           Bad == {m \in Nat : ~Good(m)}
<1>0. \A f : Levels(n, f) = TargetLevels(a, n, f)
  BY DEF TargetLevels
<1> HIDE DEF Zero, Step, Levels
<1> SUFFICES ASSUME Bad # {} PROVE FALSE
  BY <1>0
<1>1. PICK m \in Bad : \A k \in Bad : m <= k
  <2> Bad \in SUBSET Nat
    OBVIOUS
  <2> HIDE DEF Bad
  <2> QED
    BY LeastOf
<1>2. m # 0
  <2>1. PICK f : f = [d \in 0..0 |-> Zero]
    OBVIOUS
  <2>2. f = Levels(0, f)
    BY <2>1 DEF Levels
  <2> QED
    BY <2>2
<1>3. m - 1 \in Nat /\ Good(m - 1)
  <2>1. m - 1 \in Nat /\ ~(m <= m - 1)
    BY <1>2
  <2> QED
    BY <1>1, <2>1
<1>4. PICK f : f = Levels(m - 1, f)
  BY <1>3
<1>5. PICK g : g = [d \in 0..m |-> IF d = m THEN Step(f[m - 1]) ELSE f[d]]
  OBVIOUS
<1>6. \A d \in 0..m : g[d] = IF d = 0 THEN Zero ELSE Step(g[d - 1])
  <2> TAKE d \in 0..m
  <2>1. d # 0 => d - 1 \in 0..m /\ d - 1 # m /\ g[d - 1] = f[d - 1]
    BY <1>5
  <2>2. CASE d = m
    BY <1>2, <1>5, <2>1, <2>2
  <2>3. CASE d # m
    <3>1. d \in 0..(m - 1) /\ g[d] = f[d]
      BY <1>5, <2>3
    <3> QED
      BY <1>4, <2>1, <3>1 DEF Levels
  <2> QED
    BY <2>2, <2>3
<1>7. Good(m)
  <2>1. g = [d \in 0..m |-> g[d]]
    BY <1>5
  <2>2. g = Levels(m, g)
    BY <1>6, <2>1 DEF Levels
  <2> QED
    BY <2>2
<1> QED
  BY <1>7

\* A union of routers has the paths of each, and there what one of them has.
LEMMA UnionIs ==
    ASSUME NEW F
    PROVE  /\ \A f \in F : DOMAIN f \subseteq DOMAIN Union(F)
           /\ \A p \in DOMAIN Union(F) : \E f \in F : p \in DOMAIN f /\ Union(F)[p] = f[p]
<1>1. DOMAIN Union(F) = UNION {DOMAIN f : f \in F}
  BY DEF Union
<1>2. ASSUME NEW p \in DOMAIN Union(F)
      PROVE  \E f \in F : p \in DOMAIN f /\ Union(F)[p] = f[p]
  <2> DEFINE g == CHOOSE f \in F : p \in DOMAIN f
  <2>1. \E f \in F : p \in DOMAIN f
    BY <1>1
  <2>2. g \in F /\ p \in DOMAIN g
    BY <2>1, Zenon
  <2>3. Union(F)[p] = g[p]
    BY <1>1 DEF Union
  <2> QED
    BY <2>2, <2>3
<1> QED
  BY <1>1, <1>2

\* A router under a key.
LEMMA UnderIs ==
    ASSUME NEW key \in Seq(STRING), NEW router, DOMAIN router \subseteq Seq(STRING)
    PROVE  /\ \A q \in DOMAIN router :
                 key \o q \in DOMAIN Under(key, router) /\ Under(key, router)[key \o q] = router[q]
           /\ \A p \in DOMAIN Under(key, router) : \E q \in DOMAIN router : p = key \o q
<1>1. DOMAIN Under(key, router) = {key \o q : q \in DOMAIN router}
  BY DEF Under
<1>2. ASSUME NEW q \in DOMAIN router
      PROVE  Under(key, router)[key \o q] = router[q]
  <2>1. q \in Seq(STRING)
    OBVIOUS
  <2>2. PICK p : p = key \o q
    OBVIOUS
  <2>3. SubSeq(p, Len(key) + 1, Len(p)) = q
    BY <2>1, <2>2
  <2>4. Under(key, router)[p] = router[SubSeq(p, Len(key) + 1, Len(p))]
    BY <1>1, <2>2 DEF Under
  <2> QED
    BY <2>2, <2>3, <2>4
<1> QED
  BY <1>1, <1>2

\* The values of a function at K.
At(R, K) == {R[k] : k \in K}

\* Routers and targets that agree do so together.
LEMMA UnionAgrees ==
    ASSUME NEW a, NEW ctx, NEW K, NEW R, NEW T,
           \A k \in K : Agree(a, ctx, R[k], T[k])
    PROVE  Agree(a, ctx, Union(At(R, K)), UNION At(T, K))
<1> DEFINE F == {R[k] : k \in K}
           U == Union(F)
           Ts == UNION {T[k] : k \in K}
<1> HIDE DEF U
<1>1. /\ \A f \in F : DOMAIN f \subseteq DOMAIN U
      /\ \A p \in DOMAIN U : \E f \in F : p \in DOMAIN f /\ U[p] = f[p]
  <2> HIDE DEF F
  <2> QED
    BY UnionIs DEF U
<1>2. \A p \in DOMAIN U : \E k \in K : p \in DOMAIN R[k] /\ U[p] = R[k][p]
  BY <1>1
<1>3. DOMAIN U \subseteq Seq(STRING)
  BY <1>2 DEF Agree
<1>4. \A t \in Ts : IsTarget(a, t)
  BY DEF Agree
<1>5. ASSUME NEW p \in DOMAIN U
      PROVE  \E t \in Ts : t.path = p /\ TextOf(t) \in DOMAIN ctx[t.ref] /\ U[p] = ctx[t.ref][TextOf(t)]
  <2>1. PICK k \in K : p \in DOMAIN R[k] /\ U[p] = R[k][p]
    BY <1>2
  <2>2. PICK t \in T[k] : t.path = p /\ TextOf(t) \in DOMAIN ctx[t.ref] /\ R[k][p] = ctx[t.ref][TextOf(t)]
    BY <2>1, Zenon DEF Agree
  <2>3. t \in Ts
    OBVIOUS
  <2> QED
    BY <2>1, <2>2, <2>3, Zenon
<1>6. ASSUME NEW t \in Ts, t.sole, TextOf(t) \in DOMAIN ctx[t.ref]
      PROVE  t.path \in DOMAIN U
  <2>1. PICK k \in K : t \in T[k]
    OBVIOUS
  <2>2. t.path \in DOMAIN R[k]
    BY <1>6, <2>1, Zenon DEF Agree
  <2> QED
    BY <1>1, <2>2
<1> HIDE DEF Ts
<1>7. Agree(a, ctx, U, Ts)
  BY <1>3, <1>4, <1>5, <1>6, Zenon DEF Agree
<1> QED
  BY <1>7 DEF U, Ts, At

\* What an entry of a configuration adds agrees with what is asked for there.
LEMMA EntryAgrees ==
    ASSUME NEW a \in DOMAIN Apps, NEW ctx, NEW r \in Refs(a), NEW key \in DOMAIN Mods(a)[r].config,
           NEW below, NEW found, \A i \in Refs(a) : Agree(a, ctx, below[i], found[i])
    PROVE  Agree(a, ctx, Entry(a, ctx, below, r, key), TargetsAt(a, found, r, key))
<1>1. PICK to : to = Mods(a)[r].config[key]
  OBVIOUS
<1>2. PICK imports \in Seq(Refs(a)) : imports = Mods(a)[r].imports
  BY AppsAssumption
<1>3. key \in Seq(STRING)
  BY AppsAssumption
<1>4. CASE to.kind # "module"
  <2>1. PICK t : t = [path |-> key, ref |-> r, class |-> to.class, method |-> to.method, sole |-> TRUE]
    OBVIOUS
  <2>2. TargetsAt(a, found, r, key) = {t}
    BY <1>1, <1>4, <2>1 DEF TargetsAt
  <2>3. t.path = key /\ t.ref = r /\ TextOf(t) = Text(to.class, to.method)
    BY <2>1 DEF TextOf
  <2>4. IsTarget(a, t)
    BY <1>1, <1>3, <1>4, <2>1, Zenon DEF IsTarget
  <2>5. PICK x : x = TextOf(t)
    OBVIOUS
  <2>6. PICK found1 : found1 = Found(ctx, r, x)
    OBVIOUS
  <2>7. Entry(a, ctx, below, r, key) = [p \in {key : f \in found1} |-> CHOOSE f \in found1 : TRUE]
    BY <1>1, <1>4, <2>3, <2>5, <2>6, Zenon DEF Entry
  <2>8. CASE x \in DOMAIN ctx[r]
    <3>1. found1 = {ctx[r][x]}
      BY <2>6, <2>8 DEF Found
    <3>2. {key : f \in found1} = {key} /\ (CHOOSE f \in found1 : TRUE) = ctx[r][x]
      BY <3>1
    <3>3. PICK e : e = Entry(a, ctx, below, r, key)
      OBVIOUS
    <3>4. e = [p \in {key} |-> ctx[r][x]]
      BY <2>7, <3>2, <3>3
    <3>5. DOMAIN e = {key} /\ e[key] = ctx[r][x]
      BY <3>4
    <3> QED
      BY <1>3, <2>2, <2>3, <2>4, <2>5, <2>8, <3>3, <3>5 DEF Agree
  <2>9. CASE x \notin DOMAIN ctx[r]
    <3>1. found1 = {}
      BY <2>6, <2>9 DEF Found
    <3>2. DOMAIN Entry(a, ctx, below, r, key) = {}
      BY <2>7, <3>1
    <3> QED
      BY <2>2, <2>3, <2>4, <2>5, <2>9, <3>2 DEF Agree
  <2> QED
    BY <2>8, <2>9
<1>5. CASE to.kind = "module"
  <2> DEFINE K == Imported(a, r, to.class)
             sole == \A k, l \in K : imports[k] = imports[l]
             Moved(t) == [t EXCEPT !.path = key \o @, !.sole = @ /\ sole]
  <2>1. TargetsAt(a, found, r, key) = UNION {{Moved(t) : t \in found[imports[k]]} : k \in K}
    BY <1>1, <1>2, <1>5 DEF TargetsAt
  <2>2. Entry(a, ctx, below, r, key) = IF K = {} THEN <<>> ELSE Under(key, below[imports[LastOf(K)]])
    BY <1>1, <1>2, <1>5, Zenon DEF Entry
  <2>3. K \in SUBSET (1..Len(imports)) /\ Len(imports) \in Nat
    BY <1>2 DEF Imported
  <2>4. \A k \in K : imports[k] \in Refs(a)
    BY <1>2, <2>3
  <2> PICK s \in BOOLEAN : s = sole
    OBVIOUS
  <2>5. ASSUME NEW k \in K, NEW t \in found[imports[k]]
        PROVE  /\ IsTarget(a, Moved(t))
               /\ Moved(t).path = key \o t.path /\ Moved(t).ref = t.ref /\ TextOf(Moved(t)) = TextOf(t)
               /\ Moved(t).sole => t.sole /\ s
               /\ t.path \in Seq(STRING)
    <3>1. IsTarget(a, t)
      BY <2>4, Zenon DEF Agree
    <3>0. PICK q \in Refs(a) : \E c \in DOMAIN Mods(a)[q].config : \E p \in Seq(STRING), b \in BOOLEAN :
              /\ Mods(a)[q].config[c].kind # "module"
              /\ t = [path |-> p, ref |-> q, class |-> Mods(a)[q].config[c].class,
                      method |-> Mods(a)[q].config[c].method, sole |-> b]
      BY <3>1, Zenon DEF IsTarget
    <3>2. PICK c \in DOMAIN Mods(a)[q].config, p \in Seq(STRING), b \in BOOLEAN :
              /\ Mods(a)[q].config[c].kind # "module"
              /\ t = [path |-> p, ref |-> q, class |-> Mods(a)[q].config[c].class,
                      method |-> Mods(a)[q].config[c].method, sole |-> b]
      BY <3>0
    <3>3. PICK e : e = Mods(a)[q].config[c]
      OBVIOUS
    <3>4. PICK b2 \in BOOLEAN : b2 = (b /\ s)
      OBVIOUS
    <3>5. Moved(t) = [t EXCEPT !.path = key \o @, !.sole = @ /\ s]
      OBVIOUS
    <3>6. Moved(t) = [path |-> key \o p, ref |-> q, class |-> e.class, method |-> e.method, sole |-> b2]
      <4>1. t.path = p /\ t.sole = b
        BY <3>2
      <4>2. Moved(t) = [t EXCEPT !.path = key \o p, !.sole = b2]
        BY <3>4, <3>5, <4>1, Zenon
      <4>3. t = [path |-> p, ref |-> q, class |-> e.class, method |-> e.method, sole |-> b]
        BY <3>2, <3>3
      <4> HIDE DEF Moved
      <4> QED
        BY <4>2, <4>3
    <3>7. key \o p \in Seq(STRING)
      BY <1>3
    <3>8. IsTarget(a, Moved(t))
      <4>1. Moved(t) = [path |-> key \o p, ref |-> q, class |-> Mods(a)[q].config[c].class,
                        method |-> Mods(a)[q].config[c].method, sole |-> b2]
        BY <3>3, <3>6
      <4>2. PICK u, w : u = Moved(t) /\ w = key \o p
        OBVIOUS
      <4>3. u = [path |-> w, ref |-> q, class |-> Mods(a)[q].config[c].class,
                 method |-> Mods(a)[q].config[c].method, sole |-> b2]
        BY <4>1, <4>2
      <4>4. w \in Seq(STRING)
        BY <3>7, <4>2
      <4>5. \E p1 \in Seq(STRING), b1 \in BOOLEAN :
                u = [path |-> p1, ref |-> q, class |-> Mods(a)[q].config[c].class,
                     method |-> Mods(a)[q].config[c].method, sole |-> b1]
        BY <4>3, <4>4, Zenon
      <4>6. IsTarget(a, u)
        BY <3>2, <4>5, Zenon DEF IsTarget
      <4> QED
        BY <4>2, <4>6
    <3>9. Moved(t).path = key \o t.path /\ Moved(t).ref = t.ref /\ TextOf(Moved(t)) = TextOf(t)
      BY <3>2, <3>3, <3>6 DEF TextOf
    <3>10. Moved(t).sole => t.sole /\ s
      BY <3>2, <3>4, <3>6
    <3>11. t.path \in Seq(STRING)
      BY <3>2
    <3> QED
      BY <3>8, <3>9, <3>10, <3>11
  <2> HIDE DEF Moved
  <2>6. \A t \in TargetsAt(a, found, r, key) : IsTarget(a, t)
    BY <2>1, <2>5
  <2>7. CASE K = {}
    <3>1. TargetsAt(a, found, r, key) = {} /\ DOMAIN Entry(a, ctx, below, r, key) = {}
      BY <2>1, <2>2, <2>7
    <3> QED
      BY <3>1 DEF Agree
  <2>8. CASE K # {}
    <3>1. PICK last \in K : last = LastOf(K)
      <4> HIDE DEF K
      <4> QED
        BY <2>3, <2>8, LastIs
    <3>2. PICK router : router = below[imports[last]]
      OBVIOUS
    <3>3. Agree(a, ctx, router, found[imports[last]])
      BY <2>4, <3>2
    <3>4. DOMAIN router \subseteq Seq(STRING)
      BY <3>3 DEF Agree
    <3>5. PICK e : e = Entry(a, ctx, below, r, key)
      OBVIOUS
    <3>6. e = Under(key, router)
      BY <2>2, <2>8, <3>1, <3>2, <3>5
    <3>7. /\ \A q \in DOMAIN router : key \o q \in DOMAIN e /\ e[key \o q] = router[q]
          /\ \A p \in DOMAIN e : \E q \in DOMAIN router : p = key \o q
      <4>1. /\ \A q \in DOMAIN router :
                  key \o q \in DOMAIN Under(key, router) /\ Under(key, router)[key \o q] = router[q]
            /\ \A p \in DOMAIN Under(key, router) : \E q \in DOMAIN router : p = key \o q
        BY <1>3, <3>4, UnderIs
      <4> QED
        BY <3>6, <4>1, Zenon
    <3>8. DOMAIN e \subseteq Seq(STRING)
      <4>1. \A q \in Seq(STRING) : key \o q \in Seq(STRING)
        BY <1>3
      <4> QED
        BY <3>4, <3>7, <4>1
    <3>9. ASSUME NEW p \in DOMAIN e
          PROVE  \E t \in TargetsAt(a, found, r, key) :
                    t.path = p /\ TextOf(t) \in DOMAIN ctx[t.ref] /\ e[p] = ctx[t.ref][TextOf(t)]
      <4>1. PICK q \in DOMAIN router : p = key \o q /\ e[p] = router[q]
        BY <3>7
      <4>2. PICK t \in found[imports[last]] :
                t.path = q /\ TextOf(t) \in DOMAIN ctx[t.ref] /\ router[q] = ctx[t.ref][TextOf(t)]
        BY <3>3, Zenon DEF Agree
      <4>3. Moved(t) \in TargetsAt(a, found, r, key)
        BY <2>1
      <4>4. Moved(t).path = p /\ TextOf(Moved(t)) = TextOf(t) /\ Moved(t).ref = t.ref
        BY <2>5, <4>1, <4>2
      <4> QED
        BY <4>1, <4>2, <4>3, <4>4
    <3>10. ASSUME NEW u \in TargetsAt(a, found, r, key), u.sole, TextOf(u) \in DOMAIN ctx[u.ref]
           PROVE  u.path \in DOMAIN e
      <4>0. PICK k \in K : \E t \in found[imports[k]] : u = Moved(t)
        BY <2>1
      <4>1. PICK t \in found[imports[k]] : u = Moved(t)
        BY <4>0
      <4>2. t.sole /\ s /\ TextOf(t) \in DOMAIN ctx[t.ref] /\ u.path = key \o t.path
        BY <2>5, <3>10, <4>1
      <4>3. imports[k] = imports[last]
        BY <4>2
      <4>4. t.path \in DOMAIN router
        BY <3>3, <4>2, <4>3, Zenon DEF Agree
      <4> QED
        BY <3>7, <4>2, <4>4
    <3> QED
      BY <2>6, <3>5, <3>8, <3>9, <3>10, Zenon DEF Agree
  <2> QED
    BY <2>7, <2>8
<1> QED
  BY <1>4, <1>5

\* A level of routers agrees with that of the targets if the levels below do.
LEMMA LevelAgrees ==
    ASSUME NEW a \in DOMAIN Apps, NEW ctx, NEW below, NEW found,
           \A i \in Refs(a) : Agree(a, ctx, below[i], found[i]), NEW r \in Refs(a)
    PROVE  Agree(a, ctx, RoutersAbove(a, ctx, below)[r], TargetsAbove(a, found)[r])
<1>1. PICK K : K = DOMAIN Mods(a)[r].config
  OBVIOUS
<1>2. PICK R : R = [key \in K |-> Entry(a, ctx, below, r, key)]
  OBVIOUS
<1>3. PICK T : T = [key \in K |-> TargetsAt(a, found, r, key)]
  OBVIOUS
<1>4. \A key \in K : Agree(a, ctx, R[key], T[key])
  <2> TAKE key \in K
  <2>1. Agree(a, ctx, Entry(a, ctx, below, r, key), TargetsAt(a, found, r, key))
    BY <1>1, EntryAgrees
  <2>2. R[key] = Entry(a, ctx, below, r, key) /\ T[key] = TargetsAt(a, found, r, key)
    BY <1>2, <1>3
  <2> QED
    BY <2>1, <2>2
<1>5. Agree(a, ctx, Union(At(R, K)), UNION At(T, K))
  BY <1>4, UnionAgrees
<1>6. At(R, K) = {Entry(a, ctx, below, r, key) : key \in K}
  BY <1>2 DEF At
<1>7. At(T, K) = {TargetsAt(a, found, r, key) : key \in K}
  BY <1>3 DEF At
<1>8. RoutersAbove(a, ctx, below)[r] = Union({Entry(a, ctx, below, r, key) : key \in K})
  BY <1>1 DEF RoutersAbove
<1>9. TargetsAbove(a, found)[r] = UNION {TargetsAt(a, found, r, key) : key \in K}
  BY <1>1 DEF TargetsAbove
<1> QED
  BY <1>5, <1>6, <1>7, <1>8, <1>9

\* The router of a module agrees with its targets.
LEMMA ModulesAgree ==
    ASSUME NEW a \in DOMAIN Apps, NEW ctx, NEW r \in Refs(a)
    PROVE  Agree(a, ctx, ModuleRouter(a, ctx)[r], ModuleTargets(a)[r])
<1>1. PICK n \in Nat : n = Cardinality(Refs(a))
  BY AppsAssumption, FS_CardinalityType
<1> DEFINE routers == CHOOSE f : f = RouterLevels(a, ctx, n, f)
           found == CHOOSE f : f = TargetLevels(a, n, f)
<1>2. ModuleRouter(a, ctx) = routers[n] /\ ModuleTargets(a) = found[n]
  BY <1>1 DEF ModuleRouter, ModuleTargets, RouterLevels, TargetLevels
<1>3. \E f : f = RouterLevels(a, ctx, n, f)
  BY RoutersExist
<1>4. \E f : f = TargetLevels(a, n, f)
  BY TargetsExist
<1>5. routers = RouterLevels(a, ctx, n, routers) /\ found = TargetLevels(a, n, found)
  BY <1>3, <1>4
<1> HIDE DEF routers, found
<1> DEFINE Holds(d) == \A i \in Refs(a) : Agree(a, ctx, routers[d][i], found[d][i])
<1>6. Holds(0)
  <2> SUFFICES ASSUME NEW i \in Refs(a) PROVE Agree(a, ctx, routers[0][i], found[0][i])
    OBVIOUS
  <2>1. routers[0] = [j \in Refs(a) |-> <<>>] /\ found[0] = [j \in Refs(a) |-> {}]
    BY <1>5 DEF RouterLevels, TargetLevels
  <2>2. DOMAIN routers[0][i] = {} /\ found[0][i] = {}
    BY <2>1
  <2> QED
    BY <2>2, Zenon DEF Agree
<1>7. ASSUME NEW d \in 1..n, Holds(d - 1) PROVE Holds(d)
  <2>1. routers[d] = RoutersAbove(a, ctx, routers[d - 1]) /\ found[d] = TargetsAbove(a, found[d - 1])
    <3>1. d \in 0..n /\ d # 0
      OBVIOUS
    <3>2. \A f : /\ RouterLevels(a, ctx, n, f)[d] = RoutersAbove(a, ctx, f[d - 1])
                 /\ TargetLevels(a, n, f)[d] = TargetsAbove(a, f[d - 1])
      BY <3>1 DEF RouterLevels, TargetLevels
    <3> QED
      BY <1>5, <3>2, Zenon
  <2> QED
    BY <1>7, <2>1, LevelAgrees
<1>8. Holds(n)
  <2> DEFINE Bad == {d \in 0..n : ~Holds(d)}
  <2> HIDE DEF Holds
  <2>1. Bad = {}
    <3> SUFFICES ASSUME Bad # {} PROVE FALSE
      OBVIOUS
    <3>1. Bad \in SUBSET Nat
      OBVIOUS
    <3>2. PICK b \in Bad : \A k \in Bad : b <= k
      <4> HIDE DEF Bad
      <4> QED
        BY <3>1, LeastOf
    <3>3. b # 0
      BY <1>6
    <3>4. b - 1 \in 0..n /\ ~(b <= b - 1) /\ b \in 1..n
      BY <3>3
    <3>5. Holds(b - 1)
      BY <3>2, <3>4
    <3> QED
      BY <1>7, <3>4, <3>5
  <2> QED
    BY <2>1
<1> QED
  BY <1>2, <1>8

\* So does the router of the application.
LEMMA AppAgrees ==
    ASSUME NEW a \in DOMAIN Apps, NEW ctx
    PROVE  Agree(a, ctx, AppRouter(a, ctx), Targets(a))
<1>1. PICK K : K = ToSet(Root(a))
  OBVIOUS
<1>2. K \in SUBSET Refs(a)
  BY <1>1, AppsAssumption DEF ToSet
<1>3. PICK R, T : R = ModuleRouter(a, ctx) /\ T = ModuleTargets(a)
  OBVIOUS
<1>4. \A k \in K : Agree(a, ctx, R[k], T[k])
  BY <1>2, <1>3, ModulesAgree
<1>5. Agree(a, ctx, Union(At(R, K)), UNION At(T, K))
  BY <1>4, UnionAgrees
<1>6. AppRouter(a, ctx) = Union(At(R, K)) /\ Targets(a) = UNION At(T, K)
  BY <1>1, <1>3 DEF AppRouter, Targets, At
<1> QED
  BY <1>5, <1>6

\* The routes of an application, by number.
LEMMA RoutesAre ==
    ASSUME NEW a \in DOMAIN Apps
    PROVE  /\ Routes(a) \in Seq(RouteSet(a)) /\ Len(Routes(a)) \in Nat
           /\ DOMAIN Routes(a) = 1..Len(Routes(a))
           /\ \A n \in 1..Len(Routes(a)) : Routes(a)[n] \in RouteSet(a)
           /\ ToSet(Routes(a)) = {Routes(a)[n] : n \in 1..Len(Routes(a))}
           /\ \A n \in 1..Len(Routes(a)) :
                 (\A m \in 1..Len(Routes(a)) : n < m => ~Alike(Routes(a)[m], Routes(a)[n]))
                 => FromTop(Routes(a)[n])
<1>1. PICK R : R = Routes(a)
  OBVIOUS
<1>2. R \in Seq(RouteSet(a)) /\ R \in Ordered(a)
  BY <1>1, RoutesOrdered DEF Ordered
<1>3. Len(R) \in Nat /\ DOMAIN R = 1..Len(R) /\ \A n \in 1..Len(R) : R[n] \in RouteSet(a)
  BY <1>2
<1>4. \A n \in 1..Len(R) : (\A m \in 1..Len(R) : n < m => ~Alike(R[m], R[n])) => FromTop(R[n])
  BY <1>2, <1>3, Zenon DEF Ordered
<1>5. ToSet(R) = {R[n] : n \in 1..Len(R)}
  BY <1>3 DEF ToSet
<1> QED
  BY <1>1, <1>2, <1>3, <1>4, <1>5

\* A router is made of what was prepared of all routes.
LEMMA RouterIsFit ==
    ASSUME NEW a \in DOMAIN Apps, NEW ctx, Prepared(a, ctx, Len(Routes(a)))
    PROVE  RouterFits(a, AppRouter(a, ctx))
<1>1. PICK router : router = AppRouter(a, ctx)
  OBVIOUS
<1>2. Agree(a, ctx, router, Targets(a))
  BY <1>1, AppAgrees
<1>3. PICK R, n : R = Routes(a) /\ n = Len(R)
  OBVIOUS
<1>4. Prepared(a, ctx, n)
  BY <1>3
<1>5. ASSUME NEW p \in DOMAIN router
      PROVE  \E t \in Targets(a) : t.path = p /\ Answers(a, t, router[p])
  <2>1. PICK t \in Targets(a) :
            t.path = p /\ TextOf(t) \in DOMAIN ctx[t.ref] /\ router[p] = ctx[t.ref][TextOf(t)]
    BY <1>2, Zenon DEF Agree
  <2>2. t.ref \in Refs(a)
    BY <1>2 DEF Agree, IsTarget
  <2>3. PICK m \in 1..n :
          /\ R[m].ref = t.ref /\ TextOf(R[m]) = TextOf(t)
          /\ \A l \in 1..n : m < l => ~Alike(R[l], R[m])
          /\ ctx[t.ref][TextOf(t)] = Procedure(R[m])
    <3>1. \A r \in Refs(a) : \A w \in DOMAIN ctx[r] : \E m \in 1..n :
            /\ Routes(a)[m].ref = r /\ TextOf(Routes(a)[m]) = w
            /\ \A l \in 1..n : m < l => ~Alike(Routes(a)[l], Routes(a)[m])
            /\ ctx[r][w] = Procedure(Routes(a)[m])
      BY <1>4, Zenon DEF Prepared
    <3>2. \E m \in 1..n :
            /\ Routes(a)[m].ref = t.ref /\ TextOf(Routes(a)[m]) = TextOf(t)
            /\ \A l \in 1..n : m < l => ~Alike(Routes(a)[l], Routes(a)[m])
            /\ ctx[t.ref][TextOf(t)] = Procedure(Routes(a)[m])
      BY <2>1, <2>2, <3>1, Zenon
    <3> QED
      BY <1>3, <3>2, Zenon
  <2>4. R[m] \in ToSet(Routes(a)) /\ FromTop(R[m])
    BY <1>3, <2>3, RoutesAre
  <2>5. Alike(R[m], t)
    BY <2>3 DEF Alike, TextOf
  <2>6. Answers(a, t, router[p])
    BY <2>1, <2>3, <2>4, <2>5, Zenon DEF Answers
  <2> QED
    BY <2>1, <2>6
<1>6. ASSUME NEW t \in Targets(a), t.sole, Like(a, t) # {}
      PROVE  t.path \in DOMAIN router
  <2>1. PICK y \in ToSet(Routes(a)) : y.ref = t.ref /\ TextOf(y) = TextOf(t)
    BY <1>6 DEF Like, TextOf, Text, Fn
  <2>2. PICK m \in 1..n : y = R[m]
    BY <1>3, <2>1, RoutesAre
  <2>3. TextOf(y) \in DOMAIN ctx[y.ref]
    BY <1>3, <1>4, <2>2, Zenon DEF Prepared
  <2> QED
    BY <1>2, <1>6, <2>1, <2>3, Zenon DEF Agree
<1>7. RouterFits(a, router)
  BY <1>5, <1>6, Zenon DEF RouterFits
<1> QED
  BY <1>1, <1>7

\* The method of a path that is clear is the one that answers there.
LEMMA ClearIsExact ==
    ASSUME NEW a \in DOMAIN Apps, NEW t \in Targets(a), Clear(a, t),
           NEW x \in ToSet(Routes(a)), Alike(x, t)
    PROVE  Fn(x) = Fn(t) /\ Fn(t) \in Like(a, t) /\ OnTop(x) = OnTop(t)
<1>1. x.ref = t.ref /\ functionOf(Fn(x)).text = functionOf(Fn(t)).text
  BY DEF Alike, Text, Fn
<1>2. Fn(x) \in Like(a, t)
  BY <1>1 DEF Like
<1>3. Fn(x) = Fn(t)
  BY <1>2 DEF Clear
<1>4. PICK y : y = <<x.class, x.method>> /\ y \in Marked(a)
  <2>1. x \in RouteSet(a)
    BY RoutesAre
  <2> QED
    BY <2>1, RouteIs
<1>6. IsTarget(a, t)
  BY AppAgrees, Zenon DEF Agree
<1>7. PICK r \in Refs(a) : \E key \in DOMAIN Mods(a)[r].config :
          /\ Mods(a)[r].config[key].kind # "module"
          /\ t.class = Mods(a)[r].config[key].class /\ t.method = Mods(a)[r].config[key].method
  BY <1>6 DEF IsTarget
<1>8. PICK key \in DOMAIN Mods(a)[r].config :
          /\ Mods(a)[r].config[key].kind # "module"
          /\ t.class = Mods(a)[r].config[key].class /\ t.method = Mods(a)[r].config[key].method
  BY <1>7
<1>9. prototypeOf(t.class, t.method) = prototypeOf(y[1], y[2])
  BY <1>3, <1>4 DEF Fn
<1>10. decoratorsOf(t.class, t.method) = decoratorsOf(y[1], y[2])
  <2>1. PICK to : to = Mods(a)[r].config[key]
    OBVIOUS
  <2>2. to.kind # "module" /\ prototypeOf(to.class, to.method) = prototypeOf(y[1], y[2])
    BY <1>8, <1>9, <2>1
  <2>3. decoratorsOf(to.class, to.method) = decoratorsOf(y[1], y[2])
    BY <1>4, <2>1, <2>2, MetaAssumption, Zenon
  <2> QED
    BY <1>8, <2>1, <2>3
<1>11. decoratorsOf(t.class, t.method) = decoratorsOf(x.class, x.method)
  BY <1>4, <1>10
<1>12. OnTop(x) = OnTop(t)
  BY <1>11 DEF OnTop
<1> QED
  BY <1>2, <1>3, <1>12

\* So a router that fits serves the methods it is asked for.
LEMMA FitServes ==
    ASSUME NEW a \in DOMAIN Apps, NEW router, RouterFits(a, router)
    PROVE  /\ \A t \in Targets(a) : Clear(a, t) =>
                 IF Fn(t) \notin Like(a, t) THEN t.path \notin DOMAIN router
                 ELSE /\ t.path \in DOMAIN router
                      /\ router[t.path].ref = t.ref
                      /\ router[t.path].method = Fn(t)
           /\ \A p \in DOMAIN router : \E t \in Targets(a) :
                 /\ t.path = p
                 /\ functionOf(Fn(t)).text = functionOf(router[p].method).text
<1>1. ASSUME NEW t \in Targets(a), Clear(a, t), t.path \in DOMAIN router
      PROVE  Fn(t) \in Like(a, t) /\ router[t.path].ref = t.ref /\ router[t.path].method = Fn(t)
  <2>1. PICK u \in Targets(a) : u.path = t.path /\ Answers(a, u, router[t.path])
    BY <1>1, Zenon DEF RouterFits
  <2>2. u = t
    BY <1>1, <2>1 DEF Clear
  <2>3. PICK x \in ToSet(Routes(a)) : Alike(x, t) /\ router[t.path] = Procedure(x)
    BY <2>1, <2>2, Zenon DEF Answers
  <2>4. Fn(x) = Fn(t) /\ Fn(t) \in Like(a, t)
    BY <1>1, <2>3, ClearIsExact
  <2>5. Procedure(x).ref = x.ref /\ Procedure(x).method = Fn(x) /\ x.ref = t.ref
    BY <2>3 DEF Procedure, Fn, Alike
  <2> QED
    BY <2>3, <2>4, <2>5
<1>2. ASSUME NEW t \in Targets(a), Clear(a, t), Fn(t) \in Like(a, t)
      PROVE  t.path \in DOMAIN router
  BY <1>2, Zenon DEF RouterFits, Clear
<1>3. ASSUME NEW p \in DOMAIN router
      PROVE  \E t \in Targets(a) : t.path = p /\ functionOf(Fn(t)).text = functionOf(router[p].method).text
  <2>1. PICK t \in Targets(a) : t.path = p /\ Answers(a, t, router[p])
    BY Zenon DEF RouterFits
  <2>2. PICK x \in ToSet(Routes(a)) : Alike(x, t) /\ router[p] = Procedure(x)
    BY <2>1, Zenon DEF Answers
  <2>3. Procedure(x).method = Fn(x) /\ functionOf(Fn(x)).text = functionOf(Fn(t)).text
    BY <2>2 DEF Procedure, Fn, Alike, Text
  <2> QED
    BY <2>1, <2>2, <2>3
<1> QED
  BY <1>1, <1>2, <1>3, Zenon

-----------------------------------------------------------------------------
(* Initialisations.                                                         *)

\* An initialisation starts with all its routes to do.
LEMMA StartPrepares ==
    ASSUME NEW a \in DOMAIN Apps
    PROVE  /\ 0 \in 0..Len(Routes(a))
           /\ Routes(a) = SubSeq(Routes(a), 0 + 1, Len(Routes(a)))
           /\ Prepared(a, [r \in Refs(a) |-> <<>>], 0)
<1>1. 0 \in 0..Len(Routes(a))
  BY RoutesAre
<1>2. PICK R \in Seq(RouteSet(a)) : R = Routes(a)
  BY RoutesAre
<1>3. R = SubSeq(R, 1, Len(R))
  OBVIOUS
<1>4. PICK ctx : ctx = [r \in Refs(a) |-> <<>>]
  OBVIOUS
<1>5. ctx = [r \in Refs(a) |-> ctx[r]] /\ \A r \in Refs(a) : DOMAIN ctx[r] = {}
  BY <1>4
<1>6. 1..0 = {}
  OBVIOUS
<1>7. Prepared(a, ctx, 0)
  BY <1>5, <1>6 DEF Prepared
<1> QED
  BY <1>1, <1>2, <1>3, <1>4, <1>7

\* One more route is prepared.
LEMMA OneMorePrepared ==
    ASSUME NEW a \in DOMAIN Apps, NEW ctx, NEW n \in 0..Len(Routes(a)), Prepared(a, ctx, n),
           NEW todos, todos = SubSeq(Routes(a), n + 1, Len(Routes(a))), todos # <<>>,
           NEW next, next = [ctx EXCEPT ![Head(todos).ref] =
                                Kept(@, Text(Head(todos).class, Head(todos).method), Procedure(Head(todos)))]
    PROVE  /\ n + 1 \in 0..Len(Routes(a))
           /\ Tail(todos) = SubSeq(Routes(a), (n + 1) + 1, Len(Routes(a)))
           /\ Prepared(a, next, n + 1)
<1>1. PICK R \in Seq(RouteSet(a)) : R = Routes(a)
  BY RoutesAre
<1>2. n \in Nat /\ Len(R) \in Nat /\ n <= Len(R)
  BY <1>1
<1>3. n < Len(R)
  <2> SUFFICES ASSUME n = Len(R) PROVE FALSE
    BY <1>2
  <2> QED
    BY <1>1, <1>2, SubSeqEmpty
<1>4. Head(todos) = R[n + 1] /\ Tail(todos) = SubSeq(R, (n + 1) + 1, Len(R))
  BY <1>1, <1>2, <1>3
<1>5. PICK x \in RouteSet(a) : x = R[n + 1]
  BY <1>1, <1>2, <1>3
<1>6. x.ref \in Refs(a)
  BY RouteIs
<1>7. ctx = [r \in Refs(a) |-> ctx[r]]
  BY DEF Prepared
<1>8. PICK k : k = Kept(ctx[x.ref], TextOf(x), Procedure(x))
  OBVIOUS
<1>9. next = [ctx EXCEPT ![x.ref] = k]
  BY <1>4, <1>5, <1>8 DEF TextOf
<1>10. next = [r \in Refs(a) |-> next[r]] /\ next[x.ref] = k /\ \A r \in Refs(a) : r # x.ref => next[r] = ctx[r]
  <2>1. DOMAIN ctx = Refs(a)
    BY <1>7
  <2>2. next = [r \in Refs(a) |-> IF r = x.ref THEN k ELSE ctx[r]]
    BY <1>9, <2>1
  <2> QED
    BY <1>6, <2>2
<1>11. /\ DOMAIN k = DOMAIN ctx[x.ref] \union {TextOf(x)}
       /\ \A w \in DOMAIN k : k[w] = IF w = TextOf(x) THEN Procedure(x) ELSE ctx[x.ref][w]
  BY <1>8 DEF Kept
<1>12. \A m \in 1..(n + 1) : m \in 1..n \/ m = n + 1
  BY <1>2
<1>13. \A m \in 1..n : m \in 1..(n + 1) /\ m # n + 1 /\ ~(n + 1 < m) /\ R[m].ref \in Refs(a)
  <2> SUFFICES ASSUME NEW m \in 1..n
               PROVE  m \in 1..(n + 1) /\ m # n + 1 /\ ~(n + 1 < m) /\ R[m].ref \in Refs(a)
    OBVIOUS
  <2>1. m \in 1..Len(R)
    BY <1>2, <1>3
  <2>2. R[m] \in RouteSet(a)
    BY <1>1, <2>1
  <2>3. R[m].ref \in Refs(a)
    BY <2>2, RouteIs
  <2>4. m \in 1..(n + 1) /\ m # n + 1 /\ ~(n + 1 < m)
    BY <1>2
  <2> QED
    BY <2>3, <2>4
<1>14. ASSUME NEW m \in 1..(n + 1)
       PROVE  TextOf(R[m]) \in DOMAIN next[R[m].ref]
  <2>1. CASE m = n + 1
    BY <1>5, <1>10, <1>11, <2>1
  <2>2. CASE m \in 1..n
    <3>1. TextOf(R[m]) \in DOMAIN ctx[R[m].ref]
      BY <1>1, <2>2, Zenon DEF Prepared
    <3> QED
      BY <1>10, <1>11, <1>13, <2>2, <3>1
  <2> QED
    BY <1>12, <2>1, <2>2
<1>15. ASSUME NEW r \in Refs(a), NEW w \in DOMAIN next[r]
       PROVE  \E m \in 1..(n + 1) :
                /\ R[m].ref = r /\ TextOf(R[m]) = w
                /\ \A l \in 1..(n + 1) : m < l => ~Alike(R[l], R[m])
                /\ next[r][w] = Procedure(R[m])
  <2>1. CASE r = x.ref /\ w = TextOf(x)
    <3>1. next[r][w] = Procedure(R[n + 1]) /\ R[n + 1].ref = r /\ TextOf(R[n + 1]) = w
      BY <1>5, <1>10, <1>11, <2>1
    <3>2. n + 1 \in 1..(n + 1) /\ \A l \in 1..(n + 1) : ~(n + 1 < l)
      BY <1>2
    <3> QED
      BY <3>1, <3>2, Zenon
  <2>2. CASE ~(r = x.ref /\ w = TextOf(x))
    <3>1. w \in DOMAIN ctx[r] /\ next[r][w] = ctx[r][w]
      <4>1. CASE r = x.ref
        BY <1>10, <1>11, <1>15, <2>2, <4>1
      <4>2. CASE r # x.ref
        BY <1>10, <1>15, <4>2
      <4> QED
        BY <4>1, <4>2
    <3>2. PICK m \in 1..n :
              /\ R[m].ref = r /\ TextOf(R[m]) = w
              /\ \A l \in 1..n : m < l => ~Alike(R[l], R[m])
              /\ ctx[r][w] = Procedure(R[m])
      BY <1>1, <3>1, Zenon DEF Prepared
    <3>3. ~Alike(R[n + 1], R[m])
      BY <1>5, <2>2, <3>2 DEF Alike, TextOf
    <3> QED
      BY <1>12, <1>13, <3>1, <3>2, <3>3, Zenon
  <2> QED
    BY <2>1, <2>2
<1>16. Prepared(a, next, n + 1)
  <2>1. PICK n1 : n1 = n + 1
    OBVIOUS
  <2>2. \A m \in 1..n1 : TextOf(Routes(a)[m]) \in DOMAIN next[Routes(a)[m].ref]
    BY <1>1, <1>14, <2>1
  <2>3. \A r \in Refs(a) : \A w \in DOMAIN next[r] : \E m \in 1..n1 :
          /\ Routes(a)[m].ref = r /\ TextOf(Routes(a)[m]) = w
          /\ \A l \in 1..n1 : m < l => ~Alike(Routes(a)[l], Routes(a)[m])
          /\ next[r][w] = Procedure(Routes(a)[m])
    <3> TAKE r \in Refs(a)
    <3> TAKE w \in DOMAIN next[r]
    <3>1. PICK m \in 1..(n + 1) :
              /\ R[m].ref = r /\ TextOf(R[m]) = w
              /\ \A l \in 1..(n + 1) : m < l => ~Alike(R[l], R[m])
              /\ next[r][w] = Procedure(R[m])
      BY <1>15
    <3>2. m \in 1..n1 /\ \A l \in 1..n1 : m < l => ~Alike(R[l], R[m])
      BY <2>1, <3>1
    <3> QED
      BY <1>1, <3>1, <3>2, Zenon
  <2>4. Prepared(a, next, n1)
    BY <1>10, <2>2, <2>3, Zenon DEF Prepared
  <2> QED
    BY <2>1, <2>4
<1>17. n + 1 \in 0..Len(R)
  BY <1>2, <1>3
<1> QED
  BY <1>1, <1>4, <1>16, <1>17

\* When nothing is left to do all is prepared.
LEMMA NothingLeft ==
    ASSUME NEW a \in DOMAIN Apps, NEW n \in 0..Len(Routes(a)),
           SubSeq(Routes(a), n + 1, Len(Routes(a))) = <<>>
    PROVE  n = Len(Routes(a))
<1>1. PICK R \in Seq(RouteSet(a)) : R = Routes(a)
  BY RoutesAre
<1>2. n \in Nat /\ Len(R) \in Nat /\ n <= Len(R)
  BY <1>1
<1> SUFFICES ASSUME n < Len(R) PROVE FALSE
  BY <1>1, <1>2
<1>3. Len(SubSeq(R, n + 1, Len(R))) = Len(R) - n
  BY <1>2
<1> QED
  BY <1>1, <1>2, <1>3

-----------------------------------------------------------------------------
(* Requests.                                                                *)

\* The chain of a route: its guards, then its interceptors.
LEMMA ChainIs ==
    ASSUME NEW a \in DOMAIN Apps, NEW x \in ToSet(Routes(a)), ~Stage1Throws(a)
    PROVE  /\ x.guards \in Seq(STRING) /\ x.interceptors \in Seq(STRING)
           /\ ChainOf(x) \in Seq([kind : {"guard", "interceptor"}, of : Guards \union Interceptors])
           /\ Len(ChainOf(x)) = Len(x.guards) + Len(x.interceptors)
           /\ \A k \in 1..Len(x.guards) : ChainOf(x)[k] = [kind |-> "guard", of |-> x.guards[k]]
           /\ \A k \in 1..Len(x.interceptors) :
                 ChainOf(x)[Len(x.guards) + k] = [kind |-> "interceptor", of |-> x.interceptors[k]]
<1>1. x \in RouteSet(a)
  BY RoutesAre
<1>2. PICK g \in Seq(STRING), i \in Seq(STRING) : g = x.guards /\ i = x.interceptors
  BY <1>1, RouteIs
<1>3. ToSet(g) \subseteq Guards /\ ToSet(i) \subseteq Interceptors
  BY <1>2 DEF Stage1Throws
<1>4. PICK s, t : /\ s = [k \in DOMAIN g |-> [kind |-> "guard", of |-> g[k]]]
                  /\ t = [k \in DOMAIN i |-> [kind |-> "interceptor", of |-> i[k]]]
  OBVIOUS
<1>5. ChainOf(x) = s \o t
  BY <1>2, <1>4 DEF ChainOf
<1>6. /\ Len(g) \in Nat /\ Len(i) \in Nat /\ DOMAIN g = 1..Len(g) /\ DOMAIN i = 1..Len(i)
      /\ \A k \in 1..Len(g) : g[k] \in Guards
      /\ \A k \in 1..Len(i) : i[k] \in Interceptors
  BY <1>3 DEF ToSet
<1> DEFINE Link == [kind : {"guard", "interceptor"}, of : Guards \union Interceptors]
<1>7. s \in Seq(Link) /\ Len(s) = Len(g) /\ \A k \in 1..Len(g) : s[k] = [kind |-> "guard", of |-> g[k]]
  <2>1. \A k \in 1..Len(g) : s[k] \in Link /\ s[k] = [kind |-> "guard", of |-> g[k]]
    BY <1>4, <1>6
  <2>2. s = [k \in 1..Len(g) |-> s[k]]
    BY <1>4, <1>6
  <2> HIDE DEF Link
  <2> QED
    BY <1>6, <2>1, <2>2
<1>8. t \in Seq(Link) /\ Len(t) = Len(i) /\ \A k \in 1..Len(i) : t[k] = [kind |-> "interceptor", of |-> i[k]]
  <2>1. \A k \in 1..Len(i) : t[k] \in Link /\ t[k] = [kind |-> "interceptor", of |-> i[k]]
    BY <1>4, <1>6
  <2>2. t = [k \in 1..Len(i) |-> t[k]]
    BY <1>4, <1>6
  <2> HIDE DEF Link
  <2> QED
    BY <1>6, <2>1, <2>2
<1> HIDE DEF Link
<1>9. PICK c : c = s \o t
  OBVIOUS
<1>10. c \in Seq(Link) /\ Len(c) = Len(g) + Len(i)
  <2>1. s \o t \in Seq(Link) /\ Len(s \o t) = Len(s) + Len(t)
    BY <1>7, <1>8, ConcatProperties
  <2> QED
    BY <1>7, <1>8, <1>9, <2>1
<1>11. /\ \A k \in 1..Len(g) : c[k] = [kind |-> "guard", of |-> g[k]]
       /\ \A k \in 1..Len(i) : c[Len(g) + k] = [kind |-> "interceptor", of |-> i[k]]
  <2>1. /\ \A k \in 1..Len(g) : c[k] = s[k]
        /\ \A k \in 1..Len(i) : c[Len(g) + k] = t[k]
    BY <1>7, <1>8, <1>9
  <2> QED
    BY <1>7, <1>8, <2>1
<1>12. x.guards = g /\ x.interceptors = i /\ ChainOf(x) = c
  BY <1>2, <1>5, <1>9
<1> QED
  BY <1>10, <1>11, <1>12 DEF Link

\* Of the rest of a sequence of which k are done.
LEMMA RestIs ==
    ASSUME NEW S, NEW c \in Seq(S), NEW k \in 0..Len(c)
    PROVE  /\ SubSeq(c, k + 1, Len(c)) = <<>> <=> k = Len(c)
           /\ k # Len(c) => /\ k + 1 \in 1..Len(c)
                            /\ Head(SubSeq(c, k + 1, Len(c))) = c[k + 1]
                            /\ Tail(SubSeq(c, k + 1, Len(c))) = SubSeq(c, (k + 1) + 1, Len(c))
<1>1. k \in Nat /\ Len(c) \in Nat /\ k <= Len(c)
  OBVIOUS
<1>2. Len(SubSeq(c, k + 1, Len(c))) = Len(c) - k
  BY <1>1
<1>3. CASE k = Len(c)
  <2>1. SubSeq(c, k + 1, Len(c)) = <<>>
    BY <1>1, <1>3, SubSeqEmpty
  <2> QED
    BY <1>3, <2>1
<1>4. CASE k # Len(c)
  <2>1. k + 1 \in 1..Len(c)
    BY <1>1, <1>4
  <2>2. SubSeq(c, k + 1, Len(c)) # <<>>
    <3>1. Len(SubSeq(c, k + 1, Len(c))) # 0
      BY <1>1, <1>2, <1>4
    <3>2. Len(<<>>) = 0
      OBVIOUS
    <3>3. PICK s : s = SubSeq(c, k + 1, Len(c))
      OBVIOUS
    <3> QED
      BY <3>1, <3>2, <3>3, Zenon
  <2>3. Head(SubSeq(c, k + 1, Len(c))) = c[k + 1]
    BY <2>1
  <2>4. Tail(SubSeq(c, k + 1, Len(c))) = SubSeq(c, (k + 1) + 1, Len(c))
    BY <1>1, <2>1
  <2> QED
    BY <1>4, <2>1, <2>2, <2>3, <2>4
<1> QED
  BY <1>3, <1>4

\* A request that has a rest of its chain is halfway, before the next link.
LEMMA NextLink ==
    ASSUME NEW q, q.of \in DOMAIN Apps, ~Stage1Throws(q.of), q.script \in Scripts,
           Running(q), q.rest # <<>>
    PROVE  \E t, x, k :
              /\ Asks(q, q.of, t, x) /\ q.runs = Procedure(x).runs
              /\ k \in 0..Len(ChainOf(x)) /\ k + 1 \in 0..Len(ChainOf(x)) /\ Halfway(q, x, k)
              /\ q.script[Head(q.rest).of] \in {"pass", "stop", "throw"}
              /\ Head(q.rest) = ChainOf(x)[k + 1]
              /\ Tail(q.rest) = SubSeq(ChainOf(x), (k + 1) + 1, Len(ChainOf(x)))
              /\ Head(q.rest).kind = "guard" =>
                    k + 1 \in 1..Len(x.guards) /\ Head(q.rest).of = x.guards[k + 1]
              /\ Head(q.rest).kind = "interceptor" => Len(x.guards) <= k
<1>1. PICK t, x :
          /\ Asks(q, q.of, t, x) /\ q.runs = Procedure(x).runs
          /\ \E k \in 0..Len(ChainOf(x)) : Halfway(q, x, k)
  BY DEF Running
<1>2. PICK k \in 0..Len(ChainOf(x)) : Halfway(q, x, k)
  BY <1>1
<1>3. x \in ToSet(Routes(q.of))
  BY <1>1 DEF Asks
<1> DEFINE Link == [kind : {"guard", "interceptor"}, of : Guards \union Interceptors]
<1>4. PICK c : c = ChainOf(x)
  OBVIOUS
<1>5. PICK g, i : g = x.guards /\ i = x.interceptors
  OBVIOUS
<1>6. /\ g \in Seq(STRING) /\ i \in Seq(STRING) /\ c \in Seq(Link)
      /\ Len(c) = Len(g) + Len(i)
      /\ \A n \in 1..Len(g) : c[n] = [kind |-> "guard", of |-> g[n]]
      /\ \A n \in 1..Len(i) : c[Len(g) + n] = [kind |-> "interceptor", of |-> i[n]]
  BY <1>3, <1>4, <1>5, ChainIs
<1>7. q.rest = SubSeq(c, k + 1, Len(c)) /\ k \in 0..Len(c)
  BY <1>2, <1>4 DEF Halfway
<1>8. /\ k + 1 \in 1..Len(c) /\ Head(q.rest) = c[k + 1]
      /\ Tail(q.rest) = SubSeq(c, (k + 1) + 1, Len(c))
  <2> HIDE DEF Link
  <2> QED
    BY <1>6, <1>7, RestIs
<1>9. c[k + 1] \in Link
  <2> HIDE DEF Link
  <2> QED
    BY <1>6, <1>8
<1>10. q.script[Head(q.rest).of] \in {"pass", "stop", "throw"}
  <2>1. Head(q.rest).of \in Guards \union Interceptors
    BY <1>8, <1>9
  <2> QED
    BY <2>1, ScriptsAssumption
<1>11. k \in Nat /\ Len(g) \in Nat /\ Len(i) \in Nat /\ k + 1 \in 0..Len(c)
  BY <1>6, <1>7, <1>8
<1>12. ASSUME ~(k < Len(g)) PROVE Len(g) <= k /\ Head(q.rest).kind # "guard"
  <2>1. k + 1 - Len(g) \in 1..Len(i) /\ k + 1 = Len(g) + (k + 1 - Len(g))
    BY <1>6, <1>8, <1>11, <1>12
  <2>2. c[k + 1].kind = "interceptor"
    <3>1. PICK n \in 1..Len(i) : k + 1 = Len(g) + n
      BY <2>1
    <3>2. c[Len(g) + n] = [kind |-> "interceptor", of |-> i[n]]
      BY <1>6
    <3>3. [kind |-> "interceptor", of |-> i[n]].kind = "interceptor"
      OBVIOUS
    <3> QED
      BY <3>1, <3>2, <3>3, Zenon
  <2> QED
    BY <1>8, <1>11, <1>12, <2>2
<1>13. ASSUME k < Len(g)
       PROVE  /\ k + 1 \in 1..Len(g) /\ Head(q.rest).of = g[k + 1]
              /\ Head(q.rest).kind # "interceptor"
  <2>1. k + 1 \in 1..Len(g)
    BY <1>11, <1>13
  <2>2. c[k + 1] = [kind |-> "guard", of |-> g[k + 1]]
    BY <1>6, <2>1
  <2> QED
    BY <1>8, <2>1, <2>2
<1> QED
  BY <1>1, <1>2, <1>4, <1>5, <1>7, <1>8, <1>10, <1>11, <1>12, <1>13

\* A link that passes leaves the request halfway, one further.
LEMMA PassRuns ==
    ASSUME NEW q, q.of \in DOMAIN Apps, ~Stage1Throws(q.of), q.script \in Scripts,
           Running(q), q.rest # <<>>, q.script[Head(q.rest).of] = "pass",
           NEW q2, q2.of = q.of, q2.path = q.path, q2.perReq = q.perReq, q2.runs = q.runs,
           q2.script = q.script, q2.rest = Tail(q.rest),
           \/ Head(q.rest).kind = "guard" /\ q2.passed = Append(q.passed, Head(q.rest).of)
           \/ Head(q.rest).kind = "interceptor" /\ q2.passed = q.passed
    PROVE  Running(q2)
<1>1. PICK t, x, k :
              /\ Asks(q, q.of, t, x) /\ q.runs = Procedure(x).runs
              /\ k \in 0..Len(ChainOf(x)) /\ k + 1 \in 0..Len(ChainOf(x)) /\ Halfway(q, x, k)
              /\ Head(q.rest) = ChainOf(x)[k + 1]
              /\ Tail(q.rest) = SubSeq(ChainOf(x), (k + 1) + 1, Len(ChainOf(x)))
              /\ Head(q.rest).kind = "guard" =>
                    k + 1 \in 1..Len(x.guards) /\ Head(q.rest).of = x.guards[k + 1]
              /\ Head(q.rest).kind = "interceptor" => Len(x.guards) <= k
  BY NextLink
<1>2. Asks(q2, q2.of, t, x) /\ q2.runs = Procedure(x).runs
  BY <1>1 DEF Asks
<1>3. PICK g \in Seq(STRING) : g = x.guards
  BY <1>1, ChainIs DEF Asks
<1>4. k \in Nat /\ Len(g) \in Nat
  BY <1>1
<1>5. Guarded(q2, x, k + 1)
  <2>1. q.passed = SubSeq(g, 1, IF k <= Len(g) THEN k ELSE Len(g))
    BY <1>1, <1>3 DEF Halfway, Guarded
  <2>2. CASE Head(q.rest).kind = "guard" /\ q2.passed = Append(q.passed, Head(q.rest).of)
    <3>1. k + 1 \in 1..Len(g) /\ Head(q.rest).of = g[k + 1]
      BY <1>1, <1>3, <2>2
    <3>2. q.passed = SubSeq(g, 1, k)
      BY <1>4, <2>1, <3>1
    <3>3. SubSeq(g, 1, k + 1) = Append(SubSeq(g, 1, k), g[k + 1])
      BY <1>4, <3>1
    <3>4. k + 1 <= Len(g)
      BY <3>1
    <3> QED
      BY <1>3, <2>2, <3>1, <3>2, <3>3, <3>4 DEF Guarded
  <2>3. CASE Head(q.rest).kind = "interceptor" /\ q2.passed = q.passed
    <3>1. Len(g) <= k /\ ~(k + 1 <= Len(g))
      BY <1>1, <1>3, <1>4, <2>3
    <3>2. (IF k <= Len(g) THEN k ELSE Len(g)) = Len(g)
      BY <1>4, <3>1
    <3>3. q.passed = SubSeq(g, 1, Len(g))
      BY <2>1, <3>2
    <3> QED
      BY <1>3, <2>3, <3>1, <3>3 DEF Guarded
  <2> QED
    BY <2>2, <2>3
<1>6. \A i \in 1..(k + 1) : q2.script[ChainOf(x)[i].of] = "pass"
  <2> SUFFICES ASSUME NEW i \in 1..(k + 1) PROVE q2.script[ChainOf(x)[i].of] = "pass"
    OBVIOUS
  <2>1. CASE i = k + 1
    BY <1>1, <2>1
  <2>2. CASE i # k + 1
    <3>1. i \in 1..k
      BY <1>4, <2>2
    <3> QED
      BY <1>1, <3>1 DEF Halfway
  <2> QED
    BY <2>1, <2>2
<1>7. Halfway(q2, x, k + 1)
  BY <1>1, <1>5, <1>6 DEF Halfway
<1> QED
  BY <1>1, <1>2, <1>7 DEF Running

\* What has been passed by when the guards are done.
LEMMA GuardsDone ==
    ASSUME NEW q, NEW a \in DOMAIN Apps, ~Stage1Throws(a), NEW x \in ToSet(Routes(a)),
           NEW k \in 0..Len(ChainOf(x)), Halfway(q, x, k), Len(x.guards) <= k
    PROVE  AllPassed(q, x)
<1>1. PICK g \in Seq(STRING) : g = x.guards
  BY ChainIs
<1>2. k \in Nat /\ Len(g) \in Nat /\ Len(g) <= k
  BY <1>1
<1>3. q.passed = g
  <2>1. q.passed = SubSeq(g, 1, IF k <= Len(g) THEN k ELSE Len(g))
    BY <1>1 DEF Halfway, Guarded
  <2>2. (IF k <= Len(g) THEN k ELSE Len(g)) = Len(g)
    BY <1>2
  <2>3. SubSeq(g, 1, Len(g)) = g
    OBVIOUS
  <2> QED
    BY <2>1, <2>2, <2>3
<1>4. ASSUME NEW i \in 1..Len(g) PROVE q.script[g[i]] = "pass"
  <2>1. i \in 1..k
    BY <1>2
  <2>2. ChainOf(x)[i].of = g[i]
    <3>1. \A n \in 1..Len(x.guards) : ChainOf(x)[n] = [kind |-> "guard", of |-> x.guards[n]]
      BY ChainIs
    <3>2. ChainOf(x)[i] = [kind |-> "guard", of |-> g[i]]
      BY <1>1, <3>1
    <3> QED
      BY <3>2
  <2> QED
    BY <2>1, <2>2 DEF Halfway
<1> QED
  BY <1>1, <1>3, <1>4 DEF AllPassed

\* An interceptor that answers in the place of a procedure ends the chain.
LEMMA StopRuns ==
    ASSUME NEW q, q.of \in DOMAIN Apps, ~Stage1Throws(q.of), q.script \in Scripts,
           Running(q), q.rest # <<>>, Head(q.rest).kind = "interceptor", ~q.perReq,
           NEW q2, q2.of = q.of, q2.path = q.path, q2.perReq = q.perReq, q2.runs = q.runs,
           q2.script = q.script, q2.passed = q.passed, q2.rest = <<>>
    PROVE  Running(q2)
<1>1. PICK t, x, k :
              /\ Asks(q, q.of, t, x) /\ q.runs = Procedure(x).runs
              /\ k \in 0..Len(ChainOf(x)) /\ Halfway(q, x, k)
              /\ Head(q.rest).kind = "interceptor" => Len(x.guards) <= k
  BY NextLink
<1>2. Asks(q2, q2.of, t, x) /\ q2.runs = Procedure(x).runs
  BY <1>1 DEF Asks
<1>3. AllPassed(q, x)
  BY <1>1, GuardsDone DEF Asks
<1>4. AllPassed(q2, x)
  BY <1>3 DEF AllPassed
<1> QED
  BY <1>2, <1>4 DEF Running

\* A resolver that runs has all of its guards behind it.
LEMMA ResolveAnswers ==
    ASSUME NEW q, q.of \in DOMAIN Apps, ~Stage1Throws(q.of), Running(q), q.rest = <<>>,
           NEW q2, q2.of = q.of, q2.path = q.path, q2.perReq = q.perReq, q2.script = q.script,
           q2.passed = q.passed, q2.ran = q.runs
    PROVE  Answered(q2)
<1>1. PICK t, x :
        /\ Asks(q, q.of, t, x)
        /\ q.runs = Procedure(x).runs
        /\ \/ \E k \in 0..Len(ChainOf(x)) : Halfway(q, x, k)
           \/ q.rest = <<>> /\ ~q.perReq /\ AllPassed(q, x)
  BY DEF Running
<1>2. Asks(q2, q2.of, t, x) /\ q2.ran = Procedure(x).runs
  BY <1>1 DEF Asks
<1>3. CASE q.rest = <<>> /\ ~q.perReq /\ AllPassed(q, x)
  <2>1. AllPassed(q2, x) /\ ~q2.perReq
    BY <1>3 DEF AllPassed
  <2> QED
    BY <1>2, <2>1 DEF Answered
<1>4. CASE \E k \in 0..Len(ChainOf(x)) : Halfway(q, x, k)
  <2>1. PICK k \in 0..Len(ChainOf(x)) : Halfway(q, x, k)
    BY <1>4
  <2>2. x \in ToSet(Routes(q.of))
    BY <1>1 DEF Asks
  <2> DEFINE Link == [kind : {"guard", "interceptor"}, of : Guards \union Interceptors]
  <2>3. PICK c, g, i : c = ChainOf(x) /\ g = x.guards /\ i = x.interceptors
    OBVIOUS
  <2>4. /\ g \in Seq(STRING) /\ i \in Seq(STRING) /\ c \in Seq(Link)
        /\ Len(c) = Len(g) + Len(i)
        /\ \A n \in 1..Len(i) : c[Len(g) + n] = [kind |-> "interceptor", of |-> i[n]]
    BY <2>2, <2>3, ChainIs
  <2>5. k = Len(c)
    <3>1. SubSeq(c, k + 1, Len(c)) = <<>>
      BY <2>1, <2>3 DEF Halfway
    <3> HIDE DEF Link
    <3> QED
      BY <2>1, <2>3, <2>4, <3>1, RestIs
  <2>6. Len(g) \in Nat /\ Len(i) \in Nat /\ Len(g) <= k
    BY <2>4, <2>5
  <2>7. AllPassed(q, x)
    BY <2>1, <2>2, <2>3, <2>6, GuardsDone
  <2>8. AllPassed(q2, x)
    BY <2>7 DEF AllPassed
  <2>9. ASSUME NEW n \in 1..Len(i) PROVE q2.script[i[n]] = "pass"
    <3>1. Len(g) + n \in 1..k /\ c[Len(g) + n].of = i[n]
      <4>1. Len(g) + n \in 1..k
        BY <2>4, <2>5, <2>6
      <4>2. c[Len(g) + n] = [kind |-> "interceptor", of |-> i[n]]
        BY <2>4
      <4> QED
        BY <4>1, <4>2
    <3> QED
      BY <2>1, <2>3, <3>1 DEF Halfway
  <2> QED
    BY <1>2, <2>3, <2>8, <2>9 DEF Answered
<1> QED
  BY <1>1, <1>3, <1>4

\* A request that comes to a router that fits is before the first link.
LEMMA ListenRuns ==
    ASSUME NEW a \in DOMAIN Apps, NEW router, RouterFits(a, router), NEW path \in DOMAIN router,
           NEW q, q.of = a, q.path = path, q.perReq = router[path].perReq,
           q.rest = router[path].chain, q.runs = router[path].runs, q.passed = <<>>, ~Stage1Throws(a)
    PROVE  Running(q)
<1>1. PICK t \in Targets(a) : t.path = path /\ Answers(a, t, router[path])
  BY Zenon DEF RouterFits
<1>2. PICK x \in ToSet(Routes(a)) : Alike(x, t) /\ FromTop(x) /\ router[path] = Procedure(x)
  BY <1>1 DEF Answers
<1>3. Asks(q, a, t, x) /\ q.runs = Procedure(x).runs
  BY <1>1, <1>2 DEF Asks
<1>4. q.rest = ChainOf(x)
  BY <1>2 DEF Procedure
<1> DEFINE Link == [kind : {"guard", "interceptor"}, of : Guards \union Interceptors]
<1>5. x.guards \in Seq(STRING) /\ ChainOf(x) \in Seq(Link)
  BY ChainIs
<1> HIDE DEF Link
<1>6. Halfway(q, x, 0)
  <2>1. ChainOf(x) = SubSeq(ChainOf(x), 0 + 1, Len(ChainOf(x)))
    BY <1>5
  <2>2. SubSeq(x.guards, 1, 0) = <<>> /\ 0 <= Len(x.guards)
    BY <1>5
  <2>3. 1..0 = {}
    OBVIOUS
  <2> QED
    BY <1>4, <2>1, <2>2, <2>3 DEF Halfway, Guarded
<1>7. 0 \in 0..Len(ChainOf(x))
  BY <1>5
<1> QED
  BY <1>3, <1>6, <1>7 DEF Running

-----------------------------------------------------------------------------
(* The invariant.                                                           *)

\* The initialisation of an application starts anew.
LEMMA StartKeeps ==
    ASSUME NEW a \in DOMAIN Apps, kept \in DOMAIN Apps, kept' = kept, Start(a)
    PROVE  Preparation'
<1>1. app' = a /\ context' = [r \in Refs(a) |-> <<>>] /\ todo' = Routes(a) /\ phase' = "preparing"
  BY DEF Start
<1>2. \E n \in 0..Len(Routes(a)) :
          /\ Routes(a) = SubSeq(Routes(a), n + 1, Len(Routes(a)))
          /\ Prepared(a, [r \in Refs(a) |-> <<>>], n)
  BY StartPrepares
<1>3. phase' \notin {"created", "serving"}
  BY <1>1
<1> QED
  BY <1>1, <1>2, <1>3 DEF Preparation

\* Steps that prepare nothing.
LEMMA SameKeepsPreparation ==
    ASSUME Preparation, UNCHANGED <<app, kept, todo, context>>,
           phase' \in {"created", "serving"} => todo = <<>> /\ ~Stage1Throws(app)
    PROVE  Preparation'
  BY DEF Preparation

\* Every step keeps what is known of the preparation.
LEMMA StepKeepsPreparation == ASSUME Preparation, [Next]_vars PROVE Preparation'
<1>1. ASSUME Fail PROVE Preparation'
  <2>1. CASE init = 1
    BY <1>1, <2>1, SameKeepsPreparation DEF Fail
  <2>2. CASE init # 1
    BY <1>1, <2>2, StartKeeps DEF Fail, Preparation
  <2> QED
    BY <2>1, <2>2
<1>2. ASSUME SetHandlerPerReq PROVE Preparation'
  <2>1. PICK n \in 0..Len(Routes(app)) :
            todo = SubSeq(Routes(app), n + 1, Len(Routes(app))) /\ Prepared(app, context, n)
    BY DEF Preparation
  <2>2. /\ todo # <<>> /\ todo' = Tail(todo)
        /\ context' = [context EXCEPT ![Head(todo).ref] =
                          Kept(@, Text(Head(todo).class, Head(todo).method), Procedure(Head(todo)))]
        /\ app' = app /\ kept' = kept /\ phase' = "preparing"
    BY <1>2 DEF SetHandlerPerReq
  <2>3. PICK next : next = context'
    OBVIOUS
  <2>4. /\ n + 1 \in 0..Len(Routes(app))
        /\ Tail(todo) = SubSeq(Routes(app), (n + 1) + 1, Len(Routes(app)))
        /\ Prepared(app, next, n + 1)
    BY <2>1, <2>2, <2>3, OneMorePrepared DEF Preparation
  <2>5. \E n1 \in 0..Len(Routes(app)) :
            todo' = SubSeq(Routes(app), n1 + 1, Len(Routes(app))) /\ Prepared(app, context', n1)
    BY <2>2, <2>3, <2>4
  <2>6. phase' \notin {"created", "serving"}
    BY <2>2
  <2> QED
    BY <2>2, <2>5, <2>6 DEF Preparation
<1>3. ASSUME Bootstrapped PROVE Preparation'
  BY <1>3 DEF Bootstrapped, Preparation
<1>4. ASSUME ResetRequestListener PROVE Preparation'
  <2>1. UNCHANGED <<app, kept, todo, context>> /\ todo = <<>> /\ ~Stage1Throws(app)
    BY <1>4 DEF ResetRequestListener, Preparation
  <2> QED
    BY <2>1, SameKeepsPreparation
<1>5. ASSUME Reinit PROVE Preparation'
  <2>1. PICK a \in Reached : Start(a)
    BY <1>5 DEF Reinit
  <2>2. a \in DOMAIN Apps /\ kept' = kept
    BY <1>5, AppsAssumption DEF Reinit
  <2> QED
    BY <2>1, <2>2, StartKeeps DEF Preparation
<1>6. ASSUME NEW path, NEW s \in Scripts, RequestListener(path, s) PROVE Preparation'
  <2>1. UNCHANGED <<app, kept, todo, context>> /\ phase' \in {phase, "crashed"}
    BY <1>6 DEF RequestListener
  <2>2. phase' \in {"created", "serving"} => todo = <<>> /\ ~Stage1Throws(app)
    BY <2>1 DEF Preparation
  <2> QED
    BY <2>1, <2>2, SameKeepsPreparation
<1>7. ASSUME RequestStep PROVE Preparation'
  <2>1. UNCHANGED <<app, kept, phase, todo, context>>
    BY <1>7 DEF RequestStep, CanActivate, Intercept, Resolve, Rest
  <2> QED
    BY <2>1, SameKeepsPreparation DEF Preparation
<1>8. ASSUME UNCHANGED vars PROVE Preparation'
  <2>1. UNCHANGED <<app, kept, phase, todo, context>>
    BY <1>8 DEF vars
  <2> QED
    BY <2>1, SameKeepsPreparation DEF Preparation
<1> QED
  BY <1>1, <1>2, <1>3, <1>4, <1>5, <1>6, <1>7, <1>8 DEF Next

\* Every step keeps what is known of the router in place.
LEMMA StepKeepsDispatching == ASSUME Preparation, Dispatching, [Next]_vars PROVE Dispatching'
<1>1. ASSUME dispatcher' = dispatcher PROVE Dispatching'
  BY <1>1 DEF Dispatching
<1>2. ASSUME Fail \/ SetHandlerPerReq \/ Reinit \/ RequestStep \/ UNCHANGED vars PROVE Dispatching'
  <2>1. dispatcher' = dispatcher
    BY <1>2 DEF Fail, SetHandlerPerReq, Reinit, RequestStep, CanActivate, Intercept, Resolve, Rest, vars
  <2> QED
    BY <1>1, <2>1
<1>3. ASSUME Bootstrapped PROVE Dispatching'
  BY <1>3 DEF Bootstrapped, NoListener, Dispatching
<1>4. ASSUME ResetRequestListener PROVE Dispatching'
  <2>1. CASE Mergeable(app)
    <3>1. PICK ctx : ctx = context
      OBVIOUS
    <3>2. dispatcher' = [set |-> TRUE, of |-> app, router |-> AppRouter(app, ctx)]
      BY <1>4, <2>1, <3>1 DEF ResetRequestListener
    <3>3. app \in DOMAIN Apps /\ todo = <<>> /\ ~Stage1Throws(app)
      BY <1>4 DEF ResetRequestListener, Preparation
    <3>4. PICK n \in 0..Len(Routes(app)) :
              todo = SubSeq(Routes(app), n + 1, Len(Routes(app))) /\ Prepared(app, ctx, n)
      BY <3>1 DEF Preparation
    <3>5. n = Len(Routes(app))
      BY <3>3, <3>4, NothingLeft
    <3>6. RouterFits(app, AppRouter(app, ctx))
      BY <3>3, <3>4, <3>5, RouterIsFit
    <3>7. dispatcher'.of = app /\ dispatcher'.router = AppRouter(app, ctx)
      BY <3>2
    <3> QED
      BY <3>3, <3>6, <3>7 DEF Dispatching
  <2>2. CASE ~Mergeable(app)
    BY <1>1, <1>4, <2>2 DEF ResetRequestListener
  <2> QED
    BY <2>1, <2>2
<1>5. ASSUME NEW path, NEW s, RequestListener(path, s) PROVE Dispatching'
  BY <1>1, <1>5 DEF RequestListener
<1> QED
  BY <1>2, <1>3, <1>4, <1>5 DEF Next

\* A request that has just come, or is none.
LEMMA NoRequestIs ==
    /\ IsRequest(NoRequest) /\ NoRequest.ran = <<>> /\ NoRequest.passed = <<>>
    /\ NoRequest.state # "running"
  BY DEF NoRequest, IsRequest

\* A request that comes is one that can be served.
LEMMA ListenerKeeps ==
    ASSUME Dispatching, Requesting, NEW path, NEW s \in Scripts, RequestListener(path, s)
    PROVE  Requesting'
<1>1. CASE ~dispatcher.set
  BY <1>1 DEF RequestListener, Requesting
<1>2. CASE dispatcher.set /\ path \notin DOMAIN dispatcher.router
  <2>1. req' = [NoRequest EXCEPT !.state = "NOT_FOUND", !.path = path, !.of = dispatcher.of]
    BY <1>2 DEF RequestListener
  <2>2. IsRequest(req') /\ req'.state = "NOT_FOUND" /\ req'.ran = <<>>
    BY <2>1 DEF NoRequest, IsRequest
  <2> QED
    BY <2>2 DEF Requesting, IsRequest
<1>3. CASE dispatcher.set /\ path \in DOMAIN dispatcher.router
  <2>1. PICK p : p = dispatcher.router[path]
    OBVIOUS
  <2>2. req' = [NoRequest EXCEPT !.state = "running", !.path = path, !.of = dispatcher.of,
                    !.perReq = p.perReq, !.rest = p.chain, !.runs = p.runs, !.script = s]
    BY <1>3, <2>1 DEF RequestListener
  <2>3. PICK q : q = req'
    OBVIOUS
  <2>4. /\ IsRequest(q) /\ q.state = "running" /\ q.ran = <<>> /\ q.of = dispatcher.of /\ q.path = path
        /\ q.perReq = p.perReq /\ q.rest = p.chain /\ q.runs = p.runs /\ q.passed = <<>> /\ q.script = s
    BY <2>2, <2>3 DEF NoRequest, IsRequest
  <2>5. dispatcher.of \in DOMAIN Apps /\ ~Stage1Throws(dispatcher.of)
        /\ RouterFits(dispatcher.of, dispatcher.router)
    BY <1>3 DEF Dispatching
  <2>6. Running(q)
    BY <1>3, <2>1, <2>4, <2>5, ListenRuns
  <2> QED
    BY <2>3, <2>4, <2>5, <2>6 DEF Requesting
<1> QED
  BY <1>1, <1>2, <1>3

\* A request that has not been resolved yet and is answered has not run.
LEMMA AnsweredKeeps ==
    ASSUME NEW q, IsRequest(q), q.ran = <<>>, NEW s, s # "running"
    PROVE  LET u == [q EXCEPT !.state = s]
           IN  IsRequest(u) /\ u.state # "running" /\ u.ran = <<>>
<1>1. [q EXCEPT !.state = s]
         = [state |-> s, of |-> q.of, path |-> q.path, perReq |-> q.perReq, rest |-> q.rest,
            script |-> q.script, runs |-> q.runs, passed |-> q.passed, ran |-> q.ran]
  BY DEF IsRequest
<1> QED
  BY <1>1 DEF IsRequest

\* Every step keeps what is known of the request.
LEMMA StepKeepsRequesting == ASSUME Dispatching, Requesting, [Next]_vars PROVE Requesting'
<1>1. ASSUME UNCHANGED req PROVE Requesting'
  BY <1>1 DEF Requesting
<1>2. ASSUME Fail \/ SetHandlerPerReq \/ Bootstrapped \/ ResetRequestListener \/ Reinit \/ UNCHANGED vars
      PROVE  Requesting'
  <2>1. UNCHANGED req
    BY <1>2 DEF Fail, SetHandlerPerReq, Bootstrapped, ResetRequestListener, Reinit, vars
  <2> QED
    BY <1>1, <2>1
<1>3. ASSUME req.state = "running"
      PROVE  /\ IsRequest(req) /\ req.ran = <<>>
             /\ req.of \in DOMAIN Apps /\ ~Stage1Throws(req.of) /\ req.script \in Scripts /\ Running(req)
  BY <1>3 DEF Requesting
<1>4. ASSUME req.state = "running", NEW q, q = req', IsRequest(q), q.state = "running", q.ran = <<>>,
             q.of = req.of, q.script = req.script, Running(q)
      PROVE  Requesting'
  BY <1>3, <1>4 DEF Requesting
<1>5. ASSUME req.state = "running", NEW s, s # "running", req' = [req EXCEPT !.state = s]
      PROVE  Requesting'
  <2>1. PICK q : q = req'
    OBVIOUS
  <2>2. IsRequest(q) /\ q.state # "running" /\ q.ran = <<>>
    BY <1>3, <1>5, <2>1, AnsweredKeeps
  <2> QED
    BY <2>1, <2>2 DEF Requesting
<1>6. ASSUME req.state = "running", req.rest # <<>>
      PROVE  Verdict \in {"pass", "stop", "throw"}
  BY <1>3, <1>6, NextLink DEF Verdict
<1>7. ASSUME CanActivate PROVE Requesting'
  <2>1. req.state = "running" /\ req.rest # <<>> /\ Head(req.rest).kind = "guard"
    BY <1>7 DEF CanActivate, Stepping
  <2>2. CASE Verdict = "pass"
    <3>1. req' = [[req EXCEPT !.rest = Tail(req.rest)] EXCEPT !.passed = Append(@, Head(req.rest).of)]
      BY <1>7, <2>2 DEF CanActivate, Onward
    <3>2. PICK q : q = [state |-> req.state, of |-> req.of, path |-> req.path, perReq |-> req.perReq,
                        rest |-> Tail(req.rest), script |-> req.script, runs |-> req.runs,
                        passed |-> Append(req.passed, Head(req.rest).of), ran |-> req.ran]
      OBVIOUS
    <3>3. q = req' /\ IsRequest(q)
      BY <1>3, <2>1, <3>1, <3>2 DEF IsRequest
    <3>4. /\ q.state = "running" /\ q.ran = <<>> /\ q.of = req.of /\ q.path = req.path
          /\ q.perReq = req.perReq /\ q.runs = req.runs /\ q.script = req.script
          /\ q.rest = Tail(req.rest) /\ q.passed = Append(req.passed, Head(req.rest).of)
      BY <1>3, <2>1, <3>2
    <3>5. Running(q)
      BY <1>3, <2>1, <2>2, <3>4, PassRuns DEF Verdict
    <3> QED
      BY <1>4, <2>1, <3>3, <3>4, <3>5
  <2>3. CASE Verdict = "stop"
    <3>1. req' = [req EXCEPT !.state = "UNAUTHORIZED"]
      BY <1>7, <2>3 DEF CanActivate
    <3> QED
      BY <1>5, <2>1, <3>1
  <2>4. CASE Verdict = "throw"
    <3>1. req' = [req EXCEPT !.state = "ERROR"]
      BY <1>7, <2>4 DEF CanActivate
    <3> QED
      BY <1>5, <2>1, <3>1
  <2> QED
    BY <1>6, <2>1, <2>2, <2>3, <2>4
<1>8. ASSUME Intercept PROVE Requesting'
  <2>1. req.state = "running" /\ req.rest # <<>> /\ Head(req.rest).kind = "interceptor"
    BY <1>8 DEF Intercept, Stepping
  <2>2. CASE Verdict = "pass"
    <3>1. req' = [req EXCEPT !.rest = Tail(req.rest)]
      BY <1>8, <2>2 DEF Intercept, Onward
    <3>2. PICK q : q = [state |-> req.state, of |-> req.of, path |-> req.path, perReq |-> req.perReq,
                        rest |-> Tail(req.rest), script |-> req.script, runs |-> req.runs,
                        passed |-> req.passed, ran |-> req.ran]
      OBVIOUS
    <3>3. q = req' /\ IsRequest(q)
      BY <1>3, <2>1, <3>1, <3>2 DEF IsRequest
    <3>4. /\ q.state = "running" /\ q.ran = <<>> /\ q.of = req.of /\ q.path = req.path
          /\ q.perReq = req.perReq /\ q.runs = req.runs /\ q.script = req.script
          /\ q.rest = Tail(req.rest) /\ q.passed = req.passed
      BY <1>3, <2>1, <3>2
    <3>5. Running(q)
      BY <1>3, <2>1, <2>2, <3>4, PassRuns DEF Verdict
    <3> QED
      BY <1>4, <2>1, <3>3, <3>4, <3>5
  <2>3. CASE Verdict = "stop" /\ req.perReq
    <3>1. req' = [req EXCEPT !.state = "OK"]
      BY <1>8, <2>3 DEF Intercept
    <3> QED
      BY <1>5, <2>1, <3>1
  <2>4. CASE Verdict = "stop" /\ ~req.perReq
    <3>1. req' = [req EXCEPT !.rest = <<>>]
      BY <1>8, <2>4 DEF Intercept
    <3>2. PICK q : q = [state |-> req.state, of |-> req.of, path |-> req.path, perReq |-> req.perReq,
                        rest |-> <<>>, script |-> req.script, runs |-> req.runs,
                        passed |-> req.passed, ran |-> req.ran]
      OBVIOUS
    <3>3. q = req' /\ IsRequest(q)
      BY <1>3, <2>1, <3>1, <3>2 DEF IsRequest
    <3>4. /\ q.state = "running" /\ q.ran = <<>> /\ q.of = req.of /\ q.path = req.path
          /\ q.perReq = req.perReq /\ q.runs = req.runs /\ q.script = req.script
          /\ q.rest = <<>> /\ q.passed = req.passed
      BY <1>3, <2>1, <3>2
    <3>5. Running(q)
      BY <1>3, <2>1, <2>4, <3>4, StopRuns
    <3> QED
      BY <1>4, <2>1, <3>3, <3>4, <3>5
  <2>5. CASE Verdict = "throw"
    <3>1. req' = [req EXCEPT !.state = "ERROR"]
      BY <1>8, <2>5 DEF Intercept
    <3> QED
      BY <1>5, <2>1, <3>1
  <2> QED
    BY <1>6, <2>1, <2>2, <2>3, <2>4, <2>5
<1>9. ASSUME Resolve PROVE Requesting'
  <2>1. req.state = "running" /\ req.rest = <<>> /\ req' = [req EXCEPT !.state = "OK", !.ran = req.runs]
    BY <1>9 DEF Resolve
  <2>2. PICK q : q = [state |-> "OK", of |-> req.of, path |-> req.path, perReq |-> req.perReq,
                      rest |-> req.rest, script |-> req.script, runs |-> req.runs,
                      passed |-> req.passed, ran |-> req.runs]
    OBVIOUS
  <2>3. q = req' /\ IsRequest(q)
    BY <1>3, <2>1, <2>2 DEF IsRequest
  <2>4. /\ q.state # "running" /\ q.of = req.of /\ q.path = req.path /\ q.perReq = req.perReq
        /\ q.script = req.script /\ q.passed = req.passed /\ q.ran = req.runs
    BY <2>2
  <2>5. Answered(q)
    BY <1>3, <2>1, <2>4, ResolveAnswers
  <2> QED
    BY <1>3, <2>1, <2>3, <2>4, <2>5 DEF Requesting
<1>10. ASSUME NEW path, NEW s \in Scripts, RequestListener(path, s) PROVE Requesting'
  BY <1>10, ListenerKeeps
<1> QED
  BY <1>2, <1>7, <1>8, <1>9, <1>10 DEF Next, RequestStep

\* The invariant holds at the start.
LEMMA InitHasIt == ASSUME Init PROVE IInv
<1>1. app \in DOMAIN Apps /\ kept \in DOMAIN Apps /\ todo = Routes(app) /\ phase = "preparing"
      /\ context = [r \in Refs(app) |-> <<>>] /\ dispatcher = NoListener /\ req = NoRequest
  BY DEF Init
<1>2. \E n \in 0..Len(Routes(app)) :
          /\ Routes(app) = SubSeq(Routes(app), n + 1, Len(Routes(app)))
          /\ Prepared(app, [r \in Refs(app) |-> <<>>], n)
  BY <1>1, StartPrepares
<1>3. Preparation
  BY <1>1, <1>2 DEF Preparation
<1>4. Dispatching
  BY <1>1 DEF Dispatching, NoListener
<1>5. Requesting
  BY <1>1, NoRequestIs DEF Requesting
<1> QED
  BY <1>3, <1>4, <1>5 DEF IInv

\* The invariant holds always.
LEMMA IInvHolds == Spec => []IInv
<1>1. Init => IInv
  BY InitHasIt
<1>2. IInv /\ [Next]_vars => IInv'
  BY StepKeepsPreparation, StepKeepsDispatching, StepKeepsRequesting DEF IInv
<1> QED
  BY <1>1, <1>2, PTL DEF Spec

\* Whatever is initialised in whatever order, the router in place serves a path
\* that is clear by the method that getRouterConfig() names (getModuleTrpcConfigs,
\* setHandlerPerReq), and no path that no module asks for.
THEOREM PathsAreServed == Spec => []PathsServeTheirMethods
<1>1. ASSUME IInv PROVE PathsServeTheirMethods
  <2> SUFFICES ASSUME dispatcher.set
               PROVE  /\ \A t \in Targets(dispatcher.of) : Clear(dispatcher.of, t) =>
                            IF Fn(t) \notin Like(dispatcher.of, t) THEN t.path \notin DOMAIN dispatcher.router
                            ELSE /\ t.path \in DOMAIN dispatcher.router
                                 /\ dispatcher.router[t.path].ref = t.ref
                                 /\ dispatcher.router[t.path].method = Fn(t)
                      /\ \A p \in DOMAIN dispatcher.router : \E t \in Targets(dispatcher.of) :
                            /\ t.path = p
                            /\ functionOf(Fn(t)).text = functionOf(dispatcher.router[p].method).text
    BY Zenon DEF PathsServeTheirMethods
  <2>1. PICK a, router : a = dispatcher.of /\ router = dispatcher.router
    OBVIOUS
  <2>2. a \in DOMAIN Apps /\ RouterFits(a, router)
    BY <1>1, <2>1 DEF IInv, Dispatching
  <2>3. /\ \A t \in Targets(a) : Clear(a, t) =>
              IF Fn(t) \notin Like(a, t) THEN t.path \notin DOMAIN router
              ELSE /\ t.path \in DOMAIN router
                   /\ router[t.path].ref = t.ref
                   /\ router[t.path].method = Fn(t)
        /\ \A p \in DOMAIN router : \E t \in Targets(a) :
              /\ t.path = p
              /\ functionOf(Fn(t)).text = functionOf(router[p].method).text
    BY <2>2, FitServes
  <2> QED
    BY <2>1, <2>3
<1> QED
  BY <1>1, IInvHolds, PTL

\* A resolver runs only when every guard of its route has let the request pass,
\* in their order, and a handler per request behind its interceptors as well
\* (GuardedInterceptor, the chain of TrpcRouteExtension).
THEOREM ResolversAreGuarded == Spec => []ResolverIsGuarded
<1>1. ASSUME IInv PROVE ResolverIsGuarded
  <2> SUFFICES ASSUME req.ran # <<>>
               PROVE  \E t \in Targets(req.of) :
                        /\ t.path = req.path
                        /\ Clear(req.of, t) =>
                              /\ req.passed = OnTop(t).guards
                              /\ \A g \in ToSet(req.passed) : req.script[g] = "pass"
                              /\ req.ran \in {Fn(t), functionOf(Fn(t)).handler}
                              /\ req.perReq => \A i \in ToSet(OnTop(t).interceptors) : req.script[i] = "pass"
    BY Zenon DEF ResolverIsGuarded
  <2>1. PICK q, a : q = req /\ a = req.of
    OBVIOUS
  <2>2. a \in DOMAIN Apps /\ Answered(q)
    BY <1>1, <2>1 DEF IInv, Requesting
  <2>3. PICK t, x :
          /\ Asks(q, a, t, x) /\ q.ran = Procedure(x).runs /\ AllPassed(q, x)
          /\ q.perReq => \A i \in 1..Len(x.interceptors) : q.script[x.interceptors[i]] = "pass"
    BY <2>1, <2>2 DEF Answered
  <2>4. t \in Targets(a) /\ t.path = q.path /\ x \in ToSet(Routes(a)) /\ Alike(x, t) /\ FromTop(x)
    BY <2>3 DEF Asks
  <2>5. ASSUME Clear(a, t)
        PROVE  /\ q.passed = OnTop(t).guards
               /\ \A g \in ToSet(q.passed) : q.script[g] = "pass"
               /\ q.ran \in {Fn(t), functionOf(Fn(t)).handler}
               /\ q.perReq => \A i \in ToSet(OnTop(t).interceptors) : q.script[i] = "pass"
    <3>1. Fn(x) = Fn(t) /\ OnTop(x) = OnTop(t)
      BY <2>2, <2>4, <2>5, ClearIsExact
    <3>2. PICK g \in Seq(STRING), i \in Seq(STRING) : g = x.guards /\ i = x.interceptors
      <4>1. x \in RouteSet(a)
        BY <2>2, <2>4, RoutesAre
      <4> QED
        BY <4>1, RouteIs
    <3>3. g = OnTop(t).guards /\ i = OnTop(t).interceptors
      BY <2>4, <3>1, <3>2 DEF FromTop
    <3>4. q.passed = g /\ \A n \in 1..Len(g) : q.script[g[n]] = "pass"
      BY <2>3, <3>2 DEF AllPassed
    <3>5. \A w \in ToSet(g) : q.script[w] = "pass"
      BY <3>4 DEF ToSet
    <3>6. q.perReq => \A w \in ToSet(i) : q.script[w] = "pass"
      BY <2>3, <3>2 DEF ToSet
    <3>7. q.ran \in {Fn(t), functionOf(Fn(t)).handler}
      BY <2>3, <3>1 DEF Procedure, Fn
    <3> QED
      BY <3>3, <3>4, <3>5, <3>6, <3>7
  <2> QED
    BY <2>1, <2>4, <2>5, Zenon
<1> QED
  BY <1>1, IInvHolds, PTL
=============================================================================
