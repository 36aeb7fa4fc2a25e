------------------------- MODULE RequestPipelineProof -------------------------
(****************************************************************************)
(* What holds of RequestPipeline for any application, request and script.   *)
(* The invariant Inv has two halves: what the routes of an application are  *)
(* while its extensions take their turns (Turns, Metas) and when they are   *)
(* registered (Routed); and, for a request with such a handler, how far it  *)
(* is in its chain (InChain) and what can be said of its answer (Respond).  *)
(****************************************************************************)
EXTENDS RequestPipeline, FiniteSetTheorems, SequenceTheorems, TLAPS

\* The interceptors that extensions add, and what a route is made of.
Name == {"own", "body", "session", "cors"}
Meta ==
    [methods : Seq(Method \union {"ALL", "HEAD"}), path : STRING, scope : {"route", "request"},
     guards : Nat, own : BOOLEAN, flaw : {"none", "guard", "interceptor", "slash"},
     answersOptions : BOOLEAN, perRou : Seq(Name), perReq : Seq(Name)]

\* The interceptor i is not in the sequence s.
HasNone(i, s) == \A n \in DOMAIN s : s[n] # i

\* What the variables of the start are.
RoutesTypes ==
    /\ app \in Apps
    /\ phase \in {"stage1", "stage3", "serving", "failed"}
    /\ turn \in Nat \ {0}
    /\ phase \in {"stage1", "stage3"} => turn \in DOMAIN app
    /\ corsState \in {"absent", "pending", "done"}
    /\ ctrl \in [DOMAIN app -> Seq(Meta)]

\* The extensions of modules take their turns.
Turns ==
    /\ phase = "stage1" /\ "dispatcher" \in ran =>
          \A e \in {"body", "cors"} : app[turn][e] => e \in ran
    /\ phase = "stage1" /\ corsState = "done" => turn = Len(app) /\ "cors" \in ran
    /\ phase = "stage1" => \A m \in DOMAIN app :
          m < turn \/ (m = turn /\ "cors" \in ran) => (app[m].cors => corsState # "absent")
    /\ phase \in {"stage3", "serving"} =>
          /\ corsState # "pending"
          /\ \A m \in DOMAIN app : app[m].cors => corsState = "done"

\* A route is what the module declares, with the interceptors of the extensions
\* that have run.
Declares(m, c) == \E r \in ToSet(app[m].routes) :
                     r.methods = c.methods /\ r.path = c.path /\ r.guards = c.guards
HasRun(m, e) == (e \in ran /\ m = turn) \/ m < turn \/ phase # "stage1"
BodyFits(m, c) ==
    IF app[m].body /\ HasRun(m, "body")
    THEN /\ Parsed(c) = {} => HasNone("body", Interceptors(c))
         /\ Cardinality(Parsed(c)) = 1 => Once("body", Interceptors(c))
    ELSE HasNone("body", Interceptors(c))
CorsFits(c) == IF corsState = "done" THEN Once("cors", Interceptors(c))
               ELSE HasNone("cors", Interceptors(c))
MetaFits(m, c) ==
    /\ CorsFits(c)
    /\ c.answersOptions \/ (Declares(m, c) /\ BodyFits(m, c))
Metas ==
    phase # "failed" =>
       \A m \in DOMAIN app : \A j \in DOMAIN ctrl[m] : MetaFits(m, ctrl[m][j])
-----------------------------------------------------------------------------
(* Interceptors of a route.                                                 *)

\* Extending a route adds to the interceptors that count, and changes nothing else.
LEMMA ExtendIs ==
    ASSUME NEW c \in Meta, NEW s \in Seq(Name)
    PROVE  /\ Extend(c, s) \in Meta
           /\ Interceptors(Extend(c, s)) = Interceptors(c) \o s
           /\ Extend(c, s).methods = c.methods /\ Extend(c, s).path = c.path
           /\ Extend(c, s).guards = c.guards
           /\ Extend(c, s).answersOptions = c.answersOptions
<1>1. c.perRou \o s \in Seq(Name) /\ c.perReq \o s \in Seq(Name)
  BY DEF Meta
<1>2. CASE c.scope = "route"
  BY <1>1, <1>2 DEF Meta, Extend, Interceptors
<1>3. CASE c.scope # "route"
  BY <1>1, <1>3 DEF Meta, Extend, Interceptors
<1> QED
  BY <1>2, <1>3

\* The interceptors of a route are a sequence of names.
LEMMA InterceptorsAre == ASSUME NEW c \in Meta PROVE Interceptors(c) \in Seq(Name)
BY DEF Meta, Interceptors

\* What is in neither of two sequences is not in both together.
LEMMA NoneInBoth ==
    ASSUME NEW S, NEW s \in Seq(S), NEW t \in Seq(S), NEW i, HasNone(i, s), HasNone(i, t)
    PROVE  HasNone(i, s \o t)
<1> SUFFICES ASSUME NEW n \in DOMAIN (s \o t) PROVE (s \o t)[n] # i
  BY DEF HasNone
<1>1. /\ Len(s) \in Nat /\ Len(t) \in Nat /\ n \in 1..(Len(s) + Len(t))
      /\ DOMAIN s = 1..Len(s) /\ DOMAIN t = 1..Len(t)
  BY ConcatProperties
<1>2. CASE n <= Len(s)
  BY <1>1, <1>2 DEF HasNone
<1>3. CASE n > Len(s)
  BY <1>1, <1>3 DEF HasNone
<1> QED
  BY <1>1, <1>2, <1>3

\* What is in one of two sequences once, and not in the other, is in both
\* together once.
LEMMA OnceInBoth ==
    ASSUME NEW S, NEW s \in Seq(S), NEW t \in Seq(S), NEW i,
           (Once(i, s) /\ HasNone(i, t)) \/ (HasNone(i, s) /\ Once(i, t))
    PROVE  Once(i, s \o t)
<1>1. /\ Len(s) \in Nat /\ Len(t) \in Nat /\ DOMAIN (s \o t) = 1..(Len(s) + Len(t))
      /\ DOMAIN s = 1..Len(s) /\ DOMAIN t = 1..Len(t)
      /\ \A n \in 1..(Len(s) + Len(t)) :
            (s \o t)[n] = IF n <= Len(s) THEN s[n] ELSE t[n - Len(s)]
  BY ConcatProperties
<1>2. CASE Once(i, s) /\ HasNone(i, t)
  <2>1. PICK n \in DOMAIN s : \A k \in DOMAIN s : s[k] = i <=> k = n
    BY <1>2 DEF Once
  <2>2. \A k \in DOMAIN (s \o t) : (s \o t)[k] = i <=> k = n
    BY <1>1, <1>2, <2>1 DEF HasNone
  <2> QED
    BY <1>1, <2>1, <2>2 DEF Once
<1>3. CASE HasNone(i, s) /\ Once(i, t)
  <2>1. PICK n \in DOMAIN t : \A k \in DOMAIN t : t[k] = i <=> k = n
    BY <1>3 DEF Once
  <2>2. \A k \in DOMAIN (s \o t) : (s \o t)[k] = i <=> k = n + Len(s)
    BY <1>1, <1>3, <2>1 DEF HasNone
  <2> QED
    <3>1. n + Len(s) \in DOMAIN (s \o t)
      BY <1>1, <2>1
    <3> QED
      BY <2>2, <3>1, Zenon DEF Once
<1> QED
  BY <1>2, <1>3

\* Some sequence lists the members of a finite set.
LEMMA SetToSeqIs ==
    ASSUME NEW S, IsFiniteSet(S)
    PROVE  Cardinality(S) \in Nat /\ SetToSeq(S) \in [1..Cardinality(S) -> S]
<1>1. Cardinality(S) \in Nat /\ ExistsBijection(1..Cardinality(S), S)
  BY FS_CardinalityType
<1>2. \E f \in [1..Cardinality(S) -> S] : IsInjective(f)
  BY <1>1, Zenon DEF ExistsBijection, Bijection, Injection
<1> QED
  BY <1>1, <1>2, Zenon DEF SetToSeq

-----------------------------------------------------------------------------
(* Stage 1.                                                                 *)

\* What the constant says of the application.
LEMMA AppIs ==
    ASSUME RoutesTypes
    PROVE  /\ app \in Seq(AppModule) /\ Len(app) \in Nat \ {0} /\ DOMAIN app = 1..Len(app)
           /\ \A m \in DOMAIN app :
                 /\ app[m] \in AppModule /\ app[m].guards \in Nat
                 /\ app[m].routes \in Seq(Route)
                 /\ app[m].cors \in BOOLEAN /\ app[m].body \in BOOLEAN
<1>1. app \in Seq(AppModule) /\ app # <<>>
  BY AppsAssumption DEF RoutesTypes
<1>2. \A m \in DOMAIN app : app[m] \in AppModule
  BY <1>1
<1> QED
  BY <1>1, <1>2 DEF AppModule

\* The routes of the module at work are replaced.
LEMMA UpdateIs ==
    ASSUME RoutesTypes, turn \in DOMAIN app, NEW n \in Nat, NEW new \in [1..n -> Meta],
           ctrl' = [ctrl EXCEPT ![turn] = new]
    PROVE  /\ ctrl' \in [DOMAIN app -> Seq(Meta)]
           /\ ctrl'[turn] = new
           /\ \A m \in DOMAIN app : m # turn => ctrl'[m] = ctrl[m]
<1>1. new \in Seq(Meta)
  BY SMT
<1> QED
  BY <1>1 DEF RoutesTypes

\* RestRouteExtension gives each route what the module declares.
LEMMA RunRestRouteKeeps ==
    ASSUME RoutesTypes, Turns, Metas, RunRestRoute
    PROVE  RoutesTypes' /\ Turns' /\ Metas'
<1>1. CASE phase' = "failed"
  BY <1>1, Zenon DEF RunRestRoute, Fails, Ran, RoutesTypes, Turns, Metas
<1>2. CASE phase' # "failed"
  <2> DEFINE routes == app[turn].routes
             new == [j \in DOMAIN routes |-> ControllerMeta(routes[j])]
  <2>1. /\ phase = "stage1" /\ ran = {} /\ ran' = {"rest"}
        /\ ctrl' = [ctrl EXCEPT ![turn] = new]
        /\ UNCHANGED <<app, phase, turn, corsState>>
    BY <1>2 DEF RunRestRoute, Fails, Ran
  <2>2. turn \in DOMAIN app /\ routes \in Seq(Route)
    BY <2>1, AppIs DEF RoutesTypes
  <2>3. \A j \in DOMAIN routes : ControllerMeta(routes[j]) \in Meta
    <3> SUFFICES ASSUME NEW r \in Route PROVE ControllerMeta(r) \in Meta
      BY <2>2
    <3>1. <<>> \in Seq(Name)
      OBVIOUS
    <3> QED
      BY <3>1 DEF Route, Meta, ControllerMeta
  <2>4. /\ ctrl' \in [DOMAIN app -> Seq(Meta)] /\ ctrl'[turn] = new
        /\ \A m \in DOMAIN app : m # turn => ctrl'[m] = ctrl[m]
    <3>1. Len(routes) \in Nat /\ new \in [1..Len(routes) -> Meta]
      BY <2>2, <2>3
    <3> HIDE DEF new
    <3> QED
      BY <2>1, <2>2, <3>1, UpdateIs
  <2>5. corsState # "done"
    BY <2>1 DEF Turns
  <2>6. ASSUME NEW m \in DOMAIN app, NEW j \in DOMAIN ctrl'[m]
        PROVE  MetaFits(m, ctrl[m][j])'
    <3>1. CASE m = turn
      <4>1. j \in DOMAIN routes /\ ctrl'[m][j] = ControllerMeta(routes[j])
        BY <2>4, <2>6, <3>1
      <4>2. /\ Interceptors(ctrl'[m][j]) = <<>>
            /\ ctrl'[m][j].methods = routes[j].methods /\ ctrl'[m][j].path = routes[j].path
            /\ ctrl'[m][j].guards = routes[j].guards
        BY <4>1 DEF ControllerMeta, Interceptors
      <4>3. CorsFits(ctrl[m][j])'
        <5>1. HasNone("cors", Interceptors(ctrl'[m][j]))
          BY <4>2 DEF HasNone
        <5> QED
          BY <2>1, <2>5, <5>1 DEF CorsFits, Interceptors
      <4>4. Declares(m, ctrl[m][j])'
        BY <2>1, <3>1, <4>1, <4>2 DEF Declares, ToSet
      <4>5. ~HasRun(m, "body")'
        BY <2>1, <2>2, <3>1, AppIs DEF HasRun
      <4>6. BodyFits(m, ctrl[m][j])'
        BY <4>2, <4>5 DEF BodyFits, HasNone
      <4> QED
        BY <4>3, <4>4, <4>6 DEF MetaFits
    <3>2. CASE m # turn
      <4>1. ctrl'[m] = ctrl[m] /\ MetaFits(m, ctrl[m][j])
        BY <2>1, <2>4, <2>6, <3>2 DEF Metas
      <4>2. \A c : BodyFits(m, c)' <=> BodyFits(m, c)
        BY <2>1, <3>2 DEF BodyFits, HasRun
      <4> QED
        BY <2>1, <4>1, <4>2 DEF MetaFits, CorsFits, Declares
    <3> QED
      BY <3>1, <3>2
  <2>7. Turns'
    BY <2>1, <2>5 DEF Turns
  <2> QED
    BY <2>1, <2>4, <2>6, <2>7, Zenon DEF RoutesTypes, Metas
<1> QED
  BY <1>1, <1>2

\* An extension adds interceptors to a route.
Added(c, d, s) ==
    /\ d \in Meta /\ s \in Seq(Name) /\ Interceptors(d) = Interceptors(c) \o s
    /\ d.methods = c.methods /\ d.path = c.path /\ d.guards = c.guards
    /\ d.answersOptions = c.answersOptions

\* What Push and Extend add, or nothing.
LEMMA Additions ==
    ASSUME NEW c \in Meta
    PROVE  /\ Added(c, c, <<>>)
           /\ \A s \in Seq(Name) : Added(c, Extend(c, s), s)
           /\ \A i \in Name : Added(c, Push(c, i), <<i>>)
<1>1. \A s \in Seq(Name) : Added(c, Extend(c, s), s)
  BY ExtendIs DEF Added
<1>2. Added(c, c, <<>>)
  BY InterceptorsAre, ConcatEmptySeq DEF Added
<1>3. \A i \in Name : <<i>> \in Seq(Name)
  OBVIOUS
<1> QED
  BY <1>1, <1>2, <1>3 DEF Push

\* An extension that adds to each route of the module, and that leaves CORS
\* alone, keeps what is known of the routes; the bodies are added by the body
\* parser, one for each method that has one.
LEMMA AdditionKeeps ==
    ASSUME RoutesTypes, Turns, Metas, phase = "stage1",
           NEW e \in {"interceptor", "body", "session"}, e \notin ran, "dispatcher" \notin ran,
           ran' = ran \union {e}, UNCHANGED <<app, phase, turn, corsState>>,
           NEW new \in [DOMAIN ctrl[turn] -> Meta], NEW more,
           ctrl' = [ctrl EXCEPT ![turn] = new],
           e = "body" => app[turn].body,
           \A j \in DOMAIN ctrl[turn] :
              /\ Added(ctrl[turn][j], new[j], more[j])
              /\ HasNone("cors", more[j])
              /\ IF e = "body"
                 THEN /\ Parsed(ctrl[turn][j]) = {} => HasNone("body", more[j])
                      /\ Cardinality(Parsed(ctrl[turn][j])) = 1 => Once("body", more[j])
                 ELSE HasNone("body", more[j])
    PROVE  RoutesTypes' /\ Turns' /\ Metas'
<1>1. turn \in DOMAIN app /\ ctrl[turn] \in Seq(Meta)
  BY DEF RoutesTypes
<1>2. /\ ctrl' \in [DOMAIN app -> Seq(Meta)] /\ ctrl'[turn] = new
      /\ \A m \in DOMAIN app : m # turn => ctrl'[m] = ctrl[m]
  <2>1. Len(ctrl[turn]) \in Nat /\ new \in [1..Len(ctrl[turn]) -> Meta]
    BY <1>1
  <2> QED
    BY <1>1, <2>1, UpdateIs
<1>3. RoutesTypes'
  BY <1>2 DEF RoutesTypes
<1>4. Turns'
  BY DEF Turns
<1>5. ASSUME NEW j \in DOMAIN ctrl[turn] PROVE MetaFits(turn, new[j])'
  <2> DEFINE c == ctrl[turn][j]
             d == new[j]
             s == more[j]
  <2>1. MetaFits(turn, c) /\ c \in Meta /\ Interceptors(c) \in Seq(Name)
    BY <1>1, InterceptorsAre DEF Metas
  <2>2. Added(c, d, s) /\ HasNone("cors", s)
    OBVIOUS
  <2>3. e = "body" => /\ Parsed(c) = {} => HasNone("body", s)
                      /\ Cardinality(Parsed(c)) = 1 => Once("body", s)
    OBVIOUS
  <2>4. e # "body" => HasNone("body", s)
    OBVIOUS
  <2> HIDE DEF c, d, s
  <2>5. s \in Seq(Name) /\ Interceptors(d) = Interceptors(c) \o s /\ Parsed(d) = Parsed(c)
    BY <2>2 DEF Added, Parsed
  <2>6. CorsFits(d)'
    BY <2>1, <2>2, <2>5, NoneInBoth, OnceInBoth DEF CorsFits, MetaFits, Interceptors
  <2>7. Declares(turn, c) => Declares(turn, d)'
    BY <2>2 DEF Declares, Added
  <2>8. HasRun(turn, "body")' <=> HasRun(turn, "body") \/ e = "body"
    BY DEF HasRun
  <2>9. e = "body" => ~HasRun(turn, "body")
    BY <1>1, AppIs DEF HasRun
  <2>10. BodyFits(turn, c) => BodyFits(turn, d)'
    <3> SUFFICES ASSUME BodyFits(turn, c) PROVE BodyFits(turn, d)'
      OBVIOUS
    <3>1. CASE e = "body"
      <4>1. HasNone("body", Interceptors(c)) /\ app[turn].body
        BY <2>9, <3>1 DEF BodyFits
      <4>2. /\ Parsed(d) = {} => HasNone("body", Interceptors(d))
            /\ Cardinality(Parsed(d)) = 1 => Once("body", Interceptors(d))
        BY <2>1, <2>3, <2>5, <3>1, <4>1, NoneInBoth, OnceInBoth
      <4> QED
        BY <2>8, <3>1, <4>1, <4>2 DEF BodyFits, Interceptors, Parsed
    <3>2. CASE e # "body"
      <4>1. HasNone("body", Interceptors(c)) => HasNone("body", Interceptors(d))
        BY <2>1, <2>4, <2>5, <3>2, NoneInBoth
      <4>2. Once("body", Interceptors(c)) => Once("body", Interceptors(d))
        BY <2>1, <2>4, <2>5, <3>2, OnceInBoth
      <4> QED
        BY <2>5, <2>8, <3>2, <4>1, <4>2 DEF BodyFits, Interceptors, Parsed
    <3> QED
      BY <3>1, <3>2
  <2>11. d.answersOptions = c.answersOptions
    BY <2>2 DEF Added
  <2>12. MetaFits(turn, d)'
    BY <2>1, <2>6, <2>7, <2>10, <2>11 DEF MetaFits
  <2> QED
    BY <2>12 DEF d
<1>6. ASSUME NEW m \in DOMAIN app, m # turn, NEW j \in DOMAIN ctrl[m]
      PROVE  MetaFits(m, ctrl[m][j])'
  <2>1. ctrl'[m] = ctrl[m] /\ MetaFits(m, ctrl[m][j])
    BY <1>2, <1>6 DEF Metas
  <2>2. \A c : BodyFits(m, c)' <=> BodyFits(m, c)
    BY <1>6 DEF BodyFits, HasRun
  <2> QED
    BY <2>1, <2>2 DEF MetaFits, CorsFits, Declares
<1>7. Metas'
  <2> SUFFICES ASSUME NEW m \in DOMAIN app, NEW j \in DOMAIN ctrl'[m]
               PROVE  MetaFits(m, ctrl[m][j])'
    BY DEF Metas
  <2>1. CASE m = turn
    BY <1>2, <1>5, <2>1
  <2>2. CASE m # turn
    BY <1>2, <1>6, <2>2
  <2> QED
    BY <2>1, <2>2
<1> QED
  BY <1>3, <1>4, <1>7

\* Nothing is added; a failed start keeps what is known.
LEMMA FailsKeeps ==
    ASSUME RoutesTypes, Turns, Metas, NEW why, Fails(why)
    PROVE  RoutesTypes' /\ Turns' /\ Metas'
BY Zenon DEF Fails, RoutesTypes, Turns, Metas

\* One interceptor that is not that of another extension.
LEMMA OneOther ==
    ASSUME NEW i \in Name
    PROVE  /\ <<i>> \in Seq(Name) /\ <<>> \in Seq(Name)
           /\ \A k : k # i => HasNone(k, <<i>>)
           /\ \A k : HasNone(k, <<>>)
           /\ Once(i, <<i>>)
<1>1. \A k : HasNone(k, <<>>)
  BY DEF HasNone
<1>2. DOMAIN <<i>> = {1} /\ <<i>>[1] = i
  OBVIOUS
<1> QED
  BY <1>1, <1>2 DEF HasNone, Once

\* InterceptorExtension adds what routes name themselves.
LEMMA RunInterceptorKeeps ==
    ASSUME RoutesTypes, Turns, Metas, RunInterceptor
    PROVE  RoutesTypes' /\ Turns' /\ Metas'
<1>1. CASE Fails("InvalidInterceptor")
  BY <1>1, FailsKeeps
<1>2. CASE ~Fails("InvalidInterceptor")
  <2> DEFINE new == [j \in DOMAIN ctrl[turn] |->
                        IF ctrl[turn][j].own THEN Push(ctrl[turn][j], "own") ELSE ctrl[turn][j]]
             more == [j \in DOMAIN ctrl[turn] |-> IF ctrl[turn][j].own THEN <<"own">> ELSE <<>>]
  <2>1. turn \in DOMAIN app /\ ctrl[turn] \in Seq(Meta) /\ ctrl \in [DOMAIN app -> Seq(Meta)]
    BY <1>2 DEF RunInterceptor, Runs, RoutesTypes
  <2>2. /\ phase = "stage1" /\ "interceptor" \notin ran /\ "dispatcher" \notin ran
        /\ ran' = ran \union {"interceptor"} /\ UNCHANGED <<app, phase, turn, corsState>>
        /\ ctrl' = [ctrl EXCEPT ![turn] = new]
    BY <1>2, <2>1 DEF RunInterceptor, Runs, Ran, Update
  <2>3. ASSUME NEW j \in DOMAIN ctrl[turn]
        PROVE  /\ Added(ctrl[turn][j], new[j], more[j])
               /\ HasNone("cors", more[j]) /\ HasNone("body", more[j])
    <3>1. ctrl[turn][j] \in Meta
      BY <2>1
    <3> QED
      BY <3>1, Additions, OneOther DEF Name
  <2>4. new \in [DOMAIN ctrl[turn] -> Meta]
    BY <2>3 DEF Added
  <2> HIDE DEF new, more
  <2> QED
    BY <2>2, <2>3, <2>4, AdditionKeeps
<1> QED
  BY <1>1, <1>2

\* SessionCookieExtension adds to the routes that are route-scoped.
LEMMA RunSessionCookieKeeps ==
    ASSUME RoutesTypes, Turns, Metas, RunSessionCookie
    PROVE  RoutesTypes' /\ Turns' /\ Metas'
<1> DEFINE new == [j \in DOMAIN ctrl[turn] |->
                      IF ctrl[turn][j].scope = "route" THEN Push(ctrl[turn][j], "session")
                      ELSE ctrl[turn][j]]
           more == [j \in DOMAIN ctrl[turn] |->
                      IF ctrl[turn][j].scope = "route" THEN <<"session">> ELSE <<>>]
<1>1. turn \in DOMAIN app /\ ctrl[turn] \in Seq(Meta) /\ ctrl \in [DOMAIN app -> Seq(Meta)]
  BY DEF RunSessionCookie, Runs, RoutesTypes
<1>2. /\ phase = "stage1" /\ "session" \notin ran /\ "dispatcher" \notin ran
      /\ ran' = ran \union {"session"} /\ UNCHANGED <<app, phase, turn, corsState>>
      /\ ctrl' = [ctrl EXCEPT ![turn] = new]
  BY <1>1 DEF RunSessionCookie, Runs, Ran, Update
<1>3. ASSUME NEW j \in DOMAIN ctrl[turn]
      PROVE  /\ Added(ctrl[turn][j], new[j], more[j])
             /\ HasNone("cors", more[j]) /\ HasNone("body", more[j])
  <2>1. ctrl[turn][j] \in Meta
    BY <1>1
  <2> QED
    BY <2>1, Additions, OneOther DEF Name
<1>4. new \in [DOMAIN ctrl[turn] -> Meta]
  BY <1>3 DEF Added
<1> HIDE DEF new, more
<1> QED
  BY <1>2, <1>3, <1>4, AdditionKeeps

\* The body parser is as often in what is added as the route has methods with
\* bodies.
LEMMA ParsersAre ==
    ASSUME NEW c \in Meta
    PROVE  LET s == [k \in 1..Cardinality(Parsed(c)) |-> "body"]
           IN  /\ s \in Seq(Name)
               /\ HasNone("cors", s)
               /\ Parsed(c) = {} => HasNone("body", s)
               /\ Cardinality(Parsed(c)) = 1 => Once("body", s)
<1> DEFINE s == [k \in 1..Cardinality(Parsed(c)) |-> "body"]
<1>1. Cardinality(Parsed(c)) \in Nat
  <2>1. Len(c.methods) \in Nat /\ Parsed(c) \subseteq 1..Len(c.methods)
    BY DEF Meta, Parsed
  <2>2. IsFiniteSet(1..Len(c.methods)) /\ Parsed(c) \in SUBSET (1..Len(c.methods))
    BY <2>1, FS_Interval
  <2>3. IsFiniteSet(Parsed(c))
    BY <2>2, FS_Subset
  <2> QED
    BY <2>3, FS_CardinalityType
<1>2. s \in Seq(Name)
  <2> DEFINE n == Cardinality(Parsed(c))
  <2>1. s \in [1..n -> Name]
    BY DEF Name
  <2> HIDE DEF s, n
  <2>2. n \in Nat
    BY <1>1 DEF n
  <2> QED
    BY <2>1, <2>2
<1>3. Parsed(c) = {} => DOMAIN s = {}
  BY <1>1, FS_EmptySet
<1>4. HasNone("cors", s)
  BY DEF HasNone
<1>5. Cardinality(Parsed(c)) = 1 => Once("body", s)
  <2> SUFFICES ASSUME Cardinality(Parsed(c)) = 1 PROVE Once("body", s)
    OBVIOUS
  <2>1. DOMAIN s = {1} /\ s[1] = "body"
    OBVIOUS
  <2> QED
    BY <2>1 DEF Once
<1> QED
  BY <1>2, <1>3, <1>4, <1>5 DEF HasNone

\* BodyParserExtension adds an interceptor for each method with a body.
LEMMA RunBodyParserKeeps ==
    ASSUME RoutesTypes, Turns, Metas, RunBodyParser
    PROVE  RoutesTypes' /\ Turns' /\ Metas'
<1> DEFINE new == [j \in DOMAIN ctrl[turn] |-> BodyParsers(ctrl[turn][j])]
           more == [j \in DOMAIN ctrl[turn] |->
                      [k \in 1..Cardinality(Parsed(ctrl[turn][j])) |-> "body"]]
<1>1. turn \in DOMAIN app /\ ctrl[turn] \in Seq(Meta) /\ ctrl \in [DOMAIN app -> Seq(Meta)]
  BY DEF RunBodyParser, Runs, RoutesTypes
<1>2. /\ phase = "stage1" /\ "body" \notin ran /\ "dispatcher" \notin ran /\ app[turn].body
      /\ ran' = ran \union {"body"} /\ UNCHANGED <<app, phase, turn, corsState>>
      /\ ctrl' = [ctrl EXCEPT ![turn] = new]
  BY <1>1 DEF RunBodyParser, Runs, Ran, Update
<1>3. ASSUME NEW j \in DOMAIN ctrl[turn]
      PROVE  /\ Added(ctrl[turn][j], new[j], more[j]) /\ HasNone("cors", more[j])
             /\ Parsed(ctrl[turn][j]) = {} => HasNone("body", more[j])
             /\ Cardinality(Parsed(ctrl[turn][j])) = 1 => Once("body", more[j])
  <2>1. ctrl[turn][j] \in Meta
    BY <1>1
  <2>2. /\ more[j] = [k \in 1..Cardinality(Parsed(ctrl[turn][j])) |-> "body"]
        /\ new[j] = Extend(ctrl[turn][j], more[j])
    BY DEF BodyParsers
  <2> HIDE DEF new, more
  <2> QED
    BY <2>1, <2>2, Additions, ParsersAre
<1>4. new \in [DOMAIN ctrl[turn] -> Meta]
  BY <1>3 DEF Added
<1> HIDE DEF new, more
<1> QED
  BY <1>2, <1>3, <1>4, AdditionKeeps

\* A module has finitely many paths.
LEMMA PathsAreFinite ==
    ASSUME RoutesTypes, NEW m \in DOMAIN app, NEW S, S \subseteq OpenPaths(m)
    PROVE  IsFiniteSet(S) /\ S \subseteq STRING
<1> DEFINE n == Len(ctrl[m])
           f == [j \in 1..n |-> ctrl[m][j].path]
           T == {ctrl[m][j].path : j \in 1..n}
<1>1. n \in Nat /\ DOMAIN ctrl[m] = 1..n /\ ctrl[m] \in Seq(Meta)
  BY DEF RoutesTypes
<1>2. T \subseteq STRING
  <2>1. \A j \in 1..n : ctrl[m][j] \in Meta
    BY <1>1
  <2> QED
    BY <2>1 DEF Meta
<1>3. OpenPaths(m) \subseteq T
  BY <1>1 DEF OpenPaths, ToSet
<1>4. f \in Surjection(1..n, T)
  BY Zenon DEF Surjection
<1>5. IsFiniteSet(1..n)
  BY <1>1, FS_Interval
<1>6. IsFiniteSet(T)
  BY <1>4, <1>5, FS_Surjection DEF ExistsSurjection
<1>7. S \in SUBSET T
  BY <1>3
<1> HIDE DEF T
<1> QED
  BY <1>2, <1>6, <1>7, FS_Subset

\* The routes for OPTIONS that CorsExtension makes.
LEMMA NewOptionsAre ==
    ASSUME RoutesTypes, NEW m \in DOMAIN app
    PROVE  /\ NewOptions(m) \in Seq(Meta)
           /\ \A j \in DOMAIN NewOptions(m) :
                 NewOptions(m)[j].answersOptions /\ Interceptors(NewOptions(m)[j]) = <<>>
<1> DEFINE S == OpenPaths(m) \ UNION {OpenPaths(k) : k \in 1..(m - 1)}
           s == SetToSeq(S)
           n == Cardinality(S)
<1>1. IsFiniteSet(S) /\ S \subseteq STRING
  BY PathsAreFinite
<1>2. n \in Nat /\ s \in [1..n -> S]
  BY <1>1, SetToSeqIs
<1>3. NewOptions(m) = [i \in DOMAIN s |-> OptionsController(s[i])]
  BY DEF NewOptions
<1>4. ASSUME NEW p \in STRING
      PROVE  /\ OptionsController(p) \in Meta /\ OptionsController(p).answersOptions
             /\ Interceptors(OptionsController(p)) = <<>>
  <2>1. <<"OPTIONS">> \in Seq(Method \union {"ALL", "HEAD"}) /\ <<>> \in Seq(Name)
    BY MethodAssumption
  <2> QED
    BY <2>1 DEF Meta, OptionsController, Interceptors
<1> HIDE DEF S, s, n
<1>5. NewOptions(m) \in [1..n -> Meta]
  BY <1>1, <1>2, <1>3, <1>4
<1>6. NewOptions(m) \in Seq(Meta)
  BY <1>2, <1>5
<1>7. ASSUME NEW j \in DOMAIN NewOptions(m)
      PROVE  NewOptions(m)[j].answersOptions /\ Interceptors(NewOptions(m)[j]) = <<>>
  <2>1. s[j] \in STRING /\ NewOptions(m)[j] = OptionsController(s[j])
    BY <1>1, <1>2, <1>3, <1>7
  <2> QED
    BY <1>4, <2>1
<1> QED
  BY <1>6, <1>7

\* The interceptor of CORS is put to a route that has it not.
LEMMA EquippedIs ==
    ASSUME NEW c \in Meta, HasNone("cors", Interceptors(c))
    PROVE  /\ Push(c, "cors") \in Meta
           /\ Once("cors", Interceptors(Push(c, "cors")))
           /\ HasNone("body", Interceptors(c)) => HasNone("body", Interceptors(Push(c, "cors")))
           /\ Once("body", Interceptors(c)) => Once("body", Interceptors(Push(c, "cors")))
           /\ Push(c, "cors").methods = c.methods /\ Push(c, "cors").path = c.path
           /\ Push(c, "cors").guards = c.guards
           /\ Push(c, "cors").answersOptions = c.answersOptions
<1> DEFINE d == Push(c, "cors")
<1>1. Added(c, d, <<"cors">>)
  BY Additions DEF Name
<1>2. /\ <<"cors">> \in Seq(Name) /\ Interceptors(c) \in Seq(Name)
      /\ HasNone("body", <<"cors">>) /\ Once("cors", <<"cors">>)
  BY OneOther, InterceptorsAre DEF Name
<1> HIDE DEF d
<1>3. Interceptors(d) = Interceptors(c) \o <<"cors">>
  BY <1>1 DEF Added
<1>4. Once("cors", Interceptors(d))
  BY <1>2, <1>3, OnceInBoth
<1>5. HasNone("body", Interceptors(c)) => HasNone("body", Interceptors(d))
  BY <1>2, <1>3, NoneInBoth
<1>6. Once("body", Interceptors(c)) => Once("body", Interceptors(d))
  BY <1>2, <1>3, OnceInBoth
<1> QED
  BY <1>1, <1>4, <1>5, <1>6 DEF Added, d

\* CorsExtension equips each route of the application once.
LEMMA CorsForAppKeeps ==
    ASSUME RoutesTypes, Metas, phase = "stage1", corsState # "done", CorsForApp, app' = app,
           \A m \in DOMAIN app : app[m].body => (HasRun(m, "body")' <=> HasRun(m, "body"))
    PROVE  ctrl' \in [DOMAIN app -> Seq(Meta)] /\ Metas'
<1> DEFINE both(m) == ctrl[m] \o NewOptions(m)
<1>1. ASSUME NEW m \in DOMAIN app
      PROVE  /\ both(m) \in Seq(Meta)
             /\ \A j \in DOMAIN both(m) :
                   /\ HasNone("cors", Interceptors(both(m)[j]))
                   /\ \/ both(m)[j].answersOptions
                      \/ Declares(m, both(m)[j]) /\ BodyFits(m, both(m)[j])
  <2> DEFINE t == NewOptions(m)
  <2>1. ctrl[m] \in Seq(Meta)
    BY DEF RoutesTypes
  <2>2. t \in Seq(Meta) /\ \A j \in DOMAIN t : t[j].answersOptions /\ Interceptors(t[j]) = <<>>
    BY NewOptionsAre
  <2>3. \A j \in DOMAIN ctrl[m] : MetaFits(m, ctrl[m][j])
    BY DEF Metas
  <2> HIDE DEF t
  <2>4. /\ ctrl[m] \o t \in Seq(Meta)
        /\ \A j \in DOMAIN (ctrl[m] \o t) :
              \/ j \in DOMAIN ctrl[m] /\ (ctrl[m] \o t)[j] = ctrl[m][j]
              \/ j - Len(ctrl[m]) \in DOMAIN t /\ (ctrl[m] \o t)[j] = t[j - Len(ctrl[m])]
    BY <2>1, <2>2
  <2>5. HasNone("cors", <<>>)
    BY OneOther DEF HasNone
  <2>6. \A j \in DOMAIN (ctrl[m] \o t) :
           LET c == (ctrl[m] \o t)[j] IN
           /\ HasNone("cors", Interceptors(c))
           /\ c.answersOptions \/ (Declares(m, c) /\ BodyFits(m, c))
    BY <2>2, <2>3, <2>4, <2>5 DEF MetaFits, CorsFits
  <2> QED
    BY <2>4, <2>6 DEF t
<1>2. /\ corsState' = "done"
      /\ ctrl' = [m \in DOMAIN app |-> [j \in DOMAIN both(m) |-> Push(both(m)[j], "cors")]]
  BY DEF CorsForApp
<1> HIDE DEF both
<1>3. ASSUME NEW m \in DOMAIN app PROVE ctrl'[m] \in Seq(Meta)
  <2> DEFINE n == Len(both(m))
  <2>1. n \in Nat /\ DOMAIN both(m) = 1..n
    BY <1>1
  <2>2. \A j \in DOMAIN both(m) : Push(both(m)[j], "cors") \in Meta
    BY <1>1, EquippedIs
  <2>3. ctrl'[m] \in [1..n -> Meta]
    BY <1>2, <2>1, <2>2
  <2> HIDE DEF n
  <2> QED
    BY <2>1, <2>3
<1>4. ASSUME NEW m \in DOMAIN app, NEW j \in DOMAIN ctrl'[m]
      PROVE  MetaFits(m, ctrl[m][j])'
  <2>1. j \in DOMAIN both(m) /\ ctrl'[m][j] = Push(both(m)[j], "cors")
    BY <1>2, <1>4
  <2>2. PICK c : c = both(m)[j]
    OBVIOUS
  <2>3. PICK d : d = Push(c, "cors")
    OBVIOUS
  <2>4. /\ c \in Meta /\ HasNone("cors", Interceptors(c))
        /\ c.answersOptions \/ (Declares(m, c) /\ BodyFits(m, c))
    BY <1>1, <2>1, <2>2
  <2>5. /\ Once("cors", Interceptors(d))
        /\ HasNone("body", Interceptors(c)) => HasNone("body", Interceptors(d))
        /\ Once("body", Interceptors(c)) => Once("body", Interceptors(d))
        /\ d.methods = c.methods /\ d.path = c.path /\ d.guards = c.guards
        /\ d.answersOptions = c.answersOptions
    BY <2>4, <2>3, EquippedIs
  <2>6. CorsFits(d)'
    BY <1>2, <2>5 DEF CorsFits, Interceptors
  <2>7. Declares(m, c) => Declares(m, d)'
    BY <2>5 DEF Declares
  <2>8. BodyFits(m, c) => BodyFits(m, d)'
    <3>1. Parsed(c) = Parsed(d)
      BY <2>5 DEF Parsed
    <3>2. app[m].body /\ HasRun(m, "body")' <=> app[m].body /\ HasRun(m, "body")
      OBVIOUS
    <3> QED
      BY <2>5, <3>1, <3>2 DEF BodyFits, Parsed, Interceptors
  <2>9. MetaFits(m, d)'
    BY <2>4, <2>5, <2>6, <2>7, <2>8 DEF MetaFits
  <2> QED
    BY <2>1, <2>2, <2>3, <2>9
<1>5. ctrl' \in [DOMAIN app -> Seq(Meta)]
  BY <1>2, <1>3
<1> QED
  BY <1>4, <1>5 DEF Metas

\* Routes that stay as they are keep what is known of them.
LEMMA SameKeeps ==
    ASSUME Metas, phase # "failed", UNCHANGED <<app, ctrl>>,
           corsState' = "done" <=> corsState = "done",
           \A m \in DOMAIN app : app[m].body => (HasRun(m, "body")' <=> HasRun(m, "body"))
    PROVE  Metas'
<1> SUFFICES ASSUME NEW m \in DOMAIN app, NEW j \in DOMAIN ctrl[m] PROVE MetaFits(m, ctrl[m][j])'
  BY DEF Metas
<1>1. PICK c : c = ctrl[m][j]
  OBVIOUS
<1>2. MetaFits(m, c)
  BY <1>1 DEF Metas
<1>3. CorsFits(c)' <=> CorsFits(c)
  BY DEF CorsFits, Interceptors
<1>4. Declares(m, c)' <=> Declares(m, c)
  BY DEF Declares
<1>5. BodyFits(m, c)' <=> BodyFits(m, c)
  <2>1. app[m].body /\ HasRun(m, "body")' <=> app[m].body /\ HasRun(m, "body")
    OBVIOUS
  <2> QED
    BY <2>1 DEF BodyFits, Parsed, Interceptors
<1> QED
  BY <1>1, <1>2, <1>3, <1>4, <1>5 DEF MetaFits

\* CorsExtension does its work in the last module, or is put off.
LEMMA RunCorsKeeps ==
    ASSUME RoutesTypes, Turns, Metas, RunCors
    PROVE  RoutesTypes' /\ Turns' /\ Metas'
<1>1. /\ phase = "stage1" /\ "cors" \notin ran /\ "dispatcher" \notin ran
      /\ ran' = ran \union {"cors"} /\ UNCHANGED <<app, phase, turn>>
  BY DEF RunCors, Runs, Ran
<1>2. corsState # "done"
  BY <1>1 DEF Turns
<1>3. \A m \in DOMAIN app : HasRun(m, "body")' <=> HasRun(m, "body")
  BY <1>1 DEF HasRun
<1>4. CASE turn = Len(app)
  <2>1. CorsForApp
    BY <1>4 DEF RunCors
  <2>2. ctrl' \in [DOMAIN app -> Seq(Meta)] /\ Metas'
    BY <1>1, <1>2, <1>3, <2>1, CorsForAppKeeps
  <2>3. corsState' = "done"
    BY <2>1 DEF CorsForApp
  <2>4. RoutesTypes'
    BY <1>1, <2>2, <2>3 DEF RoutesTypes
  <2>5. Turns'
    BY <1>1, <1>4, <2>3 DEF Turns
  <2> QED
    BY <2>2, <2>4, <2>5
<1>5. CASE turn # Len(app)
  <2>1. corsState' = "pending" /\ UNCHANGED ctrl
    BY <1>5 DEF RunCors
  <2>2. Metas'
    BY <1>1, <1>2, <1>3, <2>1, SameKeeps
  <2>3. RoutesTypes'
    BY <1>1, <2>1 DEF RoutesTypes
  <2>4. Turns'
    BY <1>1, <2>1 DEF Turns
  <2> QED
    BY <2>2, <2>3, <2>4
<1> QED
  BY <1>4, <1>5

\* DispatcherExtension runs when the others have.
LEMMA RunDispatcherKeeps ==
    ASSUME RoutesTypes, Turns, Metas, RunDispatcher
    PROVE  RoutesTypes' /\ Turns' /\ Metas'
<1>1. /\ phase = "stage1" /\ "dispatcher" \notin ran /\ ran' = ran \union {"dispatcher"}
      /\ UNCHANGED <<app, phase, turn, ctrl, corsState>>
      /\ {e \in {"body", "session", "cors"} : app[turn][e]} \subseteq ran
  BY DEF RunDispatcher, Runs, Ran
<1>2. Metas'
  <2>1. \A m \in DOMAIN app : HasRun(m, "body")' <=> HasRun(m, "body")
    BY <1>1 DEF HasRun
  <2> QED
    BY <1>1, <2>1, SameKeeps
<1>3. RoutesTypes'
  BY <1>1 DEF RoutesTypes
<1>4. Turns'
  <2>1. \A e \in {"body", "cors"} : app[turn][e] => e \in ran
    BY <1>1
  <2> QED
    BY <1>1, <2>1 DEF Turns
<1> QED
  BY <1>2, <1>3, <1>4

\* The extensions of one module are over before those of the next one.
LEMMA NextModuleKeeps ==
    ASSUME RoutesTypes, Turns, Metas, NextModule
    PROVE  RoutesTypes' /\ Turns' /\ Metas'
<1>1. /\ phase = "stage1" /\ "dispatcher" \in ran /\ turn < Len(app)
      /\ turn' = turn + 1 /\ ran' = {}
      /\ UNCHANGED <<app, phase, ctrl, corsState>>
  BY DEF NextModule
<1>2. /\ Len(app) \in Nat /\ DOMAIN app = 1..Len(app) /\ turn \in Nat \ {0}
      /\ turn \in DOMAIN app
  BY <1>1, AppIs DEF RoutesTypes
<1>3. (app[turn].body => "body" \in ran) /\ (app[turn].cors => "cors" \in ran)
  BY <1>1 DEF Turns
<1>4. Metas'
  <2>1. ASSUME NEW m \in DOMAIN app, app[m].body
        PROVE  HasRun(m, "body")' <=> HasRun(m, "body")
    <3>1. m \in Nat
      BY <1>2
    <3> QED
      BY <1>1, <1>2, <1>3, <2>1, <3>1 DEF HasRun
  <2> QED
    BY <1>1, <2>1, SameKeeps
<1>5. RoutesTypes'
  BY <1>1, <1>2 DEF RoutesTypes
<1>6. Turns'
  <2>1. corsState # "done"
    <3>1. corsState = "done" => turn = Len(app)
      BY <1>1 DEF Turns
    <3>2. PICK n : n = Len(app)
      OBVIOUS
    <3>3. turn < n /\ n \in Nat /\ turn \in Nat
      BY <1>1, <1>2, <3>2
    <3>4. turn # n
      BY <3>3
    <3> QED
      BY <3>1, <3>2, <3>4
  <2>2. ASSUME NEW m \in DOMAIN app, m < turn + 1, app[m].cors PROVE corsState # "absent"
    <3>1. m \in Nat
      BY <1>2
    <3>2. m < turn \/ m = turn
      BY <1>2, <2>2, <3>1
    <3> QED
      BY <1>1, <1>3, <2>2, <3>2 DEF Turns
  <2> QED
    BY <1>1, <2>1, <2>2 DEF Turns
<1> QED
  BY <1>4, <1>5, <1>6

\* What was put off is done at the end of stage 1.
LEMMA EndStage1Keeps ==
    ASSUME RoutesTypes, Turns, Metas, EndStage1
    PROVE  RoutesTypes' /\ Turns' /\ Metas'
<1>1. /\ phase = "stage1" /\ "dispatcher" \in ran /\ turn = Len(app)
      /\ phase' = "stage3" /\ turn' = 1 /\ UNCHANGED <<app, ran>>
  BY DEF EndStage1
<1>2. Len(app) \in Nat \ {0} /\ DOMAIN app = 1..Len(app)
  BY AppIs
<1>3. (app[turn].body => "body" \in ran) /\ (app[turn].cors => "cors" \in ran)
  BY <1>1 DEF Turns
<1>4. ASSUME NEW m \in DOMAIN app, app[m].body PROVE HasRun(m, "body")' <=> HasRun(m, "body")
  BY <1>1, <1>2, <1>3, <1>4 DEF HasRun
<1>5. ASSUME NEW m \in DOMAIN app, app[m].cors PROVE corsState # "absent"
  BY <1>1, <1>2, <1>3, <1>5 DEF Turns
<1>6. CASE corsState = "pending"
  <2>1. CorsForApp
    BY <1>6 DEF EndStage1
  <2>2. corsState' = "done"
    BY <2>1 DEF CorsForApp
  <2>3. ctrl' \in [DOMAIN app -> Seq(Meta)] /\ Metas'
    BY <1>1, <1>4, <1>6, <2>1, CorsForAppKeeps
  <2>4. RoutesTypes'
    BY <1>1, <1>2, <2>2, <2>3 DEF RoutesTypes
  <2>5. Turns'
    BY <1>1, <2>2 DEF Turns
  <2> QED
    BY <2>3, <2>4, <2>5
<1>7. CASE corsState # "pending"
  <2>1. UNCHANGED <<ctrl, corsState>>
    BY <1>7 DEF EndStage1
  <2>2. Metas'
    BY <1>1, <1>4, <2>1, SameKeeps
  <2>3. RoutesTypes'
    BY <1>1, <1>2, <2>1 DEF RoutesTypes
  <2>4. Turns'
    BY <1>1, <1>5, <1>7, <2>1 DEF Turns, RoutesTypes
  <2> QED
    BY <2>2, <2>3, <2>4
<1> QED
  BY <1>6, <1>7

\* Stage 3 leaves the routes as they are.
LEMMA Stage3Keeps ==
    ASSUME RoutesTypes, Turns, Metas, Stage3
    PROVE  RoutesTypes' /\ Turns' /\ Metas'
<1>1. CASE \E why : Fails(why)
  BY <1>1, FailsKeeps
<1>2. CASE ~\E why : Fails(why)
  <2>1. /\ phase = "stage3" /\ turn' = turn + 1 /\ UNCHANGED <<app, ctrl, corsState>>
        /\ phase' = IF turn = Len(app) THEN "serving" ELSE phase
    BY <1>2 DEF Stage3
  <2>2. Len(app) \in Nat \ {0} /\ DOMAIN app = 1..Len(app) /\ turn \in DOMAIN app
    BY <2>1, AppIs DEF RoutesTypes
  <2>3. Metas'
    <3>1. \A m \in DOMAIN app : HasRun(m, "body")' <=> HasRun(m, "body")
      BY <2>1 DEF HasRun
    <3> QED
      BY <2>1, <3>1, SameKeeps
  <2>4. RoutesTypes'
    <3>1. turn' \in Nat \ {0} /\ (turn # Len(app) => turn' \in DOMAIN app)
      BY <2>1, <2>2
    <3>2. phase' \in {"stage3", "serving"} /\ (phase' = "stage3" => turn # Len(app))
      BY <2>1
    <3> QED
      BY <2>1, <3>1, <3>2 DEF RoutesTypes
  <2>5. Turns'
    <3>1. phase' \in {"stage3", "serving"}
      BY <2>1
    <3>2. corsState # "pending" /\ \A m \in DOMAIN app : app[m].cors => corsState = "done"
      BY <2>1 DEF Turns
    <3>3. UNCHANGED <<app, corsState>>
      BY <2>1
    <3> QED
      BY <3>1, <3>2, <3>3 DEF Turns
  <2> QED
    BY <2>3, <2>4, <2>5
<1> QED
  BY <1>1, <1>2

\* Every step of the extensions keeps what is known of the routes.
LEMMA RoutesKeep ==
    ASSUME RoutesTypes, Turns, Metas, RoutesNext
    PROVE  RoutesTypes' /\ Turns' /\ Metas'
BY RunRestRouteKeeps, RunInterceptorKeeps, RunBodyParserKeeps, RunSessionCookieKeeps,
   RunCorsKeeps, RunDispatcherKeeps, NextModuleKeeps, EndStage1Keeps, Stage3Keeps DEF RoutesNext

\* The start: no route has been made.
LEMMA RoutesStart ==
    ASSUME RoutesInit PROVE RoutesTypes /\ Turns /\ Metas
<1>1. app \in Seq(AppModule) /\ app # <<>>
  BY AppsAssumption DEF RoutesInit
<1>2. Len(app) \in Nat \ {0} /\ DOMAIN app = 1..Len(app)
  BY <1>1
<1>3. <<>> \in Seq(Meta)
  OBVIOUS
<1>4. RoutesTypes
  BY <1>2, <1>3 DEF RoutesInit, RoutesTypes
<1>5. Turns
  BY <1>2 DEF RoutesInit, Turns
<1>6. Metas
  BY DEF RoutesInit, Metas
<1> QED
  BY <1>4, <1>5, <1>6

-----------------------------------------------------------------------------
(* Stage 3: the handlers.                                                   *)

Link == Name \union {"frontend", "guards", "backend"}
First(h) == IF h.guards > 0 THEN 2 ELSE 1

\* The chain of a handler: the front end, the guards if there are any, the
\* interceptors, the back end.
ChainFits(h) ==
    /\ h.guards \in Nat /\ h.chain \in Seq(Link) /\ Len(h.chain) > First(h)
    /\ h.chain[1] = "frontend" /\ (h.guards > 0 => h.chain[2] = "guards")
    /\ \A n \in DOMAIN h.chain : n > First(h) /\ n < Len(h.chain) => h.chain[n] \in Name
    /\ h.chain[Len(h.chain)] = "backend"

\* It parses one body once, none never.
Parses(h) ==
    LET parsed == h.methods \intersect Accepted
    IN  app[h.module].body /\ Cardinality(parsed) <= 1 =>
            IF parsed = {} THEN HasNone("body", h.chain) ELSE Once("body", h.chain)

\* A handler at a path: it has the guards that the module and the route declare.
HandlerFits(p, h) ==
    /\ ChainFits(h)
    /\ h.answersOptions \in BOOLEAN /\ h.module \in DOMAIN app
    /\ ~h.answersOptions =>
          /\ \E r \in ToSet(app[h.module].routes) :
                /\ r.path = p /\ ToSet(r.methods) = h.methods
                /\ h.guards = app[h.module].guards + r.guards
          /\ Parses(h)
    /\ (\E m \in DOMAIN app : app[m].cors) => Once("cors", h.chain)

Routed ==
    /\ phase = "stage1" => DOMAIN router = {}
    /\ phase # "failed" => \A k \in DOMAIN router : HandlerFits(k[2], router[k])

\* A sequence over a set is one over a larger set.
LEMMA SeqGrows ==
    ASSUME NEW S, NEW T, S \subseteq T, NEW s \in Seq(S)
    PROVE  s \in Seq(T)
OBVIOUS

\* The chain has the interceptors of the route between the ends.
LEMMA ChainIs ==
    ASSUME NEW c \in Meta, NEW m \in DOMAIN app, app[m].guards \in Nat
    PROVE  /\ ChainFits(HandlerOf(c, m))
           /\ \A i \in {"body", "cors"} :
                 /\ HasNone(i, Interceptors(c)) => HasNone(i, Chain(c, m))
                 /\ Once(i, Interceptors(c)) => Once(i, Chain(c, m))
<1> DEFINE g == app[m].guards + c.guards
           ends == <<"frontend">> \o (IF g > 0 THEN <<"guards">> ELSE <<>>)
           s == Interceptors(c)
           h == HandlerOf(c, m)
<1>1. g \in Nat
  BY DEF Meta
<1>2. s \in Seq(Name) /\ s \in Seq(Link)
  <2>1. Name \subseteq Link
    BY DEF Link
  <2> HIDE DEF s
  <2>2. s \in Seq(Name)
    BY InterceptorsAre DEF s
  <2> QED
    BY <2>1, <2>2, SeqGrows
<1>3. /\ ends \in Seq(Link) /\ Len(ends) = (IF g > 0 THEN 2 ELSE 1)
      /\ ends[1] = "frontend" /\ (g > 0 => ends[2] = "guards")
  <2> HIDE DEF g
  <2> DEFINE x == <<"frontend">>
             y == IF g > 0 THEN <<"guards">> ELSE <<>>
  <2>1. x \in Seq(Link) /\ Len(x) = 1 /\ x[1] = "frontend"
    BY DEF Link
  <2>2. /\ y \in Seq(Link) /\ Len(y) \in {0, 1} /\ (g > 0 <=> Len(y) = 1)
        /\ (g > 0 => y[1] = "guards")
    <3>1. CASE g > 0
      BY <3>1 DEF Link
    <3>2. CASE ~(g > 0)
      BY <3>2
    <3> QED
      BY <3>1, <3>2
  <2> HIDE DEF x, y
  <2>3. /\ x \o y \in Seq(Link) /\ Len(x \o y) = Len(y) + 1
        /\ (x \o y)[1] = x[1] /\ (Len(y) = 1 => (x \o y)[2] = y[1])
    <3>1. /\ x \o y \in Seq(Link) /\ Len(x \o y) = Len(x) + Len(y)
          /\ \A n \in 1..(Len(x) + Len(y)) :
                (x \o y)[n] = IF n <= Len(x) THEN x[n] ELSE y[n - Len(x)]
      BY <2>1, <2>2, ConcatProperties
    <3> QED
      BY <2>1, <2>2, <3>1
  <2>4. ends = x \o y
    BY DEF x, y
  <2> HIDE DEF ends
  <2> QED
    BY <2>1, <2>2, <2>3, <2>4
<1>4. h.chain = ends \o s \o <<"backend">> /\ h.guards = g /\ Chain(c, m) = h.chain
  BY DEF HandlerOf, Chain
<1>5. /\ Len(ends) = First(h) /\ ends[1] = "frontend" /\ (g > 0 => ends[2] = "guards")
      /\ \A i \in {"body", "cors"} : HasNone(i, ends) /\ HasNone(i, <<"backend">>)
  <2> HIDE DEF ends, g, h
  <2>1. DOMAIN ends = IF g > 0 THEN {1, 2} ELSE {1}
    BY <1>3
  <2> QED
    BY <1>3, <1>4, <2>1 DEF First, HasNone
<1> HIDE DEF ends, s, h, g
<1>6. /\ Len(ends) \in {1, 2} /\ Len(s) \in Nat
      /\ ends \o s \in Seq(Link) /\ Len(ends \o s) = Len(ends) + Len(s)
      /\ \A n \in 1..Len(ends) : (ends \o s)[n] = ends[n]
      /\ \A n \in 1..Len(s) : (ends \o s)[n + Len(ends)] = s[n]
  <2>1. Len(ends) \in {1, 2} /\ ends \in Seq(Link)
    BY <1>3
  <2> QED
    BY <1>2, <2>1
<1>7. /\ h.chain \in Seq(Link) /\ Len(h.chain) = Len(ends) + Len(s) + 1
      /\ h.chain[Len(h.chain)] = "backend"
      /\ \A n \in 1..(Len(ends) + Len(s)) : h.chain[n] = (ends \o s)[n]
  <2>1. PICK t : t = ends \o s
    OBVIOUS
  <2>2. t \in Seq(Link) /\ Len(t) = Len(ends) + Len(s) /\ h.chain = t \o <<"backend">>
    BY <1>4, <1>6, <2>1
  <2> PICK x : x = "backend" /\ x \in Link
    BY DEF Link
  <2>3. /\ h.chain \in Seq(Link) /\ Len(h.chain) = Len(t) + 1
        /\ h.chain[Len(t) + 1] = "backend"
        /\ \A n \in 1..Len(t) : h.chain[n] = t[n]
    BY <2>2
  <2> QED
    BY <2>1, <2>2, <2>3
<1>8. ASSUME NEW n \in DOMAIN h.chain, n > Len(ends), n < Len(h.chain) PROVE h.chain[n] \in Name
  <2>1. n - Len(ends) \in 1..Len(s) /\ n \in 1..(Len(ends) + Len(s))
    <3>1. PICK x \in Nat, y \in {1, 2} : x = Len(s) /\ y = Len(ends)
      BY <1>6
    <3>2. n \in 1..(y + x + 1) /\ n > y /\ n < y + x + 1
      BY <1>7, <1>8, <3>1
    <3>3. n - y \in 1..x /\ n \in 1..(y + x)
      BY <3>2
    <3> QED
      BY <3>1, <3>3
  <2>2. h.chain[n] = s[n - Len(ends)]
    BY <1>6, <1>7, <2>1
  <2> QED
    BY <1>2, <2>1, <2>2
<1>9. ChainFits(h)
  <2>1. h.chain[1] = "frontend" /\ (h.guards > 0 => h.chain[2] = "guards")
    BY <1>4, <1>5, <1>6, <1>7 DEF First
  <2> QED
    BY <1>1, <1>4, <1>5, <1>6, <1>7, <1>8, <2>1 DEF ChainFits
<1>10. ASSUME NEW i \in {"body", "cors"}
       PROVE  /\ HasNone(i, s) => HasNone(i, h.chain)
              /\ Once(i, s) => Once(i, h.chain)
  <2>1. HasNone(i, ends) /\ HasNone(i, <<"backend">>)
    BY <1>5
  <2>2. <<"backend">> \in Seq(Link)
    BY DEF Link
  <2>3. PICK t : t = ends \o s
    OBVIOUS
  <2>4. t \in Seq(Link) /\ h.chain = t \o <<"backend">>
    BY <1>4, <1>6, <2>3
  <2>5. HasNone(i, s) => HasNone(i, t)
    BY <1>2, <1>3, <2>1, <2>3, NoneInBoth
  <2>6. Once(i, s) => Once(i, t)
    BY <1>2, <1>3, <2>1, <2>3, OnceInBoth
  <2>7. HasNone(i, t) => HasNone(i, h.chain)
    BY <2>1, <2>2, <2>4, NoneInBoth
  <2>8. Once(i, t) => Once(i, h.chain)
    BY <2>1, <2>2, <2>4, OnceInBoth
  <2> QED
    BY <2>5, <2>6, <2>7, <2>8
<1> QED
  BY <1>4, <1>9, <1>10 DEF h, s

\* No two methods of a route that is registered are the same.
LEMMA ParsedOnce ==
    ASSUME NEW metas \in Seq(Meta), ~Conflict(metas), NEW j \in DOMAIN metas,
           Cardinality(ToSet(metas[j].methods) \intersect Accepted) <= 1
    PROVE  IF ToSet(metas[j].methods) \intersect Accepted = {} THEN Parsed(metas[j]) = {}
           ELSE Cardinality(Parsed(metas[j])) = 1
<1> DEFINE c == metas[j]
           T == ToSet(c.methods) \intersect Accepted
<1>1. c \in Meta /\ c.methods \in Seq(Method \union {"ALL", "HEAD"})
  <2>1. c \in Meta
    OBVIOUS
  <2> HIDE DEF c
  <2> QED
    BY <2>1 DEF Meta
<1>2. \A i \in Parsed(c) : i \in DOMAIN c.methods /\ c.methods[i] \in T
  BY DEF Parsed, ToSet
<1>3. T = {} => Parsed(c) = {}
  BY <1>2
<1>4. ASSUME T # {} PROVE Cardinality(Parsed(c)) = 1
  <2>1. PICK i \in DOMAIN c.methods : c.methods[i] \in T
    BY <1>4 DEF ToSet
  <2>2. i \in Parsed(c)
    BY <2>1 DEF Parsed
  <2>3. IsFiniteSet(T)
    <3> DEFINE n == Len(c.methods)
               f == [k \in 1..n |-> c.methods[k]]
    <3>1. n \in Nat /\ DOMAIN c.methods = 1..n
      BY <1>1
    <3>2. f \in Surjection(1..n, ToSet(c.methods))
      BY <3>1, Zenon DEF Surjection, ToSet
    <3>3. IsFiniteSet(1..n)
      BY <3>1, FS_Interval
    <3>4. IsFiniteSet(ToSet(c.methods))
      BY <3>2, <3>3, FS_Surjection DEF ExistsSurjection
    <3>5. T \in SUBSET ToSet(c.methods)
      OBVIOUS
    <3> HIDE DEF T
    <3> QED
      BY <3>4, <3>5, FS_Subset
  <2>4. Cardinality(T) = 1
    <3>1. Cardinality(T) \in Nat /\ Cardinality(T) # 0
      BY <2>1, <2>3, FS_CardinalityType, FS_EmptySet
    <3> QED
      BY <3>1
  <2>5. PICK x : T = {x}
    BY <2>3, <2>4, FS_Singleton
  <2>6. x \in Method /\ x # "ALL" /\ Targets(x) = {x}
    BY <2>5, AppsAssumption, MethodAssumption DEF Targets
  <2>7. ASSUME NEW l \in Parsed(c) PROVE l = i
    <3>1. c.methods[l] = x /\ c.methods[i] = x /\ l \in DOMAIN c.methods
      BY <1>2, <2>1, <2>5
    <3>2. KeysAt(c, l) \intersect KeysAt(c, i) # {}
      <4>1. KeysAt(c, l) = {x} \X {c.path} /\ KeysAt(c, i) = {x} \X {c.path}
        BY <2>6, <3>1 DEF KeysAt
      <4>2. <<x, c.path>> \in {x} \X {c.path}
        OBVIOUS
      <4> QED
        BY <4>1, <4>2
    <3>3. <<j, l>> = <<j, i>>
      BY <2>1, <3>1, <3>2, Zenon DEF Conflict
    <3> QED
      BY <3>3
  <2>8. Parsed(c) = {i}
    BY <2>2, <2>7
  <2> QED
    BY <2>8, FS_Singleton
<1> QED
  BY <1>3, <1>4

\* The handler of a route has what the module and the route declare, and the
\* interceptors that the extensions have put to the route.
LEMMA HandlerIs ==
    ASSUME RoutesTypes, Turns, Metas, phase = "stage3",
           NEW j \in DOMAIN ctrl[turn], ~Conflict(ctrl[turn])
    PROVE  HandlerFits(ctrl[turn][j].path, HandlerOf(ctrl[turn][j], turn))
<1> DEFINE c == ctrl[turn][j]
           h == HandlerOf(c, turn)
<1>1. /\ turn \in DOMAIN app /\ app[turn].guards \in Nat /\ app[turn].body \in BOOLEAN
      /\ ctrl[turn] \in Seq(Meta)
  BY AppIs DEF RoutesTypes
<1>2. c \in Meta /\ MetaFits(turn, c)
  BY <1>1 DEF Metas
<1>3. /\ h.answersOptions = c.answersOptions /\ h.module = turn /\ h.methods = ToSet(c.methods)
      /\ h.chain = Chain(c, turn) /\ h.guards = app[turn].guards + c.guards
  BY DEF HandlerOf
<1>4. IF ToSet(c.methods) \intersect Accepted = {} THEN Parsed(c) = {}
      ELSE Cardinality(ToSet(c.methods) \intersect Accepted) <= 1 => Cardinality(Parsed(c)) = 1
  <2>1. CASE Cardinality(ToSet(c.methods) \intersect Accepted) <= 1
    BY <1>1, <2>1, ParsedOnce
  <2>2. CASE ToSet(c.methods) \intersect Accepted = {}
    BY <1>1, <2>2, ParsedOnce, FS_EmptySet
  <2> QED
    BY <2>1, <2>2
<1> HIDE DEF h
<1>5. ChainFits(h)
  BY <1>1, <1>2, ChainIs DEF h
<1>6. \A i \in {"body", "cors"} :
         /\ HasNone(i, Interceptors(c)) => HasNone(i, h.chain)
         /\ Once(i, Interceptors(c)) => Once(i, h.chain)
  BY <1>1, <1>2, <1>3, ChainIs
<1> HIDE DEF c
<1>7. c.answersOptions \in BOOLEAN
  BY <1>2 DEF Meta
<1>8. ASSUME ~c.answersOptions PROVE Declares(turn, c) /\ BodyFits(turn, c)
  BY <1>2, <1>8 DEF MetaFits
<1>9. ASSUME ~c.answersOptions
      PROVE  \E r \in ToSet(app[h.module].routes) :
                /\ r.path = c.path /\ ToSet(r.methods) = h.methods
                /\ h.guards = app[h.module].guards + r.guards
  BY <1>3, <1>8, <1>9 DEF Declares
<1>10. ASSUME ~c.answersOptions PROVE Parses(h)
  <2>1. ASSUME app[turn].body
        PROVE  /\ Parsed(c) = {} => HasNone("body", h.chain)
               /\ Cardinality(Parsed(c)) = 1 => Once("body", h.chain)
    <3>1. HasRun(turn, "body")
      BY DEF HasRun
    <3> QED
      BY <1>6, <1>8, <1>10, <2>1, <3>1 DEF BodyFits
  <2> QED
    BY <1>3, <1>4, <2>1 DEF Parses
<1>11. (\E m \in DOMAIN app : app[m].cors) => Once("cors", h.chain)
  <2> SUFFICES ASSUME NEW m \in DOMAIN app, app[m].cors PROVE Once("cors", h.chain)
    OBVIOUS
  <2>1. corsState = "done"
    BY DEF Turns
  <2> QED
    BY <1>2, <1>6, <2>1 DEF MetaFits, CorsFits
<1> QED
  BY <1>1, <1>3, <1>5, <1>7, <1>9, <1>10, <1>11 DEF HandlerFits, c, h

\* Whether a handler fits is a matter of the application that is served.
LEMMA FitsAsBefore ==
    ASSUME app' = app, NEW p, NEW h
    PROVE  HandlerFits(p, h)' <=> HandlerFits(p, h)
BY DEF HandlerFits, Parses

\* Every handler of the router fits its path.
LEMMA RoutedKeeps ==
    ASSUME RoutesTypes, Turns, Metas, Routed, RoutesNext
    PROVE  Routed'
<1>1. app' = app
  BY DEF RoutesNext, RunRestRoute, RunInterceptor, RunBodyParser, RunSessionCookie, RunCors,
         RunDispatcher, NextModule, EndStage1, Stage3, Ran, Fails
<1>2. CASE phase' = "failed"
  BY <1>2 DEF Routed
<1>3. CASE phase' # "failed" /\ ~Stage3
  <2>1. /\ router' = router /\ phase # "failed" /\ (phase' = "stage1" => phase = "stage1")
    BY <1>3 DEF RoutesNext, RunRestRoute, RunInterceptor, RunBodyParser, RunSessionCookie,
         RunCors, RunDispatcher, NextModule, EndStage1, Runs, Ran, Fails
  <2>2. \A k \in DOMAIN router : HandlerFits(k[2], router[k])'
    <3> SUFFICES ASSUME NEW k \in DOMAIN router PROVE HandlerFits(k[2], router[k])'
      OBVIOUS
    <3>1. PICK h : h = router[k]
      OBVIOUS
    <3>2. HandlerFits(k[2], h)
      BY <2>1, <3>1 DEF Routed
    <3>3. HandlerFits(k[2], h)'
      BY <1>1, <3>2, FitsAsBefore
    <3> QED
      BY <2>1, <3>1, <3>3
  <2> QED
    BY <2>1, <2>2 DEF Routed
<1>4. CASE phase' # "failed" /\ Stage3
  <2> DEFINE metas == ctrl[turn]
  <2>1. /\ phase = "stage3" /\ Refusals(metas) = {} /\ router' = Registered(metas)
        /\ phase' \in {"stage3", "serving"}
    BY <1>4 DEF Stage3, Fails
  <2>2. ~Conflict(metas)
    BY <2>1 DEF Refusals
  <2>3. ASSUME NEW k \in DOMAIN router' PROVE HandlerFits(k[2], router[k])'
    <3>1. CASE k \in DOMAIN router
      <4>1. PICK h : h = router[k]
        OBVIOUS
      <4>2. HandlerFits(k[2], h) /\ router'[k] = h
        BY <2>1, <3>1, <4>1 DEF Routed, Registered
      <4>3. HandlerFits(k[2], h)'
        BY <1>1, <4>2, FitsAsBefore
      <4> QED
        BY <4>2, <4>3
    <3>2. CASE k \notin DOMAIN router
      <4>1. k \in UNION {Keys(c) : c \in ToSet(metas)}
        BY <2>1, <2>3, <3>2 DEF Registered
      <4>2. PICK c \in ToSet(metas) : k \in Keys(c) /\ router'[k] = HandlerOf(c, turn)
        <5> DEFINE d == CHOOSE c \in ToSet(metas) : k \in Keys(c)
        <5>1. d \in ToSet(metas) /\ k \in Keys(d)
          BY <4>1
        <5>2. router'[k] = HandlerOf(d, turn)
          BY <2>1, <2>3, <3>2 DEF Registered
        <5> QED
          BY <5>1, <5>2
      <4>3. PICK j \in DOMAIN metas : c = metas[j]
        BY DEF ToSet
      <4>4. k[2] = c.path
        BY <4>2 DEF Keys, KeysAt
      <4>5. PICK h : h = HandlerOf(c, turn)
        OBVIOUS
      <4>6. HandlerFits(k[2], h)
        BY <2>1, <2>2, <4>3, <4>4, <4>5, HandlerIs
      <4>7. HandlerFits(k[2], h)'
        BY <1>1, <4>6, FitsAsBefore
      <4> QED
        BY <4>2, <4>5, <4>7
    <3> QED
      BY <3>1, <3>2
  <2> QED
    BY <2>1, <2>3 DEF Routed
<1> QED
  BY <1>2, <1>3, <1>4

-----------------------------------------------------------------------------
(* The response.                                                            *)

Shape(r) ==
    /\ DOMAIN r = {"wrapped", "head", "own", "status", "chunked", "cookie", "hooked",
                   "threw", "wire"}
    /\ DOMAIN r.wire = {"sent", "ended", "status", "headers", "length"}
    /\ r.head \in BOOLEAN /\ r.wrapped \in BOOLEAN
    /\ r.wire.sent \in BOOLEAN /\ r.wire.ended \in BOOLEAN
    /\ r.status \in Nat /\ r.wire.status \in Nat

\* The same as far as the client and the status are concerned.
Alike(r, s) ==
    /\ s.wrapped = r.wrapped /\ s.head = r.head /\ s.status = r.status
    /\ s.wire.sent = r.wire.sent /\ s.wire.ended = r.wire.ended /\ s.wire.status = r.wire.status

\* Only the wrapper may have its head before the client has the first line.
Weak(r) ==
    /\ ~r.wrapped => (r.head <=> r.wire.sent)
    /\ r.wire.ended => r.wire.sent
Consistent(r) == Weak(r) /\ (r.head => r.wire.sent)
Fresh(r) == Quiet(r) /\ ~r.head /\ ~r.wire.sent /\ ~r.wire.ended

\* An exception does not change what has been sent.
LEMMA ThrowsIs ==
    ASSUME NEW r, Shape(r), NEW e
    PROVE  Shape(Throws(r, e)) /\ Alike(r, Throws(r, e)) /\ Throws(r, e).threw = e
           /\ Throws(r, e).own = r.own
BY DEF Shape, Alike, Throws

\* The status is set.
LEMMA SetStatusIs ==
    ASSUME NEW r, Shape(r), NEW n \in Nat, Quiet(r)
    PROVE  LET s == SetStatus(r, n)
           IN  /\ Shape(s) /\ Quiet(s) /\ s.status = n /\ s.own = r.own
               /\ s.wrapped = r.wrapped /\ s.head = r.head /\ s.wire = r.wire
BY DEF Shape, SetStatus, Quiet

\* A header is set, unless the headers have gone.
LEMMA SetHeaderIs ==
    ASSUME NEW r, Shape(r), NEW n, NEW v
    PROVE  LET s == SetHeader(r, n, v)
           IN  /\ Shape(s) /\ Alike(r, s)
               /\ Quiet(s) <=> Quiet(r) /\ ~r.head /\ ~(r.wrapped /\ r.wire.sent)
               /\ DOMAIN s.own \subseteq DOMAIN r.own \union {n}
<1> DEFINE f == Over(Header(n, v), r.own)
           g == Over(Header(n, v), r.wire.headers)
           set == [r EXCEPT !.own = f]
<1>1. DOMAIN f \subseteq DOMAIN r.own \union {n}
  BY DEF Over, Header
<1> HIDE DEF f, g
<1>2. Shape(set) /\ Alike(r, set) /\ set.threw = r.threw /\ set.own = f
  BY DEF Shape, Alike
<1>3. CASE ~Quiet(r)
  BY <1>3 DEF SetHeader, Alike
<1>4. CASE Quiet(r) /\ r.head
  <2>1. SetHeader(r, n, v) = Throws(r, "headersSent")
    BY <1>4 DEF SetHeader
  <2> QED
    BY <1>4, <2>1, ThrowsIs DEF Quiet
<1>5. CASE Quiet(r) /\ ~r.head /\ ~r.wrapped
  <2>1. SetHeader(r, n, v) = set
    BY <1>5 DEF SetHeader, f
  <2> QED
    BY <1>1, <1>2, <1>5, <2>1 DEF Quiet
<1>6. CASE Quiet(r) /\ ~r.head /\ r.wrapped /\ r.wire.sent
  <2>1. SetHeader(r, n, v) = Throws(set, "headersSent")
    BY <1>6 DEF SetHeader, f
  <2> HIDE DEF set
  <2>2. PICK t : t = Throws(set, "headersSent")
    OBVIOUS
  <2>3. Shape(t) /\ Alike(set, t) /\ t.threw = "headersSent" /\ t.own = set.own
    BY <1>2, <2>2, ThrowsIs
  <2>4. Shape(t) /\ Alike(r, t) /\ ~Quiet(t) /\ DOMAIN t.own \subseteq DOMAIN r.own \union {n}
    BY <1>1, <1>2, <2>3 DEF Quiet, Alike
  <2> QED
    BY <1>6, <2>1, <2>2, <2>4
<1>7. CASE Quiet(r) /\ ~r.head /\ r.wrapped /\ ~r.wire.sent
  <2>1. SetHeader(r, n, v) = [set EXCEPT !.wire.headers = g]
    <3>1. SetHeader(r, n, v) = [set EXCEPT !.wire.headers = Over(Header(n, v), @)]
      BY <1>7 DEF SetHeader, f
    <3>2. set.wire = r.wire
      BY DEF Shape
    <3> QED
      BY <3>1, <3>2 DEF g
  <2> HIDE DEF set
  <2>2. LET s == [set EXCEPT !.wire.headers = g]
        IN  Shape(s) /\ Alike(set, s) /\ s.threw = set.threw /\ s.own = set.own
    BY <1>2 DEF Shape, Alike
  <2> QED
    BY <1>1, <1>2, <1>7, <2>1, <2>2 DEF Quiet, Alike
<1> QED
  BY <1>3, <1>4, <1>5, <1>6, <1>7 DEF Shape

\* A header that a guard adds, to a response that is fresh.
LEMMA AppendHeaderIs ==
    ASSUME NEW r, Shape(r), Fresh(r), NEW n, NEW v
    PROVE  Shape(AppendHeader(r, n, v)) /\ Fresh(AppendHeader(r, n, v))
           /\ AppendHeader(r, n, v).wrapped = r.wrapped
<1> DEFINE f == Over(Header(n, v), r.own)
<1>1. AppendHeader(r, n, v) = [r EXCEPT !.own = f]
  BY DEF AppendHeader, Fresh
<1> HIDE DEF f
<1> QED
  BY <1>1 DEF Shape, Fresh, Quiet

\* The hook of SessionCookie adds a header to a response that has no head.
LEMMA WithCookieIs ==
    ASSUME NEW r, Shape(r), Quiet(r), ~r.head, r.wrapped => ~r.wire.sent
    PROVE  Shape(WithCookie(r)) /\ Alike(r, WithCookie(r)) /\ Quiet(WithCookie(r))
<1>1. CASE WithCookie(r) = r
  BY <1>1 DEF Alike
<1>2. CASE WithCookie(r) = SetHeader(r, "set-cookie", r.cookie)
  BY <1>2, SetHeaderIs
<1> QED
  BY <1>1, <1>2 DEF WithCookie

\* The head of a response is made; only the wrapper does not send it.
LEMMA WriteHeadIs ==
    ASSUME NEW r, Shape(r), Quiet(r), ~r.head, ~r.wire.sent, NEW n \in Nat, NEW given
    PROVE  LET s == WriteHead(r, n, given)
           IN  /\ Shape(s) /\ Quiet(s) /\ s.head /\ s.status = n /\ s.wrapped = r.wrapped
               /\ s.wire.ended = r.wire.ended
               /\ IF r.wrapped THEN ~s.wire.sent
                  ELSE s.wire.sent /\ s.wire.status = n
<1>1. PICK h : h = WithCookie(r)
  OBVIOUS
<1>2. Shape(h) /\ Alike(r, h) /\ Quiet(h)
  BY <1>1, WithCookieIs
<1>3. PICK hs : hs = Over(given, h.own)
  OBVIOUS
<1>4. PICK made : made = [h EXCEPT !.status = n, !.head = TRUE]
  OBVIOUS
<1>5. /\ Shape(made) /\ Quiet(made) /\ made.head /\ made.status = n
      /\ made.wrapped = r.wrapped /\ made.wire = h.wire
  BY <1>2, <1>4 DEF Shape, Alike, Quiet
<1>6. ~made.wire.sent /\ made.wire.ended = r.wire.ended
  BY <1>2, <1>5 DEF Alike
<1>7. CASE ~r.wrapped
  <2>1. PICK t : t = [made EXCEPT !.own = hs]
    OBVIOUS
  <2>2. WriteHead(r, n, given) = Flushed(t, n, hs)
    BY <1>1, <1>3, <1>4, <1>7, <2>1 DEF WriteHead
  <2>3. /\ Shape(t) /\ Quiet(t) /\ t.head /\ t.status = n /\ t.wrapped = r.wrapped
        /\ t.wire = made.wire
    BY <1>5, <2>1 DEF Shape, Quiet
  <2>4. LET s == Flushed(t, n, hs)
        IN  /\ Shape(s) /\ Quiet(s) /\ s.head /\ s.status = n /\ s.wrapped = t.wrapped
            /\ s.wire.sent /\ s.wire.status = n /\ s.wire.ended = t.wire.ended
    BY <2>3 DEF Shape, Quiet, Flushed
  <2> QED
    BY <1>6, <1>7, <2>2, <2>3, <2>4
<1>8. CASE r.wrapped /\ h.own = NoHeaders
  <2>1. WriteHead(r, n, given) = made
    BY <1>1, <1>4, <1>8 DEF WriteHead
  <2> QED
    BY <1>5, <1>6, <1>8, <2>1
<1>9. CASE r.wrapped /\ h.own # NoHeaders
  <2>1. PICK hw : hw = Over(given, made.wire.headers)
    OBVIOUS
  <2>2. ~h.wire.sent
    BY <1>2 DEF Alike
  <2>3. WriteHead(r, n, given) = [made EXCEPT !.own = hs, !.wire.headers = hw]
    BY <1>1, <1>3, <1>4, <1>5, <1>9, <2>1, <2>2 DEF WriteHead
  <2>4. LET s == [made EXCEPT !.own = hs, !.wire.headers = hw]
        IN  /\ Shape(s) /\ Quiet(s) /\ s.head /\ s.status = n /\ s.wrapped = made.wrapped
            /\ s.wire.sent = made.wire.sent /\ s.wire.ended = made.wire.ended
    BY <1>5 DEF Shape, Quiet
  <2> QED
    BY <1>5, <1>6, <1>9, <2>3, <2>4
<1> QED
  BY <1>7, <1>8, <1>9

\* A response that is closed is ended.
LEMMA ClosedIs ==
    ASSUME NEW r, Shape(r), NEW length
    PROVE  LET s == Closed(r, length)
           IN  /\ Shape(s) /\ s.threw = r.threw /\ s.head = r.head /\ s.status = r.status
               /\ s.wrapped = r.wrapped /\ s.own = r.own /\ s.wire.sent = r.wire.sent
               /\ s.wire.status = r.wire.status /\ s.wire.ended
<1> PICK k : k = IF r.wire.length = "unknown" THEN length ELSE r.wire.length
  OBVIOUS
<1> PICK w : w = [r.wire EXCEPT !.ended = TRUE, !.length = k]
  OBVIOUS
<1>1. Closed(r, length) = [r EXCEPT !.wire = w]
  BY DEF Closed, Shape
<1>2. /\ DOMAIN w = DOMAIN r.wire /\ w.sent = r.wire.sent /\ w.status = r.wire.status
      /\ w.ended
  BY DEF Shape
<1>3. PICK s : s = [r EXCEPT !.wire = w]
  OBVIOUS
<1>4. /\ DOMAIN s = DOMAIN r /\ s.wire = w /\ s.threw = r.threw /\ s.head = r.head
      /\ s.status = r.status /\ s.wrapped = r.wrapped /\ s.own = r.own
  BY <1>3 DEF Shape
<1>5. w.ended \in BOOLEAN
  BY DEF Shape
<1> QED
  BY <1>1, <1>2, <1>3, <1>4, <1>5 DEF Shape

Answer(r, s) ==
    /\ Shape(s) /\ Quiet(s) /\ Consistent(s) /\ s.wire.sent /\ s.wire.ended
    /\ s.status = r.status /\ s.wrapped = r.wrapped
    /\ s.wire.status = IF r.wire.sent THEN r.wire.status ELSE r.status
    /\ (r.head => s.head) /\ (~s.head => s.own = r.own)

\* Whoever ends a response: the client has an answer that is complete, with the
\* status that was set unless one had been sent before.
LEMMA EndIs ==
    ASSUME NEW r, Shape(r), Weak(r), Quiet(r), NEW body
    PROVE  Answer(r, End(r, body))
<1>1. CASE r.wrapped /\ r.wire.sent
  <2>1. PICK e : e = [r EXCEPT !.wire.ended = TRUE]
    OBVIOUS
  <2>2. End(r, body) = e
    BY <1>1, <2>1 DEF End, EndWrapper
  <2>3. /\ Shape(e) /\ e.threw = r.threw /\ e.head = r.head /\ e.status = r.status
        /\ e.wrapped = r.wrapped /\ e.own = r.own /\ e.wire.sent = r.wire.sent
        /\ e.wire.status = r.wire.status /\ e.wire.ended
    BY <2>1 DEF Shape
  <2> QED
    BY <1>1, <2>2, <2>3 DEF Weak, Consistent, Quiet, Answer
<1>2. CASE r.wrapped /\ ~r.wire.sent
  <2>1. PICK hs : hs = Over(r.own, r.wire.headers)
    OBVIOUS
  <2>2. PICK f : f = Flushed(r, r.status, hs)
    OBVIOUS
  <2>3. PICK k : k = IF r.chunked THEN "chunked" ELSE body
    OBVIOUS
  <2>4. End(r, body) = Closed(f, k)
    BY <1>2, <2>1, <2>2, <2>3 DEF End, EndWrapper
  <2>5. /\ Shape(f) /\ f.threw = r.threw /\ f.head = r.head /\ f.status = r.status
        /\ f.wrapped = r.wrapped /\ f.own = r.own /\ f.wire.sent /\ f.wire.status = r.status
    BY <2>2 DEF Shape, Flushed
  <2>6. PICK e : e = Closed(f, k)
    OBVIOUS
  <2>7. /\ Shape(e) /\ e.threw = f.threw /\ e.head = f.head /\ e.status = f.status
        /\ e.wrapped = f.wrapped /\ e.own = f.own /\ e.wire.sent = f.wire.sent
        /\ e.wire.status = f.wire.status /\ e.wire.ended
    BY <2>5, <2>6, ClosedIs
  <2> QED
    BY <1>2, <2>4, <2>5, <2>6, <2>7 DEF Weak, Consistent, Quiet, Answer
<1>3. CASE ~r.wrapped /\ r.wire.ended
  <2>1. End(r, body) = r
    BY <1>3 DEF End, EndReal
  <2> QED
    BY <1>3, <2>1 DEF Weak, Consistent, Answer
<1>4. CASE ~r.wrapped /\ ~r.wire.ended /\ r.head
  <2>1. PICK e : e = Closed(r, "chunked")
    OBVIOUS
  <2>2. End(r, body) = e
    BY <1>4, <2>1 DEF End, EndReal
  <2>3. /\ Shape(e) /\ e.threw = r.threw /\ e.head = r.head /\ e.status = r.status
        /\ e.wrapped = r.wrapped /\ e.own = r.own /\ e.wire.sent = r.wire.sent
        /\ e.wire.status = r.wire.status /\ e.wire.ended
    BY <2>1, ClosedIs
  <2> QED
    BY <1>4, <2>2, <2>3 DEF Weak, Consistent, Quiet, Answer
<1>5. CASE ~r.wrapped /\ ~r.wire.ended /\ ~r.head
  <2>1. PICK f : f = WriteHead(r, r.status, NoHeaders)
    OBVIOUS
  <2>2. PICK e : e = Closed(f, body)
    OBVIOUS
  <2>3. End(r, body) = e
    BY <1>5, <2>1, <2>2 DEF End, EndReal
  <2>4. r.status \in Nat /\ ~r.wire.sent
    BY <1>5 DEF Shape, Weak
  <2>5. /\ Shape(f) /\ Quiet(f) /\ f.head /\ f.status = r.status /\ f.wrapped = r.wrapped
        /\ f.wire.sent /\ f.wire.status = r.status
    BY <1>5, <2>1, <2>4, WriteHeadIs
  <2>6. /\ Shape(e) /\ e.threw = f.threw /\ e.head = f.head /\ e.status = f.status
        /\ e.wrapped = f.wrapped /\ e.own = f.own /\ e.wire.sent = f.wire.sent
        /\ e.wire.status = f.wire.status /\ e.wire.ended
    BY <2>2, <2>5, ClosedIs
  <2> QED
    BY <1>5, <2>3, <2>4, <2>5, <2>6 DEF Weak, Consistent, Quiet, Answer
<1> QED
  BY <1>1, <1>2, <1>3, <1>4, <1>5

\* A fresh response is answered: by its end, or with a status that is set.
LEMMA FreshAnswers ==
    ASSUME NEW r, Shape(r), Fresh(r), NEW body
    PROVE  /\ Answer(r, End(r, body))
           /\ \A n \in Nat : LET s == SetStatus(r, n) IN
                 /\ Shape(s) /\ Fresh(s) /\ s.status = n /\ s.own = r.own
                 /\ Answer(s, End(s, body))
<1>1. Weak(r) /\ Quiet(r)
  BY DEF Fresh, Weak
<1>2. Answer(r, End(r, body))
  BY <1>1, EndIs
<1>3. ASSUME NEW n \in Nat, NEW s, s = SetStatus(r, n)
      PROVE  Shape(s) /\ Fresh(s) /\ s.status = n /\ s.own = r.own /\ Answer(s, End(s, body))
  <2>1. /\ Shape(s) /\ Quiet(s) /\ s.status = n /\ s.own = r.own
        /\ s.wrapped = r.wrapped /\ s.head = r.head /\ s.wire = r.wire
    BY <1>1, <1>3, SetStatusIs
  <2>2. Weak(s) /\ Fresh(s)
    BY <2>1 DEF Fresh, Weak
  <2> QED
    BY <2>1, <2>2, EndIs
<1> QED
  BY <1>2, <1>3

\* A header is set on a fresh response.
LEMMA FreshHeader ==
    ASSUME NEW r, Shape(r), Fresh(r), NEW n, NEW v
    PROVE  LET s == SetHeader(r, n, v)
           IN  /\ Shape(s) /\ Fresh(s) /\ s.status = r.status /\ s.wire.status = r.wire.status
               /\ s.wrapped = r.wrapped /\ DOMAIN s.own \subseteq DOMAIN r.own \union {n}
BY SetHeaderIs DEF Fresh, Alike

\* A fresh response that is given a head and is ended: the head stays, with its status.
LEMMA HeadedAnswers ==
    ASSUME NEW r, Shape(r), Fresh(r), NEW n \in Nat, NEW given, NEW body
    PROVE  LET s == End(WriteHead(r, n, given), body)
           IN  /\ Shape(s) /\ Quiet(s) /\ Consistent(s) /\ s.wire.sent /\ s.wire.ended /\ s.head
               /\ s.status = n /\ s.wire.status = n
<1> PICK h : h = WriteHead(r, n, given)
  OBVIOUS
<1>1. /\ Shape(h) /\ Quiet(h) /\ h.head /\ h.status = n /\ h.wrapped = r.wrapped
      /\ h.wire.ended = r.wire.ended
      /\ IF r.wrapped THEN ~h.wire.sent ELSE h.wire.sent /\ h.wire.status = n
  BY WriteHeadIs DEF Fresh
<1>2. Weak(h)
  BY <1>1 DEF Weak, Fresh
<1>3. Answer(h, End(h, body))
  BY <1>1, <1>2, EndIs
<1> QED
  BY <1>1, <1>3 DEF Answer

\* What has been written to a fresh response that the controller leaves open.
LEMMA WriteIs ==
    ASSUME NEW r, Shape(r), Fresh(r)
    PROVE  LET s == Write(r)
           IN  /\ Shape(s) /\ Quiet(s) /\ Consistent(s) /\ s.status = r.status
               /\ s.wire.sent => s.wire.status = r.status
               /\ ~s.wire.sent => s.wire.status = r.wire.status
<1>1. CASE r.wrapped
  <2>1. Write(r) = [r EXCEPT !.chunked = TRUE]
    BY <1>1 DEF Write, Fresh
  <2> QED
    BY <1>1, <2>1 DEF Shape, Fresh, Quiet, Consistent, Weak
<1>2. CASE ~r.wrapped
  <2>1. PICK h : h = WriteHead(r, r.status, NoHeaders)
    OBVIOUS
  <2>2. /\ Shape(h) /\ Quiet(h) /\ h.head /\ h.status = r.status /\ h.wrapped = r.wrapped
        /\ h.wire.ended = r.wire.ended /\ h.wire.sent /\ h.wire.status = r.status
    <3>1. r.status \in Nat
      BY DEF Shape
    <3> QED
      BY <1>2, <2>1, <3>1, WriteHeadIs DEF Fresh
  <2>3. Write(r) = [h EXCEPT !.wire.length = "chunked"]
    BY <1>2, <2>1 DEF Write, Fresh
  <2>4. LET s == [h EXCEPT !.wire.length = "chunked"]
        IN  /\ Shape(s) /\ s.threw = h.threw /\ s.head = h.head /\ s.status = h.status
            /\ s.wrapped = h.wrapped /\ s.wire.sent = h.wire.sent
            /\ s.wire.ended = h.wire.ended /\ s.wire.status = h.wire.status
    BY <2>2 DEF Shape
  <2> QED
    BY <1>2, <2>2, <2>3, <2>4 DEF Quiet, Consistent, Weak
<1> QED
  BY <1>1, <1>2

-----------------------------------------------------------------------------
(* The chain of a request.                                                  *)

RequestTypes ==
    /\ at \in Nat /\ allowed \in Nat /\ reads \in Nat /\ logged \in Nat
    /\ passed.called \in BOOLEAN
    /\ Shape(res)

\* How often the body was read on the way to where the request is.
Reading ==
    /\ HasNone("body", handler.chain) => reads = 0
    /\ \A b \in DOMAIN handler.chain :
          (\A n \in DOMAIN handler.chain : handler.chain[n] = "body" <=> n = b) =>
              reads = IF at > b THEN 1 ELSE 0

\* On the way down: guards are asked one after another, the controller is not
\* called.
Passing ==
    /\ handler.guards = 0 \/ at = 1 => allowed = 0
    /\ handler.guards > 0 /\ at = 2 => allowed < handler.guards
    /\ at > First(handler) => allowed = handler.guards
    /\ ~passed.called
    /\ Reading

InChain ==
    /\ at > 0 => HandlerFits(path, handler) /\ at \in DOMAIN handler.chain
    /\ pc \in {"down", "up"} => at > 0
    /\ pc = "down" => Passing
    /\ at = 0 => reads = 0 /\ ~passed.called
    /\ reads > 0 \/ passed.called => allowed = handler.guards
    /\ passed.called => /\ HasNone("body", handler.chain) => reads = 0
                        /\ Once("body", handler.chain) => reads = 1

\* Where the parts of a chain are.
LEMMA PlacesAre ==
    ASSUME NEW h, ChainFits(h), NEW n \in DOMAIN h.chain
    PROVE  /\ n \in 1..Len(h.chain) /\ Len(h.chain) \in Nat /\ First(h) \in {1, 2}
           /\ h.guards \in Nat
           /\ h.chain[n] = "frontend" => n = 1
           /\ h.chain[n] = "guards" <=> h.guards > 0 /\ n = 2
           /\ h.chain[n] = "backend" <=> n = Len(h.chain)
           /\ h.chain[n] \in Name => n > First(h)
           /\ h.chain[n] # "backend" => n + 1 \in DOMAIN h.chain
<1>1. /\ n \in 1..Len(h.chain) /\ Len(h.chain) \in Nat /\ First(h) \in {1, 2}
      /\ DOMAIN h.chain = 1..Len(h.chain) /\ Len(h.chain) > First(h)
  BY DEF ChainFits, First
<1>2. "frontend" \notin Name /\ "guards" \notin Name /\ "backend" \notin Name
  BY DEF Name
<1>3. CASE n > First(h) /\ n < Len(h.chain)
  <2>1. h.chain[n] \in Name /\ n # 1 /\ n # Len(h.chain)
    BY <1>1, <1>3 DEF ChainFits
  <2>2. ~(h.guards > 0 /\ n = 2)
    BY <1>1, <1>3 DEF First
  <2>3. n + 1 \in DOMAIN h.chain
    BY <1>1, <1>3
  <2> QED
    BY <1>1, <1>2, <1>3, <2>1, <2>2, <2>3 DEF ChainFits
<1>4. CASE n = Len(h.chain)
  <2>1. h.chain[n] = "backend" /\ n > First(h)
    BY <1>1, <1>4 DEF ChainFits
  <2>2. ~(h.guards > 0 /\ n = 2)
    BY <1>1, <2>1 DEF First
  <2> QED
    BY <1>1, <1>2, <1>4, <2>1, <2>2 DEF ChainFits
<1>5. CASE n <= First(h)
  <2>1. n < Len(h.chain) /\ n + 1 \in DOMAIN h.chain
    BY <1>1, <1>5
  <2>2. CASE n = 1
    BY <1>1, <1>2, <2>1, <2>2 DEF ChainFits
  <2>3. CASE n # 1
    <3>1. n = 2 /\ h.guards > 0 /\ h.chain[n] = "guards"
      BY <1>1, <1>5, <2>3 DEF First, ChainFits
    <3> QED
      BY <1>1, <1>2, <2>1, <3>1 DEF ChainFits
  <2> QED
    BY <2>2, <2>3
<1> QED
  BY <1>1, <1>3, <1>4, <1>5

\* A request that stays where it is.
LEMMA Halts ==
    ASSUME InChain, UNCHANGED <<app, path, handler, at, allowed, reads, passed>>,
           pc' # "down", pc' = "up" => pc = "down"
    PROVE  InChain'
<1>1. HandlerFits(path, handler)' <=> HandlerFits(path, handler)
  BY FitsAsBefore
<1> QED
  BY <1>1 DEF InChain

\* A request that goes on to the next part of the chain.
LEMMA Goes ==
    ASSUME RequestTypes, InChain, pc = "down", pc' = "down",
           UNCHANGED <<app, path, handler, passed>>,
           at' = at + 1, handler.chain[at] # "backend",
           allowed' = IF handler.chain[at] = "guards" THEN handler.guards ELSE allowed,
           reads' = IF handler.chain[at] = "body" THEN reads + 1 ELSE reads
    PROVE  InChain'
<1>1. /\ HandlerFits(path, handler) /\ ChainFits(handler) /\ at \in DOMAIN handler.chain
      /\ Passing
  BY DEF InChain, HandlerFits
<1>2. HandlerFits(path, handler)'
  BY <1>1, FitsAsBefore
<1>3. /\ at \in 1..Len(handler.chain) /\ Len(handler.chain) \in Nat /\ First(handler) \in {1, 2}
      /\ handler.guards \in Nat /\ at + 1 \in DOMAIN handler.chain
      /\ handler.chain[at] = "guards" <=> handler.guards > 0 /\ at = 2
      /\ handler.chain[at] \in Name => at > First(handler)
  BY <1>1, PlacesAre
<1>4. First(handler) = IF handler.guards > 0 THEN 2 ELSE 1
  BY DEF First
<1>5. /\ handler.guards = 0 \/ at = 1 => allowed = 0
      /\ handler.guards > 0 /\ at = 2 => allowed < handler.guards
      /\ at > First(handler) => allowed = handler.guards
      /\ ~passed.called /\ Reading
  BY <1>1 DEF Passing
<1>6. /\ handler.guards = 0 \/ at' = 1 => allowed' = 0
      /\ handler.guards > 0 /\ at' = 2 => allowed' < handler.guards
      /\ at' > First(handler) => allowed' = handler.guards
  BY <1>3, <1>4, <1>5
<1>7. Reading'
  <2>1. HasNone("body", handler.chain) => reads' = 0
    BY <1>1, <1>5 DEF Reading, HasNone
  <2>2. ASSUME NEW b \in DOMAIN handler.chain,
               \A n \in DOMAIN handler.chain : handler.chain[n] = "body" <=> n = b
        PROVE  reads' = IF at' > b THEN 1 ELSE 0
    <3>1. reads = IF at > b THEN 1 ELSE 0
      BY <1>5, <2>2 DEF Reading
    <3>2. handler.chain[at] = "body" <=> at = b
      BY <1>1, <2>2
    <3>3. b \in Nat
      BY <1>1 DEF ChainFits
    <3> QED
      BY <1>3, <3>1, <3>2, <3>3
  <2> QED
    BY <2>1, <2>2 DEF Reading
<1>8. reads' > 0 => allowed' = handler.guards
  <2>1. CASE handler.chain[at] = "body"
    BY <1>3, <1>5, <2>1 DEF Name
  <2>2. CASE handler.chain[at] # "body"
    BY <2>2 DEF InChain
  <2> QED
    BY <2>1, <2>2
<1>9. Passing'
  <2>1. First(handler)' = First(handler)
    BY DEF First
  <2> QED
    BY <1>5, <1>6, <1>7, <2>1 DEF Passing
<1>10. at' > 0 /\ at' \in DOMAIN handler.chain
  BY <1>3
<1> QED
  BY <1>2, <1>5, <1>8, <1>9, <1>10 DEF InChain

\* What the response is at each point of a request.
Clean == ~ByHand /\ ~ThrowsAfterPreflight

\* The front end will throw: the type is set, but nothing is to be sent.
Typed == passed.called /\ script.handler = "setsType"

GoingUp ==
    /\ Quiet(res) /\ (res.wire.sent => res.wire.ended)
    /\ ~res.wire.sent /\ ~Typed => "content-type" \notin DOMAIN res.own
    /\ passed.called /\ ~ByHand => ~res.wire.sent
    /\ ~passed.called /\ res.wire.sent =>
          /\ handler.chain[at] = "guards" \/ method = "OPTIONS"
          /\ res.head \/ (value = "nothing" /\ "content-type" \notin DOMAIN res.own)

Failed ==
    /\ res.head /\ ~Broken => res.wire.ended
    /\ Clean => ~res.wire.sent /\ (res.threw = "error" <=> ~(Typed /\ ~ThrowsAfter))

Respond ==
    /\ Consistent(res)
    /\ pc \in {"find", "down", "up", "error"} => logged = 0
    /\ logged = 0 => res.status < 500 /\ res.wire.status < 500
    /\ pc \in {"find", "down"} =>
          Fresh(res) /\ DOMAIN res.own \subseteq {"access"} /\ value = "nothing"
    /\ pc = "up" => GoingUp
    /\ pc = "error" => Failed
    /\ pc = "last" => (Clean => ~res.wire.sent /\ FailureStatus = 500)
    /\ RequestsAreAnswered

RequestInv == RequestTypes /\ InChain /\ Respond

\* A request has a script; one whose chain could not be built never enters it.
Scripted ==
    /\ pc # "idle" => script \in Scripts
    /\ pc \in {"down", "up", "error"} => ~Unbuildable(handler)

\* A request that is done.
LEMMA Done ==
    ASSUME pc' = "done", Consistent(res)', logged' \in Nat, Shape(res)',
           ~Broken' => res'.wire.sent /\ res'.wire.ended,
           IF logged' = 0 THEN res'.status < 500 /\ res'.wire.status < 500
           ELSE Clean' => res'.wire.status = FailureStatus'
    PROVE  Respond'
<1>1. RequestsAreAnswered'
  <2>1. logged' > 0 <=> logged' # 0
    OBVIOUS
  <2> QED
    BY <2>1 DEF RequestsAreAnswered, Clean
<1> QED
  BY <1>1 DEF Respond

\* A request that goes on down the chain.
LEMMA Down ==
    ASSUME pc' = "down", Shape(res)', Fresh(res)', DOMAIN res'.own \subseteq {"access"},
           value' = "nothing", logged' = 0, res'.status < 500, res'.wire.status < 500
    PROVE  Respond'
<1>1. Consistent(res)'
  BY DEF Fresh, Consistent, Weak
<1> QED
  BY <1>1 DEF Respond, RequestsAreAnswered

\* A request on the way down has a response that nobody has written to.
LEMMA DownIs ==
    ASSUME RequestInv, pc = "down"
    PROVE  /\ Shape(res) /\ Fresh(res) /\ Quiet(res) /\ DOMAIN res.own \subseteq {"access"}
           /\ value = "nothing" /\ logged = 0 /\ res.status < 500 /\ res.wire.status < 500
           /\ ~passed.called /\ at > 0 /\ Passing
           /\ ChainFits(handler) /\ HandlerFits(path, handler) /\ at \in DOMAIN handler.chain
BY DEF RequestInv, RequestTypes, InChain, Respond, Passing, Fresh, HandlerFits

\* An exception on the way down goes to the error handler.
LEMMA ThrowsKeeps ==
    ASSUME RequestInv, pc = "down", pc' = "error", res' = Throws(res, "error"),
           UNCHANGED <<routesVars, method, path, script, handler, at, allowed, passed, logged>>,
           reads' = reads \/ (reads' = reads + 1 /\ handler.chain[at] = "body")
    PROVE  RequestInv'
<1>1. /\ Shape(res) /\ Fresh(res) /\ logged = 0 /\ res.status < 500 /\ res.wire.status < 500
      /\ ~passed.called /\ at > 0 /\ Passing /\ HandlerFits(path, handler)
      /\ ChainFits(handler) /\ at \in DOMAIN handler.chain
  BY DownIs
<1>2. Shape(res') /\ Alike(res, res') /\ res'.threw = "error"
  BY <1>1, ThrowsIs
<1>3. RequestTypes'
  BY <1>2 DEF RequestInv, RequestTypes
<1>4. Respond'
  <2>1. Consistent(res') /\ ~res'.wire.sent /\ ~res'.head
    BY <1>1, <1>2 DEF Fresh, Alike, Consistent, Weak
  <2>2. Failed'
    BY <1>1, <1>2, <2>1 DEF Failed, Typed
  <2>3. res'.status < 500 /\ res'.wire.status < 500
    BY <1>1, <1>2 DEF Alike
  <2> QED
    BY <1>1, <2>1, <2>2, <2>3 DEF Respond, RequestsAreAnswered
<1>5. InChain'
  <2>1. CASE reads' = reads
    BY <2>1, Halts DEF RequestInv, routesVars
  <2>2. CASE reads' = reads + 1 /\ handler.chain[at] = "body"
    <3>1. HandlerFits(path, handler)' <=> HandlerFits(path, handler)
      BY FitsAsBefore DEF routesVars
    <3>2. allowed = handler.guards
      <4>1. at > First(handler)
        BY <1>1, <2>2, PlacesAre DEF Name
      <4> QED
        BY <1>1, <4>1 DEF Passing
    <3> QED
      BY <1>1, <3>1, <3>2 DEF InChain, RequestInv
  <2> QED
    BY <2>1, <2>2
<1> QED
  BY <1>3, <1>4, <1>5 DEF RequestInv

\* A request that goes on to the next part of the chain keeps the invariant.
LEMMA GoesDown ==
    ASSUME RequestInv, pc = "down", pc' = "down",
           UNCHANGED <<routesVars, method, path, script, handler, value, passed, logged>>,
           at' = at + 1, handler.chain[at] # "backend",
           allowed' = IF handler.chain[at] = "guards" THEN handler.guards ELSE allowed,
           reads' = IF handler.chain[at] = "body" THEN reads + 1 ELSE reads,
           Shape(res'), Fresh(res'), DOMAIN res'.own \subseteq {"access"},
           res'.status = res.status, res'.wire.status = res.wire.status
    PROVE  RequestInv'
<1>1. /\ value = "nothing" /\ logged = 0 /\ res.status < 500 /\ res.wire.status < 500
      /\ handler.guards \in Nat
  BY DownIs DEF ChainFits
<1>2. Respond'
  BY <1>1, Down
<1>3. RequestTypes'
  BY <1>1 DEF RequestInv, RequestTypes
<1>4. InChain'
  BY Goes DEF RequestInv, routesVars
<1> QED
  BY <1>2, <1>3, <1>4 DEF RequestInv

\* The part of the chain at work.
LEMMA AtIs ==
    ASSUME RequestInv, NEW i, At(i)
    PROVE  /\ pc = "down" /\ handler.chain[at] = i /\ UNCHANGED routesVars
           /\ Shape(res) /\ Fresh(res) /\ Quiet(res) /\ DOMAIN res.own \subseteq {"access"}
           /\ value = "nothing" /\ logged = 0 /\ res.status < 500 /\ res.wire.status < 500
           /\ ~passed.called /\ ChainFits(handler) /\ at \in DOMAIN handler.chain
           /\ at > 0 /\ Passing
BY DownIs DEF At, Serving

\* HttpFrontend lets the request pass.
LEMMA BeforeKeeps == ASSUME RequestInv, Before PROVE RequestInv'
<1>1. At("frontend")
  BY DEF Before
<1>2. /\ pc = "down" /\ handler.chain[at] = "frontend" /\ UNCHANGED routesVars
      /\ Shape(res) /\ Fresh(res) /\ DOMAIN res.own \subseteq {"access"}
  BY <1>1, AtIs
<1>3. /\ pc' = "down" /\ at' = at + 1
      /\ UNCHANGED <<method, path, script, handler, allowed, value, res, reads, passed, logged>>
  BY DEF Before, Forward
<1> QED
  BY <1>2, <1>3, GoesDown

\* SessionCookie hooks into the response.
LEMMA SessionKeeps == ASSUME RequestInv, Session PROVE RequestInv'
<1>1. At("session")
  BY DEF Session
<1>2. /\ pc = "down" /\ handler.chain[at] = "session" /\ UNCHANGED routesVars
      /\ Shape(res) /\ Fresh(res) /\ DOMAIN res.own \subseteq {"access"}
  BY <1>1, AtIs
<1>3. PICK r : r = [res EXCEPT !.hooked = TRUE]
  OBVIOUS
<1>4. /\ Shape(r) /\ Fresh(r) /\ r.own = res.own /\ r.status = res.status
      /\ r.wire.status = res.wire.status
  BY <1>2, <1>3 DEF Shape, Fresh, Quiet
<1>5. /\ pc' = "down" /\ at' = at + 1 /\ res' = r
      /\ UNCHANGED <<method, path, script, handler, allowed, value, reads, passed, logged>>
  BY <1>3, <1>4 DEF Session, Then, Fresh
<1> QED
  BY <1>2, <1>4, <1>5, GoesDown

\* A body is parsed, or the parser throws.
LEMMA ParseBodyKeeps == ASSUME RequestInv, ParseBody PROVE RequestInv'
<1>1. At("body")
  BY DEF ParseBody
<1>2. /\ pc = "down" /\ handler.chain[at] = "body" /\ UNCHANGED routesVars
      /\ Shape(res) /\ Fresh(res) /\ DOMAIN res.own \subseteq {"access"}
  BY <1>1, AtIs
<1>3. /\ reads' = reads + 1
      /\ UNCHANGED <<method, path, script, handler, allowed, value, passed, logged>>
  BY DEF ParseBody
<1>4. CASE script.parse = "ok"
  <2>1. pc' = "down" /\ at' = at + 1 /\ res' = res
    BY <1>4 DEF ParseBody, Forward
  <2> QED
    BY <1>2, <1>3, <2>1, GoesDown
<1>5. CASE script.parse # "ok"
  <2>1. pc' = "error" /\ res' = Throws(res, "error") /\ at' = at
    BY <1>5 DEF ParseBody, Then
  <2> QED
    BY <1>2, <1>3, <2>1, ThrowsKeeps
<1> QED
  BY <1>4, <1>5

\* A guard lets the request pass; the last one lets it go on.
LEMMA GuardPassesKeeps == ASSUME RequestInv, GuardPasses PROVE RequestInv'
<1>1. At("guards")
  BY DEF GuardPasses
<1>2. /\ pc = "down" /\ handler.chain[at] = "guards" /\ UNCHANGED routesVars
      /\ Shape(res) /\ Fresh(res) /\ DOMAIN res.own \subseteq {"access"}
      /\ value = "nothing" /\ logged = 0 /\ res.status < 500 /\ res.wire.status < 500
      /\ ChainFits(handler) /\ at \in DOMAIN handler.chain /\ Passing
  BY <1>1, AtIs
<1>3. /\ allowed' = allowed + 1
      /\ UNCHANGED <<method, path, script, handler, value, res, reads, passed, logged>>
  BY DEF GuardPasses
<1>4. handler.guards \in Nat /\ handler.guards > 0 /\ at = 2
  BY <1>2, PlacesAre
<1>5. CASE allowed' = handler.guards
  <2>1. pc' = "down" /\ at' = at + 1
    BY <1>5 DEF GuardPasses, Forward
  <2> QED
    BY <1>2, <1>3, <1>5, <2>1, GoesDown
<1>6. CASE allowed' # handler.guards
  <2>1. pc' = "down" /\ at' = at
    BY <1>2, <1>6 DEF GuardPasses
  <2>2. Respond'
    BY <1>2, <1>3, <2>1, Down
  <2>3. RequestTypes'
    BY <1>3, <2>1 DEF RequestInv, RequestTypes
  <2>4. Passing' /\ reads = 0
    <3>1. First(handler) = 2 /\ First(handler)' = 2 /\ allowed \in Nat
      BY <1>3, <1>4 DEF First, RequestInv, RequestTypes
    <3>2. Reading'
      BY <1>2, <1>3, <2>1 DEF Passing, Reading
    <3>3. allowed < handler.guards /\ allowed' < handler.guards
      BY <1>2, <1>3, <1>4, <1>6, <3>1 DEF Passing
    <3>4. reads = 0
      <4>1. reads > 0 => allowed = handler.guards
        BY DEF RequestInv, InChain
      <4> QED
        BY <3>1, <3>3, <4>1 DEF RequestInv, RequestTypes
    <3> QED
      BY <1>2, <1>3, <1>4, <2>1, <3>1, <3>2, <3>3, <3>4 DEF Passing
  <2>5. InChain'
    <3>1. HandlerFits(path, handler)' <=> HandlerFits(path, handler)
      BY <1>2, <1>3, FitsAsBefore DEF routesVars
    <3>2. ~passed'.called /\ reads' = 0
      BY <1>2, <1>3, <2>4 DEF Passing
    <3> QED
      BY <1>3, <1>4, <2>1, <2>4, <3>1, <3>2 DEF RequestInv, InChain
  <2> QED
    BY <2>2, <2>3, <2>5 DEF RequestInv
<1> QED
  BY <1>5, <1>6

\* A request that turns back before the controller is called.
LEMMA TurnsBack ==
    ASSUME RequestInv, pc = "down", pc' = "up",
           UNCHANGED <<routesVars, method, path, script, handler, at, allowed, reads, passed,
                       logged>>,
           Shape(res'), Quiet(res'), Consistent(res'), res'.wire.sent => res'.wire.ended,
           res'.status < 500, res'.wire.status < 500,
           res'.wire.ended \/ "content-type" \notin DOMAIN res'.own,
           res'.wire.sent =>
              /\ handler.chain[at] = "guards" \/ method = "OPTIONS"
              /\ res'.head \/ (value' = "nothing" /\ "content-type" \notin DOMAIN res'.own)
    PROVE  RequestInv'
<1>1. ~passed.called /\ logged = 0
  BY DownIs
<1>2. GoingUp'
  <2>1. res'.wire.ended => res'.wire.sent
    BY DEF Consistent, Weak
  <2> QED
    BY <1>1, <2>1 DEF GoingUp
<1>3. Respond'
  BY <1>1, <1>2 DEF Respond, RequestsAreAnswered
<1>4. InChain'
  BY Halts DEF RequestInv, routesVars
<1> QED
  BY <1>3, <1>4 DEF RequestInv, RequestTypes

\* A guard refuses: with 401 and without a body, or with its own Response.
LEMMA GuardRefusesKeeps == ASSUME RequestInv, GuardRefuses PROVE RequestInv'
<1>1. At("guards")
  BY DEF GuardRefuses
<1>2. /\ pc = "down" /\ handler.chain[at] = "guards" /\ UNCHANGED routesVars
      /\ Shape(res) /\ Fresh(res) /\ DOMAIN res.own \subseteq {"access"}
  BY <1>1, AtIs
<1>3. UNCHANGED <<method, path, script, handler, at, allowed, reads, passed, logged>>
  BY DEF GuardRefuses
<1>4. CASE GuardSays = "false"
  <2>1. PICK s : s = SetStatus(res, 401)
    OBVIOUS
  <2>2. PICK r : r = End(s, "empty")
    OBVIOUS
  <2>3. Shape(s) /\ Fresh(s) /\ s.status = 401 /\ s.own = res.own /\ Answer(s, r)
    BY <1>2, <2>1, <2>2, FreshAnswers
  <2>4. value' = "nothing" /\ res' = r /\ pc' = "up"
    BY <1>4, <2>1, <2>2, <2>3 DEF GuardRefuses, Then, Answer
  <2>5. /\ Shape(r) /\ Quiet(r) /\ Consistent(r) /\ r.wire.ended
        /\ r.status = 401 /\ r.wire.status = 401 /\ (~r.head => r.own = res.own)
    BY <2>3 DEF Answer, Fresh
  <2>6. r.head \/ "content-type" \notin DOMAIN r.own
    BY <1>2, <2>5
  <2> QED
    BY <1>2, <1>3, <2>4, <2>5, <2>6, TurnsBack
<1>5. CASE GuardSays # "false"
  <2>1. PICK s : s = AppendHeader(res, "x-from", "response")
    OBVIOUS
  <2>2. PICK r : r = ApplyResponse(res, 403)
    OBVIOUS
  <2>3. Shape(s) /\ Fresh(s)
    BY <1>2, <2>1, AppendHeaderIs
  <2>4. r = End(WriteHead(s, 403, Header("content-type", "text")), "text")
    BY <2>1, <2>2 DEF ApplyResponse
  <2>5. /\ Shape(r) /\ Quiet(r) /\ Consistent(r) /\ r.wire.ended /\ r.head
        /\ r.status = 403 /\ r.wire.status = 403
    BY <2>3, <2>4, HeadedAnswers
  <2>6. res' = r /\ pc' = "up"
    BY <1>5, <2>2, <2>5 DEF GuardRefuses, Then
  <2> QED
    BY <1>2, <1>3, <2>5, <2>6, TurnsBack
<1> QED
  BY <1>4, <1>5

\* A guard throws.
LEMMA GuardThrowsKeeps == ASSUME RequestInv, GuardThrows PROVE RequestInv'
<1>1. At("guards")
  BY DEF GuardThrows
<1>2. pc = "down" /\ UNCHANGED routesVars
  BY <1>1, AtIs
<1>3. /\ pc' = "error" /\ res' = Throws(res, "error")
      /\ UNCHANGED <<method, path, script, handler, at, allowed, reads, passed, logged>>
  BY DEF GuardThrows, Then
<1> QED
  BY <1>2, <1>3, ThrowsKeeps

\* cors() answers a preflight request, or adds its header.
LEMMA CorsKeeps == ASSUME RequestInv, Cors PROVE RequestInv'
<1>1. At("cors")
  BY DEF Cors
<1>2. /\ pc = "down" /\ handler.chain[at] = "cors" /\ UNCHANGED routesVars
      /\ Shape(res) /\ Fresh(res) /\ DOMAIN res.own \subseteq {"access"}
      /\ value = "nothing" /\ logged = 0 /\ res.status < 500 /\ res.wire.status < 500
  BY <1>1, AtIs
<1>3. UNCHANGED <<method, path, script, handler, allowed, value, reads, passed, logged>>
  BY DEF Cors
<1>4. CASE Then(SetHeader(res, "access", "all"), "down") /\ at' = at + 1
  <2>1. PICK r : r = SetHeader(res, "access", "all")
    OBVIOUS
  <2>2. /\ Shape(r) /\ Fresh(r) /\ r.status = res.status /\ r.wire.status = res.wire.status
        /\ DOMAIN r.own \subseteq {"access"}
    BY <1>2, <2>1, FreshHeader
  <2>3. res' = r /\ pc' = "down"
    BY <1>4, <2>1, <2>2 DEF Then, Fresh
  <2> QED
    BY <1>2, <1>3, <1>4, <2>2, <2>3, GoesDown
<1>5. CASE /\ method = "OPTIONS" /\ at' = at
           /\ Then(End(SetHeader(SetStatus(res, 204), "access", "all"), "empty"), "up")
  <2>1. PICK s : s = SetStatus(res, 204)
    OBVIOUS
  <2>2. PICK t : t = SetHeader(s, "access", "all")
    OBVIOUS
  <2>3. PICK r : r = End(t, "empty")
    OBVIOUS
  <2>4. Shape(s) /\ Fresh(s) /\ s.status = 204 /\ s.own = res.own
    BY <1>2, <2>1, FreshAnswers
  <2>5. Shape(t) /\ Fresh(t) /\ t.status = 204 /\ DOMAIN t.own \subseteq {"access"}
    BY <1>2, <2>2, <2>4, FreshHeader
  <2>6. Answer(t, r)
    BY <2>3, <2>5, FreshAnswers
  <2>7. /\ Shape(r) /\ Quiet(r) /\ Consistent(r) /\ r.wire.ended
        /\ r.status = 204 /\ r.wire.status = 204 /\ (~r.head => r.own = t.own)
    BY <2>5, <2>6 DEF Answer, Fresh
  <2>8. res' = r /\ pc' = "up"
    BY <1>5, <2>1, <2>2, <2>3, <2>7 DEF Then
  <2>9. (r.head \/ "content-type" \notin DOMAIN r.own) /\ value' = "nothing"
    BY <1>2, <1>3, <2>5, <2>7
  <2> QED
    BY <1>2, <1>3, <1>5, <2>7, <2>8, <2>9, TurnsBack
<1> QED
  BY <1>4, <1>5 DEF Cors

\* An interceptor of the route answers, throws, or calls the next one.
LEMMA OwnInterceptorKeeps == ASSUME RequestInv, OwnInterceptor PROVE RequestInv'
<1>1. At("own")
  BY DEF OwnInterceptor
<1>2. /\ pc = "down" /\ handler.chain[at] = "own" /\ UNCHANGED routesVars
      /\ Shape(res) /\ Fresh(res) /\ DOMAIN res.own \subseteq {"access"}
      /\ value = "nothing" /\ logged = 0 /\ res.status < 500 /\ res.wire.status < 500
  BY <1>1, AtIs
<1>3. UNCHANGED <<method, path, script, handler, allowed, reads, passed, logged>>
  BY DEF OwnInterceptor
<1>4. CASE script.own = "answers"
  <2>1. pc' = "up" /\ UNCHANGED <<res, at>>
    BY <1>4 DEF OwnInterceptor
  <2>2. Quiet(res) /\ Consistent(res) /\ ~res.wire.sent
    BY <1>2 DEF Fresh, Consistent, Weak
  <2> QED
    BY <1>2, <1>3, <2>1, <2>2, TurnsBack
<1>5. CASE script.own = "throws"
  <2>1. pc' = "error" /\ res' = Throws(res, "error") /\ at' = at
    BY <1>5 DEF OwnInterceptor, Then
  <2> QED
    BY <1>2, <1>3, <2>1, ThrowsKeeps
<1>6. CASE script.own \notin {"answers", "throws"}
  <2>1. pc' = "down" /\ at' = at + 1 /\ UNCHANGED <<res, value>>
    BY <1>6 DEF OwnInterceptor, Forward
  <2> QED
    BY <1>2, <1>3, <2>1, GoesDown
<1> QED
  BY <1>4, <1>5, <1>6

\* What the method of the controller makes of a fresh response.
LEMMA ResponseOfIs ==
    ASSUME Shape(res), Fresh(res), res.status < 500, res.wire.status < 500,
           DOMAIN res.own \subseteq {"access"}, NEW r, r = ResponseOf(res)
    PROVE  /\ Shape(r) /\ Consistent(r) /\ r.status < 500 /\ r.wire.status < 500
           /\ ~handler.answersOptions
                 /\ script.handler \notin {"sends", "sendsJson", "redirects", "streams", "breaks"}
              => ~r.wire.sent
           /\ \/ r.wire.sent => r.wire.ended
              \/ script.handler = "breaks" /\ ~handler.answersOptions /\ ~Quiet(r)
           /\ r.wire.ended \/ script.handler = "setsType"
                 \/ "content-type" \notin DOMAIN r.own \/ ~Quiet(r)
           /\ ~Quiet(r) => r.threw = "error" /\ script.handler # "setsType"
<1> DEFINE Fine == /\ Shape(r) /\ Consistent(r) /\ r.status < 500 /\ r.wire.status < 500
                   /\ Quiet(r)
<1>1. Consistent(res) /\ ~res.wire.sent /\ Quiet(res) /\ Weak(res)
  BY DEF Fresh, Consistent, Weak
<1>2. ASSUME NEW s, Shape(s), Fresh(s), s.status < 500, Answer(s, r)
      PROVE  Fine /\ r.wire.ended
  BY <1>2 DEF Answer, Fresh
<1>3. CASE handler.answersOptions
  <2>1. PICK s : s = SetStatus(res, 204)
    OBVIOUS
  <2>2. PICK t : t = SetHeader(s, "allow", AllowHeader)
    OBVIOUS
  <2>3. r = End(t, "empty")
    BY <1>3, <2>1, <2>2 DEF ResponseOf
  <2>4. Shape(s) /\ Fresh(s) /\ s.status = 204
    BY <2>1, FreshAnswers
  <2>5. Shape(t) /\ Fresh(t) /\ t.status = 204
    BY <2>2, <2>4, FreshHeader
  <2>6. Answer(t, r)
    BY <2>3, <2>5, FreshAnswers
  <2> QED
    BY <1>2, <1>3, <2>5, <2>6
<1>4. CASE ~handler.answersOptions /\ script.handler = "sends"
  <2>1. r = End(res, "text")
    BY <1>4 DEF ResponseOf, Send
  <2>2. Answer(res, r)
    BY <2>1, FreshAnswers
  <2> QED
    BY <1>2, <1>4, <2>2
<1>5. CASE ~handler.answersOptions /\ script.handler = "sendsJson"
  <2>1. PICK s : s = SetHeader(res, "content-type", "json")
    OBVIOUS
  <2>2. r = End(s, "json")
    BY <1>5, <2>1 DEF ResponseOf, SendJson, Send
  <2>3. Shape(s) /\ Fresh(s) /\ s.status = res.status
    BY <2>1, FreshHeader
  <2>4. Answer(s, r)
    BY <2>2, <2>3, FreshAnswers
  <2> QED
    BY <1>2, <1>5, <2>3, <2>4
<1>6. CASE ~handler.answersOptions /\ script.handler = "redirects"
  <2>1. r = End(WriteHead(res, 302, Header("location", "there")), "empty")
    BY <1>6 DEF ResponseOf, Redirect
  <2>2. /\ Shape(r) /\ Consistent(r) /\ r.wire.ended /\ r.status = 302 /\ r.wire.status = 302
        /\ Quiet(r)
    BY <2>1, HeadedAnswers
  <2> QED
    BY <1>6, <2>2
<1>7. CASE ~handler.answersOptions /\ script.handler = "setsType"
  <2>1. r = SetHeader(res, "content-type", "html")
    BY <1>7 DEF ResponseOf
  <2>2. Shape(r) /\ Fresh(r) /\ r.status = res.status /\ r.wire.status = res.wire.status
    BY <2>1, FreshHeader
  <2> QED
    BY <1>7, <2>2 DEF Fresh, Consistent, Weak
<1>8. CASE ~handler.answersOptions /\ script.handler \in {"streams", "breaks"}
  <2>1. PICK w : w = Write(res)
    OBVIOUS
  <2>2. /\ Shape(w) /\ Quiet(w) /\ Consistent(w) /\ w.status = res.status
        /\ w.wire.sent => w.wire.status = res.status
        /\ ~w.wire.sent => w.wire.status = res.wire.status
    BY <2>1, WriteIs
  <2>3. CASE script.handler = "streams"
    <3>1. r = End(w, "text")
      BY <1>8, <2>1, <2>3 DEF ResponseOf
    <3>2. Answer(w, r)
      BY <2>2, <3>1, EndIs DEF Consistent
    <3> QED
      BY <1>8, <2>2, <2>3, <3>2 DEF Answer
  <2>4. CASE script.handler = "breaks"
    <3>1. r = Throws(w, "error")
      BY <1>8, <2>1, <2>4 DEF ResponseOf
    <3>2. Shape(r) /\ Alike(w, r) /\ r.threw = "error"
      BY <2>2, <3>1, ThrowsIs
    <3>3. Consistent(r) /\ ~Quiet(r) /\ r.status = w.status /\ r.wire.status = w.wire.status
      BY <2>2, <3>2 DEF Consistent, Weak, Alike, Quiet
    <3> QED
      BY <1>8, <2>2, <2>4, <3>2, <3>3
  <2> QED
    BY <1>8, <2>3, <2>4
<1>9. CASE ~handler.answersOptions /\ script.handler = "throws"
  <2>1. r = Throws(res, "error")
    BY <1>9 DEF ResponseOf
  <2>2. Shape(r) /\ Alike(res, r) /\ r.threw = "error" /\ ~Quiet(r)
    BY <2>1, ThrowsIs DEF Quiet
  <2> QED
    BY <1>1, <1>9, <2>2 DEF Consistent, Weak, Alike
<1>10. CASE ~handler.answersOptions /\ script.handler = "opensSession"
  <2>1. r = [res EXCEPT !.hooked = TRUE, !.cookie = "id"]
    BY <1>10 DEF ResponseOf
  <2>2. Shape(r) /\ Alike(res, r) /\ r.own = res.own /\ r.threw = res.threw
    BY <2>1 DEF Shape, Alike
  <2>3. Quiet(r) /\ "content-type" \notin DOMAIN r.own
    BY <1>1, <2>2 DEF Quiet
  <2> QED
    BY <1>1, <1>10, <2>3, <2>2 DEF Consistent, Weak, Alike
<1>11. CASE /\ ~handler.answersOptions
            /\ script.handler \notin {"sends", "sendsJson", "redirects", "setsType", "streams",
                                      "breaks", "throws", "opensSession"}
  <2>1. r = res
    BY <1>11 DEF ResponseOf
  <2>2. "content-type" \notin DOMAIN r.own
    BY <2>1
  <2> QED
    BY <1>1, <1>11, <2>1, <2>2
<1> QED
  BY <1>3, <1>4, <1>5, <1>6, <1>7, <1>8, <1>9, <1>10, <1>11

\* The controller is called at the end of the chain, behind all guards.
LEMMA ControllerKeeps == ASSUME RequestInv, Controller PROVE RequestInv'
<1>1. At("backend")
  BY DEF Controller
<1>2. /\ pc = "down" /\ handler.chain[at] = "backend" /\ UNCHANGED routesVars
      /\ Shape(res) /\ Fresh(res) /\ logged = 0 /\ res.status < 500 /\ res.wire.status < 500
      /\ DOMAIN res.own \subseteq {"access"}
      /\ ChainFits(handler) /\ at \in DOMAIN handler.chain /\ at > 0 /\ Passing
  BY <1>1, AtIs
<1>3. /\ passed' = [called |-> TRUE, guards |-> allowed] /\ at' = at
      /\ UNCHANGED <<method, path, script, handler, allowed, reads, logged>>
  BY DEF Controller
<1>4. PICK r : r = ResponseOf(res)
  OBVIOUS
<1>5. /\ Shape(r) /\ Consistent(r) /\ r.status < 500 /\ r.wire.status < 500
      /\ ~handler.answersOptions
            /\ script.handler \notin {"sends", "sendsJson", "redirects", "streams", "breaks"}
         => ~r.wire.sent
      /\ \/ r.wire.sent => r.wire.ended
         \/ script.handler = "breaks" /\ ~handler.answersOptions /\ ~Quiet(r)
      /\ r.wire.ended \/ script.handler = "setsType"
            \/ "content-type" \notin DOMAIN r.own \/ ~Quiet(r)
      /\ ~Quiet(r) => r.threw = "error" /\ script.handler # "setsType"
  BY <1>2, <1>4, ResponseOfIs
<1>6. res' = r /\ pc' = IF Quiet(r) THEN "up" ELSE "error"
  BY <1>4 DEF Controller, Then
<1>7. passed'.called
  BY <1>3
<1>8. ~ByHand' => ~r.wire.sent
  BY <1>3, <1>5, <1>7 DEF ByHand
<1>9. Respond'
  <2>1. CASE Quiet(r)
    <3>1. GoingUp'
      <4>1. r.wire.ended => r.wire.sent
        BY <1>5 DEF Consistent, Weak
      <4>2. Typed' <=> script.handler = "setsType"
        BY <1>3, <1>7 DEF Typed
      <4> QED
        BY <1>5, <1>6, <1>7, <1>8, <2>1, <4>1, <4>2 DEF GoingUp
    <3> QED
      BY <1>2, <1>3, <1>5, <1>6, <2>1, <3>1 DEF Respond, RequestsAreAnswered
  <2>2. CASE ~Quiet(r)
    <3>1. Broken' \/ (r.wire.sent => r.wire.ended)
      BY <1>3, <1>5, <1>7 DEF Broken
    <3>2. Failed'
      BY <1>3, <1>5, <1>6, <1>8, <2>2, <3>1 DEF Failed, Clean, Consistent, Typed
    <3> QED
      BY <1>2, <1>3, <1>5, <1>6, <2>2, <3>2 DEF Respond, RequestsAreAnswered
  <2> QED
    BY <2>1, <2>2
<1>10. RequestTypes'
  BY <1>3, <1>5, <1>6 DEF RequestInv, RequestTypes
<1>11. InChain'
  <2>1. HandlerFits(path, handler)' <=> HandlerFits(path, handler)
    BY <1>2, <1>3, FitsAsBefore DEF routesVars
  <2>2. at = Len(handler.chain) /\ at > First(handler) /\ DOMAIN handler.chain = 1..at
    BY <1>2, PlacesAre DEF ChainFits
  <2>3. allowed = handler.guards
    BY <1>2, <2>2 DEF Passing
  <2>4. HasNone("body", handler.chain) => reads = 0
    BY <1>2 DEF Passing, Reading
  <2>5. Once("body", handler.chain) => reads = 1
    <3> SUFFICES ASSUME NEW b \in DOMAIN handler.chain,
                        \A n \in DOMAIN handler.chain : handler.chain[n] = "body" <=> n = b
                 PROVE  reads = 1
      BY DEF Once
    <3>1. b # at
      BY <1>2
    <3>2. b \in 1..at /\ at \in Nat
      BY <2>2 DEF RequestInv, RequestTypes
    <3>3. at > b
      BY <3>1, <3>2
    <3>4. reads = IF at > b THEN 1 ELSE 0
      BY <1>2 DEF Passing, Reading
    <3> QED
      BY <3>3, <3>4
  <2>6. pc' # "down"
    BY <1>6
  <2> QED
    BY <1>2, <1>3, <2>1, <2>3, <2>4, <2>5, <2>6 DEF RequestInv, InChain, HasNone, Once
<1> QED
  BY <1>9, <1>10, <1>11 DEF RequestInv

\* On the way back the front end sends what is still to be sent.
LEMMA AfterIs ==
    ASSUME NEW r, Shape(r), Quiet(r), Consistent(r), r.wire.sent => r.wire.ended,
           NEW a, a = After(r)
    PROVE  /\ Shape(a) /\ Consistent(a) /\ a.status = r.status
           /\ Quiet(a) => a.wire.sent /\ a.wire.ended
           /\ a.wire.status = IF r.wire.sent \/ ~a.wire.sent THEN r.wire.status ELSE r.status
           /\ ~Quiet(a) => a.wire.sent = r.wire.sent /\ (a.head => a.wire.ended)
           /\ r.wire.sent /\ (r.head \/ (value = "nothing" /\ "content-type" \notin DOMAIN r.own))
              => Quiet(a)
           /\ ~Quiet(a) /\ ~r.wire.sent => a.threw = "typeError" /\ "content-type" \in DOMAIN r.own
<1> DEFINE type == HeaderOf(r, "content-type")
           body == IF value = "nothing" THEN "empty" ELSE value
<1>1. Weak(r)
  BY DEF Consistent
<1>2. CASE r.head
  <2>1. a = r
    BY <1>2 DEF After, HeadersSent
  <2> QED
    BY <1>2, <2>1 DEF Consistent
<1>3. ASSUME ~r.head, NEW n, NEW v, NEW b, a = End(SetHeader(r, n, v), b),
             ~(value = "nothing" /\ "content-type" \notin DOMAIN r.own)
      PROVE  /\ Shape(a) /\ Consistent(a) /\ a.status = r.status
             /\ Quiet(a) => a.wire.sent /\ a.wire.ended
             /\ a.wire.status = IF r.wire.sent \/ ~a.wire.sent THEN r.wire.status ELSE r.status
             /\ ~Quiet(a) => a.wire.sent = r.wire.sent /\ (a.head => a.wire.ended)
             /\ ~Quiet(a) => r.wire.sent
  <2>1. PICK s : s = SetHeader(r, n, v)
    OBVIOUS
  <2>2. Shape(s) /\ Alike(r, s) /\ (~r.wire.sent => Quiet(s))
    BY <1>3, <2>1, SetHeaderIs
  <2>3. Weak(s) /\ Consistent(s)
    BY <1>1, <2>2 DEF Weak, Alike, Consistent
  <2>4. CASE Quiet(s)
    <3>1. Answer(s, a)
      BY <1>3, <2>1, <2>2, <2>3, <2>4, EndIs
    <3> QED
      BY <2>2, <3>1 DEF Answer, Alike
  <2>5. CASE ~Quiet(s)
    <3>1. a = s
      BY <1>3, <2>1, <2>5 DEF End
    <3>2. r.wire.sent => r.wire.ended
      OBVIOUS
    <3> QED
      BY <1>3, <2>2, <2>3, <2>5, <3>1, <3>2 DEF Alike
  <2> QED
    BY <2>4, <2>5
<1>4. CASE ~r.head /\ (value = "json" \/ type = "json")
  <2>1. a = End(SetHeader(r, "content-type", "json"), body)
    BY <1>4 DEF After, HeadersSent, SendJson, Send
  <2>2. ~(value = "nothing" /\ "content-type" \notin DOMAIN r.own)
    BY <1>4 DEF HeaderOf
  <2> QED
    BY <1>3, <1>4, <2>1, <2>2
<1>5. CASE /\ ~r.head /\ ~(value = "json" \/ type = "json")
           /\ type # "none" /\ value = "nothing"
  <2>1. a = Throws(r, "typeError")
    BY <1>5 DEF After, HeadersSent
  <2>2. Shape(a) /\ Alike(r, a) /\ a.threw = "typeError"
    BY <2>1, ThrowsIs
  <2>3. Consistent(a) /\ ~Quiet(a)
    BY <2>2 DEF Consistent, Weak, Alike, Quiet
  <2>4. "content-type" \in DOMAIN r.own
    BY <1>5 DEF HeaderOf
  <2> QED
    BY <1>5, <2>2, <2>3, <2>4 DEF Alike
<1>6. CASE /\ ~r.head /\ ~(value = "json" \/ type = "json")
           /\ ~(type # "none" /\ value = "nothing") /\ value = "text" /\ type = "none"
  <2>1. a = End(SetHeader(r, "content-type", "text"), body)
    BY <1>6 DEF After, HeadersSent, Send
  <2> QED
    BY <1>3, <1>6, <2>1
<1>7. CASE /\ ~r.head /\ ~(value = "json" \/ type = "json")
           /\ ~(type # "none" /\ value = "nothing") /\ ~(value = "text" /\ type = "none")
  <2>1. a = End(r, body)
    BY <1>7 DEF After, HeadersSent, Send
  <2>2. Answer(r, a)
    BY <1>1, <2>1, EndIs
  <2> QED
    BY <2>2 DEF Answer
<1> QED
  BY <1>2, <1>4, <1>5, <1>6, <1>7

\* What is said of a request does not change when it goes to its end.
LEMMA FlagsAre ==
    ASSUME UNCHANGED <<method, script, handler, at, passed>>
    PROVE  /\ ByHand' <=> ByHand
           /\ Broken' <=> Broken
           /\ ThrowsAfterPreflight' <=> ThrowsAfterPreflight
           /\ Clean' <=> Clean
           /\ FailureStatus' = FailureStatus
<1>1. ByHand' <=> ByHand
  BY DEF ByHand
<1>2. Broken' <=> Broken
  BY DEF Broken
<1>3. ThrowsAfterPreflight' <=> ThrowsAfterPreflight
  BY DEF ThrowsAfterPreflight, ThrowsAfter
<1>4. FailureStatus' = FailureStatus
  BY DEF FailureStatus, Unbuildable, ThrowsAfter, StatusOf
<1> QED
  BY <1>1, <1>2, <1>3, <1>4 DEF Clean

\* The chain has run; an interceptor of the route may throw even now.
LEMMA ReturnKeeps == ASSUME RequestInv, Return PROVE RequestInv'
<1>1. /\ pc = "up" /\ UNCHANGED routesVars
      /\ UNCHANGED <<method, path, script, handler, at, allowed, value, reads, passed, logged>>
  BY DEF Return, Serving
<1>2. /\ Shape(res) /\ Consistent(res) /\ GoingUp /\ Quiet(res) /\ logged = 0
      /\ res.status < 500 /\ res.wire.status < 500 /\ (res.wire.sent => res.wire.ended)
      /\ at > 0 /\ HandlerFits(path, handler) /\ at \in DOMAIN handler.chain
  BY <1>1 DEF RequestInv, RequestTypes, InChain, Respond, GoingUp
<1>3. Clean' <=> Clean
  BY <1>1, FlagsAre
<1>4. CASE ThrowsAfter
  <2>1. pc' = "error" /\ res' = Throws(res, "error")
    BY <1>4, ThrowsIs DEF Return, Then, Quiet, Throws, RequestInv, RequestTypes, Shape
  <2>2. Shape(res') /\ Alike(res, res') /\ res'.threw = "error"
    BY <1>2, <2>1, ThrowsIs
  <2>3. Clean => ~res.wire.sent
    <3> SUFFICES ASSUME Clean, res.wire.sent PROVE FALSE
      OBVIOUS
    <3>1. ~passed.called
      BY <1>2 DEF Clean, GoingUp
    <3>2. handler.chain[at] = "guards"
      BY <1>2, <1>4, <3>1 DEF Clean, GoingUp, ThrowsAfterPreflight
    <3>3. ChainFits(handler)
      BY <1>2 DEF HandlerFits
    <3>4. at = 2 /\ handler.guards > 0
      BY <1>2, <3>2, <3>3, PlacesAre
    <3>5. handler.chain[1] = "frontend"
      BY <3>3 DEF ChainFits
    <3>6. PICK i \in 1..at : handler.chain[i] = "own"
      BY <1>4 DEF ThrowsAfter
    <3>7. i = 1 \/ i = 2
      BY <3>4, <3>6
    <3> QED
      BY <3>2, <3>4, <3>5, <3>6, <3>7
  <2>4. Failed'
    <3>1. ThrowsAfter'
      BY <1>1, <1>4 DEF ThrowsAfter
    <3> QED
      BY <1>2, <1>3, <2>2, <2>3, <3>1 DEF Failed, Alike, Consistent
  <2>5. Consistent(res')
    BY <1>2, <2>2 DEF Consistent, Weak, Alike
  <2>6. Respond'
    BY <1>1, <1>2, <2>1, <2>2, <2>4, <2>5 DEF Respond, Alike, RequestsAreAnswered
  <2>7. InChain'
    BY <1>1, <2>1, Halts DEF RequestInv, routesVars
  <2> QED
    BY <1>1, <2>2, <2>6, <2>7 DEF RequestInv, RequestTypes
<1>5. CASE ~ThrowsAfter
  <2> PICK a : a = After(res)
    OBVIOUS
  <2>1. /\ Shape(a) /\ Consistent(a) /\ a.status = res.status
        /\ Quiet(a) => a.wire.sent /\ a.wire.ended
        /\ a.wire.status = IF res.wire.sent \/ ~a.wire.sent THEN res.wire.status ELSE res.status
        /\ ~Quiet(a) => a.wire.sent = res.wire.sent /\ (a.head => a.wire.ended)
        /\ /\ res.wire.sent
           /\ res.head \/ (value = "nothing" /\ "content-type" \notin DOMAIN res.own)
           => Quiet(a)
        /\ ~Quiet(a) /\ ~res.wire.sent =>
              a.threw = "typeError" /\ "content-type" \in DOMAIN res.own
    BY <1>2, AfterIs
  <2>2. res' = a /\ pc' = IF Quiet(a) THEN "done" ELSE "error"
    BY <1>5 DEF Return, Then
  <2>3. a.status < 500 /\ a.wire.status < 500
    BY <1>2, <2>1
  <2>4. Respond'
    <3>1. CASE Quiet(a)
      BY <1>1, <1>2, <2>1, <2>2, <2>3, <3>1, Done
    <3>2. CASE ~Quiet(a)
      <4>1. Clean => ~a.wire.sent
        BY <1>2, <2>1, <3>2 DEF Clean, GoingUp
      <4>2. Clean => a.threw = "typeError" /\ Typed
        BY <1>2, <2>1, <3>2, <4>1 DEF GoingUp
      <4>3. (Typed' <=> Typed) /\ ~ThrowsAfter'
        BY <1>1, <1>5 DEF Typed, ThrowsAfter
      <4>4. Failed'
        BY <1>3, <2>1, <2>2, <3>2, <4>1, <4>2, <4>3 DEF Failed
      <4> QED
        BY <1>1, <1>2, <2>1, <2>2, <2>3, <3>2, <4>4 DEF Respond, RequestsAreAnswered
    <3> QED
      BY <3>1, <3>2
  <2>5. InChain'
    BY <1>1, <2>2, Halts DEF RequestInv, routesVars
  <2> QED
    BY <1>1, <2>1, <2>2, <2>4, <2>5 DEF RequestInv, RequestTypes
<1> QED
  BY <1>4, <1>5

\* The exception is over, the status is set for the error.
LEMMA CaughtIs ==
    ASSUME NEW r, Shape(r), Consistent(r), NEW n \in Nat
    PROVE  LET s == SetStatus(Throws(r, "none"), n)
           IN  /\ Shape(s) /\ Consistent(s) /\ Quiet(s) /\ s.status = n /\ s.head = r.head
               /\ s.wrapped = r.wrapped /\ s.wire.sent = r.wire.sent /\ s.wire.ended = r.wire.ended
<1> PICK t : t = Throws(r, "none")
  OBVIOUS
<1> PICK s : s = SetStatus(t, n)
  OBVIOUS
<1>1. Shape(t) /\ Alike(r, t) /\ Quiet(t)
  BY ThrowsIs DEF Quiet
<1>2. /\ Shape(s) /\ Quiet(s) /\ s.status = n
      /\ s.wrapped = t.wrapped /\ s.head = t.head /\ s.wire = t.wire
  BY <1>1, SetStatusIs
<1> QED
  BY <1>1, <1>2 DEF Alike, Consistent, Weak

\* The error handler sets the status of the error, which is that of the failure.
LEMMA ErrorStatusIs ==
    ASSUME RequestInv, Scripted, pc = "error"
    PROVE  StatusOf(res.threw) \in Nat /\ (Clean => StatusOf(res.threw) = FailureStatus)
<1>1. script.status \in Nat
  <2>1. script \in Scripts
    BY DEF Scripted
  <2> QED
    BY <2>1, ScriptAssumption
<1>2. StatusOf(res.threw) \in Nat
  BY <1>1 DEF StatusOf
<1>3. ASSUME Clean PROVE StatusOf(res.threw) = FailureStatus
  <2>1. (res.threw = "error" <=> ~(Typed /\ ~ThrowsAfter)) /\ ~Unbuildable(handler)
    BY <1>3 DEF RequestInv, Respond, Failed, Scripted
  <2> QED
    BY <2>1 DEF FailureStatus, StatusOf, Typed
<1> QED
  BY <1>2, <1>3

\* The error handler answers, unless headers were sent, or throws itself.
LEMMA HandleErrorKeeps == ASSUME RequestInv, Scripted, HandleError PROVE RequestInv'
<1>1. /\ pc = "error" /\ UNCHANGED routesVars /\ logged' = logged + 1
      /\ UNCHANGED <<method, path, script, handler, at, allowed, value, reads, passed>>
  BY DEF HandleError, Serving
<1>2. /\ Shape(res) /\ Consistent(res) /\ Failed /\ logged = 0
      /\ Clean => ~res.wire.sent /\ ~res.head
  BY <1>1 DEF RequestInv, RequestTypes, Respond, Failed, Consistent
<1>3. (Clean' <=> Clean) /\ (Broken' <=> Broken) /\ FailureStatus' = FailureStatus
  BY <1>1, FlagsAre
<1> PICK n \in Nat : n = StatusOf(res.threw) /\ (Clean => n = FailureStatus)
  BY <1>1, ErrorStatusIs
<1> PICK s : s = SetStatus(Throws(res, "none"), n)
  OBVIOUS
<1> PICK r : r = ErrorAnswered(Throws(res, "none"), n)
  OBVIOUS
<1>4. /\ Shape(s) /\ Consistent(s) /\ Quiet(s) /\ s.status = n /\ s.head = res.head
      /\ s.wrapped = res.wrapped /\ s.wire.sent = res.wire.sent
      /\ s.wire.ended = res.wire.ended
  BY <1>2, CaughtIs
<1>5. res' = r /\ pc' = IF Quiet(r) THEN "done" ELSE "last"
  BY DEF HandleError
<1>6. /\ Shape(r) /\ Consistent(r)
      /\ Quiet(r) /\ ~Broken' => r.wire.sent /\ r.wire.ended
      /\ Clean => Quiet(r) /\ r.wire.status = n
  <2>1. CASE s.head
    <3>1. r = s
      BY <2>1 DEF ErrorAnswered, HeadersSent
    <3> QED
      BY <1>2, <1>3, <1>4, <2>1, <3>1 DEF Failed, Consistent
  <2>2. CASE ~s.head
    <3> PICK t : t = SetHeader(s, "x-requestId", "id")
      OBVIOUS
    <3> PICK u : u = SetHeader(t, "content-type", "json")
      OBVIOUS
    <3>1. r = End(u, "error")
      BY <2>2 DEF ErrorAnswered, HeadersSent, SendJson, Send
    <3>2. Shape(t) /\ Alike(s, t) /\ (~s.wire.sent => Quiet(t))
      BY <1>4, <2>2, SetHeaderIs
    <3>3. Shape(u) /\ Alike(t, u) /\ (~s.wire.sent => Quiet(u))
      BY <2>2, <3>2, SetHeaderIs DEF Alike
    <3>4. Alike(s, u) /\ Consistent(u) /\ Weak(u) /\ u.status = n
      BY <1>4, <3>2, <3>3 DEF Alike, Consistent, Weak
    <3>5. CASE Quiet(u)
      <4>1. Answer(u, r)
        BY <3>1, <3>3, <3>4, <3>5, EndIs
      <4> QED
        BY <1>2, <1>4, <3>4, <4>1 DEF Answer, Alike
    <3>6. CASE ~Quiet(u)
      <4>1. r = u
        BY <3>1, <3>6 DEF End
      <4> QED
        BY <1>2, <1>4, <3>3, <3>4, <3>6, <4>1
    <3> QED
      BY <3>5, <3>6
  <2> QED
    BY <2>1, <2>2
<1>7. Respond'
  <2>1. CASE Quiet(r)
    BY <1>1, <1>2, <1>3, <1>5, <1>6, <2>1, Done
  <2>2. CASE ~Quiet(r)
    BY <1>1, <1>2, <1>3, <1>5, <1>6, <2>2 DEF Respond, RequestsAreAnswered
  <2> QED
    BY <2>1, <2>2
<1>8. InChain'
  BY <1>1, <1>5, Halts DEF RequestInv, routesVars
<1> QED
  BY <1>1, <1>2, <1>5, <1>6, <1>7, <1>8 DEF RequestInv, RequestTypes

\* The dispatcher itself answers when the error handler could not.
LEMMA LastResortKeeps == ASSUME RequestInv, LastResort PROVE RequestInv'
<1>1. /\ pc = "last" /\ pc' = "done" /\ UNCHANGED routesVars /\ logged' = logged + 1
      /\ UNCHANGED <<method, path, script, handler, at, allowed, value, reads, passed>>
  BY DEF LastResort, Serving
<1>2. /\ Shape(res) /\ Consistent(res) /\ logged \in Nat
      /\ Clean => ~res.wire.sent /\ FailureStatus = 500
  BY <1>1 DEF RequestInv, RequestTypes, Respond
<1>3. (Clean' <=> Clean) /\ FailureStatus' = FailureStatus
  BY <1>1, FlagsAre
<1> PICK s : s = SetStatus(Throws(res, "none"), 500)
  OBVIOUS
<1>4. Shape(s) /\ Consistent(s) /\ Quiet(s) /\ s.status = 500 /\ s.wire.sent = res.wire.sent
  BY <1>2, CaughtIs
<1>5. Answer(s, res')
  BY <1>4, EndIs DEF LastResort, Consistent
<1>6. Clean' => res'.wire.status = FailureStatus'
  BY <1>2, <1>3, <1>4, <1>5 DEF Answer
<1>7. Respond'
  BY <1>1, <1>2, <1>3, <1>5, <1>6, Done DEF Answer
<1>8. InChain'
  BY <1>1, Halts DEF RequestInv, routesVars
<1> QED
  BY <1>1, <1>2, <1>5, <1>7, <1>8 DEF RequestInv, RequestTypes, Answer

\* A path that no handler serves is answered with 404.
LEMMA NotFoundKeeps == ASSUME RequestInv, NotFound PROVE RequestInv'
<1>1. /\ pc = "find" /\ pc' = "done" /\ UNCHANGED routesVars
      /\ UNCHANGED <<method, path, script, handler, at, allowed, value, reads, passed, logged>>
  BY DEF NotFound, Serving
<1>2. Shape(res) /\ Fresh(res) /\ logged = 0
  BY <1>1 DEF RequestInv, RequestTypes, Respond
<1> PICK s : s = SetStatus(res, 404)
  OBVIOUS
<1>3. Shape(s) /\ Fresh(s) /\ s.status = 404 /\ Answer(s, End(s, "empty"))
  BY <1>2, FreshAnswers
<1>4. res' = End(s, "empty")
  BY DEF NotFound
<1>5. /\ Shape(res') /\ Consistent(res') /\ res'.wire.sent /\ res'.wire.ended
      /\ res'.status = 404 /\ res'.wire.status = 404
  BY <1>3, <1>4 DEF Answer, Fresh
<1>6. Respond'
  BY <1>1, <1>2, <1>5, Done
<1>7. InChain'
  BY <1>1, Halts DEF RequestInv, routesVars
<1> QED
  BY <1>1, <1>5, <1>6, <1>7 DEF RequestInv, RequestTypes

\* The handler that is found fits the path; no guard has been asked.
LEMMA FindKeeps ==
    ASSUME RequestInv, Routed, Find,
           pc = "find" => at = 0 /\ allowed = 0
    PROVE  RequestInv'
<1>1. /\ pc = "find" /\ phase = "serving" /\ UNCHANGED routesVars
      /\ <<Served, path>> \in DOMAIN router /\ handler' = router[<<Served, path>>]
      /\ UNCHANGED <<method, path, script, allowed, value, reads, passed, logged>>
  BY DEF Find, Serving
<1>2. /\ Shape(res) /\ Fresh(res) /\ DOMAIN res.own \subseteq {"access"} /\ value = "nothing"
      /\ logged = 0 /\ res.status < 500 /\ res.wire.status < 500
      /\ at = 0 /\ allowed = 0 /\ reads = 0 /\ ~passed.called
  BY <1>1 DEF RequestInv, RequestTypes, Respond, InChain
<1> PICK h : h = router[<<Served, path>>]
  OBVIOUS
<1>3. HandlerFits(path, h) /\ ChainFits(h)
  BY <1>1 DEF Routed, HandlerFits
<1>4. HandlerFits(path, handler)'
  BY <1>1, <1>3, FitsAsBefore DEF routesVars
<1>5. CASE Unbuildable(h)
  <2>1. pc' = "last" /\ res' = Throws(res, "error") /\ at' = 0
    BY <1>1, <1>5 DEF Find
  <2>2. Shape(res') /\ Alike(res, res')
    BY <1>2, <2>1, ThrowsIs
  <2>3. Consistent(res') /\ ~res'.wire.sent
    BY <1>2, <2>2 DEF Fresh, Alike, Consistent, Weak
  <2>4. FailureStatus' = 500
    <3>1. Unbuildable(handler)'
      BY <1>1, <1>5 DEF Unbuildable
    <3> QED
      BY <3>1 DEF FailureStatus
  <2>5. Respond'
    BY <1>1, <1>2, <2>1, <2>2, <2>3, <2>4 DEF Respond, Alike, RequestsAreAnswered
  <2>6. InChain'
    BY <1>1, <1>2, <2>1 DEF InChain
  <2> QED
    BY <1>1, <1>2, <2>1, <2>2, <2>5, <2>6 DEF RequestInv, RequestTypes
<1>6. CASE ~Unbuildable(h)
  <2>1. pc' = "down" /\ at' = 1 /\ res' = res
    BY <1>1, <1>6 DEF Find
  <2>2. Respond'
    BY <1>1, <1>2, <2>1, Down
  <2>3. 1 \in DOMAIN h.chain /\ First(h) \in {1, 2} /\ h.guards \in Nat /\ h.chain[1] # "body"
    BY <1>3 DEF ChainFits, First
  <2>4. Passing'
    <3>1. Reading'
      <4> SUFFICES ASSUME NEW b \in DOMAIN h.chain,
                          \A n \in DOMAIN h.chain : h.chain[n] = "body" <=> n = b
                   PROVE  ~(1 > b)
        BY <1>1, <1>2, <2>1 DEF Reading
      <4>1. b \in Nat /\ b # 0
        BY <1>3 DEF ChainFits
      <4> QED
        BY <4>1
    <3>2. First(handler)' = First(h)
      BY <1>1 DEF First
    <3> QED
      BY <1>1, <1>2, <2>1, <2>3, <3>1, <3>2 DEF Passing
  <2>5. InChain'
    BY <1>1, <1>2, <1>4, <2>1, <2>3, <2>4 DEF InChain
  <2> QED
    BY <1>1, <1>2, <2>1, <2>2, <2>5 DEF RequestInv, RequestTypes
<1> QED
  BY <1>5, <1>6

\* A response that is new.
LEMMA NewIs ==
    ASSUME NEW b \in BOOLEAN
    PROVE  LET r == NewResponse(b)
           IN  /\ Shape(r) /\ Fresh(r) /\ r.own = <<>>
               /\ r.status < 500 /\ r.wire.status < 500
<1> PICK r : r = NewResponse(b)
  OBVIOUS
<1>1. /\ r.wrapped = b /\ r.head = FALSE /\ r.own = <<>> /\ r.status = 200 /\ r.threw = "none"
      /\ r.wire = NoAnswer
      /\ DOMAIN r = {"wrapped", "head", "own", "status", "chunked", "cookie", "hooked",
                     "threw", "wire"}
  BY DEF NewResponse, NoHeaders
<1>2. /\ NoAnswer.sent = FALSE /\ NoAnswer.ended = FALSE /\ NoAnswer.status = 0
      /\ DOMAIN NoAnswer = {"sent", "ended", "status", "headers", "length"}
  BY DEF NoAnswer
<1>3. /\ r.wire.sent = FALSE /\ r.wire.ended = FALSE /\ r.wire.status = 0
      /\ DOMAIN r.wire = {"sent", "ended", "status", "headers", "length"}
  BY <1>1, <1>2
<1>4. Shape(r) /\ Fresh(r)
  <2>1. FALSE \in BOOLEAN /\ r.wrapped \in BOOLEAN /\ r.status \in Nat /\ r.wire.status \in Nat
    <3>1. \A n : n = 200 \/ n = 0 => n \in Nat
      OBVIOUS
    <3> QED
      BY <1>1, <1>3, <3>1
  <2>2. /\ r.head \in BOOLEAN /\ ~r.head
        /\ r.wire.sent \in BOOLEAN /\ ~r.wire.sent
        /\ r.wire.ended \in BOOLEAN /\ ~r.wire.ended
    BY <1>1, <1>3
  <2> QED
    BY <1>1, <1>3, <2>1, <2>2 DEF Shape, Fresh, Quiet
<1>5. r.status < 500 /\ r.wire.status < 500
  <2>1. \A n : n = 200 \/ n = 0 => n < 500
    OBVIOUS
  <2> QED
    BY <1>1, <1>3, <2>1
<1> QED
  BY <1>1, <1>4, <1>5

\* A request that begins.
LEMMA BeginKeeps ==
    ASSUME RequestInv, NEW m, NEW p, Begin(m, p)
    PROVE  RequestInv' /\ (at' = 0 /\ allowed' = 0)
<1> PICK b \in BOOLEAN : b <=> m = "HEAD"
  OBVIOUS
<1>1. res' = NewResponse(b)
  BY DEF Begin
<1>2. /\ Shape(res') /\ Fresh(res') /\ res'.own = <<>> /\ res'.status < 500
      /\ res'.wire.status < 500
  BY <1>1, NewIs
<1>3. /\ pc' = "find" /\ at' = 0 /\ allowed' = 0 /\ value' = "nothing" /\ reads' = 0
      /\ logged' = 0 /\ passed' = NotCalled
  BY DEF Begin
<1>4. ~passed'.called /\ passed'.called \in BOOLEAN
  BY <1>3 DEF NotCalled
<1>5. Consistent(res') /\ DOMAIN res'.own \subseteq {"access"}
  BY <1>2 DEF Fresh, Consistent, Weak
<1>6. Respond'
  BY <1>2, <1>3, <1>5 DEF Respond, RequestsAreAnswered
<1>7. InChain'
  BY <1>3, <1>4 DEF InChain
<1> QED
  BY <1>2, <1>3, <1>4, <1>6, <1>7 DEF RequestInv, RequestTypes

-----------------------------------------------------------------------------
(* The invariant.                                                           *)

\* A request for which no handler has been found is at the start.
Unfound == pc = "find" => at = 0 /\ allowed = 0

Inv == RoutesTypes /\ Turns /\ Metas /\ Routed /\ RequestInv /\ Unfound /\ Scripted

\* A request has not begun, and no route is made, when an application starts.
LEMMA Starts == Init => Inv
<1> SUFFICES ASSUME Init PROVE Inv
  OBVIOUS
<1>1. RoutesTypes /\ Turns /\ Metas
  BY RoutesStart DEF Init
<1>2. Routed
  BY DEF Init, RoutesInit, Routed
<1>3. /\ pc = "idle" /\ res = NewResponse(FALSE) /\ reads = 0 /\ at = 0 /\ allowed = 0
      /\ logged = 0 /\ passed = NotCalled
  BY DEF Init
<1>4. Shape(res) /\ Fresh(res) /\ res.status < 500 /\ res.wire.status < 500
  <2>1. PICK b \in BOOLEAN : b = FALSE
    OBVIOUS
  <2>2. res = NewResponse(b)
    BY <1>3, <2>1
  <2> QED
    BY <2>2, NewIs
<1>5. ~passed.called /\ passed.called \in BOOLEAN
  BY <1>3 DEF NotCalled
<1>6. Respond
  <2>1. Consistent(res)
    BY <1>4 DEF Fresh, Consistent, Weak
  <2>2. pc = "idle" /\ res.status < 500 /\ res.wire.status < 500
    BY <1>3, <1>4
  <2>3. RequestsAreAnswered
    BY <2>2 DEF RequestsAreAnswered
  <2> QED
    BY <2>1, <2>2, <2>3 DEF Respond
<1>7. InChain
  BY <1>3, <1>5 DEF InChain
<1> QED
  BY <1>1, <1>2, <1>3, <1>4, <1>5, <1>6, <1>7 DEF Inv, RequestInv, RequestTypes, Unfound, Scripted

\* What a step does not touch stays.
LEMMA RoutesStay ==
    ASSUME RoutesTypes, Turns, Metas, Routed, UNCHANGED routesVars
    PROVE  RoutesTypes' /\ Turns' /\ Metas' /\ Routed'
<1>1. RoutesTypes'
  BY DEF routesVars, RoutesTypes
<1>2. Turns'
  BY DEF routesVars, Turns
<1>3. Metas'
  <2>1. CASE phase = "failed"
    BY <2>1 DEF routesVars, Metas
  <2>2. CASE phase # "failed"
    <3>1. \A m \in DOMAIN app : HasRun(m, "body")' <=> HasRun(m, "body")
      BY DEF routesVars, HasRun
    <3> QED
      BY <2>2, <3>1, SameKeeps DEF routesVars
  <2> QED
    BY <2>1, <2>2
<1>4. Routed'
  <2>1. ASSUME NEW k \in DOMAIN router
        PROVE  HandlerFits(k[2], router[k])' <=> HandlerFits(k[2], router[k])
    <3>1. PICK h : h = router[k]
      OBVIOUS
    <3>2. HandlerFits(k[2], h)' <=> HandlerFits(k[2], h)
      BY FitsAsBefore DEF routesVars
    <3> QED
      BY <3>1, <3>2 DEF routesVars
  <2> QED
    BY <2>1 DEF routesVars, Routed
<1> QED
  BY <1>1, <1>2, <1>3, <1>4

\* A step of the start of an application leaves what is known of the last request.
LEMMA RequestStays ==
    ASSUME RequestInv, app' = app, UNCHANGED requestVars
    PROVE  RequestInv'
<1>1. UNCHANGED <<pc, method, path, script, handler, at, allowed, value, res, reads, passed,
                  logged>>
  BY DEF requestVars
<1>2. HandlerFits(path, handler)' <=> HandlerFits(path, handler)
  BY <1>1, FitsAsBefore
<1>3. InChain'
  BY <1>1, <1>2 DEF RequestInv, InChain, Passing, Reading, First
<1>4. Respond'
  <2>1. FailureStatus' = FailureStatus
    BY <1>1, FlagsAre
  <2> QED
    BY <1>1, <2>1 DEF RequestInv, Respond, GoingUp, Failed, Clean, ByHand, Broken,
                      ThrowsAfterPreflight, ThrowsAfter, Typed, RequestsAreAnswered
<1> QED
  BY <1>1, <1>3, <1>4 DEF RequestInv, RequestTypes

\* A script stays for the request, and for the one for HEAD that repeats it.
LEMMA ScriptStays == ASSUME Scripted, Ask \/ AskHead \/ RequestNext PROVE Scripted'
<1>1. CASE Ask \/ AskHead
  BY <1>1 DEF Ask, AskHead, Begin, Scripted
<1>2. CASE Find
  <2>1. UNCHANGED <<script>> /\ pc = "find"
    BY <1>2 DEF Find
  <2>2. Unbuildable(handler') <=> Unbuildable(handler)'
    BY <2>1 DEF Unbuildable
  <2> QED
    BY <1>2, <2>1, <2>2 DEF Find, Scripted
<1>3. CASE RequestNext /\ ~Find
  <2>1. UNCHANGED <<script, handler>> /\ pc # "idle"
    BY <1>3 DEF RequestNext, NotFound, Before, GuardPasses, GuardRefuses, GuardThrows, Cors,
                Session, ParseBody, OwnInterceptor, Controller, Return, HandleError, LastResort,
                At, Serving
  <2>2. pc \in {"down", "up", "error"} \/ pc' \in {"last", "done"}
    BY <1>3 DEF RequestNext, NotFound, Before, GuardPasses, GuardRefuses, GuardThrows, Cors,
                Session, ParseBody, OwnInterceptor, Controller, Return, HandleError, LastResort,
                At, Serving
  <2>3. Unbuildable(handler)' <=> Unbuildable(handler)
    BY <2>1 DEF Unbuildable
  <2> QED
    BY <2>1, <2>2, <2>3 DEF Scripted
<1> QED
  BY <1>1, <1>2, <1>3 DEF RequestNext

\* Every step of a request keeps what is known of it.
LEMMA RequestKeeps ==
    ASSUME RequestInv, Routed, Unfound, Scripted, Ask \/ AskHead \/ RequestNext
    PROVE  RequestInv' /\ Unfound' /\ Scripted' /\ UNCHANGED routesVars
<1>1. UNCHANGED routesVars
  BY DEF Ask, AskHead, RequestNext, NotFound, Find, Before, GuardPasses, GuardRefuses,
         GuardThrows, Cors, Session, ParseBody, OwnInterceptor, Controller, Return, HandleError,
         LastResort, At, Serving
<1>2. CASE Ask \/ AskHead
  <2>1. PICK m, p : Begin(m, p)
    BY <1>2 DEF Ask, AskHead
  <2> QED
    BY <1>1, <2>1, BeginKeeps, ScriptStays DEF Unfound
<1>3. CASE RequestNext
  <2>1. pc' # "find"
    BY <1>3, SMTT(30) DEF RequestNext, NotFound, Find, Before, GuardPasses, GuardRefuses,
         GuardThrows, Cors, Session, ParseBody, OwnInterceptor, Controller, Return, HandleError,
         LastResort, At, Serving, Then, Forward
  <2>2. RequestInv'
    BY <1>3, NotFoundKeeps, FindKeeps, BeforeKeeps, GuardPassesKeeps, GuardRefusesKeeps,
       GuardThrowsKeeps, CorsKeeps, SessionKeeps, ParseBodyKeeps, OwnInterceptorKeeps,
       ControllerKeeps, ReturnKeeps, HandleErrorKeeps, LastResortKeeps DEF RequestNext, Unfound
  <2> QED
    BY <1>1, <1>3, <2>1, <2>2, ScriptStays DEF Unfound
<1> QED
  BY <1>2, <1>3

\* Every step, of the start of an application or of a request, keeps the invariant.
LEMMA Keeps == Inv /\ [Next]_vars => Inv'
<1> SUFFICES ASSUME Inv, [Next]_vars PROVE Inv'
  OBVIOUS
<1> USE DEF Inv
<1>1. CASE RoutesNext /\ UNCHANGED requestVars
  <2>1. app' = app
    BY <1>1 DEF RoutesNext, RunRestRoute, RunInterceptor, RunBodyParser, RunSessionCookie,
         RunCors, RunDispatcher, NextModule, EndStage1, Stage3, Ran, Fails
  <2>2. Scripted'
    BY <1>1 DEF Scripted, Unbuildable, requestVars
  <2> QED
    BY <1>1, <2>1, <2>2, RoutesKeep, RoutedKeeps, RequestStays DEF Unfound, requestVars
<1>2. CASE Ask \/ AskHead \/ RequestNext
  BY <1>2, RequestKeeps, RoutesStay
<1>3. CASE UNCHANGED vars
  BY <1>3, RequestStays, RoutesStay DEF vars, routesVars, requestVars, Unfound, Scripted,
                                        Unbuildable
<1> QED
  BY <1>1, <1>2, <1>3 DEF Next

\* The inductive invariant holds in every state of the specification.
THEOREM RequestsHold == Spec => []Inv
BY Starts, Keeps, PTL DEF Spec

-----------------------------------------------------------------------------
(* The properties.                                                          *)

\* Whatever throws, and wherever, the client gets a complete answer: with the
\* status of the error if one was logged, and below 500 if none was
\* (RequestsAreAnswered says where not).  For every application, every script,
\* and any number of guards and interceptors.
THEOREM AlwaysAnswered == Spec => []RequestsAreAnswered
<1>1. Inv => RequestsAreAnswered
  BY DEF Inv, RequestInv, Respond
<1> QED
  BY <1>1, RequestsHold, PTL

\* No body is read and no controller is called before all guards, of the module
\* and of the route, have let the request pass: however many they are, and
\* whatever extensions have put to the chain.
THEOREM GuardsAlwaysFirst == Spec => []GuardsComeFirst
<1>1. Inv => GuardsComeFirst
  <2> SUFFICES ASSUME Inv, passed.called \/ reads > 0, ~handler.answersOptions
               PROVE  \E r \in ToSet(app[handler.module].routes) :
                         /\ r.path = path /\ ToSet(r.methods) = handler.methods
                         /\ allowed = app[handler.module].guards + r.guards
    BY DEF GuardsComeFirst
  <2>1. at \in Nat /\ reads \in Nat /\ InChain
    BY DEF Inv, RequestInv, RequestTypes
  <2>2. allowed = handler.guards /\ at # 0
    BY <2>1 DEF InChain
  <2>3. HandlerFits(path, handler)
    BY <2>1, <2>2 DEF InChain
  <2> QED
    BY <2>2, <2>3 DEF HandlerFits
<1> QED
  BY <1>1, RequestsHold, PTL

\* Every handler of an application that serves has the interceptor of CORS once
\* if a module imports it; and the body of a request is parsed once before the
\* controller is called, whatever order the extensions were run in.
THEOREM AlwaysEquippedOnce == Spec => []EquippedOnce
<1>1. Inv => EquippedOnce
  <2> SUFFICES ASSUME Inv PROVE EquippedOnce
    OBVIOUS
  <2>1. ASSUME phase = "serving", \E m \in DOMAIN app : app[m].cors, NEW k \in DOMAIN router
        PROVE  Once("cors", router[k].chain)
    BY <2>1 DEF Inv, Routed, HandlerFits
  <2>2. ASSUME passed.called, ~handler.answersOptions, app[handler.module].body,
               Cardinality(handler.methods \intersect Accepted) <= 1
        PROVE  reads = IF handler.methods \intersect Accepted = {} THEN 0 ELSE 1
    <3>1. at \in Nat /\ InChain
      BY DEF Inv, RequestInv, RequestTypes
    <3>2. HandlerFits(path, handler)
      BY <2>2, <3>1 DEF InChain
    <3>3. IF handler.methods \intersect Accepted = {} THEN HasNone("body", handler.chain)
          ELSE Once("body", handler.chain)
      BY <2>2, <3>2 DEF HandlerFits, Parses
    <3> QED
      BY <2>2, <3>1, <3>3 DEF InChain
  <2> QED
    BY <2>1, <2>2 DEF EquippedOnce
<1> QED
  BY <1>1, RequestsHold, PTL
=============================================================================
