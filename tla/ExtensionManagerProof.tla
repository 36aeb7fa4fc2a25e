------------------------ MODULE ExtensionManagerProof ------------------------
(***************************************************************************)
(* Proofs about stage1 of the extensions, for any extensions and groups,   *)
(* any configurations and requests and any number of modules; and about    *)
(* the order that the importers make, from the two searches on.            *)
(***************************************************************************)
EXTENDS ExtensionManager, FiniteSetTheorems, SequenceTheorems, WellFoundedInduction, TLAPS

-----------------------------------------------------------------------------
(* Numbers.                                                                 *)

\* A set of numbers has a least one.
LEMMA LeastOf ==
    ASSUME NEW S \in SUBSET Nat, S # {}
    PROVE  \E n \in S : \A k \in S : n <= k
<1>1. PICK n \in S : \A k \in S : <<k, n>> \notin OpToRel(<, Nat)
  BY WFMin, NatLessThanWellFounded, Zenon
<1>2. \A k \in S : ~(k < n)
  BY <1>1, Zenon DEF OpToRel
<1> QED
  BY <1>2

-----------------------------------------------------------------------------
(* The two searches of ExtensionOrder.                                      *)

\* What is repeated from a first state gives a state each time.
UpTo(f, n, S, base, step) ==
    /\ f \in [0..n -> S]
    /\ f[0] = base
    /\ \A k \in 0..n : k > 0 => f[k] = step[f[k - 1]]

\* There is such a function of all numbers.
LEMMA Iterates ==
    ASSUME NEW S, NEW base \in S, NEW step \in [S -> S]
    PROVE  \E f \in [Nat -> S] : f[0] = base /\ \A n \in Nat : f[n + 1] = step[f[n]]
<1>1. \A n \in Nat : \E f : UpTo(f, n, S, base, step)
  <2> DEFINE Bad == {n \in Nat : ~\E f : UpTo(f, n, S, base, step)}
  <2> SUFFICES ASSUME Bad # {} PROVE FALSE
    OBVIOUS
  <2>1. PICK n \in Bad : \A k \in Bad : n <= k
    <3> HIDE DEF Bad
    <3>1. Bad \in SUBSET Nat
      BY DEF Bad
    <3> QED
      BY <3>1, LeastOf
  <2>2. CASE n = 0
    <3>1. UpTo([k \in 0..0 |-> base], 0, S, base, step)
      BY DEF UpTo
    <3> QED
      BY <2>2, <3>1
  <2>3. CASE n # 0
    <3>1. n \in Nat /\ n - 1 \in Nat /\ n - 1 \notin Bad
      BY <2>1, <2>3
    <3>2. PICK f : UpTo(f, n - 1, S, base, step)
      BY <3>1
    <3> DEFINE g == [k \in 0..n |-> IF k = n THEN step[f[n - 1]] ELSE f[k]]
    <3>3. f[n - 1] \in S /\ step[f[n - 1]] \in S
      BY <3>1, <3>2 DEF UpTo
    <3>4. g \in [0..n -> S]
      BY <3>1, <3>2, <3>3 DEF UpTo
    <3>5. g[0] = base
      BY <3>1, <3>2, <2>3 DEF UpTo
    <3>6. ASSUME NEW k \in 0..n, k > 0 PROVE g[k] = step[g[k - 1]]
      <4>1. CASE k = n
        BY <3>1, <3>6, <4>1
      <4>2. CASE k # n
        <5>1. k \in 0..n - 1 /\ k - 1 # n /\ k - 1 \in 0..n
          BY <3>1, <3>6, <4>2
        <5>2. f[k] = step[f[k - 1]]
          BY <3>2, <3>6, <5>1 DEF UpTo
        <5> QED
          BY <4>2, <5>1, <5>2
      <4> QED
        BY <4>1, <4>2
    <3>7. UpTo(g, n, S, base, step)
      <4> HIDE DEF g
      <4> QED
        BY <3>4, <3>5, <3>6 DEF UpTo
    <3> QED
      BY <3>7
  <2> QED
    BY <2>2, <2>3
<1>2. \A n \in Nat : \A f, g : UpTo(f, n, S, base, step) /\ UpTo(g, n + 1, S, base, step)
                                  => f[n] = g[n]
  <2> DEFINE Bad == {n \in Nat : \E f, g : UpTo(f, n, S, base, step)
                                            /\ UpTo(g, n + 1, S, base, step) /\ f[n] # g[n]}
  <2> SUFFICES ASSUME Bad # {} PROVE FALSE
    OBVIOUS
  <2>1. PICK n \in Bad : \A k \in Bad : n <= k
    <3> HIDE DEF Bad
    <3>1. Bad \in SUBSET Nat
      BY DEF Bad
    <3> QED
      BY <3>1, LeastOf
  <2>2. PICK f, g : /\ UpTo(f, n, S, base, step) /\ UpTo(g, n + 1, S, base, step)
                    /\ f[n] # g[n]
    OBVIOUS
  <2>3. n # 0
    BY <2>2 DEF UpTo
  <2>4. n - 1 \in Nat /\ n - 1 \notin Bad
    BY <2>1, <2>3
  <2>5. UpTo([k \in 0..n - 1 |-> f[k]], n - 1, S, base, step)
    <3>1. /\ f \in [0..n -> S] /\ f[0] = base
          /\ \A k \in 0..n : k > 0 => f[k] = step[f[k - 1]]
      BY <2>2 DEF UpTo
    <3>2. \A k \in 0..n - 1 : k \in 0..n /\ (k > 0 => k - 1 \in 0..n - 1)
      BY <2>4
    <3> QED
      BY <2>4, <3>1, <3>2 DEF UpTo
  <2>6. UpTo([k \in 0..n |-> g[k]], n, S, base, step)
    <3>1. /\ g \in [0..n + 1 -> S] /\ g[0] = base
          /\ \A k \in 0..n + 1 : k > 0 => g[k] = step[g[k - 1]]
      BY <2>2 DEF UpTo
    <3>2. \A k \in 0..n : k \in 0..n + 1 /\ (k > 0 => k - 1 \in 0..n)
      BY <2>4
    <3> QED
      BY <2>4, <3>1, <3>2 DEF UpTo
  <2>7. f[n - 1] = g[n - 1]
    <3>1. (n - 1) + 1 = n
      BY <2>4
    <3> DEFINE f1 == [k \in 0..n - 1 |-> f[k]]
               g1 == [k \in 0..n |-> g[k]]
    <3>2. f1[n - 1] = f[n - 1] /\ g1[n - 1] = g[n - 1]
      BY <2>4
    <3> HIDE DEF f1, g1
    <3> QED
      BY <2>4, <2>5, <2>6, <3>1, <3>2 DEF f1, g1
  <2>8. f[n] = step[f[n - 1]] /\ g[n] = step[g[n - 1]]
    BY <2>2, <2>3 DEF UpTo
  <2> QED
    BY <2>2, <2>7, <2>8
<1> DEFINE h == [n \in Nat |-> CHOOSE f : UpTo(f, n, S, base, step)]
           it == [n \in Nat |-> h[n][n]]
<1>3. \A n \in Nat : UpTo(h[n], n, S, base, step)
  BY <1>1
<1> HIDE DEF h
<1>4. it \in [Nat -> S] /\ it[0] = base
  BY <1>3 DEF UpTo
<1>5. ASSUME NEW n \in Nat PROVE it[n + 1] = step[it[n]]
  <2>1. UpTo(h[n], n, S, base, step) /\ UpTo(h[n + 1], n + 1, S, base, step)
    BY <1>3
  <2>2. h[n][n] = h[n + 1][n]
    BY <1>2, <2>1
  <2>3. h[n + 1][n + 1] = step[h[n + 1][n]]
    BY <2>1 DEF UpTo
  <2> QED
    BY <2>2, <2>3
<1> HIDE DEF it
<1> QED
  BY <1>4, <1>5

\* Whatever repeats the steps from the first state has a state each time.
LEMMA Repeats ==
    ASSUME NEW S, NEW g, g[0] \in S, DOMAIN g = Nat, g = [n \in Nat |-> g[n]],
           \A n \in Nat : g[n] \in S => g[n + 1] \in S
    PROVE  g \in [Nat -> S]
<1> DEFINE Bad == {n \in Nat : g[n] \notin S}
<1> SUFFICES ASSUME Bad # {} PROVE FALSE
  OBVIOUS
<1>1. PICK n \in Bad : \A k \in Bad : n <= k
  <2>1. Bad \in SUBSET Nat
    OBVIOUS
  <2> HIDE DEF Bad
  <2> QED
    BY <2>1, LeastOf
<1>2. n - 1 \in Nat /\ (n - 1) + 1 = n /\ n - 1 \notin Bad
  BY <1>1
<1> QED
  BY <1>1, <1>2

-----------------------------------------------------------------------------
(* The graph of the configurations.                                         *)

Config == [extension : Ext, before : Seq(Ext), after : Seq(Ext)]
IsConfigs(configs) ==
    /\ DOMAIN configs \in SUBSET Nat /\ IsFiniteSet(DOMAIN configs)
    /\ configs \in [DOMAIN configs -> Config]

\* n is on every way through the graph that begins at e.
Reaches(configs, e, n) ==
    \A S \in SUBSET Origin(configs) :
        e \in S /\ (\A d \in getGraph(configs) : d[1] \in S => d[2] \in S) => n \in S

\* The least number of a set is one of them.
LEMMA LeastIsOne ==
    ASSUME NEW S \in SUBSET Nat, S # {}
    PROVE  Least(S) \in S
BY LeastOf DEF Least

\* The edges that a configuration adds are a list of pairs.
LEMMA EdgesAre ==
    ASSUME NEW c \in Config
    PROVE  EdgesOf(c) \in Seq(Ext \X Ext)
<1>1. [j \in DOMAIN c.before |-> <<c.before[j], c.extension>>] \in Seq(Ext \X Ext)
  BY DEF Config
<1>2. [j \in DOMAIN c.after |-> <<c.extension, c.after[j]>>] \in Seq(Ext \X Ext)
  BY DEF Config
<1> QED
  BY <1>1, <1>2, ConcatProperties DEF EdgesOf

\* The classes are finitely many.
LEMMA OriginIsFinite ==
    ASSUME NEW configs, IsConfigs(configs)
    PROVE  IsFiniteSet(Origin(configs)) /\ Origin(configs) \subseteq Ext
<1>1. Origin(configs) = {configs[i].extension : i \in DOMAIN configs}
  BY DEF Origin
<1>2. IsFiniteSet(DOMAIN configs)
  BY DEF IsConfigs
<1> DEFINE f == [i \in DOMAIN configs |-> configs[i].extension]
<1>3. f \in Surjection(DOMAIN configs, Origin(configs))
  BY <1>1 DEF Surjection
<1>4. IsFiniteSet(Origin(configs))
  BY <1>2, <1>3, FS_Surjection
<1> QED
  BY <1>1, <1>4 DEF IsConfigs, Config

\* The first class of a set is in it.
LEMMA FirstIsOne ==
    ASSUME NEW configs, IsConfigs(configs), NEW S \in SUBSET Origin(configs), S # {}
    PROVE  FirstOf(configs, S) \in S
<1> DEFINE I == {i \in DOMAIN configs : configs[i].extension \in S}
<1>1. I \in SUBSET Nat /\ I # {}
  BY DEF Origin, IsConfigs
<1> HIDE DEF I
<1>2. Least(I) \in I
  BY <1>1, LeastIsOne
<1> QED
  BY <1>2 DEF I, FirstOf

\* The first neighbour in a set is a neighbour in it.
LEMMA FirstIsNeighbor ==
    ASSUME NEW configs, IsConfigs(configs), NEW S \in SUBSET Origin(configs), NEW e,
           Neighbors(configs, e, S) # {}
    PROVE  FirstNeighbor(configs, e, S) \in Neighbors(configs, e, S)
<1>1. PICK n \in S : <<e, n>> \in getGraph(configs)
  BY DEF Neighbors
<1> DEFINE d == <<e, n>>
<1>2. PICK i \in DOMAIN configs : \E j \in DOMAIN EdgesOf(configs[i]) : EdgesOf(configs[i])[j] = d
  BY <1>1 DEF getGraph
<1>3. PICK j \in DOMAIN EdgesOf(configs[i]) : EdgesOf(configs[i])[j] = d
  BY <1>2
<1>4. d[1] = e /\ d[2] = n
  OBVIOUS
<1>5. j \in Leading(configs[i], e, S)
  BY <1>1, <1>3, <1>4 DEF Leading
<1> DEFINE I == {k \in DOMAIN configs : Leading(configs[k], e, S) # {}}
<1>6. I \in SUBSET Nat /\ I # {}
  BY <1>2, <1>5 DEF IsConfigs
<1> HIDE DEF I
<1>7. Least(I) \in I
  BY <1>6, LeastIsOne
<1>8. PICK k \in DOMAIN configs : k = Least(I) /\ Leading(configs[k], e, S) # {}
  BY <1>7 DEF I
<1> DEFINE J == Leading(configs[k], e, S)
           all == EdgesOf(configs[k])
<1>9. configs[k] \in Config
  BY DEF IsConfigs
<1>10. all \in Seq(Ext \X Ext)
  BY <1>9, EdgesAre
<1>11. J \in SUBSET Nat /\ J # {}
  BY <1>8, <1>10 DEF Leading
<1>12. Least(J) \in J
  BY <1>11, LeastIsOne
<1>13. PICK l \in DOMAIN all : l = Least(J) /\ all[l][1] = e /\ all[l][2] \in S
  BY <1>12 DEF Leading
<1>14. all[l] \in Ext \X Ext
  BY <1>10
<1>15. all[l] = <<e, all[l][2]>>
  BY <1>13, <1>14
<1>16. e \in Origin(configs)
  BY <1>1 DEF getGraph
<1>17. <<e, all[l][2]>> \in getGraph(configs)
  BY <1>13, <1>15, <1>16 DEF getGraph
<1>18. FirstNeighbor(configs, e, S) = all[l][2]
  BY <1>8, <1>13 DEF FirstNeighbor, I
<1> QED
  BY <1>13, <1>17, <1>18 DEF Neighbors

-----------------------------------------------------------------------------
(* The steps of the two searches.                                           *)

Sorting(configs) ==
    [visited : SUBSET Origin(configs), path : Seq(Origin(configs)),
     ordered : Seq(Origin(configs))]
Searching(configs) ==
    [visited : SUBSET Origin(configs), path : Seq(Origin(configs)), found : BOOLEAN]

Started == [visited |-> {}, path |-> <<>>, ordered |-> <<>>]
SearchStarted == [visited |-> {}, path |-> <<>>, found |-> FALSE]

\* A class is entered: it is new, and a neighbour of the one it is called from.
Enters(configs, at, next) ==
    \E e \in Unvisited(configs, at) :
        /\ at.path # <<>> => <<Last(at.path), e>> \in getGraph(configs)
        /\ next.visited = at.visited \union {e} /\ next.path = Append(at.path, e)

\* A class is left, with all its neighbours visited.
Leaves(configs, at, next) ==
    /\ at.path # <<>>
    /\ \A d \in getGraph(configs) : d[1] = Last(at.path) => d[2] \in at.visited
    /\ next.visited = at.visited /\ next.path = SubSeq(at.path, 1, Len(at.path) - 1)

\* Nothing is left to do.
Rests(configs, at, next) == at.path = <<>> /\ Unvisited(configs, at) = {} /\ next = at

\* What the operators on states give.
LEMMA EnterSort ==
    ASSUME NEW configs, NEW at \in Sorting(configs), NEW e \in Origin(configs)
    PROVE  /\ Enter(at, e) \in Sorting(configs)
           /\ Enter(at, e).visited = at.visited \union {e}
           /\ Enter(at, e).path = Append(at.path, e)
           /\ Enter(at, e).ordered = at.ordered
<1>1. Append(at.path, e) \in Seq(Origin(configs))
  BY DEF Sorting
<1> QED
  BY <1>1 DEF Sorting, Enter

\* Entering a class in the search for a circle.
LEMMA EnterSearch ==
    ASSUME NEW configs, NEW at \in Searching(configs), NEW e \in Origin(configs)
    PROVE  /\ Enter(at, e) \in Searching(configs)
           /\ Enter(at, e).visited = at.visited \union {e}
           /\ Enter(at, e).path = Append(at.path, e)
           /\ Enter(at, e).found = at.found
<1>1. Append(at.path, e) \in Seq(Origin(configs))
  BY DEF Searching
<1> QED
  BY <1>1 DEF Searching, Enter

\* The class at the end of a path.
LEMMA LastOf ==
    ASSUME NEW S, NEW s \in Seq(S), s # <<>>
    PROVE  /\ Len(s) \in DOMAIN s /\ Last(s) = s[Len(s)] /\ Last(s) \in S
           /\ SubSeq(s, 1, Len(s) - 1) \in Seq(S)
           /\ Len(SubSeq(s, 1, Len(s) - 1)) = Len(s) - 1
           /\ \A i \in 1..Len(s) - 1 : SubSeq(s, 1, Len(s) - 1)[i] = s[i]
<1>1. Len(s) \in Nat /\ Len(s) # 0
  OBVIOUS
<1>2. Len(s) \in DOMAIN s /\ Last(s) = s[Len(s)] /\ Last(s) \in S
  BY <1>1 DEF Last
<1> DEFINE t == SubSeq(s, 1, Len(s) - 1)
<1>3. Len(s) - 1 \in Nat /\ Len(s) - 1 <= Len(s)
  BY <1>1
<1>4. t = [i \in 1..Len(s) - 1 |-> s[i]]
  BY <1>3
<1>5. \A i \in 1..Len(s) - 1 : t[i] = s[i] /\ s[i] \in S
  BY <1>3, <1>4
<1>6. t \in Seq(S) /\ Len(t) = Len(s) - 1
  <2> HIDE DEF t
  <2> QED
    BY <1>3, <1>4, <1>5
<1> QED
  BY <1>2, <1>5, <1>6

\* What a call that goes on finds next.
LEMMA NextOf ==
    ASSUME NEW configs, IsConfigs(configs), NEW at,
           at.path \in Seq(Origin(configs)), at.visited \in SUBSET Origin(configs)
    PROVE  LET new == Unvisited(configs, at)
               e == Last(at.path)
           IN  /\ new # {} => FirstOf(configs, new) \in new
               /\ \A S \in SUBSET Origin(configs) :
                     /\ Neighbors(configs, e, S) # {} =>
                           /\ FirstNeighbor(configs, e, S) \in S
                           /\ <<e, FirstNeighbor(configs, e, S)>> \in getGraph(configs)
                     /\ Neighbors(configs, e, S) = {} =>
                           \A d \in getGraph(configs) : d[1] = e => d[2] \in Origin(configs) \ S
<1> DEFINE new == Unvisited(configs, at)
           e == Last(at.path)
<1>1. new \subseteq Origin(configs)
  BY DEF Unvisited
<1>2. new # {} => FirstOf(configs, new) \in new
  BY <1>1, FirstIsOne
<1>3. ASSUME NEW S \in SUBSET Origin(configs), Neighbors(configs, e, S) # {}
      PROVE  /\ FirstNeighbor(configs, e, S) \in S
             /\ <<e, FirstNeighbor(configs, e, S)>> \in getGraph(configs)
  BY <1>3, FirstIsNeighbor DEF Neighbors
<1>4. ASSUME NEW S \in SUBSET Origin(configs), Neighbors(configs, e, S) = {},
             NEW d \in getGraph(configs), d[1] = e
      PROVE  d[2] \in Origin(configs) \ S
  BY <1>4 DEF Neighbors, getGraph
<1> QED
  BY <1>2, <1>3, <1>4

\* A step of the sort enters a class, or leaves one and appends it.
SortSteps(configs, at, next) ==
    /\ next \in Sorting(configs)
    /\ \/ Rests(configs, at, next)
       \/ Enters(configs, at, next) /\ next.ordered = at.ordered
       \/ Leaves(configs, at, next) /\ next.ordered = Append(at.ordered, Last(at.path))

\* What a step of the sort does.
LEMMA SortStep ==
    ASSUME NEW configs, IsConfigs(configs), NEW at \in Sorting(configs)
    PROVE  SortSteps(configs, at, dfs(configs, at))
<1> DEFINE new == Unvisited(configs, at)
           e == Last(at.path)
           next == dfs(configs, at)
<1> SUFFICES SortSteps(configs, at, next)
  OBVIOUS
<1>1. /\ at.path \in Seq(Origin(configs)) /\ at.visited \in SUBSET Origin(configs)
      /\ at.ordered \in Seq(Origin(configs))
  BY DEF Sorting
<1>2. new \in SUBSET Origin(configs)
  BY DEF Unvisited
<1>3. ASSUME NEW n \in new, next = Enter(at, n),
             at.path # <<>> => <<e, n>> \in getGraph(configs)
      PROVE  SortSteps(configs, at, next)
  <2>1. next \in Sorting(configs) /\ next.visited = at.visited \union {n}
        /\ next.path = Append(at.path, n) /\ next.ordered = at.ordered
    BY <1>2, <1>3, EnterSort
  <2> HIDE DEF next
  <2> QED
    BY <1>3, <2>1 DEF SortSteps, Enters
<1>4. CASE at.path = <<>> /\ new = {}
  <2>1. next = at
    BY <1>4 DEF dfs
  <2> QED
    BY <1>4, <2>1 DEF SortSteps, Rests
<1>5. CASE at.path = <<>> /\ new # {}
  <2>1. next = Enter(at, FirstOf(configs, new))
    BY <1>5 DEF dfs
  <2>2. FirstOf(configs, new) \in new
    BY <1>1, <1>5, NextOf
  <2> QED
    BY <1>3, <1>5, <2>1, <2>2
<1>6. CASE at.path # <<>> /\ Neighbors(configs, e, new) # {}
  <2>1. next = Enter(at, FirstNeighbor(configs, e, new))
    BY <1>6 DEF dfs
  <2>2. /\ FirstNeighbor(configs, e, new) \in new
        /\ <<e, FirstNeighbor(configs, e, new)>> \in getGraph(configs)
    BY <1>1, <1>2, <1>6, NextOf
  <2> QED
    BY <1>3, <2>1, <2>2
<1>7. CASE at.path # <<>> /\ Neighbors(configs, e, new) = {}
  <2>1. next = [Leave(at) EXCEPT !.ordered = Append(@, e)]
    BY <1>7 DEF dfs
  <2>2. e \in Origin(configs) /\ SubSeq(at.path, 1, Len(at.path) - 1) \in Seq(Origin(configs))
    BY <1>1, <1>7, LastOf
  <2>3. next \in Sorting(configs) /\ next.visited = at.visited
        /\ next.path = SubSeq(at.path, 1, Len(at.path) - 1)
        /\ next.ordered = Append(at.ordered, e)
    <3>1. Append(at.ordered, e) \in Seq(Origin(configs))
      BY <1>1, <2>2
    <3> HIDE DEF e
    <3> QED
      BY <1>1, <2>1, <2>2, <3>1 DEF Leave, Sorting
  <2>4. \A d \in getGraph(configs) : d[1] = e => d[2] \in at.visited
    <3>1. \A d \in getGraph(configs) : d[1] = e => d[2] \in Origin(configs) \ new
      BY <1>1, <1>2, <1>7, NextOf
    <3> QED
      BY <3>1 DEF Unvisited
  <2> HIDE DEF next
  <2> QED
    BY <1>7, <2>3, <2>4 DEF SortSteps, Leaves
<1> QED
  BY <1>4, <1>5, <1>6, <1>7

\* A step of the search for circles enters or leaves a class, or finds one.
SearchSteps(configs, at, next) ==
    /\ next \in Searching(configs)
    /\ \/ at.found /\ next = at
       \/ /\ ~at.found /\ next.found /\ at.path # <<>>
          /\ \E d \in getGraph(configs) : d[1] = Last(at.path) /\ d[2] \in Under(at)
       \/ /\ ~at.found /\ ~next.found
          /\ \/ Rests(configs, at, next)
             \/ Enters(configs, at, next)
             \/ /\ Leaves(configs, at, next)
                /\ \A d \in getGraph(configs) : d[1] = Last(at.path) => d[2] \notin Under(at)

\* What a step of the search for a circle does.
LEMMA SearchStep ==
    ASSUME NEW configs, IsConfigs(configs), NEW at \in Searching(configs)
    PROVE  SearchSteps(configs, at, dfsWithPath(configs, at))
<1> DEFINE new == Unvisited(configs, at)
           e == Last(at.path)
           met == new \union Under(at)
           first == FirstNeighbor(configs, e, met)
           next == dfsWithPath(configs, at)
<1> SUFFICES SearchSteps(configs, at, next)
  OBVIOUS
<1>1. /\ at.path \in Seq(Origin(configs)) /\ at.visited \in SUBSET Origin(configs)
      /\ at.found \in BOOLEAN
  BY DEF Searching
<1>2. new \in SUBSET Origin(configs) /\ met \in SUBSET Origin(configs)
  BY <1>1 DEF Unvisited, Under
<1>3. ASSUME NEW n \in new, next = Enter(at, n), ~at.found,
             at.path # <<>> => <<e, n>> \in getGraph(configs)
      PROVE  SearchSteps(configs, at, next)
  <2>1. next \in Searching(configs) /\ next.visited = at.visited \union {n}
        /\ next.path = Append(at.path, n) /\ next.found = at.found
    BY <1>2, <1>3, EnterSearch
  <2> HIDE DEF next
  <2> QED
    BY <1>3, <2>1 DEF SearchSteps, Enters
<1>4. CASE at.found
  <2>1. next = at
    BY <1>4 DEF dfsWithPath
  <2> QED
    BY <1>4, <2>1 DEF SearchSteps
<1>5. CASE ~at.found /\ at.path = <<>> /\ new = {}
  <2>1. next = at
    BY <1>5 DEF dfsWithPath
  <2> QED
    BY <1>5, <2>1 DEF SearchSteps, Rests
<1>6. CASE ~at.found /\ at.path = <<>> /\ new # {}
  <2>1. next = Enter(at, FirstOf(configs, new))
    BY <1>6 DEF dfsWithPath
  <2>2. FirstOf(configs, new) \in new
    BY <1>1, <1>6, NextOf
  <2> QED
    BY <1>3, <1>6, <2>1, <2>2
<1>7. CASE ~at.found /\ at.path # <<>> /\ Neighbors(configs, e, met) # {}
  <2>1. next = IF first \in Under(at) THEN [at EXCEPT !.found = TRUE] ELSE Enter(at, first)
    BY <1>7 DEF dfsWithPath
  <2>2. first \in met /\ <<e, first>> \in getGraph(configs)
    BY <1>1, <1>2, <1>7, NextOf
  <2>3. CASE first \in Under(at)
    <3>1. next \in Searching(configs) /\ next.found
      BY <1>1, <2>1, <2>3 DEF Searching
    <3> DEFINE d == <<e, first>>
    <3>2. d \in getGraph(configs) /\ d[1] = e /\ d[2] \in Under(at)
      BY <2>2, <2>3
    <3> HIDE DEF d, next
    <3> QED
      BY <1>7, <3>1, <3>2 DEF SearchSteps
  <2>4. CASE first \notin Under(at)
    <3>1. first \in new /\ next = Enter(at, first)
      BY <2>1, <2>2, <2>4
    <3> QED
      BY <1>3, <1>7, <2>2, <3>1
  <2> QED
    BY <2>3, <2>4
<1>8. CASE ~at.found /\ at.path # <<>> /\ Neighbors(configs, e, met) = {}
  <2>1. next = Leave(at)
    BY <1>8 DEF dfsWithPath
  <2>2. SubSeq(at.path, 1, Len(at.path) - 1) \in Seq(Origin(configs))
    BY <1>1, <1>8, LastOf
  <2>3. next \in Searching(configs) /\ next.visited = at.visited /\ ~next.found
        /\ next.path = SubSeq(at.path, 1, Len(at.path) - 1)
    BY <1>1, <1>8, <2>1, <2>2 DEF Leave, Searching
  <2>4. \A d \in getGraph(configs) : d[1] = e => d[2] \in Origin(configs) \ met
    BY <1>1, <1>2, <1>8, NextOf
  <2>5. \A d \in getGraph(configs) : d[1] = e => d[2] \in at.visited /\ d[2] \notin Under(at)
    BY <2>4 DEF Unvisited
  <2> HIDE DEF next
  <2> QED
    BY <1>8, <2>3, <2>5 DEF SearchSteps, Leaves
<1> QED
  BY <1>4, <1>5, <1>6, <1>7, <1>8

\* The states of the sort.
LEMMA SortRuns ==
    ASSUME NEW configs, IsConfigs(configs)
    PROVE  /\ sorting(configs) \in [Nat -> Sorting(configs)]
           /\ sorting(configs)[0] = Started
           /\ \A n \in Nat : sorting(configs)[n + 1] = dfs(configs, sorting(configs)[n])
<1> DEFINE S == Sorting(configs)
           step == [at \in S |-> dfs(configs, at)]
           run(f) == [n \in Nat |-> IF n = 0 THEN [visited |-> {}, path |-> <<>>, ordered |-> <<>>]
                                    ELSE dfs(configs, f[n - 1])]
           g == sorting(configs)
<1>1. \A at \in S : dfs(configs, at) \in S
  BY SortStep DEF SortSteps
<1>2. Started \in S
  BY DEF Started, Sorting
<1>3. PICK f \in [Nat -> S] : f[0] = Started /\ \A n \in Nat : f[n + 1] = step[f[n]]
  <2>1. step \in [S -> S]
    BY <1>1
  <2> HIDE DEF step, S
  <2> QED
    BY <1>2, <2>1, Iterates
<1>4. f = run(f)
  <2>1. ASSUME NEW n \in Nat PROVE f[n] = run(f)[n]
    <3>1. CASE n = 0
      BY <1>3, <3>1 DEF Started
    <3>2. CASE n # 0
      <4>1. n - 1 \in Nat /\ (n - 1) + 1 = n
        BY <3>2
      <4>2. f[n] = step[f[n - 1]] /\ f[n - 1] \in S
        BY <1>3, <4>1
      <4> QED
        BY <3>2, <4>2
    <3> QED
      BY <3>1, <3>2
  <2> QED
    BY <2>1
<1>5. g = run(g)
  <2>1. g = CHOOSE h : h = run(h)
    BY DEF sorting
  <2> HIDE DEF run, g
  <2> QED
    BY <1>4, <2>1
<1> HIDE DEF g
<1>6. DOMAIN g = Nat /\ g[0] = Started /\ g = [n \in Nat |-> g[n]]
  BY <1>5 DEF Started
<1>7. \A n \in Nat : g[n + 1] = dfs(configs, g[n])
  <2> SUFFICES ASSUME NEW n \in Nat PROVE g[n + 1] = dfs(configs, g[n])
    OBVIOUS
  <2>1. n + 1 \in Nat /\ n + 1 # 0 /\ (n + 1) - 1 = n
    OBVIOUS
  <2> QED
    BY <1>5, <2>1
<1>8. g \in [Nat -> S]
  BY <1>1, <1>2, <1>6, <1>7, Repeats
<1> QED
  BY <1>6, <1>7, <1>8 DEF g

\* The states of the search for circles.
LEMMA SearchRuns ==
    ASSUME NEW configs, IsConfigs(configs)
    PROVE  /\ searching(configs) \in [Nat -> Searching(configs)]
           /\ searching(configs)[0] = SearchStarted
           /\ \A n \in Nat : searching(configs)[n + 1] = dfsWithPath(configs, searching(configs)[n])
<1> DEFINE S == Searching(configs)
           step == [at \in S |-> dfsWithPath(configs, at)]
           run(f) == [n \in Nat |-> IF n = 0 THEN [visited |-> {}, path |-> <<>>, found |-> FALSE]
                                    ELSE dfsWithPath(configs, f[n - 1])]
           g == searching(configs)
<1>1. \A at \in S : dfsWithPath(configs, at) \in S
  BY SearchStep DEF SearchSteps
<1>2. SearchStarted \in S
  BY DEF SearchStarted, Searching
<1>3. PICK f \in [Nat -> S] : f[0] = SearchStarted /\ \A n \in Nat : f[n + 1] = step[f[n]]
  <2>1. step \in [S -> S]
    BY <1>1
  <2> HIDE DEF step, S
  <2> QED
    BY <1>2, <2>1, Iterates
<1>4. f = run(f)
  <2>1. ASSUME NEW n \in Nat PROVE f[n] = run(f)[n]
    <3>1. CASE n = 0
      BY <1>3, <3>1 DEF SearchStarted
    <3>2. CASE n # 0
      <4>1. n - 1 \in Nat /\ (n - 1) + 1 = n
        BY <3>2
      <4>2. f[n] = step[f[n - 1]] /\ f[n - 1] \in S
        BY <1>3, <4>1
      <4> QED
        BY <3>2, <4>2
    <3> QED
      BY <3>1, <3>2
  <2> QED
    BY <2>1
<1>5. g = run(g)
  <2>1. g = CHOOSE h : h = run(h)
    BY DEF searching
  <2> HIDE DEF run, g
  <2> QED
    BY <1>4, <2>1
<1> HIDE DEF g
<1>6. DOMAIN g = Nat /\ g[0] = SearchStarted /\ g = [n \in Nat |-> g[n]]
  BY <1>5 DEF SearchStarted
<1>7. \A n \in Nat : g[n + 1] = dfsWithPath(configs, g[n])
  <2> SUFFICES ASSUME NEW n \in Nat PROVE g[n + 1] = dfsWithPath(configs, g[n])
    OBVIOUS
  <2>1. n + 1 \in Nat /\ n + 1 # 0 /\ (n + 1) - 1 = n
    OBVIOUS
  <2> QED
    BY <1>5, <2>1
<1>8. g \in [Nat -> S]
  BY <1>1, <1>2, <1>6, <1>7, Repeats
<1> QED
  BY <1>6, <1>7, <1>8 DEF g

\* Ways through the graph.
LEMMA ReachesItself ==
    ASSUME NEW configs, NEW e
    PROVE  Reaches(configs, e, e)
BY DEF Reaches

\* A way goes on along an edge.
LEMMA ReachesFurther ==
    ASSUME NEW configs, NEW e, NEW d \in getGraph(configs), Reaches(configs, e, d[1])
    PROVE  Reaches(configs, e, d[2])
BY DEF Reaches

-----------------------------------------------------------------------------
(* What holds of the classes that are visited in n steps.                   *)

\* Each class under way has been visited, is under way once and leads to all that
\* have been called since; every step but the last ones has entered or left a class.
PathFits(configs, at, n) ==
    /\ at.visited \in SUBSET Origin(configs) /\ at.path \in Seq(Origin(configs))
    /\ Under(at) \subseteq at.visited
    /\ \A i, j \in DOMAIN at.path : at.path[i] = at.path[j] => i = j
    /\ \A i, j \in DOMAIN at.path : i <= j => Reaches(configs, at.path[i], at.path[j])
    /\ \/ n + Len(at.path) = 2 * Cardinality(at.visited)
       \/ at.path = <<>> /\ Unvisited(configs, at) = {}

\* A class that is entered is under way from then on.
LEMMA EntersFits ==
    ASSUME NEW configs, IsConfigs(configs), NEW at, NEW next, NEW n \in Nat,
           PathFits(configs, at, n), Enters(configs, at, next)
    PROVE  /\ PathFits(configs, next, n + 1)
           /\ \E e \in Unvisited(configs, at) :
                /\ at.path # <<>> => <<Last(at.path), e>> \in getGraph(configs)
                /\ next.visited = at.visited \union {e} /\ Under(next) = Under(at) \union {e}
                /\ Len(next.path) = Len(at.path) + 1
                /\ next.path[Len(next.path)] = e
                /\ \A i \in DOMAIN at.path : i \in DOMAIN next.path /\ next.path[i] = at.path[i]
<1>1. PICK e \in Unvisited(configs, at) :
         /\ at.path # <<>> => <<Last(at.path), e>> \in getGraph(configs)
         /\ next.visited = at.visited \union {e} /\ next.path = Append(at.path, e)
  BY DEF Enters
<1>2. /\ at.visited \in SUBSET Origin(configs) /\ at.path \in Seq(Origin(configs))
      /\ Under(at) \subseteq at.visited
      /\ e \in Origin(configs) /\ e \notin at.visited
  BY <1>1 DEF PathFits, Unvisited
<1> DEFINE l == Len(at.path)
<1>3. /\ next.path \in Seq(Origin(configs)) /\ Len(next.path) = l + 1 /\ l \in Nat
      /\ next.path[l + 1] = e
      /\ \A i \in 1..l : next.path[i] = at.path[i]
      /\ DOMAIN at.path = 1..l /\ DOMAIN next.path = 1..l + 1
  BY <1>1, <1>2
<1> HIDE DEF l
<1>4. Under(next) = Under(at) \union {e}
  <2>1. Under(next) = {next.path[i] : i \in 1..l + 1} /\ Under(at) = {at.path[i] : i \in 1..l}
    BY <1>3 DEF Under
  <2>2. \A i \in 1..l : i \in 1..l + 1
    BY <1>3
  <2>3. \A i \in 1..l + 1 : i \in 1..l \/ i = l + 1
    BY <1>3
  <2>4. l + 1 \in 1..l + 1
    BY <1>3
  <2> QED
    BY <1>3, <2>1, <2>2, <2>3, <2>4
<1>5. ASSUME NEW i \in DOMAIN next.path, NEW j \in DOMAIN next.path,
             next.path[i] = next.path[j]
      PROVE  i = j
  <2>1. \A k \in 1..l : at.path[k] # e
    BY <1>2, <1>3 DEF Under
  <2>2. \A h, k \in 1..l : at.path[h] = at.path[k] => h = k
    BY <1>3 DEF PathFits
  <2>3. (i \in 1..l \/ i = l + 1) /\ (j \in 1..l \/ j = l + 1)
    BY <1>3
  <2> QED
    BY <1>3, <1>5, <2>1, <2>2, <2>3
<1>6. next.visited \in SUBSET Origin(configs) /\ Under(next) \subseteq next.visited
  BY <1>1, <1>2, <1>4
<1>7. n + 1 + Len(next.path) = 2 * Cardinality(next.visited)
  <2>1. n + l = 2 * Cardinality(at.visited)
    BY <1>1 DEF PathFits, l
  <2>2. PICK V : V = at.visited
    OBVIOUS
  <2>3. IsFiniteSet(V)
    BY <1>2, <2>2, OriginIsFinite, FS_Subset
  <2>4. Cardinality(V \union {e}) = Cardinality(V) + 1
    <3>1. e \notin V
      BY <1>2, <2>2
    <3> QED
      BY <2>3, <3>1, FS_AddElement, Zenon
  <2>5. PICK c \in Nat : c = Cardinality(V)
    BY <2>3, FS_CardinalityType
  <2>6. Cardinality(next.visited) = c + 1 /\ n + l = 2 * c
    BY <1>1, <2>1, <2>2, <2>4, <2>5
  <2> QED
    BY <1>3, <2>6
<1>8. ASSUME NEW i \in DOMAIN next.path, NEW j \in DOMAIN next.path, i <= j
      PROVE  Reaches(configs, next.path[i], next.path[j])
  <2>1. CASE j \in 1..l
    <3>1. i \in 1..l
      BY <1>3, <1>8, <2>1
    <3> QED
      BY <1>3, <1>8, <2>1, <3>1 DEF PathFits
  <2>2. CASE i = l + 1
    <3>1. j = l + 1
      BY <1>3, <1>8, <2>2
    <3> QED
      BY <2>2, <3>1, ReachesItself
  <2>3. CASE i \in 1..l /\ j = l + 1
    <3>1. at.path # <<>>
      BY <1>2, <1>3, <2>3 DEF l
    <3>2. l \in DOMAIN at.path /\ Last(at.path) = at.path[l]
      BY <1>2, <3>1, LastOf DEF l
    <3>3. Reaches(configs, at.path[i], Last(at.path))
      BY <1>3, <2>3, <3>2 DEF PathFits
    <3> DEFINE d == <<Last(at.path), e>>
    <3>4. d \in getGraph(configs) /\ d[1] = Last(at.path) /\ d[2] = e
      BY <1>1, <3>1
    <3> HIDE DEF d
    <3>5. Reaches(configs, at.path[i], e)
      BY <3>3, <3>4, ReachesFurther
    <3> QED
      BY <1>3, <2>3, <3>5
  <2> QED
    BY <1>3, <1>8, <2>1, <2>2, <2>3
<1>9. PathFits(configs, next, n + 1)
  BY <1>3, <1>5, <1>6, <1>7, <1>8 DEF PathFits
<1>10. /\ next.path[Len(next.path)] = e /\ Len(next.path) = Len(at.path) + 1
      /\ \A i \in DOMAIN at.path : i \in DOMAIN next.path /\ next.path[i] = at.path[i]
  BY <1>3 DEF l
<1> QED
  BY <1>1, <1>4, <1>9, <1>10

\* A class that is left is under way no longer.
LEMMA LeavesFits ==
    ASSUME NEW configs, IsConfigs(configs), NEW at, NEW next, NEW n \in Nat,
           PathFits(configs, at, n), Leaves(configs, at, next)
    PROVE  /\ PathFits(configs, next, n + 1)
           /\ Last(at.path) \in Under(at) /\ Last(at.path) = at.path[Len(at.path)]
           /\ Len(at.path) \in DOMAIN at.path
           /\ Under(next) = Under(at) \ {Last(at.path)}
           /\ Len(next.path) = Len(at.path) - 1
           /\ \A i \in DOMAIN next.path : i \in DOMAIN at.path /\ next.path[i] = at.path[i]
<1> DEFINE l == Len(at.path)
           e == Last(at.path)
<1>1. /\ at.visited \in SUBSET Origin(configs) /\ at.path \in Seq(Origin(configs))
      /\ Under(at) \subseteq at.visited /\ at.path # <<>>
      /\ next.visited = at.visited /\ next.path = SubSeq(at.path, 1, l - 1)
      /\ \A i, j \in DOMAIN at.path : at.path[i] = at.path[j] => i = j
  BY DEF PathFits, Leaves
<1>2. /\ l \in DOMAIN at.path /\ e = at.path[l]
      /\ next.path \in Seq(Origin(configs)) /\ Len(next.path) = l - 1
      /\ \A i \in 1..l - 1 : next.path[i] = at.path[i]
  BY <1>1, LastOf
<1>3. l \in Nat /\ l - 1 \in Nat /\ DOMAIN at.path = 1..l /\ DOMAIN next.path = 1..l - 1
  BY <1>1, <1>2
<1>4. Under(next) = Under(at) \ {e}
  <2>1. ASSUME NEW x \in Under(next) PROVE x \in Under(at) /\ x # e
    <3>1. PICK i \in 1..l - 1 : x = next.path[i]
      BY <1>3 DEF Under
    <3>2. i \in DOMAIN at.path /\ x = at.path[i] /\ i # l
      BY <1>2, <1>3, <3>1
    <3> QED
      BY <1>1, <1>2, <3>2 DEF Under
  <2>2. ASSUME NEW x \in Under(at), x # e PROVE x \in Under(next)
    <3>1. PICK i \in 1..l : x = at.path[i]
      BY <1>3 DEF Under
    <3>2. i \in 1..l - 1
      BY <1>2, <1>3, <2>2, <3>1
    <3> QED
      BY <1>2, <1>3, <3>1, <3>2 DEF Under
  <2> QED
    BY <2>1, <2>2
<1>5. \A i, j \in DOMAIN next.path : next.path[i] = next.path[j] => i = j
  <2>1. \A i \in 1..l - 1 : i \in 1..l
    BY <1>3
  <2> HIDE DEF l
  <2> QED
    BY <1>1, <1>2, <1>3, <2>1
<1>6. n + 1 + Len(next.path) = 2 * Cardinality(next.visited)
  <2>1. n + l = 2 * Cardinality(at.visited)
    BY <1>1 DEF PathFits
  <2>2. (n + 1) + (l - 1) = n + l
    <3> HIDE DEF l
    <3> QED
      BY <1>3
  <2> QED
    BY <1>1, <1>2, <2>1, <2>2
<1>7. \A i, j \in DOMAIN next.path : i <= j => Reaches(configs, next.path[i], next.path[j])
  <2>1. \A i \in 1..l - 1 : i \in 1..l
    BY <1>3
  <2>2. \A i, j \in 1..l : i <= j => Reaches(configs, at.path[i], at.path[j])
    BY <1>3 DEF PathFits
  <2> HIDE DEF l
  <2> QED
    BY <1>2, <1>3, <2>1, <2>2
<1>8. PathFits(configs, next, n + 1)
  BY <1>1, <1>2, <1>4, <1>5, <1>6, <1>7 DEF PathFits
<1>9. e \in Under(at) /\ \A i \in DOMAIN next.path : i \in DOMAIN at.path
  BY <1>2, <1>3 DEF Under
<1> QED
  BY <1>2, <1>3, <1>4, <1>8, <1>9

\* After twice as many steps as there are classes nothing is left to do.
LEMMA AllVisited ==
    ASSUME NEW configs, IsConfigs(configs), NEW at,
           PathFits(configs, at, 2 * Cardinality(Origin(configs)))
    PROVE  at.path = <<>> /\ at.visited = Origin(configs)
<1> DEFINE O == Origin(configs)
<1>1. /\ at.visited \in SUBSET O /\ at.path \in Seq(O)
      /\ \/ 2 * Cardinality(O) + Len(at.path) = 2 * Cardinality(at.visited)
         \/ at.path = <<>> /\ Unvisited(configs, at) = {}
  BY DEF PathFits
<1>2. CASE at.path = <<>> /\ Unvisited(configs, at) = {}
  BY <1>1, <1>2 DEF Unvisited
<1>3. CASE 2 * Cardinality(O) + Len(at.path) = 2 * Cardinality(at.visited)
  <2>1. IsFiniteSet(O) /\ IsFiniteSet(at.visited)
    BY <1>1, OriginIsFinite, FS_Subset
  <2>2. Cardinality(at.visited) <= Cardinality(O)
    BY <1>1, <2>1, FS_Subset
  <2>3. Cardinality(O) \in Nat /\ Cardinality(at.visited) \in Nat /\ Len(at.path) \in Nat
    BY <1>1, <2>1, FS_CardinalityType
  <2>4. Len(at.path) = 0 /\ Cardinality(at.visited) = Cardinality(O)
    BY <1>3, <2>2, <2>3
  <2>5. at.visited = O
    BY <1>1, <2>1, <2>4, FS_Subset
  <2> QED
    BY <1>1, <2>4, <2>5
<1> QED
  BY <1>1, <1>2, <1>3

-----------------------------------------------------------------------------
(* What the sort computes.                                                  *)

\* In the order of the sort, before a class come its neighbours, but for those
\* from which the graph leads back to it.
Sorts(configs, order) ==
    \A k \in DOMAIN order : \A d \in getGraph(configs) : d[1] = order[k] =>
        Reaches(configs, d[2], d[1]) \/ \E j \in DOMAIN order : j < k /\ order[j] = d[2]

\* What is visited is under way or has been sorted.
SortFits(configs, at, n) ==
    /\ PathFits(configs, at, n)
    /\ at.ordered \in Seq(Origin(configs))
    /\ \A e \in at.visited : e \in Under(at) \/ \E k \in DOMAIN at.ordered : at.ordered[k] = e
    /\ \A k \in DOMAIN at.ordered : at.ordered[k] \in at.visited \ Under(at)
    /\ \A j, k \in DOMAIN at.ordered : at.ordered[j] = at.ordered[k] => j = k
    /\ Sorts(configs, at.ordered)

\* It holds before the first step.
LEMMA SortStarts ==
    ASSUME NEW configs, IsConfigs(configs)
    PROVE  SortFits(configs, Started, 0)
<1>1. Cardinality({}) = 0
  BY FS_EmptySet
<1>2. PathFits(configs, Started, 0)
  BY <1>1 DEF PathFits, Started, Under
<1> QED
  BY <1>2 DEF SortFits, Started, Under, Sorts

\* A class that is entered is under way.
LEMMA SortEnters ==
    ASSUME NEW configs, IsConfigs(configs), NEW at, NEW next, NEW n \in Nat,
           SortFits(configs, at, n), Enters(configs, at, next), next.ordered = at.ordered
    PROVE  SortFits(configs, next, n + 1)
<1>1. PathFits(configs, at, n)
  BY DEF SortFits
<1>2. PathFits(configs, next, n + 1)
  BY <1>1, EntersFits
<1>3. PICK e \in Unvisited(configs, at) :
         /\ at.path # <<>> => <<Last(at.path), e>> \in getGraph(configs)
         /\ next.visited = at.visited \union {e} /\ Under(next) = Under(at) \union {e}
         /\ Len(next.path) = Len(at.path) + 1
         /\ next.path[Len(next.path)] = e
         /\ \A i \in DOMAIN at.path : i \in DOMAIN next.path /\ next.path[i] = at.path[i]
  BY <1>1, EntersFits
<1>4. e \notin at.visited
  BY <1>3 DEF Unvisited
<1>5. /\ \A x \in next.visited :
            x \in Under(next) \/ \E k \in DOMAIN next.ordered : next.ordered[k] = x
      /\ \A k \in DOMAIN next.ordered : next.ordered[k] \in next.visited \ Under(next)
  BY <1>3, <1>4 DEF SortFits
<1>7. /\ next.ordered \in Seq(Origin(configs))
      /\ \A j, k \in DOMAIN next.ordered : next.ordered[j] = next.ordered[k] => j = k
      /\ Sorts(configs, next.ordered)
  BY DEF SortFits
<1> QED
  BY <1>2, <1>5, <1>7 DEF SortFits

\* A class that is left comes last, after all it leads to that do not lead back.
LEMMA SortLeaves ==
    ASSUME NEW configs, IsConfigs(configs), NEW at, NEW next, NEW n \in Nat,
           SortFits(configs, at, n), Leaves(configs, at, next),
           next.ordered = Append(at.ordered, Last(at.path))
    PROVE  SortFits(configs, next, n + 1)
<1> DEFINE e == Last(at.path)
           o == at.ordered
           q == next.ordered
           m == Len(o)
<1>1. PathFits(configs, at, n)
  BY DEF SortFits
<1>2. /\ PathFits(configs, next, n + 1)
      /\ e \in Under(at) /\ e = at.path[Len(at.path)] /\ Len(at.path) \in DOMAIN at.path
      /\ Under(next) = Under(at) \ {e}
      /\ \A i \in DOMAIN next.path : i \in DOMAIN at.path /\ next.path[i] = at.path[i]
  BY <1>1, LeavesFits
<1>3. /\ next.visited = at.visited /\ at.path # <<>>
      /\ \A d \in getGraph(configs) : d[1] = e => d[2] \in at.visited
  BY DEF Leaves
<1>4. e \in at.visited /\ e \in Origin(configs) /\ at.path \in Seq(Origin(configs))
  BY <1>1, <1>2 DEF PathFits
<1>5. o \in Seq(Origin(configs)) /\ m \in Nat /\ DOMAIN o = 1..m
  BY DEF SortFits
<1>6. /\ q \in Seq(Origin(configs)) /\ DOMAIN q = 1..m + 1 /\ q[m + 1] = e
      /\ \A k \in 1..m : q[k] = o[k]
  BY <1>4, <1>5
<1>7. /\ \A x \in at.visited : x \in Under(at) \/ \E k \in DOMAIN o : o[k] = x
      /\ \A k \in DOMAIN o : o[k] \in at.visited \ Under(at)
      /\ \A j, k \in DOMAIN o : o[j] = o[k] => j = k
      /\ \A i, j \in DOMAIN at.path : i <= j => Reaches(configs, at.path[i], at.path[j])
      /\ Sorts(configs, o)
  BY DEF SortFits, PathFits
<1> HIDE DEF e, o, q, m
<1>8. (\A k \in 1..m : k \in 1..m + 1) /\ m + 1 \in 1..m + 1
      /\ \A k \in 1..m + 1 : k \in 1..m \/ k = m + 1
  BY <1>5
<1>9. \A x \in next.visited : x \in Under(next) \/ \E k \in DOMAIN q : q[k] = x
  BY <1>2, <1>3, <1>5, <1>6, <1>7, <1>8
<1>10. \A k \in DOMAIN q : q[k] \in next.visited \ Under(next)
  BY <1>2, <1>3, <1>4, <1>5, <1>6, <1>7, <1>8
<1>11. \A j, k \in DOMAIN q : q[j] = q[k] => j = k
  <2>1. \A k \in 1..m : q[k] # e
    BY <1>2, <1>5, <1>6, <1>7
  <2> QED
    BY <1>5, <1>6, <1>7, <1>8, <2>1
<1>12. Sorts(configs, q)
  <2> SUFFICES ASSUME NEW k \in DOMAIN q, NEW d \in getGraph(configs), d[1] = q[k],
                      ~Reaches(configs, d[2], d[1])
               PROVE  \E j \in DOMAIN q : j < k /\ q[j] = d[2]
    BY DEF Sorts
  <2>1. CASE k \in 1..m
    <3>1. PICK j \in DOMAIN o : j < k /\ o[j] = d[2]
      BY <1>5, <1>6, <1>7, <2>1 DEF Sorts
    <3>2. j \in DOMAIN q /\ q[j] = d[2]
      BY <1>5, <1>6, <1>8, <3>1
    <3> QED
      BY <3>1, <3>2
  <2>2. CASE k = m + 1
    <3>1. d[1] = e /\ d[2] \in at.visited
      BY <1>3, <1>6, <2>2
    <3>2. d[2] \notin Under(at)
      <4> SUFFICES ASSUME d[2] \in Under(at) PROVE FALSE
        OBVIOUS
      <4>1. PICK i \in DOMAIN at.path : at.path[i] = d[2]
        BY DEF Under
      <4>2. i <= Len(at.path)
        BY <1>4, <4>1
      <4> QED
        BY <1>2, <1>7, <3>1, <4>1, <4>2
    <3>3. PICK j \in DOMAIN o : o[j] = d[2]
      BY <1>7, <3>1, <3>2
    <3>4. j \in DOMAIN q /\ q[j] = d[2] /\ j < k
      BY <1>5, <1>6, <1>8, <2>2, <3>3
    <3> QED
      BY <3>4
  <2> QED
    BY <1>6, <1>8, <2>1, <2>2
<1> QED
  BY <1>2, <1>6, <1>9, <1>10, <1>11, <1>12 DEF SortFits, q

\* Every state of the sort is like that.
LEMMA SortStays ==
    ASSUME NEW configs, IsConfigs(configs)
    PROVE  \A n \in Nat : SortFits(configs, sorting(configs)[n], n)
<1> DEFINE g == sorting(configs)
           Bad == {n \in Nat : ~SortFits(configs, g[n], n)}
<1> SUFFICES ASSUME Bad # {} PROVE FALSE
  OBVIOUS
<1>1. PICK n \in Bad : \A k \in Bad : n <= k
  <2>1. Bad \in SUBSET Nat
    OBVIOUS
  <2> HIDE DEF Bad
  <2> QED
    BY <2>1, LeastOf
<1>2. n # 0
  BY <1>1, SortRuns, SortStarts
<1>3. PICK k \in Nat : n = k + 1 /\ k \notin Bad
  <2>1. n - 1 \in Nat /\ n = (n - 1) + 1 /\ n - 1 \notin Bad
    BY <1>1, <1>2
  <2> QED
    BY <2>1
<1>4. g \in [Nat -> Sorting(configs)] /\ g[k + 1] = dfs(configs, g[k])
  BY SortRuns
<1>5. PICK at, next : at = g[k] /\ next = g[k + 1] /\ at \in Sorting(configs)
  BY <1>4
<1>6. SortSteps(configs, at, next) /\ SortFits(configs, at, k)
  BY <1>3, <1>4, <1>5, SortStep
<1>7. CASE Rests(configs, at, next)
  <2>1. next = at /\ at.path = <<>> /\ Unvisited(configs, at) = {}
    BY <1>7 DEF Rests
  <2>2. SortFits(configs, next, k + 1)
    BY <1>6, <2>1 DEF SortFits, PathFits
  <2> QED
    BY <1>1, <1>3, <1>5, <2>2
<1>8. CASE Enters(configs, at, next) /\ next.ordered = at.ordered
  BY <1>1, <1>3, <1>5, <1>6, <1>8, SortEnters
<1>9. CASE Leaves(configs, at, next) /\ next.ordered = Append(at.ordered, Last(at.path))
  BY <1>1, <1>3, <1>5, <1>6, <1>9, SortLeaves
<1> QED
  BY <1>6, <1>7, <1>8, <1>9 DEF SortSteps

\* The sort has each class once, and sorts them.
LEMMA SortIsComplete ==
    ASSUME NEW configs, IsConfigs(configs)
    PROVE  LET order == topologicalSort(configs)
           IN  /\ order \in Seq(Origin(configs))
               /\ \A e \in Origin(configs) : \E k \in DOMAIN order : order[k] = e
               /\ \A j, k \in DOMAIN order : order[j] = order[k] => j = k
               /\ Sorts(configs, order)
<1> DEFINE n == 2 * Cardinality(Origin(configs))
           at == sorting(configs)[n]
<1>1. n \in Nat
  BY OriginIsFinite, FS_CardinalityType
<1>2. SortFits(configs, at, n)
  BY <1>1, SortStays
<1>3. PathFits(configs, at, n)
  BY <1>2 DEF SortFits
<1>4. at.path = <<>> /\ at.visited = Origin(configs)
  BY <1>3, AllVisited
<1>5. Under(at) = {}
  BY <1>4 DEF Under
<1>6. topologicalSort(configs) = at.ordered
  BY DEF topologicalSort
<1> HIDE DEF at
<1> QED
  BY <1>2, <1>4, <1>5, <1>6 DEF SortFits

-----------------------------------------------------------------------------
(* What the search for circles finds.                                       *)

\* As long as nothing is found, the classes that are done lead only to others
\* that are, and never back; something is found where an edge is on a circle.
Done(at) == at.visited \ Under(at)
SearchFits(configs, at, n) ==
    /\ ~at.found =>
          /\ PathFits(configs, at, n)
          /\ \A d \in getGraph(configs) : d[1] \in Done(at) =>
                d[2] \in Done(at) /\ ~Reaches(configs, d[2], d[1])
    /\ at.found => \E d \in getGraph(configs) : Reaches(configs, d[2], d[1])

\* It holds before the first step.
LEMMA SearchStarts ==
    ASSUME NEW configs, IsConfigs(configs)
    PROVE  SearchFits(configs, SearchStarted, 0)
<1>1. Cardinality({}) = 0
  BY FS_EmptySet
<1>2. PathFits(configs, SearchStarted, 0)
  BY <1>1 DEF PathFits, SearchStarted, Under
<1> QED
  BY <1>2 DEF SearchFits, Done, SearchStarted

\* A class that is entered has led nowhere yet.
LEMMA SearchEnters ==
    ASSUME NEW configs, IsConfigs(configs), NEW at, NEW next, NEW n \in Nat,
           SearchFits(configs, at, n), ~at.found, ~next.found,
           Enters(configs, at, next)
    PROVE  SearchFits(configs, next, n + 1)
<1>1. PathFits(configs, at, n)
  BY DEF SearchFits
<1>2. PathFits(configs, next, n + 1)
  BY <1>1, EntersFits
<1>3. PICK e \in Unvisited(configs, at) :
         /\ at.path # <<>> => <<Last(at.path), e>> \in getGraph(configs)
         /\ next.visited = at.visited \union {e} /\ Under(next) = Under(at) \union {e}
         /\ Len(next.path) = Len(at.path) + 1
         /\ next.path[Len(next.path)] = e
         /\ \A i \in DOMAIN at.path : i \in DOMAIN next.path /\ next.path[i] = at.path[i]
  BY <1>1, EntersFits
<1>4. e \notin at.visited
  BY <1>3 DEF Unvisited
<1>5. Done(next) = Done(at)
  BY <1>3, <1>4 DEF Done
<1> QED
  BY <1>2, <1>5 DEF SearchFits

\* A class that is left leads only to classes that have been left.
LEMMA SearchLeaves ==
    ASSUME NEW configs, IsConfigs(configs), NEW at, NEW next, NEW n \in Nat,
           SearchFits(configs, at, n), ~at.found, ~next.found,
           Leaves(configs, at, next),
           \A d \in getGraph(configs) : d[1] = Last(at.path) => d[2] \notin Under(at)
    PROVE  SearchFits(configs, next, n + 1)
<1> DEFINE e == Last(at.path)
<1>1. PathFits(configs, at, n)
  BY DEF SearchFits
<1>2. PathFits(configs, next, n + 1) /\ e \in Under(at) /\ Under(next) = Under(at) \ {e}
  BY <1>1, LeavesFits
<1>3. next.visited = at.visited
      /\ \A d \in getGraph(configs) : d[1] = e => d[2] \in Done(at)
  BY DEF Leaves, Done
<1>4. e \in at.visited /\ at.visited \in SUBSET Origin(configs)
  BY <1>1, <1>2 DEF PathFits
<1> HIDE DEF e
<1>5. Done(next) = Done(at) \union {e} /\ e \notin Done(at)
  BY <1>2, <1>3, <1>4 DEF Done
<1>6. \A d \in getGraph(configs) : d[1] \in Done(at) =>
         d[2] \in Done(at) /\ ~Reaches(configs, d[2], d[1])
  BY DEF SearchFits
<1>7. ASSUME NEW x \in Done(at) PROVE ~Reaches(configs, x, e)
  <2>1. Done(at) \in SUBSET Origin(configs)
    BY <1>4 DEF Done
  <2> QED
    BY <1>5, <1>6, <2>1 DEF Reaches
<1>8. \A d \in getGraph(configs) : d[1] \in Done(next) =>
         d[2] \in Done(next) /\ ~Reaches(configs, d[2], d[1])
  BY <1>3, <1>5, <1>6, <1>7
<1> QED
  BY <1>2, <1>8 DEF SearchFits

\* Every state of the search is like that.
LEMMA SearchStays ==
    ASSUME NEW configs, IsConfigs(configs)
    PROVE  \A n \in Nat : SearchFits(configs, searching(configs)[n], n)
<1> DEFINE g == searching(configs)
           Bad == {n \in Nat : ~SearchFits(configs, g[n], n)}
<1> SUFFICES ASSUME Bad # {} PROVE FALSE
  OBVIOUS
<1>1. PICK n \in Bad : \A k \in Bad : n <= k
  <2>1. Bad \in SUBSET Nat
    OBVIOUS
  <2> HIDE DEF Bad
  <2> QED
    BY <2>1, LeastOf
<1>2. n # 0
  BY <1>1, SearchRuns, SearchStarts
<1>3. PICK k \in Nat : n = k + 1 /\ k \notin Bad
  <2>1. n - 1 \in Nat /\ n = (n - 1) + 1 /\ n - 1 \notin Bad
    BY <1>1, <1>2
  <2> QED
    BY <2>1
<1>4. g \in [Nat -> Searching(configs)] /\ g[k + 1] = dfsWithPath(configs, g[k])
  BY SearchRuns
<1>5. PICK at, next : at = g[k] /\ next = g[k + 1] /\ at \in Searching(configs)
  BY <1>4
<1>6. SearchSteps(configs, at, next) /\ SearchFits(configs, at, k)
  BY <1>3, <1>4, <1>5, SearchStep
<1>7. CASE next.found
  <2>1. CASE at.found /\ next = at
    BY <1>1, <1>3, <1>5, <1>6, <2>1 DEF SearchFits
  <2>2. CASE ~at.found
    <3>1. at.path # <<>> /\ at.path \in Seq(Origin(configs)) /\ PathFits(configs, at, k)
      BY <1>6, <1>7, <2>2 DEF SearchFits, SearchSteps, PathFits
    <3>2. PICK d \in getGraph(configs) : d[1] = Last(at.path) /\ d[2] \in Under(at)
      BY <1>6, <1>7, <2>2 DEF SearchSteps
    <3>3. PICK i \in DOMAIN at.path : at.path[i] = d[2]
      BY <3>2 DEF Under
    <3>4. Len(at.path) \in DOMAIN at.path /\ Last(at.path) = at.path[Len(at.path)]
      BY <3>1, LastOf
    <3>5. i <= Len(at.path)
      BY <3>1, <3>3
    <3>6. Reaches(configs, d[2], d[1])
      BY <3>1, <3>2, <3>3, <3>4, <3>5 DEF PathFits
    <3> QED
      BY <1>1, <1>3, <1>5, <1>7, <3>6 DEF SearchFits
  <2> QED
    BY <1>6, <1>7, <2>1, <2>2 DEF SearchSteps
<1>8. CASE ~at.found /\ Rests(configs, at, next)
  <2>1. next = at /\ at.path = <<>> /\ Unvisited(configs, at) = {}
    BY <1>8 DEF Rests
  <2>2. SearchFits(configs, next, k + 1)
    BY <1>6, <2>1 DEF SearchFits, PathFits
  <2> QED
    BY <1>1, <1>3, <1>5, <2>2
<1>9. CASE ~at.found /\ ~next.found /\ Enters(configs, at, next)
  BY <1>1, <1>3, <1>5, <1>6, <1>9, SearchEnters
<1>10. CASE /\ ~at.found /\ ~next.found /\ Leaves(configs, at, next)
            /\ \A d \in getGraph(configs) : d[1] = Last(at.path) => d[2] \notin Under(at)
  BY <1>1, <1>3, <1>5, <1>6, <1>10, SearchLeaves
<1> QED
  BY <1>6, <1>7, <1>8, <1>9, <1>10 DEF SearchSteps

\* The search finds something just where an edge of the graph is on a circle.
LEMMA CirclesAreFound ==
    ASSUME NEW configs, IsConfigs(configs)
    PROVE  findCycle(configs) <=> \E d \in getGraph(configs) : Reaches(configs, d[2], d[1])
<1> DEFINE n == 2 * Cardinality(Origin(configs))
           at == searching(configs)[n]
<1>1. n \in Nat
  BY OriginIsFinite, FS_CardinalityType
<1>2. SearchFits(configs, at, n)
  BY <1>1, SearchStays
<1>3. findCycle(configs) = at.found
  BY DEF findCycle
<1> HIDE DEF at
<1>4. CASE at.found
  BY <1>2, <1>3, <1>4 DEF SearchFits
<1>5. CASE ~at.found
  <2>1. PathFits(configs, at, n)
    BY <1>2, <1>5 DEF SearchFits
  <2>2. at.path = <<>> /\ at.visited = Origin(configs)
    BY <2>1, AllVisited
  <2>3. Done(at) = Origin(configs)
    BY <2>2 DEF Done, Under
  <2>4. \A d \in getGraph(configs) : d[1] \in Origin(configs)
    BY DEF getGraph
  <2> QED
    BY <1>2, <1>3, <1>5, <2>3, <2>4 DEF SearchFits
<1> QED
  BY <1>4, <1>5

-----------------------------------------------------------------------------
(* What the importers make of the configurations.                           *)

\* The configurations that a module knows are configurations, of the classes that
\* it knows.
LEMMA ConfigsAre ==
    ASSUME NEW s \in Setup, NEW known \in SUBSET Ext
    PROVE  /\ IsConfigs(Configs(s, known)) /\ Origin(Configs(s, known)) = known
           /\ DOMAIN Configs(s, known) = {k \in DOMAIN s.configs : s.configs[k].extension \in known}
           /\ \A k \in DOMAIN Configs(s, known) : Configs(s, known)[k] = s.configs[k]
<1> DEFINE D == {k \in DOMAIN s.configs : s.configs[k].extension \in known}
           c == Configs(s, known)
<1>1. s.configs \in Seq(Config) /\ Origin(s.configs) = Ext
  BY ExtensionAssumption DEF Config
<1>2. c = [i \in D |-> s.configs[i]]
  BY DEF Configs
<1>3. DOMAIN s.configs = 1..Len(s.configs) /\ Len(s.configs) \in Nat
  BY <1>1
<1>4. D \in SUBSET Nat /\ IsFiniteSet(D)
  <2>1. PICK I : I = 1..Len(s.configs) /\ I \subseteq Nat
    BY <1>3
  <2>2. IsFiniteSet(I)
    BY <1>3, <2>1, FS_Interval
  <2>3. D \in SUBSET I
    BY <1>3, <2>1
  <2> HIDE DEF D
  <2>4. IsFiniteSet(D)
    BY <2>2, <2>3, FS_Subset
  <2> QED
    BY <2>1, <2>3, <2>4
<1>5. c \in [D -> Config]
  BY <1>1, <1>2
<1>6. Origin(c) = known
  <2>1. Origin(c) = {s.configs[i].extension : i \in D}
    BY <1>2 DEF Origin
  <2>2. Ext = {s.configs[i].extension : i \in DOMAIN s.configs}
    BY <1>1 DEF Origin
  <2> QED
    BY <2>1, <2>2
<1> HIDE DEF c
<1>7. IsConfigs(c)
  BY <1>4, <1>5 DEF IsConfigs
<1> QED
  BY <1>2, <1>6, <1>7 DEF c

\* The table of the importers has the results of the two searches.
LEMMA SortedIs ==
    ASSUME NEW s \in Setup, NEW known \in SUBSET Ext
    PROVE  /\ Sorted[s][known].refused = checkExtensionsGraph(Configs(s, known))
           /\ Sorted[s][known].order = topologicalSort(Configs(s, known))
<1> DEFINE row(r, S) == [refused |-> checkExtensionsGraph(Configs(r, S)),
                         order |-> topologicalSort(Configs(r, S))]
           rows(r) == [S \in SUBSET Ext |-> row(r, S)]
<1> HIDE DEF row
<1>1. \A f : Table(f) = f
  BY DEF Table
<1>2. Sorted = Table([r \in Setup |-> Table(rows(r))])
  BY DEF Sorted, row
<1> HIDE DEF rows
<1>3. Sorted[s] = rows(s)
  BY <1>1, <1>2
<1>4. Sorted[s][known] = row(s, known)
  BY <1>3 DEF rows
<1> QED
  BY <1>4 DEF row

\* Each class that a module knows has one place in its order.
LEMMA SortedOrder ==
    \A s \in Setup, known \in SUBSET Ext :
        LET order == Sorted[s][known].order
        IN  /\ order \in Seq(known)
            /\ \A e \in known : \E i \in DOMAIN order : order[i] = e
            /\ \A i, j \in DOMAIN order : order[i] = order[j] => i = j
<1> SUFFICES ASSUME NEW s \in Setup, NEW known \in SUBSET Ext
             PROVE  LET order == topologicalSort(Configs(s, known))
                    IN  /\ order \in Seq(known)
                        /\ \A e \in known : \E i \in DOMAIN order : order[i] = e
                        /\ \A i, j \in DOMAIN order : order[i] = order[j] => i = j
  BY SortedIs
<1>1. IsConfigs(Configs(s, known)) /\ Origin(Configs(s, known)) = known
  BY ConfigsAre
<1> QED
  BY <1>1, SortIsComplete

-----------------------------------------------------------------------------
(* The inductive invariant.                                                 *)

FrameSet == [of : Ext, perApp : BOOLEAN, todo : SUBSET Ext, at : Nat]
Final == [by : Ext, of : Ext, in : Module, phase : {"module", "perApp"}, data : SUBSET Result]

Types ==
    /\ setup \in Setup
    /\ has \in [Module -> SUBSET Ext]
    /\ entries \in [Module -> Seq(Ext)]
    /\ phase \in {"import", "module", "perApp", "done", "failed"}
    /\ mod \in 0..Modules /\ entry \in Nat
    /\ stack \in Seq(FrameSet)
    /\ countdown \in [Ext -> Nat]
    /\ metaCache \in [Module -> SUBSET Ext] /\ inited \in [Module -> SUBSET Ext]
    /\ appMeta \in [Ext -> SUBSET Result]
    /\ pending \in [Ext -> [Ext -> Module \union {None}]]
    /\ excluded \subseteq Ext \X Ext
    /\ finals \subseteq Final

Later(m, e) == {n \in Module : n > m /\ e \in Targets(n)}

\* A counter is the number of the modules to come.
Counted ==
    /\ phase \in {"import", "module"} => \A e \in Ext : countdown[e] = Cardinality(Later(mod, e))
    /\ phase \in {"perApp", "done"} => \A e \in Ext : countdown[e] = 0

\* In a module that has been handled each extension has run and has its group.
Handled(m) == has[m] \subseteq inited[m] \intersect metaCache[m]

Sound == phase \in {"module", "perApp", "done"}

Progress ==
    /\ phase = "import" => mod = 0 /\ entry = 0 /\ excluded = {} /\ finals = {}
    /\ phase \in {"import", "done"} => stack = <<>>
    /\ Sound => \A m \in Module : entries[m] = Sorted[setup][has[m]].order
    /\ phase = "module" =>
          /\ mod = 0 => entry = 0
          /\ entry <= Len(Entries(mod))
          /\ \A m \in Module : m < mod => Handled(m)
          /\ \A i \in DOMAIN Entries(mod) : i < entry \/ (i = entry /\ stack = <<>>) =>
                Entries(mod)[i] \in inited[mod] \intersect metaCache[mod]
    /\ phase \in {"perApp", "done"} => \A m \in Module : Handled(m)
    /\ phase = "done" => \A e, x \in Ext : pending[e][x] = None

\* A request that is under way is one of the call below it, and for a class that
\* the module does not know: it has no members to run.
Frames ==
    Sound /\ stack # <<>> =>
        LET base == stack[1]
        IN  /\ mod \in Module
            /\ base.todo \subseteq has[mod]
            /\ base.at > 0 => base.todo # {} /\ base.at <= Len(setup.asks[RunnerOf(base)]) + 1
            /\ phase = "module" =>
                  /\ entry \in DOMAIN Entries(mod) /\ base.of = Turn
                  /\ Turn \in inited[mod] \union base.todo
            /\ phase = "perApp" => base.at > 0
            /\ Len(stack) > 1 =>
                  /\ Len(stack) = 2 /\ base.at > 0 /\ stack[2].todo = {} /\ stack[2].at = 0
                  /\ Members(mod, stack[2].of) = {}
                  /\ base.at \in DOMAIN setup.asks[RunnerOf(base)]
                  /\ setup.asks[RunnerOf(base)][base.at].of = stack[2].of

\* What has been asked for so far by the extension that runs has been answered,
\* or it was told to wait.
Served(x, k) ==
    \A i \in DOMAIN setup.asks[x] :
        i < k /\ setup.asks[x][i].perApp => FinalsOf(x, setup.asks[x][i].of) # {}
Satisfied(x) ==
    \A i \in DOMAIN setup.asks[x] :
        setup.asks[x][i].perApp => FinalsOf(x, setup.asks[x][i].of) # {}
BeingRun(x) == stack # <<>> /\ stack[1].at > 0 /\ RunnerOf(stack[1]) = x
Waits(x) == \E e \in Ext : pending[e][x] # None /\ <<e, x>> \notin excluded
Accounted(x) == Satisfied(x) \/ BeingRun(x) \/ Waits(x)

Answers ==
    /\ \A x \in Ext : BeingRun(x) =>
          \/ Served(x, stack[1].at)
          \/ /\ stack[1].at = Len(setup.asks[x]) + 1
             /\ \E e \in Ext : pending[e][x] # None /\ countdown[e] > 0
    /\ \A m \in Module : \A x \in inited[m] : Accounted(x)

\* Who pends has asked; who is excluded has been served in full, and pends no
\* longer when the entry has been handled.
Lists ==
    /\ \A e, x \in Ext : pending[e][x] # None => x \in has[pending[e][x]] /\ AsksPerApp(x, e)
    /\ \A p \in excluded : countdown[p[1]] = 0
    /\ phase = "module" /\ stack = <<>> => \A p \in excluded : pending[p[1]][p[2]] = None

\* The results of the application are those of the modules that know a class.
Collected ==
    /\ \A m \in Module : \A e \in metaCache[m] : {m} \X Members(m, e) \subseteq appMeta[e]
    /\ \A e \in Ext : appMeta[e] \subseteq AppResults(e)

Complete ==
    \A f \in finals :
        /\ f.data = AppResults(f.of)
        /\ f.phase = "module" => Homes(f.of) \subseteq 1..f.in /\ f.by \in has[f.in]
        /\ phase = "module" => f.phase = "module" /\ f.in <= mod
        /\ Sound => countdown[f.of] = 0

Together(x, e) == Homes(x) \subseteq Homes(e) /\ OnlyAsks(x, e)
OneFinal(x, e) == \A f, g \in FinalsOf(x, e) : f.in = g.in /\ f.phase = g.phase

\* Who has been served is not pending, and who is run at the end has not been
\* served before.
Once ==
    \A x, e \in Ext : Together(x, e) =>
        /\ OneFinal(x, e)
        /\ Sound /\ FinalsOf(x, e) # {} =>
              pending[e][x] = None \/ (phase = "module" /\ <<e, x>> \in excluded)
        /\ phase = "perApp" /\ BeingRun(x) =>
              /\ pending[e][x] = None
              /\ \A f \in FinalsOf(x, e) : f.in = mod /\ f.phase = "perApp"

IInv ==
    /\ Types /\ Counted /\ Progress /\ Frames
    /\ Answers /\ Lists /\ Collected /\ Complete /\ Once

-----------------------------------------------------------------------------
(* Entries and the stack.                                                   *)

\* What an extension asks for is a list of requests.
LEMMA AsksAre ==
    ASSUME Types, NEW x \in Ext
    PROVE  setup.asks[x] \in Seq([of : Ext, perApp : BOOLEAN])
<1>1. setup \in Setup
  BY DEF Types
<1> QED
  BY <1>1, ExtensionAssumption

\* In the order that the importer has made each extension of the module has its
\* place.
LEMMA EntriesOf ==
    ASSUME Types, Progress, Sound, mod \in Module
    PROVE  /\ Entries(mod) \in Seq(has[mod])
           /\ \A e \in has[mod] : Rank(e) \in DOMAIN Entries(mod) /\ Entries(mod)[Rank(e)] = e
           /\ \A i \in DOMAIN Entries(mod) : Rank(Entries(mod)[i]) = i
<1>1. mod # None /\ entries[mod] = Sorted[setup][has[mod]].order
  BY DEF Progress, Module, None
<1>2. setup \in Setup /\ has[mod] \in SUBSET Ext
  BY DEF Types
<1>3. /\ Sorted[setup][has[mod]].order \in Seq(has[mod])
      /\ \A e \in has[mod] : \E i \in DOMAIN Sorted[setup][has[mod]].order :
            Sorted[setup][has[mod]].order[i] = e
      /\ \A i, j \in DOMAIN Sorted[setup][has[mod]].order :
            Sorted[setup][has[mod]].order[i] = Sorted[setup][has[mod]].order[j] => i = j
  BY <1>2, SortedOrder
<1>4. Entries(mod) = Sorted[setup][has[mod]].order
  BY <1>1 DEF Entries
<1> QED
  BY <1>3, <1>4 DEF Rank

\* The member that runs first is one of them.
LEMMA RunnerIsMember ==
    ASSUME Types, Progress, Sound, mod \in Module,
           NEW frame, frame.todo \subseteq has[mod], frame.todo # {}
    PROVE  RunnerOf(frame) \in frame.todo
<1> DEFINE S == {Rank(y) : y \in frame.todo}
<1>1. \A y \in frame.todo : Rank(y) \in Nat
  BY EntriesOf
<1>2. S \in SUBSET Nat /\ S # {}
  BY <1>1
<1>3. PICK n \in S : \A k \in S : n <= k
  BY <1>2, LeastOf
<1>4. PICK x \in frame.todo : n = Rank(x)
  BY <1>3
<1>5. \A y \in frame.todo : Rank(x) <= Rank(y)
  BY <1>3, <1>4
<1> QED
  BY <1>5, Zenon DEF RunnerOf

\* What the stack can be: the call that an entry or a pending extension has
\* begun, and perhaps one request on top of it.
LEMMA StackForms ==
    ASSUME Types, Frames, Sound, stack # <<>>
    PROVE  /\ stack[1] \in FrameSet
           /\ \/ Len(stack) = 1 /\ stack = <<stack[1]>> /\ Top = stack[1] /\ Pop = <<>>
              \/ /\ Len(stack) = 2 /\ stack = <<stack[1], stack[2]>> /\ Top = stack[2]
                 /\ Pop = <<stack[1]>> /\ SubSeq(stack, 1, Len(stack) - 2) = <<>>
                 /\ stack[2] \in FrameSet
<1>1. stack \in Seq(FrameSet) /\ Len(stack) \in Nat \ {0} /\ (Len(stack) = 1 \/ Len(stack) = 2)
  <2> DEFINE n == Len(stack)
  <2>1. stack \in Seq(FrameSet)
    BY DEF Types
  <2>2. n \in Nat /\ n # 0
    BY <2>1
  <2>3. n > 1 => n = 2
    BY DEF Frames
  <2> HIDE DEF n
  <2>4. n = 1 \/ n = 2
    BY <2>2, <2>3
  <2> QED
    BY <2>1, <2>2, <2>4 DEF n
<1>2. stack[1] \in FrameSet
  BY <1>1
<1>3. CASE Len(stack) = 1
  <2>1. SubSeq(stack, 1, 0) = <<>>
    BY <1>1
  <2> QED
    BY <1>1, <1>2, <1>3, <2>1 DEF Top, Pop
<1>4. CASE Len(stack) = 2
  <2>1. SubSeq(stack, 1, 0) = <<>>
    BY <1>1
  <2>2. SubSeq(stack, 1, 1) = <<stack[1]>>
    <3> DEFINE t == SubSeq(stack, 1, 1)
               u == <<stack[1]>>
    <3>1. t \in Seq(FrameSet) /\ Len(t) = 1 /\ t[1] = stack[1]
      BY <1>1, <1>4
    <3>2. u \in Seq(FrameSet) /\ Len(u) = 1 /\ u[1] = stack[1]
      BY <1>2
    <3> HIDE DEF t, u
    <3>3. t = u
      BY <3>1, <3>2, SeqEqual
    <3> QED
      BY <3>3 DEF t, u
  <2>3. stack = <<stack[1], stack[2]>> /\ stack[2] \in FrameSet
    BY <1>1, <1>4
  <2> QED
    BY <1>1, <1>2, <1>4, <2>1, <2>2, <2>3 DEF Top, Pop
<1> QED
  BY <1>1, <1>3, <1>4

\* The runner of a frame and its requests.
LEMMA RunnerOfBase ==
    ASSUME Types, Progress, Frames, Sound, stack # <<>>, stack[1].todo # {}
    PROVE  /\ RunnerOf(stack[1]) \in stack[1].todo \intersect has[mod]
           /\ RunnerOf(stack[1]) \in Ext
           /\ setup.asks[RunnerOf(stack[1])] \in Seq([of : Ext, perApp : BOOLEAN])
<1>1. mod \in Module /\ stack[1].todo \subseteq has[mod]
  BY DEF Frames
<1>2. RunnerOf(stack[1]) \in stack[1].todo \intersect has[mod]
  BY <1>1, RunnerIsMember
<1>3. has[mod] \subseteq Ext /\ setup \in Setup
  BY <1>1 DEF Types
<1> QED
  BY <1>2, <1>3, ExtensionAssumption

-----------------------------------------------------------------------------
(* What the steps of the calls do.                                          *)

Base == stack[1]
Asker == RunnerOf(Base)
Asked == setup.asks[Asker][Base.at]

\* A member of the group of an entry has been run before, or it is run now.
StartMemberDoes ==
    /\ phase = "module" /\ mod \in Module /\ Base \in FrameSet
    /\ stack # <<>> /\ Base.at = 0 /\ Asker \in Base.todo /\ Asker \in Ext
    /\ \/ Asker \in inited[mod] /\ stack' = <<[Base EXCEPT !.todo = @ \ {Asker}]>>
       \/ stack' = <<[Base EXCEPT !.at = 1]>>
    /\ UNCHANGED <<setup, has, entries, phase, mod, entry, countdown, metaCache, inited,
                   appMeta, pending, excluded, finals>>

\* Only the group of an entry has members left to run.
LEMMA StartMemberShape == ASSUME Types, Progress, Frames, StartMember PROVE StartMemberDoes
<1>1. Sound /\ phase # "done" /\ stack # <<>> /\ Top.at = 0 /\ Top.todo # {}
  BY DEF StartMember, Working, Sound
<1>2. Top = stack[1] /\ Pop = <<>> /\ stack[1] \in FrameSet
  BY <1>1, StackForms DEF Frames
<1>3. phase = "module" /\ mod \in Module
  BY <1>1, <1>2, ExtensionAssumption DEF Frames, Sound
<1>4. RunnerOf(stack[1]) \in stack[1].todo \intersect has[mod] /\ RunnerOf(stack[1]) \in Ext
  BY <1>1, <1>2, RunnerOfBase
<1> QED
  BY <1>1, <1>2, <1>3, <1>4
     DEF StartMember, StartMemberDoes, Base, Asker, Runner, OnTop

\* The extension that runs has returned, to the call of its entry, or at the end to
\* perAppHandling.
EndMemberDoes ==
    /\ Sound /\ phase # "done" /\ mod \in Module /\ stack # <<>> /\ Base \in FrameSet
    /\ Base.at > 0 /\ Asker \in Base.todo \intersect has[mod]
    /\ ~(Base.at <= Len(setup.asks[Asker]))
    /\ \/ phase = "perApp" /\ stack' = <<>> /\ UNCHANGED inited
       \/ /\ phase = "module"
          /\ stack' = <<[Base EXCEPT !.todo = @ \ {Asker}, !.at = 0]>>
          /\ inited' = [inited EXCEPT ![mod] = @ \union {Asker}]
    /\ UNCHANGED <<setup, has, entries, phase, mod, entry, countdown, metaCache, appMeta,
                   pending, excluded, finals>>

\* No request runs extensions of its own.
LEMMA RunsBase ==
    ASSUME Types, Progress, Frames, Runs
    PROVE  /\ Sound /\ phase \in {"module", "perApp"} /\ stack # <<>> /\ mod \in Module
           /\ Base \in FrameSet /\ Base.at > 0 /\ Top = Base /\ Pop = <<>> /\ stack = <<Base>>
           /\ Len(stack) = 1 /\ Runner = Asker
           /\ Asker \in Base.todo \intersect has[mod] /\ Asker \in Ext
           /\ setup.asks[Asker] \in Seq([of : Ext, perApp : BOOLEAN])
<1>1. Sound /\ phase \in {"module", "perApp"} /\ stack # <<>> /\ Top.at > 0
  BY DEF Runs, Working, Sound
<1>2. Top = stack[1] /\ Pop = <<>> /\ stack[1] \in FrameSet /\ stack = <<stack[1]>>
      /\ Len(stack) = 1
  BY <1>1, StackForms DEF Frames
<1>3. mod \in Module /\ stack[1].todo # {}
  BY <1>1, <1>2 DEF Frames
<1> QED
  BY <1>1, <1>2, <1>3, RunnerOfBase DEF Base, Asker, Runner

\* EndMember.
LEMMA EndMemberShape == ASSUME Types, Progress, Frames, EndMember PROVE EndMemberDoes
<1>1. Runs /\ ~Asking
  BY DEF EndMember
<1> QED
  BY <1>1, RunsBase DEF EndMember, EndMemberDoes, Asking, OnTop

\* A frame on top of one other.
LEMMA PushOnOne ==
    ASSUME NEW a, NEW b
    PROVE  Append(<<a>>, b) = <<a, b>>
<1> DEFINE S == {a, b}
           t == Append(<<a>>, b)
           u == <<a, b>>
<1>1. t \in Seq(S) /\ Len(t) = 2 /\ t[1] = a /\ t[2] = b
  OBVIOUS
<1>2. u \in Seq(S) /\ Len(u) = 2 /\ u[1] = a /\ u[2] = b
  OBVIOUS
<1> HIDE DEF t, u
<1>3. t = u
  BY <1>1, <1>2, SeqEqual
<1> QED
  BY <1>3 DEF t, u

\* A request for a class that has no answer yet.
AskAnewDoes ==
    /\ Sound /\ phase # "done" /\ mod \in Module /\ stack # <<>> /\ Base \in FrameSet
    /\ Base.at > 0 /\ Asker \in Base.todo \intersect has[mod]
    /\ Base.at \in DOMAIN setup.asks[Asker] /\ Asked \in [of : Ext, perApp : BOOLEAN]
    /\ Asked.of \notin has[mod] /\ Members(mod, Asked.of) = {}
    /\ \E perApp \in BOOLEAN : stack' =
          <<Base, [of |-> Asked.of, perApp |-> perApp, todo |-> {}, at |-> 0]>>
    /\ UNCHANGED <<setup, has, entries, phase, mod, entry, countdown, metaCache, inited,
                   appMeta, pending, excluded, finals>>

\* Classes of the module that come before have their groups, those that come
\* later may not be asked for, and a lead that is not there cannot be.
LEMMA AskAnewShape == ASSUME Types, Progress, Frames, AskAnew PROVE AskAnewDoes
<1> DEFINE e == Asked.of
<1>1. Asking /\ Runs /\ Base.at <= Len(setup.asks[Runner]) /\ Request = Asked
  BY RunsBase DEF AskAnew, Asking, Request, Asked
<1>2. /\ Sound /\ phase \in {"module", "perApp"} /\ stack # <<>> /\ mod \in Module
      /\ Base \in FrameSet /\ Base.at > 0 /\ stack = <<Base>> /\ Runner = Asker
      /\ Asker \in Base.todo \intersect has[mod]
      /\ setup.asks[Asker] \in Seq([of : Ext, perApp : BOOLEAN])
  BY <1>1, RunsBase
<1>3. Base.at \in DOMAIN setup.asks[Asker] /\ Asked \in [of : Ext, perApp : BOOLEAN]
  <2> DEFINE s == setup.asks[Asker]
             k == Base.at
             T == [of : Ext, perApp : BOOLEAN]
  <2>1. k \in Nat /\ k > 0 /\ k <= Len(s) /\ s \in Seq(T)
    BY <1>1, <1>2 DEF FrameSet
  <2> HIDE DEF s, k, T
  <2>2. k \in DOMAIN s /\ s[k] \in T
    BY <2>1
  <2> QED
    BY <2>2 DEF s, k, T, Asked
<1>4. e \in Ext /\ Asked.perApp \in BOOLEAN
  BY <1>3
<1>5. e \notin Unfinished \union metaCache[mod] /\ ~OutOfOrder(e) /\ ~Unresolvable(mod, e)
  BY <1>1 DEF AskAnew
<1>6. e \notin has[mod]
  <2> SUFFICES ASSUME e \in has[mod] PROVE FALSE
    OBVIOUS
  <2>1. CASE phase = "perApp"
    BY <1>2, <1>5, <2>1 DEF Progress, Handled
  <2>2. CASE phase = "module"
    <3>1. entry \in DOMAIN Entries(mod) /\ Base.of = Turn
      BY <1>2, <2>2 DEF Frames, Base
    <3>2. Rank(Turn) = entry /\ Rank(e) \in DOMAIN Entries(mod) /\ Entries(mod)[Rank(e)] = e
      BY <1>2, <3>1, EntriesOf DEF Turn
    <3>3. Rank(e) <= entry
      BY <1>2, <1>5, <3>1, <3>2, EntriesOf DEF OutOfOrder
    <3>4. Turn \in Unfinished
      BY <1>2, <2>2, <3>1 DEF Unfinished
    <3>5. Rank(e) # entry
      BY <1>5, <3>2, <3>4 DEF Turn
    <3>6. Rank(e) < entry
      BY <1>2, <3>1, <3>2, <3>3, <3>5, EntriesOf
    <3>7. e \in metaCache[mod]
      BY <2>2, <3>2, <3>6 DEF Progress
    <3> QED
      BY <1>5, <3>7
  <2> QED
    BY <1>2, <2>1, <2>2
<1>7. Members(mod, e) = {}
  BY <1>5, <1>6 DEF Unresolvable, IsLead, Members
<1>8. stack' = <<Base, [of |-> e, perApp |-> Asked.perApp, todo |-> {}, at |-> 0]>>
  <2>1. stack' = Append(<<Base>>, [of |-> e, perApp |-> Asked.perApp, todo |-> {}, at |-> 0])
    BY <1>1, <1>2, <1>7 DEF AskAnew, Frame
  <2> QED
    BY <2>1, PushOnOne
<1> QED
  BY <1>2, <1>3, <1>4, <1>6, <1>7, <1>8 DEF AskAnew, AskAnewDoes

\* The answer to the request that the extension has come to: a class that wants
\* the results of the application waits for them as long as they grow.
AnswerDoes ==
    LET wants == Asked.perApp
        delay == countdown[Asked.of] > 0
    IN  /\ Sound /\ phase # "done" /\ mod \in Module /\ stack # <<>> /\ Base \in FrameSet
        /\ Base.at > 0 /\ Asker \in Base.todo \intersect has[mod]
        /\ Base.at \in DOMAIN setup.asks[Asker] /\ Asked \in [of : Ext, perApp : BOOLEAN]
        /\ Asked.of \in has[mod] => Asked.of \in metaCache[mod]
        /\ stack' = <<[Base EXCEPT !.at = IF wants /\ delay THEN Len(setup.asks[Asker]) + 1
                                          ELSE @ + 1]>>
        /\ IF wants /\ delay THEN pending' = Pended(Asked.of, Asker) ELSE UNCHANGED pending
        /\ IF wants /\ ~delay
           THEN /\ excluded' = excluded \union {<<Asked.of, Asker>>}
                /\ finals' = finals \union {[by |-> Asker, of |-> Asked.of, in |-> mod,
                                             phase |-> phase, data |-> appMeta[Asked.of]]}
           ELSE UNCHANGED <<excluded, finals>>
        /\ metaCache' = metaCache \/ (/\ Members(mod, stack[2].of) = {}
                                      /\ metaCache' = [metaCache EXCEPT ![mod] =
                                                          @ \union {stack[2].of}]
                                      /\ stack[2].of \in Ext)
        /\ UNCHANGED <<setup, has, entries, phase, mod, entry, countdown, inited, appMeta>>

\* The answer to the extension of an entry, when nothing is added to the results.
LEMMA AnsweredIs ==
    ASSUME Answered(Base, <<>>), appMeta' = appMeta
    PROVE  LET wants == Asked.perApp
               delay == countdown[Asked.of] > 0
           IN  /\ stack' = <<[Base EXCEPT !.at = IF wants /\ delay
                                                 THEN Len(setup.asks[Asker]) + 1 ELSE @ + 1]>>
               /\ IF wants /\ delay THEN pending' = Pended(Asked.of, Asker)
                  ELSE UNCHANGED pending
               /\ IF wants /\ ~delay
                  THEN /\ excluded' = excluded \union {<<Asked.of, Asker>>}
                       /\ finals' = finals \union {[by |-> Asker, of |-> Asked.of, in |-> mod,
                                             phase |-> phase, data |-> appMeta[Asked.of]]}
                  ELSE UNCHANGED <<excluded, finals>>
<1> DEFINE wants == Asked.perApp
           delay == countdown[Asked.of] > 0
           f == [Base EXCEPT !.at = IF wants /\ delay
                                    THEN Len(setup.asks[Asker]) + 1 ELSE @ + 1]
<1>1. stack' = Append(<<>>, f)
  BY DEF Answered, Asked, Asker
<1>2. stack' = <<f>>
  BY <1>1
<1>3. IF wants /\ delay THEN pending' = Pended(Asked.of, Asker) ELSE UNCHANGED pending
  BY DEF Answered, Asked, Asker
<1>4. IF wants /\ ~delay THEN excluded' = excluded \union {<<Asked.of, Asker>>}
      ELSE UNCHANGED excluded
  BY DEF Answered, Asked, Asker, Excluded
<1>5. IF wants /\ ~delay
      THEN finals' = finals \union {[by |-> Asker, of |-> Asked.of, in |-> mod,
                                     phase |-> phase, data |-> appMeta[Asked.of]]}
      ELSE UNCHANGED finals
  BY DEF Answered, Asked, Asker
<1> QED
  BY <1>2, <1>3, <1>4, <1>5

\* An answer from the cache.
LEMMA AskCachedShape == ASSUME Types, Progress, Frames, AskCached PROVE AnswerDoes
<1>1. Asking /\ Runs /\ Base.at <= Len(setup.asks[Runner]) /\ Request = Asked
  BY RunsBase DEF AskCached, Asking, Request, Asked
<1>2. /\ Sound /\ phase \in {"module", "perApp"} /\ stack # <<>> /\ mod \in Module
      /\ Base \in FrameSet /\ Base.at > 0 /\ Runner = Asker /\ Pop = <<>> /\ Top = Base
      /\ Asker \in Base.todo \intersect has[mod]
      /\ setup.asks[Asker] \in Seq([of : Ext, perApp : BOOLEAN])
  BY <1>1, RunsBase
<1>3. Base.at \in DOMAIN setup.asks[Asker] /\ Asked \in [of : Ext, perApp : BOOLEAN]
  <2> DEFINE s == setup.asks[Asker]
             k == Base.at
             T == [of : Ext, perApp : BOOLEAN]
  <2>1. k \in Nat /\ k > 0 /\ k <= Len(s) /\ s \in Seq(T)
    BY <1>1, <1>2 DEF FrameSet
  <2> HIDE DEF s, k, T
  <2>2. k \in DOMAIN s /\ s[k] \in T
    BY <2>1
  <2> QED
    BY <2>2 DEF s, k, T, Asked
<1>4. Asked.of \in metaCache[mod] /\ UNCHANGED <<appMeta, metaCache>> /\ Answered(Base, <<>>)
      /\ UNCHANGED <<setup, has, entries, phase, mod, entry, countdown, inited>>
  BY <1>1, <1>2 DEF AskCached
<1> QED
  BY <1>2, <1>3, <1>4, AnsweredIs DEF AnswerDoes

\* The answer of a group that has no members: it is empty.
LEMMA FinishRequestShape ==
    ASSUME Types, Progress, Frames, FinishGroup, Len(stack) # 1
    PROVE  AnswerDoes
<1>1. Sound /\ phase \in {"module", "perApp"} /\ stack # <<>>
  BY DEF FinishGroup, Working, Sound
<1>2. /\ Len(stack) = 2 /\ Top = stack[2] /\ SubSeq(stack, 1, Len(stack) - 2) = <<>>
      /\ stack[1] \in FrameSet /\ stack[2] \in FrameSet
  BY <1>1, StackForms
<1>3. /\ mod \in Module /\ Base.todo \subseteq has[mod]
      /\ Members(mod, stack[2].of) = {}
      /\ Base.at \in DOMAIN setup.asks[Asker] /\ Asked.of = stack[2].of
  BY <1>1, <1>2 DEF Frames, Base, Asker, Asked
<1>4. stack[2].of \in Ext /\ Base \in FrameSet /\ Base.at \in Nat
  BY <1>2 DEF FrameSet, Base
<1>5. Base.todo # {} /\ Base.at > 0
  BY <1>1, <1>2 DEF Frames, Base
<1>6. Asker \in Base.todo \intersect has[mod] /\ Asker \in Ext
      /\ setup.asks[Asker] \in Seq([of : Ext, perApp : BOOLEAN])
  BY <1>1, <1>5, RunnerOfBase DEF Base, Asker
<1>7. Asked \in [of : Ext, perApp : BOOLEAN]
  <2> DEFINE s == setup.asks[Asker]
             k == Base.at
             T == [of : Ext, perApp : BOOLEAN]
  <2>1. k \in DOMAIN s /\ s \in Seq(T)
    BY <1>3, <1>6
  <2> HIDE DEF s, k, T
  <2>2. s[k] \in T
    BY <2>1
  <2> QED
    BY <2>2 DEF s, k, T, Asked
<1>8. /\ metaCache' = [metaCache EXCEPT ![mod] = @ \union {stack[2].of}]
      /\ appMeta' = Handed(stack[2].of)
      /\ Answered(Base, <<>>)
      /\ UNCHANGED <<setup, has, entries, phase, mod, entry, countdown, inited>>
  <2>1. Answered(stack[Len(stack) - 1], SubSeq(stack, 1, Len(stack) - 2))
    BY DEF FinishGroup
  <2>2. stack[Len(stack) - 1] = Base /\ SubSeq(stack, 1, Len(stack) - 2) = <<>>
    BY <1>2 DEF Base
  <2>3. Answered(Base, <<>>)
    BY <2>1, <2>2 DEF Answered
  <2> QED
    BY <1>2, <2>3 DEF FinishGroup
<1>9. appMeta' = appMeta
  BY <1>3, <1>4, <1>8 DEF Handed, Types
<1>10. stack[2].of \notin has[mod]
  BY <1>3 DEF Members
<1> QED
  BY <1>1, <1>3, <1>4, <1>5, <1>6, <1>7, <1>8, <1>9, <1>10, AnsweredIs DEF AnswerDoes

\* The group of an entry is finished.
FinishEntryDoes ==
    /\ phase = "module" /\ mod \in Module /\ stack # <<>> /\ Base \in FrameSet
    /\ Base.at = 0 /\ Base.todo = {} /\ Base.of = Turn /\ Turn \in has[mod]
    /\ stack' = <<>>
    /\ metaCache' = [metaCache EXCEPT ![mod] = @ \union {Turn}]
    /\ appMeta' = Handed(Turn)
    /\ pending' = Updated
    /\ UNCHANGED <<setup, has, entries, phase, mod, entry, countdown, inited, excluded, finals>>

\* FinishGroup, for a whole entry.
LEMMA FinishEntryShape ==
    ASSUME Types, Progress, Frames, FinishGroup, Len(stack) = 1
    PROVE  FinishEntryDoes
<1>1. Sound /\ phase \in {"module", "perApp"} /\ stack # <<>> /\ Top.at = 0 /\ Top.todo = {}
  BY DEF FinishGroup, Working, Sound
<1>2. Top = Base /\ Base \in FrameSet
  BY <1>1, StackForms DEF Base
<1>3. phase = "module" /\ mod \in Module /\ entry \in DOMAIN Entries(mod) /\ Base.of = Turn
  BY <1>1, <1>2 DEF Frames, Base
<1>4. Turn \in has[mod]
  BY <1>1, <1>3, EntriesOf DEF Turn
<1> QED
  BY <1>1, <1>2, <1>3, <1>4 DEF FinishGroup, FinishEntryDoes

\* The steps of stage1, as the proofs below see them.
Steps ==
    \/ StartMemberDoes \/ EndMemberDoes \/ AskAnewDoes \/ AnswerDoes \/ FinishEntryDoes
    \/ ImportExtensions \/ StartModule \/ NextEntry \/ StartPerApp \/ NextPending \/ Stage1Over
    \/ Fail

\* There are no others.
LEMMA NextIsSteps == ASSUME Types, Progress, Frames, Next PROVE Steps
<1>1. CASE StartMember
  BY <1>1, StartMemberShape DEF Steps
<1>2. CASE EndMember
  BY <1>2, EndMemberShape DEF Steps
<1>3. CASE AskAnew
  BY <1>3, AskAnewShape DEF Steps
<1>4. CASE AskCached
  BY <1>4, AskCachedShape DEF Steps
<1>5. CASE FinishGroup
  BY <1>5, FinishRequestShape, FinishEntryShape DEF Steps
<1>6. CASE \/ Stage1Throws \/ AskTooEarly \/ AskInCircle \/ AskUnresolvable
           \/ ImportExtensions \/ StartModule \/ NextEntry \/ StartPerApp \/ NextPending
           \/ Stage1Over
  BY <1>6 DEF Steps, Stage1Throws, AskTooEarly, AskInCircle, AskUnresolvable
<1> QED
  BY <1>1, <1>2, <1>3, <1>4, <1>5, <1>6 DEF Next

-----------------------------------------------------------------------------
(* Types.                                                                   *)

\* Frames with fewer members to run, and further on.
LEMMA FrameTypes ==
    ASSUME NEW f \in FrameSet, NEW x, NEW k \in Nat
    PROVE  /\ [f EXCEPT !.todo = @ \ {x}] \in FrameSet
           /\ [f EXCEPT !.todo = @ \ {x}, !.at = 0] \in FrameSet
           /\ [f EXCEPT !.at = k] \in FrameSet
           /\ f.at \in Nat /\ f.todo \subseteq Ext
BY DEF FrameSet

\* A stack of one frame or two.
LEMMA StackTypes ==
    ASSUME NEW f \in FrameSet, NEW g \in FrameSet
    PROVE  /\ <<>> \in Seq(FrameSet)
           /\ <<f>> \in Seq(FrameSet) /\ Len(<<f>>) = 1 /\ <<f>>[1] = f
           /\ <<f, g>> \in Seq(FrameSet) /\ Len(<<f, g>>) = 2
           /\ <<f, g>>[1] = f /\ <<f, g>>[2] = g
OBVIOUS

\* The modules to come, with and without the next one.
LEMMA LaterCounts ==
    ASSUME NEW m \in Nat, m + 1 \in Module, NEW e
    PROVE  /\ IsFiniteSet(Later(m, e)) /\ Cardinality(Later(m, e)) \in Nat
           /\ Cardinality(Later(m, e)) = IF e \in Targets(m + 1)
                                         THEN Cardinality(Later(m + 1, e)) + 1
                                         ELSE Cardinality(Later(m + 1, e))
           /\ Cardinality(Later(m + 1, e)) \in Nat
<1>1. IsFiniteSet(Module)
  BY FS_Interval, ExtensionAssumption DEF Module
<1>2. IsFiniteSet(Later(m, e)) /\ IsFiniteSet(Later(m + 1, e))
  <2>1. Later(m, e) \subseteq Module /\ Later(m + 1, e) \subseteq Module
    BY DEF Later
  <2> QED
    BY ONLY <1>1, <2>1, FS_Subset
<1>3. Cardinality(Later(m, e)) \in Nat /\ Cardinality(Later(m + 1, e)) \in Nat
  BY ONLY <1>2, FS_CardinalityType
<1>4. CASE e \in Targets(m + 1)
  <2>1. Later(m, e) = Later(m + 1, e) \union {m + 1} /\ m + 1 \notin Later(m + 1, e)
    BY <1>4, ExtensionAssumption DEF Later, Module
  <2>2. Cardinality(Later(m + 1, e) \union {m + 1}) = Cardinality(Later(m + 1, e)) + 1
    BY ONLY <1>2, <2>1, FS_AddElement
  <2> QED
    BY <1>2, <1>3, <1>4, <2>1, <2>2
<1>5. CASE e \notin Targets(m + 1)
  <2>1. Later(m, e) = Later(m + 1, e)
    BY <1>5, ExtensionAssumption DEF Later, Module
  <2> QED
    BY <1>2, <1>3, <1>5, <2>1
<1> QED
  BY <1>4, <1>5

\* Each step of an application keeps the types.
LEMMA StepKeepsTypes == ASSUME Types, Counted, Progress, Frames, Steps PROVE Types'
<1>1. CASE StartMemberDoes
  <2>1. stack' \in Seq(FrameSet)
    <3>1. PICK f \in FrameSet : stack' = <<f>>
      <4>1. Base \in FrameSet /\ 1 \in Nat
        BY <1>1 DEF StartMemberDoes
      <4>2. [Base EXCEPT !.todo = @ \ {Asker}] \in FrameSet /\ [Base EXCEPT !.at = 1] \in FrameSet
        BY <4>1, FrameTypes
      <4> QED
        BY <1>1, <4>2 DEF StartMemberDoes
    <3> QED
      BY <3>1, StackTypes
  <2> QED
    BY <1>1, <2>1 DEF StartMemberDoes, Types
<1>2. CASE EndMemberDoes
  <2>1. stack' \in Seq(FrameSet)
    <3>1. Base \in FrameSet /\ 0 \in Nat
      BY <1>2 DEF EndMemberDoes
    <3>2. [Base EXCEPT !.todo = @ \ {Asker}, !.at = 0] \in FrameSet
      BY <3>1, FrameTypes
    <3> QED
      BY <1>2, <3>2, StackTypes DEF EndMemberDoes
  <2>2. inited' \in [Module -> SUBSET Ext]
    <3>1. mod \in Module /\ Asker \in Ext /\ inited \in [Module -> SUBSET Ext]
      BY <1>2 DEF EndMemberDoes, Types
    <3>2. [inited EXCEPT ![mod] = @ \union {Asker}] \in [Module -> SUBSET Ext]
      BY <3>1
    <3> QED
      BY <1>2, <3>1, <3>2 DEF EndMemberDoes
  <2>3. UNCHANGED <<setup, has, entries, phase, mod, entry, countdown, metaCache, appMeta,
                    pending, excluded, finals>>
    BY <1>2 DEF EndMemberDoes
  <2> QED
    BY <2>1, <2>2, <2>3 DEF Types
<1>3. CASE AskAnewDoes
  <2>1. PICK perApp \in BOOLEAN : stack' =
            <<Base, [of |-> Asked.of, perApp |-> perApp, todo |-> {}, at |-> 0]>>
    BY <1>3 DEF AskAnewDoes
  <2>2. [of |-> Asked.of, perApp |-> perApp, todo |-> {}, at |-> 0] \in FrameSet
    BY <1>3 DEF AskAnewDoes, FrameSet
  <2>3. stack' \in Seq(FrameSet)
    BY <1>3, <2>1, <2>2, StackTypes DEF AskAnewDoes
  <2> QED
    BY <1>3, <2>3 DEF AskAnewDoes, Types
<1>4. CASE AnswerDoes
  <2>1. Asked.of \in Ext /\ Asker \in Ext /\ mod \in Module /\ Base \in FrameSet
    BY <1>4 DEF AnswerDoes, FrameSet
  <2>2. Len(setup.asks[Asker]) \in Nat
    BY <2>1, AsksAre
  <2>3. stack' \in Seq(FrameSet)
    <3>1. PICK k \in Nat : stack' = <<[Base EXCEPT !.at = k]>>
      <4>1. Base.at + 1 \in Nat /\ Len(setup.asks[Asker]) + 1 \in Nat
        BY <2>1, <2>2 DEF FrameSet
      <4>2. stack' = <<[Base EXCEPT !.at =
                IF Asked.perApp /\ countdown[Asked.of] > 0
                THEN Len(setup.asks[Asker]) + 1 ELSE Base.at + 1]>>
        BY <1>4 DEF AnswerDoes
      <4> QED
        BY <4>1, <4>2
    <3>2. [Base EXCEPT !.at = k] \in FrameSet
      BY <2>1, FrameTypes
    <3> QED
      BY <3>1, <3>2, StackTypes
  <2>4. pending' \in [Ext -> [Ext -> Module \union {None}]]
    <3>1. pending' = pending \/ pending' = Pended(Asked.of, Asker)
      BY <1>4 DEF AnswerDoes
    <3>2. pending \in [Ext -> [Ext -> Module \union {None}]]
      BY DEF Types
    <3>3. Pended(Asked.of, Asker) \in [Ext -> [Ext -> Module \union {None}]]
      BY <2>1, <3>2 DEF Pended
    <3> QED
      BY <3>1, <3>2, <3>3
  <2>5. excluded' \subseteq Ext \X Ext
    BY <1>4, <2>1 DEF AnswerDoes, Types
  <2>6. finals' \subseteq Final
    <3>1. appMeta[Asked.of] \subseteq Result /\ phase \in {"module", "perApp"}
      BY <1>4, <2>1 DEF AnswerDoes, Types, Sound
    <3>2. [by |-> Asker, of |-> Asked.of, in |-> mod, phase |-> phase,
           data |-> appMeta[Asked.of]] \in Final
      BY <2>1, <3>1 DEF Final
    <3> QED
      BY <1>4, <3>2 DEF AnswerDoes, Types
  <2>7. metaCache' \in [Module -> SUBSET Ext]
    <3>1. \/ metaCache' = metaCache
          \/ /\ metaCache' = [metaCache EXCEPT ![mod] = @ \union {stack[2].of}]
             /\ stack[2].of \in Ext
      BY <1>4 DEF AnswerDoes
    <3>2. metaCache \in [Module -> SUBSET Ext]
      BY DEF Types
    <3>3. ASSUME NEW e \in Ext PROVE [metaCache EXCEPT ![mod] = @ \union {e}]
                                        \in [Module -> SUBSET Ext]
      BY <2>1, <3>2
    <3> QED
      BY <3>1, <3>2, <3>3
  <2>8. UNCHANGED <<setup, has, entries, phase, mod, entry, countdown, inited, appMeta>>
    BY <1>4 DEF AnswerDoes
  <2> QED
    BY <2>3, <2>4, <2>5, <2>6, <2>7, <2>8 DEF Types
<1>5. CASE FinishEntryDoes
  <2>1. Turn \in Ext /\ mod \in Module
    BY <1>5 DEF FinishEntryDoes, Types
  <2>2. metaCache' \in [Module -> SUBSET Ext] /\ stack' \in Seq(FrameSet)
    BY <1>5, <2>1 DEF FinishEntryDoes, Types
  <2>3. appMeta' \in [Ext -> SUBSET Result]
    BY <1>5, <2>1 DEF FinishEntryDoes, Types, Handed, Result, Members
  <2>4. pending' \in [Ext -> [Ext -> Module \union {None}]]
    BY <1>5 DEF FinishEntryDoes, Types, Updated
  <2> QED
    BY <1>5, <2>2, <2>3, <2>4 DEF FinishEntryDoes, Types
<1>6. CASE ImportExtensions
  <2>1. \A m \in Module : Sorted[setup][has[m]].order \in Seq(Ext)
    <3> SUFFICES ASSUME NEW m \in Module PROVE Sorted[setup][has[m]].order \in Seq(Ext)
      OBVIOUS
    <3>1. setup \in Setup /\ has[m] \in SUBSET Ext
      BY DEF Types
    <3>2. Sorted[setup][has[m]].order \in Seq(has[m])
      BY <3>1, SortedOrder
    <3> QED
      BY <3>1, <3>2
  <2>2. entries' \in [Module -> Seq(Ext)]
    BY <1>6, <2>1 DEF ImportExtensions, Types
  <2> QED
    BY <1>6, <2>2 DEF ImportExtensions, Types
<1>7. CASE StartModule
  <2>1. countdown' \in [Ext -> Nat]
    <3>1. phase = "module" /\ mod + 1 \in Module
      BY <1>7, ExtensionAssumption DEF StartModule, ModuleOver, Module, Types
    <3>2. \A e \in Ext : e \in Targets(mod + 1) => countdown[e] > 0
      BY <3>1, LaterCounts DEF Counted, Types
    <3> QED
      BY <1>7, <3>1, <3>2 DEF StartModule, Decreased, Types
  <2>2. mod' \in 0..Modules
    BY <1>7, ExtensionAssumption DEF StartModule, Types
  <2> QED
    BY <1>7, <2>1, <2>2 DEF StartModule, Types
<1>8. CASE NextEntry
  <2>1. mod \in Module /\ entry + 1 \in DOMAIN Entries(mod)
    BY <1>8, ExtensionAssumption DEF NextEntry, Entries, Types, Module, None
  <2>2. Entries(mod)[entry + 1] \in Ext /\ Members(mod, Entries(mod)[entry + 1]) \subseteq Ext
    BY <2>1 DEF Types, Entries, Members
  <2>3. Frame(Entries(mod)[entry + 1], FALSE) \in FrameSet
    BY <2>2 DEF Frame, FrameSet
  <2>4. stack' \in Seq(FrameSet)
    BY <1>8, <2>3, StackTypes DEF NextEntry
  <2>5. entry' \in Nat
    BY <1>8 DEF NextEntry, Types
  <2>6. UNCHANGED <<setup, has, entries, phase, mod, countdown, metaCache, inited, appMeta,
                    pending, excluded, finals>>
    BY <1>8 DEF NextEntry
  <2> QED
    BY <2>4, <2>5, <2>6 DEF Types
<1>9. CASE NextPending
  <2>1. PICK e \in Ext, x \in Ext :
          /\ pending[e][x] # None
          /\ mod' = pending[e][x]
          /\ entry' = Len(Entries(pending[e][x]))
          /\ stack' = <<[of |-> x, perApp |-> FALSE, todo |-> {x}, at |-> 1]>>
          /\ pending' = [pending EXCEPT ![e][x] = None]
    BY <1>9 DEF NextPending
  <2>2. pending[e][x] \in Module /\ Entries(pending[e][x]) \in Seq(Ext)
    BY <2>1 DEF Types, Entries, None
  <2>3. [of |-> x, perApp |-> FALSE, todo |-> {x}, at |-> 1] \in FrameSet
    BY DEF FrameSet
  <2>4. pending' \in [Ext -> [Ext -> Module \union {None}]]
    BY <2>1 DEF Types
  <2>5. mod' \in 0..Modules /\ entry' \in Nat /\ stack' \in Seq(FrameSet)
    BY <2>1, <2>2, <2>3, ExtensionAssumption DEF Module
  <2> QED
    BY <1>9, <2>4, <2>5 DEF NextPending, Types
<1>10. CASE StartPerApp \/ Stage1Over \/ Fail
  BY <1>10 DEF StartPerApp, Stage1Over, Fail, Types
<1> QED
  BY <1>1, <1>2, <1>3, <1>4, <1>5, <1>6, <1>7, <1>8, <1>9, <1>10 DEF Steps

-----------------------------------------------------------------------------
(* What stays as it is.                                                     *)

\* No step changes what is installed.
LEMMA InstalledStays ==
    ASSUME Steps
    PROVE  /\ setup' = setup /\ has' = has
           /\ \A m, e : Members(m, e)' = Members(m, e) /\ (e \in Targets(m))' = (e \in Targets(m))
<1>1. setup' = setup /\ has' = has
  BY DEF Steps, StartMemberDoes, EndMemberDoes, AskAnewDoes, AnswerDoes, FinishEntryDoes,
         ImportExtensions, StartModule, NextEntry, StartPerApp, NextPending, Stage1Over, Fail
<1> QED
  BY <1>1 DEF Members, Targets

\* What has run has run, and a group that has been made is kept.
LEMMA HandledStays ==
    ASSUME Types, Steps
    PROVE  /\ \A m \in Module : /\ inited[m] \subseteq inited'[m]
                                /\ metaCache[m] \subseteq metaCache'[m]
           /\ \A m \in Module : Handled(m) => Handled(m)'
<1>1. UNCHANGED inited \/ (mod \in Module /\ inited' = [inited EXCEPT ![mod] = @ \union {Asker}])
  BY DEF Steps, StartMemberDoes, EndMemberDoes, AskAnewDoes, AnswerDoes, FinishEntryDoes,
         ImportExtensions, StartModule, NextEntry, StartPerApp, NextPending, Stage1Over, Fail
<1>2. UNCHANGED metaCache \/
      (mod \in Module /\ \E e : metaCache' = [metaCache EXCEPT ![mod] = @ \union {e}])
  BY DEF Steps, StartMemberDoes, EndMemberDoes, AskAnewDoes, AnswerDoes, FinishEntryDoes,
         ImportExtensions, StartModule, NextEntry, StartPerApp, NextPending, Stage1Over, Fail
<1>3. \A m \in Module : inited[m] \subseteq inited'[m]
  BY <1>1 DEF Types
<1>4. \A m \in Module : metaCache[m] \subseteq metaCache'[m]
  BY <1>2 DEF Types
<1> QED
  BY <1>3, <1>4, InstalledStays DEF Handled

\* Calls that have the same members to run, run the same one.
LEMMA RunnerStays ==
    ASSUME UNCHANGED <<mod, entries>>
    PROVE  \A f, g : f.todo = g.todo => RunnerOf(f)' = RunnerOf(g)
BY DEF RunnerOf, Rank, Entries

\* Counters are decreased with the modules to come.
LEMMA StepKeepsCounted == ASSUME Types, Counted, Progress, Frames, Steps PROVE Counted'
<1>1. CASE StartModule
  <2>1. phase = "module" /\ phase' = "module" /\ mod' = mod + 1 /\ mod \in Nat /\ mod + 1 \in Module
    BY <1>1, ExtensionAssumption DEF StartModule, ModuleOver, Module, Types
  <2>2. SUFFICES ASSUME NEW e \in Ext PROVE countdown'[e] = Cardinality(Later(mod, e)')
    BY <2>1 DEF Counted
  <2>3. countdown'[e] = IF e \in Targets(mod + 1) THEN countdown[e] - 1 ELSE countdown[e]
    BY <1>1 DEF StartModule, Decreased
  <2>4. countdown[e] = Cardinality(Later(mod, e))
    BY <2>1 DEF Counted
  <2>5. Later(mod, e)' = Later(mod + 1, e)
    BY <2>1, InstalledStays DEF Later
  <2> QED
    BY <2>1, <2>3, <2>4, <2>5, LaterCounts
<1>2. CASE StartPerApp
  <2>1. phase = "module" /\ phase' = "perApp" /\ mod = Modules /\ countdown' = countdown
    BY <1>2 DEF StartPerApp, ModuleOver
  <2>2. \A e \in Ext : Later(mod, e) = {}
    BY <2>1, ExtensionAssumption DEF Later, Module
  <2> QED
    BY <2>1, <2>2, FS_EmptySet DEF Counted
<1>3. CASE NextPending
  BY <1>3 DEF NextPending, Counted
<1>4. CASE Fail
  BY <1>4 DEF Fail, Counted
<1>5. CASE \/ StartMemberDoes \/ EndMemberDoes \/ AskAnewDoes \/ AnswerDoes \/ FinishEntryDoes
           \/ ImportExtensions \/ NextEntry \/ Stage1Over
  <2>1. /\ phase' \in {"import", "module"} => phase \in {"import", "module"}
        /\ phase' \in {"perApp", "done"} => phase \in {"perApp", "done"}
        /\ mod' = mod /\ countdown' = countdown
    BY <1>5 DEF StartMemberDoes, EndMemberDoes, AskAnewDoes, AnswerDoes, FinishEntryDoes,
                ImportExtensions, NextEntry, Stage1Over
  <2>2. \A e : Later(mod, e)' = Later(mod, e)
    BY <2>1, InstalledStays DEF Later
  <2> QED
    BY <2>1, <2>2 DEF Counted
<1> QED
  BY <1>1, <1>2, <1>3, <1>4, <1>5 DEF Steps

-----------------------------------------------------------------------------
(* Modules and entries in their turn.                                       *)

\* The classes of a module, by their places in its order.
LEMMA PlacesOf ==
    ASSUME Types, Progress, Sound, mod \in Module, NEW e \in has[mod]
    PROVE  \E i \in DOMAIN Entries(mod) : Entries(mod)[i] = e
BY EntriesOf

\* When the last of its entries has been handled, so has the module.
LEMMA ModuleIsHandled ==
    ASSUME Types, Progress, ModuleOver, mod \in Module
    PROVE  Handled(mod)
<1>1. /\ phase = "module" /\ Sound /\ stack = <<>> /\ entry = Len(Entries(mod))
  BY DEF ModuleOver, Sound
<1>2. Entries(mod) \in Seq(has[mod])
  BY <1>1, EntriesOf
<1>3. \A i \in DOMAIN Entries(mod) : Entries(mod)[i] \in inited[mod] \intersect metaCache[mod]
  BY <1>1, <1>2 DEF Progress
<1>4. \A e \in has[mod] : \E i \in DOMAIN Entries(mod) : Entries(mod)[i] = e
  BY <1>1, PlacesOf
<1> QED
  BY <1>3, <1>4 DEF Handled

\* The steps that leave the module, its entry and its phase alone.
Staying == UNCHANGED <<setup, has, entries, phase, mod, entry>>

\* A step within an entry.
LEMMA StayingKeepsProgress ==
    ASSUME Types, Progress, Steps, Staying, phase # "done", phase # "import",
           mod \in Module, stack # <<>>,
           stack' = <<>> /\ phase = "module" => Turn \in inited'[mod] \intersect metaCache'[mod]
    PROVE  Progress'
<1>1. /\ phase' = phase /\ mod' = mod /\ entry' = entry /\ entries' = entries
      /\ has' = has /\ setup' = setup
  BY DEF Staying
<1>2. Sound' => \A m \in Module : entries'[m] = (Sorted[setup][has[m]].order)'
  BY <1>1 DEF Sound, Progress
<1>3. Entries(mod)' = Entries(mod)
  BY <1>1 DEF Entries
<1>4. ASSUME phase = "module"
      PROVE  \A i \in DOMAIN Entries(mod) : i < entry \/ (i = entry /\ stack' = <<>>) =>
                Entries(mod)[i] \in inited'[mod] \intersect metaCache'[mod]
  <2> SUFFICES ASSUME NEW i \in DOMAIN Entries(mod), i < entry \/ (i = entry /\ stack' = <<>>)
               PROVE  Entries(mod)[i] \in inited'[mod] \intersect metaCache'[mod]
    OBVIOUS
  <2>1. CASE i < entry
    <3>1. Entries(mod)[i] \in inited[mod] \intersect metaCache[mod]
      BY <1>4, <2>1 DEF Progress
    <3> QED
      BY <3>1, HandledStays
  <2>2. CASE i = entry /\ stack' = <<>>
    BY <1>4, <2>2 DEF Turn
  <2> QED
    BY <2>1, <2>2
<1>5. phase = "module" => \A m \in Module : m < mod => Handled(m)'
  BY HandledStays DEF Progress
<1>6. phase = "perApp" => \A m \in Module : Handled(m)'
  BY HandledStays DEF Progress
<1>7. phase = "module" => mod # 0 /\ entry <= Len(Entries(mod))
  BY ExtensionAssumption DEF Progress, Module
<1> QED
  BY <1>1, <1>2, <1>3, <1>4, <1>5, <1>6, <1>7 DEF Progress

\* Modules and their entries are handled in their turn.
LEMMA StepKeepsProgress == ASSUME Types, Counted, Progress, Frames, Steps PROVE Progress'
<1>1. CASE StartMemberDoes
  <2>1. Staying /\ phase = "module" /\ mod \in Module /\ stack # <<>> /\ stack' # <<>>
    <3>1. \E f : stack' = <<f>>
      BY <1>1, Zenon DEF StartMemberDoes
    <3> QED
      BY <1>1, <3>1 DEF StartMemberDoes, Staying
  <2> QED
    BY <2>1, StayingKeepsProgress
<1>2. CASE EndMemberDoes
  <2>1. /\ Staying /\ phase \in {"module", "perApp"} /\ mod \in Module /\ stack # <<>>
        /\ phase = "module" => stack' # <<>>
    <3>1. phase = "module" => \E f : stack' = <<f>>
      BY <1>2, Zenon DEF EndMemberDoes
    <3>2. Staying
      BY <1>2 DEF EndMemberDoes, Staying
    <3>3. phase \in {"module", "perApp"} /\ mod \in Module /\ stack # <<>>
      BY <1>2 DEF EndMemberDoes, Sound
    <3> QED
      BY <3>1, <3>2, <3>3
  <2> QED
    BY <2>1, StayingKeepsProgress
<1>3. CASE AskAnewDoes
  <2>1. /\ Staying /\ phase \in {"module", "perApp"} /\ mod \in Module /\ stack # <<>>
        /\ stack' # <<>>
    BY <1>3 DEF AskAnewDoes, Staying, Sound
  <2> QED
    BY <2>1, StayingKeepsProgress
<1>4. CASE AnswerDoes
  <2>1. /\ Staying /\ phase \in {"module", "perApp"} /\ mod \in Module /\ stack # <<>>
        /\ stack' # <<>>
    BY <1>4 DEF AnswerDoes, Staying, Sound
  <2> QED
    BY <2>1, StayingKeepsProgress
<1>5. CASE FinishEntryDoes
  <2>1. /\ Staying /\ phase = "module" /\ mod \in Module /\ stack # <<>> /\ Sound
    BY <1>5 DEF FinishEntryDoes, Staying, Sound
  <2>2. Turn \in inited[mod] \union Base.todo /\ Base.todo = {}
    BY <1>5, <2>1 DEF FinishEntryDoes, Frames, Base
  <2>3. Turn \in inited'[mod] /\ Turn \in metaCache'[mod]
    BY <1>5, <2>1, <2>2 DEF FinishEntryDoes, Types
  <2> QED
    BY <2>1, <2>3, StayingKeepsProgress
<1>6. CASE ImportExtensions
  <2>1. /\ phase = "import" /\ mod = 0 /\ entry = 0 /\ stack = <<>>
        /\ UNCHANGED <<setup, has, mod, entry, stack>>
    BY <1>6 DEF ImportExtensions, Progress
  <2>2. CASE phase' = "failed"
    BY <2>2 DEF Progress, Sound
  <2>3. CASE phase' = "module" /\ entries' = [m \in Module |-> Sorted[setup][has[m]].order]
    <3>1. Sound' => \A m \in Module : entries'[m] = (Sorted[setup][has[m]].order)'
      BY <2>1, <2>3
    <3>2. Entries(mod)' = <<>> /\ DOMAIN Entries(mod)' = {} /\ Len(Entries(mod)') = 0
      BY <2>1 DEF Entries, None
    <3>3. \A m \in Module : ~(m < 0)
      BY ExtensionAssumption DEF Module
    <3> QED
      BY <2>1, <2>3, <3>1, <3>2, <3>3 DEF Progress
  <2> QED
    BY <1>6, <2>2, <2>3 DEF ImportExtensions
<1>7. CASE StartModule
  <2>1. /\ phase = "module" /\ stack = <<>> /\ mod' = mod + 1 /\ entry' = 0 /\ mod \in Nat
        /\ mod + 1 \in Module /\ ModuleOver
        /\ UNCHANGED <<setup, has, entries, phase, stack, inited, metaCache>>
    BY <1>7, ExtensionAssumption DEF StartModule, ModuleOver, Module, Types
  <2>2. \A m \in Module : m < mod + 1 => Handled(m)'
    <3> SUFFICES ASSUME NEW m \in Module, m < mod + 1 PROVE Handled(m)
      BY <2>1 DEF Handled
    <3>1. CASE m < mod
      BY <2>1, <3>1 DEF Progress
    <3>2. CASE m = mod
      BY <2>1, <3>2, ModuleIsHandled
    <3> QED
      BY <2>1, <3>1, <3>2, ExtensionAssumption DEF Module
  <2>3. Sound' => \A m \in Module : entries'[m] = (Sorted[setup][has[m]].order)'
    BY <2>1 DEF Progress, Sound
  <2>4. Entries(mod)' = entries[mod + 1] /\ entries[mod + 1] \in Seq(Ext)
    BY <2>1 DEF Entries, None, Types
  <2>5. \A i \in DOMAIN Entries(mod)' : i > 0 /\ i \in Nat
    BY <2>4
  <2>6. Len(Entries(mod)') \in Nat
    BY <2>4
  <2> QED
    BY <2>1, <2>2, <2>3, <2>5, <2>6 DEF Progress
<1>8. CASE NextEntry
  <2>1. /\ phase = "module" /\ stack = <<>> /\ entry' = entry + 1 /\ stack' # <<>>
        /\ entry < Len(Entries(mod)) /\ entry \in Nat /\ mod # 0
        /\ UNCHANGED <<setup, has, entries, phase, mod, inited, metaCache>>
    <3>1. mod # 0
      BY <1>8 DEF NextEntry, Entries, None, Types
    <3> QED
      BY <1>8, <3>1 DEF NextEntry, Types
  <2>2. Entries(mod)' = Entries(mod) /\ Len(Entries(mod)) \in Nat
        /\ (\A i \in DOMAIN Entries(mod) : i \in Nat) /\ mod \in Module
    BY <2>1, ExtensionAssumption DEF Entries, None, Types, Module
  <2>3. \A i \in DOMAIN Entries(mod) : i < entry + 1 => i < entry \/ i = entry
    BY <2>1, <2>2
  <2>4. \A m \in Module : Handled(m)' = Handled(m)
    BY <2>1 DEF Handled
  <2>5. Sound' => \A m \in Module : entries'[m] = (Sorted[setup][has[m]].order)'
    BY <2>1 DEF Progress, Sound
  <2>6. \A i \in DOMAIN Entries(mod) : i < entry + 1 =>
            Entries(mod)[i] \in inited[mod] \intersect metaCache[mod]
    BY <2>1, <2>3 DEF Progress
  <2>7. entry + 1 <= Len(Entries(mod))
    BY <2>1, <2>2
  <2>8. \A m \in Module : m < mod => Handled(m)
    BY <2>1 DEF Progress
  <2> QED
    BY <2>1, <2>2, <2>4, <2>5, <2>6, <2>7, <2>8 DEF Progress
<1>9. CASE StartPerApp
  <2>1. /\ phase = "module" /\ phase' = "perApp" /\ stack = <<>> /\ mod = Modules /\ ModuleOver
        /\ UNCHANGED <<setup, has, entries, stack, inited, metaCache>>
    BY <1>9 DEF StartPerApp, ModuleOver
  <2>2. \A m \in Module : Handled(m)'
    <3> SUFFICES ASSUME NEW m \in Module PROVE Handled(m)
      BY <2>1 DEF Handled
    <3>1. m < mod \/ m = mod
      BY <2>1, ExtensionAssumption DEF Module
    <3> QED
      BY <2>1, <3>1, ModuleIsHandled DEF Progress
  <2>3. Sound' => \A m \in Module : entries'[m] = (Sorted[setup][has[m]].order)'
    BY <2>1 DEF Progress, Sound
  <2> QED
    BY <2>1, <2>2, <2>3 DEF Progress
<1>10. CASE NextPending
  <2>1. /\ phase = "perApp" /\ UNCHANGED <<setup, has, entries, phase, inited, metaCache>>
    BY <1>10 DEF NextPending
  <2>2. \A m \in Module : Handled(m)'
    BY <2>1, HandledStays DEF Progress
  <2>3. Sound' => \A m \in Module : entries'[m] = (Sorted[setup][has[m]].order)'
    BY <2>1 DEF Progress, Sound
  <2> QED
    BY <2>1, <2>2, <2>3 DEF Progress
<1>11. CASE Stage1Over
  <2>1. /\ phase = "perApp" /\ phase' = "done" /\ stack = <<>> /\ stack' = <<>>
        /\ UNCHANGED <<setup, has, entries, inited, metaCache, pending>>
        /\ \A e, x \in Ext : pending[e][x] = None
    BY <1>11 DEF Stage1Over
  <2>2. \A m \in Module : Handled(m)'
    BY <2>1, HandledStays DEF Progress
  <2>3. Sound' => \A m \in Module : entries'[m] = (Sorted[setup][has[m]].order)'
    BY <2>1 DEF Progress, Sound
  <2> QED
    BY <2>1, <2>2, <2>3 DEF Progress
<1>12. CASE Fail
  BY <1>12 DEF Fail, Progress, Sound
<1> QED
  BY <1>1, <1>2, <1>3, <1>4, <1>5, <1>6, <1>7, <1>8, <1>9, <1>10, <1>11, <1>12 DEF Steps

-----------------------------------------------------------------------------
(* Calls and requests.                                                      *)

\* The steps within a call keep what runs.
LEMMA AskerStays ==
    ASSUME Staying, stack' # <<>>, stack'[1].todo = Base.todo
    PROVE  RunnerOf(stack[1])' = Asker
BY DEF Staying, RunnerOf, Rank, Entries, Asker, Base

\* A call for one extension runs that extension, in whatever module it is.
LEMMA PendingRunner ==
    ASSUME Types, Progress, Sound, NEW m \in Module, NEW x \in has[m],
           mod' = m, entries' = entries, stack'[1].todo = {x}
    PROVE  RunnerOf(stack[1])' = x
<1>1. setup \in Setup /\ has[m] \in SUBSET Ext /\ entries[m] = Sorted[setup][has[m]].order
  BY DEF Types, Progress
<1>2. /\ entries[m] \in Seq(has[m])
      /\ \E i \in DOMAIN entries[m] : entries[m][i] = x
  BY <1>1, SortedOrder
<1>3. Entries(mod)' = entries[m]
  BY ExtensionAssumption DEF Entries, None, Module
<1>4. Rank(x)' = CHOOSE i \in DOMAIN entries[m] : entries[m][i] = x
  BY <1>3 DEF Rank
<1>5. Rank(x)' \in Nat
  BY <1>2, <1>4
<1> DEFINE r(y) == Rank(y)'
<1>6. RunnerOf(stack[1])' = CHOOSE z \in {x} : \A y \in {x} : r(z) <= r(y)
  BY DEF RunnerOf
<1>7. r(x) <= r(x)
  BY <1>5
<1> HIDE DEF r
<1> QED
  BY <1>6, <1>7

\* A call with nothing on top of it, in a module whose entry has its turn.
LEMMA OneFrame ==
    ASSUME Staying, phase = "module", mod \in Module, entry \in DOMAIN Entries(mod),
           NEW f \in FrameSet, stack' = <<f>>, f.of = Turn, f.todo \subseteq has[mod],
           Turn \in inited'[mod] \union f.todo, f.at = 0
    PROVE  Frames'
<1>1. stack'[1] = f /\ Len(stack') = 1
  BY StackTypes
<1>2. Entries(mod)' = Entries(mod) /\ Turn' = Turn /\ f.at \in Nat
  BY DEF Staying, Entries, Turn, FrameSet
<1> QED
  BY <1>1, <1>2 DEF Frames, Staying

\* A call that has just begun, or begins another time.
LEMMA NewFrame ==
    ASSUME Len(stack') = 1, mod' \in Module, stack'[1].todo \subseteq has'[mod'],
           stack'[1].at > 0 =>
              /\ stack'[1].todo # {}
              /\ stack'[1].at <= Len(setup'.asks[RunnerOf(stack[1])']) + 1,
           phase' = "perApp" => stack'[1].at > 0,
           phase' = "module" => /\ entry' \in DOMAIN Entries(mod)' /\ stack'[1].of = Turn'
                                /\ Turn' \in inited'[mod'] \union stack'[1].todo
    PROVE  Frames'
<1>1. ~(Len(stack') > 1)
  OBVIOUS
<1> QED
  BY <1>1 DEF Frames

\* Requests are on top of a call, one at a time.
LEMMA StepKeepsFrames ==
    ASSUME Types, Counted, Progress, Frames, Lists, Steps PROVE Frames'
<1>1. CASE StartMemberDoes
  <2>1. /\ Staying /\ phase = "module" /\ mod \in Module /\ stack # <<>> /\ Sound
        /\ Base \in FrameSet /\ Base.at = 0 /\ Asker \in Base.todo /\ Asker \in Ext
        /\ UNCHANGED inited
    BY <1>1 DEF StartMemberDoes, Staying, Sound
  <2>2. /\ Base.todo \subseteq has[mod] /\ entry \in DOMAIN Entries(mod) /\ Base.of = Turn
        /\ Turn \in inited[mod] \union Base.todo
    BY <2>1 DEF Frames, Base
  <2>3. CASE Asker \in inited[mod] /\ stack' = <<[Base EXCEPT !.todo = @ \ {Asker}]>>
    <3> DEFINE f == [Base EXCEPT !.todo = @ \ {Asker}]
    <3>1. f \in FrameSet /\ f.of = Turn /\ f.todo = Base.todo \ {Asker} /\ f.at = 0
      BY <2>1, <2>2 DEF FrameSet
    <3>2. stack' = <<f>>
      BY <2>3
    <3> HIDE DEF f
    <3>3. f.todo \subseteq has[mod] /\ Turn \in inited'[mod] \union f.todo
      BY <2>1, <2>2, <2>3, <3>1
    <3> QED
      BY <2>1, <2>2, <3>1, <3>2, <3>3, OneFrame
  <2>4. CASE stack' = <<[Base EXCEPT !.at = 1]>>
    <3> DEFINE f == [Base EXCEPT !.at = 1]
    <3>1. f \in FrameSet /\ f.of = Turn /\ f.todo = Base.todo /\ f.at = 1
      BY <2>1, <2>2 DEF FrameSet
    <3>2. stack' = <<f>>
      BY <2>4
    <3> HIDE DEF f
    <3>3. stack'[1] = f /\ Len(stack') = 1 /\ stack' # <<>>
      BY <3>1, <3>2, StackTypes
    <3>4. RunnerOf(stack[1])' = Asker
      BY <2>1, <3>1, <3>3, AskerStays
    <3>5. setup' = setup /\ setup.asks[Asker] \in Seq([of : Ext, perApp : BOOLEAN])
      BY <2>1, ExtensionAssumption DEF Staying, Types
    <3>6. f.at <= Len(setup.asks[Asker]) + 1
      BY <3>1, <3>5
    <3>7. Entries(mod)' = Entries(mod) /\ Turn' = Turn /\ mod' = mod /\ has' = has /\ entry' = entry
          /\ phase' = phase
      BY <2>1 DEF Staying, Entries, Turn
    <3> QED
      BY <2>1, <2>2, <3>1, <3>3, <3>4, <3>5, <3>6, <3>7 DEF Frames
  <2> QED
    BY <1>1, <2>3, <2>4 DEF StartMemberDoes
<1>2. CASE EndMemberDoes
  <2>1. /\ Staying /\ phase \in {"module", "perApp"} /\ mod \in Module /\ stack # <<>> /\ Sound
        /\ Base \in FrameSet /\ Asker \in Base.todo
    BY <1>2 DEF EndMemberDoes, Staying, Sound
  <2>2. CASE phase = "perApp"
    BY <1>2, <2>2 DEF EndMemberDoes, Frames
  <2>3. CASE phase = "module"
    <3>1. /\ Base.todo \subseteq has[mod] /\ entry \in DOMAIN Entries(mod) /\ Base.of = Turn
          /\ Turn \in inited[mod] \union Base.todo
      BY <2>1, <2>3 DEF Frames, Base
    <3> DEFINE f == [Base EXCEPT !.todo = @ \ {Asker}, !.at = 0]
    <3>2. f \in FrameSet /\ f.of = Turn /\ f.todo = Base.todo \ {Asker} /\ f.at = 0
      BY <2>1, <3>1 DEF FrameSet
    <3>3. stack' = <<f>> /\ inited' = [inited EXCEPT ![mod] = @ \union {Asker}]
      BY <1>2, <2>3 DEF EndMemberDoes
    <3> HIDE DEF f
    <3>4. inited'[mod] = inited[mod] \union {Asker}
      BY <2>1, <3>3 DEF Types
    <3>5. f.todo \subseteq has[mod] /\ Turn \in inited'[mod] \union f.todo
      BY <3>1, <3>2, <3>4
    <3> QED
      BY <2>1, <2>3, <3>1, <3>2, <3>3, <3>5, OneFrame
  <2> QED
    BY <2>1, <2>2, <2>3
<1>3. CASE AskAnewDoes
  <2>1. /\ Staying /\ phase \in {"module", "perApp"} /\ mod \in Module /\ stack # <<>> /\ Sound
        /\ Base \in FrameSet /\ Base.at > 0 /\ Asker \in Base.todo /\ UNCHANGED inited
        /\ Base.at \in DOMAIN setup.asks[Asker] /\ Members(mod, Asked.of) = {}
        /\ Asked \in [of : Ext, perApp : BOOLEAN]
    BY <1>3 DEF AskAnewDoes, Staying, Sound
  <2>2. PICK perApp \in BOOLEAN : stack' =
            <<Base, [of |-> Asked.of, perApp |-> perApp, todo |-> {}, at |-> 0]>>
    BY <1>3 DEF AskAnewDoes
  <2> DEFINE g == [of |-> Asked.of, perApp |-> perApp, todo |-> {}, at |-> 0]
  <2>3. g \in FrameSet /\ g.of = Asked.of /\ g.todo = {} /\ g.at = 0 /\ stack' = <<Base, g>>
    BY <2>1, <2>2 DEF FrameSet
  <2> HIDE DEF g
  <2>4. stack'[1] = Base /\ stack'[2] = g /\ Len(stack') = 2 /\ stack' # <<>>
    BY <2>1, <2>3, StackTypes
  <2>5. RunnerOf(stack[1])' = Asker
    BY <2>1, <2>4, AskerStays
  <2>6. /\ Entries(mod)' = Entries(mod) /\ Turn' = Turn /\ mod' = mod /\ has' = has
        /\ entry' = entry /\ phase' = phase /\ setup' = setup
    BY <2>1 DEF Staying, Entries, Turn
  <2>7. /\ Base.todo \subseteq has[mod] /\ Base.at <= Len(setup.asks[Asker]) + 1
        /\ phase = "module" =>
            /\ entry \in DOMAIN Entries(mod) /\ Base.of = Turn
            /\ Turn \in inited[mod] \union Base.todo
    BY <2>1 DEF Frames, Base, Asker
  <2>8. Members(mod, stack[2].of)' = {}
    BY <2>1, <2>3, <2>4, <2>6 DEF Members
  <2>9. setup.asks[Asker][Base.at].of = g.of
    BY <2>3 DEF Asked
  <2> QED
    BY <2>1, <2>3, <2>4, <2>5, <2>6, <2>7, <2>8, <2>9 DEF Frames
<1>4. CASE AnswerDoes
  <2>1. /\ Staying /\ phase \in {"module", "perApp"} /\ mod \in Module /\ stack # <<>> /\ Sound
        /\ Base \in FrameSet /\ Base.at > 0 /\ Asker \in Base.todo /\ UNCHANGED inited
        /\ Base.at \in DOMAIN setup.asks[Asker] /\ Asker \in Ext
    BY <1>4 DEF AnswerDoes, Staying, Sound, FrameSet
  <2>2. setup.asks[Asker] \in Seq([of : Ext, perApp : BOOLEAN])
    BY <2>1, AsksAre
  <2>3. Base.at \in Nat /\ Base.at <= Len(setup.asks[Asker]) /\ Len(setup.asks[Asker]) \in Nat
    BY <2>1, <2>2
  <2>4. PICK k \in Nat : /\ k > 0 /\ k <= Len(setup.asks[Asker]) + 1
                         /\ stack' = <<[Base EXCEPT !.at = k]>>
    <3>1. stack' = <<[Base EXCEPT !.at =
                IF Asked.perApp /\ countdown[Asked.of] > 0
                THEN Len(setup.asks[Asker]) + 1 ELSE Base.at + 1]>>
      BY <1>4 DEF AnswerDoes
    <3> DEFINE k == IF Asked.perApp /\ countdown[Asked.of] > 0
                     THEN Len(setup.asks[Asker]) + 1 ELSE Base.at + 1
    <3>2. k \in Nat /\ k > 0 /\ k <= Len(setup.asks[Asker]) + 1
      BY <2>3
    <3> QED
      BY <3>1, <3>2
  <2> DEFINE f == [Base EXCEPT !.at = k]
  <2>5. f \in FrameSet /\ f.of = Base.of /\ f.todo = Base.todo /\ f.at = k /\ stack' = <<f>>
    BY <2>1, <2>4 DEF FrameSet
  <2> HIDE DEF f
  <2>6. stack'[1] = f /\ Len(stack') = 1 /\ stack' # <<>>
    BY <2>5, StackTypes
  <2>7. RunnerOf(stack[1])' = Asker
    BY <2>1, <2>5, <2>6, AskerStays
  <2>8. /\ Entries(mod)' = Entries(mod) /\ Turn' = Turn /\ mod' = mod /\ has' = has
        /\ entry' = entry /\ phase' = phase /\ setup' = setup
    BY <2>1 DEF Staying, Entries, Turn
  <2>9. /\ Base.todo \subseteq has[mod]
        /\ phase = "module" =>
            /\ entry \in DOMAIN Entries(mod) /\ Base.of = Turn
            /\ Turn \in inited[mod] \union Base.todo
    BY <2>1 DEF Frames, Base, Asker
  <2> QED
    BY <2>1, <2>4, <2>5, <2>6, <2>7, <2>8, <2>9 DEF Frames
<1>5. CASE FinishEntryDoes
  BY <1>5 DEF FinishEntryDoes, Frames
<1>6. CASE NextEntry
  <2>1. /\ phase = "module" /\ entry' = entry + 1 /\ entry \in Nat /\ entry < Len(Entries(mod))
        /\ stack' = <<Frame(Entries(mod)[entry + 1], FALSE)>> /\ mod # 0
        /\ UNCHANGED <<setup, has, entries, phase, mod, inited>>
    <3>1. mod # 0
      BY <1>6 DEF NextEntry, Entries, None, Types
    <3> QED
      BY <1>6, <3>1 DEF NextEntry, Types
  <2>2. mod \in Module /\ Sound
    BY <2>1, ExtensionAssumption DEF Types, Module, Sound
  <2>3. Entries(mod) \in Seq(has[mod]) /\ has[mod] \subseteq Ext
    BY <2>2, EntriesOf DEF Types
  <2>4. entry + 1 \in DOMAIN Entries(mod) /\ Entries(mod)[entry + 1] \in has[mod]
    BY <2>1, <2>3
  <2> DEFINE e == Entries(mod)[entry + 1]
             f == Frame(e, FALSE)
  <2>5. /\ f.of = e /\ f.todo = Members(mod, e) /\ f.at = 0 /\ f.todo \subseteq has[mod]
        /\ e \in f.todo /\ f \in FrameSet
    BY <2>3, <2>4 DEF Frame, Members, FrameSet
  <2>6. stack'[1] = f /\ Len(stack') = 1
    BY <2>1, <2>5, StackTypes
  <2>7. Entries(mod)' = Entries(mod) /\ Turn' = e
    BY <2>1 DEF Entries, Turn
  <2> HIDE DEF f
  <2>8. mod' \in Module /\ f.todo \subseteq has'[mod'] /\ entry' \in DOMAIN Entries(mod)'
    BY <2>1, <2>2, <2>4, <2>5, <2>7
  <2> HIDE DEF e
  <2>10. Len(stack') = 1
    BY <2>6
  <2>11. mod' \in Module /\ stack'[1].todo \subseteq has'[mod']
    BY <2>6, <2>8
  <2>12. ~(stack'[1].at > 0)
    BY <2>5, <2>6
  <2>13. phase' = "module"
    BY <2>1
  <2>14. entry' \in DOMAIN Entries(mod)'
    BY <2>8
  <2>15. stack'[1].of = Turn' /\ Turn' \in inited'[mod'] \union stack'[1].todo
    BY <2>5, <2>6, <2>7
  <2> QED
    BY <2>10, <2>11, <2>12, <2>13, <2>14, <2>15, NewFrame
<1>7. CASE NextPending
  <2>1. PICK e \in Ext, x \in Ext :
          /\ pending[e][x] # None
          /\ mod' = pending[e][x]
          /\ stack' = <<[of |-> x, perApp |-> FALSE, todo |-> {x}, at |-> 1]>>
    BY <1>7 DEF NextPending
  <2>2. /\ phase = "perApp" /\ Sound /\ phase' = phase
        /\ UNCHANGED <<setup, has, entries>>
    BY <1>7 DEF NextPending, Sound
  <2>3. pending[e][x] \in Module /\ x \in has[pending[e][x]]
    BY <2>1 DEF Types, Lists, None
  <2> DEFINE f == [of |-> x, perApp |-> FALSE, todo |-> {x}, at |-> 1]
  <2>4. f \in FrameSet /\ f.of = x /\ f.todo = {x} /\ f.at = 1 /\ stack' = <<f>>
    BY <2>1 DEF FrameSet
  <2> HIDE DEF f
  <2>5. stack'[1] = f /\ Len(stack') = 1
    BY <2>4, StackTypes
  <2>6. RunnerOf(stack[1])' = x
    BY <2>1, <2>2, <2>3, <2>4, <2>5, PendingRunner
  <2>7. f.at <= Len(setup'.asks[RunnerOf(stack[1])']) + 1
    <3>1. Len(setup.asks[x]) \in Nat
      BY AsksAre
    <3> QED
      BY <2>2, <2>4, <2>6, <3>1
  <2>8. mod' \in Module /\ f.todo \subseteq has'[mod']
    BY <2>1, <2>2, <2>3, <2>4
  <2> QED
    <3>1. Len(stack') = 1
      BY <2>5
    <3>2. mod' \in Module /\ stack'[1].todo \subseteq has'[mod'] /\ stack'[1].todo # {}
      BY <2>4, <2>5, <2>8
    <3>3. stack'[1].at <= Len(setup'.asks[RunnerOf(stack[1])']) + 1 /\ stack'[1].at > 0
      BY <2>4, <2>5, <2>7
    <3>4. phase' = "perApp" /\ phase' # "module"
      BY <2>2
    <3> QED
      BY <3>1, <3>2, <3>3, <3>4, NewFrame
<1>8. CASE ImportExtensions \/ StartModule \/ StartPerApp \/ Stage1Over
  <2>1. stack' = <<>>
    BY <1>8 DEF ImportExtensions, StartModule, StartPerApp, Stage1Over, ModuleOver, Progress
  <2> QED
    BY <2>1 DEF Frames
<1>9. CASE Fail
  BY <1>9 DEF Fail, Frames, Sound
<1> QED
  BY <1>1, <1>2, <1>3, <1>4, <1>5, <1>6, <1>7, <1>8, <1>9 DEF Steps

-----------------------------------------------------------------------------
(* Answers.                                                                 *)

\* Who has its answers keeps them.
LEMMA SatisfiedStays ==
    ASSUME setup' = setup, finals \subseteq finals'
    PROVE  /\ \A x : Satisfied(x) => Satisfied(x)'
           /\ \A x, e : FinalsOf(x, e) \subseteq FinalsOf(x, e)'
<1>1. \A x, e : FinalsOf(x, e) \subseteq FinalsOf(x, e)'
  BY DEF FinalsOf
<1>2. \A x, e : FinalsOf(x, e) # {} => FinalsOf(x, e)' # {}
  BY <1>1
<1> QED
  BY <1>1, <1>2 DEF Satisfied

\* Who waits, waits as long as its place in the lists is the same.
LEMMA WaitsStay ==
    ASSUME NEW x \in Ext, Waits(x),
           \A e \in Ext : pending[e][x] # None /\ <<e, x>> \notin excluded =>
                              pending'[e][x] # None /\ <<e, x>> \notin excluded'
    PROVE  Waits(x)'
BY DEF Waits

\* Nobody runs while no call has begun.
LEMMA NobodyRuns ==
    /\ stack = <<>> => \A x : ~BeingRun(x)
    /\ stack # <<>> /\ stack[1].at = 0 => \A x : ~BeingRun(x)
BY DEF BeingRun

\* The extension that runs has its answers or waits, when it returns.
LEMMA ReturnedIsAccounted ==
    ASSUME Types, Answers, Lists, stack # <<>>, Base.at > 0, Asker \in Ext, Base.at \in Nat,
           ~(Base.at <= Len(setup.asks[Asker]))
    PROVE  Satisfied(Asker) \/ Waits(Asker)
<1>1. BeingRun(Asker)
  BY DEF BeingRun, Base, Asker
<1>2. CASE Served(Asker, stack[1].at)
  <2>1. setup.asks[Asker] \in Seq([of : Ext, perApp : BOOLEAN])
    BY AsksAre
  <2>2. \A i \in DOMAIN setup.asks[Asker] : i < Base.at
    BY <2>1
  <2> QED
    BY <1>2, <2>2 DEF Served, Satisfied, Base
<1>3. CASE \E e \in Ext : pending[e][Asker] # None /\ countdown[e] > 0
  <2>1. PICK e \in Ext : pending[e][Asker] # None /\ countdown[e] > 0
    BY <1>3
  <2>2. <<e, Asker>> \notin excluded
    BY <2>1 DEF Lists
  <2> QED
    BY <2>1, <2>2 DEF Waits
<1> QED
  BY <1>1, <1>2, <1>3 DEF Answers

\* Nothing but the stack has changed, and nobody is run before or after.
LEMMA IdleKeepsAnswers ==
    ASSUME Answers, \A x : ~BeingRun(x), \A x : ~BeingRun(x)',
           UNCHANGED <<setup, inited, finals, pending, excluded>>
    PROVE  Answers'
<1>1. \A x : Satisfied(x)' = Satisfied(x) /\ Waits(x)' = Waits(x)
  BY DEF Satisfied, Waits, FinalsOf
<1> QED
  BY <1>1 DEF Answers, Accounted

\* Whoever has run has its answers, or is being run, or waits to be run again.
LEMMA StepKeepsAnswers ==
    ASSUME Types, Types', Progress, Frames, Answers, Lists, Steps PROVE Answers'
<1>1. CASE StartMemberDoes
  <2>1. /\ stack # <<>> /\ Base \in FrameSet /\ Base.at = 0 /\ Asker \in Ext
        /\ UNCHANGED <<setup, inited, finals, pending, excluded>>
    BY <1>1 DEF StartMemberDoes
  <2>2. \A x : ~BeingRun(x)
    BY <2>1, NobodyRuns DEF Base
  <2>3. stack' # <<>> /\ stack'[1].at \in {0, 1}
    <3>1. PICK f : stack' = <<f>> /\ f.at \in {0, 1}
      <4>1. [Base EXCEPT !.todo = @ \ {Asker}].at = 0 /\ [Base EXCEPT !.at = 1].at = 1
        BY <2>1 DEF FrameSet
      <4>2. \/ stack' = <<[Base EXCEPT !.todo = @ \ {Asker}]>>
            \/ stack' = <<[Base EXCEPT !.at = 1]>>
        BY <1>1, Zenon DEF StartMemberDoes
      <4> QED
        BY <4>1, <4>2
    <3> QED
      BY <3>1
  <2>4. ASSUME NEW x \in Ext, BeingRun(x)' PROVE Served(x, stack[1].at)'
    <3>1. stack'[1].at = 1
      BY <2>3, <2>4 DEF BeingRun
    <3>2. setup.asks[x] \in Seq([of : Ext, perApp : BOOLEAN])
      BY AsksAre
    <3>3. \A i \in DOMAIN setup.asks[x] : ~(i < 1)
      BY <3>2
    <3> QED
      BY <2>1, <3>1, <3>3 DEF Served
  <2>5. \A x : Satisfied(x)' = Satisfied(x) /\ Waits(x)' = Waits(x)
    BY <2>1 DEF Satisfied, Waits, FinalsOf
  <2>6. \A m \in Module : \A x \in inited[m] : Accounted(x)'
    BY <2>2, <2>5 DEF Answers, Accounted
  <2> QED
    BY <2>1, <2>4, <2>6 DEF Answers
<1>2. CASE EndMemberDoes
  <2>1. /\ Sound /\ phase # "done" /\ stack # <<>> /\ Base \in FrameSet /\ Base.at > 0
        /\ Asker \in has[mod] /\ mod \in Module /\ ~(Base.at <= Len(setup.asks[Asker]))
        /\ UNCHANGED <<setup, finals, pending, excluded>>
    BY <1>2 DEF EndMemberDoes
  <2>2. Asker \in Ext /\ Base.at \in Nat
    BY <2>1 DEF Types, FrameSet
  <2>3. Satisfied(Asker) \/ Waits(Asker)
    BY <2>1, <2>2, ReturnedIsAccounted
  <2>4. \A x : ~BeingRun(x)'
    <3>1. CASE stack' = <<>>
      BY <3>1 DEF BeingRun
    <3>2. CASE stack' = <<[Base EXCEPT !.todo = @ \ {Asker}, !.at = 0]>>
      <4>1. [Base EXCEPT !.todo = @ \ {Asker}, !.at = 0].at = 0
        BY <2>1 DEF FrameSet
      <4>2. stack'[1].at = 0
        BY <3>2, <4>1
      <4> QED
        BY <4>2 DEF BeingRun
    <3> QED
      BY <1>2, <3>1, <3>2 DEF EndMemberDoes
  <2>5. \A x : Satisfied(x)' = Satisfied(x) /\ Waits(x)' = Waits(x)
    BY <2>1 DEF Satisfied, Waits, FinalsOf
  <2>6. \A m \in Module : inited'[m] \subseteq inited[m] \union {Asker}
    <3>1. inited' = inited \/ inited' = [inited EXCEPT ![mod] = @ \union {Asker}]
      BY <1>2 DEF EndMemberDoes
    <3> QED
      BY <2>1, <3>1 DEF Types
  <2>7. \A x : BeingRun(x) => x = Asker
    BY DEF BeingRun, Asker, Base
  <2>8. \A m \in Module : \A x \in inited'[m] : Satisfied(x) \/ Waits(x)
    BY <2>3, <2>6, <2>7 DEF Answers, Accounted
  <2> QED
    BY <2>4, <2>5, <2>8 DEF Answers, Accounted
<1>3. CASE AskAnewDoes
  <2>1. /\ stack # <<>> /\ Base \in FrameSet /\ Asked.of \in Ext
        /\ UNCHANGED <<setup, has, entries, phase, mod, entry, inited, finals, pending, excluded,
                       countdown>>
    BY <1>3 DEF AskAnewDoes
  <2>2. stack' # <<>> /\ stack'[1] = Base
    <3>1. PICK g : stack' = <<Base, g>>
      BY <1>3 DEF AskAnewDoes
    <3> QED
      BY <3>1
  <2>3. RunnerOf(stack[1])' = Asker
    BY <2>1, <2>2, AskerStays DEF Staying
  <2>4. \A x : BeingRun(x)' = BeingRun(x)
    BY <2>1, <2>2, <2>3 DEF BeingRun, Asker, Base
  <2>5. \A x : Satisfied(x)' = Satisfied(x) /\ Waits(x)' = Waits(x)
    BY <2>1 DEF Satisfied, Waits, FinalsOf
  <2>6. \A x : Served(x, stack[1].at)' = Served(x, stack[1].at)
    BY <2>1, <2>2 DEF Served, FinalsOf, Base
  <2>7. stack'[1].at = stack[1].at
    BY <2>2 DEF Base
  <2> QED
    BY <2>1, <2>4, <2>5, <2>6, <2>7 DEF Answers, Accounted
<1>4. CASE AnswerDoes
  <2>1. /\ stack # <<>> /\ Base \in FrameSet /\ Base.at > 0 /\ Base.at \in DOMAIN setup.asks[Asker]
        /\ Asked \in [of : Ext, perApp : BOOLEAN] /\ mod \in Module /\ Asker \in has[mod]
        /\ UNCHANGED <<setup, has, entries, phase, mod, entry, countdown, inited>>
    BY <1>4 DEF AnswerDoes
  <2>2. /\ Asker \in Ext /\ Asked.of \in Ext /\ Asked.perApp \in BOOLEAN
        /\ mod # None /\ Base.at \in Nat
    BY <2>1, ExtensionAssumption DEF Types, FrameSet, Module, None
  <2> DEFINE wants == Asked.perApp
             delay == countdown[Asked.of] > 0
             k == IF wants /\ delay THEN Len(setup.asks[Asker]) + 1 ELSE Base.at + 1
             f == [Base EXCEPT !.at = k]
  <2>3. f.at = k /\ f.todo = Base.todo /\ stack' = <<f>>
    <3>1. stack' = <<[Base EXCEPT !.at = IF wants /\ delay THEN Len(setup.asks[Asker]) + 1
                                         ELSE @ + 1]>>
      BY <1>4, SMTT(30) DEF AnswerDoes
    <3> QED
      BY <2>1, <3>1 DEF FrameSet
  <2> HIDE DEF f
  <2>4. stack' # <<>> /\ stack'[1] = f
    BY <2>3
  <2>5. RunnerOf(stack[1])' = Asker
    BY <2>1, <2>3, <2>4, AskerStays DEF Staying
  <2>6. setup.asks[Asker] \in Seq([of : Ext, perApp : BOOLEAN])
    BY <2>2, AsksAre
  <2>7. k \in Nat /\ k > 0 /\ Base.at <= Len(setup.asks[Asker])
    BY <2>1, <2>2, <2>6
  <2>8. \A x : BeingRun(x)' <=> x = Asker
    BY <2>3, <2>4, <2>5, <2>7 DEF BeingRun
  <2>9. \A x : BeingRun(x) <=> x = Asker
    BY <2>1 DEF BeingRun, Base, Asker
  <2>10. Served(Asker, Base.at)
    <3>1. Base.at # Len(setup.asks[Asker]) + 1
      BY <2>2, <2>6, <2>7
    <3> QED
      BY <2>2, <2>9, <3>1 DEF Answers, Base
  <2>11. finals \subseteq finals'
    BY <1>4 DEF AnswerDoes
  <2>12. CASE wants /\ delay
    <3>1. pending' = Pended(Asked.of, Asker)
      BY <1>4, <2>12 DEF AnswerDoes
    <3>2. pending'[Asked.of][Asker] # None
      BY <2>2, <3>1 DEF Pended, Types
    <3>3. k = Len(setup.asks[Asker]) + 1 /\ countdown'[Asked.of] > 0
      BY <2>1, <2>12
    <3>4. stack'[1].at = Len(setup'.asks[Asker]) + 1
      BY <2>1, <2>3, <2>4, <3>3
    <3>5. \A x \in Ext : BeingRun(x)' =>
              /\ stack'[1].at = Len(setup'.asks[x]) + 1
              /\ \E e \in Ext : pending'[e][x] # None /\ countdown'[e] > 0
      BY <2>2, <2>8, <3>2, <3>3, <3>4
    <3>6. excluded' = excluded /\ finals' = finals
      <4>1. ~(Asked.perApp /\ ~(countdown[Asked.of] > 0)) => UNCHANGED <<excluded, finals>>
        BY <1>4, SMTT(30) DEF AnswerDoes
      <4> QED
        BY <2>12, <4>1
    <3>7. \A x \in Ext : Waits(x) => Waits(x)'
      <4>1. \A e, x \in Ext : pending[e][x] # None => pending'[e][x] # None
        BY <2>2, <3>1, SMTT(30) DEF Pended, Types
      <4> QED
        BY <3>6, <4>1, WaitsStay
    <3>8. \A x : Satisfied(x) => Satisfied(x)'
      BY <2>1, <2>11, SatisfiedStays
    <3>9. \A m \in Module : \A x \in inited'[m] : Accounted(x)'
      <4> SUFFICES ASSUME NEW m \in Module, NEW x \in inited[m] PROVE Accounted(x)'
        BY <2>1
      <4>1. x \in Ext /\ Accounted(x)
        BY DEF Answers, Types
      <4> QED
        BY <2>8, <2>9, <3>7, <3>8, <4>1 DEF Accounted
    <3> QED
      BY <3>5, <3>9 DEF Answers
  <2>13. CASE ~(wants /\ delay)
    <3>1. pending' = pending /\ k = Base.at + 1
      BY <1>4, <2>13 DEF AnswerDoes
    <3>2. \A i \in DOMAIN setup.asks[Asker] : i < k /\ setup.asks[Asker][i].perApp =>
              \E r \in finals' : r.by = Asker /\ r.of = setup.asks[Asker][i].of
      <4> SUFFICES ASSUME NEW i \in DOMAIN setup.asks[Asker], i < k, setup.asks[Asker][i].perApp
                   PROVE  \E r \in finals' : r.by = Asker /\ r.of = setup.asks[Asker][i].of
        OBVIOUS
      <4>1. i < Base.at \/ i = Base.at
        BY <2>2, <2>6, <3>1
      <4>2. CASE i < Base.at
        <5>1. FinalsOf(Asker, setup.asks[Asker][i].of) # {}
          BY <2>10, <4>2 DEF Served
        <5> QED
          BY <2>11, <5>1 DEF FinalsOf
      <4>3. CASE i = Base.at
        <5>1. wants /\ ~delay
          BY <2>13, <4>3 DEF Asked
        <5> DEFINE r == [by |-> Asker, of |-> Asked.of, in |-> mod, phase |-> phase,
                         data |-> appMeta[Asked.of]]
        <5>2. r \in finals'
          BY <1>4, <5>1 DEF AnswerDoes
        <5>3. r.by = Asker /\ r.of = setup.asks[Asker][i].of
          BY <4>3 DEF Asked
        <5> QED
          BY <5>2, <5>3
      <4> QED
        BY <4>1, <4>2, <4>3
    <3>3. \A x \in Ext : BeingRun(x)' => Served(x, stack[1].at)'
      <4> SUFFICES ASSUME NEW x \in Ext, BeingRun(x)' PROVE Served(x, stack[1].at)'
        OBVIOUS
      <4>1. x = Asker /\ stack'[1].at = k /\ setup' = setup
        BY <2>1, <2>3, <2>4, <2>8
      <4>2. \A i \in DOMAIN setup'.asks[x] : i < stack'[1].at /\ setup'.asks[x][i].perApp =>
                \E r \in finals' : r.by = x /\ r.of = setup'.asks[x][i].of
        BY <3>2, <4>1
      <4> QED
        BY <4>2 DEF Served, FinalsOf
    <3>4. \A x \in Ext : Waits(x) => x = Asker \/ Waits(x)'
      <4> SUFFICES ASSUME NEW x \in Ext, Waits(x), x # Asker PROVE Waits(x)'
        OBVIOUS
      <4>1. excluded' \subseteq excluded \union {<<Asked.of, Asker>>}
        BY <1>4 DEF AnswerDoes
      <4>2. \A e \in Ext : <<e, x>> \notin excluded => <<e, x>> \notin excluded'
        BY <4>1
      <4> QED
        BY <3>1, <4>2, WaitsStay
    <3>5. \A x : Satisfied(x) => Satisfied(x)'
      BY <2>1, <2>11, SatisfiedStays
    <3>6. \A m \in Module : \A x \in inited'[m] : Accounted(x)'
      <4> SUFFICES ASSUME NEW m \in Module, NEW x \in inited[m] PROVE Accounted(x)'
        BY <2>1
      <4>1. x \in Ext /\ Accounted(x)
        BY DEF Answers, Types
      <4> QED
        BY <2>8, <2>9, <3>4, <3>5, <4>1 DEF Accounted
    <3> QED
      BY <3>3, <3>6 DEF Answers
  <2> QED
    BY <2>12, <2>13
<1>5. CASE FinishEntryDoes
  <2>1. /\ stack # <<>> /\ Base.at = 0 /\ stack' = <<>> /\ pending' = Updated
        /\ UNCHANGED <<setup, inited, excluded, finals>>
    BY <1>5 DEF FinishEntryDoes
  <2>2. (\A x : ~BeingRun(x)) /\ (\A x : ~BeingRun(x)')
    BY <2>1 DEF BeingRun, Base
  <2>3. \A x \in Ext : Waits(x) => Waits(x)'
    <3>1. \A e, x \in Ext : <<e, x>> \notin excluded => pending'[e][x] = pending[e][x]
      BY <2>1 DEF Updated
    <3> QED
      BY <2>1, <3>1, WaitsStay
  <2>4. \A x : Satisfied(x) => Satisfied(x)'
    BY <2>1, SatisfiedStays
  <2>5. \A m \in Module : \A x \in inited[m] : x \in Ext
    BY DEF Types
  <2> QED
    BY <2>1, <2>2, <2>3, <2>4, <2>5 DEF Answers, Accounted
<1>6. CASE ImportExtensions \/ StartPerApp \/ Stage1Over
  <2>1. stack = <<>> /\ stack' = <<>> /\ UNCHANGED <<setup, inited, finals, pending, excluded>>
    BY <1>6 DEF ImportExtensions, StartPerApp, ModuleOver, Stage1Over, Progress
  <2>2. (\A x : ~BeingRun(x)) /\ (\A x : ~BeingRun(x)')
    BY <2>1 DEF BeingRun
  <2> QED
    BY <2>1, <2>2, IdleKeepsAnswers
<1>7. CASE StartModule
  <2>1. /\ stack = <<>> /\ stack' = <<>> /\ excluded' = {}
        /\ UNCHANGED <<setup, inited, finals, pending>>
    BY <1>7 DEF StartModule, ModuleOver
  <2>2. (\A x : ~BeingRun(x)) /\ (\A x : ~BeingRun(x)')
    BY <2>1 DEF BeingRun
  <2>3. \A x : Waits(x) => Waits(x)'
    BY <2>1 DEF Waits
  <2>4. \A x : Satisfied(x) => Satisfied(x)'
    BY <2>1, SatisfiedStays
  <2> QED
    BY <2>1, <2>2, <2>3, <2>4 DEF Answers, Accounted
<1>8. CASE NextEntry
  <2>1. /\ stack = <<>> /\ stack' = <<Frame(Entries(mod)[entry + 1], FALSE)>>
        /\ UNCHANGED <<setup, inited, finals, pending, excluded>>
    BY <1>8 DEF NextEntry
  <2>2. stack'[1].at = 0
    BY <2>1 DEF Frame
  <2>3. \A x : ~BeingRun(x)
    BY <2>1 DEF BeingRun
  <2>4. \A x : ~BeingRun(x)'
    BY <2>2 DEF BeingRun
  <2> QED
    BY <2>1, <2>3, <2>4, IdleKeepsAnswers
<1>9. CASE NextPending
  <2>1. PICK e \in Ext, x \in Ext :
          /\ pending[e][x] # None
          /\ mod' = pending[e][x]
          /\ stack' = <<[of |-> x, perApp |-> FALSE, todo |-> {x}, at |-> 1]>>
          /\ pending' = [pending EXCEPT ![e][x] = None]
    BY <1>9 DEF NextPending
  <2>2. /\ phase = "perApp" /\ Sound /\ stack = <<>>
        /\ UNCHANGED <<setup, has, entries, inited, finals, excluded>>
    BY <1>9 DEF NextPending, Sound
  <2>3. pending[e][x] \in Module /\ x \in has[pending[e][x]]
    BY <2>1 DEF Types, Lists, None
  <2>4. stack' # <<>> /\ stack'[1].at = 1 /\ stack'[1].todo = {x}
    BY <2>1
  <2>5. RunnerOf(stack[1])' = x
    BY <2>1, <2>2, <2>3, <2>4, PendingRunner
  <2>6. (\A y : ~BeingRun(y)) /\ (\A y : BeingRun(y)' <=> y = x)
    BY <2>2, <2>4, <2>5 DEF BeingRun
  <2>7. \A y \in Ext : BeingRun(y)' => Served(y, stack[1].at)'
    <3>1. setup.asks[x] \in Seq([of : Ext, perApp : BOOLEAN])
      BY AsksAre
    <3>2. \A i \in DOMAIN setup.asks[x] : ~(i < 1)
      BY <3>1
    <3>3. Served(x, stack[1].at)'
      BY <2>2, <2>4, <3>2 DEF Served
    <3> QED
      BY <2>6, <3>3
  <2>8. \A y \in Ext : Waits(y) => y = x \/ Waits(y)'
    <3> SUFFICES ASSUME NEW y \in Ext, Waits(y), y # x PROVE Waits(y)'
      OBVIOUS
    <3>1. \A d \in Ext : pending'[d][y] = pending[d][y]
      BY <2>1 DEF Types
    <3> QED
      BY <2>2, <3>1, WaitsStay
  <2>9. \A y : Satisfied(y) => Satisfied(y)'
    BY <2>2, SatisfiedStays
  <2>10. \A m \in Module : \A y \in inited'[m] : Accounted(y)'
    <3> SUFFICES ASSUME NEW m \in Module, NEW y \in inited[m] PROVE Accounted(y)'
      BY <2>2
    <3>1. y \in Ext /\ Accounted(y)
      BY DEF Answers, Types
    <3> QED
      BY <2>6, <2>8, <2>9, <3>1 DEF Accounted
  <2> QED
    BY <2>7, <2>10 DEF Answers
<1>10. CASE Fail
  <2>1. UNCHANGED <<setup, mod, entries, stack, inited, finals, pending, excluded, countdown>>
    BY <1>10 DEF Fail
  <2>2. \A x : BeingRun(x)' = BeingRun(x)
    BY <2>1 DEF BeingRun, RunnerOf, Rank, Entries
  <2>3. \A x : Satisfied(x)' = Satisfied(x) /\ Waits(x)' = Waits(x)
    BY <2>1 DEF Satisfied, Waits, FinalsOf
  <2>4. \A x : Served(x, stack[1].at)' = Served(x, stack[1].at)
    BY <2>1 DEF Served, FinalsOf
  <2> QED
    BY <2>1, <2>2, <2>3, <2>4 DEF Answers, Accounted
<1> QED
  BY <1>1, <1>2, <1>3, <1>4, <1>5, <1>6, <1>7, <1>8, <1>9, <1>10 DEF Steps

-----------------------------------------------------------------------------
(* The lists and the results of the application.                            *)

\* Who asks per app for what stays as it is.
LEMMA RequestsStay ==
    ASSUME Steps
    PROVE  /\ \A x, e : AsksPerApp(x, e)' = AsksPerApp(x, e)
           /\ \A x, e : Together(x, e)' = Together(x, e)
           /\ \A e : Homes(e)' = Homes(e) /\ AppResults(e)' = AppResults(e)
<1>1. setup' = setup /\ has' = has
  BY InstalledStays
<1>2. \A e : Homes(e)' = Homes(e)
  BY <1>1 DEF Homes
<1>3. \A x, e : AsksPerApp(x, e)' = AsksPerApp(x, e) /\ OnlyAsks(x, e)' = OnlyAsks(x, e)
  BY <1>1 DEF AsksPerApp, OnlyAsks
<1>4. \A e : AppResults(e)' = AppResults(e)
  BY <1>1, <1>2 DEF AppResults, Members, Homes
<1> QED
  BY <1>2, <1>3, <1>4 DEF Together

\* Who pends has asked, and who is excluded has got everything.
LEMMA StepKeepsLists ==
    ASSUME Types, Counted, Progress, Frames, Lists, Steps PROVE Lists'
<1> USE RequestsStay
<1>1. CASE AnswerDoes
  <2>1. /\ stack' # <<>> /\ Asked \in [of : Ext, perApp : BOOLEAN] /\ Asker \in has[mod]
        /\ Base.at \in DOMAIN setup.asks[Asker] /\ mod \in Module
        /\ UNCHANGED <<has, countdown>>
    BY <1>1 DEF AnswerDoes
  <2>2. Asker \in Ext /\ Asked.of \in Ext /\ mod # None
    BY <2>1, ExtensionAssumption DEF Types, Module, None
  <2>3. \A e, x \in Ext : pending'[e][x] # None =>
            x \in has'[pending'[e][x]] /\ AsksPerApp(x, e)
    <3>1. CASE pending' = pending
      BY <2>1, <3>1 DEF Lists
    <3>2. CASE pending' = Pended(Asked.of, Asker) /\ Asked.perApp
      <4>1. AsksPerApp(Asker, Asked.of)
        <5>1. Asked.perApp = TRUE
          BY <2>1, <3>2
        <5>2. Asked = [of |-> Asked.of, perApp |-> TRUE]
          BY <2>1, <5>1
        <5>3. setup.asks[Asker][Base.at] = [of |-> Asked.of, perApp |-> TRUE]
          BY <5>2 DEF Asked
        <5> QED
          BY <2>1, <5>3 DEF AsksPerApp
      <4> SUFFICES ASSUME NEW e \in Ext, NEW x \in Ext, pending'[e][x] # None
                   PROVE  x \in has[pending'[e][x]] /\ AsksPerApp(x, e)
        BY <2>1
      <4>2. \/ pending'[e][x] = pending[e][x]
            \/ e = Asked.of /\ x = Asker /\ pending'[e][x] = mod
        BY <2>2, <3>2 DEF Pended, Types
      <4> QED
        BY <2>1, <4>1, <4>2 DEF Lists
    <3> QED
      BY <1>1, <3>1, <3>2 DEF AnswerDoes
  <2>4. \A p \in excluded' : countdown'[p[1]] = 0
    <3>1. CASE excluded' = excluded
      BY <2>1, <3>1 DEF Lists
    <3>2. CASE excluded' = excluded \union {<<Asked.of, Asker>>} /\ ~(countdown[Asked.of] > 0)
      <4>1. countdown[Asked.of] = 0
        BY <2>2, <3>2 DEF Types
      <4> QED
        BY <2>1, <3>2, <4>1 DEF Lists
    <3> QED
      BY <1>1, <3>1, <3>2 DEF AnswerDoes
  <2>5. \A e, x \in Ext : pending'[e][x] # None =>
            x \in has'[pending'[e][x]] /\ AsksPerApp(x, e)'
    BY <2>3
  <2> QED
    BY <2>1, <2>4, <2>5 DEF Lists
<1>2. CASE FinishEntryDoes
  <2>1. /\ pending' = Updated /\ UNCHANGED <<has, countdown, excluded>>
    BY <1>2 DEF FinishEntryDoes
  <2>2. \A e, x \in Ext : pending'[e][x] = IF <<e, x>> \in excluded THEN None ELSE pending[e][x]
    BY <2>1 DEF Updated
  <2>3. \A p \in excluded : p[1] \in Ext /\ p[2] \in Ext /\ p = <<p[1], p[2]>>
    BY DEF Types
  <2>4. \A p \in excluded : pending'[p[1]][p[2]] = None
    BY <2>2, <2>3
  <2>5. \A e, x \in Ext : pending'[e][x] # None =>
            x \in has'[pending'[e][x]] /\ AsksPerApp(x, e)'
    <3>1. \A e, x \in Ext : pending'[e][x] # None => pending'[e][x] = pending[e][x]
      BY <2>2
    <3> QED
      BY <2>1, <3>1 DEF Lists
  <2> QED
    BY <2>1, <2>4, <2>5 DEF Lists
<1>3. CASE NextPending
  <2>1. PICK e \in Ext, x \in Ext : pending' = [pending EXCEPT ![e][x] = None]
    BY <1>3 DEF NextPending
  <2>2. UNCHANGED <<has, countdown, excluded>> /\ phase' = "perApp"
    BY <1>3 DEF NextPending
  <2>3. \A d, y \in Ext : pending'[d][y] # None => pending'[d][y] = pending[d][y]
    BY <2>1 DEF Types
  <2>4. \A d, y \in Ext : pending'[d][y] # None =>
            y \in has'[pending'[d][y]] /\ AsksPerApp(y, d)'
    BY <2>2, <2>3 DEF Lists
  <2> QED
    BY <2>2, <2>4 DEF Lists
<1>4. CASE StartModule
  <2>1. UNCHANGED <<has, pending>> /\ excluded' = {}
    BY <1>4 DEF StartModule
  <2> QED
    BY <2>1 DEF Lists
<1>5. CASE \/ StartMemberDoes \/ EndMemberDoes \/ AskAnewDoes \/ ImportExtensions \/ NextEntry
           \/ StartPerApp \/ Stage1Over \/ Fail
  <2>1. /\ UNCHANGED <<has, pending, excluded, countdown>>
        /\ phase' = "module" /\ stack' = <<>> =>
              excluded = {} \/ (phase = "module" /\ stack = <<>>)
    <3>1. CASE StartMemberDoes
      <4>1. \E f : stack' = <<f>>
        BY <3>1, Zenon DEF StartMemberDoes
      <4> QED
        BY <3>1, <4>1 DEF StartMemberDoes
    <3>2. CASE EndMemberDoes
      <4>1. phase = "module" => \E f : stack' = <<f>>
        BY <3>2, Zenon DEF EndMemberDoes
      <4>2. UNCHANGED <<has, pending, excluded, countdown, phase>>
        BY <3>2 DEF EndMemberDoes
      <4>3. phase = "module" => stack' # <<>>
        BY <4>1
      <4> QED
        BY <4>2, <4>3
    <3>3. CASE AskAnewDoes
      BY <3>3 DEF AskAnewDoes
    <3>4. CASE ImportExtensions \/ NextEntry \/ StartPerApp \/ Stage1Over \/ Fail
      BY <3>4 DEF ImportExtensions, NextEntry, StartPerApp, Stage1Over, Fail, Progress
    <3> QED
      BY <1>5, <3>1, <3>2, <3>3, <3>4
  <2> QED
    BY <2>1 DEF Lists
<1> QED
  BY <1>1, <1>2, <1>3, <1>4, <1>5 DEF Steps

\* A group that is finished is handed to the application.
LEMMA StepKeepsCollected == ASSUME Types, Progress, Frames, Collected, Steps PROVE Collected'
<1> USE RequestsStay
<1>1. \A m, e : Members(m, e)' = Members(m, e)
  BY InstalledStays
<1>2. CASE FinishEntryDoes
  <2>1. /\ Turn \in has[mod] /\ mod \in Module /\ appMeta' = Handed(Turn)
        /\ metaCache' = [metaCache EXCEPT ![mod] = @ \union {Turn}]
    BY <1>2 DEF FinishEntryDoes
  <2>2. Turn \in Ext
    BY <2>1 DEF Types
  <2>3. \A e \in Ext : appMeta'[e] = IF e = Turn THEN appMeta[e] \union ({mod} \X Members(mod, e))
                                     ELSE appMeta[e]
    BY <2>1, <2>2 DEF Handed, Types
  <2>4. \A m \in Module : metaCache'[m] \subseteq
            IF m = mod THEN metaCache[m] \union {Turn} ELSE metaCache[m]
    BY <2>1 DEF Types
  <2>5. ASSUME NEW m \in Module, NEW e \in metaCache'[m]
        PROVE  {m} \X Members(m, e) \subseteq appMeta'[e]
    <3>1. CASE e \in metaCache[m]
      BY <2>3, <3>1 DEF Collected, Types
    <3>2. CASE m = mod /\ e = Turn
      BY <2>2, <2>3, <3>2
    <3> QED
      BY <2>4, <3>1, <3>2
  <2>6. ASSUME NEW e \in Ext PROVE appMeta'[e] \subseteq AppResults(e)
    <3>1. CASE e = Turn
      <4>1. {mod} \X Members(mod, e) \subseteq AppResults(e)
        BY <2>1, <3>1 DEF AppResults, Homes
      <4> QED
        BY <2>3, <4>1 DEF Collected
    <3>2. CASE e # Turn
      BY <2>3, <3>2 DEF Collected
    <3> QED
      BY <3>1, <3>2
  <2>7. \A m \in Module : \A e \in metaCache'[m] : {m} \X Members(m, e)' \subseteq appMeta'[e]
    BY <1>1, <2>5
  <2> QED
    BY <2>6, <2>7, <1>1 DEF Collected
<1>3. CASE AnswerDoes
  <2>1. appMeta' = appMeta /\ mod \in Module
    BY <1>3 DEF AnswerDoes
  <2>2. \/ metaCache' = metaCache
        \/ /\ Members(mod, stack[2].of) = {}
           /\ metaCache' = [metaCache EXCEPT ![mod] = @ \union {stack[2].of}]
    BY <1>3 DEF AnswerDoes
  <2>3. ASSUME NEW m \in Module, NEW e \in metaCache'[m]
        PROVE  {m} \X Members(m, e) \subseteq appMeta[e]
    <3>1. CASE e \in metaCache[m]
      BY <3>1 DEF Collected
    <3>2. CASE m = mod /\ Members(mod, e) = {}
      BY <3>2
    <3>3. CASE metaCache' = metaCache
      BY <3>1, <3>3
    <3>4. CASE /\ Members(mod, stack[2].of) = {}
               /\ metaCache' = [metaCache EXCEPT ![mod] = @ \union {stack[2].of}]
      <4>1. e \in metaCache[m] \/ (m = mod /\ e = stack[2].of)
        BY <2>1, <3>4 DEF Types
      <4> QED
        BY <3>1, <3>2, <3>4, <4>1
    <3> QED
      BY <2>2, <3>3, <3>4
  <2> QED
    BY <1>1, <2>1, <2>3 DEF Collected
<1>4. CASE \/ StartMemberDoes \/ EndMemberDoes \/ AskAnewDoes \/ ImportExtensions \/ StartModule
           \/ NextEntry \/ StartPerApp \/ NextPending \/ Stage1Over \/ Fail
  <2>1. UNCHANGED <<metaCache, appMeta>>
    BY <1>4 DEF StartMemberDoes, EndMemberDoes, AskAnewDoes, ImportExtensions, StartModule,
                NextEntry, StartPerApp, NextPending, Stage1Over, Fail
  <2> QED
    BY <1>1, <2>1 DEF Collected
<1> QED
  BY <1>2, <1>3, <1>4 DEF Steps

\* When no module is to come that would add to the results of a class, and this
\* one has done so, they are complete.
LEMMA KnownToBeComplete ==
    ASSUME Types, Counted, Progress, Collected, phase \in {"module", "perApp"}, mod \in Module,
           NEW e \in Ext, countdown[e] = 0, e \in has[mod] => e \in metaCache[mod]
    PROVE  /\ appMeta[e] = AppResults(e)
           /\ phase = "module" => Homes(e) \subseteq 1..mod
<1>1. phase = "module" => Homes(e) \subseteq 1..mod
  <2> SUFFICES ASSUME phase = "module" PROVE Homes(e) \subseteq 1..mod
    OBVIOUS
  <2>1. Cardinality(Later(mod, e)) = 0
    BY DEF Counted
  <2>2. IsFiniteSet(Module)
    BY FS_Interval, ExtensionAssumption DEF Module
  <2>3. Later(mod, e) \subseteq Module
    BY DEF Later
  <2>4. IsFiniteSet(Later(mod, e))
    BY ONLY <2>2, <2>3, FS_Subset
  <2>5. Later(mod, e) = {}
    BY ONLY <2>1, <2>4, FS_EmptySet
  <2>6. \A m \in Homes(e) : m \in Module /\ ~(m > mod)
    BY <2>5 DEF Homes, Later, Targets
  <2> QED
    BY <2>6, ExtensionAssumption DEF Module
<1>2. \A m \in Homes(e) : e \in metaCache[m]
  <2> SUFFICES ASSUME NEW m \in Homes(e) PROVE e \in metaCache[m]
    OBVIOUS
  <2>1. m \in Module /\ e \in has[m]
    BY DEF Homes
  <2>2. CASE phase = "perApp"
    BY <2>1, <2>2 DEF Progress, Handled
  <2>3. CASE phase = "module" /\ m < mod
    BY <2>1, <2>3 DEF Progress, Handled
  <2>4. CASE m = mod
    BY <2>1, <2>4
  <2>5. phase = "module" => m < mod \/ m = mod
    BY <1>1, <2>1, ExtensionAssumption DEF Module
  <2> QED
    BY <2>2, <2>3, <2>4, <2>5
<1>3. \A m \in Homes(e) : {m} \X Members(m, e) \subseteq appMeta[e]
  BY <1>2 DEF Collected, Homes
<1>4. AppResults(e) \subseteq appMeta[e]
  BY <1>3 DEF AppResults
<1> QED
  BY <1>1, <1>4 DEF Collected

\* The answer per app without delay that an extension gets has it all.
LEMMA AnswerIsComplete ==
    ASSUME Types, Counted, Progress, Collected, AnswerDoes, Asked.perApp, ~(countdown[Asked.of] > 0)
    PROVE  /\ countdown[Asked.of] = 0 /\ appMeta[Asked.of] = AppResults(Asked.of)
           /\ phase = "module" => Homes(Asked.of) \subseteq 1..mod
<1>1. /\ phase \in {"module", "perApp"} /\ mod \in Module /\ Asked.of \in Ext
      /\ Asked.of \in has[mod] => Asked.of \in metaCache[mod]
  BY DEF AnswerDoes, Sound
<1>2. countdown[Asked.of] = 0
  BY <1>1 DEF Types
<1> QED
  BY <1>1, <1>2, KnownToBeComplete

\* Answers without delay have the results of all modules, and no module is to come
\* that would add to them.
LEMMA StepKeepsComplete ==
    ASSUME Types, Counted, Progress, Frames, Collected, Complete, Steps PROVE Complete'
<1> USE RequestsStay
<1>1. CASE AnswerDoes
  <2>1. UNCHANGED <<has, phase, mod, countdown>> /\ mod \in Module /\ Asker \in has[mod]
    BY <1>1 DEF AnswerDoes
  <2>2. CASE finals' = finals
    BY <2>1, <2>2 DEF Complete, Sound
  <2>3. CASE Asked.perApp /\ ~(countdown[Asked.of] > 0)
    <3> DEFINE r == [by |-> Asker, of |-> Asked.of, in |-> mod, phase |-> phase,
                     data |-> appMeta[Asked.of]]
    <3>1. finals' = finals \union {r}
      BY <1>1, <2>3 DEF AnswerDoes
    <3>2. /\ r.by = Asker /\ r.of = Asked.of /\ r.in = mod /\ r.phase = phase
          /\ r.data = appMeta[Asked.of]
      OBVIOUS
    <3> HIDE DEF r
    <3>3. /\ countdown[Asked.of] = 0 /\ appMeta[Asked.of] = AppResults(Asked.of)
          /\ phase = "module" => Homes(Asked.of) \subseteq 1..mod
      BY <1>1, <2>3, AnswerIsComplete
    <3>4. ASSUME NEW f \in finals'
          PROVE  /\ f.data = AppResults(f.of)
                 /\ f.phase = "module" => Homes(f.of) \subseteq 1..f.in /\ f.by \in has[f.in]
                 /\ phase = "module" => f.phase = "module" /\ f.in <= mod
                 /\ Sound => countdown[f.of] = 0
      <4>1. CASE f \in finals
        BY <4>1 DEF Complete
      <4>2. CASE f = r
        <5>1. mod <= mod
          BY DEF Types
        <5> QED
          BY <2>1, <3>2, <3>3, <4>2, <5>1
      <4> QED
        BY <3>1, <4>1, <4>2
    <3> QED
      BY <2>1, <3>4 DEF Complete, Sound
  <2> QED
    BY <1>1, <2>2, <2>3 DEF AnswerDoes
<1>2. CASE StartModule
  <2>1. /\ phase = "module" /\ mod' = mod + 1 /\ mod \in Nat /\ mod + 1 \in Module
        /\ countdown' = Decreased(mod + 1) /\ UNCHANGED <<has, phase, finals>>
    BY <1>2, ExtensionAssumption DEF StartModule, ModuleOver, Module, Types
  <2>2. ASSUME NEW f \in finals PROVE countdown'[f.of] = 0
    <3>1. f.of \in Ext /\ countdown[f.of] = 0
      BY <2>1 DEF Types, Final, Complete, Sound
    <3>2. Cardinality(Later(mod, f.of)) = 0
      BY <2>1, <3>1 DEF Counted
    <3>3. f.of \notin Targets(mod + 1)
      BY <2>1, <3>2, LaterCounts
    <3> QED
      BY <2>1, <3>1, <3>3 DEF Decreased
  <2>3. ASSUME NEW f \in finals PROVE f.phase = "module" /\ f.in <= mod + 1
    <3>1. f.phase = "module" /\ f.in <= mod /\ f.in \in Nat
      BY <2>1, ExtensionAssumption DEF Complete, Types, Final, Module
    <3> QED
      BY <2>1, <3>1
  <2> QED
    BY <2>1, <2>2, <2>3 DEF Complete
<1>3. CASE ImportExtensions
  <2>1. finals' = {}
    BY <1>3 DEF ImportExtensions, Progress
  <2> QED
    BY <2>1 DEF Complete
<1>4. CASE \/ StartMemberDoes \/ EndMemberDoes \/ AskAnewDoes \/ FinishEntryDoes \/ NextEntry
           \/ StartPerApp \/ NextPending \/ Stage1Over \/ Fail
  <2>1. /\ UNCHANGED <<has, finals, countdown>>
        /\ phase' = "module" => phase = "module" /\ mod' = mod
        /\ Sound' => Sound
    BY <1>4 DEF StartMemberDoes, EndMemberDoes, AskAnewDoes, FinishEntryDoes, NextEntry,
                StartPerApp, ModuleOver, NextPending, Stage1Over, Fail, Sound
  <2> QED
    BY <2>1 DEF Complete
<1> QED
  BY <1>1, <1>2, <1>3, <1>4 DEF Steps

-----------------------------------------------------------------------------
(* Once.                                                                    *)

\* What the invariant Once says of two classes.
OnceFor(x, e) ==
    /\ OneFinal(x, e)
    /\ Sound /\ FinalsOf(x, e) # {} =>
          pending[e][x] = None \/ (phase = "module" /\ <<e, x>> \in excluded)
    /\ phase = "perApp" /\ BeingRun(x) =>
          /\ pending[e][x] = None
          /\ \A f \in FinalsOf(x, e) : f.in = mod /\ f.phase = "perApp"

\* Nobody is served who has been served before: in a module, who has been served
\* is excluded; at the end, only who has not been is run again.
LEMMA StepKeepsOnce ==
    ASSUME Types, Counted, Progress, Frames, Lists, Collected, Complete, Once, Steps
    PROVE  Once'
<1> SUFFICES ASSUME NEW x \in Ext, NEW e \in Ext, Together(x, e) PROVE OnceFor(x, e)'
  BY RequestsStay DEF Once, OnceFor
<1>1. OnceFor(x, e)
  BY DEF Once, OnceFor
<1>2. CASE AnswerDoes
  <2>1. /\ stack # <<>> /\ Base \in FrameSet /\ Base.at > 0 /\ mod \in Module
        /\ Asker \in has[mod] /\ Base.at \in DOMAIN setup.asks[Asker]
        /\ Asked \in [of : Ext, perApp : BOOLEAN] /\ phase \in {"module", "perApp"} /\ Sound
        /\ UNCHANGED <<setup, has, entries, phase, mod, entry, countdown>>
    BY <1>2 DEF AnswerDoes, Sound
  <2>2. stack' # <<>> /\ stack'[1].todo = Base.todo
    <3>1. PICK k : stack' = <<[Base EXCEPT !.at = k]>>
      BY <1>2, Zenon DEF AnswerDoes
    <3>2. [Base EXCEPT !.at = k].todo = Base.todo
      BY <2>1 DEF FrameSet
    <3> QED
      BY <3>1, <3>2
  <2>3. RunnerOf(stack[1])' = Asker
    BY <2>1, <2>2, AskerStays DEF Staying
  <2>4. BeingRun(x)' => x = Asker
    BY <2>3 DEF BeingRun
  <2>5. BeingRun(Asker)
    BY <2>1 DEF BeingRun, Base, Asker
  <2>6. BeingRun(x)' => BeingRun(x)
    BY <2>4, <2>5
  <2>7. Asked.perApp /\ x = Asker => Asked.of = e
    BY <2>1 DEF Together, OnlyAsks, Asked
  <2>8. CASE Asked.perApp /\ countdown[Asked.of] > 0
    <3>1. pending' = Pended(Asked.of, Asker) /\ UNCHANGED <<excluded, finals>>
      BY <1>2, <2>8 DEF AnswerDoes
    <3>2. FinalsOf(x, e)' = FinalsOf(x, e)
      BY <3>1 DEF FinalsOf
    <3>3. CASE x = Asker
      <4>1. FinalsOf(x, e) = {}
        <5>1. countdown[e] # 0
          BY <2>7, <2>8, <3>3
        <5> QED
          BY <2>1, <5>1 DEF Complete, FinalsOf
      <4>2. phase # "perApp"
        BY <2>1, <2>8, <2>7, <3>3 DEF Counted
      <4> QED
        BY <2>1, <3>2, <4>1, <4>2 DEF OnceFor, OneFinal
    <3>4. CASE x # Asker
      <4>1. pending'[e][x] = pending[e][x]
        BY <3>1, <3>4 DEF Pended, Types
      <4> QED
        BY <1>1, <2>1, <2>6, <3>1, <3>2, <4>1 DEF OnceFor, OneFinal, Sound
    <3> QED
      BY <3>3, <3>4
  <2>9. CASE Asked.perApp /\ ~(countdown[Asked.of] > 0)
    <3> DEFINE r == [by |-> Asker, of |-> Asked.of, in |-> mod, phase |-> phase,
                     data |-> appMeta[Asked.of]]
    <3>1. /\ finals' = finals \union {r} /\ pending' = pending
          /\ excluded' = excluded \union {<<Asked.of, Asker>>}
      BY <1>2, <2>9 DEF AnswerDoes
    <3>2. r.by = Asker /\ r.of = Asked.of /\ r.in = mod /\ r.phase = phase
      OBVIOUS
    <3> HIDE DEF r
    <3>3. CASE x = Asker
      <4>1. Asked.of = e /\ FinalsOf(x, e)' = FinalsOf(x, e) \union {r}
        BY <2>7, <2>9, <3>1, <3>2, <3>3 DEF FinalsOf
      <4>2. ASSUME NEW f \in FinalsOf(x, e) PROVE f.in = mod /\ f.phase = phase
        <5>1. CASE phase = "perApp"
          BY <1>1, <2>5, <3>3, <5>1 DEF OnceFor
        <5>2. CASE phase = "module"
          <6>1. /\ f.phase = "module" /\ f.in <= mod /\ Homes(f.of) \subseteq 1..f.in
                /\ f.of = e /\ f.in \in Module
            BY <5>2 DEF Complete, FinalsOf, Types, Final
          <6>2. mod \in Homes(e)
            BY <2>1, <3>3 DEF Together, Homes
          <6>3. mod <= f.in /\ f.in \in Nat /\ mod \in Nat
            BY <2>1, <6>1, <6>2, ExtensionAssumption DEF Module
          <6> QED
            BY <5>2, <6>1, <6>3
        <5> QED
          BY <2>1, <5>1, <5>2
      <4>3. \A f \in FinalsOf(x, e)' : f.in = mod /\ f.phase = phase
        BY <3>2, <4>1, <4>2
      <4>4. <<e, x>> \in excluded'
        BY <3>1, <3>3, <4>1
      <4>5. phase = "perApp" => pending'[e][x] = None
        BY <1>1, <2>5, <3>1, <3>3 DEF OnceFor
      <4> QED
        BY <2>1, <4>3, <4>4, <4>5 DEF OnceFor, OneFinal
    <3>4. CASE x # Asker
      <4>1. FinalsOf(x, e)' = FinalsOf(x, e)
        BY <3>1, <3>2, <3>4 DEF FinalsOf
      <4>2. \A f, g \in FinalsOf(x, e) : f.in = g.in /\ f.phase = g.phase
        BY <1>1 DEF OnceFor, OneFinal
      <4>3. <<e, x>> \in excluded => <<e, x>> \in excluded'
        BY <3>1
      <4> QED
        BY <1>1, <2>1, <2>6, <3>1, <4>1, <4>2, <4>3 DEF OnceFor, OneFinal, Sound
    <3> QED
      BY <3>3, <3>4
  <2>10. CASE ~Asked.perApp
    <3>1. UNCHANGED <<excluded, finals, pending>>
      BY <1>2, <2>10 DEF AnswerDoes
    <3>2. FinalsOf(x, e)' = FinalsOf(x, e)
      BY <3>1 DEF FinalsOf
    <3> QED
      BY <1>1, <2>1, <2>6, <3>1, <3>2 DEF OnceFor, OneFinal, Sound
  <2> QED
    BY <2>8, <2>9, <2>10
<1>3. CASE FinishEntryDoes
  <2>1. /\ pending' = Updated /\ stack' = <<>> /\ phase = "module"
        /\ UNCHANGED <<phase, excluded, finals>>
    BY <1>3 DEF FinishEntryDoes
  <2>2. FinalsOf(x, e)' = FinalsOf(x, e)
    BY <2>1 DEF FinalsOf
  <2>3. pending[e][x] = None \/ <<e, x>> \in excluded => pending'[e][x] = None
    BY <2>1 DEF Updated
  <2> QED
    BY <1>1, <2>1, <2>2, <2>3 DEF OnceFor, OneFinal, Sound
<1>4. CASE ImportExtensions
  <2>1. finals' = {} /\ phase' # "perApp"
    BY <1>4 DEF ImportExtensions, Progress
  <2>2. FinalsOf(x, e)' = {}
    BY <2>1 DEF FinalsOf
  <2> QED
    BY <2>1, <2>2 DEF OnceFor, OneFinal
<1>5. CASE StartModule \/ StartPerApp
  <2>1. /\ stack = <<>> /\ stack' = <<>> /\ phase = "module" /\ UNCHANGED <<finals, pending>>
    BY <1>5 DEF StartModule, StartPerApp, ModuleOver
  <2>2. FinalsOf(x, e)' = FinalsOf(x, e)
    BY <2>1 DEF FinalsOf
  <2>3. FinalsOf(x, e) # {} => pending[e][x] = None
    <3>1. <<e, x>> \in excluded => pending[<<e, x>>[1]][<<e, x>>[2]] = None
      BY <2>1 DEF Lists
    <3> QED
      BY <1>1, <2>1, <3>1 DEF OnceFor, Sound
  <2>4. ~BeingRun(x)'
    BY <2>1 DEF BeingRun
  <2> QED
    BY <1>1, <2>1, <2>2, <2>3, <2>4 DEF OnceFor, OneFinal
<1>6. CASE NextPending
  <2>1. PICK d \in Ext, y \in Ext :
          /\ pending[d][y] # None
          /\ mod' = pending[d][y]
          /\ stack' = <<[of |-> y, perApp |-> FALSE, todo |-> {y}, at |-> 1]>>
          /\ pending' = [pending EXCEPT ![d][y] = None]
    BY <1>6 DEF NextPending
  <2>2. phase = "perApp" /\ Sound /\ UNCHANGED <<setup, has, entries, phase, finals, excluded>>
    BY <1>6 DEF NextPending, Sound
  <2>3. pending[d][y] \in Module /\ y \in has[pending[d][y]] /\ AsksPerApp(y, d)
    BY <2>1 DEF Types, Lists, None
  <2>4. stack' # <<>> /\ stack'[1].todo = {y}
    BY <2>1
  <2>5. RunnerOf(stack[1])' = y
    BY <2>1, <2>2, <2>3, <2>4, PendingRunner
  <2>6. FinalsOf(x, e)' = FinalsOf(x, e)
    BY <2>2 DEF FinalsOf
  <2>7. pending'[e][x] = pending[e][x] \/ pending'[e][x] = None
    BY <2>1 DEF Types
  <2>8. CASE x = y
    <3>1. d = e
      <4>1. PICK i \in DOMAIN setup.asks[x] : setup.asks[x][i] = [of |-> d, perApp |-> TRUE]
        BY <2>3, <2>8 DEF AsksPerApp
      <4>2. setup.asks[x][i].perApp /\ setup.asks[x][i].of = d
        BY <4>1
      <4> QED
        BY <4>2 DEF Together, OnlyAsks
    <3>2. FinalsOf(x, e) = {}
      BY <1>1, <2>1, <2>2, <2>8, <3>1 DEF OnceFor
    <3>3. pending'[e][x] = None
      BY <2>1, <2>8, <3>1 DEF Types
    <3> QED
      BY <2>6, <3>2, <3>3 DEF OnceFor, OneFinal
  <2>9. CASE x # y
    <3>1. ~BeingRun(x)'
      BY <2>5, <2>9 DEF BeingRun
    <3> QED
      BY <1>1, <2>2, <2>6, <2>7, <3>1 DEF OnceFor, OneFinal
  <2> QED
    BY <2>8, <2>9
<1>7. CASE StartMemberDoes \/ NextEntry
  <2>1. phase = "module" /\ UNCHANGED <<phase, finals, pending, excluded>>
    BY <1>7 DEF StartMemberDoes, NextEntry
  <2>2. FinalsOf(x, e)' = FinalsOf(x, e)
    BY <2>1 DEF FinalsOf
  <2> QED
    BY <1>1, <2>1, <2>2 DEF OnceFor, OneFinal, Sound
<1>8. CASE EndMemberDoes
  <2>1. /\ Sound /\ UNCHANGED <<phase, finals, pending, excluded>>
        /\ phase = "perApp" => stack' = <<>>
    BY <1>8 DEF EndMemberDoes
  <2>2. FinalsOf(x, e)' = FinalsOf(x, e) /\ (phase = "perApp" => ~BeingRun(x)')
    BY <2>1 DEF FinalsOf, BeingRun
  <2> QED
    BY <1>1, <2>1, <2>2 DEF OnceFor, OneFinal, Sound
<1>9. CASE AskAnewDoes
  <2>1. /\ Sound /\ stack # <<>>
        /\ UNCHANGED <<setup, has, entries, phase, mod, entry, finals, pending, excluded>>
    BY <1>9 DEF AskAnewDoes
  <2>2. stack' # <<>> /\ stack'[1] = Base
    <3>1. PICK g : stack' = <<Base, g>>
      BY <1>9 DEF AskAnewDoes
    <3> QED
      BY <3>1
  <2>3. RunnerOf(stack[1])' = Asker
    BY <2>1, <2>2, AskerStays DEF Staying
  <2>4. BeingRun(x)' = BeingRun(x) /\ FinalsOf(x, e)' = FinalsOf(x, e)
    BY <2>1, <2>2, <2>3 DEF BeingRun, Asker, Base, FinalsOf
  <2> QED
    BY <1>1, <2>1, <2>4 DEF OnceFor, OneFinal, Sound
<1>10. CASE Stage1Over \/ Fail
  <2>1. UNCHANGED <<finals, pending>>
    BY <1>10 DEF Stage1Over, Fail
  <2>2. FinalsOf(x, e)' = FinalsOf(x, e)
    BY <2>1 DEF FinalsOf
  <2>3. CASE Stage1Over
    <3>1. phase = "perApp" /\ phase' = "done"
      BY <2>3 DEF Stage1Over
    <3> QED
      BY <1>1, <2>1, <2>2, <3>1 DEF OnceFor, OneFinal, Sound
  <2>4. CASE Fail
    <3>1. phase' = "failed"
      BY <2>4 DEF Fail
    <3> QED
      BY <1>1, <2>2, <3>1 DEF OnceFor, OneFinal, Sound
  <2> QED
    BY <1>10, <2>3, <2>4
<1> QED
  BY <1>2, <1>3, <1>4, <1>5, <1>6, <1>7, <1>8, <1>9, <1>10 DEF Steps

-----------------------------------------------------------------------------
(* The theorems.                                                            *)

\* IInv holds at the start.
LEMMA InitHasIt == Init => IInv
<1> SUFFICES ASSUME Init PROVE IInv
  OBVIOUS
<1>1. PICK s \in Setup, installed \in [Module -> SUBSET Ext] : InitWith(s, installed)
  BY DEF Init
<1>2. IsFiniteSet(Module) /\ Modules \in Nat
  BY FS_Interval, ExtensionAssumption DEF Module
<1>3. \A e : {m \in Module : e \in Targets(m)} = Later(0, e)
  BY <1>2 DEF Later, Module
<1>4. \A e : Cardinality(Later(0, e)) \in Nat
  <2> SUFFICES ASSUME NEW e PROVE Cardinality(Later(0, e)) \in Nat
    OBVIOUS
  <2>1. Later(0, e) \subseteq Module
    BY DEF Later
  <2>2. IsFiniteSet(Later(0, e))
    BY ONLY <1>2, <2>1, FS_Subset
  <2> QED
    BY ONLY <2>2, FS_CardinalityType
<1>5. countdown = [e \in Ext |-> Cardinality(Later(0, e))]
  BY <1>1, <1>3 DEF InitWith
<1>6. Types
  <2>1. /\ setup \in Setup /\ has \in [Module -> SUBSET Ext]
        /\ entries \in [Module -> Seq(Ext)] /\ stack \in Seq(FrameSet)
        /\ phase = "import" /\ mod \in 0..Modules /\ entry \in Nat
    BY <1>1, <1>2 DEF InitWith
  <2>2. countdown \in [Ext -> Nat]
    BY <1>4, <1>5
  <2>3. /\ metaCache \in [Module -> SUBSET Ext] /\ inited \in [Module -> SUBSET Ext]
        /\ appMeta \in [Ext -> SUBSET Result]
        /\ pending \in [Ext -> [Ext -> Module \union {None}]]
        /\ excluded \subseteq Ext \X Ext /\ finals \subseteq Final
    BY <1>1 DEF InitWith
  <2> QED
    BY <2>1, <2>2, <2>3 DEF Types
<1>7. Counted
  BY <1>1, <1>5 DEF Counted, InitWith
<1>8. Progress
  BY <1>1 DEF Progress, InitWith, Sound
<1>9. Frames /\ Answers
  BY <1>1 DEF Frames, Answers, InitWith, BeingRun
<1>10. Lists /\ Collected /\ Complete
  BY <1>1 DEF Lists, Collected, Complete, InitWith
<1>11. Once
  <2>1. \A x, e : FinalsOf(x, e) = {}
    BY <1>1 DEF FinalsOf, InitWith
  <2>2. phase # "perApp"
    BY <1>1 DEF InitWith
  <2> QED
    BY <2>1, <2>2 DEF Once, OneFinal
<1> QED
  BY <1>6, <1>7, <1>8, <1>9, <1>10, <1>11 DEF IInv

\* Each step keeps it.
LEMMA StepKeepsIt == IInv /\ [Next]_vars => IInv'
<1> SUFFICES ASSUME IInv, [Next]_vars PROVE IInv'
  OBVIOUS
<1>1. CASE Next
  <2>1. Steps
    BY <1>1, NextIsSteps DEF IInv
  <2>2. Types' /\ Counted' /\ Progress'
    BY <2>1, StepKeepsTypes, StepKeepsCounted, StepKeepsProgress DEF IInv
  <2>3. Frames' /\ Lists' /\ Collected'
    BY <2>1, StepKeepsFrames, StepKeepsLists, StepKeepsCollected DEF IInv
  <2>4. Answers' /\ Complete' /\ Once'
    BY <2>1, <2>2, StepKeepsAnswers, StepKeepsComplete, StepKeepsOnce DEF IInv
  <2> QED
    BY <2>2, <2>3, <2>4 DEF IInv
<1>2. CASE UNCHANGED vars
  <2>0. /\ setup' = setup /\ has' = has /\ entries' = entries /\ phase' = phase /\ mod' = mod
        /\ entry' = entry /\ stack' = stack /\ countdown' = countdown
        /\ metaCache' = metaCache /\ inited' = inited /\ appMeta' = appMeta
        /\ pending' = pending /\ excluded' = excluded /\ finals' = finals
    BY <1>2 DEF vars
  <2> USE <2>0
  <2>1. Types' /\ Counted'
    BY DEF IInv, Types, Counted, Later, Targets
  <2>2. Progress'
    BY DEF IInv, Progress, Sound, Handled, Entries
  <2>3. Frames'
    <3>1. Entries(mod)' = Entries(mod) /\ Turn' = Turn
      BY DEF Entries, Turn
    <3>2. RunnerOf(stack[1])' = RunnerOf(stack[1])
      BY DEF RunnerOf, Rank, Entries
    <3>3. Members(mod, stack[2].of)' = Members(mod, stack[2].of)
      BY DEF Members
    <3> QED
      BY <3>1, <3>2, <3>3, SMTT(30) DEF IInv, Frames, Sound
  <2>4. Answers'
    <3>1. \A x : BeingRun(x)' = BeingRun(x)
      BY DEF BeingRun, RunnerOf, Rank, Entries
    <3>2. \A x : Satisfied(x)' = Satisfied(x) /\ Waits(x)' = Waits(x)
      BY DEF Satisfied, Waits, FinalsOf
    <3>3. \A x : Accounted(x)' = Accounted(x)
      BY <3>1, <3>2 DEF Accounted
    <3>4. Answers
      BY DEF IInv
    <3>5. \A x : Served(x, stack[1].at)' = Served(x, stack[1].at)
      BY DEF Served, FinalsOf
    <3> QED
      BY <3>1, <3>3, <3>4, <3>5 DEF Answers
  <2>5. Lists' /\ Collected'
    BY DEF IInv, Lists, Collected, AsksPerApp, Members, AppResults, Homes
  <2>6. Complete'
    BY DEF IInv, Complete, AppResults, Members, Homes, Sound
  <2>7. Once'
    <3>1. \A x : BeingRun(x)' = BeingRun(x)
      BY DEF BeingRun, RunnerOf, Rank, Entries
    <3>2. \A x, e : FinalsOf(x, e)' = FinalsOf(x, e) /\ Together(x, e)' = Together(x, e)
      BY DEF FinalsOf, Together, OnlyAsks, Homes
    <3>3. \A x, e : OneFinal(x, e)' = OneFinal(x, e)
      BY <3>2 DEF OneFinal
    <3>4. Once
      BY DEF IInv
    <3> QED
      BY <3>1, <3>2, <3>3, <3>4 DEF Once, Sound
  <2> QED
    BY <2>1, <2>2, <2>3, <2>4, <2>5, <2>6, <2>7 DEF IInv
<1> QED
  BY <1>1, <1>2

\* IInv holds of stage1.
LEMMA IInvHolds == Spec => []IInv
BY InitHasIt, StepKeepsIt, PTL DEF Spec

\* When stage1 of the extensions is over, each class that asks for the results of
\* the whole application has had them: nobody is forgotten on the pending list.
THEOREM AskersServed == Spec => []AskersAreServed
<1>1. IInv => AskersAreServed
  <2> SUFFICES ASSUME IInv, phase = "done",
                      NEW x \in Ext, NEW e \in Ext, Homes(x) # {}, AsksPerApp(x, e)
               PROVE  FinalsOf(x, e) # {}
    BY DEF AskersAreServed
  <2>1. PICK m \in Module : x \in inited[m]
    BY DEF IInv, Progress, Handled, Homes
  <2>2. Accounted(x) /\ stack = <<>> /\ (\A d, y \in Ext : pending[d][y] = None)
    BY <2>1 DEF IInv, Answers, Progress
  <2>3. Satisfied(x)
    BY <2>2 DEF Accounted, BeingRun, Waits
  <2>4. PICK i \in DOMAIN setup.asks[x] : setup.asks[x][i] = [of |-> e, perApp |-> TRUE]
    BY DEF AsksPerApp
  <2>5. setup.asks[x][i].perApp /\ setup.asks[x][i].of = e
    BY <2>4
  <2> QED
    BY <2>3, <2>5 DEF Satisfied
<1> QED
  BY <1>1, IInvHolds, PTL

\* An answer without delay has the results of all modules; and a class that is
\* never without the one it asks for, and asks for no other, gets one such answer.
THEOREM ServedInFull == Spec => []ServedInFullAndOnce
<1>1. ASSUME IInv PROVE FinalAnswersAreComplete
  BY <1>1 DEF IInv, Complete, FinalAnswersAreComplete
<1>2. ASSUME IInv PROVE ServedOnceWhenTogether
  <2> SUFFICES ASSUME NEW x \in Ext, NEW e \in Ext, Together(x, e)
               PROVE  Cardinality(FinalsOf(x, e)) <= 1
    BY DEF ServedOnceWhenTogether, Together
  <2>1. OneFinal(x, e)
    BY <1>2 DEF IInv, Once
  <2>2. \A f \in FinalsOf(x, e) : f \in Final /\ f.by = x /\ f.of = e /\ f.data = AppResults(e)
    BY <1>2 DEF IInv, FinalsOf, Types, Complete
  <2>3. \A f, g \in FinalsOf(x, e) : f = g
    <3> SUFFICES ASSUME NEW f \in FinalsOf(x, e), NEW g \in FinalsOf(x, e) PROVE f = g
      OBVIOUS
    <3>1. f \in Final /\ g \in Final
      BY <2>2
    <3>2. f.by = g.by /\ f.of = g.of /\ f.in = g.in /\ f.phase = g.phase /\ f.data = g.data
      BY <2>1, <2>2 DEF OneFinal
    <3> QED
      BY <3>1, <3>2 DEF Final
  <2>4. CASE FinalsOf(x, e) = {}
    BY <2>4, FS_EmptySet
  <2>5. CASE FinalsOf(x, e) # {}
    <3>1. PICK f : FinalsOf(x, e) = {f}
      BY <2>3, <2>5
    <3>2. Cardinality({f}) = 1
      BY FS_Singleton
    <3> QED
      BY <3>1, <3>2
  <2> QED
    BY <2>4, <2>5
<1>3. IInv => ServedInFullAndOnce
  BY <1>1, <1>2 DEF ServedInFullAndOnce
<1> QED
  BY <1>3, IInvHolds, PTL

-----------------------------------------------------------------------------
(* The declared order.                                                      *)

\* An edge goes from a class to one that is declared to run before it.
LEMMA EdgesOfIs ==
    ASSUME NEW c \in Config, NEW a, NEW b
    PROVE  (\E j \in DOMAIN EdgesOf(c) : EdgesOf(c)[j] = <<a, b>>)
              <=> \/ b = c.extension /\ \E j \in DOMAIN c.before : c.before[j] = a
                  \/ a = c.extension /\ \E j \in DOMAIN c.after : c.after[j] = b
<1> DEFINE x == [j \in DOMAIN c.before |-> <<c.before[j], c.extension>>]
           y == [j \in DOMAIN c.after |-> <<c.extension, c.after[j]>>]
           k == Len(c.before)
           l == Len(c.after)
<1>1. c.before \in Seq(Ext) /\ c.after \in Seq(Ext) /\ c.extension \in Ext
  BY DEF Config
<1>2. /\ k \in Nat /\ l \in Nat /\ DOMAIN c.before = 1..k /\ DOMAIN c.after = 1..l
      /\ x \in Seq(Ext \X Ext) /\ y \in Seq(Ext \X Ext) /\ Len(x) = k /\ Len(y) = l
  BY <1>1
<1>3. EdgesOf(c) = x \o y
  BY DEF EdgesOf
<1>4. /\ \A j \in 1..k : x[j] = <<c.before[j], c.extension>>
      /\ \A j \in 1..l : y[j] = <<c.extension, c.after[j]>>
  BY <1>2
<1> HIDE DEF x, y, k, l
<1>5. /\ DOMAIN (x \o y) = 1..k + l
      /\ \A j \in 1..k + l : (x \o y)[j] = IF j <= k THEN x[j] ELSE y[j - k]
  <2> DEFINE P == Ext \X Ext
             z == x \o y
  <2>1. x \in Seq(P) /\ y \in Seq(P) /\ Len(x) = k /\ Len(y) = l
    BY <1>2
  <2> HIDE DEF P
  <2>2. /\ z \in Seq(P) /\ Len(z) = Len(x) + Len(y)
        /\ \A j \in 1..Len(x) + Len(y) : z[j] = IF j <= Len(x) THEN x[j] ELSE y[j - Len(x)]
    BY <2>1, ConcatProperties, Zenon
  <2> HIDE DEF z
  <2>3. DOMAIN z = 1..Len(z)
    BY <2>2
  <2>4. /\ DOMAIN z = 1..k + l
        /\ \A j \in 1..k + l : z[j] = IF j <= k THEN x[j] ELSE y[j - k]
    BY <2>1, <2>2, <2>3
  <2> QED
    BY <2>4 DEF z
<1>6. \A j \in 1..k : j \in 1..k + l /\ (x \o y)[j] = <<c.before[j], c.extension>>
  BY <1>2, <1>4, <1>5
<1>7. \A j \in 1..l : k + j \in 1..k + l /\ (x \o y)[k + j] = <<c.extension, c.after[j]>>
  <2> SUFFICES ASSUME NEW j \in 1..l
               PROVE  k + j \in 1..k + l /\ (x \o y)[k + j] = <<c.extension, c.after[j]>>
    OBVIOUS
  <2>1. k + j \in 1..k + l /\ ~(k + j <= k) /\ (k + j) - k = j
    BY <1>2
  <2> QED
    BY <1>4, <1>5, <2>1
<1>8. ASSUME NEW j \in 1..k + l
      PROVE  \/ j \in 1..k /\ (x \o y)[j] = <<c.before[j], c.extension>>
             \/ j - k \in 1..l /\ (x \o y)[j] = <<c.extension, c.after[j - k]>>
  <2>1. CASE j <= k
    <3>1. j \in 1..k
      BY <1>2, <2>1
    <3> QED
      BY <1>6, <3>1
  <2>2. CASE ~(j <= k)
    <3>1. j - k \in 1..l
      BY <1>2, <2>2
    <3> QED
      BY <1>4, <1>5, <2>2, <3>1
  <2> QED
    BY <2>1, <2>2
<1>9. ASSUME NEW j \in DOMAIN EdgesOf(c), EdgesOf(c)[j] = <<a, b>>
      PROVE  \/ b = c.extension /\ \E i \in DOMAIN c.before : c.before[i] = a
             \/ a = c.extension /\ \E i \in DOMAIN c.after : c.after[i] = b
  <2>1. j \in 1..k + l /\ (x \o y)[j] = <<a, b>>
    BY <1>3, <1>5, <1>9
  <2> DEFINE d == (x \o y)[j]
  <2>2. d[1] = a /\ d[2] = b
    BY <2>1
  <2> HIDE DEF d
  <2>3. CASE j \in 1..k /\ (x \o y)[j] = <<c.before[j], c.extension>>
    <3>1. d[1] = c.before[j] /\ d[2] = c.extension
      BY <2>3 DEF d
    <3> QED
      BY <1>2, <2>2, <2>3, <3>1
  <2>4. CASE j - k \in 1..l /\ (x \o y)[j] = <<c.extension, c.after[j - k]>>
    <3>1. d[1] = c.extension /\ d[2] = c.after[j - k]
      BY <2>4 DEF d
    <3> QED
      BY <1>2, <2>2, <2>4, <3>1
  <2> QED
    BY <1>8, <2>1, <2>3, <2>4
<1>10. ASSUME NEW j \in DOMAIN c.before, c.before[j] = a, b = c.extension
       PROVE  \E i \in DOMAIN EdgesOf(c) : EdgesOf(c)[i] = <<a, b>>
  BY <1>2, <1>3, <1>5, <1>6, <1>10
<1>11. ASSUME NEW j \in DOMAIN c.after, c.after[j] = b, a = c.extension
       PROVE  \E i \in DOMAIN EdgesOf(c) : EdgesOf(c)[i] = <<a, b>>
  BY <1>2, <1>3, <1>5, <1>7, <1>11
<1> QED
  BY <1>9, <1>10, <1>11

\* The graph of a module is what is declared of its classes, turned round.
LEMMA DeclaredIsGraph ==
    ASSUME setup \in Setup, NEW S \in SUBSET Ext, NEW a, NEW b
    PROVE  <<b, a>> \in getGraph(Configs(setup, S)) <=> <<a, b>> \in Declared(S)
<1> DEFINE c == Configs(setup, S)
           C == setup.configs
<1>1. /\ IsConfigs(c) /\ Origin(c) = S
      /\ DOMAIN c = {k \in DOMAIN C : C[k].extension \in S}
      /\ \A k \in DOMAIN c : c[k] = C[k]
  BY ConfigsAre
<1>2. \A i \in DOMAIN c : c[i] \in Config
  BY <1>1 DEF IsConfigs
<1> HIDE DEF c, C
<1> DEFINE Says(e) == \/ a = e.extension /\ \E j \in DOMAIN e.before : e.before[j] = b
                      \/ b = e.extension /\ \E j \in DOMAIN e.after : e.after[j] = a
<1>3. <<b, a>> \in getGraph(c) <=> a \in S /\ b \in S /\ \E i \in DOMAIN c : Says(c[i])
  <2>1. \A i \in DOMAIN c :
          (\E j \in DOMAIN EdgesOf(c[i]) : EdgesOf(c[i])[j] = <<b, a>>) <=> Says(c[i])
    <3> SUFFICES ASSUME NEW i \in DOMAIN c
                 PROVE  (\E j \in DOMAIN EdgesOf(c[i]) : EdgesOf(c[i])[j] = <<b, a>>)
                           <=> Says(c[i])
      OBVIOUS
    <3>1. PICK e \in Config : e = c[i]
      BY <1>2
    <3>2. (\E j \in DOMAIN EdgesOf(e) : EdgesOf(e)[j] = <<b, a>>) <=> Says(e)
      BY EdgesOfIs
    <3> HIDE DEF Says
    <3> QED
      BY <3>1, <3>2
  <2> HIDE DEF Says
  <2> QED
    BY <1>1, <2>1 DEF getGraph
<1>4. <<a, b>> \in Declared(S) <=> a \in S /\ b \in S /\ \E i \in DOMAIN C : Says(C[i])
  <2> DEFINE p == <<a, b>>
  <2>1. p[1] = a /\ p[2] = b /\ (p \in S \X S <=> a \in S /\ b \in S)
    OBVIOUS
  <2> HIDE DEF p
  <2>2. p \in Declared(S) <=>
          /\ p \in S \X S
          /\ \E i \in DOMAIN C :
               \/ C[i].extension = p[1] /\ \E j \in DOMAIN C[i].before : C[i].before[j] = p[2]
               \/ C[i].extension = p[2] /\ \E j \in DOMAIN C[i].after : C[i].after[j] = p[1]
    BY DEF Declared, C
  <2>3. p \in Declared(S) <=> a \in S /\ b \in S /\ \E i \in DOMAIN C : Says(C[i])
    BY <2>1, <2>2
  <2> QED
    BY <2>3 DEF p
<1>5. ASSUME a \in S, b \in S
      PROVE  (\E i \in DOMAIN C : Says(C[i])) <=> \E i \in DOMAIN c : Says(c[i])
  <2>1. \A i \in DOMAIN C : Says(C[i]) => C[i].extension \in S
    BY <1>5
  <2> HIDE DEF Says
  <2> QED
    BY <1>1, <2>1
<1> QED
  BY <1>3, <1>4, <1>5 DEF c

\* A declared pair is on a circle just where the graph leads back.
LEMMA CircleIsWayBack ==
    ASSUME setup \in Setup, NEW S \in SUBSET Ext, NEW a \in S, NEW b \in S
    PROVE  OnCircle(<<a, b>>, Declared(S)) <=> Reaches(Configs(setup, S), a, b)
<1> DEFINE c == Configs(setup, S)
           R == Declared(S)
           G == getGraph(c)
<1>1. Origin(c) = S
  BY ConfigsAre
<1>2. \A x, y : <<y, x>> \in G <=> <<x, y>> \in R
  BY DeclaredIsGraph
<1>3. \A d \in G : d = <<d[1], d[2]>> /\ d[1] \in S /\ d[2] \in S
  BY <1>1 DEF getGraph
<1>4. \A r \in R : r = <<r[1], r[2]>> /\ r[1] \in S /\ r[2] \in S
  BY DEF Declared
<1>5. OnCircle(<<a, b>>, R) <=>
        \A T \in SUBSET Ext : b \in T /\ (\A r \in R : r[1] \in T => r[2] \in T) => a \in T
  BY DEF OnCircle
<1>6. Reaches(c, a, b) <=>
        \A T \in SUBSET S : a \in T /\ (\A d \in G : d[1] \in T => d[2] \in T) => b \in T
  BY <1>1 DEF Reaches
<1> HIDE DEF c, R, G
<1>7. ASSUME Reaches(c, a, b), NEW T \in SUBSET Ext, b \in T, a \notin T,
             \A r \in R : r[1] \in T => r[2] \in T
      PROVE  FALSE
  <2>1. ASSUME NEW d \in G, d[1] \in S \ T PROVE d[2] \in S \ T
    <3> DEFINE r == <<d[2], d[1]>>
    <3>1. r \in R
      BY <1>2, <1>3
    <3>2. r[1] = d[2] /\ r[2] = d[1]
      OBVIOUS
    <3> HIDE DEF r
    <3>3. d[2] \notin T
      BY <1>7, <2>1, <3>1, <3>2
    <3> QED
      BY <1>3, <3>3
  <2> DEFINE U == S \ T
  <2>2. U \in SUBSET S /\ a \in U /\ b \notin U
    BY <1>7
  <2>3. \A d \in G : d[1] \in U => d[2] \in U
    BY <2>1
  <2> HIDE DEF U
  <2> QED
    BY <1>6, <1>7, <2>2, <2>3
<1>8. ASSUME OnCircle(<<a, b>>, R), NEW T \in SUBSET S, a \in T, b \notin T,
             \A d \in G : d[1] \in T => d[2] \in T
      PROVE  FALSE
  <2>1. ASSUME NEW r \in R, r[1] \in S \ T PROVE r[2] \in S \ T
    <3> DEFINE d == <<r[2], r[1]>>
    <3>1. d \in G
      BY <1>2, <1>4
    <3>2. d[1] = r[2] /\ d[2] = r[1]
      OBVIOUS
    <3> HIDE DEF d
    <3>3. r[2] \notin T
      BY <1>8, <2>1, <3>1, <3>2
    <3> QED
      BY <1>4, <3>3
  <2> DEFINE U == S \ T
  <2>2. U \in SUBSET Ext /\ b \in U /\ a \notin U
    BY <1>8
  <2>3. \A r \in R : r[1] \in U => r[2] \in U
    BY <2>1
  <2> HIDE DEF U
  <2> QED
    BY <1>5, <1>8, <2>2, <2>3
<1>9. Reaches(c, a, b) => OnCircle(<<a, b>>, R)
  BY <1>5, <1>7
<1>10. OnCircle(<<a, b>>, R) => Reaches(c, a, b)
  BY <1>6, <1>8
<1> QED
  BY <1>9, <1>10 DEF c, R

\* A pair of S that is declared and on a circle.
Circle(S) == \E p \in Declared(S) : OnCircle(p, Declared(S))

\* The configurations of a module are refused just where those that state
\* beforeExtensions are in a circle.
LEMMA RefusedInCircle ==
    ASSUME Types, NEW m \in Module
    PROVE  Sorted[setup][has[m]].refused <=> Circle(StatesBefore(m))
<1> DEFINE S == StatesBefore(m)
           h == Configs(setup, has[m])
           c == Configs(setup, S)
           C == setup.configs
<1>1. setup \in Setup /\ has[m] \in SUBSET Ext
  BY DEF Types
<1>2. S \in SUBSET Ext /\ S \subseteq has[m]
  BY <1>1 DEF StatesBefore
<1>3. Sorted[setup][has[m]].refused = checkExtensionsGraph(h)
  BY <1>1, SortedIs
<1>4. checkExtensionsGraph(h) = findCycle(c)
  <2> DEFINE D == {k \in DOMAIN h : h[k].before # <<>>}
  <2>1. /\ DOMAIN h = {k \in DOMAIN C : C[k].extension \in has[m]}
        /\ \A k \in DOMAIN h : h[k] = C[k]
    BY <1>1, ConfigsAre
  <2>2. \A i, j \in DOMAIN C : C[i].extension = C[j].extension => C[i] = C[j]
    BY <1>1, ExtensionAssumption
  <2>3. \A k \in DOMAIN C : C[k].extension \in S <=> k \in D
    BY <2>1, <2>2 DEF StatesBefore
  <2>4. D = {k \in DOMAIN C : C[k].extension \in S}
    BY <2>1, <2>3
  <2>5. \A k \in D : h[k] = C[k]
    BY <2>1
  <2>6. c = [k \in D |-> C[k]]
    BY <2>4 DEF Configs
  <2>7. [k \in D |-> h[k]] = [k \in D |-> C[k]]
    BY <2>5
  <2> QED
    BY <2>6, <2>7 DEF checkExtensionsGraph
<1>5. findCycle(c) <=> \E d \in getGraph(c) : Reaches(c, d[2], d[1])
  BY <1>1, <1>2, ConfigsAre, CirclesAreFound
<1> HIDE DEF S
<1>6. ASSUME NEW d \in getGraph(c), Reaches(c, d[2], d[1])
      PROVE  Circle(S)
  <2>1. d = <<d[1], d[2]>> /\ d[1] \in S /\ d[2] \in S
    <3>1. Origin(c) = S
      BY <1>1, <1>2, ConfigsAre
    <3> QED
      BY <3>1 DEF getGraph
  <2>2. <<d[2], d[1]>> \in Declared(S)
    BY <1>1, <1>2, <2>1, DeclaredIsGraph
  <2>3. OnCircle(<<d[2], d[1]>>, Declared(S))
    BY <1>1, <1>2, <1>6, <2>1, CircleIsWayBack
  <2> QED
    BY <2>2, <2>3 DEF Circle
<1>7. ASSUME NEW p \in Declared(S), OnCircle(p, Declared(S))
      PROVE  \E d \in getGraph(c) : Reaches(c, d[2], d[1])
  <2>1. p = <<p[1], p[2]>> /\ p[1] \in S /\ p[2] \in S
    BY DEF Declared
  <2> DEFINE d == <<p[2], p[1]>>
  <2>2. d \in getGraph(c) /\ d[1] = p[2] /\ d[2] = p[1]
    BY <1>1, <1>2, <2>1, DeclaredIsGraph
  <2>3. Reaches(c, p[1], p[2])
    BY <1>1, <1>2, <1>7, <2>1, CircleIsWayBack
  <2> HIDE DEF d
  <2> QED
    BY <2>2, <2>3
<1> QED
  BY <1>3, <1>4, <1>5, <1>6, <1>7 DEF S, Circle


-----------------------------------------------------------------------------
(* The order is kept.                                                       *)

\* What runs in the call of an entry is a member of its group.
InGroup ==
    phase = "module" /\ stack # <<>> => stack[1].todo \subseteq Members(mod, stack[1].of)

\* Nothing is started when a module is refused, and nothing else fails before the
\* first module.
Refused == \E m \in Module : Sorted[setup][has[m]].refused
Refusals ==
    /\ phase = "module" => ~Refused
    /\ phase = "failed" /\ mod = 0 => Refused

InOrder ==
    \A m \in Module : \A p \in Declared(has[m]) :
        p[2] \in inited[m] /\ Leads[p[2]] = {} =>
            p[1] \in inited[m] \/ OnCircle(p, Declared(has[m]))

Ordered == InGroup /\ Refusals /\ InOrder

\* Only the importers fail before the first module.
LEMMA FailsInModule ==
    ASSUME Types, Progress, Frames, Next, phase' = "failed"
    PROVE  ImportExtensions \/ (mod \in Module /\ mod' = mod)
<1>1. CASE Stage1Throws \/ AskTooEarly \/ AskInCircle \/ AskUnresolvable
  <2>1. Runs /\ Fail
    BY <1>1 DEF Stage1Throws, AskTooEarly, AskInCircle, AskUnresolvable, Asking
  <2>2. mod \in Module
    BY <2>1, RunsBase
  <2> QED
    BY <2>1, <2>2 DEF Fail
<1>2. CASE StartMember \/ EndMember \/ AskAnew \/ AskCached \/ FinishGroup
  <2>1. Working /\ phase' = phase
    BY <1>2 DEF StartMember, EndMember, AskAnew, AskCached, FinishGroup, Asking, Runs
  <2> QED
    BY <2>1 DEF Working
<1>3. CASE StartModule \/ NextEntry \/ StartPerApp \/ NextPending \/ Stage1Over
  BY <1>3 DEF StartModule, NextEntry, StartPerApp, NextPending, Stage1Over, ModuleOver
<1> QED
  BY <1>1, <1>2, <1>3 DEF Next

\* InGroup is kept: members leave the call of an entry, and none join it.
LEMMA StepKeepsInGroup == ASSUME Types, Progress, Frames, InGroup, Steps PROVE InGroup'
<1> SUFFICES ASSUME phase' = "module", stack' # <<>>
             PROVE  stack'[1].todo \subseteq Members(mod, stack[1].of)'
  BY DEF InGroup
<1>1. CASE StartMemberDoes \/ EndMemberDoes \/ AskAnewDoes \/ AnswerDoes
  <2>1. /\ phase' = phase /\ mod' = mod /\ has' = has /\ stack # <<>> /\ Base \in FrameSet
    BY <1>1 DEF StartMemberDoes, EndMemberDoes, AskAnewDoes, AnswerDoes
  <2>2. Base.todo \subseteq Members(mod, Base.of)
    BY <2>1 DEF InGroup, Base
  <2>3. stack'[1].todo \subseteq Base.todo /\ stack'[1].of = Base.of
    <3>1. CASE StartMemberDoes
      BY <2>1, <3>1 DEF StartMemberDoes, FrameSet
    <3>2. CASE EndMemberDoes
      <4>1. PICK f : stack' = <<f>> /\ f = [Base EXCEPT !.todo = @ \ {Asker}, !.at = 0]
        BY <3>2 DEF EndMemberDoes
      <4>2. f.todo \subseteq Base.todo /\ f.of = Base.of
        BY <2>1, <4>1 DEF FrameSet
      <4> QED
        BY <4>1, <4>2
    <3>3. CASE AskAnewDoes
      <4>1. PICK g : stack' = <<Base, g>>
        BY <3>3 DEF AskAnewDoes
      <4> QED
        BY <4>1
    <3>4. CASE AnswerDoes
      <4>1. PICK k : stack' = <<[Base EXCEPT !.at = k]>>
        BY <3>4 DEF AnswerDoes
      <4> QED
        BY <2>1, <4>1 DEF FrameSet
    <3> QED
      BY <1>1, <3>1, <3>2, <3>3, <3>4
  <2>4. Members(mod, stack[1].of)' = Members(mod, Base.of)
    BY <2>1, <2>3 DEF Members
  <2> QED
    BY <2>2, <2>3, <2>4
<1>2. CASE NextEntry
  <2> DEFINE e == Entries(mod)[entry + 1]
  <2>1. /\ stack' = <<Frame(e, FALSE)>> /\ mod' = mod /\ has' = has
    BY <1>2 DEF NextEntry
  <2> HIDE DEF e
  <2>2. stack'[1].todo = Members(mod, e) /\ stack'[1].of = e
    BY <2>1 DEF Frame
  <2> QED
    BY <2>1, <2>2 DEF Members
<1>3. CASE FinishEntryDoes \/ ImportExtensions \/ StartModule
  BY <1>3 DEF FinishEntryDoes, ImportExtensions, StartModule, ModuleOver, Progress
<1>4. CASE StartPerApp \/ NextPending \/ Stage1Over \/ Fail
  BY <1>4 DEF StartPerApp, NextPending, Stage1Over, Fail
<1> QED
  BY <1>1, <1>2, <1>3, <1>4 DEF Steps

\* Refusals is kept: what is refused is decided by setup and has.
LEMMA StepKeepsRefusals ==
    ASSUME Types, Progress, Frames, Refusals, Next
    PROVE  Refusals'
<1>1. Steps
  BY NextIsSteps
<1>2. setup' = setup /\ has' = has
  BY <1>1 DEF Steps, StartMemberDoes, EndMemberDoes, AskAnewDoes, AnswerDoes, FinishEntryDoes,
              ImportExtensions, StartModule, NextEntry, StartPerApp, NextPending, Stage1Over,
              Fail
<1>3. Refused' = Refused
  BY <1>2 DEF Refused
<1>4. phase' = "module" => phase = "module" \/ (ImportExtensions /\ ~Refused)
  BY <1>1 DEF Steps, StartMemberDoes, EndMemberDoes, AskAnewDoes, AnswerDoes, FinishEntryDoes,
              ImportExtensions, StartModule, NextEntry, StartPerApp, NextPending, Stage1Over,
              Fail, Refused, ModuleOver
<1>5. phase' = "failed" => (ImportExtensions /\ Refused) \/ mod' # 0
  <2>1. mod \in Module => mod # 0
    BY DEF Module
  <2>2. ImportExtensions /\ phase' = "failed" => Refused
    BY DEF ImportExtensions, Refused
  <2> QED
    BY <2>1, <2>2, FailsInModule
<1> QED
  BY <1>3, <1>4, <1>5 DEF Refusals

\* InOrder is kept: who runs without a group is the class of the entry, and what is
\* declared before it has an earlier place or lies on a circle with it.
LEMMA StepKeepsInOrder ==
    ASSUME Types, Progress, Frames, InGroup, InOrder, Steps
    PROVE  InOrder'
<1>1. setup' = setup /\ has' = has
  BY DEF Steps, StartMemberDoes, EndMemberDoes, AskAnewDoes, AnswerDoes, FinishEntryDoes,
         ImportExtensions, StartModule, NextEntry, StartPerApp, NextPending, Stage1Over, Fail
<1>2. \A S : Declared(S)' = Declared(S)
  BY <1>1 DEF Declared
<1>3. CASE inited' = inited
  BY <1>1, <1>2, <1>3 DEF InOrder
<1>4. CASE inited' # inited
  <2>1. EndMemberDoes /\ phase = "module"
    BY <1>4 DEF Steps, StartMemberDoes, EndMemberDoes, AskAnewDoes, AnswerDoes,
                FinishEntryDoes, ImportExtensions, StartModule, NextEntry, StartPerApp,
                NextPending, Stage1Over, Fail
  <2>2. /\ mod \in Module /\ stack # <<>> /\ Sound /\ Asker \in Base.todo
        /\ inited' = [inited EXCEPT ![mod] = @ \union {Asker}]
    BY <1>4, <2>1 DEF EndMemberDoes
  <2> SUFFICES ASSUME NEW m \in Module, NEW p \in Declared(has[m]),
                      p[2] \in inited'[m], Leads[p[2]] = {}
               PROVE  p[1] \in inited'[m] \/ OnCircle(p, Declared(has[m]))
    BY <1>1, <1>2 DEF InOrder
  <2>3. /\ inited[m] \subseteq inited'[m] /\ has[m] \in SUBSET Ext /\ setup \in Setup
        /\ p[2] \in inited[m] \/ (m = mod /\ p[2] = Asker)
    BY <2>2 DEF Types
  <2>4. CASE p[2] \in inited[m]
    BY <2>3, <2>4 DEF InOrder
  <2>5. CASE m = mod /\ p[2] = Asker
    <3>1. p[2] = Turn /\ entry \in DOMAIN Entries(mod)
      BY <2>1, <2>2, <2>5 DEF InGroup, Frames, Members, Base
    <3> DEFINE c == Configs(setup, has[m])
               order == topologicalSort(c)
    <3>2. Entries(mod) = order
      <4>1. mod # None /\ entries[mod] = Sorted[setup][has[m]].order
        BY <2>2, <2>5 DEF Progress, Module, None
      <4> QED
        BY <2>3, <4>1, SortedIs DEF Entries
    <3>3. p = <<p[1], p[2]>> /\ p[1] \in has[m] /\ p[2] \in has[m]
      BY DEF Declared
    <3>4. <<p[2], p[1]>> \in getGraph(c)
      BY <2>3, <3>3, DeclaredIsGraph
    <3>5. Sorts(c, order)
      BY <2>3, ConfigsAre, SortIsComplete
    <3> HIDE DEF c, order
    <3>6. Reaches(c, p[1], p[2]) \/ \E j \in DOMAIN order : j < entry /\ order[j] = p[1]
      <4> DEFINE d == <<p[2], p[1]>>
      <4>1. d \in getGraph(c) /\ d[1] = p[2] /\ d[2] = p[1]
        BY <3>4
      <4> HIDE DEF d
      <4>2. entry \in DOMAIN order /\ order[entry] = p[2]
        BY <3>1, <3>2 DEF Turn
      <4> QED
        BY <3>5, <4>1, <4>2 DEF Sorts
    <3>7. CASE Reaches(c, p[1], p[2])
      BY <2>3, <3>3, <3>7, CircleIsWayBack DEF c
    <3>8. CASE \E j \in DOMAIN order : j < entry /\ order[j] = p[1]
      BY <2>1, <2>3, <2>5, <3>2, <3>8 DEF Progress
    <3> QED
      BY <3>6, <3>7, <3>8
  <2> QED
    BY <2>3, <2>4, <2>5
<1> QED
  BY <1>3, <1>4

\* Whatever the configurations say and the extensions ask for, an extension that
\* is in no group runs in a module only when all that are declared before it have
\* run there, unless the declaration is on a circle; and the importers refuse the
\* application, before anything is started, just where those that state
\* beforeExtensions are on one.
THEOREM OrderAlwaysDeclared == Spec => []OrderIsDeclared
<1>1. Init => Ordered
  <2> SUFFICES ASSUME Init PROVE Ordered
    OBVIOUS
  <2>1. PICK s \in Setup, installed \in [Module -> SUBSET Ext] : InitWith(s, installed)
    BY DEF Init
  <2> QED
    BY <2>1 DEF InitWith, Ordered, InGroup, Refusals, InOrder
<1>2. IInv /\ Ordered /\ [Next]_vars => Ordered'
  <2> SUFFICES ASSUME IInv, Ordered, [Next]_vars PROVE Ordered'
    OBVIOUS
  <2>1. CASE Next
    BY <2>1, NextIsSteps, StepKeepsInGroup, StepKeepsRefusals, StepKeepsInOrder
       DEF IInv, Ordered
  <2>2. CASE UNCHANGED vars
    BY <2>2 DEF vars, Ordered, InGroup, Refusals, Refused, InOrder, Members, Declared
  <2> QED
    BY <2>1, <2>2
<1>3. IInv /\ Ordered => OrderIsDeclared
  <2> SUFFICES ASSUME IInv, Ordered PROVE OrderIsDeclared
    OBVIOUS
  <2>1. \A m \in Module : Sorted[setup][has[m]].refused <=> Circle(StatesBefore(m))
    BY RefusedInCircle DEF IInv
  <2>2. Refused <=> \E m \in Module : Circle(StatesBefore(m))
    BY <2>1 DEF Refused
  <2> QED
    BY <2>2 DEF Ordered, Refusals, InOrder, OrderIsDeclared, Circle
<1> QED
  BY <1>1, <1>2, <1>3, IInvHolds, PTL DEF Spec
=============================================================================
