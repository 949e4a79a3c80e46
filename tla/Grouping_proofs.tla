--------------------------- MODULE Grouping_proofs ---------------------------
(***************************************************************************)
(* Proofs about the planning of tasks, for every graph and request: what   *)
(* is supported is planned, each needed node is in one group, the plan is  *)
(* one ExecutionState can see through, and what its tasks read and the     *)
(* caller asks for is produced.                                            *)
(*                                                                         *)
(* The search from a Collect node, the nodes the outputs reach and the     *)
(* functions on the graph are recursive: the first sections show that they *)
(* are the functions their equations say, by induction over the numbers of *)
(* the nodes.  The next ones follow the search (what it has finished, it   *)
(* will not look at again, and out has what is between) and conclude that  *)
(* it finds the expander and the whole of the block.  The invariant then   *)
(* says that group_nodes lists each group once, and the last section reads *)
(* the properties off the list.                                            *)
(***************************************************************************)
EXTENDS Grouping, FiniteSetTheorems, WellFoundedInduction, TLAPS

-----------------------------------------------------------------------------
(* Induction, and recursion on numbers                                     *)

(* A set of natural numbers has a least one. *)
LEMMA LeastNumber ==
    ASSUME NEW S, S \subseteq Nat, S # {}
    PROVE  \E n \in S : \A m \in S : n <= m
<1>1. PICK n \in S : \A m \in S : <<m, n>> \notin OpToRel(<, Nat)
  BY WFMin, NatLessThanWellFounded, Zenon
<1>2. ASSUME NEW m \in S PROVE n <= m
  <2>1. CASE m < n
    BY <1>1, <2>1, Zenon DEF OpToRel
  <2> QED
    BY <2>1
<1> QED
  BY <1>1, <1>2

(* What holds of a number if it holds of the lower ones holds of all. *)
LEMMA LowerFirst ==
    ASSUME NEW D, D \subseteq Nat, NEW S,
           \A n \in D : (\A m \in D : m < n => m \in S) => n \in S
    PROVE  D \subseteq S
<1> SUFFICES ASSUME D \ S # {} PROVE FALSE
  OBVIOUS
<1>1. PICK n \in D \ S : \A m \in D \ S : n <= m
  BY LeastNumber
<1> QED
  BY <1>1

(* A body that asks for lower values only defines a function. *)
AsksLower(D, V, B) ==
    /\ B \in [D -> [[D -> V] -> V]]
    /\ \A n \in D : \A g, h \in [D -> V] :
          (\A m \in D : m < n => g[m] = h[m]) => B[n][g] = B[n][h]
Defines(D, V, B) == \E f \in [D -> V] : \A n \in D : f[n] = B[n][f]

LEMMA RecursionExists ==
    ASSUME NEW D, D \subseteq Nat, NEW V, NEW v \in V, NEW B, AsksLower(D, V, B)
    PROVE  Defines(D, V, B)
<1> DEFINE Approx(f, n) == f \in [D -> V] /\ \A m \in D : m <= n => f[m] = B[m][f]
<1> DEFINE F(n) == CHOOSE f : Approx(f, n)
<1> USE DEF AsksLower
<1>1. ASSUME NEW f, NEW g, NEW n \in D, NEW k \in D, Approx(f, n), Approx(g, k)
      PROVE  \A m \in D : m <= n /\ m <= k => f[m] = g[m]
  <2> DEFINE S == {m \in D : m <= n /\ m <= k => f[m] = g[m]}
  <2>1. ASSUME NEW m \in D, \A l \in D : l < m => l \in S PROVE m \in S
    <3> SUFFICES ASSUME m <= n, m <= k PROVE f[m] = g[m]
      OBVIOUS
    <3>1. ASSUME NEW l \in D, l < m PROVE f[l] = g[l]
      <4>1. l \in S
        BY <2>1, <3>1
      <4>2. l <= n /\ l <= k
        BY <3>1
      <4> QED
        BY <4>1, <4>2
    <3>2. B[m][f] = B[m][g]
      BY <1>1, <3>1
    <3> QED
      BY <1>1, <3>2
  <2> HIDE DEF S
  <2>2. D \subseteq S
    BY <2>1, LowerFirst
  <2> QED
    BY <2>2 DEF S
<1>2. ASSUME NEW f, NEW n \in D, NEW k \in D, Approx(f, n), k <= n PROVE Approx(f, k)
  BY <1>2
<1>3. ASSUME NEW n, NEW f, Approx(f, n) PROVE Approx(F(n), n)
  BY <1>3, Zenon
<1> HIDE DEF F
<1>4. ASSUME NEW n \in D, \A l \in D : l < n => Approx(F(l), l) PROVE Approx(F(n), n)
  <2> DEFINE g == [m \in D |-> IF m < n THEN F(m)[m] ELSE v]
  <2>1. g \in [D -> V]
    BY <1>4
  <2>2. \A m \in D : m < n => g[m] = F(m)[m]
    OBVIOUS
  <2> HIDE DEF g
  <2> DEFINE f == [m \in D |-> IF m = n THEN B[n][g] ELSE g[m]]
  <2>3. f \in [D -> V]
    BY <2>1
  <2>4. f[n] = B[n][g] /\ \A m \in D : m < n => f[m] = g[m]
    OBVIOUS
  <2> HIDE DEF f
  <2>5. ASSUME NEW m \in D, m < n PROVE f[m] = B[m][f]
    <3>1. \A l \in D : l < m => f[l] = F(m)[l]
      <4> SUFFICES ASSUME NEW l \in D, l < m PROVE f[l] = F(m)[l]
        OBVIOUS
      <4>1. l < n /\ l <= m /\ l <= l
        BY <2>5
      <4>2. Approx(F(l), l) /\ Approx(F(m), m)
        BY <1>4, <2>5, <4>1
      <4>3. F(l)[l] = F(m)[l]
        BY ONLY <1>1, <4>1, <4>2, l \in D, m \in D
      <4> QED
        BY <2>2, <2>4, <4>1, <4>3
    <3>2. Approx(F(m), m)
      BY <1>4, <2>5
    <3>3. B[m][f] = B[m][F(m)]
      BY <2>3, <3>1, <3>2
    <3>4. F(m)[m] = B[m][F(m)]
      BY <3>2
    <3> QED
      BY <2>2, <2>4, <2>5, <3>3, <3>4
  <2>6. f[n] = B[n][f]
    BY <2>1, <2>3, <2>4
  <2>7. Approx(f, n)
    <3> SUFFICES ASSUME NEW m \in D, m <= n PROVE f[m] = B[m][f]
      BY <2>3
    <3>1. m < n \/ m = n
      OBVIOUS
    <3> QED
      BY <2>5, <2>6, <3>1
  <2> QED
    BY <1>3, <2>7
<1>5. \A n \in D : Approx(F(n), n)
  <2> DEFINE S == {m \in D : Approx(F(m), m)}
  <2>1. ASSUME NEW m \in D, \A l \in D : l < m => l \in S PROVE m \in S
    <3>1. \A l \in D : l < m => Approx(F(l), l)
      BY <2>1
    <3>2. Approx(F(m), m)
      BY <1>4, <3>1
    <3> QED
      BY <3>2
  <2> HIDE DEF S
  <2>2. D \subseteq S
    BY <2>1, LowerFirst
  <2> QED
    BY <2>2 DEF S
<1> DEFINE f == [m \in D |-> F(m)[m]]
<1>6. f \in [D -> V]
  BY <1>5
<1>7. \A m \in D : f[m] = F(m)[m]
  OBVIOUS
<1> HIDE DEF f
<1>8. ASSUME NEW n \in D PROVE f[n] = B[n][f]
  <2>1. \A m \in D : m < n => f[m] = F(n)[m]
    <3> SUFFICES ASSUME NEW m \in D, m < n PROVE F(m)[m] = F(n)[m]
      BY <1>7
    <3>1. Approx(F(m), m) /\ Approx(F(n), n) /\ m <= n /\ m <= m
      BY <1>5
    <3> QED
      BY <1>1, <3>1
  <2>2. F(n) \in [D -> V] /\ F(n)[n] = B[n][F(n)]
    BY <1>5
  <2>3. B[n][f] = B[n][F(n)]
    BY <1>6, <2>1, <2>2
  <2> QED
    BY <1>7, <2>2, <2>3
<1> QED
  BY <1>6, <1>8 DEF Defines

-----------------------------------------------------------------------------
(* The graph                                                               *)

(* What the assumption says of the graph at hand. *)
LEMMA GraphFacts ==
    ASSUME dag \in Dags
    PROVE  /\ \A n \in Nodes : /\ n \in Nat
                               /\ dag.deps[n] \in Seq(Nodes)
                               /\ Deps(n) \subseteq Nodes
                               /\ \A d \in Deps(n) : d < n
                               /\ Role(n) \in Roles
                               /\ IsInput(n) => Deps(n) = {}
                               /\ Role(n) = "collect" => dag.collects[n] \in Deps(n)
           /\ None \notin Nodes
<1>1. dag \in DagType
  BY GroupingAssumption
<1>2. dag.deps \in [Nodes -> Seq(Nodes)] /\ dag.role \in [Nodes -> Roles]
  BY <1>1 DEF DagType
<1>3. ASSUME NEW n \in Nodes
      PROVE  /\ n \in Nat
             /\ dag.deps[n] \in Seq(Nodes)
             /\ Deps(n) \subseteq Nodes
             /\ \A d \in Deps(n) : d < n
             /\ Role(n) \in Roles
             /\ IsInput(n) => Deps(n) = {}
             /\ Role(n) = "collect" => dag.collects[n] \in Deps(n)
  <2>1. dag.deps[n] \in Seq(Nodes)
    BY <1>2
  <2>2. Deps(n) \subseteq Nodes
    BY <2>1 DEF Deps, ToSet
  <2>3. IsInput(n) => Deps(n) = {}
    <3>1. IsInput(n) => dag.deps[n] = <<>>
      BY GroupingAssumption DEF IsInput, Role
    <3> QED
      BY <3>1 DEF Deps, ToSet
  <2>4. \A d \in Deps(n) : d < n
    BY GroupingAssumption DEF Deps
  <2>5. Role(n) = "collect" => dag.collects[n] \in Deps(n)
    BY GroupingAssumption DEF Deps, Role
  <2>6. n \in Nat /\ Role(n) \in Roles
    BY <1>2, GroupingAssumption DEF Role
  <2> QED
    BY <2>1, <2>2, <2>3, <2>4, <2>5, <2>6
<1>4. None \notin Nodes
  BY GroupingAssumption
<1> QED
  BY <1>3, <1>4

(* The recursive definitions, with the graph and the function they define  *)
(* as parameters.                                                          *)
InsideBody(g, f, n) ==
    CASE g.role[n] = "expand"  -> {n}
      [] g.role[n] = "collect" -> UNION {f[d] : d \in ToSet(g.deps[n]) \ {g.collects[n]}}
      [] OTHER                 -> UNION {f[d] : d \in ToSet(g.deps[n])}
InsideOf(g) == CHOOSE f : f = [n \in Nodes |-> InsideBody(g, f, n)]

LEMMA InsideIsOf == Inside = InsideOf(dag)
  BY DEF Inside, InsideOf, InsideBody, Role, Deps

LEMMA InsideFacts ==
    ASSUME dag \in Dags
    PROVE  /\ Inside \in [Nodes -> SUBSET Nodes]
           /\ \A n \in Nodes : Inside[n] = InsideBody(dag, Inside, n)
<1> DEFINE V == SUBSET Nodes
<1> DEFINE B == [n \in Nodes |-> [f \in [Nodes -> V] |-> InsideBody(dag, f, n)]]
<1>1. ASSUME NEW f \in [Nodes -> V], NEW n \in Nodes PROVE InsideBody(dag, f, n) \in V
  <2>1. \A d \in ToSet(dag.deps[n]) : f[d] \subseteq Nodes
    BY GraphFacts DEF Deps
  <2> QED
    BY <2>1 DEF InsideBody
<1>2. B \in [Nodes -> [[Nodes -> V] -> V]]
  BY <1>1
<1>3. ASSUME NEW n \in Nodes, NEW f \in [Nodes -> V], NEW h \in [Nodes -> V],
             \A m \in Nodes : m < n => f[m] = h[m]
      PROVE  B[n][f] = B[n][h]
  <2>1. \A d \in ToSet(dag.deps[n]) : f[d] = h[d]
    BY <1>3, GraphFacts DEF Deps
  <2>2. InsideBody(dag, f, n) = InsideBody(dag, h, n)
    BY <2>1 DEF InsideBody
  <2> QED
    BY <2>2
<1>4. \A n \in Nodes : \A f \in [Nodes -> V] : B[n][f] = InsideBody(dag, f, n)
  OBVIOUS
<1> HIDE DEF B, V
<1>5. {} \in V /\ Nodes \subseteq Nat
  BY GroupingAssumption DEF V
<1>a. AsksLower(Nodes, V, B)
  BY <1>2, <1>3 DEF AsksLower
<1>6. PICK f \in [Nodes -> V] : \A n \in Nodes : f[n] = B[n][f]
  <2>1. Defines(Nodes, V, B)
    BY <1>5, <1>a, RecursionExists, Zenon
  <2> QED
    BY <2>1 DEF Defines
<1>7. f = [n \in Nodes |-> InsideBody(dag, f, n)]
  BY <1>4, <1>6
<1>8. Inside = [n \in Nodes |-> InsideBody(dag, Inside, n)]
  <2>1. InsideOf(dag) = [n \in Nodes |-> InsideBody(dag, InsideOf(dag), n)]
    BY <1>7, Zenon DEF InsideOf
  <2> QED
    BY <2>1, InsideIsOf, Zenon
<1>9. \A n \in Nodes : Inside[n] = InsideBody(dag, Inside, n)
  BY <1>8, Zenon
<1>10. \A n \in Nodes : Inside[n] \in SUBSET Nodes
  <2> DEFINE S == {n \in Nodes : Inside[n] \in SUBSET Nodes}
  <2>1. ASSUME NEW n \in Nodes, \A m \in Nodes : m < n => m \in S PROVE n \in S
    <3>1. \A d \in ToSet(dag.deps[n]) : Inside[d] \subseteq Nodes
      BY <2>1, GraphFacts DEF Deps
    <3>2. InsideBody(dag, Inside, n) \in SUBSET Nodes
      BY <3>1 DEF InsideBody
    <3> QED
      BY <1>9, <3>2
  <2> HIDE DEF S
  <2>2. Nodes \subseteq S
    BY <1>5, <2>1, LowerFirst
  <2> QED
    BY <2>2 DEF S
<1> QED
  BY <1>8, <1>9, <1>10

ReadsBody(g, f, n) ==
    CASE g.role[n] = "expand"  -> FALSE
      [] g.role[n] = "collect" -> TRUE
      [] OTHER                 -> \E d \in ToSet(g.deps[n]) : f[d]
ReadsOf(g) == CHOOSE f : f = [n \in Nodes |-> ReadsBody(g, f, n)]

LEMMA ReadsIsOf == ReadsCollected = ReadsOf(dag)
  BY DEF ReadsCollected, ReadsOf, ReadsBody, Role, Deps

(* What reads nothing that was collected is no Collect node, and neither   *)
(* is what it reads, down to the next Parallelizable ones.                 *)
LEMMA ReadsFacts ==
    ASSUME dag \in Dags, NEW n \in Nodes, ~ReadsCollected[n]
    PROVE  /\ Role(n) # "collect"
           /\ Role(n) # "expand" => \A d \in Deps(n) : ~ReadsCollected[d]
<1> DEFINE V == BOOLEAN
<1> DEFINE B == [m \in Nodes |-> [f \in [Nodes -> V] |-> ReadsBody(dag, f, m)]]
<1>1. ASSUME NEW f \in [Nodes -> V], NEW m \in Nodes PROVE ReadsBody(dag, f, m) \in V
  BY DEF ReadsBody
<1>2. B \in [Nodes -> [[Nodes -> V] -> V]]
  BY <1>1
<1>3. \A m \in Nodes : \A f \in [Nodes -> V] : B[m][f] = ReadsBody(dag, f, m)
  OBVIOUS
<1> HIDE DEF B
<1>4. ASSUME NEW m \in Nodes, NEW f \in [Nodes -> V], NEW h \in [Nodes -> V],
             \A l \in Nodes : l < m => f[l] = h[l]
      PROVE  B[m][f] = B[m][h]
  <2>1. \A d \in ToSet(dag.deps[m]) : f[d] = h[d]
    BY <1>4, GraphFacts DEF Deps
  <2>2. ReadsBody(dag, f, m) = ReadsBody(dag, h, m)
    BY <2>1, Zenon DEF ReadsBody
  <2> QED
    BY <1>3, <2>2
<1> HIDE DEF V
<1>5. FALSE \in V /\ Nodes \subseteq Nat
  BY GroupingAssumption DEF V
<1>6. AsksLower(Nodes, V, B)
  BY <1>2, <1>4 DEF AsksLower
<1>7. PICK f \in [Nodes -> V] : \A m \in Nodes : f[m] = B[m][f]
  <2>1. Defines(Nodes, V, B)
    BY <1>5, <1>6, RecursionExists, Zenon
  <2> QED
    BY <2>1 DEF Defines
<1>8. f = [m \in Nodes |-> ReadsBody(dag, f, m)]
  BY <1>3, <1>7
<1>9. ReadsCollected = [m \in Nodes |-> ReadsBody(dag, ReadsCollected, m)]
  <2>1. ReadsOf(dag) = [m \in Nodes |-> ReadsBody(dag, ReadsOf(dag), m)]
    BY <1>8, Zenon DEF ReadsOf
  <2> QED
    BY <2>1, ReadsIsOf, Zenon
<1>10. ReadsCollected[n] = ReadsBody(dag, ReadsCollected, n)
  BY <1>9, Zenon
<1> QED
  BY <1>10, Zenon DEF ReadsBody, Role, Deps

(* The loop over the dependencies of a node. *)
LoopBody(g, T, n, s, a, i) == IF i = 0 THEN s ELSE T[g.deps[n][i]][a[i - 1]]
LoopOf(g, T, n, s) ==
    CHOOSE a : a = [i \in 0 .. Len(g.deps[n]) |-> LoopBody(g, T, n, s, a, i)]

LoopAt(g, T, n, s) ==
    LET after[i \in 0 .. Len(g.deps[n])] ==
            IF i = 0 THEN s ELSE T[g.deps[n][i]][after[i - 1]]
    IN  after[Len(g.deps[n])]

LEMMA LoopIsAt ==
    ASSUME NEW T, NEW n, NEW s
    PROVE  /\ ForEachDep(T, n, s) = LoopAt(dag, T, n, s)
           /\ ForEachDep(T, n, s) = LoopOf(dag, T, n, s)[Len(dag.deps[n])]
<1>1. ForEachDep(T, n, s) = LoopAt(dag, T, n, s)
  BY DEF ForEachDep, LoopAt
<1>2. ForEachDep(T, n, s) = LoopOf(dag, T, n, s)[Len(dag.deps[n])]
  BY DEF ForEachDep, LoopOf, LoopBody
<1> QED
  BY <1>1, <1>2

LEMMA LoopFacts ==
    ASSUME dag \in Dags, NEW n \in Nodes, NEW s \in Search, NEW T,
           \A d \in Deps(n) : T[d] \in [Search -> Search]
    PROVE  LET a == LoopOf(dag, T, n, s) IN
           /\ a \in [0 .. Len(dag.deps[n]) -> Search]
           /\ a[0] = s
           /\ \A i \in 1 .. Len(dag.deps[n]) : a[i] = T[dag.deps[n][i]][a[i - 1]]
<1> DEFINE L == Len(dag.deps[n])
<1>0. L \in Nat /\ \A i \in 1 .. L : dag.deps[n][i] \in Deps(n)
  BY GraphFacts DEF Deps, ToSet
<1> DEFINE D == 0 .. L
<1> DEFINE B == [i \in D |-> [a \in [D -> Search] |-> LoopBody(dag, T, n, s, a, i)]]
<1>1. ASSUME NEW a \in [D -> Search], NEW i \in D PROVE LoopBody(dag, T, n, s, a, i) \in Search
  <2>1. CASE i = 0
    BY <2>1 DEF LoopBody
  <2>2. CASE i # 0
    <3>1. i \in 1 .. L /\ i - 1 \in D
      BY <1>0, <2>2
    <3>2. T[dag.deps[n][i]] \in [Search -> Search] /\ a[i - 1] \in Search
      BY <1>0, <3>1
    <3> QED
      BY <2>2, <3>2 DEF LoopBody
  <2> QED
    BY <2>1, <2>2
<1>2. B \in [D -> [[D -> Search] -> Search]]
  BY <1>1
<1>3. \A i \in D : \A a \in [D -> Search] : B[i][a] = LoopBody(dag, T, n, s, a, i)
  OBVIOUS
<1> HIDE DEF B
<1>4. ASSUME NEW i \in D, NEW a \in [D -> Search], NEW b \in [D -> Search],
             \A l \in D : l < i => a[l] = b[l]
      PROVE  B[i][a] = B[i][b]
  <2>1. i = 0 \/ (i - 1 \in D /\ i - 1 < i)
    BY <1>0
  <2>2. LoopBody(dag, T, n, s, a, i) = LoopBody(dag, T, n, s, b, i)
    BY <1>4, <2>1 DEF LoopBody
  <2> QED
    BY <1>3, <2>2
<1>5. D \subseteq Nat /\ 0 \in D
  BY <1>0
<1> HIDE DEF D
<1>6. AsksLower(D, Search, B)
  BY <1>2, <1>4 DEF AsksLower
<1>7. PICK f \in [D -> Search] : \A i \in D : f[i] = B[i][f]
  <2>1. Defines(D, Search, B)
    BY <1>5, <1>6, RecursionExists, Zenon
  <2> QED
    BY <2>1 DEF Defines
<1>8. f = [i \in D |-> LoopBody(dag, T, n, s, f, i)]
  BY <1>3, <1>7
<1> DEFINE a == LoopOf(dag, T, n, s)
<1>9. a = [i \in D |-> LoopBody(dag, T, n, s, a, i)]
  BY <1>8, Zenon DEF LoopOf, D
<1> HIDE DEF a
<1>10. \A i \in D : a[i] = LoopBody(dag, T, n, s, a, i)
  BY <1>9, Zenon
<1>11. a[0] = s /\ \A i \in 1 .. L : a[i] = T[dag.deps[n][i]][a[i - 1]]
  <2>1. \A i \in 1 .. L : i \in D /\ i # 0
    BY <1>0 DEF D
  <2> QED
    BY <1>5, <1>10, <2>1, Zenon DEF LoopBody
<1>12. \A i \in D : a[i] \in Search
  <2> DEFINE S == {i \in D : a[i] \in Search}
  <2>1. ASSUME NEW i \in D, \A l \in D : l < i => l \in S PROVE i \in S
    <3>1. CASE i = 0
      BY <1>11, <3>1
    <3>2. CASE i # 0
      <4>1. i - 1 \in D /\ i - 1 < i /\ i \in 1 .. L
        BY <1>0, <3>2 DEF D
      <4>2. a[i - 1] \in Search
        BY <2>1, <4>1
      <4>3. T[dag.deps[n][i]] \in [Search -> Search]
        BY <1>0, <4>1
      <4> QED
        BY <1>11, <4>1, <4>2, <4>3
    <3> QED
      BY <3>1, <3>2
  <2> HIDE DEF S
  <2>2. D \subseteq S
    BY <1>5, <2>1, LowerFirst
  <2> QED
    BY <2>2 DEF S
<1> QED
  BY <1>9, <1>11, <1>12 DEF a, D

LEMMA LoopAgrees ==
    ASSUME dag \in Dags, NEW n \in Nodes, NEW s \in Search, NEW T, NEW U,
           \A d \in Deps(n) : T[d] \in [Search -> Search] /\ T[d] = U[d]
    PROVE  /\ ForEachDep(T, n, s) \in Search
           /\ ForEachDep(T, n, s) = ForEachDep(U, n, s)
<1> DEFINE L == Len(dag.deps[n])
<1> DEFINE a == LoopOf(dag, T, n, s)
<1> DEFINE b == LoopOf(dag, U, n, s)
<1>1. L \in Nat /\ \A i \in 1 .. L : dag.deps[n][i] \in Deps(n)
  BY GraphFacts DEF Deps, ToSet
<1>2. /\ a \in [0 .. L -> Search] /\ a[0] = s
      /\ \A i \in 1 .. L : a[i] = T[dag.deps[n][i]][a[i - 1]]
  BY LoopFacts
<1>3. /\ b \in [0 .. L -> Search] /\ b[0] = s
      /\ \A i \in 1 .. L : b[i] = U[dag.deps[n][i]][b[i - 1]]
  BY LoopFacts
<1>4. ForEachDep(T, n, s) = a[L] /\ ForEachDep(U, n, s) = b[L]
  BY LoopIsAt
<1> HIDE DEF a, b, L
<1> DEFINE D == 0 .. L
<1> DEFINE S == {i \in D : a[i] = b[i]}
<1>5. ASSUME NEW i \in D, \A l \in D : l < i => l \in S PROVE i \in S
  <2>1. CASE i = 0
    BY <1>2, <1>3, <2>1
  <2>2. CASE i # 0
    <3>1. i - 1 \in D /\ i - 1 < i /\ i \in 1 .. L
      BY <1>1, <2>2
    <3>2. a[i - 1] = b[i - 1]
      BY <1>5, <3>1
    <3>3. T[dag.deps[n][i]] = U[dag.deps[n][i]]
      BY <1>1, <3>1
    <3> QED
      BY <1>2, <1>3, <3>1, <3>2, <3>3
  <2> QED
    BY <2>1, <2>2
<1> HIDE DEF S
<1>7. L \in D /\ D \subseteq Nat
  BY <1>1
<1> HIDE DEF D
<1>6. D \subseteq S
  BY <1>5, <1>7, LowerFirst
<1> QED
  BY <1>2, <1>4, <1>6, <1>7 DEF S, D

DfsBody(g, T, n) ==
    [s \in Search |->
        IF g.role[n] = "expand" THEN [s EXCEPT !.found = n]
        ELSE IF n \in s.visited THEN s
        ELSE LET t == LoopAt(g, T, n, [s EXCEPT !.visited = @ \cup {n}])
             IN  IF \E d \in ToSet(g.deps[n]) : g.role[d] = "expand" \/ d \in t.out
                 THEN [t EXCEPT !.out = @ \cup {n}] ELSE t]
DfsOf(g) == CHOOSE f : f = [n \in Nodes |-> DfsBody(g, f, n)]

LEMMA DfsIsOf == DfsTraverse = DfsOf(dag)
  BY DEF DfsTraverse, DfsOf, DfsBody, ForEachDep, LoopAt, Role, Deps

LEMMA DfsBodyTyped ==
    ASSUME dag \in Dags, NEW n \in Nodes, NEW T,
           \A d \in Deps(n) : T[d] \in [Search -> Search]
    PROVE  DfsBody(dag, T, n) \in [Search -> Search]
<1> SUFFICES ASSUME NEW s \in Search PROVE DfsBody(dag, T, n)[s] \in Search
  BY DEF DfsBody
<1> DEFINE s0 == [s EXCEPT !.visited = @ \cup {n}]
<1> DEFINE t == LoopAt(dag, T, n, s0)
<1>1. s0 \in Search /\ [s EXCEPT !.found = n] \in Search
  BY DEF Search
<1> HIDE DEF s0
<1>2. t \in Search
  <2>1. ForEachDep(T, n, s0) \in Search
    BY <1>1, LoopAgrees
  <2>2. ForEachDep(T, n, s0) = t
    BY LoopIsAt
  <2> QED
    BY <2>1, <2>2
<1> HIDE DEF t
<1>3. [t EXCEPT !.out = @ \cup {n}] \in Search
  BY <1>2 DEF Search
<1> QED
  BY <1>1, <1>2, <1>3 DEF DfsBody, t, s0

LEMMA DfsBodyAgrees ==
    ASSUME dag \in Dags, NEW n \in Nodes, NEW T, NEW U,
           \A d \in Deps(n) : T[d] \in [Search -> Search] /\ T[d] = U[d]
    PROVE  DfsBody(dag, T, n) = DfsBody(dag, U, n)
<1> SUFFICES ASSUME NEW s \in Search PROVE DfsBody(dag, T, n)[s] = DfsBody(dag, U, n)[s]
  BY DEF DfsBody
<1> DEFINE s0 == [s EXCEPT !.visited = @ \cup {n}]
<1>1. s0 \in Search
  BY DEF Search
<1> HIDE DEF s0
<1>2. LoopAt(dag, T, n, s0) = LoopAt(dag, U, n, s0)
  <2>1. ForEachDep(T, n, s0) = ForEachDep(U, n, s0)
    BY <1>1, LoopAgrees
  <2>2. ForEachDep(T, n, s0) = LoopAt(dag, T, n, s0)
    BY LoopIsAt
  <2>3. ForEachDep(U, n, s0) = LoopAt(dag, U, n, s0)
    BY LoopIsAt
  <2> QED
    BY <2>1, <2>2, <2>3
<1> QED
  BY <1>2 DEF DfsBody, s0

LEMMA DfsFacts ==
    ASSUME dag \in Dags
    PROVE  \A n \in Nodes : /\ DfsTraverse[n] \in [Search -> Search]
                            /\ DfsTraverse[n] = DfsBody(dag, DfsTraverse, n)
<1> DEFINE V == [Search -> Search]
<1> DEFINE B == [n \in Nodes |-> [f \in [Nodes -> V] |-> DfsBody(dag, f, n)]]
<1>1. ASSUME NEW f \in [Nodes -> V], NEW n \in Nodes PROVE DfsBody(dag, f, n) \in V
  <2>1. \A d \in Deps(n) : f[d] \in V
    BY GraphFacts
  <2> QED
    BY <2>1, DfsBodyTyped
<1>2. B \in [Nodes -> [[Nodes -> V] -> V]]
  BY <1>1
<1>3. \A n \in Nodes : \A f \in [Nodes -> V] : B[n][f] = DfsBody(dag, f, n)
  OBVIOUS
<1> HIDE DEF B
<1>4. ASSUME NEW n \in Nodes, NEW f \in [Nodes -> V], NEW h \in [Nodes -> V],
             \A l \in Nodes : l < n => f[l] = h[l]
      PROVE  B[n][f] = B[n][h]
  <2>1. \A d \in Deps(n) : f[d] \in V /\ f[d] = h[d]
    BY <1>4, GraphFacts
  <2>2. DfsBody(dag, f, n) = DfsBody(dag, h, n)
    BY <2>1, DfsBodyAgrees
  <2> QED
    BY <1>3, <2>2
<1>5. [s \in Search |-> s] \in V /\ Nodes \subseteq Nat
  BY GroupingAssumption
<1> HIDE DEF V
<1>6. AsksLower(Nodes, V, B)
  BY <1>2, <1>4 DEF AsksLower
<1>7. PICK f \in [Nodes -> V] : \A n \in Nodes : f[n] = B[n][f]
  <2>1. Defines(Nodes, V, B)
    BY <1>5, <1>6, RecursionExists, Zenon
  <2> QED
    BY <2>1 DEF Defines
<1>8. f = [n \in Nodes |-> DfsBody(dag, f, n)]
  BY <1>3, <1>7
<1>9. DfsTraverse = [n \in Nodes |-> DfsBody(dag, DfsTraverse, n)]
  <2>1. DfsOf(dag) = [n \in Nodes |-> DfsBody(dag, DfsOf(dag), n)]
    BY <1>8, Zenon DEF DfsOf
  <2> QED
    BY <2>1, DfsIsOf, Zenon
<1>10. \A n \in Nodes : DfsTraverse[n] = DfsBody(dag, DfsTraverse, n)
  BY <1>9, Zenon
<1>11. \A n \in Nodes : DfsTraverse[n] \in V
  <2> DEFINE S == {n \in Nodes : DfsTraverse[n] \in V}
  <2>1. ASSUME NEW n \in Nodes, \A m \in Nodes : m < n => m \in S PROVE n \in S
    <3>1. \A d \in Deps(n) : DfsTraverse[d] \in V
      BY <2>1, GraphFacts
    <3>2. DfsBody(dag, DfsTraverse, n) \in V
      BY <3>1, DfsBodyTyped DEF V
    <3> QED
      BY <1>10, <3>2
  <2> HIDE DEF S
  <2>2. Nodes \subseteq S
    BY <1>5, <2>1, LowerFirst
  <2> QED
    BY <2>2 DEF S
<1> QED
  BY <1>10, <1>11 DEF V

-----------------------------------------------------------------------------
(* What get_upstream_nodes finds                                           *)

ReachedBody(f, k) ==
    IF k = 0 THEN request.outputs
    ELSE f[k - 1] \cup UNION {NextNodes(n) : n \in f[k - 1]}
ReachedBy == CHOOSE f : f = [k \in Nat |-> ReachedBody(f, k)]

LEMMA RequestFacts ==
    ASSUME dag \in Dags, request \in Requests(dag)
    PROVE  request.inputs \subseteq Nodes /\ request.outputs \subseteq Nodes
           /\ request.overrides \subseteq Nodes
  BY GroupingAssumption DEF RequestType

LEMMA ReachedFacts ==
    ASSUME dag \in Dags, request \in Requests(dag)
    PROVE  /\ Reached[0] = request.outputs
           /\ \A k \in Nat :
                 /\ Reached[k] \subseteq Nodes
                 /\ Reached[k + 1] = Reached[k] \cup UNION {NextNodes(n) : n \in Reached[k]}
<1> DEFINE V == SUBSET Nodes
<1> DEFINE B == [k \in Nat |-> [f \in [Nat -> V] |-> ReachedBody(f, k)]]
<1>0. \A n \in Nodes : NextNodes(n) \in V
  BY GraphFacts DEF NextNodes
<1>1. ASSUME NEW f \in [Nat -> V], NEW k \in Nat PROVE ReachedBody(f, k) \in V
  BY <1>0, RequestFacts DEF ReachedBody
<1>2. B \in [Nat -> [[Nat -> V] -> V]]
  BY <1>1
<1>3. \A k \in Nat : \A f \in [Nat -> V] : B[k][f] = ReachedBody(f, k)
  OBVIOUS
<1> HIDE DEF B
<1>4. ASSUME NEW k \in Nat, NEW f \in [Nat -> V], NEW h \in [Nat -> V],
             \A l \in Nat : l < k => f[l] = h[l]
      PROVE  B[k][f] = B[k][h]
  <2>1. k = 0 \/ f[k - 1] = h[k - 1]
    BY <1>4
  <2>2. ReachedBody(f, k) = ReachedBody(h, k)
    BY <2>1 DEF ReachedBody
  <2> QED
    BY <1>3, <2>2
<1>5. {} \in V /\ Nat \subseteq Nat
  OBVIOUS
<1> HIDE DEF V
<1>6. AsksLower(Nat, V, B)
  BY <1>2, <1>4 DEF AsksLower
<1>7. PICK f \in [Nat -> V] : \A k \in Nat : f[k] = B[k][f]
  <2>1. Defines(Nat, V, B)
    BY <1>5, <1>6, RecursionExists, Zenon
  <2> QED
    BY <2>1 DEF Defines
<1>8. f = [k \in Nat |-> ReachedBody(f, k)]
  BY <1>3, <1>7
<1>9. Reached = [k \in Nat |-> ReachedBody(Reached, k)]
  <2>1. ReachedBy = [k \in Nat |-> ReachedBody(ReachedBy, k)]
    BY <1>8, Zenon DEF ReachedBy
  <2>2. Reached = ReachedBy
    BY DEF Reached, ReachedBy, ReachedBody
  <2> QED
    BY <2>1, <2>2, Zenon
<1>10. \A k \in Nat : Reached[k] = ReachedBody(Reached, k)
  BY <1>9, Zenon
<1>11. ASSUME NEW k \in Nat PROVE Reached[k + 1] = Reached[k] \cup UNION {NextNodes(n) : n \in Reached[k]}
  <2>1. k + 1 \in Nat /\ k + 1 # 0 /\ (k + 1) - 1 = k
    OBVIOUS
  <2>2. Reached[k + 1] = ReachedBody(Reached, k + 1)
    BY <1>10, <2>1
  <2> QED
    BY <2>1, <2>2 DEF ReachedBody
<1>12. Reached[0] = request.outputs
  BY <1>10 DEF ReachedBody
<1>13. \A k \in Nat : Reached[k] \in V
  <2> DEFINE S == {k \in Nat : Reached[k] \in V}
  <2>1. ASSUME NEW k \in Nat, \A m \in Nat : m < k => m \in S PROVE k \in S
    <3>1. CASE k = 0
      BY <1>12, <3>1, RequestFacts DEF V
    <3>2. CASE k # 0
      <4>1. k - 1 \in Nat /\ k - 1 < k /\ (k - 1) + 1 = k
        BY <3>2
      <4>2. Reached[k - 1] \in V
        BY <2>1, <4>1
      <4>3. Reached[k] = Reached[k - 1] \cup UNION {NextNodes(n) : n \in Reached[k - 1]}
        BY <1>11, <4>1
      <4> QED
        BY <1>0, <4>2, <4>3 DEF V
    <3> QED
      BY <3>1, <3>2
  <2> HIDE DEF S
  <2>2. Nat \subseteq S
    BY <1>5, <2>1, LowerFirst
  <2> QED
    BY <2>2 DEF S
<1> QED
  BY <1>11, <1>12, <1>13 DEF V

(* What is needed: the outputs, what needed nodes read, and nothing else.  *)
NeededInv(S) ==
    /\ S \subseteq Nodes
    /\ request.outputs \subseteq S
    /\ \A n \in S : NextNodes(n) \subseteq S
    /\ \A n \in S : n \in request.outputs \/ \E m \in S : n \in NextNodes(m)

LEMMA UpstreamIsNeeded ==
    ASSUME dag \in Dags, request \in Requests(dag)
    PROVE  NeededInv(UpstreamNodes)
<1> DEFINE Closed(k) == \A n \in Reached[k] : NextNodes(n) \subseteq Reached[k]
<1> DEFINE Enough(k) == Closed(k) \/ Cardinality(Reached[k]) >= k
<1> DEFINE Read(k) == \A n \in Reached[k] : n \in request.outputs \/ \E m \in Reached[k] : n \in NextNodes(m)
<1> DEFINE S == {k \in Nat : Enough(k) /\ Read(k) /\ request.outputs \subseteq Reached[k]}
<1>0. \A k \in Nat : IsFiniteSet(Reached[k]) /\ Cardinality(Reached[k]) \in Nat
                     /\ Cardinality(Reached[k]) <= Cardinality(Nodes)
  BY ReachedFacts, GroupingAssumption, FS_Subset, FS_CardinalityType
<1>1. ASSUME NEW k \in Nat, \A l \in Nat : l < k => l \in S PROVE k \in S
  <2>1. CASE k = 0
    BY <1>0, <2>1, ReachedFacts
  <2>2. CASE k # 0
    <3>1. k - 1 \in Nat /\ k - 1 < k /\ (k - 1) + 1 = k
      BY <2>2
    <3>2. k - 1 \in S
      BY <1>1, <3>1
    <3>3. Reached[k] = Reached[k - 1] \cup UNION {NextNodes(n) : n \in Reached[k - 1]}
      BY <3>1, ReachedFacts
    <3>4. request.outputs \subseteq Reached[k]
      BY <3>2, <3>3
    <3>5. Read(k)
      BY <3>2, <3>3
    <3>6. CASE Closed(k - 1)
      <4>1. Reached[k] = Reached[k - 1]
        BY <3>3, <3>6
      <4> QED
        BY <3>4, <3>5, <3>6, <4>1
    <3>7. CASE ~Closed(k - 1)
      <4>1. Reached[k - 1] \subseteq Reached[k] /\ Reached[k - 1] # Reached[k]
        BY <3>3, <3>7
      <4>2. Cardinality(Reached[k - 1]) < Cardinality(Reached[k])
        BY <1>0, <3>1, <4>1, FS_Subset
      <4>3. Cardinality(Reached[k - 1]) >= k - 1
        BY <3>2, <3>7
      <4>4. Cardinality(Reached[k]) >= k
        BY <1>0, <3>1, <4>2, <4>3
      <4> QED
        BY <3>4, <3>5, <4>4
    <3> QED
      BY <3>6, <3>7
  <2> QED
    BY <2>1, <2>2
<1> HIDE DEF S
<1>2. Nat \subseteq S
  BY <1>1, LowerFirst
<1> USE DEF S
<1> DEFINE c == Cardinality(Nodes)
<1>3. c \in Nat
  BY GroupingAssumption, FS_CardinalityType
<1>4. c \in S
  BY <1>2, <1>3
<1>5. Closed(c)
  <2>1. CASE Cardinality(Reached[c]) >= c
    <3>1. Reached[c] = Nodes
      BY <1>0, <1>3, <2>1, ReachedFacts, GroupingAssumption, FS_Subset
    <3> QED
      BY <3>1, GraphFacts DEF NextNodes
  <2> QED
    BY <1>4, <2>1
<1> QED
  BY <1>3, <1>4, <1>5, ReachedFacts DEF NeededInv, UpstreamNodes

-----------------------------------------------------------------------------
(* The depth-first search                                                  *)

LEMMA InsideCases ==
    ASSUME dag \in Dags, NEW n \in Nodes
    PROVE  /\ Inside[n] \subseteq Nodes
           /\ Role(n) = "expand" => Inside[n] = {n}
           /\ Role(n) = "collect" =>
                 Inside[n] = UNION {Inside[d] : d \in Deps(n) \ {dag.collects[n]}}
           /\ Role(n) \notin {"expand", "collect"} => Inside[n] = UNION {Inside[d] : d \in Deps(n)}
<1>1. Inside[n] \subseteq Nodes /\ Inside[n] = InsideBody(dag, Inside, n)
  BY InsideFacts
<1> QED
  BY <1>1 DEF InsideBody, Role, Deps

(* Nodes among which a search stays. *)
Region(R) ==
    /\ R \subseteq Nodes
    /\ \A m \in R : Role(m) # "collect" /\ (Role(m) # "expand" => Deps(m) \subseteq R)

(* What the search knows of a node it has left. *)
Finished(s, m) ==
    /\ m \in s.out <=> Inside[m] # {}
    /\ Inside[m] # {} => s.found # None
    /\ \A d \in Deps(m) : Role(d) = "expand" \/ d \in s.visited

(* It has left all nodes below k that it has met. *)
SearchIn(R, k, s) ==
    /\ s \in Search
    /\ s.visited \subseteq R
    /\ s.out \subseteq s.visited
    /\ \A m \in s.visited : Role(m) # "expand" /\ (m < k => Finished(s, m))

(* From s to t the search met the nodes D, all below k. *)
Continues(D, k, s, t) ==
    /\ s.visited \subseteq t.visited
    /\ \A d \in D : Role(d) = "expand" \/ d \in t.visited
    /\ \A m \in Nodes : m >= k => /\ m \in t.visited <=> m \in s.visited
                                  /\ m \in t.out <=> m \in s.out
    /\ t.found \in {s.found} \cup UNION {Inside[d] : d \in D}
    /\ s.found # None => t.found # None
    /\ \A d \in D : Inside[d] # {} => t.found # None

Searches(R, n) ==
    \A k \in Nat : \A s : n < k /\ SearchIn(R, k, s)
        => SearchIn(R, k, DfsTraverse[n][s]) /\ Continues({n}, n + 1, s, DfsTraverse[n][s])

LEMMA ContinuesBelow ==
    ASSUME dag \in Dags, NEW R, Region(R), NEW D, NEW n \in Nat, NEW k \in Nat, n <= k,
           NEW s, NEW t, SearchIn(R, k, s), SearchIn(R, n, t), Continues(D, n, s, t)
    PROVE  SearchIn(R, k, t)
<1> SUFFICES ASSUME NEW m \in t.visited, m < k, n <= m PROVE Finished(t, m)
  <2>1. \A m \in t.visited : m \in Nat
    BY GraphFacts DEF SearchIn, Region
  <2> QED
    BY <2>1 DEF SearchIn
<1>1. m \in Nodes /\ m \in Nat
  BY GraphFacts DEF SearchIn, Region
<1>2. m \in s.visited /\ (m \in t.out <=> m \in s.out)
  BY <1>1 DEF Continues
<1>3. Finished(s, m)
  BY <1>2 DEF SearchIn
<1> QED
  BY <1>2, <1>3 DEF Finished, Continues

(* The loop meets the dependencies of n, if the search from each of them   *)
(* does what it should.                                                    *)
LEMMA LoopSearches ==
    ASSUME dag \in Dags, NEW R, Region(R), NEW n \in Nodes, Deps(n) \subseteq R,
           \A d \in Deps(n) : Searches(R, d),
           NEW s, SearchIn(R, n, s)
    PROVE  LET t == ForEachDep(DfsTraverse, n, s) IN
           SearchIn(R, n, t) /\ Continues(Deps(n), n, s, t)
<1> DEFINE L == Len(dag.deps[n])
<1> DEFINE a == LoopOf(dag, DfsTraverse, n, s)
<1> DEFINE Met(i) == {dag.deps[n][j] : j \in 1 .. i}
<1>1. L \in Nat /\ Met(L) = Deps(n) /\ n \in Nat
  BY GraphFacts DEF Deps, ToSet
<1>2. /\ a \in [0 .. L -> Search] /\ a[0] = s
      /\ \A i \in 1 .. L : a[i] = DfsTraverse[dag.deps[n][i]][a[i - 1]]
  <2>1. s \in Search /\ \A d \in Deps(n) : DfsTraverse[d] \in [Search -> Search]
    BY GraphFacts, DfsFacts DEF SearchIn
  <2> QED
    BY <2>1, LoopFacts
<1>3. ForEachDep(DfsTraverse, n, s) = a[L]
  BY LoopIsAt
<1>4. \A i \in 1 .. L : dag.deps[n][i] \in Deps(n)
  BY <1>1
<1> HIDE DEF a, L
<1> DEFINE S == {i \in 0 .. L : SearchIn(R, n, a[i]) /\ Continues(Met(i), n, s, a[i])}
<1>5. 0 \in S
  <2>1. Met(0) = {}
    OBVIOUS
  <2> HIDE DEF Met
  <2>2. Continues({}, n, s, s)
    BY DEF Continues
  <2>3. 0 \in 0 .. L
    BY <1>1
  <2>4. SearchIn(R, n, a[0]) /\ Continues(Met(0), n, s, a[0])
    BY <1>2, <2>1, <2>2
  <2> QED
    BY <2>3, <2>4
<1>6. ASSUME NEW i \in 1 .. L, i - 1 \in S PROVE i \in S
  <2> DEFINE d == dag.deps[n][i]
  <2> DEFINE u == a[i - 1]
  <2>1. d \in Deps(n) /\ d \in Nodes /\ d \in Nat /\ d < n
    BY <1>4, GraphFacts
  <2>2. a[i] = DfsTraverse[d][u]
    BY <1>2
  <2>3. SearchIn(R, n, u) /\ Continues(Met(i - 1), n, s, u)
    BY <1>6
  <2>4. SearchIn(R, n, a[i]) /\ Continues({d}, d + 1, u, a[i])
    BY <1>1, <2>1, <2>2, <2>3 DEF Searches
  <2>5. Met(i) = Met(i - 1) \cup {d}
    BY <1>1
  <2>6. \A m \in Nodes : m \in Nat
    BY GraphFacts
  <2> HIDE DEF d, u, Met
  <2>7. Continues(Met(i), n, s, a[i])
    <3>1. \A m \in Nodes : m >= n => m >= d + 1
      BY <1>1, <2>1, <2>6
    <3>2. \A m \in Nodes : m >= n => /\ m \in a[i].visited <=> m \in s.visited
                                     /\ m \in a[i].out <=> m \in s.out
      BY <2>3, <2>4, <3>1 DEF Continues
    <3>3. a[i].found \in {s.found} \cup UNION {Inside[e] : e \in Met(i)}
      <4>1. a[i].found = u.found \/ a[i].found \in Inside[d]
        BY <2>4 DEF Continues
      <4>2. u.found = s.found \/ \E e \in Met(i - 1) : u.found \in Inside[e]
        BY <2>3 DEF Continues
      <4> QED
        BY <4>1, <4>2, <2>5
    <3>4. \A e \in Met(i) : Role(e) = "expand" \/ e \in a[i].visited
      BY <2>3, <2>4, <2>5 DEF Continues
    <3>5. \A e \in Met(i) : Inside[e] # {} => a[i].found # None
      BY <2>3, <2>4, <2>5 DEF Continues
    <3>6. s.visited \subseteq a[i].visited /\ (s.found # None => a[i].found # None)
      BY <2>3, <2>4 DEF Continues
    <3> QED
      BY <3>2, <3>3, <3>4, <3>5, <3>6 DEF Continues
  <2> QED
    BY <2>4, <2>7
<1> HIDE DEF S
<1>7. 0 .. L \subseteq S
  <2>1. ASSUME NEW i \in 0 .. L, \A l \in 0 .. L : l < i => l \in S PROVE i \in S
    <3>1. CASE i = 0
      BY <1>5, <3>1
    <3>2. CASE i # 0
      <4>1. i \in 1 .. L /\ i - 1 \in 0 .. L /\ i - 1 < i
        BY <1>1, <3>2
      <4> QED
        BY <1>6, <2>1, <4>1
    <3> QED
      BY <3>1, <3>2
  <2>2. 0 .. L \subseteq Nat
    BY <1>1
  <2> QED
    BY <2>1, <2>2, LowerFirst
<1>8. L \in S
  BY <1>1, <1>7
<1> QED
  BY <1>1, <1>3, <1>8 DEF S

(* The search from n goes on as it should. *)
LEMMA NodeSearches ==
    ASSUME dag \in Dags, NEW R, Region(R), NEW n \in R, \A d \in Deps(n) \cap R : Searches(R, d)
    PROVE  Searches(R, n)
<1> SUFFICES ASSUME NEW k \in Nat, NEW s, n < k, SearchIn(R, k, s)
             PROVE  SearchIn(R, k, DfsTraverse[n][s])
                    /\ Continues({n}, n + 1, s, DfsTraverse[n][s])
  BY DEF Searches
<1> DEFINE r == DfsTraverse[n][s]
<1>1. n \in Nodes /\ n \in Nat /\ s \in Search
  BY GraphFacts DEF Region, SearchIn
<1>2. r = DfsBody(dag, DfsTraverse, n)[s]
  BY <1>1, DfsFacts
<1>3. CASE Role(n) = "expand"
  <2>1. r = [s EXCEPT !.found = n]
    BY <1>1, <1>2, <1>3 DEF DfsBody, Role
  <2>2. Inside[n] = {n}
    BY <1>1, <1>3, InsideCases
  <2>3. /\ r.visited = s.visited /\ r.out = s.out /\ r.found = n /\ r \in Search
        /\ n # None
    BY <1>1, <2>1, GraphFacts DEF Search
  <2> HIDE DEF r
  <2>4. SearchIn(R, k, r)
    BY <2>3 DEF SearchIn, Finished
  <2>5. Continues({n}, n + 1, s, r)
    BY <1>3, <2>2, <2>3 DEF Continues
  <2> QED
    BY <2>4, <2>5 DEF r
<1>4. CASE Role(n) # "expand" /\ n \in s.visited
  <2>1. r = s
    BY <1>1, <1>2, <1>4 DEF DfsBody, Role
  <2>2. Inside[n] # {} => s.found # None
    BY <1>4 DEF SearchIn, Finished
  <2>3. Continues({n}, n + 1, s, s)
    BY <1>4, <2>2 DEF Continues
  <2> QED
    BY <2>1, <2>3
<1>5. CASE Role(n) # "expand" /\ n \notin s.visited
  <2> DEFINE s0 == [s EXCEPT !.visited = @ \cup {n}]
  <2> DEFINE t == ForEachDep(DfsTraverse, n, s0)
  <2>1. /\ s0 \in Search /\ s0.visited = s.visited \cup {n}
        /\ s0.out = s.out /\ s0.found = s.found
    BY <1>1 DEF Search
  <2> HIDE DEF s0
  <2>2. Deps(n) \subseteq R /\ Role(n) # "collect"
    BY <1>5 DEF Region
  <2>3. SearchIn(R, n, s0)
    <3>1. \A m \in s0.visited : Role(m) # "expand"
      BY <1>5, <2>1 DEF SearchIn
    <3>2. ASSUME NEW m \in s0.visited, m < n PROVE Finished(s0, m)
      <4>1. m \in s.visited /\ m \in Nat
        BY <1>1, <2>1, <3>2, GraphFacts DEF SearchIn, Region
      <4>2. m < k
        BY <1>1, <3>2, <4>1
      <4>3. Finished(s, m)
        BY <4>1, <4>2 DEF SearchIn
      <4> QED
        BY <2>1, <4>3 DEF Finished
    <3>3. s0.visited \subseteq R /\ s0.out \subseteq s0.visited
      BY <2>1 DEF SearchIn
    <3> QED
      BY <2>1, <3>1, <3>2, <3>3 DEF SearchIn
  <2>4. SearchIn(R, n, t) /\ Continues(Deps(n), n, s0, t)
    BY <1>1, <2>2, <2>3, LoopSearches
  <2> HIDE DEF t
  <2>5. t \in Search /\ n \in t.visited
    BY <2>1, <2>4 DEF SearchIn, Continues
  <2>6. t = LoopAt(dag, DfsTraverse, n, s0)
    BY LoopIsAt DEF t
  <2>7. r = IF \E d \in Deps(n) : Role(d) = "expand" \/ d \in t.out
            THEN [t EXCEPT !.out = @ \cup {n}] ELSE t
    BY <1>1, <1>2, <1>5, <2>6 DEF DfsBody, Role, Deps, s0
  <2>8. \A d \in Deps(n) : (Role(d) = "expand" \/ d \in t.out) <=> Inside[d] # {}
    <3> SUFFICES ASSUME NEW d \in Deps(n)
                 PROVE  (Role(d) = "expand" \/ d \in t.out) <=> Inside[d] # {}
      OBVIOUS
    <3>1. d \in Nodes /\ d < n
      BY <1>1, GraphFacts
    <3>2. CASE Role(d) = "expand"
      BY <3>1, <3>2, InsideCases
    <3>3. CASE Role(d) # "expand"
      <4>1. d \in t.visited
        BY <2>4, <3>3 DEF Continues
      <4>2. Finished(t, d)
        BY <2>4, <3>1, <4>1 DEF SearchIn
      <4> QED
        BY <3>3, <4>2 DEF Finished
    <3> QED
      BY <3>2, <3>3
  <2>9. Inside[n] = UNION {Inside[d] : d \in Deps(n)}
    BY <1>1, <1>5, <2>2, InsideCases
  <2>10. /\ r \in Search /\ r.visited = t.visited /\ r.found = t.found
         /\ r.out = IF Inside[n] # {} THEN t.out \cup {n} ELSE t.out
    <3>1. (\E d \in Deps(n) : Role(d) = "expand" \/ d \in t.out) <=> Inside[n] # {}
      BY <2>8, <2>9
    <3> HIDE DEF r
    <3> QED
      BY <1>1, <2>5, <2>7, <3>1 DEF Search
  <2> HIDE DEF r
  <2>11. n \notin t.out
    <3>1. n \notin s0.out
      BY <1>5, <2>1 DEF SearchIn
    <3> QED
      BY <1>1, <2>4, <3>1 DEF Continues
  <2>12. Finished(r, n)
    <3>1. Inside[n] # {} => t.found # None
      BY <2>4, <2>9 DEF Continues
    <3>2. \A d \in Deps(n) : Role(d) = "expand" \/ d \in t.visited
      BY <2>4 DEF Continues
    <3> QED
      BY <2>10, <2>11, <3>1, <3>2 DEF Finished
  <2>13. SearchIn(R, n + 1, r)
    <3>1. ASSUME NEW m \in r.visited, m < n + 1 PROVE Finished(r, m)
      <4>1. m \in Nat
        BY <2>4, <2>10, GraphFacts DEF SearchIn, Region
      <4>2. CASE m = n
        BY <2>12, <4>2
      <4>3. CASE m # n
        <5>1. m < n
          BY <1>1, <3>1, <4>1, <4>3
        <5>2. Finished(t, m)
          BY <2>4, <2>10, <5>1 DEF SearchIn
        <5> QED
          BY <2>10, <4>3, <5>2 DEF Finished
      <4> QED
        BY <4>2, <4>3
    <3>2. r.visited \subseteq R /\ r.out \subseteq r.visited /\ \A m \in r.visited : Role(m) # "expand"
      BY <2>4, <2>5, <2>10 DEF SearchIn
    <3> QED
      BY <2>10, <3>1, <3>2 DEF SearchIn
  <2>14. Continues({n}, n + 1, s, r)
    <3>1. ASSUME NEW m \in Nodes, m >= n + 1
          PROVE  /\ m \in r.visited <=> m \in s.visited
                 /\ m \in r.out <=> m \in s.out
      <4>1. m >= n /\ m # n
        BY <1>1, <3>1, GraphFacts
      <4> QED
        BY <2>1, <2>4, <2>10, <4>1 DEF Continues
    <3>2. r.found \in {s.found} \cup Inside[n]
      BY <2>1, <2>4, <2>9, <2>10 DEF Continues
    <3>3. s.found # None => r.found # None
      BY <2>1, <2>4, <2>10 DEF Continues
    <3>4. s.visited \subseteq r.visited /\ n \in r.visited
      BY <2>1, <2>4, <2>5, <2>10 DEF Continues
    <3>5. Inside[n] # {} => r.found # None
      BY <2>12 DEF Finished
    <3> QED
      BY <3>1, <3>2, <3>3, <3>4, <3>5 DEF Continues
  <2>15. SearchIn(R, k, r)
    <3>1. n + 1 <= k /\ n + 1 \in Nat
      BY <1>1
    <3> QED
      BY <2>13, <2>14, <3>1, ContinuesBelow
  <2> QED
    BY <2>14, <2>15 DEF r
<1> QED
  BY <1>3, <1>4, <1>5

(* The nodes between a Collect node and what it traces back to. *)
LEMMA NodesBetweenSearches ==
    ASSUME dag \in Dags, NEW R, Region(R), NEW c \in Nodes, Deps(c) \subseteq R
    PROVE  LET t == NodesBetween(c) IN
           SearchIn(R, c, t) /\ Continues(Deps(c), c, NothingFound, t)
<1> DEFINE S == {n \in R : Searches(R, n)}
<1>1. ASSUME NEW n \in R, \A m \in R : m < n => m \in S PROVE n \in S
  <2>1. \A d \in Deps(n) \cap R : Searches(R, d)
    BY <1>1, GraphFacts DEF Region
  <2> QED
    BY <2>1, NodeSearches
<1> HIDE DEF S
<1>2. R \subseteq S
  <2>1. R \subseteq Nat
    BY GraphFacts DEF Region
  <2> QED
    BY <1>1, <2>1, LowerFirst
<1>3. SearchIn(R, c, NothingFound)
  BY DEF SearchIn, NothingFound, Search
<1> QED
  BY <1>2, <1>3, LoopSearches DEF NodesBetween, S

-----------------------------------------------------------------------------
(* The blocks of a supported graph                                         *)

(* A nonempty set of nodes has a greatest one. *)
LEMMA GreatestNode ==
    ASSUME NEW S, S \subseteq Nodes, S # {}
    PROVE  \E n \in S : \A m \in S : m <= n
<1>0. Nodes \subseteq Nat /\ IsFiniteSet(S)
  BY GroupingAssumption, FS_Subset
<1> DEFINE c == Cardinality(S)
<1>1. c \in Nat /\ ExistsBijection(1..c, S)
  BY <1>0, FS_CardinalityType
<1>2. PICK f : f \in [1..c -> S] /\ \A x \in S : \E i \in 1..c : f[i] = x
  BY <1>1 DEF ExistsBijection, Bijection, Surjection
<1> HIDE DEF c
<1> DEFINE Top(k, n) == n \in S /\ \A i \in 1..k : f[i] <= n
<1> DEFINE T == {k \in 1..c : \E n : Top(k, n)}
<1>3. ASSUME NEW k \in 1..c, \A l \in 1..c : l < k => l \in T PROVE k \in T
  <2>0. f[k] \in S /\ f[k] \in Nat
    BY <1>0, <1>2
  <2>1. CASE k = 1
    <3>1. Top(k, f[k])
      BY <2>0, <2>1
    <3> QED
      BY <3>1
  <2>2. CASE k # 1
    <3>1. k - 1 \in 1..c /\ k - 1 < k
      BY <1>1, <2>2
    <3>2. PICK n : Top(k - 1, n)
      BY <1>3, <3>1
    <3>3. n \in Nat
      BY <1>0, <3>2
    <3>4. \A i \in 1..k : i = k \/ i \in 1..(k - 1)
      BY <1>1
    <3>5. \A i \in 1..k : f[i] \in Nat
      <4>1. \A i \in 1..k : i \in 1..c
        BY <1>1
      <4> QED
        BY <1>0, <1>2, <4>1
    <3>6. Top(k, IF f[k] <= n THEN n ELSE f[k])
      BY <2>0, <3>2, <3>3, <3>4, <3>5
    <3> QED
      BY <3>6
  <2> QED
    BY <2>1, <2>2
<1> HIDE DEF T
<1>a. 1..c \subseteq Nat
  BY <1>1
<1>4. 1..c \subseteq T
  BY <1>a, <1>3, LowerFirst
<1>5. c \in 1..c
  BY <1>1, <1>2
<1>6. PICK n : Top(c, n)
  BY <1>4, <1>5 DEF T
<1> QED
  BY <1>2, <1>6

(* The graph and the request are those of the assumption, and the nodes    *)
(* needed have been found.                                                 *)
Setting == dag \in Dags /\ request \in Requests(dag) /\ NeededInv(required)

Collectors == {c \in required : Role(c) = "collect"}
ExpanderOf(c) == NodesBetween(c).found
BlockOf(c) == NodesBetween(c).out

(* What is computed from the elements of a list is no optional input.      *)
LEMMA InsideIsNeeded ==
    ASSUME Setting, NEW n \in required, ~Overridden(n), NEW d \in Deps(n), Inside[d] # {}
    PROVE  d \in required
<1>1. n \in Nodes /\ d \in Nodes
  BY GraphFacts DEF Setting, NeededInv
<1>2. ~IsInput(d)
  <2> SUFFICES ASSUME IsInput(d) PROVE FALSE
    OBVIOUS
  <2>1. Deps(d) = {} /\ Role(d) = "input"
    BY <1>1, GraphFacts DEF Setting, IsInput
  <2>2. Inside[d] = {}
    BY <1>1, <2>1, InsideCases DEF Setting
  <2> QED
    BY <2>2
<1>3. d \in NextNodes(n)
  BY <1>2 DEF NextNodes
<1> QED
  BY <1>3 DEF Setting, NeededInv

LEMMA InsideAreExpanders ==
    ASSUME dag \in Dags
    PROVE  \A n \in Nodes : \A x \in Inside[n] : x \in Nodes /\ x <= n /\ Role(x) = "expand"
<1> DEFINE S == {n \in Nodes : \A x \in Inside[n] : x \in Nodes /\ x <= n /\ Role(x) = "expand"}
<1>1. ASSUME NEW n \in Nodes, \A k \in Nodes : k < n => k \in S PROVE n \in S
  <2>1. n \in Nat /\ \A k \in Deps(n) : k \in Nodes /\ k \in Nat /\ k < n
    BY GraphFacts
  <2>2. \A k \in Deps(n) : \A x \in Inside[k] : x <= k /\ Role(x) = "expand"
    BY <1>1, <2>1
  <2>3. \A x \in Inside[n] : (x = n /\ Role(n) = "expand") \/ \E k \in Deps(n) : x \in Inside[k]
    BY InsideCases
  <2>4. \A x \in Inside[n] : x \in Nodes /\ x \in Nat
    BY InsideCases, GraphFacts
  <2> QED
    BY <2>1, <2>2, <2>3, <2>4
<1> HIDE DEF S
<1>2. Nodes \subseteq Nat
  BY GroupingAssumption
<1>3. Nodes \subseteq S
  BY <1>1, <1>2, LowerFirst
<1> QED
  BY <1>3 DEF S

LEMMA BlockFacts ==
    ASSUME Setting, Supported, NEW c \in Collectors
    PROVE  LET e == ExpanderOf(c)
               l == dag.collects[c]
           IN  /\ e \in required /\ Role(e) = "expand" /\ ~Overridden(e) /\ e # None
               /\ c \in required /\ ~Overridden(c) /\ Inside[c] = {}
               /\ l \in Deps(c) /\ l \in BlockOf(c) /\ Inside[l] = {e}
               /\ e < l /\ l < c
               /\ \E m \in BlockOf(c) : e \in Deps(m)
               /\ \A d \in Deps(c) : d # l => Inside[d] = {}
               /\ \A m \in BlockOf(c) :
                     /\ m \in required /\ m <= l
                     /\ Role(m) \notin {"expand", "collect"}
                     /\ Inside[m] = {e}
                     /\ ~Overridden(m) /\ m \notin request.outputs
                     /\ \A d \in Deps(m) : Inside[d] # {} => d = e \/ d \in BlockOf(c)
<1> DEFINE l == dag.collects[c]
<1> DEFINE t == NodesBetween(c)
<1>0. /\ c \in Nodes /\ c \in required /\ Role(c) = "collect" /\ l \in Deps(c) /\ l \in Nodes
      /\ l < c /\ dag \in Dags
  BY GraphFacts DEF Setting, NeededInv, Collectors
<1>1. PICK e : Inside[l] = {e}
  <2>1. Cardinality(Inside[l]) = 1 /\ Inside[l] \subseteq Nodes
    BY <1>0, InsideCases DEF Setting, Supported, OneCollectorPerBlock
  <2>2. IsFiniteSet(Inside[l])
    BY <2>1, GroupingAssumption, FS_Subset
  <2> QED
    BY <2>1, <2>2, FS_Singleton
<1>2. Inside[c] = {} /\ Role(l) # "expand"
  BY <1>0 DEF Supported, OneCollectorPerBlock
<1>3. \A d \in Deps(c) : d # l => Inside[d] = {}
  BY <1>0, <1>2, InsideCases
<1>4. \A d \in Deps(c) : ~ReadsCollected[d]
  BY <1>0 DEF Supported, BlocksReadNothingCollected
<1>5. ~Overridden(c)
  BY <1>0 DEF Supported, CallerStaysOutOfBlocks, Overridden
<1> DEFINE R == {m \in Nodes : /\ ~ReadsCollected[m]
                               /\ Inside[m] # {} => m \in required /\ Inside[m] = {e} /\ m <= l}
<1>6. Deps(c) \subseteq R
  <2> SUFFICES ASSUME NEW d \in Deps(c), Inside[d] # {}
               PROVE  d \in required /\ Inside[d] = {e} /\ d <= l
    BY <1>0, <1>4, GraphFacts
  <2>1. d = l
    BY <1>3
  <2>2. l \in Nat
    BY <1>0, GraphFacts
  <2> QED
    BY <1>0, <1>1, <1>5, <2>1, <2>2, InsideIsNeeded
<1>7. ASSUME NEW m \in R, Inside[m] # {}, Role(m) # "expand"
      PROVE  ~Overridden(m) /\ m \notin request.outputs
  <2>1. m \in Nodes /\ Inside[m] = {e}
    BY <1>7
  <2>2. m # e
    BY <1>0, <1>1, <1>7, InsideAreExpanders
  <2>3. InBlockNode(m)
    BY <2>1, <2>2 DEF InBlockNode
  <2> QED
    BY <2>3 DEF Supported, CallerStaysOutOfBlocks, Overridden
<1>8. Region(R)
  <2> SUFFICES ASSUME NEW m \in R PROVE Role(m) # "collect" /\ (Role(m) # "expand" => Deps(m) \subseteq R)
    BY DEF Region
  <2>1. m \in Nodes /\ Role(m) # "collect"
    BY <1>0, ReadsFacts
  <2>2. ASSUME Role(m) # "expand", NEW d \in Deps(m) PROVE d \in R
    <3>1. d \in Nodes /\ ~ReadsCollected[d] /\ d < m /\ d \in Nat /\ m \in Nat
      BY <1>0, <2>1, <2>2, ReadsFacts, GraphFacts
    <3>2. ASSUME Inside[d] # {} PROVE d \in required /\ Inside[d] = {e} /\ d <= l
      <4>1. Inside[m] = UNION {Inside[x] : x \in Deps(m)}
        BY <1>0, <2>1, <2>2, InsideCases
      <4>2. Inside[m] # {} /\ Inside[d] \subseteq Inside[m]
        BY <3>2, <4>1
      <4>3. m \in required /\ Inside[m] = {e} /\ m <= l
        BY <4>2
      <4>4. d \in required
        BY <1>7, <2>2, <3>2, <4>2, <4>3, InsideIsNeeded
      <4>5. l \in Nat
        BY <1>0, GraphFacts
      <4> QED
        BY <3>1, <3>2, <4>2, <4>3, <4>4, <4>5
    <3> QED
      BY <3>1, <3>2
  <2> QED
    BY <2>1, <2>2
<1> HIDE DEF R
<1>9. SearchIn(R, c, t) /\ Continues(Deps(c), c, NothingFound, t)
  BY <1>0, <1>6, <1>8, NodesBetweenSearches
<1> HIDE DEF t
<1>10. t.found = e
  <2>1. t.found # None
    BY <1>0, <1>1, <1>9 DEF Continues
  <2>2. t.found = None \/ \E d \in Deps(c) : t.found \in Inside[d]
    BY <1>9 DEF Continues, NothingFound
  <2> QED
    BY <1>1, <1>3, <2>1, <2>2
<1>11. \A m \in t.visited : m \in Nodes /\ m \in R /\ Role(m) # "expand" /\ Finished(t, m)
  <2>1. \A m \in t.visited : m \in Nodes /\ m < c
    <3>1. ASSUME NEW m \in t.visited PROVE m \in Nodes /\ m < c
      <4>1. m \in Nodes /\ m \in Nat /\ c \in Nat
        BY <1>0, <1>8, <1>9, GraphFacts DEF SearchIn, Region
      <4>2. ~(m >= c)
        BY <1>9, <4>1 DEF Continues, NothingFound
      <4> QED
        BY <4>1, <4>2
    <3> QED
      BY <3>1
  <2> QED
    BY <1>9, <2>1 DEF SearchIn
<1>12. l \in t.out
  <2>1. l \in t.visited
    BY <1>0, <1>2, <1>9 DEF Continues
  <2> QED
    BY <1>1, <1>11, <2>1 DEF Finished
<1>13. t.out \subseteq t.visited
  BY <1>9 DEF SearchIn
<1>14. ASSUME NEW m \in t.out
       PROVE  /\ m \in required /\ m <= l
              /\ Role(m) \notin {"expand", "collect"}
              /\ Inside[m] = {e}
              /\ ~Overridden(m) /\ m \notin request.outputs
              /\ \A d \in Deps(m) : Inside[d] # {} => d = e \/ d \in t.out
  <2>1. m \in R /\ Role(m) # "expand" /\ Finished(t, m) /\ m \in Nodes
    BY <1>11, <1>13
  <2>2. Inside[m] # {}
    BY <2>1 DEF Finished
  <2>3. m \in required /\ m <= l /\ Inside[m] = {e} /\ Role(m) # "collect"
    BY <2>1, <2>2, <1>8 DEF R, Region
  <2>4. ASSUME NEW d \in Deps(m), Inside[d] # {} PROVE d = e \/ d \in t.out
    <3>1. d \in Nodes /\ Inside[d] \subseteq Inside[m]
      <4>1. d \in Nodes
        BY <1>0, <2>1, GraphFacts
      <4>2. Inside[m] = UNION {Inside[x] : x \in Deps(m)}
        BY <1>0, <2>1, <2>3, InsideCases
      <4> QED
        BY <4>1, <4>2
    <3>2. CASE Role(d) = "expand"
      <4>1. Inside[d] = {d}
        BY <1>0, <3>1, <3>2, InsideCases
      <4> QED
        BY <2>3, <3>1, <4>1
    <3>3. CASE Role(d) # "expand"
      <4>1. d \in t.visited
        BY <2>1, <3>3 DEF Finished
      <4>2. Finished(t, d)
        BY <1>11, <4>1
      <4> QED
        BY <2>4, <4>2 DEF Finished
    <3> QED
      BY <3>2, <3>3
  <2>5. ~Overridden(m) /\ m \notin request.outputs
    BY <1>7, <2>1, <2>2
  <2> QED
    BY <2>1, <2>3, <2>4, <2>5
<1>15. Role(e) = "expand" /\ e \in Nodes /\ e < l
  <2>1. e \in Nodes /\ e <= l /\ Role(e) = "expand"
    BY <1>0, <1>1, InsideAreExpanders
  <2>2. e \in Nat /\ l \in Nat
    BY <1>0, <2>1, GraphFacts
  <2> QED
    BY <1>2, <2>1, <2>2
<1>16. PICK m \in t.out : e \in Deps(m)
  <2>1. t.out \subseteq Nat
    BY <1>11, <1>13, GroupingAssumption
  <2>2. PICK m \in t.out : \A n \in t.out : m <= n
    BY <1>12, <2>1, LeastNumber
  <2>3. Inside[m] = {e} /\ Role(m) \notin {"expand", "collect"} /\ m \in Nodes
    BY <1>11, <1>13, <1>14
  <2>4. Inside[m] = UNION {Inside[d] : d \in Deps(m)}
    BY <1>0, <2>3, InsideCases
  <2>5. PICK d \in Deps(m) : e \in Inside[d]
    BY <2>3, <2>4
  <2>6. d = e \/ d \in t.out
    BY <1>14, <2>5
  <2>7. d < m /\ d \in Nat /\ m \in Nat
    BY <1>0, <2>3, GraphFacts
  <2> QED
    BY <2>2, <2>5, <2>6, <2>7
<1>17. e \in required
  <2>1. Inside[e] # {}
    BY <1>0, <1>15, InsideCases
  <2> QED
    BY <1>14, <1>16, <2>1, InsideIsNeeded
<1>18. ~Overridden(e) /\ e # None
  BY <1>0, <1>15, GraphFacts DEF Supported, CallerStaysOutOfBlocks, Overridden
<1>19. ExpanderOf(c) = e /\ BlockOf(c) = t.out
  BY <1>10 DEF ExpanderOf, BlockOf, t
<1> QED
  BY <1>0, <1>1, <1>2, <1>3, <1>5, <1>12, <1>14, <1>15, <1>16, <1>17, <1>18, <1>19

(* Two Collect nodes have two expanders. *)
LEMMA ExpandersDiffer ==
    ASSUME Setting, Supported, NEW c \in Collectors, NEW d \in Collectors, c # d
    PROVE  ExpanderOf(c) # ExpanderOf(d)
<1>1. Inside[dag.collects[d]] # Inside[dag.collects[c]]
  BY DEF Supported, OneCollectorPerBlock, Collectors
<1> QED
  BY <1>1, BlockFacts

(* What is needed and computed from an element of the list is in the block *)
(* of the list: whoever reads it is too, or is the Collect node.           *)
LEMMA BlockIsWhole ==
    ASSUME Setting, Supported, NEW c \in Collectors, NEW n \in required,
           ExpanderOf(c) \in Inside[n], n # ExpanderOf(c)
    PROVE  n \in BlockOf(c)
<1> DEFINE e == ExpanderOf(c)
<1> DEFINE S == {m \in required : e \in Inside[m] /\ m # e /\ m \notin BlockOf(c)}
<1>1. SUFFICES ASSUME S # {} PROVE FALSE
  OBVIOUS
<1>2. S \subseteq Nodes /\ dag \in Dags /\ required \subseteq Nodes
  BY DEF Setting, NeededInv
<1>3. PICK m \in S : \A x \in S : x <= m
  BY <1>1, <1>2, GreatestNode
<1>4. m \in required /\ m \in Nodes /\ e \in Inside[m] /\ m # e /\ m \notin BlockOf(c) /\ m \in Nat
  BY <1>2, GraphFacts
<1>5. Role(m) # "expand"
  BY <1>2, <1>4, InsideCases
<1>6. InBlockNode(m)
  <2>1. Inside[m] # {m}
    BY <1>2, <1>4
  <2> QED
    BY <1>4, <2>1 DEF InBlockNode
<1>7. m \notin request.outputs
  BY <1>6 DEF Supported, CallerStaysOutOfBlocks
<1>8. PICK r \in required : m \in NextNodes(r)
  BY <1>4, <1>7 DEF Setting, NeededInv
<1>9. m \in Deps(r) /\ ~Overridden(r) /\ r \in Nodes /\ m < r /\ r \in Nat
  BY <1>2, <1>8, GraphFacts DEF NextNodes
<1>10. Role(r) # "expand"
  BY <1>4, <1>9 DEF Supported, NotNested
<1>11. CASE Role(r) = "collect"
  <2>1. r \in Collectors
    BY <1>11 DEF Collectors
  <2>2. m = dag.collects[r]
    BY <1>4, <1>9, <2>1, BlockFacts
  <2>3. Inside[m] = {ExpanderOf(r)} /\ m \in BlockOf(r)
    BY <2>1, <2>2, BlockFacts
  <2>4. r = c
    BY <1>4, <2>1, <2>3, ExpandersDiffer
  <2> QED
    BY <1>4, <2>3, <2>4
<1>12. CASE Role(r) # "collect"
  <2>1. Inside[r] = UNION {Inside[d] : d \in Deps(r)}
    BY <1>2, <1>9, <1>10, <1>12, InsideCases
  <2>2. e \in Inside[r] /\ ~(r <= m)
    BY <1>4, <1>9, <2>1
  <2>3. r # e
    BY <1>10, BlockFacts
  <2>4. r \in BlockOf(c)
    BY <1>3, <2>2, <2>3
  <2> QED
    BY <1>4, <1>9, <2>4, BlockFacts
<1> QED
  BY <1>11, <1>12

-----------------------------------------------------------------------------
(* The graph and the request do not change                                 *)

LEMMA NodesBetweenIs ==
    ASSUME NEW c
    PROVE  NodesBetween(c) = LoopAt(dag, DfsOf(dag), c, NothingFound)
<1>1. ForEachDep(DfsTraverse, c, NothingFound) = LoopAt(dag, DfsTraverse, c, NothingFound)
  BY LoopIsAt
<1> QED
  BY <1>1, DfsIsOf DEF NodesBetween

LEMMA SameGraph ==
    ASSUME dag' = dag, request' = request, required' = required
    PROVE  /\ \A c : NodesBetween(c)' = NodesBetween(c)
           /\ Inside' = Inside
           /\ ReadsCollected' = ReadsCollected
<1>1. ASSUME NEW c PROVE NodesBetween(c)' = NodesBetween(c)
  <2>1. (NodesBetween(c) = LoopAt(dag, DfsOf(dag), c, NothingFound))'
    BY NodesBetweenIs, PTL
  <2>2. NothingFound' = NothingFound
    BY DEF NothingFound
  <2> QED
    BY <2>1, <2>2, NodesBetweenIs
<1>2. Inside' = Inside
  <2>1. (Inside = InsideOf(dag))'
    BY InsideIsOf, PTL
  <2> QED
    BY <2>1, InsideIsOf
<1>3. ReadsCollected' = ReadsCollected
  <2>1. (ReadsCollected = ReadsOf(dag))'
    BY ReadsIsOf, PTL
  <2> QED
    BY <2>1, ReadsIsOf
<1> QED
  BY <1>1, <1>2, <1>3

LEMMA SameSupported ==
    ASSUME dag' = dag, request' = request, required' = required
    PROVE  Supported' <=> Supported
<1>1. Inside' = Inside /\ ReadsCollected' = ReadsCollected
  BY SameGraph
<1>2. OneCollectorPerBlock' <=> OneCollectorPerBlock
  BY <1>1 DEF OneCollectorPerBlock, Role
<1>3. NotNested' <=> NotNested
  BY <1>1 DEF NotNested, Role, Deps
<1>4. BlocksReadNothingCollected' <=> BlocksReadNothingCollected
  BY <1>1, Zenon DEF BlocksReadNothingCollected, Role, Deps
<1>5. CallerStaysOutOfBlocks' <=> CallerStaysOutOfBlocks
  BY <1>1 DEF CallerStaysOutOfBlocks, InBlockNode, Role
<1> QED
  BY <1>2, <1>3, <1>4, <1>5 DEF Supported

LEMMA SameSetting ==
    ASSUME dag' = dag, request' = request, required' = required
    PROVE  Setting' <=> Setting
  BY DEF Setting, NeededInv, NextNodes, Overridden, Deps, IsInput, Role, Requires

-----------------------------------------------------------------------------
(* The groups                                                              *)

ExpandGroup(c) == NodeGroup(<<"expand", ExpanderOf(c)>>, None, {ExpanderOf(c)}, "expand_unordered")
BlockGroup(c) == NodeGroup(<<"block", ExpanderOf(c)>>, <<"expand", ExpanderOf(c)>>,
                           BlockOf(c), "execute_block")
GatherGroup(c) == NodeGroup(<<"collect", ExpanderOf(c)>>, <<"expand", ExpanderOf(c)>>, {c}, "gather")
SingleGroup(n) == NodeGroup(<<"node", n>>, None, {n}, "execute_single")

GroupsFor(C) == UNION {{ExpandGroup(c), BlockGroup(c), GatherGroup(c)} : c \in C}
CoveredBy(C) == UNION {BlockOf(c) \cup {ExpanderOf(c), c} : c \in C}
Singles == {SingleGroup(n) : n \in required \ CoveredBy(Collectors)}
AllGroups == GroupsFor(Collectors) \cup Singles

LEMMA SameGroups ==
    ASSUME dag' = dag, request' = request, required' = required
    PROVE  /\ Collectors' = Collectors
           /\ \A c : ExpanderOf(c)' = ExpanderOf(c) /\ BlockOf(c)' = BlockOf(c)
           /\ \A C : GroupsFor(C)' = GroupsFor(C) /\ CoveredBy(C)' = CoveredBy(C)
           /\ AllGroups' = AllGroups
<1>1. Collectors' = Collectors
  BY DEF Collectors, Role
<1>2. \A c : ExpanderOf(c)' = ExpanderOf(c) /\ BlockOf(c)' = BlockOf(c)
  BY SameGraph DEF ExpanderOf, BlockOf
<1>3. ASSUME NEW C PROVE GroupsFor(C)' = GroupsFor(C) /\ CoveredBy(C)' = CoveredBy(C)
  BY <1>2 DEF GroupsFor, CoveredBy, ExpandGroup, BlockGroup, GatherGroup, NodeGroup
<1>4. CoveredBy(Collectors)' = CoveredBy(Collectors)
  BY <1>1, <1>2 DEF CoveredBy
<1>5. GroupsFor(Collectors)' = GroupsFor(Collectors)
  BY <1>1, <1>2 DEF GroupsFor, ExpandGroup, BlockGroup, GatherGroup, NodeGroup
<1>6. AllGroups' = AllGroups
  BY <1>4, <1>5 DEF AllGroups, Singles, SingleGroup, NodeGroup
<1> QED
  BY <1>1, <1>2, <1>3, <1>6

(* What the groups say, one kind after the other. *)
LEMMA GroupFields ==
    /\ \A c : /\ ExpandGroup(c).id = <<"expand", ExpanderOf(c)>>
              /\ ExpandGroup(c).spawner = None
              /\ ExpandGroup(c).nodes = {ExpanderOf(c)}
              /\ ExpandGroup(c).purpose = "expand_unordered"
              /\ BlockGroup(c).id = <<"block", ExpanderOf(c)>>
              /\ BlockGroup(c).spawner = <<"expand", ExpanderOf(c)>>
              /\ BlockGroup(c).nodes = BlockOf(c)
              /\ BlockGroup(c).purpose = "execute_block"
              /\ GatherGroup(c).id = <<"collect", ExpanderOf(c)>>
              /\ GatherGroup(c).spawner = <<"expand", ExpanderOf(c)>>
              /\ GatherGroup(c).nodes = {c}
              /\ GatherGroup(c).purpose = "gather"
    /\ \A n : /\ SingleGroup(n).id = <<"node", n>>
              /\ SingleGroup(n).spawner = None
              /\ SingleGroup(n).nodes = {n}
              /\ SingleGroup(n).purpose = "execute_single"
  BY DEF ExpandGroup, BlockGroup, GatherGroup, SingleGroup, NodeGroup

LEMMA GroupsAre ==
    ASSUME NEW g \in AllGroups
    PROVE  \/ \E c \in Collectors : g \in {ExpandGroup(c), BlockGroup(c), GatherGroup(c)}
           \/ \E n \in required \ CoveredBy(Collectors) : g = SingleGroup(n)
  BY DEF AllGroups, GroupsFor, Singles

(* Of two collectors, neither has a node of the other's. *)
LEMMA BlocksDisjoint ==
    ASSUME Setting, Supported, NEW c \in Collectors, NEW d \in Collectors
    PROVE  /\ ExpanderOf(c) = ExpanderOf(d) => c = d
           /\ ExpanderOf(c) # d
           /\ ExpanderOf(c) \notin BlockOf(d) /\ c \notin BlockOf(d)
           /\ BlockOf(c) \cap BlockOf(d) # {} => c = d
<1>1. ExpanderOf(c) = ExpanderOf(d) => c = d
  BY ExpandersDiffer
<1>2. ExpanderOf(c) # d
  BY BlockFacts DEF Collectors
<1>3. ExpanderOf(c) \notin BlockOf(d) /\ c \notin BlockOf(d)
  BY BlockFacts DEF Collectors
<1>4. ASSUME NEW n \in BlockOf(c), n \in BlockOf(d) PROVE c = d
  BY <1>1, <1>4, BlockFacts
<1> QED
  BY <1>1, <1>2, <1>3, <1>4

LEMMA GroupsDiffer ==
    ASSUME Setting, Supported, NEW g \in AllGroups, NEW h \in AllGroups, g # h
    PROVE  g.id # h.id /\ g.nodes \cap h.nodes = {}
<1>1. CASE \E c \in Collectors : g \in {ExpandGroup(c), BlockGroup(c), GatherGroup(c)}
  <2>1. PICK c \in Collectors : g \in {ExpandGroup(c), BlockGroup(c), GatherGroup(c)}
    BY <1>1
  <2>2. CASE \E d \in Collectors : h \in {ExpandGroup(d), BlockGroup(d), GatherGroup(d)}
    <3>1. PICK d \in Collectors : h \in {ExpandGroup(d), BlockGroup(d), GatherGroup(d)}
      BY <2>2
    <3>2. g.id # h.id
      BY <2>1, <3>1, BlocksDisjoint, GroupFields
    <3>3. g.nodes \cap h.nodes = {}
      <4>1. ASSUME NEW n \in g.nodes, n \in h.nodes PROVE c = d
        BY <2>1, <3>1, <4>1, BlocksDisjoint, GroupFields
      <4>2. ASSUME c = d PROVE g.nodes \cap h.nodes = {}
        BY <2>1, <3>1, <4>2, BlocksDisjoint, GroupFields
      <4> QED
        BY <4>1, <4>2
    <3> QED
      BY <3>2, <3>3
  <2>3. CASE \E n \in required \ CoveredBy(Collectors) : h = SingleGroup(n)
    BY <2>1, <2>3, GroupFields DEF CoveredBy
  <2> QED
    BY <2>2, <2>3, GroupsAre
<1>2. CASE \E n \in required \ CoveredBy(Collectors) : g = SingleGroup(n)
  BY <1>2, GroupsAre, GroupFields DEF CoveredBy
<1> QED
  BY <1>1, <1>2, GroupsAre

LEMMA GroupsCover ==
    ASSUME Setting, Supported
    PROVE  /\ UNION {g.nodes : g \in AllGroups} = required
           /\ \A n \in required : \E g \in AllGroups : n \in g.nodes
<1>1. ASSUME NEW g \in AllGroups PROVE g.nodes \subseteq required
  BY GroupsAre, GroupFields, BlockFacts
<1>2. ASSUME NEW n \in required PROVE \E g \in AllGroups : n \in g.nodes
  <2>1. CASE n \in CoveredBy(Collectors)
    <3>1. PICK c \in Collectors : n \in BlockOf(c) \cup {ExpanderOf(c), c}
      BY <2>1 DEF CoveredBy
    <3>2. {ExpandGroup(c), BlockGroup(c), GatherGroup(c)} \subseteq AllGroups
      BY DEF AllGroups, GroupsFor
    <3> QED
      BY <3>1, <3>2, GroupFields
  <2>2. CASE n \notin CoveredBy(Collectors)
    <3>1. SingleGroup(n) \in AllGroups
      BY <2>2 DEF AllGroups, Singles
    <3> QED
      BY <3>1, GroupFields
  <2> QED
    BY <2>1, <2>2
<1> QED
  BY <1>1, <1>2

-----------------------------------------------------------------------------
(* group_nodes and create_task_plan                                        *)

(* s has each member of G once, and nothing else. *)
Lists(s, G) ==
    /\ s \in Seq(G)
    /\ \A g \in G : \E i \in DOMAIN s : s[i] = g
    /\ \A i, j \in DOMAIN s : i # j => s[i] # s[j]

LEMMA ListsBoth ==
    ASSUME NEW G, NEW H, NEW s, NEW t, Lists(s, G), Lists(t, H), G \cap H = {}
    PROVE  Lists(s \o t, G \cup H)
<1> DEFINE r == s \o t
<1>1. s \in Seq(G \cup H) /\ t \in Seq(G \cup H)
  BY DEF Lists
<1>2. /\ r \in Seq(G \cup H) /\ Len(r) = Len(s) + Len(t)
      /\ \A i \in 1 .. Len(r) : r[i] = IF i <= Len(s) THEN s[i] ELSE t[i - Len(s)]
  BY <1>1
<1>3. /\ Len(s) \in Nat /\ Len(t) \in Nat /\ DOMAIN s = 1 .. Len(s) /\ DOMAIN t = 1 .. Len(t)
      /\ DOMAIN r = 1 .. Len(r)
  BY <1>1, <1>2
<1> HIDE DEF r
<1>4. \A i \in DOMAIN s : i \in DOMAIN r /\ r[i] = s[i]
  BY <1>2, <1>3
<1>5. \A i \in DOMAIN t : Len(s) + i \in DOMAIN r /\ r[Len(s) + i] = t[i]
  BY <1>2, <1>3
<1>6. \A g \in G \cup H : \E i \in DOMAIN r : r[i] = g
  BY <1>4, <1>5 DEF Lists
<1>7. ASSUME NEW i \in DOMAIN r, NEW j \in DOMAIN r, r[i] = r[j] PROVE i = j
  <2>1. \A k \in DOMAIN s : s[k] \in G
    BY <1>3 DEF Lists
  <2>2. \A k \in DOMAIN t : t[k] \in H
    BY <1>3 DEF Lists
  <2>3. \A k \in DOMAIN r : \/ k \in DOMAIN s /\ r[k] = s[k]
                            \/ k > Len(s) /\ k - Len(s) \in DOMAIN t /\ r[k] = t[k - Len(s)]
    BY <1>2, <1>3
  <2>4. i \in Int /\ j \in Int
    BY <1>2, <1>3
  <2>5. CASE i \in DOMAIN s /\ j \in DOMAIN s
    BY <1>4, <1>7, <2>5 DEF Lists
  <2>6. CASE i \notin DOMAIN s /\ j \notin DOMAIN s
    <3>1. i - Len(s) = j - Len(s)
      BY <1>7, <2>3, <2>6 DEF Lists
    <3> QED
      BY <1>3, <2>4, <3>1
  <2>7. CASE (i \in DOMAIN s) # (j \in DOMAIN s)
    BY <1>7, <2>1, <2>2, <2>3, <2>7
  <2> QED
    BY <2>5, <2>6, <2>7
<1> QED
  BY <1>2, <1>6, <1>7 DEF Lists, r

LEMMA ListsSet ==
    ASSUME NEW S, IsFiniteSet(S)
    PROVE  Lists(SetToSeq(S), S)
<1> DEFINE c == Cardinality(S)
<1>1. c \in Nat /\ ExistsBijection(1..c, S)
  BY FS_CardinalityType
<1>2. PICK f : f \in [1..c -> S] /\ IsInjective(f)
  BY <1>1 DEF ExistsBijection, Bijection, Injection
<1> DEFINE s == SetToSeq(S)
<1>3. s \in [1..c -> S] /\ IsInjective(s)
  BY <1>2, Zenon DEF SetToSeq
<1> HIDE DEF s
<1>4. s \in Injection(1..c, S)
  BY <1>3 DEF Injection
<1>5. IsFiniteSet(1..c) /\ Cardinality(1..c) = c
  BY <1>1, FS_Interval
<1>6. s \in Surjection(1..c, S)
  BY <1>4, <1>5, FS_Injection
<1> QED
  BY <1>1, <1>3, <1>6 DEF Lists, Surjection, IsInjective, s

(* The tasks a group waits for. *)
Reads(g, n, d) == n \in g.nodes /\ d \in Deps(n) /\ ~Overridden(n) /\ ~Overridden(d) /\ d \notin g.nodes
WaitsFor(g) == {h.id : h \in {k \in AllGroups : \E d \in k.nodes : \E n \in g.nodes : Reads(g, n, d)}}
TasksAre ==
    /\ DOMAIN tasks = DOMAIN groups
    /\ \A i \in DOMAIN groups : /\ tasks[i].group = groups[i]
                                /\ tasks[i].outputs = OutputsToCompute(groups[i])
                                /\ tasks[i].deps = WaitsFor(groups[i])

GroupingInv ==
    /\ dag \in Dags /\ request \in Requests(dag)
    /\ pc \in {"upstream", "blocks", "plan", "planned", "rejected", "raised"}
    /\ pc = "upstream" => groups = <<>> /\ visited = {}
    /\ pc \in {"blocks", "plan", "planned", "raised"} =>
          NeededInv(required) /\ MissingInputs(required) = {}
    /\ pc = "blocks" /\ Supported =>
          /\ left \subseteq Collectors
          /\ Lists(groups, GroupsFor(Collectors \ left))
          /\ visited = CoveredBy(Collectors \ left)
    /\ pc \in {"plan", "planned"} /\ Supported => Lists(groups, AllGroups)
    /\ pc = "planned" /\ Supported => TasksAre
    /\ pc = "raised" => ~Supported

LEMMA GroupingInit == GInit => GroupingInv
  BY DEF GInit, GroupingInv

LEMMA UpstreamKeeps ==
    ASSUME GroupingInv, Upstream
    PROVE  GroupingInv'
<1>1. dag \in Dags /\ request \in Requests(dag) /\ groups = <<>> /\ visited = {}
  BY DEF GroupingInv, Upstream
<1>2. dag' = dag /\ request' = request /\ groups' = <<>> /\ visited' = {} /\ pc' \in {"blocks", "rejected"}
  BY <1>1 DEF Upstream
<1>3. required' = UpstreamNodes /\ left' = {n \in required' : Role(n) = "collect"}
  BY DEF Upstream
<1>4. NeededInv(required)'
  <2>1. NeededInv(UpstreamNodes)
    BY <1>1, UpstreamIsNeeded
  <2> QED
    BY <1>2, <1>3, <2>1 DEF NeededInv, NextNodes, Overridden, Deps, IsInput, Role, Requires
<1>5. pc' = "blocks" => (MissingInputs(required) = {})'
  <2>1. pc' = "blocks" => MissingInputs(required') = {}
    BY DEF Upstream
  <2> QED
    BY <1>2, <2>1 DEF MissingInputs, IsInput, Role, DependedOnBy, Deps, Requires
<1>6. left' = Collectors'
  BY <1>2, <1>3 DEF Collectors, Role
<1>7. (Lists(groups, GroupsFor(Collectors \ left)))' /\ (visited = CoveredBy(Collectors \ left))'
  <2>1. Collectors' \ left' = {}
    BY <1>6
  <2>2. GroupsFor({})' = {} /\ CoveredBy({})' = {}
    BY DEF GroupsFor, CoveredBy
  <2>3. Lists(<<>>, {})
    BY DEF Lists
  <2> QED
    BY <1>2, <2>1, <2>2, <2>3
<1> QED
  BY <1>1, <1>2, <1>4, <1>5, <1>6, <1>7 DEF GroupingInv

(* The groups of one more collector. *)
LEMMA BlockIsListed ==
    ASSUME Setting, Supported, NEW C, C \subseteq Collectors, NEW c \in Collectors \ C,
           Lists(groups, GroupsFor(C))
    PROVE  Lists(groups \o BlockGroups(ExpanderOf(c), BlockOf(c)) \o CollectGroup(c, ExpanderOf(c)),
                 GroupsFor(C \cup {c}))
<1> DEFINE G == {ExpandGroup(c), BlockGroup(c)}
<1> DEFINE H == {GatherGroup(c)}
<1> DEFINE s == BlockGroups(ExpanderOf(c), BlockOf(c))
<1> DEFINE t == CollectGroup(c, ExpanderOf(c))
<1>1. s = <<ExpandGroup(c), BlockGroup(c)>> /\ t = <<GatherGroup(c)>>
  BY DEF BlockGroups, CollectGroup, ExpandGroup, BlockGroup, GatherGroup
<1>2. ExpandGroup(c) # BlockGroup(c) /\ GatherGroup(c) \notin G
  BY GroupFields
<1>3. Lists(s, G)
  BY <1>1, <1>2 DEF Lists
<1>4. Lists(t, H)
  BY <1>1 DEF Lists
<1>5. GroupsFor(C) \cap (G \cup H) = {}
  <2> SUFFICES ASSUME NEW d \in C, {ExpandGroup(d), BlockGroup(d), GatherGroup(d)} \cap (G \cup H) # {}
               PROVE  FALSE
    BY DEF GroupsFor
  <2>1. ExpanderOf(d) = ExpanderOf(c)
    BY GroupFields
  <2> QED
    BY <2>1, BlocksDisjoint
<1> HIDE DEF G, H, s, t
<1>6. Lists(groups \o s, GroupsFor(C) \cup G)
  BY <1>3, <1>5, ListsBoth
<1>7. Lists((groups \o s) \o t, (GroupsFor(C) \cup G) \cup H)
  <2>1. (GroupsFor(C) \cup G) \cap H = {}
    BY <1>2, <1>5 DEF H
  <2> QED
    BY <1>4, <1>6, <2>1, ListsBoth
<1>8. GroupsFor(C \cup {c}) = (GroupsFor(C) \cup G) \cup H
  BY DEF GroupsFor, G, H
<1> QED
  BY <1>7, <1>8 DEF s, t

LEMMA GroupBlockKeeps ==
    ASSUME GroupingInv, NEW c \in Nodes, GroupBlock(c)
    PROVE  GroupingInv'
<1>1. /\ pc = "blocks" /\ dag' = dag /\ request' = request /\ required' = required
      /\ dag \in Dags /\ request \in Requests(dag) /\ c \in left
      /\ NeededInv(required) /\ MissingInputs(required) = {}
      /\ pc' \in {"blocks", "raised"}
  BY DEF GroupingInv, GroupBlock
<1>2. NeededInv(required)' /\ (MissingInputs(required) = {})'
  BY <1>1 DEF NeededInv, NextNodes, Overridden, Deps, IsInput, Role, Requires, MissingInputs, DependedOnBy
<1>3. ASSUME Supported
      PROVE  /\ pc' = "blocks"
             /\ (left \subseteq Collectors)'
             /\ (Lists(groups, GroupsFor(Collectors \ left)))'
             /\ (visited = CoveredBy(Collectors \ left))'
  <2>1. Setting /\ left \subseteq Collectors /\ c \in Collectors
    BY <1>1, <1>3 DEF GroupingInv, Setting
  <2>2. ExpanderOf(c) \in required /\ ExpanderOf(c) # None
    BY <1>3, <2>1, BlockFacts
  <2>3. /\ groups' = groups \o BlockGroups(ExpanderOf(c), BlockOf(c)) \o CollectGroup(c, ExpanderOf(c))
        /\ visited' = visited \cup BlockOf(c) \cup {ExpanderOf(c), c}
        /\ left' = left \ {c} /\ pc' = pc
    BY <2>2 DEF GroupBlock, ExpanderOf, BlockOf
  <2>4. Collectors \ left' = (Collectors \ left) \cup {c}
    BY <2>1, <2>3
  <2>5. Lists(groups', GroupsFor(Collectors \ left'))
    <3>1. Lists(groups, GroupsFor(Collectors \ left)) /\ c \in Collectors \ (Collectors \ left)
      BY <1>1, <1>3, <2>1 DEF GroupingInv
    <3> QED
      BY <1>3, <2>1, <2>3, <2>4, <3>1, BlockIsListed
  <2>6. visited' = CoveredBy(Collectors \ left')
    BY <1>1, <1>3, <2>3, <2>4 DEF GroupingInv, CoveredBy
  <2>7. /\ Collectors' = Collectors
        /\ GroupsFor(Collectors \ left') = (GroupsFor(Collectors \ left))'
        /\ CoveredBy(Collectors \ left') = (CoveredBy(Collectors \ left))'
    <3>1. Collectors' = Collectors /\ \A d : ExpanderOf(d)' = ExpanderOf(d) /\ BlockOf(d)' = BlockOf(d)
      BY <1>1, SameGroups
    <3> QED
      BY <3>1 DEF GroupsFor, CoveredBy, ExpandGroup, BlockGroup, GatherGroup, NodeGroup
  <2> QED
    BY <1>1, <2>1, <2>3, <2>5, <2>6, <2>7
<1>4. Supported' <=> Supported
  BY <1>1, SameSupported
<1> QED
  BY <1>1, <1>2, <1>3, <1>4 DEF GroupingInv

LEMMA GroupRemainingKeeps ==
    ASSUME GroupingInv, GroupRemaining
    PROVE  GroupingInv'
<1>1. /\ pc = "blocks" /\ dag' = dag /\ request' = request /\ required' = required
      /\ dag \in Dags /\ request \in Requests(dag) /\ left = {}
      /\ NeededInv(required) /\ MissingInputs(required) = {}
      /\ pc' = "plan"
  BY DEF GroupingInv, GroupRemaining
<1>2. NeededInv(required)' /\ (MissingInputs(required) = {})'
  BY <1>1 DEF NeededInv, NextNodes, Overridden, Deps, IsInput, Role, Requires, MissingInputs, DependedOnBy
<1>3. ASSUME Supported PROVE Lists(groups, AllGroups)'
  <2>1. Setting /\ Collectors \ left = Collectors
    BY <1>1 DEF Setting
  <2>2. Lists(groups, GroupsFor(Collectors)) /\ visited = CoveredBy(Collectors)
    BY <1>1, <1>3, <2>1 DEF GroupingInv
  <2>3. groups' = groups \o SetToSeq(Singles)
    BY <2>2 DEF GroupRemaining, Singles, SingleGroup
  <2>4. IsFiniteSet(Singles)
    <3> DEFINE T == required \ CoveredBy(Collectors)
    <3>1. IsFiniteSet(T)
      BY <1>1, GroupingAssumption, FS_Subset DEF NeededInv
    <3> DEFINE f == [n \in T |-> SingleGroup(n)]
    <3>2. f \in Surjection(T, Singles)
      BY DEF Surjection, Singles
    <3> QED
      BY <3>1, <3>2, FS_Surjection
  <2>5. GroupsFor(Collectors) \cap Singles = {}
    BY GroupFields DEF GroupsFor, Singles
  <2>6. Lists(groups', AllGroups)
    BY <2>2, <2>3, <2>4, <2>5, ListsBoth, ListsSet DEF AllGroups
  <2>7. AllGroups' = AllGroups
    BY <1>1, SameGroups
  <2> QED
    BY <2>6, <2>7 DEF Lists
<1>4. Supported' <=> Supported
  BY <1>1, SameSupported
<1> QED
  BY <1>1, <1>2, <1>3, <1>4 DEF GroupingInv

(* A node that is not overridden is in the node_to_task_map with its group. *)
LEMMA TaskOfIs ==
    ASSUME Setting, Supported, Lists(groups, AllGroups), NEW n \in Nodes, ~Overridden(n)
    PROVE  /\ GroupsOf(n) # {} <=> \E h \in AllGroups : n \in h.nodes
           /\ \A h \in AllGroups : n \in h.nodes => TaskOf(n) = h.id
<1>1. \A i \in DOMAIN groups : groups[i] \in AllGroups
  BY DEF Lists
<1>2. GroupsOf(n) # {} <=> \E h \in AllGroups : n \in h.nodes
  BY <1>1 DEF GroupsOf, Lists
<1>3. ASSUME NEW h \in AllGroups, n \in h.nodes PROVE TaskOf(n) = h.id
  <2>1. PICK i \in DOMAIN groups : groups[i] = h
    BY DEF Lists
  <2>2. \A j \in GroupsOf(n) : j = i
    BY <1>1, <1>3, <2>1, GroupsDiffer DEF GroupsOf, Lists
  <2>3. GroupsOf(n) = {i} /\ i <= i
    BY <1>3, <2>1, <2>2 DEF GroupsOf, Lists
  <2>4. (CHOOSE k \in GroupsOf(n) : \A j \in GroupsOf(n) : j <= k) = i
    BY <2>3
  <2> QED
    BY <2>1, <2>4 DEF TaskOf
<1> QED
  BY <1>2, <1>3

(* What is read and needed has a group. *)
LEMMA ReadIsNeeded ==
    ASSUME Setting, NEW n \in required, ~Overridden(n), NEW d \in Deps(n), Requires(n, d)
    PROVE  d \in required
<1>1. d \in NextNodes(n)
  BY DEF NextNodes
<1> QED
  BY <1>1 DEF Setting, NeededInv

LEMMA CrossingReads ==
    ASSUME dag \in Dags, NEW g, g.nodes \subseteq Nodes
    PROVE  \A n, d : <<n, d>> \in Crossing(g) <=> Reads(g, n, d)
  BY GraphFacts DEF Crossing, Reads, Overridden

LEMMA CreateTaskPlanKeeps ==
    ASSUME GroupingInv, CreateTaskPlan
    PROVE  GroupingInv'
<1>1. /\ pc = "plan" /\ dag' = dag /\ request' = request /\ required' = required /\ groups' = groups
      /\ dag \in Dags /\ request \in Requests(dag)
      /\ NeededInv(required) /\ MissingInputs(required) = {}
      /\ pc' \in {"planned", "raised"}
  BY DEF GroupingInv, CreateTaskPlan
<1>2. NeededInv(required)' /\ (MissingInputs(required) = {})'
  BY <1>1 DEF NeededInv, NextNodes, Overridden, Deps, IsInput, Role, Requires, MissingInputs, DependedOnBy
<1>3. ASSUME Supported PROVE pc' = "planned" /\ Lists(groups, AllGroups)' /\ TasksAre'
  <2>1. Setting /\ Lists(groups, AllGroups) /\ dag \in Dags
    BY <1>1, <1>3 DEF Setting, GroupingInv
  <2>2. \A i \in DOMAIN groups : groups[i] \in AllGroups
    BY <2>1 DEF Lists
  <2>3. \A g \in AllGroups : g.nodes \subseteq required /\ g.nodes \subseteq Nodes
    BY <1>3, <2>1, GroupsCover DEF Setting, NeededInv
  <2>4. ASSUME NEW g \in AllGroups PROVE ~InBadState(g)
    <3> SUFFICES ASSUME NEW e \in Crossing(g), GroupsOf(e[2]) = {}, Requires(e[1], e[2]) PROVE FALSE
      BY DEF InBadState
    <3>1. PICK n \in g.nodes, d \in Nodes : e = <<n, d>> /\ d \in Deps(n) /\ ~Overridden(n) /\ ~Overridden(d)
      BY DEF Crossing, Overridden
    <3>2. d \in required
      BY <2>1, <2>3, <3>1, ReadIsNeeded
    <3>3. \E h \in AllGroups : d \in h.nodes
      BY <1>3, <2>1, <3>2, GroupsCover
    <3> QED
      BY <1>3, <2>1, <3>1, <3>3, TaskOfIs
  <2>5. pc' = "planned" /\ tasks' = [i \in DOMAIN groups |-> TaskSpec(groups[i])]
    BY <2>2, <2>4 DEF CreateTaskPlan
  <2>6. ASSUME NEW g \in AllGroups PROVE TaskSpec(g).deps = WaitsFor(g)
    <3>1. TaskSpec(g).deps = {TaskOf(e[2]) : e \in {x \in Crossing(g) : GroupsOf(x[2]) # {}}}
      BY DEF TaskSpec
    <3>2. ASSUME NEW e \in Crossing(g), GroupsOf(e[2]) # {} PROVE TaskOf(e[2]) \in WaitsFor(g)
      <4>1. PICK n \in g.nodes, d \in Nodes : e = <<n, d>> /\ Reads(g, n, d)
        BY DEF Crossing, Reads, Overridden
      <4>2. PICK h \in AllGroups : d \in h.nodes
        BY <1>3, <2>1, <3>2, <4>1, TaskOfIs DEF Reads
      <4>3. TaskOf(d) = h.id
        BY <1>3, <2>1, <4>1, <4>2, TaskOfIs DEF Reads
      <4> QED
        BY <4>1, <4>2, <4>3 DEF WaitsFor
    <3>3. ASSUME NEW h \in AllGroups, NEW d \in h.nodes, NEW n \in g.nodes, Reads(g, n, d)
          PROVE  h.id \in {TaskOf(e[2]) : e \in {x \in Crossing(g) : GroupsOf(x[2]) # {}}}
      <4>1. <<n, d>> \in Crossing(g) /\ d \in Nodes /\ ~Overridden(d)
        BY <2>1, <2>3, <3>3, CrossingReads DEF Reads
      <4>2. TaskOf(d) = h.id /\ GroupsOf(d) # {}
        BY <1>3, <2>1, <4>1, TaskOfIs
      <4> QED
        BY <4>1, <4>2
    <3> QED
      BY <3>1, <3>2, <3>3 DEF WaitsFor
  <2>7. AllGroups' = AllGroups
    BY <1>1, SameGroups
  <2>8. TasksAre'
    <3>1. \A g : WaitsFor(g)' = WaitsFor(g)
      BY <1>1, <2>7 DEF WaitsFor, Reads, Deps, Overridden
    <3>2. \A g : OutputsToCompute(g)' = OutputsToCompute(g)
      BY <1>1 DEF OutputsToCompute, DependedOnBy, Deps, Overridden
    <3>3. \A i \in DOMAIN groups : /\ TaskSpec(groups[i]).group = groups[i]
                                   /\ TaskSpec(groups[i]).outputs = OutputsToCompute(groups[i])
                                   /\ TaskSpec(groups[i]).deps = WaitsFor(groups[i])
      BY <2>2, <2>6 DEF TaskSpec
    <3> QED
      BY <1>1, <2>5, <3>1, <3>2, <3>3 DEF TasksAre
  <2>9. Lists(groups, AllGroups)'
    BY <1>1, <2>1, <2>7 DEF Lists
  <2> QED
    BY <2>5, <2>8, <2>9
<1>4. Supported' <=> Supported
  BY <1>1, SameSupported
<1> QED
  BY <1>1, <1>2, <1>3, <1>4 DEF GroupingInv

LEMMA GroupingStep == GroupingInv /\ [GNext]_vars => GroupingInv'
<1> SUFFICES ASSUME GroupingInv, [GNext]_vars PROVE GroupingInv'
  OBVIOUS
<1>1. CASE Upstream
  BY <1>1, UpstreamKeeps
<1>2. ASSUME NEW c \in Nodes, GroupBlock(c) PROVE GroupingInv'
  BY <1>2, GroupBlockKeeps
<1>3. CASE GroupRemaining
  BY <1>3, GroupRemainingKeeps
<1>4. CASE CreateTaskPlan
  BY <1>4, CreateTaskPlanKeeps
<1>5. CASE UNCHANGED vars
  <2>1. dag' = dag /\ request' = request /\ required' = required /\ pc' = pc /\ left' = left
        /\ visited' = visited /\ groups' = groups /\ tasks' = tasks
    BY <1>5 DEF vars
  <2>2. Supported' <=> Supported
    BY <2>1, SameSupported
  <2>3. /\ Collectors' = Collectors /\ AllGroups' = AllGroups
        /\ (GroupsFor(Collectors \ left))' = GroupsFor(Collectors \ left)
        /\ (CoveredBy(Collectors \ left))' = CoveredBy(Collectors \ left)
    <3>1. Collectors' = Collectors /\ AllGroups' = AllGroups
          /\ \A c : ExpanderOf(c)' = ExpanderOf(c) /\ BlockOf(c)' = BlockOf(c)
      BY <2>1, SameGroups
    <3> QED
      BY <2>1, <3>1 DEF GroupsFor, CoveredBy, ExpandGroup, BlockGroup, GatherGroup, NodeGroup
  <2>4. NeededInv(required)' <=> NeededInv(required)
    BY <2>1 DEF NeededInv, NextNodes, Overridden, Deps, IsInput, Role, Requires
  <2>5. MissingInputs(required)' = MissingInputs(required)
    BY <2>1 DEF MissingInputs, IsInput, Role, DependedOnBy, Deps, Requires
  <2>6. TasksAre' <=> TasksAre
    <3>1. \A g : WaitsFor(g)' = WaitsFor(g)
      BY <2>1, <2>3 DEF WaitsFor, Reads, Deps, Overridden
    <3>2. \A g : OutputsToCompute(g)' = OutputsToCompute(g)
      BY <2>1 DEF OutputsToCompute, DependedOnBy, Deps, Overridden
    <3> QED
      BY <2>1, <3>1, <3>2 DEF TasksAre
  <2> QED
    <3>1. /\ (dag \in Dags)' /\ (request \in Requests(dag))'
          /\ (pc = "upstream" => groups = <<>> /\ visited = {})'
          /\ (pc \in {"blocks", "plan", "planned", "raised"} =>
                 NeededInv(required) /\ MissingInputs(required) = {})'
      BY <2>1, <2>4, <2>5 DEF GroupingInv
    <3>2. (pc = "blocks" /\ Supported =>
             /\ left \subseteq Collectors
             /\ Lists(groups, GroupsFor(Collectors \ left))
             /\ visited = CoveredBy(Collectors \ left))'
      BY <2>1, <2>2, <2>3 DEF GroupingInv, Lists
    <3>3. (pc \in {"plan", "planned"} /\ Supported => Lists(groups, AllGroups))'
      BY <2>1, <2>2, <2>3 DEF GroupingInv, Lists
    <3>4. /\ (pc = "planned" /\ Supported => TasksAre)'
          /\ (pc = "raised" => ~Supported)'
          /\ (pc \in {"upstream", "blocks", "plan", "planned", "rejected", "raised"})'
      BY <2>1, <2>2, <2>6 DEF GroupingInv
    <3> QED
      BY <3>1, <3>2, <3>3, <3>4 DEF GroupingInv
<1> QED
  BY <1>1, <1>2, <1>3, <1>4, <1>5 DEF GNext

(* Whatever has been grouped so far is listed once, and visited has its    *)
(* nodes: the invariant of the loops of group_nodes.                       *)
THEOREM GroupingInvariant == GSpec => []GroupingInv
<1> QED
  BY GroupingInit, GroupingStep, PTL DEF GSpec

-----------------------------------------------------------------------------
(* Types                                                                    *)

(* The search from a node has the type of a search. *)
LEMMA NodesBetweenType ==
    ASSUME dag \in Dags, NEW c \in Nodes
    PROVE  NodesBetween(c) \in Search
<1> DEFINE a == LoopOf(dag, DfsTraverse, c, NothingFound)
<1>1. \A d \in Deps(c) : DfsTraverse[d] \in [Search -> Search]
  BY DfsFacts, GraphFacts
<1>2. NothingFound \in Search
  BY DEF NothingFound, Search
<1>3. a \in [0 .. Len(dag.deps[c]) -> Search] /\ Len(dag.deps[c]) \in Nat
  BY <1>1, <1>2, LoopFacts, GraphFacts
<1>4. NodesBetween(c) = a[Len(dag.deps[c])]
  BY LoopIsAt DEF NodesBetween
<1> HIDE DEF a
<1> QED
  BY <1>3, <1>4

(* The types need the graph to be one of those considered. *)
GroupingTypes == GTypeOK /\ dag \in Dags /\ request \in Requests(dag)

LEMMA BlockTypes ==
    ASSUME GroupingTypes, NEW c \in Nodes, GroupBlock(c)
    PROVE  GroupingTypes'
<1> DEFINE s == NodesBetween(c)
<1>1. s \in Search
  BY NodesBetweenType DEF GroupingTypes
<1>2. /\ dag' = dag /\ request' = request /\ required' = required /\ tasks' = tasks
      /\ c \in left /\ left' \subseteq left /\ pc' \in {"blocks", "raised"}
  BY DEF GroupBlock, GroupingTypes
<1>3. ASSUME s.found \in Nodes
      PROVE  /\ BlockGroups(s.found, s.out) \in Seq(GroupType)
             /\ CollectGroup(c, s.found) \in Seq(GroupType)
  <2>1. s.out \subseteq Nodes
    BY <1>1 DEF Search
  <2> HIDE DEF s
  <2>2. /\ <<"expand", s.found>> \in Ids /\ <<"block", s.found>> \in Ids /\ <<"collect", s.found>> \in Ids
    BY <1>3 DEF Ids
  <2>3. /\ NodeGroup(<<"expand", s.found>>, None, {s.found}, "expand_unordered") \in GroupType
        /\ NodeGroup(<<"block", s.found>>, <<"expand", s.found>>, s.out, "execute_block") \in GroupType
        /\ NodeGroup(<<"collect", s.found>>, <<"expand", s.found>>, {c}, "gather") \in GroupType
    BY <1>3, <2>1, <2>2 DEF NodeGroup, GroupType
  <2> QED
    BY <2>3 DEF BlockGroups, CollectGroup
<1>4. visited' \subseteq Nodes /\ groups' \in Seq(GroupType)
  <2>1. visited \subseteq Nodes /\ groups \in Seq(GroupType) /\ s.out \subseteq Nodes /\ required \subseteq Nodes
    BY <1>1 DEF GroupingTypes, GTypeOK, Search
  <2>2. CASE s.found = None /\ visited' = visited /\ groups' = groups
    BY <2>1, <2>2
  <2>3. CASE /\ s.found \in required
             /\ groups' = groups \o BlockGroups(s.found, s.out) \o CollectGroup(c, s.found)
             /\ visited' = visited \cup s.out \cup {s.found, c}
    <3>1. s.found \in Nodes
      BY <2>1, <2>3
    <3>2. BlockGroups(s.found, s.out) \in Seq(GroupType) /\ CollectGroup(c, s.found) \in Seq(GroupType)
      BY <1>3, <3>1
    <3> HIDE DEF s
    <3>3. groups \o BlockGroups(s.found, s.out) \in Seq(GroupType)
      BY <2>1, <3>2
    <3>4. groups' \in Seq(GroupType)
      BY <2>3, <3>2, <3>3
    <3> QED
      BY <2>1, <2>3, <3>1, <3>4
  <2>4. CASE /\ s.found \in Nodes \ required
             /\ groups' = groups \o CollectGroup(c, s.found)
             /\ visited' = visited \cup {c}
    <3>1. CollectGroup(c, s.found) \in Seq(GroupType)
      BY <1>3, <2>4
    <3> HIDE DEF s
    <3>2. groups' \in Seq(GroupType)
      BY <2>1, <2>4, <3>1
    <3> QED
      BY <2>1, <2>4, <3>2
  <2> QED
    BY <2>2, <2>3, <2>4 DEF GroupBlock
<1> QED
  BY <1>2, <1>4 DEF GroupingTypes, GTypeOK

LEMMA RemainingTypes ==
    ASSUME GroupingTypes, GroupRemaining
    PROVE  GroupingTypes'
<1> DEFINE G == {NodeGroup(<<"node", n>>, None, {n}, "execute_single") : n \in required \ visited}
<1>1. IsFiniteSet(G)
  <2> DEFINE T == required \ visited
  <2> DEFINE f == [n \in T |-> NodeGroup(<<"node", n>>, None, {n}, "execute_single")]
  <2>1. IsFiniteSet(T)
    BY GroupingAssumption, FS_Subset DEF GroupingTypes, GTypeOK
  <2>2. f \in Surjection(T, G)
    BY DEF Surjection
  <2> QED
    BY <2>1, <2>2, FS_Surjection
<1>2. G \subseteq GroupType
  BY DEF GroupingTypes, GTypeOK, NodeGroup, GroupType, Ids
<1>3. groups' = groups \o SetToSeq(G)
  BY DEF GroupRemaining
<1> HIDE DEF G
<1>4. SetToSeq(G) \in Seq(GroupType)
  BY <1>1, <1>2, ListsSet DEF Lists
<1>5. groups' \in Seq(GroupType)
  BY <1>3, <1>4 DEF GroupingTypes, GTypeOK
<1> QED
  BY <1>5 DEF GroupRemaining, GroupingTypes, GTypeOK

LEMMA PlanTypes ==
    ASSUME GroupingTypes, CreateTaskPlan
    PROVE  GroupingTypes'
<1>1. /\ dag' = dag /\ request' = request /\ required' = required /\ left' = left
      /\ visited' = visited /\ groups' = groups /\ pc' \in {"planned", "raised"}
  BY DEF CreateTaskPlan
<1>2. \A n \in Nodes : GroupsOf(n) # {} => TaskOf(n) \in Ids
  <2> SUFFICES ASSUME NEW n \in Nodes, GroupsOf(n) # {} PROVE TaskOf(n) \in Ids
    OBVIOUS
  <2>1. GroupsOf(n) \subseteq 1 .. Len(groups) /\ Len(groups) \in Nat
    BY DEF GroupsOf, GroupingTypes, GTypeOK
  <2>2. \E i \in GroupsOf(n) : \A j \in GroupsOf(n) : j <= i
    <3> DEFINE S == {Len(groups) - i : i \in GroupsOf(n)}
    <3>1. S \subseteq Nat /\ S # {}
      BY <2>1
    <3>2. PICK k \in S : \A m \in S : k <= m
      BY <3>1, LeastNumber
    <3>3. PICK i \in GroupsOf(n) : k = Len(groups) - i
      BY <3>2
    <3>4. \A j \in GroupsOf(n) : k <= Len(groups) - j /\ j \in Nat
      BY <2>1, <3>2
    <3>5. \A j \in GroupsOf(n) : j <= i
      BY <2>1, <3>3, <3>4
    <3> QED
      BY <3>3, <3>5
  <2>3. (CHOOSE i \in GroupsOf(n) : \A j \in GroupsOf(n) : j <= i) \in DOMAIN groups
    BY <2>2 DEF GroupsOf
  <2>4. \A i \in DOMAIN groups : groups[i].id \in Ids
    <3>1. \A i \in DOMAIN groups : groups[i] \in GroupType
      BY DEF GroupingTypes, GTypeOK
    <3> QED
      BY <3>1 DEF GroupType
  <2> QED
    BY <2>3, <2>4 DEF TaskOf
<1>3. ASSUME NEW g \in GroupType PROVE TaskSpec(g) \in TaskType
  <2>1. OutputsToCompute(g) \subseteq Nodes
    BY DEF OutputsToCompute, GroupType
  <2>2. {TaskOf(e[2]) : e \in {x \in Crossing(g) : GroupsOf(x[2]) # {}}} \subseteq Ids
    BY <1>2 DEF Crossing
  <2> QED
    BY <2>1, <2>2 DEF TaskSpec, TaskType
<1>4. tasks' \in Seq(TaskType)
  <2>1. CASE UNCHANGED tasks
    BY <2>1 DEF GroupingTypes, GTypeOK
  <2>2. CASE tasks' = [i \in DOMAIN groups |-> TaskSpec(groups[i])]
    <3>1. DOMAIN groups = 1 .. Len(groups) /\ Len(groups) \in Nat
          /\ \A i \in 1 .. Len(groups) : groups[i] \in GroupType
      BY DEF GroupingTypes, GTypeOK
    <3>2. tasks' \in [1 .. Len(groups) -> TaskType]
      BY <1>3, <2>2, <3>1
    <3> QED
      BY <3>1, <3>2
  <2> QED
    BY <2>1, <2>2 DEF CreateTaskPlan
<1> QED
  BY <1>1, <1>4 DEF GroupingTypes, GTypeOK

(* The types of the variables, for every graph and request. *)
THEOREM GroupingTypeCorrect == GSpec => []GTypeOK
<1>1. GInit => GroupingTypes
  BY GroupingAssumption DEF GInit, GroupingTypes, GTypeOK
<1>2. GroupingTypes /\ [GNext]_vars => GroupingTypes'
  <2> SUFFICES ASSUME GroupingTypes, [GNext]_vars PROVE GroupingTypes'
    OBVIOUS
  <2>1. CASE Upstream
    <3>1. UpstreamNodes \subseteq Nodes
      BY UpstreamIsNeeded DEF GroupingTypes, NeededInv
    <3> QED
      BY <2>1, <3>1 DEF Upstream, GroupingTypes, GTypeOK
  <2>2. ASSUME NEW c \in Nodes, GroupBlock(c) PROVE GroupingTypes'
    BY <2>2, BlockTypes
  <2>3. CASE GroupRemaining
    BY <2>3, RemainingTypes
  <2>4. CASE CreateTaskPlan
    BY <2>4, PlanTypes
  <2>5. CASE UNCHANGED vars
    BY <2>5 DEF vars, GroupingTypes, GTypeOK
  <2> QED
    BY <2>1, <2>2, <2>3, <2>4, <2>5 DEF GNext
<1>3. GroupingTypes => GTypeOK
  BY DEF GroupingTypes
<1> QED
  BY <1>1, <1>2, <1>3, PTL DEF GSpec

-----------------------------------------------------------------------------
(* Theorems                                                                *)

(* What is supported is planned. *)
THEOREM SupportedArePlanned == GSpec => []SupportedIsPlanned
<1>1. GroupingInv => SupportedIsPlanned
  BY DEF GroupingInv, SupportedIsPlanned
<1> QED
  BY <1>1, GroupingInvariant, PTL

(* The tasks of a plan are the groups, each under an id of its own. *)
LEMMA PlanFacts ==
    ASSUME GroupingInv, pc = "planned", Supported
    PROVE  /\ Setting /\ MissingInputs(required) = {}
           /\ Lists(groups, AllGroups) /\ TasksAre
           /\ Groups = AllGroups
           /\ TaskBases = {g.id : g \in AllGroups}
           /\ \A g \in AllGroups : /\ Spec(g.id).group = g
                                   /\ Spec(g.id).outputs = OutputsToCompute(g)
                                   /\ Spec(g.id).deps = WaitsFor(g)
<1>1. /\ Setting /\ MissingInputs(required) = {}
      /\ Lists(groups, AllGroups) /\ TasksAre
  BY DEF GroupingInv, Setting
<1>2. \A i \in DOMAIN groups : groups[i] \in AllGroups
  BY <1>1 DEF Lists
<1>3. Groups = AllGroups
  <2>1. Groups = {groups[i] : i \in DOMAIN groups}
    BY <1>1 DEF Groups, TasksAre
  <2> QED
    BY <1>1, <1>2, <2>1 DEF Lists
<1>4. TaskBases = {g.id : g \in AllGroups}
  BY <1>3 DEF TaskBases
<1>5. ASSUME NEW g \in AllGroups
      PROVE  Spec(g.id).group = g /\ Spec(g.id).outputs = OutputsToCompute(g)
             /\ Spec(g.id).deps = WaitsFor(g)
  <2>1. PICK i \in DOMAIN groups : groups[i] = g
    BY <1>1 DEF Lists
  <2>2. i \in DOMAIN tasks /\ tasks[i].group.id = g.id
    BY <1>1, <2>1 DEF TasksAre
  <2>3. ASSUME NEW j \in DOMAIN tasks, tasks[j].group.id = g.id PROVE j = i
    <3>1. j \in DOMAIN groups /\ groups[j].id = g.id
      BY <1>1, <2>3 DEF TasksAre
    <3>2. groups[j] = g
      BY <1>1, <1>2, <3>1, GroupsDiffer
    <3> QED
      BY <1>1, <2>1, <3>1, <3>2 DEF Lists
  <2>4. (CHOOSE j \in DOMAIN tasks : tasks[j].group.id = g.id) = i
    BY <2>2, <2>3
  <2> QED
    BY <1>1, <2>1, <2>4 DEF Spec, TasksAre
<1> QED
  BY <1>1, <1>3, <1>4, <1>5

(* One node to a group, and the groups have ids of their own. *)
THEOREM NodesAreInOneGroup == GSpec => []NodesInOneGroup
<1>1. GroupingInv => NodesInOneGroup
  <2> SUFFICES ASSUME GroupingInv, pc = "planned", Supported PROVE OneNodeToGroup
    BY DEF NodesInOneGroup
  <2>1. /\ Setting /\ Lists(groups, AllGroups) /\ TasksAre /\ Groups = AllGroups
    BY PlanFacts
  <2>2. ASSUME NEW i \in DOMAIN tasks, NEW j \in DOMAIN tasks, i # j
        PROVE  /\ tasks[i].group.id # tasks[j].group.id
               /\ tasks[i].group.nodes \cap tasks[j].group.nodes = {}
    <3>1. /\ tasks[i].group = groups[i] /\ tasks[j].group = groups[j]
          /\ i \in DOMAIN groups /\ j \in DOMAIN groups
      BY <2>1 DEF TasksAre
    <3>2. groups[i] \in AllGroups /\ groups[j] \in AllGroups /\ groups[i] # groups[j]
      BY <2>1, <2>2, <3>1 DEF Lists
    <3>3. groups[i].id # groups[j].id /\ groups[i].nodes \cap groups[j].nodes = {}
      BY <2>1, <3>2, GroupsDiffer
    <3> QED
      BY <3>1, <3>3
  <2>3. UNION {g.nodes : g \in Groups} = required
    BY <2>1, GroupsCover
  <2> QED
    BY <2>2, <2>3 DEF OneNodeToGroup
<1> QED
  BY <1>1, GroupingInvariant, PTL

(* Who reads a node of another group: nodes of a block are read by its     *)
(* Collect node only, which reads the one it collects, and what an         *)
(* expander makes is read in its block only.                               *)
LEMMA ReadersAre ==
    ASSUME Setting, Supported, NEW g \in AllGroups, NEW h \in AllGroups,
           NEW n \in g.nodes, NEW d \in h.nodes, Reads(g, n, d)
    PROVE  /\ g # h /\ d < n
           /\ \A c \in Collectors : h = BlockGroup(c) => g = GatherGroup(c) /\ d = dag.collects[c]
           /\ \A c \in Collectors : h = ExpandGroup(c) => g = BlockGroup(c)
<1>1. g # h /\ d \in Deps(n)
  BY DEF Reads
<1>2. n \in required /\ d \in required /\ n \in Nodes /\ dag \in Dags /\ d \in Nodes
  BY GroupsCover DEF Setting, NeededInv
<1>3. d < n
  BY <1>1, <1>2, GraphFacts
<1>4. ASSUME NEW c \in Collectors, Role(n) # "collect", ExpanderOf(c) \in Inside[d]
      PROVE  g = BlockGroup(c)
  <2>1. Role(n) # "expand"
    BY <1>1, <1>2, <1>4 DEF Supported, NotNested
  <2>2. ExpanderOf(c) \in Inside[n]
    BY <1>1, <1>2, <1>4, <2>1, InsideCases
  <2>3. n \in BlockOf(c)
    BY <1>2, <1>4, <2>1, <2>2, BlockIsWhole, BlockFacts
  <2>4. n \in BlockGroup(c).nodes /\ BlockGroup(c) \in AllGroups
    BY <2>3, GroupFields DEF AllGroups, GroupsFor
  <2> QED
    BY <2>4, GroupsDiffer
<1>5. ASSUME Role(n) = "collect"
      PROVE  n \in Collectors /\ g = GatherGroup(n)
  <2>1. n \in Collectors
    BY <1>2, <1>5 DEF Collectors
  <2>2. n \in GatherGroup(n).nodes /\ GatherGroup(n) \in AllGroups
    BY <2>1, GroupFields DEF AllGroups, GroupsFor
  <2> QED
    BY <2>1, <2>2, GroupsDiffer
<1>6. ASSUME NEW c \in Collectors, h = BlockGroup(c)
      PROVE  g = GatherGroup(c) /\ d = dag.collects[c]
  <2>1. d \in BlockOf(c) /\ Inside[d] = {ExpanderOf(c)}
    BY <1>6, GroupFields, BlockFacts
  <2>2. Role(n) = "collect"
    BY <1>1, <1>4, <1>6, <2>1
  <2>3. d = dag.collects[n]
    BY <1>1, <1>5, <2>1, <2>2, BlockFacts
  <2>4. ExpanderOf(n) = ExpanderOf(c)
    BY <1>5, <2>1, <2>2, <2>3, BlockFacts
  <2>5. n = c
    BY <1>5, <2>2, <2>4, BlocksDisjoint
  <2> QED
    BY <1>5, <2>2, <2>3, <2>5
<1>7. ASSUME NEW c \in Collectors, h = ExpandGroup(c) PROVE g = BlockGroup(c)
  <2>1. d = ExpanderOf(c) /\ Role(d) = "expand"
    BY <1>7, GroupFields, BlockFacts
  <2>2. Inside[d] = {ExpanderOf(c)}
    BY <1>2, <2>1, InsideCases
  <2>3. Role(n) # "collect"
    <3> SUFFICES ASSUME Role(n) = "collect" PROVE FALSE
      OBVIOUS
    <3>1. d = dag.collects[n]
      BY <1>1, <1>5, <2>2, BlockFacts
    <3> QED
      BY <1>5, <2>1, <3>1, BlockFacts
  <2> QED
    BY <1>4, <2>2, <2>3
<1> QED
  BY <1>1, <1>3, <1>6, <1>7

(* The plan as Plans sees it, one group after the other. *)
LEMMA CollectsFrom ==
    ASSUME GroupingInv, pc = "planned", Supported
    PROVE  /\ \A c \in Collectors : CollectFromOf(GatherGroup(c).id) = BlockGroup(c).id
           /\ \A g \in AllGroups : g.purpose # "gather" => CollectFromOf(g.id) = None
<1>0. /\ Setting /\ TaskBases = {g.id : g \in AllGroups}
      /\ \A g \in AllGroups : Spec(g.id).group = g
  BY PlanFacts
<1>1. ASSUME NEW c \in Collectors PROVE CollectFromOf(GatherGroup(c).id) = BlockGroup(c).id
  <2> DEFINE b == GatherGroup(c).id
  <2>1. GatherGroup(c) \in AllGroups /\ BlockGroup(c) \in AllGroups
    BY DEF AllGroups, GroupsFor
  <2>2. Spec(b).group = GatherGroup(c)
    BY <1>0, <2>1
  <2>3. (CHOOSE n \in Spec(b).group.nodes : TRUE) = c
    BY <2>2, GroupFields
  <2> DEFINE from == {d \in TaskBases : dag.collects[c] \in Spec(d).group.nodes}
  <2>4. from = {BlockGroup(c).id}
    <3>1. dag.collects[c] \in BlockGroup(c).nodes
      BY <1>0, BlockFacts, GroupFields
    <3>2. \A g \in AllGroups : dag.collects[c] \in g.nodes => g = BlockGroup(c)
      BY <1>0, <2>1, <3>1, GroupsDiffer
    <3> QED
      BY <1>0, <2>1, <3>1, <3>2
  <2>5. Spec(b).group.purpose = "gather"
    BY <2>2, GroupFields
  <2> HIDE DEF b
  <2>6. CollectFromOf(b) = CHOOSE d \in from : TRUE
    BY <2>3, <2>4, <2>5 DEF CollectFromOf
  <2> QED
    BY <2>4, <2>6 DEF b
<1>2. ASSUME NEW g \in AllGroups, g.purpose # "gather" PROVE CollectFromOf(g.id) = None
  BY <1>0, <1>2 DEF CollectFromOf
<1> QED
  BY <1>1, <1>2

LEMMA GroupTypes ==
    ASSUME Setting, Supported, NEW g \in AllGroups
    PROVE  /\ g.id # None
           /\ g.purpose \in {"expand_unordered", "execute_block", "execute_single", "gather"}
           /\ g.spawner = None \/ \E h \in AllGroups : g.spawner = h.id
           /\ g.nodes # {} /\ g.nodes \subseteq required
<1>0. \A n \in Nodes : /\ <<"expand", n>> # None /\ <<"block", n>> # None
                       /\ <<"collect", n>> # None /\ <<"node", n>> # None
  <2>1. \A n \in Nodes : /\ <<"expand", n>> \in Ids /\ <<"block", n>> \in Ids
                         /\ <<"collect", n>> \in Ids /\ <<"node", n>> \in Ids
    BY DEF Ids
  <2>2. None \notin Ids
    BY GroupingAssumption
  <2> QED
    BY <2>1, <2>2, Zenon
<1>1. CASE \E c \in Collectors : g \in {ExpandGroup(c), BlockGroup(c), GatherGroup(c)}
  <2>1. PICK c \in Collectors : g \in {ExpandGroup(c), BlockGroup(c), GatherGroup(c)}
    BY <1>1
  <2>2. ExpanderOf(c) \in Nodes /\ ExpandGroup(c) \in AllGroups
    BY BlockFacts DEF AllGroups, GroupsFor, Setting, NeededInv
  <2>3. g.id \in {<<"expand", ExpanderOf(c)>>, <<"block", ExpanderOf(c)>>, <<"collect", ExpanderOf(c)>>}
    BY <2>1, GroupFields
  <2>4. g.id # None
    BY <1>0, <2>2, <2>3
  <2>5. g.nodes # {}
    <3>1. g.nodes \in {{ExpanderOf(c)}, BlockOf(c), {c}}
      BY <2>1, GroupFields
    <3>2. dag.collects[c] \in BlockOf(c)
      BY BlockFacts
    <3> QED
      BY <3>1, <3>2
  <2>6. g.spawner = None \/ g.spawner = ExpandGroup(c).id
    BY <2>1, GroupFields
  <2>7. g.purpose \in {"expand_unordered", "execute_block", "execute_single", "gather"}
    BY <2>1, GroupFields
  <2> QED
    BY <2>2, <2>4, <2>5, <2>6, <2>7, GroupsCover
<1>2. CASE \E n \in required \ CoveredBy(Collectors) : g = SingleGroup(n)
  <2>1. PICK n \in required : g = SingleGroup(n)
    BY <1>2
  <2>2. g.id # None
    BY <1>0, <2>1, GroupFields DEF Setting, NeededInv
  <2>3. g.spawner = None /\ g.nodes = {n} /\ g.purpose = "execute_single"
    BY <2>1, GroupFields
  <2> QED
    BY <2>1, <2>2, <2>3
<1> QED
  BY <1>1, <1>2, GroupsAre

(* A Collect node waits for its block, and a block for its expander. *)
LEMMA BlockWaits ==
    ASSUME Setting, Supported, NEW c \in Collectors
    PROVE  /\ BlockGroup(c).id \in WaitsFor(GatherGroup(c))
           /\ ExpandGroup(c).id \in WaitsFor(BlockGroup(c))
<1>1. ExpandGroup(c) \in AllGroups /\ BlockGroup(c) \in AllGroups
  BY DEF AllGroups, GroupsFor
<1>2. Reads(GatherGroup(c), c, dag.collects[c]) /\ dag.collects[c] \in BlockGroup(c).nodes
  <2>1. /\ dag.collects[c] \in Deps(c) /\ ~Overridden(c) /\ ~Overridden(dag.collects[c])
        /\ dag.collects[c] \in BlockOf(c)
    BY BlockFacts
  <2>2. dag.collects[c] # c
    BY <2>1, BlocksDisjoint
  <2> QED
    BY <2>1, <2>2, GroupFields DEF Reads
<1>3. PICK m \in BlockOf(c) : ExpanderOf(c) \in Deps(m)
  BY BlockFacts
<1>4. Reads(BlockGroup(c), m, ExpanderOf(c))
  BY <1>3, BlockFacts, BlocksDisjoint, GroupFields DEF Reads
<1>5. BlockGroup(c).id \in WaitsFor(GatherGroup(c))
  BY <1>1, <1>2, GroupFields DEF WaitsFor
<1>6. ExpandGroup(c).id \in WaitsFor(BlockGroup(c))
  BY <1>1, <1>3, <1>4, GroupFields DEF WaitsFor
<1> QED
  BY <1>5, <1>6

(* The greatest node of a group: whatever the group waits for, or is       *)
(* spawned by, has a lower one.                                            *)
IsTop(g, r) == r \in g.nodes /\ \A m \in g.nodes : m <= r

LEMMA TopsDescend ==
    ASSUME Setting, Supported, NEW g \in AllGroups, NEW h \in AllGroups,
           h.id \in WaitsFor(g) \/ h.id = g.spawner,
           NEW r, IsTop(g, r), NEW q, IsTop(h, q)
    PROVE  q < r
<1>0. /\ r \in Nat /\ q \in Nat /\ r \in g.nodes /\ q \in h.nodes
      /\ g.nodes \subseteq Nat /\ h.nodes \subseteq Nat
  BY GroupTypes, GroupingAssumption DEF IsTop, Setting, NeededInv
<1>1. CASE h.id \in WaitsFor(g)
  <2>1. PICK k \in AllGroups : k.id = h.id /\ \E d \in k.nodes : \E n \in g.nodes : Reads(g, n, d)
    BY <1>1 DEF WaitsFor
  <2>2. k = h
    BY <2>1, GroupsDiffer
  <2>3. PICK d \in h.nodes, n \in g.nodes : Reads(g, n, d)
    BY <2>1, <2>2
  <2>4. d < n /\ n <= r
    BY <2>3, ReadersAre DEF IsTop
  <2>5. q <= d
    <3>1. CASE \E c \in Collectors : h = BlockGroup(c)
      <4>1. PICK c \in Collectors : h = BlockGroup(c)
        BY <3>1
      <4>2. d = dag.collects[c]
        BY <2>3, <4>1, ReadersAre
      <4> QED
        BY <1>0, <4>1, <4>2, BlockFacts, GroupFields
    <3>2. CASE \A c \in Collectors : h # BlockGroup(c)
      <4>1. h.nodes = {d}
        BY <2>3, <3>2, GroupsAre, GroupFields
      <4> QED
        BY <1>0, <4>1
    <3> QED
      BY <3>1, <3>2
  <2>6. d \in Nat /\ n \in Nat
    BY <1>0
  <2> QED
    BY <1>0, <2>4, <2>5, <2>6
<1>2. CASE h.id = g.spawner
  <2>0. g.spawner # None
    BY <1>2, GroupTypes
  <2>1. PICK c \in Collectors : g \in {BlockGroup(c), GatherGroup(c)}
    BY <2>0, GroupsAre, GroupFields
  <2>2. ExpandGroup(c) \in AllGroups /\ ExpandGroup(c).id = g.spawner
    BY <2>1, GroupFields DEF AllGroups, GroupsFor
  <2>3. h = ExpandGroup(c)
    BY <1>2, <2>2, GroupsDiffer
  <2>4. q = ExpanderOf(c)
    BY <1>0, <2>3, GroupFields
  <2>5. dag.collects[c] <= r
    <3>1. CASE g = BlockGroup(c)
      BY <3>1, BlockFacts, GroupFields DEF IsTop
    <3>2. CASE g = GatherGroup(c)
      <4>1. r = c /\ dag.collects[c] < c
        BY <1>0, <3>2, BlockFacts, GroupFields
      <4>2. dag.collects[c] \in Nat
        BY BlockFacts, GraphFacts DEF Setting, NeededInv
      <4> QED
        BY <1>0, <4>1, <4>2
    <3> QED
      BY <2>1, <3>1, <3>2
  <2>6. dag.collects[c] \in Nat
    BY BlockFacts, GraphFacts DEF Setting, NeededInv
  <2> QED
    BY <1>0, <2>4, <2>5, <2>6, BlockFacts
<1> QED
  BY <1>1, <1>2

LEMMA PlanIsAcyclic ==
    ASSUME GroupingInv, pc = "planned", Supported
    PROVE  P!Acyclic
<1>0. /\ Setting /\ TaskBases = {g.id : g \in AllGroups}
      /\ \A g \in AllGroups : Spec(g.id).group = g /\ Spec(g.id).deps = WaitsFor(g)
  BY PlanFacts
<1> SUFFICES ASSUME NEW S \in SUBSET TaskBases, S # {}
             PROVE  \E b \in S : P!Prerequisites(b) \cap S = {}
  BY DEF P!Acyclic
<1> DEFINE T == {r \in Nodes : \E g \in AllGroups : g.id \in S /\ IsTop(g, r)}
<1>1. \A g \in AllGroups : \E r \in Nodes : IsTop(g, r)
  <2> SUFFICES ASSUME NEW g \in AllGroups PROVE \E r \in Nodes : IsTop(g, r)
    OBVIOUS
  <2>1. g.nodes # {} /\ g.nodes \subseteq Nodes
    BY <1>0, GroupTypes DEF Setting, NeededInv
  <2> QED
    BY <2>1, GreatestNode DEF IsTop
<1>2. T # {} /\ T \subseteq Nat
  <2>1. PICK b \in S : TRUE
    OBVIOUS
  <2>2. PICK g \in AllGroups : g.id = b
    BY <1>0, <2>1
  <2>3. PICK r \in Nodes : IsTop(g, r)
    BY <1>1
  <2>4. r \in T
    BY <2>1, <2>2, <2>3
  <2>5. T \subseteq Nat
    BY GroupingAssumption
  <2> QED
    BY <2>4, <2>5
<1>3. PICK r \in T : \A q \in T : r <= q
  BY <1>2, LeastNumber
<1>4. PICK g \in AllGroups : g.id \in S /\ IsTop(g, r)
  OBVIOUS
<1>5. P!Prerequisites(g.id) = WaitsFor(g) \cup ({g.spawner} \ {None})
  <2>1. g.id \in TaskBases /\ Spec(g.id).group = g /\ Spec(g.id).deps = WaitsFor(g)
    BY <1>0
  <2> QED
    BY <2>1 DEF P!Prerequisites
<1>6. ASSUME NEW b \in P!Prerequisites(g.id), b \in S PROVE FALSE
  <2>1. PICK h \in AllGroups : h.id = b
    BY <1>0, <1>6
  <2>2. h.id \in WaitsFor(g) \/ h.id = g.spawner
    BY <1>5, <1>6, <2>1
  <2>3. PICK q \in Nodes : IsTop(h, q)
    BY <1>1
  <2>4. q < r /\ q \in T
    BY <1>0, <1>4, <1>6, <2>1, <2>2, <2>3, TopsDescend
  <2>5. q \in Nat /\ r \in Nat
    BY <1>2, <2>4
  <2> QED
    BY <1>3, <2>4, <2>5
<1> QED
  BY <1>4, <1>6

(* create_task_plan makes plans that ExecutionState can see through.       *)
THEOREM PlansMade == GSpec => []PlansAreWellFormed
<1>1. GroupingInv => PlansAreWellFormed
  <2> SUFFICES ASSUME GroupingInv, pc = "planned", Supported PROVE P!ClosedPlan /\ P!WellFormedPlan
    BY DEF PlansAreWellFormed
  <2>0. /\ Setting /\ TaskBases = {g.id : g \in AllGroups}
        /\ \A g \in AllGroups : Spec(g.id).group = g /\ Spec(g.id).deps = WaitsFor(g)
    BY PlanFacts
  <2> DEFINE BaseDeps == [b \in TaskBases |-> Spec(b).deps]
  <2> DEFINE Purpose == [b \in TaskBases |-> Spec(b).group.purpose]
  <2> DEFINE Spawner == [b \in TaskBases |-> Spec(b).group.spawner]
  <2> DEFINE CollectFrom == [b \in TaskBases |-> CollectFromOf(b)]
  <2>1. \A g \in AllGroups : /\ g.id \in TaskBases
                             /\ BaseDeps[g.id] = WaitsFor(g)
                             /\ Purpose[g.id] = g.purpose
                             /\ Spawner[g.id] = g.spawner
                             /\ g.purpose # "gather" => CollectFrom[g.id] = None
    BY <2>0, CollectsFrom
  <2>2. \A c \in Collectors :
           /\ ExpandGroup(c) \in AllGroups /\ BlockGroup(c) \in AllGroups /\ GatherGroup(c) \in AllGroups
           /\ CollectFrom[GatherGroup(c).id] = BlockGroup(c).id
    <3>1. \A c \in Collectors :
           ExpandGroup(c) \in AllGroups /\ BlockGroup(c) \in AllGroups /\ GatherGroup(c) \in AllGroups
      BY DEF AllGroups, GroupsFor
    <3> QED
      BY <2>1, <3>1, CollectsFrom
  <2>3. \A b \in TaskBases : \E g \in AllGroups : b = g.id
    BY <2>0
  <2>4. \A g \in AllGroups : WaitsFor(g) \subseteq TaskBases
    BY <2>0 DEF WaitsFor
  <2>5. \A g \in AllGroups :
           /\ g.purpose = "gather" => \E c \in Collectors : g = GatherGroup(c)
           /\ g.purpose = "expand_unordered" => \E c \in Collectors : g = ExpandGroup(c)
           /\ g.purpose = "execute_block" => \E c \in Collectors : g = BlockGroup(c)
           /\ g.spawner # None => \E c \in Collectors : g \in {BlockGroup(c), GatherGroup(c)}
    BY GroupsAre, GroupFields
  <2> HIDE DEF BaseDeps, Purpose, Spawner, CollectFrom
  <2>6. P!ClosedPlan
    <3>1. None \notin TaskBases
      BY <2>0, GroupTypes
    <3>2. BaseDeps \in [TaskBases -> SUBSET TaskBases]
      <4>1. \A b \in TaskBases : BaseDeps[b] \in SUBSET TaskBases
        BY <2>1, <2>3, <2>4
      <4>2. BaseDeps = [b \in TaskBases |-> BaseDeps[b]]
        BY DEF BaseDeps
      <4> QED
        BY <4>1, <4>2
    <3>3. Purpose \in [TaskBases -> P!Purposes]
      BY <2>0, <2>1, <2>3, GroupTypes DEF Purpose, P!Purposes
    <3>4. Spawner \in [TaskBases -> TaskBases \cup {None}]
      BY <2>0, <2>1, <2>3, GroupTypes DEF Spawner
    <3>5. CollectFrom \in [TaskBases -> TaskBases \cup {None}]
      <4>1. ASSUME NEW b \in TaskBases PROVE CollectFrom[b] \in TaskBases \cup {None}
        <5>1. PICK g \in AllGroups : b = g.id
          BY <2>3
        <5>2. CASE g.purpose = "gather"
          BY <2>1, <2>2, <2>5, <5>1, <5>2
        <5>3. CASE g.purpose # "gather"
          BY <2>1, <5>1, <5>3
        <5> QED
          BY <5>2, <5>3
      <4>2. CollectFrom = [b \in TaskBases |-> CollectFrom[b]]
        BY DEF CollectFrom
      <4> QED
        BY <4>1, <4>2
    <3>6. \A b \in TaskBases : Purpose[b] = "gather" => CollectFrom[b] \in BaseDeps[b]
      BY <2>0, <2>1, <2>2, <2>3, <2>5, BlockWaits
    <3> QED
      BY <3>1, <3>2, <3>3, <3>4, <3>5, <3>6
      DEF P!ClosedPlan, P!IsGatherer, BaseDeps, Purpose, Spawner, CollectFrom
  <2>7. P!SpawnedByExpander
    <3> SUFFICES ASSUME NEW b \in TaskBases, Spawner[b] # None
                 PROVE  /\ Purpose[Spawner[b]] = "expand_unordered"
                        /\ Purpose[b] # "expand_unordered"
                        /\ BaseDeps[b] # {}
                        /\ Purpose[b] = "gather" => Spawner[b] \in {CollectFrom[b], Spawner[CollectFrom[b]]}
      BY DEF P!SpawnedByExpander, P!IsExpander, P!IsGatherer, BaseDeps, Purpose, Spawner, CollectFrom
    <3>1. PICK g \in AllGroups : b = g.id
      BY <2>3
    <3>2. PICK c \in Collectors : g \in {BlockGroup(c), GatherGroup(c)}
      BY <2>1, <2>5, <3>1
    <3>3. Spawner[b] = ExpandGroup(c).id /\ Purpose[b] \in {"execute_block", "gather"}
      BY <2>1, <3>1, <3>2, GroupFields
    <3>4. Purpose[ExpandGroup(c).id] = "expand_unordered"
      BY <2>1, <2>2, GroupFields
    <3>5. BaseDeps[b] # {}
      BY <2>0, <2>1, <3>1, <3>2, BlockWaits
    <3>6. Purpose[b] = "gather" => Spawner[b] = Spawner[CollectFrom[b]]
      <4> SUFFICES ASSUME Purpose[b] = "gather" PROVE Spawner[b] = Spawner[CollectFrom[b]]
        OBVIOUS
      <4>1. g = GatherGroup(c)
        BY <2>1, <3>1, <3>2, GroupFields
      <4>2. CollectFrom[b] = BlockGroup(c).id
        BY <2>2, <3>1, <4>1
      <4>3. Spawner[BlockGroup(c).id] = ExpandGroup(c).id
        BY <2>1, <2>2, GroupFields
      <4> QED
        BY <3>3, <4>2, <4>3
    <3> QED
      BY <3>3, <3>4, <3>5, <3>6
  <2>8. P!BlockReadByItsCollector
    <3> SUFFICES ASSUME NEW b \in TaskBases, NEW d \in BaseDeps[b],
                        Spawner[d] # None, Purpose[d] # "expand_unordered", Purpose[d] # "gather"
                 PROVE  Purpose[b] = "gather" /\ CollectFrom[b] = d /\ Spawner[b] = Spawner[d]
      BY DEF P!BlockReadByItsCollector, P!InBlock, P!IsExpander, P!IsGatherer, BaseDeps, Purpose, Spawner, CollectFrom
    <3>1. PICK g \in AllGroups : b = g.id
      BY <2>3
    <3>2. PICK h \in AllGroups : d = h.id /\ \E x \in h.nodes : \E n \in g.nodes : Reads(g, n, x)
      BY <2>1, <3>1 DEF WaitsFor
    <3>3. PICK c \in Collectors : h = BlockGroup(c)
      BY <2>1, <2>5, <3>2, GroupFields
    <3>4. g = GatherGroup(c)
      BY <2>0, <3>2, <3>3, ReadersAre
    <3> QED
      BY <2>1, <2>2, <3>1, <3>2, <3>3, <3>4, GroupFields
  <2>9. P!ReadsMoreThanExpanders
    <3> SUFFICES ASSUME NEW b \in TaskBases, Spawner[b] = None, NEW d \in BaseDeps[b]
                 PROVE  Purpose[d] # "expand_unordered"
      BY DEF P!ReadsMoreThanExpanders, P!IsExpander, BaseDeps, Purpose, Spawner
    <3>1. PICK g \in AllGroups : b = g.id
      BY <2>3
    <3>2. PICK h \in AllGroups : d = h.id /\ \E x \in h.nodes : \E n \in g.nodes : Reads(g, n, x)
      BY <2>1, <3>1 DEF WaitsFor
    <3>3. ASSUME NEW c \in Collectors, h = ExpandGroup(c) PROVE FALSE
      <4>1. g = BlockGroup(c)
        BY <2>0, <3>2, <3>3, ReadersAre
      <4>2. g.spawner # None
        <5>1. g.spawner = ExpandGroup(c).id
          BY <4>1, GroupFields
        <5> QED
          BY <2>0, <2>2, <5>1, GroupTypes
      <4> QED
        BY <2>1, <3>1, <4>2
    <3> QED
      BY <2>1, <2>5, <3>2, <3>3
  <2> QED
    BY <2>6, <2>7, <2>8, <2>9, PlanIsAcyclic DEF P!WellFormedPlan
<1> QED
  BY <1>1, GroupingInvariant, PTL

(* A request that asks for an input gives it, which validate_inputs does   *)
(* not ask for: it only looks for inputs that some node requires.          *)
InputsAskedAreGiven ==
    \A d \in Dags : \A r \in Requests(d) :
        \A n \in r.outputs : d.role[n] = "input" => n \in r.inputs

(* An input the plan needs is given. *)
LEMMA NeededInputsAreGiven ==
    ASSUME InputsAskedAreGiven, Setting, MissingInputs(required) = {},
           NEW n \in required, IsInput(n),
           n \in request.outputs \/ \E m \in required : n \in NextNodes(m)
    PROVE  n \in request.inputs
<1> SUFFICES ASSUME n \notin request.inputs PROVE FALSE
  OBVIOUS
<1>1. CASE n \in request.outputs
  BY <1>1 DEF InputsAskedAreGiven, Setting, IsInput, Role
<1>2. CASE \E m \in required : n \in NextNodes(m)
  <2>1. PICK m \in required : n \in NextNodes(m)
    BY <1>2
  <2>2. n \in Deps(m) /\ Requires(m, n)
    BY <2>1 DEF NextNodes
  <2>3. n \in MissingInputs(required)
    BY <2>2 DEF MissingInputs, DependedOnBy, Setting, NeededInv
  <2> QED
    BY <2>3
<1> QED
  BY <1>1, <1>2

(* What a node of another group reads is an output of its own group.       *)
LEMMA ReadIsOutput ==
    ASSUME Setting, Supported, NEW g \in AllGroups, NEW h \in AllGroups,
           NEW n, NEW d \in h.nodes, Reads(g, n, d)
    PROVE  /\ h.id \in WaitsFor(g)
           /\ d \in OutputsToCompute(h)
           /\ h.purpose = "execute_block" =>
                 \E c \in g.nodes : g.purpose = "gather" /\ dag.collects[c] = d
<1>1. n \in g.nodes /\ d \in Deps(n) /\ ~Overridden(n) /\ ~Overridden(d) /\ d \notin g.nodes
  BY DEF Reads
<1>2. h.id \in WaitsFor(g)
  BY <1>1 DEF WaitsFor
<1>3. n \in Nodes /\ n \notin h.nodes
  <2>1. g # h
    BY <1>1
  <2> QED
    BY <1>1, <2>1, GroupsDiffer, GroupTypes DEF Setting, NeededInv
<1>4. d \in OutputsToCompute(h)
  BY <1>1, <1>3 DEF OutputsToCompute, DependedOnBy, Overridden
<1>5. ASSUME h.purpose = "execute_block"
      PROVE  \E c \in g.nodes : g.purpose = "gather" /\ dag.collects[c] = d
  <2>1. PICK c \in Collectors : h = BlockGroup(c)
    BY <1>5, GroupsAre, GroupFields
  <2>2. g = GatherGroup(c) /\ d = dag.collects[c]
    BY <1>1, <2>1, ReadersAre
  <2> QED
    BY <2>2, GroupFields
<1> QED
  BY <1>2, <1>4, <1>5

(* Whatever bind_task reads is given or written by a task waited for.      *)
THEOREM InputsProduced ==
    ASSUME InputsAskedAreGiven
    PROVE  GSpec => []InputsAreProduced
<1>1. GroupingInv => InputsAreProduced
  <2> SUFFICES ASSUME GroupingInv, pc = "planned", Supported,
                      NEW i \in DOMAIN tasks, NEW d \in RequiredVars(tasks[i]),
                      d \notin request.inputs, d \notin request.overrides
               PROVE  Written(tasks[i], d)
    BY DEF InputsAreProduced
  <2>0. /\ Setting /\ MissingInputs(required) = {} /\ Groups = AllGroups
        /\ \A g \in AllGroups : Spec(g.id).outputs = OutputsToCompute(g)
    BY PlanFacts
  <2> DEFINE g == tasks[i].group
  <2>1. g \in AllGroups /\ tasks[i].deps = WaitsFor(g) /\ g.nodes \subseteq required
    <3>1. g = groups[i] /\ tasks[i].deps = WaitsFor(groups[i]) /\ groups[i] \in AllGroups
      BY PlanFacts DEF TasksAre, Lists
    <3> QED
      BY <2>0, <3>1, GroupTypes
  <2> HIDE DEF g
  <2>2. ~(IsInput(d) /\ d \in g.nodes /\ ~Overridden(d))
    BY <2>0, <2>1, NeededInputsAreGiven DEF Setting, NeededInv
  <2>3. PICK n \in g.nodes : ~Overridden(n) /\ d \in Deps(n) /\ Requires(n, d)
                             /\ (IsInput(d) \/ d \notin g.nodes)
    BY <2>2 DEF RequiredVars, Overridden, g
  <2>4. d \in required /\ d \in NextNodes(n)
    BY <2>0, <2>1, <2>3, ReadIsNeeded DEF NextNodes
  <2>5. ~IsInput(d)
    BY <2>0, <2>1, <2>4, NeededInputsAreGiven
  <2>6. Reads(g, n, d)
    BY <2>3, <2>5 DEF Reads, Overridden
  <2>7. PICK h \in AllGroups : d \in h.nodes
    BY <2>0, <2>4, GroupsCover
  <2>8. /\ h.id \in WaitsFor(g)
        /\ d \in OutputsToCompute(h)
        /\ h.purpose = "execute_block" =>
              \E c \in g.nodes : g.purpose = "gather" /\ dag.collects[c] = d
    BY <2>0, <2>1, <2>6, <2>7, ReadIsOutput
  <2> QED
    BY <2>0, <2>1, <2>7, <2>8 DEF Written, g
<1> QED
  BY <1>1, GroupingInvariant, PTL

(* What the caller asks for is an output of a task that runs once.         *)
THEOREM OutputsComputed == GSpec => []OutputsAreComputed
<1>1. GroupingInv => OutputsAreComputed
  <2> SUFFICES ASSUME GroupingInv, pc = "planned", Supported,
                      NEW n \in request.outputs, ~Overridden(n)
               PROVE  \E i \in DOMAIN tasks : /\ n \in tasks[i].outputs
                                              /\ tasks[i].group.purpose # "execute_block"
    BY DEF OutputsAreComputed, Overridden
  <2>0. Setting /\ TasksAre /\ Lists(groups, AllGroups)
    BY PlanFacts
  <2>1. n \in required
    BY <2>0 DEF Setting, NeededInv
  <2>2. PICK g \in AllGroups : n \in g.nodes
    BY <2>0, <2>1, GroupsCover
  <2>3. n \in OutputsToCompute(g)
    BY <2>2 DEF OutputsToCompute, Overridden
  <2>4. g.purpose # "execute_block"
    <3> SUFFICES ASSUME g.purpose = "execute_block" PROVE FALSE
      OBVIOUS
    <3>1. PICK c \in Collectors : g = BlockGroup(c)
      BY GroupsAre, GroupFields
    <3>2. n \in BlockOf(c)
      BY <2>2, <3>1, GroupFields
    <3> QED
      BY <2>0, <3>2, BlockFacts
  <2>5. PICK i \in DOMAIN groups : groups[i] = g
    BY <2>0 DEF Lists
  <2>6. i \in DOMAIN tasks /\ tasks[i].group = g /\ tasks[i].outputs = OutputsToCompute(g)
    BY <2>0, <2>5 DEF TasksAre
  <2> QED
    BY <2>3, <2>4, <2>6
<1> QED
  BY <1>1, GroupingInvariant, PTL
=============================================================================
