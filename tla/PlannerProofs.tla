--------------------------- MODULE PlannerProofs ---------------------------
(***************************************************************************)
(* The planner orders every graph without cycles topologically             *)
(* (PlannerOrders), whatever its nodes and edges.                          *)
(*                                                                         *)
(* Its loops are recursive functions over 0..N.  The provers have no       *)
(* induction rule, so it is stated here with sets instead of predicates    *)
(* (UpTo) and derived from the well-foundedness of finite sets, and so is  *)
(* the existence of a function defined by recursion (Recursion).           *)
(***************************************************************************)
EXTENDS Planner, Integers, FiniteSetTheorems, WellFoundedInduction, TLAPS

-----------------------------------------------------------------------------
(* Induction and recursion up to N.                                        *)

LEMMA LeastNumber ==
  ASSUME NEW T \in SUBSET Nat, T # {}
  PROVE  \E m \in T : \A k \in T : m <= k
<1> DEFINE below == {0..n : n \in T}
<1>1. below \subseteq FiniteSubsetsOf(Nat) /\ below # {}
  <2>1. ASSUME NEW n \in T PROVE 0..n \in FiniteSubsetsOf(Nat)
    <3>1. IsFiniteSet(0..n)
      BY FS_Interval
    <3> QED BY <3>1 DEF FiniteSubsetsOf
  <2> QED BY <2>1
<1>2. PICK x \in below : \A y \in below : <<y, x>> \notin StrictSubsetOrdering(Nat)
  BY <1>1, WFMin, FS_StrictSubsetOrderingWellFounded
<1>3. PICK m \in T : x = 0..m
  OBVIOUS
<1>4. ASSUME NEW k \in T, k < m PROVE FALSE
  <2>1. 0..k \subseteq 0..m /\ m \in 0..m /\ m \notin 0..k
    BY <1>4
  <2>2. <<0..k, 0..m>> \in StrictSubsetOrdering(Nat)
    BY <2>1 DEF StrictSubsetOrdering
  <2> QED BY <1>2, <1>3, <2>2
<1> QED BY <1>4

LEMMA UpTo ==
  ASSUME NEW N \in Nat, NEW T, 0 \in T,
         \A k \in 1..N : k - 1 \in T => k \in T
  PROVE  \A k \in 0..N : k \in T
<1> DEFINE U == (0..N) \ T
<1>1. ASSUME U # {} PROVE FALSE
  <2> U \in SUBSET Nat
    OBVIOUS
  <2> HIDE DEF U
  <2>1. PICK m \in U : \A k \in U : m <= k
    BY <1>1, LeastNumber
  <2> USE DEF U
  <2>2. m \in 1..N /\ m - 1 \in 0..N /\ m - 1 \notin U
    BY <2>1
  <2> QED BY <2>2
<1> QED BY <1>1

LEMMA Recursion ==
  ASSUME NEW S, NEW start \in S, NEW N \in Nat, NEW step \in [1..N -> [S -> S]]
  PROVE  \E f \in [0..N -> S] :
           f = [k \in 0..N |-> IF k = 0 THEN start ELSE step[k][f[k - 1]]]
<1> DEFINE Upto(n, f) == \A k \in 0..n : f[k] = IF k = 0 THEN start
                                                ELSE step[k][f[k - 1]]
           T == {n \in 0..N : \E f \in [0..N -> S] : Upto(n, f)}
<1> HIDE DEF Upto
<1>1. 0 \in T
  <2>1. [k \in 0..N |-> start] \in [0..N -> S]
    OBVIOUS
  <2>2. Upto(0, [k \in 0..N |-> start])
    BY DEF Upto
  <2> QED BY <2>1, <2>2
<1>2. ASSUME NEW n \in 1..N, n - 1 \in T PROVE n \in T
  <2>1. PICK f \in [0..N -> S] : Upto(n - 1, f)
    BY <1>2
  <2> DEFINE g == [f EXCEPT ![n] = step[n][f[n - 1]]]
  <2>2. g \in [0..N -> S] /\ g[n] = step[n][f[n - 1]]
    OBVIOUS
  <2>3. \A k \in 0..(n - 1) : g[k] = f[k]
    OBVIOUS
  <2> HIDE DEF g
  <2>4. ASSUME NEW k \in 0..n PROVE g[k] = IF k = 0 THEN start ELSE step[k][g[k - 1]]
    <3>1. CASE k = n
      BY <2>2, <2>3, <3>1
    <3>2. CASE k # n
      <4>1. k \in 0..(n - 1) /\ (k # 0 => k - 1 \in 0..(n - 1))
        BY <3>2
      <4>2. f[k] = IF k = 0 THEN start ELSE step[k][f[k - 1]]
        BY <2>1, <4>1 DEF Upto
      <4> QED BY <2>3, <4>1, <4>2
    <3> QED BY <3>1, <3>2
  <2>5. Upto(n, g)
    BY <2>4 DEF Upto
  <2> QED BY <2>2, <2>5
<1>3. N \in T
  <2> HIDE DEF T
  <2>1. \A k \in 0..N : k \in T
    BY <1>1, <1>2, UpTo
  <2> QED BY <2>1
<1>4. PICK f \in [0..N -> S] : Upto(N, f)
  BY <1>3
<1>5. f = [k \in 0..N |-> IF k = 0 THEN start ELSE step[k][f[k - 1]]]
  BY <1>4 DEF Upto
<1> QED BY <1>5

-----------------------------------------------------------------------------
(* The nodes of a set, in the order they are listed.                       *)

LEMMA SizeFacts ==
  /\ Len(NodeOrder) \in Nat /\ NodeOrder \in [1..Len(NodeOrder) -> Nodes]
  /\ IsFiniteSet(Nodes) /\ Cardinality(Nodes) = Len(NodeOrder)
  /\ \A i, j \in 1..Len(NodeOrder) : NodeOrder[i] = NodeOrder[j] => i = j
<1>1. Len(NodeOrder) \in Nat /\ NodeOrder \in [1..Len(NodeOrder) -> Nodes]
  BY PlannerAssumption
<1>2. IsFiniteSet(1..Len(NodeOrder)) /\ Cardinality(1..Len(NodeOrder)) = Len(NodeOrder)
  BY <1>1, FS_Interval
<1>3. NodeOrder \in Surjection(1..Len(NodeOrder), Nodes)
  BY <1>1, PlannerAssumption DEF Surjection
<1>4. IsFiniteSet(Nodes)
  BY <1>2, <1>3, FS_Surjection
<1>5. NodeOrder \in Injection(1..Len(NodeOrder), Nodes)
  BY <1>2, <1>3, <1>4, PlannerAssumption, FS_SurjSameCardinalityImpliesInj
<1>6. \A i, j \in 1..Len(NodeOrder) : NodeOrder[i] = NodeOrder[j] => i = j
  BY <1>5 DEF Injection, IsInjective
<1> QED BY <1>1, <1>4, <1>6, PlannerAssumption

LEMMA ListsRecursion ==
  ASSUME NEW T
  PROVE  /\ Lists(T) \in [0..Len(NodeOrder) -> Seq(Nodes)]
         /\ Lists(T)[0] = << >>
         /\ \A i \in 1..Len(NodeOrder) :
              Lists(T)[i] = IF NodeOrder[i] \in T
                            THEN Append(Lists(T)[i - 1], NodeOrder[i])
                            ELSE Lists(T)[i - 1]
<1> DEFINE N == Len(NodeOrder)
           step == [i \in 1..N |-> [l \in Seq(Nodes) |->
                      IF NodeOrder[i] \in T THEN Append(l, NodeOrder[i]) ELSE l]]
           Body(f) == [i \in 0..N |->
                         IF i = 0 THEN << >>
                         ELSE IF NodeOrder[i] \in T THEN Append(f[i - 1], NodeOrder[i])
                         ELSE f[i - 1]]
<1>1. N \in Nat /\ << >> \in Seq(Nodes) /\ \A i \in 1..N : NodeOrder[i] \in Nodes
  BY SizeFacts
<1>2. step \in [1..N -> [Seq(Nodes) -> Seq(Nodes)]]
  BY <1>1
<1>3. PICK f \in [0..N -> Seq(Nodes)] :
        f = [i \in 0..N |-> IF i = 0 THEN << >> ELSE step[i][f[i - 1]]]
  <2> DEFINE start == << >>
             S == Seq(Nodes)
  <2>1. start \in S /\ step \in [1..N -> [S -> S]]
    BY <1>1, <1>2
  <2> HIDE DEF step, N, start, S
  <2>2. \E f \in [0..N -> S] :
          f = [i \in 0..N |-> IF i = 0 THEN start ELSE step[i][f[i - 1]]]
    BY <1>1, <2>1, Recursion
  <2> QED BY <2>2 DEF start, S
<1>4. f = Body(f)
  <2>1. ASSUME NEW i \in 0..N
        PROVE  (IF i = 0 THEN << >> ELSE step[i][f[i - 1]])
                 = IF i = 0 THEN << >>
                   ELSE IF NodeOrder[i] \in T THEN Append(f[i - 1], NodeOrder[i])
                   ELSE f[i - 1]
    <3>1. CASE i # 0
      <4>1. i \in 1..N /\ i - 1 \in 0..N
        BY <1>1, <3>1
      <4>2. f[i - 1] \in Seq(Nodes)
        BY <4>1
      <4> QED BY <3>1, <4>1, <4>2
    <3> QED BY <3>1
  <2> HIDE DEF step
  <2> QED BY <1>3, <2>1
<1>5. Lists(T) = CHOOSE g : g = Body(g)
  BY DEF Lists
<1> HIDE DEF Body
<1>6. Lists(T) = Body(Lists(T))
  BY <1>4, <1>5
<1> DEFINE L == Lists(T)
<1> HIDE DEF L
<1>7. L = [i \in 0..N |-> IF i = 0 THEN << >>
                         ELSE IF NodeOrder[i] \in T THEN Append(L[i - 1], NodeOrder[i])
                         ELSE L[i - 1]]
  BY <1>6 DEF Body, L
<1> HIDE DEF N
<1>8. L[0] = << >>
  <2>1. 0 \in 0..N
    BY <1>1
  <2> QED BY <1>7, <2>1
<1>9. ASSUME NEW i \in 1..N
      PROVE  L[i] = IF NodeOrder[i] \in T THEN Append(L[i - 1], NodeOrder[i])
                    ELSE L[i - 1]
  <2>1. i \in 0..N /\ i # 0
    BY <1>1
  <2> QED BY <1>7, <2>1
<1> DEFINE U == {i \in 0..N : L[i] \in Seq(Nodes)}
<1>10. \A i \in 0..N : i \in U
  <2>1. 0 \in U
    BY <1>1, <1>8
  <2>2. ASSUME NEW i \in 1..N, i - 1 \in U PROVE i \in U
    <3>1. i \in 0..N /\ NodeOrder[i] \in Nodes /\ L[i - 1] \in Seq(Nodes)
      BY <1>1, <2>2
    <3>2. Append(L[i - 1], NodeOrder[i]) \in Seq(Nodes)
      BY <3>1
    <3> QED BY <1>9, <3>1, <3>2
  <2> HIDE DEF U
  <2> QED BY <1>1, <2>1, <2>2, UpTo
<1>11. L \in [0..N -> Seq(Nodes)]
  BY <1>7, <1>10
<1> QED BY <1>8, <1>9, <1>11 DEF L, N

Distinct(s) == \A i, j \in DOMAIN s : s[i] = s[j] => i = j

LEMMA Appended ==
  ASSUME NEW S, NEW s \in Seq(S), NEW x \in S
  PROVE  /\ Append(s, x) \in Seq(S) /\ Len(Append(s, x)) = Len(s) + 1
         /\ ToSet(Append(s, x)) = ToSet(s) \cup {x}
         /\ Distinct(s) /\ x \notin ToSet(s) => Distinct(Append(s, x))
<1> DEFINE a == Append(s, x)
<1>1. /\ a \in Seq(S) /\ Len(a) = Len(s) + 1 /\ Len(s) \in Nat
      /\ a[Len(s) + 1] = x /\ \A i \in 1..Len(s) : a[i] = s[i]
      /\ DOMAIN s = 1..Len(s) /\ DOMAIN a = 1..(Len(s) + 1)
  OBVIOUS
<1> HIDE DEF a
<1>2. ToSet(a) = ToSet(s) \cup {x}
  <2>1. ASSUME NEW i \in DOMAIN a PROVE a[i] \in ToSet(s) \cup {x}
    BY <1>1 DEF ToSet
  <2>2. ASSUME NEW i \in DOMAIN s PROVE s[i] \in ToSet(a)
    <3>1. i \in DOMAIN a /\ a[i] = s[i]
      BY <1>1
    <3> QED BY <3>1 DEF ToSet
  <2>3. x \in ToSet(a)
    <3>1. Len(s) + 1 \in DOMAIN a
      BY <1>1
    <3> QED BY <1>1, <3>1 DEF ToSet
  <2> QED BY <2>1, <2>2, <2>3 DEF ToSet
<1>3. Distinct(s) /\ x \notin ToSet(s) => Distinct(a)
  BY <1>1 DEF Distinct, ToSet
<1> QED BY <1>1, <1>2, <1>3 DEF a

LEMMA ListedFacts ==
  ASSUME NEW T \in SUBSET Nodes
  PROVE  Listed(T) \in Seq(Nodes) /\ ToSet(Listed(T)) = T /\ Distinct(Listed(T))
<1> DEFINE N == Len(NodeOrder)
           L == Lists(T)
           First(i) == {NodeOrder[m] : m \in 1..i}
           U == {i \in 0..N : ToSet(L[i]) = First(i) \cap T /\ Distinct(L[i])}
<1>1. /\ L \in [0..N -> Seq(Nodes)] /\ L[0] = << >>
      /\ \A i \in 1..N : L[i] = IF NodeOrder[i] \in T
                                THEN Append(L[i - 1], NodeOrder[i]) ELSE L[i - 1]
  BY ListsRecursion
<1>2. /\ N \in Nat /\ \A i \in 1..N : NodeOrder[i] \in Nodes
      /\ \A i, j \in 1..N : NodeOrder[i] = NodeOrder[j] => i = j
  BY SizeFacts
<1> HIDE DEF L, N
<1>3. 0 \in U
  <2>1. ToSet(<< >>) = {} /\ Distinct(<< >>) /\ First(0) = {}
    BY DEF ToSet, Distinct
  <2> QED BY <1>1, <1>2, <2>1
<1>4. ASSUME NEW i \in 1..N, i - 1 \in U PROVE i \in U
  <2>1. i \in 0..N /\ i - 1 \in 0..N /\ i - 1 \in Nat
    BY <1>2
  <2>2. L[i - 1] \in Seq(Nodes) /\ NodeOrder[i] \in Nodes
    BY <1>1, <1>2, <2>1
  <2>3. First(i) = First(i - 1) \cup {NodeOrder[i]}
    <3>1. 1..i = 1..(i - 1) \cup {i}
      BY <2>1
    <3> QED BY <3>1
  <2>4. NodeOrder[i] \notin First(i - 1)
    BY <1>2, <2>1
  <2> HIDE DEF First
  <2>5. ToSet(L[i - 1]) = First(i - 1) \cap T /\ Distinct(L[i - 1])
    BY <1>4
  <2>6. CASE NodeOrder[i] \in T
    <3>1. L[i] = Append(L[i - 1], NodeOrder[i])
      BY <1>1, <2>6
    <3>2. /\ ToSet(L[i]) = ToSet(L[i - 1]) \cup {NodeOrder[i]}
          /\ Distinct(L[i])
      BY <2>2, <2>4, <2>5, <3>1, Appended
    <3> QED BY <2>1, <2>3, <2>5, <2>6, <3>2
  <2>7. CASE NodeOrder[i] \notin T
    BY <1>1, <2>1, <2>3, <2>5, <2>7
  <2> QED BY <2>6, <2>7
<1>5. N \in U
  <2> HIDE DEF U
  <2>1. \A i \in 0..N : i \in U
    BY <1>2, <1>3, <1>4, UpTo
  <2> QED BY <1>2, <2>1
<1>6. First(N) = Nodes
  <2>1. DOMAIN NodeOrder = 1..N
    BY SizeFacts DEF N
  <2> QED BY <1>2, <2>1, PlannerAssumption
<1>7. Listed(T) = L[N] /\ N \in 0..N
  BY <1>2 DEF Listed, L, N
<1> QED BY <1>1, <1>5, <1>6, <1>7

-----------------------------------------------------------------------------
(* Graphs and the edges that leave a node.                                 *)

LEMMA FiniteEdges == IsFiniteSet(Edge)
<1> DEFINE P == Nodes \X (Nodes \X EdgeType)
           f == [p \in P |-> [from |-> p[1], to |-> p[2][1], type |-> p[2][2]]]
<1>1. IsFiniteSet(EdgeType)
  <2>1. EdgeType = {"success"} \cup {"failure"}
    BY DEF EdgeType
  <2> QED BY <2>1, FS_Singleton, FS_AddElement
<1>2. IsFiniteSet(P)
  <2>1. IsFiniteSet(Nodes \X EdgeType)
    BY <1>1, SizeFacts, FS_Product
  <2> QED BY <2>1, SizeFacts, FS_Product
<1>3. f \in Surjection(P, Edge)
  <2>1. f \in [P -> Edge]
    BY DEF Edge
  <2>2. ASSUME NEW e \in Edge PROVE \E p \in P : f[p] = e
    <3>1. <<e.from, <<e.to, e.type>>>> \in P
      BY DEF Edge
    <3>2. f[<<e.from, <<e.to, e.type>>>>] = e
      BY <3>1 DEF Edge
    <3> QED BY <3>1, <3>2
  <2> HIDE DEF f, P
  <2> QED BY <2>1, <2>2 DEF Surjection
<1> HIDE DEF f, P
<1> QED BY <1>2, <1>3, FS_Surjection

LEMMA GraphFacts ==
  ASSUME NEW w \in Graphs
  PROVE  /\ w.entry \in Nodes /\ Incoming(w, w.entry) = {}
         /\ \A e \in w.edges : e \in Edge /\ e.from \in Nodes /\ e.to \in Nodes
         /\ IsFiniteSet(w.edges) /\ Cardinality(w.edges) \in Nat
         /\ \A n : IsFiniteSet(Incoming(w, n)) /\ IsFiniteSet(Leaving(w, n))
         /\ \A S \in SUBSET Nodes : S # {} =>
              \E n \in S : \A e \in Incoming(w, n) : e.from \notin S
<1>1. w \in [edges : SUBSET {e \in Edge : e.from # e.to}, entry : Nodes]
  BY DEF Graphs
<1>2. w.edges \in SUBSET Edge /\ w.entry \in Nodes
  BY <1>1
<1>3. \A e \in w.edges : e \in Edge /\ e.from \in Nodes /\ e.to \in Nodes
  BY <1>2 DEF Edge
<1>4. IsFiniteSet(w.edges)
  BY <1>2, FiniteEdges, FS_Subset
<1>5. \A n : IsFiniteSet(Incoming(w, n)) /\ IsFiniteSet(Leaving(w, n))
  <2>1. ASSUME NEW n
        PROVE Incoming(w, n) \in SUBSET w.edges /\ Leaving(w, n) \in SUBSET w.edges
    BY DEF Incoming, Leaving
  <2> QED BY <1>4, <2>1, FS_Subset
<1>6. /\ Incoming(w, w.entry) = {}
      /\ \A S \in SUBSET Nodes : S # {} =>
           \E n \in S : \A e \in Incoming(w, n) : e.from \notin S
  BY DEF Graphs
<1> QED BY <1>2, <1>3, <1>4, <1>5, <1>6, FS_CardinalityType

LEMMA OutgoingFacts ==
  ASSUME NEW w \in Graphs, NEW n
  PROVE  /\ Outgoing(w, n) \in Seq(Leaving(w, n))
         /\ ToSet(Outgoing(w, n)) = Leaving(w, n) /\ Distinct(Outgoing(w, n))
         /\ Len(Outgoing(w, n)) = Cardinality(Leaving(w, n))
<1> DEFINE S == Leaving(w, n)
           N == Cardinality(S)
           out == Outgoing(w, n)
<1>1. IsFiniteSet(S) /\ N \in Nat /\ ExistsBijection(1..N, S)
  BY GraphFacts, FS_CardinalityType
<1>2. \E f \in [1..N -> S] : IsInjective(f)
  BY <1>1 DEF ExistsBijection, Bijection, Injection
<1>3. out \in [1..N -> S] /\ IsInjective(out)
  BY <1>2 DEF Outgoing, SetToSeq
<1>4. out \in Surjection(1..N, S)
  <2>1. IsFiniteSet(1..N) /\ Cardinality(1..N) = N
    BY <1>1, FS_Interval
  <2>2. out \in Injection(1..N, S)
    BY <1>3 DEF Injection
  <2> QED BY <1>1, <2>1, <2>2, FS_Injection
<1> HIDE DEF out, N, S
<1>5. out \in Seq(S) /\ Len(out) = N
  BY <1>1, <1>3
<1>6. ToSet(out) = S
  BY <1>3, <1>4 DEF ToSet, Surjection
<1>7. Distinct(out)
  BY <1>3 DEF Distinct, IsInjective
<1> QED BY <1>5, <1>6, <1>7 DEF out, N, S

-----------------------------------------------------------------------------
(* The edges of a node are walked.                                         *)

Marks == [queue : Seq(Nodes), degree : [Nodes -> Int]]

LEMMA ReducedFacts ==
  ASSUME NEW d \in Marks, NEW t \in Nodes
  PROVE  /\ Reduced(d, t) \in Marks
         /\ Reduced(d, t).degree = [d.degree EXCEPT ![t] = @ - 1]
         /\ Reduced(d, t).queue = IF d.degree[t] - 1 <= 0 THEN Append(d.queue, t)
                                  ELSE d.queue
<1> DEFINE degree == [d.degree EXCEPT ![t] = @ - 1]
<1>1. /\ degree \in [Nodes -> Int] /\ degree[t] = d.degree[t] - 1
      /\ d.queue \in Seq(Nodes) /\ Append(d.queue, t) \in Seq(Nodes)
  BY DEF Marks
<1>2. Reduced(d, t) = [degree |-> degree,
                       queue |-> IF degree[t] <= 0 THEN Append(d.queue, t) ELSE d.queue]
  BY DEF Reduced, Released
<1> QED BY <1>1, <1>2 DEF Marks

LEMMA EdgeWalksRecursion ==
  ASSUME NEW w \in Graphs, NEW n, NEW d \in Marks
  PROVE  /\ EdgeWalks(w, n, d) \in [0..Len(Outgoing(w, n)) -> Marks]
         /\ EdgeWalks(w, n, d)[0] = d
         /\ \A i \in 1..Len(Outgoing(w, n)) :
              EdgeWalks(w, n, d)[i]
                = Reduced(EdgeWalks(w, n, d)[i - 1], Outgoing(w, n)[i].to)
<1> DEFINE out == Outgoing(w, n)
           N == Len(out)
           step == [i \in 1..N |-> [m \in Marks |-> Reduced(m, out[i].to)]]
           Body(f) == [i \in 0..N |-> IF i = 0 THEN d ELSE Reduced(f[i - 1], out[i].to)]
<1>1. N \in Nat /\ \A i \in 1..N : out[i].to \in Nodes
  <2>1. out \in Seq(Leaving(w, n))
    BY OutgoingFacts
  <2>2. \A e \in Leaving(w, n) : e.to \in Nodes
    BY GraphFacts DEF Leaving
  <2> QED BY <2>1, <2>2
<1> HIDE DEF out
<1>2. step \in [1..N -> [Marks -> Marks]]
  BY <1>1, ReducedFacts
<1>3. PICK f \in [0..N -> Marks] :
        f = [i \in 0..N |-> IF i = 0 THEN d ELSE step[i][f[i - 1]]]
  <2>1. N \in Nat /\ d \in Marks
    BY <1>1
  <2> HIDE DEF step, N
  <2> QED BY <1>2, <2>1, Recursion
<1>4. f = Body(f)
  <2>1. ASSUME NEW i \in 0..N
        PROVE  (IF i = 0 THEN d ELSE step[i][f[i - 1]])
                 = IF i = 0 THEN d ELSE Reduced(f[i - 1], out[i].to)
    <3>1. CASE i # 0
      <4>1. i \in 1..N /\ i - 1 \in 0..N
        BY <1>1, <3>1
      <4>2. f[i - 1] \in Marks
        BY <4>1
      <4> QED BY <3>1, <4>1, <4>2
    <3> QED BY <3>1
  <2> HIDE DEF step
  <2> QED BY <1>3, <2>1
<1>5. EdgeWalks(w, n, d) = CHOOSE g : g = Body(g)
  BY DEF EdgeWalks, out
<1> HIDE DEF Body
<1>6. EdgeWalks(w, n, d) = Body(EdgeWalks(w, n, d))
  BY <1>4, <1>5
<1> DEFINE W == EdgeWalks(w, n, d)
<1> HIDE DEF W
<1>7. W = [i \in 0..N |-> IF i = 0 THEN d ELSE Reduced(W[i - 1], out[i].to)]
  BY <1>6 DEF Body, W
<1> HIDE DEF N
<1>8. W[0] = d
  <2>1. 0 \in 0..N
    BY <1>1
  <2> QED BY <1>7, <2>1
<1>9. ASSUME NEW i \in 1..N PROVE W[i] = Reduced(W[i - 1], out[i].to)
  <2>1. i \in 0..N /\ i # 0
    BY <1>1
  <2> QED BY <1>7, <2>1
<1> DEFINE U == {i \in 0..N : W[i] \in Marks}
<1>10. \A i \in 0..N : i \in U
  <2>1. 0 \in U
    BY <1>1, <1>8
  <2>2. ASSUME NEW i \in 1..N, i - 1 \in U PROVE i \in U
    <3>1. i \in 0..N /\ W[i - 1] \in Marks
      BY <1>1, <2>2
    <3> QED BY <1>1, <1>9, <3>1, ReducedFacts
  <2> HIDE DEF U
  <2> QED BY <1>1, <2>1, <2>2, UpTo
<1>11. W \in [0..N -> Marks]
  BY <1>7, <1>10
<1> QED BY <1>8, <1>9, <1>11 DEF W, N, out

\* Of the edges in E, walked already, none counts in a degree any more.
Counted(w, degree, E) ==
  \A t \in Nodes : degree[t] = Cardinality(Incoming(w, t) \ E)

\* The queue holds exactly the nodes all of whose edges have been walked,
\* except for those in O that have been taken from it.
Waiting(queue, degree, O) ==
  /\ \A q \in ToSet(queue) : degree[q] = 0
  /\ \A t \in Nodes : degree[t] = 0 => t \in O \cup ToSet(queue)

LEMMA EdgeCounted ==
  ASSUME NEW w \in Graphs, NEW E, NEW e \in w.edges \ E, NEW d \in Marks, NEW O,
         Counted(w, d.degree, E), Waiting(d.queue, d.degree, O)
  PROVE  LET r == Reduced(d, e.to)
         IN  /\ Counted(w, r.degree, E \cup {e})
             /\ Waiting(r.queue, r.degree, O)
             /\ Len(r.queue) <= Len(d.queue) + 1
<1> DEFINE t == e.to
           r == Reduced(d, t)
<1>1. /\ t \in Nodes /\ d.queue \in Seq(Nodes) /\ d.degree \in [Nodes -> Int]
  BY GraphFacts DEF Marks
<1>2. \A n \in Nodes : IsFiniteSet(Incoming(w, n) \ E) /\ d.degree[n] \in Nat
  <2>1. ASSUME NEW n \in Nodes PROVE IsFiniteSet(Incoming(w, n) \ E)
    BY GraphFacts, FS_Difference
  <2> QED BY <2>1, FS_CardinalityType DEF Counted
<1>3. /\ r.degree = [d.degree EXCEPT ![t] = @ - 1]
      /\ r.queue = IF d.degree[t] - 1 <= 0 THEN Append(d.queue, t) ELSE d.queue
  BY <1>1, ReducedFacts
<1>4. ASSUME NEW n \in Nodes
      PROVE  r.degree[n] = Cardinality(Incoming(w, n) \ (E \cup {e}))
  <2> DEFINE X == Incoming(w, n) \ E
  <2>1. Incoming(w, n) \ (E \cup {e}) = X \ {e}
    OBVIOUS
  <2>2. e \in X <=> n = t
    BY DEF Incoming
  <2>3. IsFiniteSet(X) /\ d.degree[n] = Cardinality(X) /\ d.degree[n] \in Nat
    BY <1>2 DEF Counted
  <2> HIDE DEF X
  <2>4. Cardinality(X \ {e}) = IF e \in X THEN Cardinality(X) - 1 ELSE Cardinality(X)
    BY <2>3, FS_RemoveElement
  <2>5. r.degree[n] = IF n = t THEN d.degree[n] - 1 ELSE d.degree[n]
    BY <1>1, <1>3
  <2> QED BY <2>1, <2>2, <2>3, <2>4, <2>5
<1>5. d.degree[t] >= 1
  <2> DEFINE X == Incoming(w, t) \ E
  <2>1. X # {}
    BY DEF Incoming
  <2>2. IsFiniteSet(X) /\ d.degree[t] = Cardinality(X) /\ d.degree[t] \in Nat
    BY <1>1, <1>2 DEF Counted
  <2> HIDE DEF X
  <2>3. Cardinality(X) # 0
    BY <2>1, <2>2, FS_EmptySet
  <2> QED BY <2>2, <2>3
<1>6. ToSet(Append(d.queue, t)) = ToSet(d.queue) \cup {t}
      /\ Len(Append(d.queue, t)) = Len(d.queue) + 1 /\ Len(d.queue) \in Nat
  BY <1>1, Appended
<1>7. \A n \in Nodes : r.degree[n] = IF n = t THEN d.degree[t] - 1 ELSE d.degree[n]
  BY <1>1, <1>3
<1>8. t \notin ToSet(d.queue) /\ ToSet(d.queue) \subseteq Nodes
  BY <1>1, <1>5 DEF Waiting, ToSet
<1> HIDE DEF r
<1>9. Waiting(r.queue, r.degree, O)
  <2>1. CASE d.degree[t] = 1
    <3>1. ToSet(r.queue) = ToSet(d.queue) \cup {t}
      BY <1>3, <1>6, <2>1
    <3> QED BY <1>1, <1>7, <1>8, <2>1, <3>1 DEF Waiting
  <2>2. CASE d.degree[t] # 1
    <3>1. r.queue = d.queue /\ r.degree[t] # 0
      BY <1>1, <1>2, <1>3, <1>5, <1>7, <2>2
    <3> QED BY <1>1, <1>7, <1>8, <3>1 DEF Waiting
  <2> QED BY <2>1, <2>2
<1>10. Len(r.queue) <= Len(d.queue) + 1
  BY <1>3, <1>6
<1>11. Counted(w, r.degree, E \cup {e})
  BY <1>4 DEF Counted
<1> QED BY <1>9, <1>10, <1>11 DEF r

LEMMA EdgesCounted ==
  ASSUME NEW w \in Graphs, NEW n, NEW d \in Marks, NEW O,
         NEW E, E \cap Leaving(w, n) = {},
         Counted(w, d.degree, E), Waiting(d.queue, d.degree, O)
  PROVE  LET r == EdgeWalks(w, n, d)[Len(Outgoing(w, n))]
         IN  /\ r \in Marks
             /\ Counted(w, r.degree, E \cup Leaving(w, n))
             /\ Waiting(r.queue, r.degree, O)
             /\ Len(r.queue) <= Len(d.queue) + Cardinality(Leaving(w, n))
<1> DEFINE out == Outgoing(w, n)
           N == Len(out)
           W == EdgeWalks(w, n, d)
           First(i) == {out[j] : j \in 1..i}
           U == {i \in 0..N : /\ Counted(w, W[i].degree, E \cup First(i))
                              /\ Waiting(W[i].queue, W[i].degree, O)
                              /\ Len(W[i].queue) <= Len(d.queue) + i}
<1>1. /\ W \in [0..N -> Marks] /\ W[0] = d
      /\ \A i \in 1..N : W[i] = Reduced(W[i - 1], out[i].to)
  BY EdgeWalksRecursion
<1>2. /\ out \in Seq(Leaving(w, n)) /\ ToSet(out) = Leaving(w, n) /\ Distinct(out)
      /\ N = Cardinality(Leaving(w, n))
  BY OutgoingFacts
<1>3. N \in Nat /\ DOMAIN out = 1..N /\ \A i \in 1..N : out[i] \in Leaving(w, n)
  BY <1>2
<1>4. d.queue \in Seq(Nodes) /\ Len(d.queue) \in Nat
  BY DEF Marks
<1> HIDE DEF W, out, N
<1>5. 0 \in U
  <2>1. E \cup First(0) = E
    OBVIOUS
  <2>2. 0 \in 0..N /\ Len(d.queue) <= Len(d.queue) + 0
    BY <1>3, <1>4
  <2> HIDE DEF First
  <2> QED BY <1>1, <2>1, <2>2
<1>6. ASSUME NEW i \in 1..N, i - 1 \in U PROVE i \in U
  <2>1. i \in 0..N /\ i - 1 \in 0..N /\ i - 1 \in Nat
    BY <1>3
  <2>2. First(i) = First(i - 1) \cup {out[i]}
    <3>1. 1..i = 1..(i - 1) \cup {i}
      BY <2>1
    <3> QED BY <3>1
  <2>3. out[i] \notin First(i - 1)
    BY <1>2, <1>3, <2>1 DEF Distinct
  <2> HIDE DEF First
  <2> DEFINE p == W[i - 1]
             F == E \cup First(i - 1)
  <2>4. /\ p \in Marks /\ Counted(w, p.degree, F) /\ Waiting(p.queue, p.degree, O)
        /\ Len(p.queue) <= Len(d.queue) + i - 1
    BY <1>1, <1>4, <1>6, <2>1
  <2>5. out[i] \in w.edges \ F
    BY <1>3, <2>3 DEF Leaving
  <2>6. W[i] = Reduced(p, out[i].to)
    BY <1>1
  <2> HIDE DEF p, F
  <2>7. /\ Counted(w, W[i].degree, F \cup {out[i]})
        /\ Waiting(W[i].queue, W[i].degree, O)
        /\ Len(W[i].queue) <= Len(p.queue) + 1
    BY <2>4, <2>5, <2>6, EdgeCounted
  <2>8. F \cup {out[i]} = E \cup First(i)
    BY <2>2 DEF F
  <2>9. Len(W[i].queue) \in Nat /\ Len(p.queue) \in Nat
    BY <1>1, <2>1, <2>4 DEF Marks
  <2>10. Len(W[i].queue) <= Len(d.queue) + i
    BY <1>4, <2>1, <2>4, <2>7, <2>9
  <2> QED BY <2>1, <2>7, <2>8, <2>10
<1>7. N \in U
  <2> HIDE DEF U
  <2>1. \A i \in 0..N : i \in U
    BY <1>3, <1>5, <1>6, UpTo
  <2> QED BY <1>3, <2>1
<1>8. First(N) = Leaving(w, n)
  BY <1>2, <1>3 DEF ToSet
<1>9. W[N] \in Marks
  BY <1>1, <1>3
<1> QED BY <1>2, <1>7, <1>8, <1>9 DEF W, out, N

-----------------------------------------------------------------------------
(* The loop.                                                               *)

LoopState == [queue : Seq(Nodes), ordered : Seq(Nodes), degree : [Nodes -> Int]]

\* The edges of the nodes in O have been walked.
Traversed(w, O) == {e \in w.edges : e.from \in O}

LoopInv(w, s) ==
  /\ s \in LoopState /\ Distinct(s.ordered)
  /\ Counted(w, s.degree, Traversed(w, ToSet(s.ordered)))
  /\ Waiting(s.queue, s.degree, ToSet(s.ordered))
  /\ \A e \in w.edges, j \in DOMAIN s.ordered :
       s.ordered[j] = e.to => \E i \in 1..(j - 1) : s.ordered[i] = e.from

\* Turns that can still come: one per entry, and one per edge to walk.
Left(w, s) ==
  Len(s.queue) + Cardinality(w.edges \ Traversed(w, ToSet(s.ordered)))

LEMMA Popped ==
  ASSUME NEW S, NEW q \in Seq(S), q # << >>
  PROVE  /\ Head(q) \in S /\ Tail(q) \in Seq(S) /\ Len(Tail(q)) = Len(q) - 1
         /\ ToSet(q) = {Head(q)} \cup ToSet(Tail(q))
<1>1. /\ Head(q) \in S /\ Tail(q) \in Seq(S) /\ Len(Tail(q)) = Len(q) - 1
      /\ Head(q) = q[1] /\ Len(q) \in Nat /\ Len(q) >= 1
      /\ \A i \in 1..(Len(q) - 1) : Tail(q)[i] = q[i + 1]
      /\ DOMAIN q = 1..Len(q) /\ DOMAIN Tail(q) = 1..(Len(q) - 1)
  OBVIOUS
<1>2. ASSUME NEW i \in DOMAIN q PROVE q[i] \in {Head(q)} \cup ToSet(Tail(q))
  <2>1. CASE i # 1
    <3>1. i - 1 \in DOMAIN Tail(q) /\ Tail(q)[i - 1] = q[i]
      BY <1>1, <2>1
    <3> QED BY <3>1 DEF ToSet
  <2> QED BY <1>1, <2>1
<1>3. ASSUME NEW i \in DOMAIN Tail(q) PROVE Tail(q)[i] \in ToSet(q)
  <2>1. i + 1 \in DOMAIN q /\ Tail(q)[i] = q[i + 1]
    BY <1>1
  <2> QED BY <2>1 DEF ToSet
<1>4. Head(q) \in ToSet(q)
  <2>1. 1 \in DOMAIN q
    BY <1>1
  <2> QED BY <1>1, <2>1 DEF ToSet
<1> QED BY <1>1, <1>2, <1>3, <1>4 DEF ToSet

LEMMA TurnKeeps ==
  ASSUME NEW w \in Graphs, NEW s, LoopInv(w, s), s.queue # << >>
  PROVE  LoopInv(w, Turn(w, s)) /\ Left(w, Turn(w, s)) <= Left(w, s) - 1
<1> DEFINE n == Head(s.queue)
           O == ToSet(s.ordered)
           E == Traversed(w, O)
           popped == [queue |-> Tail(s.queue), degree |-> s.degree]
           r == EdgeWalks(w, n, popped)[Len(Outgoing(w, n))]
           s2 == Turn(w, s)
<1>1. /\ s.queue \in Seq(Nodes) /\ s.ordered \in Seq(Nodes)
      /\ s.degree \in [Nodes -> Int] /\ Distinct(s.ordered)
      /\ Counted(w, s.degree, E) /\ Waiting(s.queue, s.degree, O)
      /\ \A e \in w.edges, j \in DOMAIN s.ordered :
           s.ordered[j] = e.to => \E i \in 1..(j - 1) : s.ordered[i] = e.from
  BY DEF LoopInv, LoopState
<1>2. /\ n \in Nodes /\ Tail(s.queue) \in Seq(Nodes)
      /\ Len(Tail(s.queue)) = Len(s.queue) - 1 /\ Len(s.queue) \in Nat
      /\ ToSet(s.queue) = {n} \cup ToSet(Tail(s.queue))
  BY <1>1, Popped
<1>3. s \in LoopState
  BY DEF LoopInv
<1>4. IsFiniteSet(w.edges \ E) /\ Cardinality(w.edges \ E) \in Nat
  <2>1. IsFiniteSet(w.edges \ E)
    BY GraphFacts, FS_Difference
  <2> QED BY <2>1, FS_CardinalityType
<1>5. CASE n \in O
  <2>1. s2 = [s EXCEPT !.queue = Tail(@)]
    BY <1>5 DEF Turn
  <2>2. /\ s2 \in LoopState /\ s2.queue = Tail(s.queue)
        /\ s2.ordered = s.ordered /\ s2.degree = s.degree
    BY <1>2, <1>3, <2>1 DEF LoopState
  <2> HIDE DEF s2, n
  <2>3. Waiting(s2.queue, s2.degree, O)
    BY <1>1, <1>2, <1>5, <2>2 DEF Waiting
  <2>4. LoopInv(w, s2)
    BY <1>1, <2>2, <2>3 DEF LoopInv
  <2>5. Left(w, s2) = Left(w, s) - 1
    <3> HIDE DEF E
    <3>1. Left(w, s) = Len(s.queue) + Cardinality(w.edges \ E)
      BY DEF Left, E
    <3>2. Left(w, s2) = Len(s.queue) - 1 + Cardinality(w.edges \ E)
      BY <1>2, <2>2 DEF Left, E
    <3> QED BY <1>2, <1>4, <3>1, <3>2
  <2>6. Left(w, s) \in Nat
    BY <1>2, <1>4 DEF Left
  <2> QED BY <2>4, <2>5, <2>6 DEF s2
<1>6. CASE n \notin O
  <2>1. s2 = [queue |-> r.queue, degree |-> r.degree, ordered |-> Append(s.ordered, n)]
    BY <1>6 DEF Turn
  <2>2. popped \in Marks /\ popped.queue = Tail(s.queue) /\ popped.degree = s.degree
    BY <1>1, <1>2 DEF Marks
  <2> HIDE DEF n, popped, O
  <2>3. s.degree[n] = 0
    BY <1>1, <1>2 DEF Waiting
  <2>4. Waiting(popped.queue, popped.degree, O \cup {n})
    BY <1>1, <1>2, <2>2 DEF Waiting
  <2>5. E \cap Leaving(w, n) = {}
    BY <1>6 DEF Traversed, Leaving
  <2> HIDE DEF E
  <2>6. /\ r \in Marks /\ Counted(w, r.degree, E \cup Leaving(w, n))
        /\ Waiting(r.queue, r.degree, O \cup {n})
        /\ Len(r.queue) <= Len(popped.queue) + Cardinality(Leaving(w, n))
    BY <1>1, <2>2, <2>4, <2>5, EdgesCounted
  <2>7. E \cup Leaving(w, n) = Traversed(w, O \cup {n})
    BY DEF E, Traversed, Leaving
  <2> HIDE DEF r, s2
  <2>8. /\ s2.queue = r.queue /\ s2.degree = r.degree
        /\ s2.ordered = Append(s.ordered, n)
    BY <2>1
  <2>9. /\ s2.ordered \in Seq(Nodes) /\ ToSet(s2.ordered) = O \cup {n}
        /\ Distinct(s2.ordered)
    BY <1>1, <1>2, <1>6, <2>8, Appended DEF O
  <2>10. s2 \in LoopState
    BY <2>1, <2>6, <2>8, <2>9 DEF LoopState, Marks
  <2>11. ASSUME NEW e \in w.edges, NEW j \in DOMAIN s2.ordered, s2.ordered[j] = e.to
         PROVE  \E i \in 1..(j - 1) : s2.ordered[i] = e.from
    <3>1. /\ Len(s.ordered) \in Nat /\ DOMAIN s.ordered = 1..Len(s.ordered)
          /\ DOMAIN s2.ordered = 1..(Len(s.ordered) + 1)
          /\ s2.ordered[Len(s.ordered) + 1] = n
          /\ \A i \in 1..Len(s.ordered) : s2.ordered[i] = s.ordered[i]
      BY <1>1, <1>2, <2>8
    <3>2. CASE j \in DOMAIN s.ordered
      <4>1. s.ordered[j] = e.to
        BY <2>11, <3>1, <3>2
      <4>2. PICK i \in 1..(j - 1) : s.ordered[i] = e.from
        BY <1>1, <3>2, <4>1
      <4>3. i \in 1..Len(s.ordered)
        BY <3>1, <3>2
      <4> QED BY <3>1, <4>2, <4>3
    <3>3. CASE j = Len(s.ordered) + 1
      <4>1. e \in Incoming(w, n)
        BY <2>11, <3>1, <3>3 DEF Incoming
      <4>2. e \in E
        <5> DEFINE X == Incoming(w, n) \ E
        <5>1. IsFiniteSet(X) /\ Cardinality(X) = 0
          BY <1>1, <1>2, <2>3, GraphFacts, FS_Difference DEF Counted
        <5> HIDE DEF X
        <5>2. X = {}
          BY <5>1, FS_EmptySet
        <5> QED BY <4>1, <5>2 DEF X
      <4>3. PICK i \in DOMAIN s.ordered : s.ordered[i] = e.from
        BY <4>2 DEF E, O, Traversed, ToSet
      <4> QED BY <3>1, <3>3, <4>3
    <3> QED BY <3>1, <3>2, <3>3
  <2>12. LoopInv(w, s2)
    BY <2>6, <2>7, <2>8, <2>9, <2>10, <2>11 DEF LoopInv
  <2>13. Left(w, s2) <= Left(w, s) - 1
    <3> DEFINE rest == w.edges \ E
               out == Leaving(w, n)
    <3>1. Left(w, s) = Len(s.queue) + Cardinality(rest)
      BY DEF Left, E, O
    <3>2. Left(w, s2) = Len(r.queue) + Cardinality(rest \ out)
      <4>1. w.edges \ Traversed(w, ToSet(s2.ordered)) = rest \ out
        BY <2>7, <2>9
      <4> QED BY <2>8, <4>1 DEF Left
    <3>3. rest \cap out = out
      BY <2>5 DEF Leaving
    <3>4. Cardinality(rest \ out) = Cardinality(rest) - Cardinality(out)
      BY <1>4, <3>3, FS_Difference
    <3>5. Cardinality(out) \in Nat
      BY GraphFacts, FS_CardinalityType
    <3>6. Len(r.queue) \in Nat
      BY <2>6 DEF Marks
    <3>7. Len(r.queue) <= Len(s.queue) - 1 + Cardinality(out)
      BY <1>2, <2>2, <2>6
    <3> HIDE DEF rest, out
    <3> QED BY <1>2, <1>4, <3>1, <3>2, <3>4, <3>5, <3>6, <3>7 DEF rest
  <2> QED BY <2>12, <2>13 DEF s2
<1> QED BY <1>5, <1>6

LEMMA StartHolds ==
  ASSUME NEW w \in Graphs
  PROVE  LoopInv(w, Start(w)) /\ Left(w, Start(w)) <= TurnBound(w)
<1> DEFINE T == {n \in Nodes \ {w.entry} : Incoming(w, n) = {}}
           l == Listed(T)
           q == Queued(w)
<1>1. l \in Seq(Nodes) /\ ToSet(l) = T /\ Distinct(l)
  BY ListedFacts
<1>2. w.entry \in Nodes /\ Incoming(w, w.entry) = {}
  BY GraphFacts
<1>3. q = <<w.entry>> \o l
  BY DEF Queued
<1> HIDE DEF T, l, q
<1>4. /\ q \in Seq(Nodes) /\ Len(q) = Len(l) + 1 /\ q[1] = w.entry
      /\ \A i \in 1..Len(l) : q[i + 1] = l[i]
      /\ \A i \in 2..(Len(l) + 1) : q[i] = l[i - 1] /\ i - 1 \in DOMAIN l
      /\ Len(l) \in Nat /\ DOMAIN l = 1..Len(l) /\ DOMAIN q = 1..(Len(l) + 1)
  BY <1>1, <1>2, <1>3
<1>5. ToSet(q) = {w.entry} \cup T
  <2>1. ASSUME NEW i \in DOMAIN q PROVE q[i] \in {w.entry} \cup ToSet(l)
    <3>1. CASE i # 1
      <4>1. i \in 2..(Len(l) + 1)
        BY <1>4, <3>1
      <4> QED BY <1>4, <4>1 DEF ToSet
    <3> QED BY <1>4, <3>1
  <2>2. ASSUME NEW i \in DOMAIN l PROVE l[i] \in ToSet(q)
    <3>1. i + 1 \in DOMAIN q /\ q[i + 1] = l[i]
      BY <1>4
    <3> QED BY <3>1 DEF ToSet
  <2>3. w.entry \in ToSet(q)
    <3>1. 1 \in DOMAIN q
      BY <1>4
    <3> QED BY <1>4, <3>1 DEF ToSet
  <2> QED BY <1>1, <2>1, <2>2, <2>3 DEF ToSet
<1>6. Distinct(q)
  <2>1. w.entry \notin ToSet(l)
    BY <1>1 DEF T
  <2>2. ASSUME NEW i \in DOMAIN q, NEW j \in DOMAIN q, q[i] = q[j] PROVE i = j
    <3>1. ASSUME NEW k \in DOMAIN q, k # 1
          PROVE  k - 1 \in DOMAIN l /\ q[k] = l[k - 1] /\ q[k] # w.entry
      <4>1. k \in 2..(Len(l) + 1)
        BY <1>4, <3>1
      <4> QED BY <1>4, <2>1, <4>1 DEF ToSet
    <3>2. CASE i = 1 \/ j = 1
      BY <1>4, <2>2, <3>1, <3>2
    <3>3. CASE i # 1 /\ j # 1
      <4>1. i - 1 = j - 1
        BY <1>1, <2>2, <3>1, <3>3 DEF Distinct
      <4> QED BY <1>4, <4>1
    <3> QED BY <3>2, <3>3
  <2> QED BY <2>2 DEF Distinct
<1>7. Len(q) <= Cardinality(Nodes)
  <2>1. q \in Injection(1..Len(q), Nodes)
    <3>1. q \in [1..Len(q) -> Nodes]
      BY <1>4
    <3> QED BY <1>6, <3>1 DEF Injection, Distinct, IsInjective
  <2>2. Cardinality(1..Len(q)) = Len(q)
    BY <1>4, FS_Interval
  <2> QED BY <2>1, <2>2, SizeFacts, FS_Injection
<1> DEFINE s == Start(w)
<1>8. /\ s.queue = q /\ s.ordered = << >>
      /\ s.degree = [n \in Nodes |-> Cardinality(Incoming(w, n))]
      /\ s = [queue |-> q, ordered |-> << >>, degree |-> s.degree]
  BY DEF Start, q
<1>9. \A n \in Nodes : s.degree[n] = Cardinality(Incoming(w, n)) /\ s.degree[n] \in Nat
                       /\ (s.degree[n] = 0 <=> Incoming(w, n) = {})
  BY <1>8, GraphFacts, FS_CardinalityType, FS_EmptySet
<1> HIDE DEF s
<1>10. s \in LoopState
  <2>1. s.degree \in [Nodes -> Int]
    BY <1>8, <1>9
  <2> DEFINE none == << >>
  <2>2. none \in Seq(Nodes) /\ q \in Seq(Nodes)
    BY <1>4
  <2>3. s = [queue |-> q, ordered |-> none, degree |-> s.degree]
    BY <1>8
  <2> HIDE DEF none
  <2> QED BY <2>1, <2>2, <2>3 DEF LoopState
<1>11. /\ DOMAIN s.ordered = {} /\ ToSet(s.ordered) = {} /\ Distinct(s.ordered)
       /\ Traversed(w, {}) = {}
  BY <1>8 DEF ToSet, Distinct, Traversed
<1>12. Counted(w, s.degree, {})
  BY <1>9 DEF Counted
<1>13. Waiting(s.queue, s.degree, {})
  BY <1>2, <1>5, <1>8, <1>9 DEF Waiting, T
<1>14. LoopInv(w, s)
  BY <1>10, <1>11, <1>12, <1>13 DEF LoopInv
<1>15. Left(w, s) = Len(q) + Cardinality(w.edges)
  BY <1>8, <1>11 DEF Left
<1>16. Left(w, s) <= TurnBound(w)
  <2>1. /\ Len(q) \in Nat /\ Cardinality(w.edges) \in Nat
        /\ Cardinality(Nodes) \in Nat
    BY <1>4, GraphFacts, SizeFacts
  <2> QED BY <1>7, <1>15, <2>1 DEF TurnBound
<1> QED BY <1>14, <1>16 DEF s

LEMMA TurnsRecursion ==
  ASSUME NEW w \in Graphs
  PROVE  /\ TurnBound(w) \in Nat
         /\ Turns(w)[0] = Start(w)
         /\ \A k \in 1..TurnBound(w) :
              Turns(w)[k] = IF Turns(w)[k - 1].queue = << >> THEN Turns(w)[k - 1]
                            ELSE Turn(w, Turns(w)[k - 1])
<1> DEFINE N == TurnBound(w)
           S == {s \in LoopState : LoopInv(w, s)}
           s0 == Start(w)
           Next(s) == IF s.queue = << >> THEN s ELSE Turn(w, s)
           step == [k \in 1..N |-> [s \in S |-> Next(s)]]
           Body(f) == [k \in 0..N |->
                         IF k = 0 THEN s0
                         ELSE IF f[k - 1].queue = << >> THEN f[k - 1]
                         ELSE Turn(w, f[k - 1])]
<1>1. N \in Nat
  BY GraphFacts, SizeFacts DEF TurnBound
<1>2. s0 \in S
  BY StartHolds DEF LoopInv
<1>3. \A s \in S : Next(s) \in S
  BY TurnKeeps DEF LoopInv
<1>4. \A k \in 0..N : k # 0 => k \in 1..N /\ k - 1 \in 0..N
  BY <1>1
<1> HIDE DEF N, S, s0, Next
<1>5. step \in [1..N -> [S -> S]]
  BY <1>3
<1>6. PICK f \in [0..N -> S] :
        f = [k \in 0..N |-> IF k = 0 THEN s0 ELSE step[k][f[k - 1]]]
  <2> HIDE DEF step
  <2> QED BY <1>1, <1>2, <1>5, Recursion
<1>7. f = Body(f)
  <2>1. ASSUME NEW k \in 0..N
        PROVE  (IF k = 0 THEN s0 ELSE step[k][f[k - 1]])
                 = IF k = 0 THEN s0
                   ELSE IF f[k - 1].queue = << >> THEN f[k - 1]
                   ELSE Turn(w, f[k - 1])
    <3>1. CASE k # 0
      <4>1. step[k][f[k - 1]] = Next(f[k - 1])
        BY <1>4, <3>1
      <4> QED BY <3>1, <4>1 DEF Next
    <3> QED BY <3>1
  <2> HIDE DEF step
  <2> QED BY <1>6, <2>1
<1>8. Turns(w) = CHOOSE g : g = Body(g)
  BY DEF Turns, N, s0
<1> HIDE DEF Body
<1>9. Turns(w) = Body(Turns(w))
  BY <1>7, <1>8
<1> DEFINE R == Turns(w)
<1> HIDE DEF R
<1>10. R = [k \in 0..N |-> IF k = 0 THEN s0
                          ELSE IF R[k - 1].queue = << >> THEN R[k - 1]
                          ELSE Turn(w, R[k - 1])]
  BY <1>9 DEF Body, R
<1>11. R[0] = s0
  <2>1. 0 \in 0..N
    BY <1>1
  <2> QED BY <1>10, <2>1
<1>12. ASSUME NEW k \in 1..N
       PROVE  R[k] = IF R[k - 1].queue = << >> THEN R[k - 1] ELSE Turn(w, R[k - 1])
  <2>1. k \in 0..N /\ k # 0
    BY <1>1
  <2> QED BY <1>10, <2>1
<1> QED BY <1>1, <1>11, <1>12 DEF R, N, s0

\* The loop ends with an empty queue.
LEMMA LoopEnds ==
  ASSUME NEW w \in Graphs
  PROVE  LET s == Turns(w)[TurnBound(w)]
         IN  LoopInv(w, s) /\ s.queue = << >>
<1> DEFINE N == TurnBound(w)
           R == Turns(w)
           U == {k \in 0..N : /\ LoopInv(w, R[k])
                              /\ R[k].queue = << >> \/ Left(w, R[k]) <= N - k}
<1>1. /\ N \in Nat /\ R[0] = Start(w)
      /\ \A k \in 1..N : R[k] = IF R[k - 1].queue = << >> THEN R[k - 1]
                                ELSE Turn(w, R[k - 1])
  BY TurnsRecursion
<1>2. ASSUME NEW s, LoopInv(w, s)
      PROVE  Left(w, s) \in Nat /\ (Left(w, s) <= 0 => s.queue = << >>)
  <2>1. Len(s.queue) \in Nat /\ (Len(s.queue) = 0 => s.queue = << >>)
    BY <1>2 DEF LoopInv, LoopState
  <2> DEFINE X == w.edges \ Traversed(w, ToSet(s.ordered))
  <2>2. IsFiniteSet(X)
    BY GraphFacts, FS_Difference
  <2> HIDE DEF X
  <2>3. Cardinality(X) \in Nat
    BY <2>2, FS_CardinalityType
  <2>4. Left(w, s) = Len(s.queue) + Cardinality(X)
    BY DEF Left, X
  <2> QED BY <2>1, <2>3, <2>4
<1>3. LoopInv(w, Start(w)) /\ Left(w, Start(w)) <= N
  BY StartHolds
<1> HIDE DEF N, R
<1>4. 0 \in U
  <2>1. 0 \in 0..N /\ Left(w, R[0]) <= N - 0
    BY <1>1, <1>2, <1>3
  <2> QED BY <1>1, <1>3, <2>1
<1>5. ASSUME NEW k \in 1..N, k - 1 \in U PROVE k \in U
  <2>1. k \in 0..N /\ LoopInv(w, R[k - 1])
    BY <1>1, <1>5
  <2>2. CASE R[k - 1].queue = << >>
    BY <1>1, <2>1, <2>2
  <2>3. CASE R[k - 1].queue # << >>
    <3>1. R[k] = Turn(w, R[k - 1])
      BY <1>1, <2>3
    <3>2. LoopInv(w, R[k]) /\ Left(w, R[k]) <= Left(w, R[k - 1]) - 1
      BY <2>1, <2>3, <3>1, TurnKeeps
    <3>3. Left(w, R[k - 1]) <= N - (k - 1)
      BY <1>5, <2>3
    <3>4. Left(w, R[k]) \in Nat /\ Left(w, R[k - 1]) \in Nat
      BY <1>2, <2>1, <3>2
    <3>5. Left(w, R[k]) <= N - k
      BY <1>1, <2>1, <3>2, <3>3, <3>4
    <3> QED BY <2>1, <3>2, <3>5
  <2> QED BY <2>2, <2>3
<1>6. N \in U
  <2> HIDE DEF U
  <2>1. \A k \in 0..N : k \in U
    BY <1>1, <1>4, <1>5, UpTo
  <2> QED BY <1>1, <2>1
<1>7. LoopInv(w, R[N]) /\ R[N].queue = << >>
  <2>1. LoopInv(w, R[N]) /\ (R[N].queue = << >> \/ Left(w, R[N]) <= N - N)
    BY <1>6
  <2>2. N - N = 0
    BY <1>1
  <2> QED BY <1>2, <2>1, <2>2
<1> QED BY <1>7 DEF R, N

\* When the loop has ended every node is in the plan: of the nodes that were
\* not, one would have no edge from another of them, and would have been
\* queued.
LEMMA AllOrdered ==
  ASSUME NEW w \in Graphs, NEW s, LoopInv(w, s), s.queue = << >>
  PROVE  ToSet(s.ordered) = Nodes
<1> DEFINE O == ToSet(s.ordered)
           E == Traversed(w, O)
<1>1. O \subseteq Nodes
  BY DEF LoopInv, LoopState, ToSet
<1>2. /\ Counted(w, s.degree, E)
      /\ \A t \in Nodes : s.degree[t] = 0 => t \in O
  <2>1. ToSet(s.queue) = {}
    BY DEF ToSet
  <2> QED BY <2>1 DEF LoopInv, Waiting
<1> HIDE DEF O
<1>3. ASSUME Nodes \ O # {} PROVE FALSE
  <2>1. PICK n \in Nodes \ O : \A e \in Incoming(w, n) : e.from \notin Nodes \ O
    BY <1>3, GraphFacts
  <2>2. Incoming(w, n) \ E = {}
    BY <2>1, GraphFacts DEF Traversed, Incoming
  <2>3. s.degree[n] = 0
    BY <1>2, <2>2, FS_EmptySet DEF Counted
  <2> QED BY <1>2, <2>3
<1> QED BY <1>1, <1>3 DEF O

\* The planner lists every node of an acyclic graph once, each after the nodes
\* its incoming edges come from, however nodes and edges are listed
\* (planner.py:10-47).
THEOREM PlannerOrders ==
  ASSUME NEW w \in Graphs
  PROVE  Topological(w, Order(w))
<1> DEFINE s == Turns(w)[TurnBound(w)]
           p == s.ordered
<1>1. LoopInv(w, s) /\ s.queue = << >>
  BY LoopEnds
<1> HIDE DEF s
<1>2. ToSet(p) = Nodes
  BY <1>1, AllOrdered
<1>3. p \in Seq(Nodes) /\ Distinct(p)
  BY <1>1 DEF LoopInv, LoopState
<1>4. Order(w) = p
  <2> DEFINE rest == Listed({})
  <2>1. rest \in Seq(Nodes) /\ ToSet(rest) = {}
    BY ListedFacts
  <2>2. rest = << >>
    BY <2>1 DEF ToSet
  <2>3. Order(w) = p \o Listed(Nodes \ ToSet(p))
    BY DEF Order, s
  <2> HIDE DEF rest
  <2>4. Order(w) = p \o rest
    <3>1. Nodes \ ToSet(p) = {}
      BY <1>2
    <3> QED BY <2>3, <3>1 DEF rest
  <2> QED BY <1>3, <2>2, <2>4
<1>5. Len(p) \in Nat /\ DOMAIN p = 1..Len(p) /\ p \in [1..Len(p) -> Nodes]
  BY <1>3
<1>6. Len(p) = Len(NodeOrder)
  <2>1. p \in Bijection(1..Len(p), Nodes)
    BY <1>2, <1>3, <1>5 DEF Bijection, Injection, Surjection, Distinct, IsInjective, ToSet
  <2>2. IsFiniteSet(1..Len(p)) /\ Cardinality(1..Len(p)) = Len(p)
    BY <1>5, FS_Interval
  <2>3. Cardinality(Nodes) = Len(p)
    BY <2>1, <2>2, FS_Bijection DEF ExistsBijection
  <2> QED BY <2>3, SizeFacts
<1>7. ASSUME NEW e \in w.edges, NEW i \in DOMAIN p, NEW j \in DOMAIN p,
             p[i] = e.from, p[j] = e.to
      PROVE  i < j
  <2>1. PICK k \in 1..(j - 1) : p[k] = e.from
    BY <1>1, <1>7 DEF LoopInv
  <2>2. k \in DOMAIN p /\ k < j
    BY <1>5, <2>1
  <2>3. k = i
    BY <1>3, <1>7, <2>1, <2>2 DEF Distinct
  <2> QED BY <2>2, <2>3
<1> HIDE DEF p
<1>8. \A n \in Nodes : \E i \in DOMAIN p : p[i] = n
  BY <1>2 DEF ToSet
<1> QED BY <1>3, <1>4, <1>6, <1>7, <1>8 DEF Topological, Distinct
=============================================================================
