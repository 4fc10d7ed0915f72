----------------------------- MODULE Teams_proofs -----------------------------
(***************************************************************************)
(* Whatever the contract and the registry, the work that is bound is       *)
(* ordered and nobody judges what it has done.                             *)
(***************************************************************************)
EXTENDS Teams, FiniteSetTheorems, WellFoundedInduction, TLAPS

(***************************************************************************)
(* Numbers.  Induction is by the least counterexample.                     *)
(***************************************************************************)

LEMMA LeastIsMember ==
  ASSUME NEW S \in SUBSET Nat, S # {}
  PROVE  Min(S) \in S /\ \A y \in S : Min(S) <= y
<1>1. PICK x \in S : \A y \in S : ~(<<y, x>> \in OpToRel(<, Nat))
  BY NatLessThanWellFounded, WFMin
<1>2. \A y \in S : x =< y
  <2>. SUFFICES ASSUME NEW y \in S, y < x PROVE FALSE
    OBVIOUS
  <2>1. <<y, x>> \in OpToRel(<, Nat)
    BY DEF OpToRel
  <2>. QED
    BY <1>1, <2>1
<1>. QED
  BY <1>2 DEF Min

LEMMA NoCounterexample ==
  ASSUME NEW S \in SUBSET Nat, \A n \in S : \E m \in S : m < n
  PROVE  S = {}
<1>1. ASSUME S # {} PROVE FALSE
  <2>1. Min(S) \in S /\ \A y \in S : Min(S) <= y
    BY <1>1, LeastIsMember
  <2>2. PICK m \in S : m < Min(S)
    BY <2>1
  <2>3. m \in Nat /\ Min(S) \in Nat /\ Min(S) <= m
    BY <2>1
  <2>4. QED
    BY <2>2, <2>3
<1>2. QED
  BY <1>1

\* A function on a finite set is bounded.
LEMMA BoundedOn ==
  ASSUME NEW D, IsFiniteSet(D), NEW p \in [D -> Nat]
  PROVE  \E b \in Nat : \A x \in D : p[x] <= b
<1> DEFINE n == Cardinality(D)
<1>1. n \in Nat /\ ExistsBijection(1..n, D)
  BY FS_CardinalityType
<1> HIDE DEF n
<1>2. PICK f \in [1..n -> D] : \A y \in D : \E k \in 1..n : f[k] = y
  BY <1>1 DEF ExistsBijection, Bijection, Surjection
<1> DEFINE Good(k) == \E b \in Nat : \A j \in 1..k : p[f[j]] <= b
           Bad == {k \in 0..n : ~Good(k)}
<1>3. Good(0)
  OBVIOUS
<1>4. ASSUME NEW k \in 1..n, Good(k - 1) PROVE Good(k)
  <2>1. PICK b \in Nat : \A j \in 1..(k - 1) : p[f[j]] <= b
    BY <1>4
  <2>2. p[f[k]] \in Nat
    BY <1>2
  <2>3. PICK c \in Nat : p[f[k]] <= c /\ b <= c
    <3>1. CASE p[f[k]] <= b
      BY <3>1
    <3>2. CASE ~(p[f[k]] <= b)
      BY <2>2, <3>2
    <3>3. QED
      BY <3>1, <3>2
  <2>4. ASSUME NEW j \in 1..k PROVE p[f[j]] <= c
    <3>1. CASE j = k
      BY <2>3, <3>1
    <3>2. CASE j # k
      <4>1. j \in 1..(k - 1) /\ j \in 1..n
        BY <1>1, <3>2
      <4>2. p[f[j]] <= b /\ p[f[j]] \in Nat
        BY <1>2, <2>1, <4>1
      <4>3. QED
        BY <2>3, <4>2
    <3>3. QED
      BY <3>1, <3>2
  <2>5. QED
    BY <2>4
<1>5. Bad = {}
  <2> HIDE DEF Good
  <2>1. ASSUME NEW k \in Bad PROVE \E m \in Bad : m < k
    <3>1. k \in 1..n /\ k - 1 \in 0..n /\ k - 1 < k
      BY <1>1, <1>3
    <3>2. ~Good(k - 1)
      BY <1>4, <3>1
    <3>3. QED
      BY <3>1, <3>2
  <2>2. Bad \in SUBSET Nat
    BY <1>1
  <2> HIDE DEF Bad
  <2>3. QED
    BY <2>1, <2>2, NoCounterexample
<1>6. Good(n)
  <2> HIDE DEF Good
  <2>1. n \in 0..n
    BY <1>1
  <2>2. QED
    BY <1>5, <2>1
<1>7. QED
  BY <1>2, <1>6

LEMMA GreatestIsMember ==
  ASSUME NEW S \in SUBSET Nat, S # {}, NEW b \in Nat, \A y \in S : y <= b
  PROVE  Max(S) \in S /\ \A y \in S : y <= Max(S)
<1> DEFINE Bounds == {c \in Nat : \A y \in S : y <= c}
<1>1. Min(Bounds) \in Bounds /\ \A c \in Bounds : Min(Bounds) <= c
  BY LeastIsMember
<1> DEFINE m == Min(Bounds)
<1>2. m \in Nat /\ (\A y \in S : y <= m) /\ \A c \in Bounds : m <= c
  BY <1>1
<1> HIDE DEF m
<1>3. m \in S
  <2> SUFFICES ASSUME m \notin S PROVE FALSE
    OBVIOUS
  <2>1. ASSUME NEW y \in S PROVE y <= m - 1 /\ m - 1 \in Nat
    <3>1. y \in Nat /\ y <= m /\ y # m
      BY <1>2
    <3>2. QED
      BY <1>2, <3>1
  <2>2. m - 1 \in Bounds
    BY <2>1
  <2>3. QED
    BY <1>2, <2>2
<1>4. QED
  BY <1>2, <1>3 DEF Max

\* f[k] is what comes of k steps.
Iteration(f, S, step, start, n) ==
  f \in [0..n -> S] /\ f[0] = start /\ \A k \in 1..n : f[k] = step[f[k - 1]]

LEMMA Iterates ==
  ASSUME NEW S, NEW step \in [S -> S], NEW start \in S, NEW n \in Nat
  PROVE  \E f : Iteration(f, S, step, start, n)
<1> DEFINE Good(m) == \E f : Iteration(f, S, step, start, m)
           Bad == {m \in Nat : ~Good(m)}
<1>1. Good(0)
  <2>1. Iteration([k \in 0..0 |-> start], S, step, start, 0)
    BY DEF Iteration
  <2>2. QED
    BY <2>1
<1>2. ASSUME NEW m \in Nat, Good(m) PROVE Good(m + 1)
  <2>1. PICK f : Iteration(f, S, step, start, m)
    BY <1>2
  <2> DEFINE g == [k \in 0..(m + 1) |-> IF k = m + 1 THEN step[f[m]] ELSE f[k]]
  <2>2. f \in [0..m -> S] /\ f[m] \in S
    BY <2>1 DEF Iteration
  <2>3. g \in [0..(m + 1) -> S]
    BY <2>2
  <2>4. g[0] = start
    BY <2>1 DEF Iteration
  <2>5. ASSUME NEW k \in 1..(m + 1) PROVE g[k] = step[g[k - 1]]
    <3>1. CASE k = m + 1
      BY <3>1
    <3>2. CASE k # m + 1
      <4>1. k \in 1..m /\ k \in 0..(m + 1) /\ k - 1 \in 0..(m + 1) /\ k - 1 # m + 1
        BY <3>2
      <4>2. g[k] = f[k] /\ g[k - 1] = f[k - 1]
        BY <3>2, <4>1
      <4>3. QED
        BY <2>1, <4>1, <4>2 DEF Iteration
    <3>3. QED
      BY <3>1, <3>2
  <2> HIDE DEF g
  <2>6. Iteration(g, S, step, start, m + 1)
    BY <2>3, <2>4, <2>5 DEF Iteration
  <2>7. QED
    BY <2>6
<1>3. Bad = {}
  <2> HIDE DEF Good
  <2>1. ASSUME NEW m \in Bad PROVE \E l \in Bad : l < m
    <3>1. m # 0 /\ m - 1 \in Nat
      BY <1>1
    <3>2. ~Good(m - 1)
      BY <1>2, <3>1
    <3>3. QED
      BY <3>1, <3>2
  <2>2. Bad \in SUBSET Nat
    OBVIOUS
  <2> HIDE DEF Bad
  <2>3. QED
    BY <2>1, <2>2, NoCounterexample
<1>4. QED
  BY <1>3

LEMMA RepeatedIs ==
  ASSUME NEW S, NEW step \in [S -> S], NEW start \in S, NEW n \in Nat
  PROVE  \E f : Iteration(f, S, step, start, n) /\ Repeated(step, start, n) = f[n]
<1> DEFINE Def(g) == [k \in 0..n |-> IF k = 0 THEN start ELSE step[g[k - 1]]]
           f == CHOOSE g : g = Def(g)
<1>1. PICK g : Iteration(g, S, step, start, n)
  BY Iterates
<1>2. g = Def(g)
  <2>1. ASSUME NEW k \in 0..n PROVE g[k] = IF k = 0 THEN start ELSE step[g[k - 1]]
    BY <1>1 DEF Iteration
  <2>2. g = [k \in 0..n |-> g[k]]
    BY <1>1 DEF Iteration
  <2>3. QED
    BY <2>1, <2>2
<1>3. f = Def(f)
  BY <1>2
<1>4. Repeated(step, start, n) = f[n]
  BY DEF Repeated
<1> HIDE DEF f
<1>5. f[0] = start /\ \A k \in 1..n : f[k] = step[f[k - 1]]
  <2>1. ASSUME NEW k \in 0..n PROVE f[k] = IF k = 0 THEN start ELSE step[f[k - 1]]
    BY <1>3
  <2>2. QED
    BY <2>1
<1> DEFINE Bad == {k \in 0..n : f[k] \notin S}
<1>6. ASSUME NEW k \in Bad PROVE \E m \in Bad : m < k
  <2>1. k \in 1..n /\ k - 1 \in 0..n /\ k - 1 < k
    BY <1>5
  <2>2. f[k] = step[f[k - 1]] /\ f[k] \notin S
    BY <1>5, <2>1
  <2>3. f[k - 1] \notin S
    BY <2>2
  <2>4. QED
    BY <2>1, <2>3
<1>7. Bad \in SUBSET Nat
  OBVIOUS
<1>8. Bad = {}
  <2> HIDE DEF Bad
  <2>1. QED
    BY <1>6, <1>7, NoCounterexample
<1>9. f \in [0..n -> S]
  <2>1. \A k \in 0..n : f[k] \in S
    BY <1>8
  <2>2. f = [k \in 0..n |-> f[k]]
    BY <1>3
  <2>3. QED
    BY <2>1, <2>2
<1>10. QED
  BY <1>4, <1>5, <1>9 DEF Iteration

-----------------------------------------------------------------------------
(* Phases.                                                                 *)

LEMMA LaterIs ==
  ASSUME NEW D, IsFiniteSet(D), NEW phase \in [D -> Nat], NEW edges \in SUBSET (D \X D)
  PROVE  /\ Later(phase, edges) \in [D -> Nat]
         /\ \A x \in D : phase[x] <= Later(phase, edges)[x]
         /\ \A e \in edges : phase[e[1]] < Later(phase, edges)[e[2]]
         /\ \A x \in D : \/ Later(phase, edges)[x] = phase[x]
                         \/ \E e \in edges : e[2] = x /\ Later(phase, edges)[x] = phase[e[1]] + 1
<1> DEFINE Values(x) == {phase[x]} \cup {phase[e[1]] + 1 : e \in {f \in edges : f[2] = x}}
<1>1. ASSUME NEW x \in D PROVE Max(Values(x)) \in Values(x) /\ \A v \in Values(x) : v <= Max(Values(x))
  <2>1. PICK b \in Nat : \A y \in D : phase[y] <= b
    BY BoundedOn
  <2>2. ASSUME NEW v \in Values(x) PROVE v <= b + 1
    BY <2>1
  <2>3. b + 1 \in Nat
    OBVIOUS
  <2>4. Values(x) \in SUBSET Nat /\ Values(x) # {}
    OBVIOUS
  <2> HIDE DEF Values
  <2>5. QED
    BY <2>2, <2>3, <2>4, GreatestIsMember
<1>2. Later(phase, edges) = [x \in D |-> Max(Values(x))]
  BY DEF Later
<1>3. ASSUME NEW x \in D PROVE Values(x) \subseteq Nat
  OBVIOUS
<1>4. ASSUME NEW e \in edges PROVE e[1] \in D /\ e[2] \in D /\ phase[e[1]] + 1 \in Values(e[2])
  OBVIOUS
<1>5. ASSUME NEW e \in edges PROVE phase[e[1]] < Later(phase, edges)[e[2]]
  <2> HIDE DEF Values
  <2>1. phase[e[1]] + 1 <= Max(Values(e[2])) /\ Max(Values(e[2])) \in Nat /\ phase[e[1]] \in Nat
    BY <1>1, <1>3, <1>4
  <2>2. QED
    BY <1>2, <1>4, <2>1
<1>6. ASSUME NEW x \in D PROVE phase[x] <= Later(phase, edges)[x]
  BY <1>1, <1>2
<1>7. ASSUME NEW x \in D
      PROVE  \/ Later(phase, edges)[x] = phase[x]
             \/ \E e \in edges : e[2] = x /\ Later(phase, edges)[x] = phase[e[1]] + 1
  BY <1>1, <1>2
<1>8. Later(phase, edges) \in [D -> Nat]
  <2> HIDE DEF Values
  <2>1. QED
    BY <1>1, <1>2, <1>3
<1>9. QED
  BY <1>5, <1>6, <1>7, <1>8

\* The rounds by which phases are settled.
Round(D, edges) == [p \in [D -> Nat] |-> Later(p, edges)]

LEMMA SettledIs ==
  ASSUME NEW D, IsFiniteSet(D), NEW phase \in [D -> Nat], NEW edges \in SUBSET (D \X D)
  PROVE  \E f : /\ Iteration(f, [D -> Nat], Round(D, edges), phase, Cardinality(D))
                /\ Settled(phase, edges) = f[Cardinality(D)]
<1>1. Cardinality(D) \in Nat
  BY FS_CardinalityType
<1>2. Round(D, edges) \in [[D -> Nat] -> [D -> Nat]]
  BY LaterIs DEF Round
<1>3. Settled(phase, edges) = Repeated(Round(D, edges), phase, Cardinality(D))
  BY DEF Settled, Round
<1> DEFINE S == [D -> Nat]
           step == Round(D, edges)
<1>4. step \in [S -> S] /\ phase \in S
  BY <1>2
<1> HIDE DEF S, step
<1>5. \E f : /\ Iteration(f, S, step, phase, Cardinality(D))
             /\ Repeated(step, phase, Cardinality(D)) = f[Cardinality(D)]
  BY <1>1, <1>4, RepeatedIs
<1>6. QED
  BY <1>3, <1>5 DEF S, step

LEMMA SettledType ==
  ASSUME NEW D, IsFiniteSet(D), NEW phase \in [D -> Nat], NEW edges \in SUBSET (D \X D)
  PROVE  Settled(phase, edges) \in [D -> Nat]
<1>1. PICK f : /\ Iteration(f, [D -> Nat], Round(D, edges), phase, Cardinality(D))
               /\ Settled(phase, edges) = f[Cardinality(D)]
  BY SettledIs
<1>2. Cardinality(D) \in 0..Cardinality(D)
  BY FS_CardinalityType
<1>3. QED
  BY <1>1, <1>2 DEF Iteration

\* Ranks that grow along the edges can be taken from 1..Cardinality(D).
Compressed(D, rank, x) == Cardinality({y \in D : rank[y] <= rank[x]})

LEMMA CompressedIs ==
  ASSUME NEW D, IsFiniteSet(D), NEW rank \in [D -> Nat]
  PROVE  /\ \A x \in D : Compressed(D, rank, x) \in 1..Cardinality(D)
         /\ \A x, y \in D : rank[x] < rank[y] => Compressed(D, rank, x) < Compressed(D, rank, y)
<1> DEFINE Up(x) == {y \in D : rank[y] <= rank[x]}
<1>1. ASSUME NEW x \in D
      PROVE  /\ IsFiniteSet(Up(x)) /\ Cardinality(Up(x)) \in Nat /\ Cardinality(Up(x)) # 0
             /\ Cardinality(Up(x)) <= Cardinality(D) /\ Cardinality(D) \in Nat
  <2>1. IsFiniteSet(Up(x)) /\ Cardinality(Up(x)) <= Cardinality(D)
    BY FS_Subset
  <2>2. Up(x) # {}
    OBVIOUS
  <2> HIDE DEF Up
  <2>3. QED
    BY <2>1, <2>2, FS_CardinalityType, FS_EmptySet
<1>2. ASSUME NEW x \in D, NEW y \in D, rank[x] < rank[y]
      PROVE  Cardinality(Up(x)) < Cardinality(Up(y))
  <2>1. Up(x) \in SUBSET Up(y) /\ y \in Up(y) /\ y \notin Up(x)
    BY <1>2
  <2> HIDE DEF Up
  <2>2. Cardinality(Up(x)) <= Cardinality(Up(y)) /\ Cardinality(Up(x)) # Cardinality(Up(y))
    BY <1>1, <2>1, FS_Subset
  <2>3. QED
    BY <1>1, <2>2
<1>3. QED
  <2>1. \A x \in D : Compressed(D, rank, x) = Cardinality(Up(x))
    BY DEF Compressed
  <2> HIDE DEF Up
  <2>2. QED
    BY <1>1, <1>2, <2>1

\* Without a cycle the rounds come to rest: what comes after something is later.
LEMMA SettledOrders ==
  ASSUME NEW D, IsFiniteSet(D), NEW phase \in [D -> Nat], NEW edges \in SUBSET (D \X D),
         NEW rank \in [D -> Nat], \A e \in edges : rank[e[1]] < rank[e[2]]
  PROVE  \A e \in edges : Settled(phase, edges)[e[1]] < Settled(phase, edges)[e[2]]
<1> DEFINE n == Cardinality(D)
           r == [x \in D |-> Compressed(D, rank, x)]
<1>1. PICK f : Iteration(f, [D -> Nat], Round(D, edges), phase, n) /\ Settled(phase, edges) = f[n]
  BY SettledIs
<1>2. n \in Nat
  BY FS_CardinalityType
<1>3. /\ \A x \in D : r[x] \in 1..n
      /\ \A e \in edges : r[e[1]] < r[e[2]]
  BY CompressedIs
<1> HIDE DEF n, r
<1>4. /\ \A k \in 0..n : f[k] \in [D -> Nat]
      /\ \A k \in 1..n : f[k] = Later(f[k - 1], edges) /\ f[k - 1] \in [D -> Nat]
  <2>1. \A k \in 0..n : f[k] \in [D -> Nat]
    BY <1>1 DEF Iteration
  <2>2. ASSUME NEW k \in 1..n PROVE f[k] = Later(f[k - 1], edges) /\ f[k - 1] \in [D -> Nat]
    <3>1. k - 1 \in 0..n
      BY <1>2
    <3>2. f[k] = Round(D, edges)[f[k - 1]]
      BY <1>1 DEF Iteration
    <3>3. QED
      BY <2>1, <3>1, <3>2 DEF Round
  <2>3. QED
    BY <2>1, <2>2
<1> DEFINE Good(k) == \A x \in D : r[x] <= k => f[k][x] = f[k - 1][x]
           Bad == {k \in 1..n : ~Good(k)}
<1>5. ASSUME NEW k \in 1..n, k = 1 \/ Good(k - 1), NEW x \in D, r[x] <= k
      PROVE  f[k][x] = f[k - 1][x]
  <2>1. SUFFICES ASSUME f[k][x] # f[k - 1][x] PROVE FALSE
    OBVIOUS
  <2>2. PICK e \in edges : e[2] = x /\ f[k][x] = f[k - 1][e[1]] + 1
    BY <1>4, <2>1, LaterIs
  <2>3. e[1] \in D /\ r[e[1]] \in 1..n /\ r[x] \in 1..n /\ r[e[1]] < r[x]
    BY <1>3, <2>2
  <2>4. k # 1
    BY <1>5, <2>3
  <2>5. Good(k - 1) /\ k - 1 \in 1..n /\ (k - 1) - 1 \in 0..n /\ r[e[1]] <= k - 1
    BY <1>2, <1>5, <2>3, <2>4
  <2>6. f[k - 1][e[1]] = f[(k - 1) - 1][e[1]]
    BY <2>3, <2>5
  <2>7. f[(k - 1) - 1][e[1]] < f[k - 1][x]
    BY <1>4, <2>2, <2>5, LaterIs
  <2>8. f[k - 1][x] <= f[k][x]
    BY <1>4, LaterIs
  <2>9. f[k][x] \in Nat /\ f[k - 1][x] \in Nat /\ f[k - 1][e[1]] \in Nat
    BY <1>2, <1>4, <2>3
  <2>10. QED
    BY <2>1, <2>2, <2>6, <2>7, <2>8, <2>9
<1>6. Bad = {}
  <2>1. ASSUME NEW k \in Bad PROVE \E m \in Bad : m < k
    <3>1. k \in 1..n /\ ~Good(k)
      OBVIOUS
    <3> HIDE DEF Good
    <3>2. k # 1 /\ ~Good(k - 1)
      BY <1>5, <3>1 DEF Good
    <3>3. k - 1 \in 1..n /\ k - 1 < k
      BY <1>2, <3>1, <3>2
    <3>4. QED
      BY <3>2, <3>3
  <2>2. Bad \in SUBSET Nat
    BY <1>2
  <2> HIDE DEF Bad
  <2>3. QED
    BY <2>1, <2>2, NoCounterexample
<1>7. ASSUME NEW e \in edges PROVE f[n][e[1]] < f[n][e[2]]
  <2>1. e[1] \in D /\ e[2] \in D /\ r[e[1]] \in 1..n
    BY <1>3
  <2>2. n \in 1..n /\ r[e[1]] <= n
    BY <1>2, <2>1
  <2>3. f[n][e[1]] = f[n - 1][e[1]]
    BY <1>6, <2>1, <2>2
  <2>4. f[n - 1][e[1]] < f[n][e[2]]
    BY <1>4, <2>2, LaterIs
  <2>5. QED
    BY <2>3, <2>4
<1>8. QED
  BY <1>1, <1>7

-----------------------------------------------------------------------------
(* Orders.                                                                 *)

\* Some of the nodes, each once, and after all nodes that have an edge to it.
Sorted(order, nodes, edges) ==
  /\ order \in Seq(nodes)
  /\ \A p, q \in 1..Len(order) : order[p] = order[q] => p = q
  /\ \A q \in 1..Len(order) : \A e \in edges :
       e[2] = order[q] /\ e[1] \in nodes => \E p \in 1..Len(order) : p < q /\ order[p] = e[1]

LEMMA ExtendedIs ==
  ASSUME NEW nodes \in SUBSET Nat, NEW edges, NEW order \in Seq(nodes)
  PROVE  /\ Extended(order, nodes, edges) \in Seq(nodes)
         /\ Free(order, nodes, edges) = {} => Extended(order, nodes, edges) = order
         /\ Free(order, nodes, edges) # {} => Len(Extended(order, nodes, edges)) = Len(order) + 1
         /\ Sorted(order, nodes, edges) => Sorted(Extended(order, nodes, edges), nodes, edges)
<1>1. CASE Free(order, nodes, edges) = {}
  BY <1>1 DEF Extended
<1>2. CASE Free(order, nodes, edges) # {}
  <2> DEFINE a == Min(Free(order, nodes, edges))
             ext == Append(order, a)
  <2>1. a \in Free(order, nodes, edges)
    <3>1. Free(order, nodes, edges) \in SUBSET Nat
      BY DEF Free
    <3>2. QED
      BY <1>2, <3>1, LeastIsMember
  <2>2. a \in nodes
    BY <2>1 DEF Free
  <2>3. \A p \in 1..Len(order) : order[p] # a
    <3>1. \A p \in 1..Len(order) : order[p] \in Range(order)
      BY DEF Range
    <3>2. a \notin Range(order)
      BY <2>1 DEF Free
    <3> HIDE DEF a
    <3>3. QED
      BY <3>1, <3>2
  <2>4. \A e \in edges : e[2] = a /\ e[1] \in nodes => \E p \in 1..Len(order) : order[p] = e[1]
    BY <2>1 DEF Free, Range
  <2>5. Extended(order, nodes, edges) = ext
    BY <1>2 DEF Extended
  <2> HIDE DEF a
  <2>6. /\ ext \in Seq(nodes) /\ Len(ext) = Len(order) + 1 /\ Len(order) \in Nat
        /\ ext[Len(order) + 1] = a /\ \A p \in 1..Len(order) : ext[p] = order[p]
    BY <2>2
  <2> HIDE DEF ext
  <2>7. ASSUME Sorted(order, nodes, edges) PROVE Sorted(ext, nodes, edges)
    <3>1. ASSUME NEW p \in 1..Len(ext), NEW q \in 1..Len(ext), ext[p] = ext[q] PROVE p = q
      BY <2>3, <2>6, <2>7, <3>1 DEF Sorted
    <3>2. ASSUME NEW q \in 1..Len(ext), NEW e \in edges, e[2] = ext[q], e[1] \in nodes
          PROVE  \E p \in 1..Len(ext) : p < q /\ ext[p] = e[1]
      <4>1. CASE q = Len(order) + 1
        <5>1. PICK p \in 1..Len(order) : order[p] = e[1]
          BY <2>4, <2>6, <3>2, <4>1
        <5>2. p \in 1..Len(ext) /\ p < q /\ ext[p] = e[1]
          BY <2>6, <4>1, <5>1
        <5>3. QED
          BY <5>2
      <4>2. CASE q # Len(order) + 1
        <5>1. q \in 1..Len(order) /\ ext[q] = order[q]
          BY <2>6, <4>2
        <5>2. PICK p \in 1..Len(order) : p < q /\ order[p] = e[1]
          BY <2>7, <3>2, <5>1 DEF Sorted
        <5>3. p \in 1..Len(ext) /\ ext[p] = e[1]
          BY <2>6, <5>2
        <5>4. QED
          BY <5>2, <5>3
      <4>3. QED
        BY <4>1, <4>2
    <3>3. QED
      BY <2>6, <3>1, <3>2 DEF Sorted
  <2>8. QED
    BY <1>2, <2>5, <2>6, <2>7
<1>3. QED
  BY <1>1, <1>2

\* The orders by which a topological one is built.
Growth(nodes, edges) == [order \in Seq(nodes) |-> Extended(order, nodes, edges)]

LEMMA TopologicalIs ==
  ASSUME NEW nodes \in SUBSET Nat, IsFiniteSet(nodes), NEW edges
  PROVE  \E f : /\ Iteration(f, Seq(nodes), Growth(nodes, edges), <<>>, Cardinality(nodes))
                /\ Topological(nodes, edges) = f[Cardinality(nodes)]
                /\ \A k \in 0..Cardinality(nodes) : Sorted(f[k], nodes, edges)
<1> DEFINE n == Cardinality(nodes)
           S == Seq(nodes)
           step == Growth(nodes, edges)
<1>1. n \in Nat
  BY FS_CardinalityType
<1>2. step \in [S -> S] /\ <<>> \in S
  BY ExtendedIs DEF Growth
<1>3. Topological(nodes, edges) = Repeated(step, <<>>, n)
  BY DEF Topological, Growth
<1> HIDE DEF n, step
<1>4. PICK f : Iteration(f, S, step, <<>>, n) /\ Repeated(step, <<>>, n) = f[n]
  <2> HIDE DEF S
  <2>1. QED
    BY <1>1, <1>2, RepeatedIs
<1>5. f[0] = <<>> /\ (\A k \in 0..n : f[k] \in Seq(nodes)) /\ \A k \in 1..n : f[k] = step[f[k - 1]]
  BY <1>4 DEF Iteration
<1> DEFINE Bad == {k \in 0..n : ~Sorted(f[k], nodes, edges)}
<1>6. ASSUME NEW k \in Bad PROVE \E m \in Bad : m < k
  <2>1. k # 0
    BY <1>5 DEF Sorted
  <2>2. k \in 1..n /\ k - 1 \in 0..n /\ k - 1 < k
    BY <1>1, <2>1
  <2>3. f[k] = Extended(f[k - 1], nodes, edges) /\ f[k - 1] \in Seq(nodes)
    BY <1>5, <2>2 DEF step, Growth
  <2>4. ~Sorted(f[k - 1], nodes, edges)
    BY <2>3, ExtendedIs
  <2>5. QED
    BY <2>2, <2>4
<1>7. Bad = {}
  <2>1. Bad \in SUBSET Nat
    BY <1>1
  <2> HIDE DEF Bad
  <2>2. QED
    BY <1>6, <2>1, NoCounterexample
<1>8. \A k \in 0..n : Sorted(f[k], nodes, edges)
  BY <1>7
<1>9. QED
  BY <1>3, <1>4, <1>8 DEF n, step

LEMMA TopologicalSorted ==
  ASSUME NEW nodes \in SUBSET Nat, IsFiniteSet(nodes), NEW edges
  PROVE  Sorted(Topological(nodes, edges), nodes, edges)
<1>1. Cardinality(nodes) \in 0..Cardinality(nodes)
  BY FS_CardinalityType
<1>2. QED
  BY <1>1, TopologicalIs

\* In an order of full length every node has its place, and edges go forward.
LEMMA FullOrder ==
  ASSUME NEW nodes \in SUBSET Nat, IsFiniteSet(nodes), NEW edges, NEW order,
         Sorted(order, nodes, edges), Len(order) = Cardinality(nodes)
  PROVE  \E place \in [nodes -> 1..Len(order)] :
           /\ \A x \in nodes : order[place[x]] = x
           /\ \A e \in edges : e[1] \in nodes /\ e[2] \in nodes => place[e[1]] < place[e[2]]
<1> DEFINE n == Cardinality(nodes)
           place == [x \in nodes |-> CHOOSE p \in 1..n : order[p] = x]
<1>1. n \in Nat /\ Len(order) = n
  BY FS_CardinalityType
<1>2. IsFiniteSet(1..n) /\ Cardinality(1..n) = n
  BY <1>1, FS_Interval
<1> HIDE DEF n
<1>3. order \in [1..n -> nodes] /\ \A p, q \in 1..n : order[p] = order[q] => p = q
  BY <1>1 DEF Sorted
<1>4. order \in Injection(1..n, nodes)
  BY <1>3 DEF Injection, IsInjective
<1>5. order \in Surjection(1..n, nodes)
  BY <1>2, <1>4, FS_Injection DEF n
<1>6. \A x \in nodes : \E p \in 1..n : order[p] = x
  BY <1>5 DEF Surjection
<1>7. place \in [nodes -> 1..n] /\ \A x \in nodes : order[place[x]] = x
  BY <1>6
<1> HIDE DEF place
<1>8. ASSUME NEW e \in edges, e[1] \in nodes, e[2] \in nodes PROVE place[e[1]] < place[e[2]]
  <2>1. place[e[1]] \in 1..n /\ place[e[2]] \in 1..n /\ order[place[e[2]]] = e[2] /\ order[place[e[1]]] = e[1]
    BY <1>7, <1>8
  <2>2. PICK p \in 1..n : p < place[e[2]] /\ order[p] = e[1]
    BY <1>1, <1>8, <2>1 DEF Sorted
  <2>3. p = place[e[1]]
    BY <1>3, <2>1, <2>2
  <2>4. QED
    BY <2>2, <2>3
<1>9. QED
  BY <1>1, <1>7, <1>8

\* Without a cycle the order has full length.
LEMMA TopologicalFull ==
  ASSUME NEW nodes \in SUBSET Nat, IsFiniteSet(nodes), NEW edges, NEW rank \in [nodes -> Nat],
         \A e \in edges : e[1] \in nodes /\ e[2] \in nodes => rank[e[1]] < rank[e[2]]
  PROVE  Len(Topological(nodes, edges)) = Cardinality(nodes)
<1> DEFINE n == Cardinality(nodes)
<1>1. PICK f : /\ Iteration(f, Seq(nodes), Growth(nodes, edges), <<>>, n)
               /\ Topological(nodes, edges) = f[n]
               /\ \A k \in 0..n : Sorted(f[k], nodes, edges)
  BY TopologicalIs
<1>2. n \in Nat
  BY FS_CardinalityType
<1>3. ASSUME NEW order \in Seq(nodes), Len(order) < n
      PROVE  Free(order, nodes, edges) # {}
  <2> DEFINE left == nodes \ Range(order)
             m == Len(order)
  <2>1. left # {}
    <3> SUFFICES ASSUME left = {} PROVE FALSE
      OBVIOUS
    <3>1. \A x \in nodes : \E p \in 1..m : order[p] = x
      BY DEF Range
    <3>2. order \in Surjection(1..m, nodes) /\ m \in Nat
      BY <3>1 DEF Surjection
    <3>3. n <= m
      BY <3>2, FS_SurjCardinalityBound DEF ExistsSurjection
    <3>4. QED
      BY <1>2, <1>3, <3>2, <3>3
  <2> DEFINE ranks == {rank[x] : x \in left}
  <2>2. Min(ranks) \in ranks /\ \A y \in ranks : Min(ranks) <= y
    <3>1. ranks \in SUBSET Nat /\ ranks # {}
      BY <2>1
    <3> HIDE DEF ranks
    <3>2. QED
      BY <3>1, LeastIsMember
  <2>3. PICK a \in left : \A y \in left : rank[a] <= rank[y]
    BY <2>2
  <2>4. ASSUME NEW e \in edges, e[2] = a, e[1] \in nodes PROVE e[1] \in Range(order)
    <3> SUFFICES ASSUME e[1] \in left PROVE FALSE
      BY <2>4
    <3>1. rank[e[1]] < rank[a] /\ rank[a] <= rank[e[1]] /\ rank[a] \in Nat /\ rank[e[1]] \in Nat
      BY <2>3, <2>4
    <3>2. QED
      BY <3>1
  <2>5. a \in Free(order, nodes, edges)
    BY <2>3, <2>4 DEF Free
  <2>6. QED
    BY <2>5
<1> HIDE DEF n
<1>4. f[0] = <<>> /\ (\A k \in 0..n : f[k] \in Seq(nodes)) /\ \A k \in 1..n : f[k] = Growth(nodes, edges)[f[k - 1]]
  BY <1>1 DEF Iteration
<1> DEFINE Bad == {k \in 0..n : Len(f[k]) # k}
<1>5. ASSUME NEW k \in Bad PROVE \E m \in Bad : m < k
  <2>1. k # 0
    BY <1>4
  <2>2. k \in 1..n /\ k - 1 \in 0..n /\ k - 1 < k /\ k - 1 < n
    BY <1>2, <2>1
  <2>3. f[k] = Extended(f[k - 1], nodes, edges) /\ f[k - 1] \in Seq(nodes)
    BY <1>4, <2>2 DEF Growth
  <2>4. Len(f[k - 1]) # k - 1
    <3> SUFFICES ASSUME Len(f[k - 1]) = k - 1 PROVE FALSE
      OBVIOUS
    <3>1. Free(f[k - 1], nodes, edges) # {}
      BY <1>3, <2>2, <2>3
    <3>2. Len(f[k]) = Len(f[k - 1]) + 1
      BY <2>3, <3>1, ExtendedIs
    <3>3. QED
      BY <2>2, <3>2
  <2>5. QED
    BY <2>2, <2>4
<1>6. Bad = {}
  <2>1. Bad \in SUBSET Nat
    BY <1>2
  <2> HIDE DEF Bad
  <2>2. QED
    BY <1>5, <2>1, NoCounterexample
<1>7. n \in 0..n
  BY <1>2
<1>8. QED
  BY <1>1, <1>6, <1>7 DEF n

-----------------------------------------------------------------------------
(* What is selected.                                                       *)

IsSeq(s) == \E S : s \in Seq(S)

LEMMA SeqFacts ==
  ASSUME NEW s, IsSeq(s)
  PROVE  /\ Len(s) \in Nat /\ DOMAIN s = 1..Len(s)
         /\ IsFiniteSet(DOMAIN s) /\ Cardinality(DOMAIN s) = Len(s)
<1>1. Len(s) \in Nat /\ DOMAIN s = 1..Len(s)
  BY DEF IsSeq
<1> DEFINE n == Len(s)
<1> HIDE DEF n
<1>2. n \in Nat => IsFiniteSet(1..n) /\ Cardinality(1..n) = n
  BY FS_Interval
<1>3. QED
  BY <1>1, <1>2 DEF n

LEMMA AppendSeq ==
  ASSUME NEW s, IsSeq(s), NEW x
  PROVE  /\ IsSeq(Append(s, x)) /\ Range(Append(s, x)) = Range(s) \cup {x}
         /\ Len(Append(s, x)) = Len(s) + 1
<1>1. PICK S : s \in Seq(S)
  BY DEF IsSeq
<1> DEFINE T == S \cup {x}
           a == Append(s, x)
<1>2. s \in Seq(T) /\ x \in T
  BY <1>1
<1>3. /\ a \in Seq(T) /\ Len(a) = Len(s) + 1 /\ Len(s) \in Nat
      /\ a[Len(s) + 1] = x /\ \A k \in 1..Len(s) : a[k] = s[k]
  BY <1>2
<1> HIDE DEF a
<1>4. DOMAIN a = 1..(Len(s) + 1) /\ DOMAIN s = 1..Len(s)
  BY <1>2, <1>3
<1>5. Range(a) = Range(s) \cup {x}
  <2>1. ASSUME NEW y \in Range(a) PROVE y \in Range(s) \cup {x}
    <3>1. PICK k \in 1..(Len(s) + 1) : y = a[k]
      BY <1>4 DEF Range
    <3>2. CASE k = Len(s) + 1
      BY <1>3, <3>1, <3>2
    <3>3. CASE k # Len(s) + 1
      <4>1. k \in 1..Len(s)
        BY <1>3, <3>3
      <4>2. QED
        BY <1>3, <1>4, <3>1, <4>1 DEF Range
    <3>4. QED
      BY <3>2, <3>3
  <2>2. ASSUME NEW y \in Range(s) PROVE y \in Range(a)
    <3>1. PICK k \in 1..Len(s) : y = s[k]
      BY <1>4 DEF Range
    <3>2. k \in 1..(Len(s) + 1) /\ a[k] = y
      BY <1>3, <3>1
    <3>3. QED
      BY <1>4, <3>2 DEF Range
  <2>3. Len(s) + 1 \in 1..(Len(s) + 1)
    BY <1>3
  <2>4. x \in Range(a)
    BY <1>3, <1>4, <2>3 DEF Range
  <2>5. QED
    BY <2>1, <2>2, <2>4
<1>6. QED
  BY <1>3, <1>5 DEF IsSeq, a

LEMMA InjectedIs ==
  ASSUME NEW d, IsSeq(d), IsFiniteSet(GatesOf(d)), NEW tags, NEW c, NEW g, NEW role
  PROVE  LET i == Injected(d, tags, c, g, role)
         IN  IsSeq(i) /\ IsFiniteSet(GatesOf(i)) /\ Len(d) <= Len(i)
<1> DEFINE x == Demand(Len(d) + 1, c, role, {}, {g}, {})
<1>1. /\ IsSeq(Append(d, x)) /\ Range(Append(d, x)) = Range(d) \cup {x}
      /\ Len(Append(d, x)) = Len(d) + 1 /\ Len(d) \in Nat
  BY AppendSeq, SeqFacts
<1>2. GatesOf(Append(d, x)) = GatesOf(d) \cup {g}
  <2>1. x.gates = {g}
    BY DEF Demand
  <2> HIDE DEF x
  <2>2. QED
    BY <1>1, <2>1 DEF GatesOf
<1>3. IsFiniteSet(GatesOf(Append(d, x)))
  BY <1>2, FS_AddElement
<1>4. QED
  BY <1>1, <1>3 DEF Injected

LEMMA ConstrainedIs ==
  ASSUME contract \in Contracts
  PROVE  /\ IsSeq(Constrained) /\ IsFiniteSet(GatesOf(Constrained))
         /\ IsSeq(contract.demands) /\ Len(contract.demands) <= Len(Constrained)
<1> DEFINE d0 == contract.demands
           d1 == Injected(d0, {"regulated"}, Auditor, "security", "validator")
           d2 == Injected(d1, {"regulated"}, Compliance, "compliance", "validator")
           d3 == Injected(d2, {"security", "payments", "public-api"}, Auditor, "security", "validator")
           d4 == Injected(d3, {"public-api"}, Writer, "documentation", "builder")
<1>1. IsSeq(d0) /\ IsFiniteSet(GatesOf(d0))
  BY ContractsAssumption DEF IsSeq
<1>2. Constrained = d4
  BY DEF Constrained
<1> HIDE DEF d0
<1>3. IsSeq(d1) /\ IsFiniteSet(GatesOf(d1)) /\ Len(d0) <= Len(d1)
  BY <1>1, InjectedIs
<1> HIDE DEF d1
<1>4. IsSeq(d2) /\ IsFiniteSet(GatesOf(d2)) /\ Len(d1) <= Len(d2)
  BY <1>3, InjectedIs
<1> HIDE DEF d2
<1>5. IsSeq(d3) /\ IsFiniteSet(GatesOf(d3)) /\ Len(d2) <= Len(d3)
  BY <1>4, InjectedIs
<1> HIDE DEF d3
<1>6. IsSeq(d4) /\ IsFiniteSet(GatesOf(d4)) /\ Len(d3) <= Len(d4)
  BY <1>5, InjectedIs
<1> HIDE DEF d4
<1>7. Len(d0) \in Nat /\ Len(d1) \in Nat /\ Len(d2) \in Nat /\ Len(d3) \in Nat /\ Len(d4) \in Nat
  BY <1>1, <1>3, <1>4, <1>5, <1>6, SeqFacts
<1>8. Len(d0) <= Len(d4)
  BY <1>3, <1>4, <1>5, <1>6, <1>7
<1>9. QED
  BY <1>1, <1>2, <1>6, <1>8 DEF d0

LEMMA DemandsAre ==
  ASSUME contract \in Contracts
  PROVE  IsSeq(Demands) /\ IsFiniteSet(GatesOf(Demands))
<1> DEFINE c == Constrained
           own == Len(contract.demands)
           new == Len(c) - own
           At(i) == IF i <= new THEN own + i ELSE i - new
           Moved(d, i) == Demand(i, d.capability, d.role, d.paths, d.gates, {j + new : j \in d.deps})
<1>1. Demands = [i \in DOMAIN c |-> Moved(c[At(i)], i)]
  BY DEF Demands
<1>2. /\ Len(c) \in Nat /\ DOMAIN c = 1..Len(c) /\ own \in Nat /\ own <= Len(c)
      /\ IsFiniteSet(GatesOf(c))
  BY ConstrainedIs, SeqFacts
<1> HIDE DEF c, own
<1>3. \A i \in DOMAIN c : At(i) \in DOMAIN c
  BY <1>2
<1> HIDE DEF new, At
<1>4. IsSeq(Demands)
  <2> DEFINE S == {Moved(c[At(i)], i) : i \in DOMAIN c}
  <2>1. \A i \in DOMAIN c : Moved(c[At(i)], i) \in S
    OBVIOUS
  <2> HIDE DEF S, Moved
  <2>2. Demands \in [1..Len(c) -> S]
    BY <1>1, <1>2, <2>1
  <2>3. Demands \in Seq(S)
    BY <1>2, <2>2
  <2>. QED
    BY <2>3 DEF IsSeq
<1>5. \A i \in DOMAIN c : Demands[i].gates = c[At(i)].gates
  BY <1>1 DEF Demand
<1>6. GatesOf(Demands) \subseteq GatesOf(c)
  <2> HIDE DEF Moved
  <2>1. DOMAIN Demands = DOMAIN c
    BY <1>1
  <2>2. \A d \in Range(Demands) : \E e \in Range(c) : d.gates = e.gates
    BY <1>3, <1>5, <2>1 DEF Range
  <2>. QED
    BY <2>2 DEF GatesOf
<1>. QED
  BY <1>2, <1>4, <1>6, FS_Subset

LEMMA AddedIs ==
  ASSUME NEW sel, IsSeq(sel), NEW role, NEW type, NEW gates
  PROVE  IsSeq(Added(sel, role, type, gates))
BY AppendSeq DEF Added

LEMMA WithReviewerIs == ASSUME NEW sel, IsSeq(sel) PROVE IsSeq(WithReviewer(sel))
BY AddedIs DEF WithReviewer

LEMMA WithValidatorsIs == ASSUME NEW sel, IsSeq(sel) PROVE IsSeq(WithValidators(sel))
<1>1. IsSeq(GateOrder)
  BY TypesAssumption DEF IsSeq
<1>2. Unvalidated(sel) \in SUBSET DOMAIN GateOrder
  BY DEF Unvalidated
<1> DEFINE n == Cardinality(Unvalidated(sel))
<1>3. n \in Nat
  BY <1>1, <1>2, SeqFacts, FS_Subset, FS_CardinalityType
<1> HIDE DEF n
<1>4. PICK S : sel \in Seq(S)
  BY DEF IsSeq
<1>5. PICK v : WithValidators(sel) = sel \o [k \in 1..n |-> v[k]]
  <2> DEFINE v == [k \in 1..n |->
           LET gate == GateOrder[Nth(Unvalidated(sel), k)]  type == GateSpecialist(sel, gate)
           IN  Position(Demand(Len(sel) + k, type, "validator", {}, {gate}, {}), type)]
  <2>1. WithValidators(sel) = sel \o v
    BY DEF WithValidators, n
  <2>2. v = [k \in 1..n |-> v[k]]
    OBVIOUS
  <2>3. QED
    BY <2>1, <2>2
<1> DEFINE T == S \cup {v[k] : k \in 1..n}
           w == [k \in 1..n |-> v[k]]
<1>6. sel \in Seq(T) /\ w \in Seq(T)
  BY <1>3, <1>4
<1> HIDE DEF w, T
<1>7. sel \o w \in Seq(T)
  BY <1>6
<1>8. QED
  BY <1>5, <1>7 DEF IsSeq, w

LEMMA SelectedIs == ASSUME contract \in Contracts PROVE IsSeq(Selected)
<1> DEFINE s == [i \in DOMAIN Demands |-> Position(Demands[i], Select(Demands[i]))]
<1>1. IsSeq(s)
  <2>1. Len(Demands) \in Nat /\ DOMAIN Demands = 1..Len(Demands)
    BY DemandsAre, SeqFacts
  <2>2. s \in Seq({s[i] : i \in DOMAIN Demands})
    BY <2>1
  <2>3. QED
    BY <2>2 DEF IsSeq
<1>2. Selected = WithFallback(WithValidators(WithReviewers(s)))
  BY DEF Selected
<1> HIDE DEF s
<1>3. IsSeq(WithValidators(WithReviewers(s)))
  BY <1>1, WithReviewerIs, WithValidatorsIs DEF WithReviewers
<1>4. QED
  BY <1>2, <1>3, AddedIs DEF WithFallback

-----------------------------------------------------------------------------
(* Members.                                                                *)

LEMMA ImageFinite ==
  ASSUME NEW S, IsFiniteSet(S), NEW T, NEW f \in [S -> T], \A y \in T : \E x \in S : f[x] = y
  PROVE  IsFiniteSet(T)
<1>1. f \in Surjection(S, T)
  BY DEF Surjection
<1>2. QED
  BY <1>1, FS_Surjection

LEMMA OwnerIs ==
  ASSUME NEW sel, NEW i
  PROVE  Owner(sel, i).type = sel[i].type /\ Owner(sel, i).role = sel[i].demand.role
BY DEF Owner, Member

LEMMA OwnerNumber ==
  ASSUME NEW sel, IsSeq(sel), NEW i \in DOMAIN sel, sel[i].type \in Types
  PROVE  Owner(sel, i).n \in Nat
<1> DEFINE t == sel[i].type
           b == Cardinality({j \in 1..(i - 1) : sel[j].type = t /\ sel[j].demand.role = sel[i].demand.role})
<1>1. i \in Nat
  BY SeqFacts
<1>2. IsFiniteSet(1..(i - 1))
  BY <1>1, FS_Interval
<1>3. b \in Nat
  BY <1>2, FS_Subset, FS_CardinalityType
<1>4. Capacity[t] \in Nat
  BY TypesAssumption
<1>5. Owner(sel, i).n = IF Capacity[t] = 0 THEN 0 ELSE b \div Capacity[t]
  BY DEF Owner, Member
<1> HIDE DEF t, b
<1>6. QED
  BY <1>3, <1>4, <1>5

LEMMA MembersAre ==
  ASSUME NEW sel, IsSeq(sel), NEW members,
         members = Workers(sel) \cup NeededLeads(Workers(sel)),
         {m.type : m \in members} \subseteq Types
  PROVE  /\ IsFiniteSet(members)
         /\ \A m \in members : m.type \in Types /\ m.type \in Nat /\ m.n \in Nat
         /\ \A i \in DOMAIN sel : Owner(sel, i) \in members
<1>1. \A i \in DOMAIN sel : Owner(sel, i) \in Workers(sel)
  BY DEF Workers
<1>2. IsFiniteSet(Workers(sel))
  <2> DEFINE f == [i \in DOMAIN sel |-> Owner(sel, i)]
  <2>1. /\ f \in [DOMAIN sel -> Workers(sel)]
        /\ \A y \in Workers(sel) : \E i \in DOMAIN sel : f[i] = y
    BY DEF Workers
  <2>2. IsFiniteSet(DOMAIN sel)
    BY SeqFacts
  <2> HIDE DEF f
  <2>3. QED
    BY <2>1, <2>2, ImageFinite
<1>3. /\ IsFiniteSet(NeededLeads(Workers(sel)))
      /\ \A m \in NeededLeads(Workers(sel)) : m.n = 0
  <2> DEFINE W == Workers(sel)
             f == [m \in W |-> Member(DepartmentLead, "department-lead", 0, m.department)]
             L == {Member(TeamLead, "team-lead", 0, "LEADERSHIP")}
             F == {f[m] : m \in W}
  <2>1. IsFiniteSet(F)
    <3> HIDE DEF W
    <3>1. f \in [W -> F] /\ \A y \in F : \E m \in W : f[m] = y
      OBVIOUS
    <3>2. IsFiniteSet(W)
      BY <1>2 DEF W
    <3> HIDE DEF f, F
    <3>3. QED
      BY <3>1, <3>2, ImageFinite
  <2>2. IsFiniteSet(L \cup F)
    <3> HIDE DEF F
    <3>1. QED
      BY <2>1, FS_Singleton, FS_Union
  <2>3. NeededLeads(W) \in SUBSET (L \cup F)
    BY DEF NeededLeads
  <2>4. \A m \in L \cup F : m.n = 0
    BY DEF Member
  <2> HIDE DEF W, L, F
  <2>5. QED
    BY <2>2, <2>3, <2>4, FS_Subset DEF W
<1>4. IsFiniteSet(members)
  BY <1>2, <1>3, FS_Union
<1>5. ASSUME NEW m \in members PROVE m.type \in Types /\ m.type \in Nat /\ m.n \in Nat
  <2>1. m.type \in Types /\ m.type \in Nat
    BY TypesAssumption
  <2>2. CASE m \in Workers(sel)
    <3>1. PICK i \in DOMAIN sel : m = Owner(sel, i)
      BY <2>2 DEF Workers
    <3>2. sel[i].type \in Types
      BY <2>1, <3>1, OwnerIs
    <3>3. QED
      BY <2>1, <3>1, <3>2, OwnerNumber
  <2>3. CASE m \in NeededLeads(Workers(sel))
    BY <1>3, <2>1, <2>3
  <2>4. QED
    BY <2>2, <2>3
<1>6. QED
  BY <1>1, <1>4, <1>5

LEMMA FirstIs ==
  ASSUME NEW M, M # {}, \A m \in M : m.type \in Nat /\ m.n \in Nat
  PROVE  FirstOf(M) \in M
<1> DEFINE ts == {m.type : m \in M}
           t == Min(ts)
           ns == {m.n : m \in {k \in M : k.type = t}}
           n == Min(ns)
<1>1. t \in ts /\ \A y \in ts : t <= y
  <2>1. ts \in SUBSET Nat /\ ts # {}
    OBVIOUS
  <2> HIDE DEF ts
  <2>2. QED
    BY <2>1, LeastIsMember
<1>2. n \in ns /\ \A y \in ns : n <= y
  <2>1. ns \in SUBSET Nat /\ ns # {}
    <3> HIDE DEF t
    <3>1. QED
      BY <1>1
  <2> HIDE DEF ns
  <2>2. QED
    BY <2>1, LeastIsMember
<1> HIDE DEF n
<1>3. PICK m \in M : m.type = t /\ m.n = n
  <2> HIDE DEF t
  <2>1. QED
    BY <1>2
<1> HIDE DEF t
<1>4. ASSUME NEW k \in M PROVE Earlier(m, k)
  <2>1. t <= k.type /\ k.type \in Nat /\ t \in Nat
    BY <1>1
  <2>2. CASE k.type = t
    <3>1. n <= k.n
      BY <1>2, <2>2
    <3>2. QED
      BY <1>3, <2>2, <3>1 DEF Earlier
  <2>3. CASE k.type # t
    BY <1>3, <2>1, <2>3 DEF Earlier
  <2>4. QED
    BY <2>2, <2>3
<1>5. QED
  BY <1>4 DEF FirstOf

LEMMA ReviewerIs ==
  ASSUME NEW sel, NEW members, \A m \in members : m.type \in Nat /\ m.n \in Nat,
         NEW i, Reviewers(sel, members, i) # {}
  PROVE  Reviewer(sel, members, i) \in Reviewers(sel, members, i)
<1> DEFINE others == Reviewers(sel, members, i)
           versed == {m \in others : m.type \in Versed}
           able   == IF versed = {} THEN others ELSE versed
           far    == {m \in able : m.department # Owner(sel, i).department}
           from   == IF far = {} THEN able ELSE far
<1>1. Reviewer(sel, members, i) = FirstOf(from)
  BY DEF Reviewer
<1>2. from # {} /\ from \subseteq others
  OBVIOUS
<1>3. \A m \in from : m.type \in Nat /\ m.n \in Nat
  <2> HIDE DEF from
  <2>1. QED
    BY <1>2 DEF Reviewers
<1> HIDE DEF from
<1>4. FirstOf(from) \in from
  BY <1>2, <1>3, FirstIs
<1>5. QED
  BY <1>1, <1>2, <1>4

LEMMA ValidatorIs ==
  ASSUME NEW members, \A m \in members : m.type \in Nat /\ m.n \in Nat,
         NEW g, Validators(members, g) # {}
  PROVE  Validator(members, g) \in Validators(members, g)
<1> DEFINE able == Validators(members, g)
           preferred == {m \in able : m.type = GateDefault[g]}
           from == IF preferred = {} THEN able ELSE preferred
<1>1. Validator(members, g) = FirstOf(from)
  BY DEF Validator
<1>2. from # {} /\ from \subseteq able
  OBVIOUS
<1>3. \A m \in from : m.type \in Nat /\ m.n \in Nat
  <2> HIDE DEF from
  <2>1. QED
    BY <1>2 DEF Validators
<1> HIDE DEF from
<1>4. FirstOf(from) \in from
  BY <1>2, <1>3, FirstIs
<1>5. QED
  BY <1>1, <1>2, <1>4

-----------------------------------------------------------------------------
(* Teams.                                                                  *)

\* What is true of a team that was built, in which edges join the owned demands.
Within(sel, edges) == \A e \in edges : e[1] \in Owned(sel) /\ e[2] \in Owned(sel)

Sound(t) ==
  /\ IsSeq(t.selected) /\ IsFiniteSet(t.gates) /\ IsFiniteSet(t.members)
  /\ \A m \in t.members : m.type \in Types /\ m.type \in Nat /\ m.n \in Nat
  /\ \A i \in DOMAIN t.selected : Owner(t.selected, i) \in t.members
  /\ t.edges = Edges(t.selected)
  /\ \A i \in Builders(t.selected) : Reviewers(t.selected, t.members, i) # {}
  /\ \A g \in t.gates : Validators(t.members, g) # {}
  /\ Len(Topological(DOMAIN t.selected, t.edges)) = Len(t.selected)
  /\ Within(t.selected, t.edges) => t.phase \in [t.members -> Nat]

LEMMA EdgesArePairs == ASSUME NEW sel, NEW e \in Edges(sel) PROVE e = <<e[1], e[2]>>
<1>1. CASE e \in InputEdges(sel)
  BY <1>1 DEF InputEdges
<1>2. CASE e \in ResourceEdges(sel)
  BY <1>2 DEF ResourceEdges, InARow
<1>3. QED
  BY <1>1, <1>2 DEF Edges

LEMMA PhasesAre ==
  ASSUME NEW sel, IsSeq(sel), NEW members, IsFiniteSet(members),
         \A i \in DOMAIN sel : Owner(sel, i) \in members, Within(sel, Edges(sel))
  PROVE  MemberPhase(sel, members) \in [members -> Nat]
<1>1. Owned(sel) \subseteq DOMAIN sel
  BY DEF Owned, Builders
<1>2. Edges(sel) \in SUBSET ((DOMAIN sel) \X (DOMAIN sel))
  <2>1. ASSUME NEW e \in Edges(sel) PROVE e \in (DOMAIN sel) \X (DOMAIN sel)
    <3>1. e[1] \in DOMAIN sel /\ e[2] \in DOMAIN sel
      BY <1>1 DEF Within
    <3>2. e = <<e[1], e[2]>>
      BY EdgesArePairs
    <3>3. <<e[1], e[2]>> \in (DOMAIN sel) \X (DOMAIN sel)
      BY <3>1
    <3>4. QED
      BY <3>2, <3>3
  <2>2. QED
    BY <2>1
<1> DEFINE first == [i \in DOMAIN sel |-> IF sel[i].demand.role = "builder" THEN 2 ELSE 4]
           D == DOMAIN sel
<1>3. DemandPhase(sel) = Settled(first, Edges(sel))
  BY DEF DemandPhase
<1>4. first \in [D -> Nat] /\ IsFiniteSet(D)
  BY SeqFacts
<1> HIDE DEF first
<1>5. DemandPhase(sel) \in [D -> Nat]
  <2> DEFINE edges == Edges(sel)
  <2>1. edges \in SUBSET (D \X D)
    BY <1>2
  <2> HIDE DEF edges, D
  <2>2. Settled(first, edges) \in [D -> Nat]
    BY <1>4, <2>1, SettledType
  <2>3. QED
    BY <1>3, <2>2 DEF edges
<1> HIDE DEF D
<1>6. PICK b \in Nat : \A i \in D : DemandPhase(sel)[i] <= b
  BY <1>4, <1>5, BoundedOn
<1>7. ASSUME NEW m \in members PROVE FirstPhase(sel, members, m) \in Nat
  <2> DEFINE own == {i \in D : Owner(sel, i) = m}
             V == {1} \cup {DemandPhase(sel)[i] : i \in own}
  <2>1. V \in SUBSET Nat /\ V # {} /\ b + 1 \in Nat /\ \A y \in V : y <= b + 1
    BY <1>5, <1>6
  <2>2. Max(V) \in Nat
    <3> HIDE DEF V
    <3>1. QED
      BY <2>1, GreatestIsMember
  <2>3. FirstPhase(sel, members, m) \in {5, 7, 3, Max(V)}
    <3> HIDE DEF own
    <3>1. own = {i \in DOMAIN sel : Owner(sel, i) = m}
      BY DEF own, D
    <3>2. V = {1} \cup {DemandPhase(sel)[i] : i \in own}
      OBVIOUS
    <3> DEFINE gates == {g \in GatesOf(Demands) : Validator(members, g) = m}
               reviews == \E i \in Builders(sel) : Reviewer(sel, members, i) = m
    <3>3. FirstPhase(sel, members, m) =
            CASE gates # {} -> IF LastGate(gates) = "security" THEN 5 ELSE 7
              [] gates = {} /\ reviews -> 3
              [] OTHER -> Max(V)
      BY <3>1 DEF FirstPhase
    <3> HIDE DEF V, gates, reviews
    <3>4. CASE gates # {}
      BY <3>3, <3>4
    <3>5. CASE gates = {} /\ reviews
      BY <3>3, <3>5
    <3>6. CASE gates = {} /\ ~reviews
      BY <3>3, <3>6
    <3>7. QED
      BY <3>4, <3>5, <3>6
  <2>4. QED
    BY <2>2, <2>3
<1> DEFINE p == [m \in members |-> FirstPhase(sel, members, m)]
<1>8. p \in [members -> Nat]
  BY <1>7
<1>9. MemberEdges(sel) \in SUBSET (members \X members)
  <2>1. ASSUME NEW e \in MemberEdges(sel) PROVE e \in members \X members
    <3>1. PICK d \in Edges(sel) : e = <<Owner(sel, d[1]), Owner(sel, d[2])>>
      BY DEF MemberEdges
    <3>2. d[1] \in DOMAIN sel /\ d[2] \in DOMAIN sel
      BY <1>1 DEF Within
    <3>3. Owner(sel, d[1]) \in members /\ Owner(sel, d[2]) \in members
      BY <3>2
    <3>4. QED
      BY <3>1, <3>3
  <2>2. QED
    BY <2>1
<1>10. MemberPhase(sel, members) = Settled(p, MemberEdges(sel))
  BY DEF MemberPhase
<1> HIDE DEF p
<1>11. QED
  BY <1>8, <1>9, <1>10, SettledType

LEMMA BuiltIs == ASSUME contract \in Contracts, Built.code = "BUILT" PROVE Sound(Built)
<1> DEFINE sel == Selected
           members == Workers(sel) \cup NeededLeads(Workers(sel))
           gates == GatesOf(Demands)
           t == [code |-> "BUILT", selected |-> sel, members |-> members, gates |-> gates,
                 edges |-> Edges(sel), phase |-> MemberPhase(sel, members)]
<1>1. Built = Staffed(sel, members, gates)
  BY DEF Built, Refused
<1>2. IsSeq(sel) /\ IsFiniteSet(gates)
  BY SelectedIs, DemandsAre
<1> HIDE DEF sel, gates
<1>3. /\ Built = t /\ {m.type : m \in members} \subseteq Types
      /\ Compatibly(sel, members, gates) /\ Orderly(sel, members)
  <2> HIDE DEF members
  <2>1. QED
    BY <1>1 DEF Staffed, Refused
<1>4. /\ IsFiniteSet(members)
      /\ \A m \in members : m.type \in Types /\ m.type \in Nat /\ m.n \in Nat
      /\ \A i \in DOMAIN sel : Owner(sel, i) \in members
  BY <1>2, <1>3, MembersAre
<1> HIDE DEF members
<1>5. /\ \A i \in Builders(sel) : Reviewers(sel, members, i) # {}
      /\ \A g \in gates : Validators(members, g) # {}
  BY <1>3 DEF Compatibly, MayReview, MayValidate
<1>6. Len(Topological(DOMAIN sel, Edges(sel))) = Len(sel)
  BY <1>3 DEF Orderly
<1>7. Within(sel, Edges(sel)) => MemberPhase(sel, members) \in [members -> Nat]
  BY <1>2, <1>4, PhasesAre
<1>8. /\ t.selected = sel /\ t.members = members /\ t.gates = gates
      /\ t.edges = Edges(sel) /\ t.phase = MemberPhase(sel, members)
  OBVIOUS
<1> HIDE DEF t
<1>9. Sound(t)
  BY <1>2, <1>4, <1>5, <1>6, <1>7, <1>8 DEF Sound
<1>10. QED
  BY <1>3, <1>9

\* What was built is sound, and what was bound comes from it.
Inv ==
  /\ contract \in Contracts
  /\ team.code = "BUILT" => Sound(team)
  /\ Bound => /\ team.code = "BUILT" /\ Manifest(team)
              /\ Builders(team.selected) = Owned(team.selected)
              /\ rows.owner = AssignedTo(team) /\ rows.needs = Prerequisites(team)
              /\ rows.phase = Scheduled(team)

THEOREM TeamsInv == Spec => []Inv
<1>1. ASSUME Init PROVE Inv
  BY <1>1 DEF Init, Inv, None, Bound
<1>2. ASSUME Inv, [Next]_vars PROVE Inv'
  <2>1. CASE UNCHANGED vars
    <3>1. contract' = contract /\ team' = team /\ rows' = rows
      BY <2>1 DEF vars
    <3>2. QED
      BY <1>2, <3>1 DEF Inv, Bound
  <2>2. CASE Build
    <3>1. team' = Built /\ contract' = contract /\ rows' = rows /\ contract \in Contracts
      BY <1>2, <2>2 DEF Build, Inv
    <3>2. team'.code = "BUILT" => Sound(team')
      BY <3>1, BuiltIs
    <3>3. ~Bound
      BY <1>2, <2>2 DEF Build, Inv, None
    <3>4. ~Bound'
      BY <3>1, <3>3 DEF Bound
    <3>5. QED
      BY <3>1, <3>2, <3>4 DEF Inv
  <2>3. CASE Bind
    <3>1. /\ team' = team /\ contract' = contract /\ team.code = "BUILT"
          /\ contract \in Contracts /\ Sound(team)
      BY <1>2, <2>3 DEF Bind, Inv
    <3>2. Bound' => /\ Manifest(team) /\ Builders(team.selected) = Owned(team.selected)
                    /\ rows'.owner = AssignedTo(team) /\ rows'.needs = Prerequisites(team)
                    /\ rows'.phase = Scheduled(team)
      BY <2>3 DEF Bind, Bound, Refused
    <3>3. QED
      BY <3>1, <3>2 DEF Inv
  <2>4. QED
    BY <1>2, <2>1, <2>2, <2>3 DEF Next
<1>3. QED
  BY <1>1, <1>2, PTL DEF Spec

-----------------------------------------------------------------------------
(* Verdicts.                                                               *)

LEMMA OwnersOf ==
  ASSUME Inv, Bound
  PROVE  /\ \A i \in Owned(team.selected) : rows.owner[Work(i)] = Owner(team.selected, i)
         /\ \A i \in Builders(team.selected) :
              rows.owner[ReviewOf(i)] \in Reviewers(team.selected, team.members, i)
         /\ \A g \in team.gates : rows.owner[ValidateOf(g)] \in Validators(team.members, g)
<1>1. Sound(team) /\ rows.owner = AssignedTo(team)
  BY DEF Inv
<1>2. \A m \in team.members : m.type \in Nat /\ m.n \in Nat
  BY <1>1 DEF Sound
<1>3. ASSUME NEW i \in Owned(team.selected) PROVE rows.owner[Work(i)] = Owner(team.selected, i)
  <2>1. Work(i) \in Assignments(team) /\ Work(i)[1] = "work" /\ Work(i)[2] = i
    BY DEF Assignments, Work
  <2> HIDE DEF Work
  <2>2. QED
    BY <1>1, <2>1 DEF AssignedTo
<1>4. ASSUME NEW i \in Builders(team.selected)
      PROVE  rows.owner[ReviewOf(i)] \in Reviewers(team.selected, team.members, i)
  <2>1. ReviewOf(i) \in Assignments(team) /\ ReviewOf(i)[1] = "review" /\ ReviewOf(i)[2] = i
    BY DEF Assignments, ReviewOf
  <2>2. rows.owner[ReviewOf(i)] = Reviewer(team.selected, team.members, i)
    BY <1>1, <2>1 DEF AssignedTo
  <2>3. Reviewers(team.selected, team.members, i) # {}
    BY <1>1 DEF Sound
  <2>4. QED
    BY <1>2, <2>2, <2>3, ReviewerIs
<1>5. ASSUME NEW g \in team.gates
      PROVE  rows.owner[ValidateOf(g)] \in Validators(team.members, g)
  <2>1. ValidateOf(g) \in Assignments(team) /\ ValidateOf(g)[1] = "gate" /\ ValidateOf(g)[2] = g
    BY DEF Assignments, ValidateOf
  <2>2. rows.owner[ValidateOf(g)] = Validator(team.members, g)
    BY <1>1, <2>1 DEF AssignedTo
  <2>3. Validators(team.members, g) # {}
    BY <1>1 DEF Sound
  <2>4. QED
    BY <1>2, <2>2, <2>3, ValidatorIs
<1>6. QED
  BY <1>3, <1>4, <1>5

\* Nobody reviews what it has built, and who decides a gate has neither built
\* nor reviewed: with any registry, whatever a contract demands.
THEOREM VerdictsAreAlwaysIndependent == Spec => []VerdictsAreIndependent
<1>1. ASSUME Inv PROVE VerdictsAreIndependent
  <2> SUFFICES ASSUME Bound PROVE VerdictsAreIndependent
    BY DEF VerdictsAreIndependent
  <2>1. Builders(team.selected) = Owned(team.selected)
    BY <1>1 DEF Inv
  <2>2. ASSUME NEW i \in Builders(team.selected)
        PROVE  rows.owner[Work(i)].role = "builder" /\ rows.owner[Work(i)] = Owner(team.selected, i)
    BY <1>1, <2>1, OwnersOf, OwnerIs DEF Builders
  <2>3. ASSUME NEW i \in Builders(team.selected)
        PROVE  /\ rows.owner[ReviewOf(i)] # rows.owner[Work(i)]
               /\ rows.owner[ReviewOf(i)].role = "reviewer"
    BY <1>1, <2>2, OwnersOf DEF Reviewers
  <2>4. ASSUME NEW g \in team.gates
        PROVE  rows.owner[ValidateOf(g)].role \notin {"builder", "reviewer"}
    BY <1>1, OwnersOf DEF Validators
  <2>5. QED
    BY <2>2, <2>3, <2>4 DEF VerdictsAreIndependent
<1>2. QED
  BY <1>1, TeamsInv, PTL

-----------------------------------------------------------------------------
(* Order.                                                                  *)

LEMMA OwnedAre ==
  ASSUME NEW sel, IsSeq(sel)
  PROVE  /\ Owned(sel) \in SUBSET DOMAIN sel /\ IsFiniteSet(Owned(sel))
         /\ DOMAIN sel \in SUBSET Nat /\ Owned(sel) \in SUBSET Nat
<1>1. Owned(sel) \in SUBSET DOMAIN sel
  BY DEF Owned, Builders
<1>2. DOMAIN sel \in SUBSET Nat /\ IsFiniteSet(DOMAIN sel)
  BY SeqFacts
<1>3. QED
  BY <1>1, <1>2, FS_Subset

LEMMA AssignmentsAre ==
  ASSUME NEW t, Sound(t), Builders(t.selected) = Owned(t.selected)
  PROVE  IsFiniteSet(Assignments(t)) /\ Cardinality(Owned(t.selected)) <= Cardinality(Assignments(t))
<1> DEFINE O == Owned(t.selected)
           works == {Work(i) : i \in O}
           reviews == {ReviewOf(i) : i \in O}
           gates == {ValidateOf(g) : g \in t.gates}
           f == [i \in O |-> Work(i)]
           h == [i \in O |-> ReviewOf(i)]
           v == [g \in t.gates |-> ValidateOf(g)]
<1>1. IsFiniteSet(O) /\ IsFiniteSet(t.gates)
  BY OwnedAre DEF Sound
<1>2. Assignments(t) = works \cup reviews \cup gates
  BY DEF Assignments
<1> HIDE DEF O
<1>3. IsFiniteSet(works)
  <2>1. f \in [O -> works] /\ \A y \in works : \E i \in O : f[i] = y
    OBVIOUS
  <2> HIDE DEF f, works
  <2>2. QED
    BY <1>1, <2>1, ImageFinite
<1>4. IsFiniteSet(reviews)
  <2>1. h \in [O -> reviews] /\ \A y \in reviews : \E i \in O : h[i] = y
    OBVIOUS
  <2> HIDE DEF h, reviews
  <2>2. QED
    BY <1>1, <2>1, ImageFinite
<1>5. IsFiniteSet(gates)
  <2>1. v \in [t.gates -> gates] /\ \A y \in gates : \E g \in t.gates : v[g] = y
    OBVIOUS
  <2> HIDE DEF v, gates
  <2>2. QED
    BY <1>1, <2>1, ImageFinite
<1>6. f \in Injection(O, works)
  BY DEF Injection, IsInjective, Work
<1> HIDE DEF works, reviews, gates, f
<1>7. IsFiniteSet(Assignments(t))
  BY <1>2, <1>3, <1>4, <1>5, FS_Union
<1>8. Cardinality(O) <= Cardinality(works)
  BY <1>3, <1>6, FS_Injection
<1>9. Cardinality(works) <= Cardinality(Assignments(t))
  BY <1>2, <1>7, FS_Subset
<1>10. Cardinality(O) \in Nat /\ Cardinality(works) \in Nat /\ Cardinality(Assignments(t)) \in Nat
  BY <1>1, <1>3, <1>7, FS_CardinalityType
<1>11. QED
  BY <1>7, <1>8, <1>9, <1>10 DEF O

\* Kinds of assignments, apart from each other.
LEMMA Kinds ==
  ASSUME NEW t, Builders(t.selected) = Owned(t.selected), NEW a \in Assignments(t)
  PROVE  \/ \E i \in Owned(t.selected) : a = Work(i)
         \/ \E i \in Owned(t.selected) : a = ReviewOf(i)
         \/ \E g \in t.gates : a = ValidateOf(g)
BY DEF Assignments

\* The places of the demands in the order of the team.
LEMMA PlacesOf ==
  ASSUME NEW t, Sound(t)
  PROVE  \E place \in [DOMAIN t.selected -> 1..Len(t.selected)] :
           \A e \in t.edges : e[1] \in DOMAIN t.selected /\ e[2] \in DOMAIN t.selected
                               => place[e[1]] < place[e[2]]
<1> DEFINE D == DOMAIN t.selected
           order == Topological(D, t.edges)
<1>1. IsSeq(t.selected) /\ Len(order) = Len(t.selected)
  BY DEF Sound
<1>2. D \in SUBSET Nat /\ IsFiniteSet(D) /\ Len(order) = Cardinality(D)
  BY <1>1, SeqFacts, OwnedAre
<1> HIDE DEF D
<1>3. Sorted(order, D, t.edges)
  BY <1>2, TopologicalSorted
<1> HIDE DEF order
<1>4. PICK place \in [D -> 1..Len(order)] :
        \A e \in t.edges : e[1] \in D /\ e[2] \in D => place[e[1]] < place[e[2]]
  BY <1>2, <1>3, FullOrder
<1>5. place \in [D -> 1..Len(t.selected)]
  BY <1>1, <1>4
<1>6. QED
  BY <1>4, <1>5 DEF D

LEMMA NeedsAre ==
  ASSUME NEW t, Builders(t.selected) = Owned(t.selected), Within(t.selected, t.edges)
  PROVE  /\ Prerequisites(t) \in SUBSET (Assignments(t) \X Assignments(t))
         /\ \A e \in Prerequisites(t) :
              \/ \E d \in t.edges : e = <<Work(d[1]), Work(d[2])>>
              \/ \E i \in Owned(t.selected) : e = <<Work(i), ReviewOf(i)>>
              \/ \E i \in Owned(t.selected), g \in t.gates : e = <<ReviewOf(i), ValidateOf(g)>>
<1>1. ASSUME NEW e \in Prerequisites(t)
      PROVE  \/ \E d \in t.edges : e = <<Work(d[1]), Work(d[2])>>
             \/ \E i \in Owned(t.selected) : e = <<Work(i), ReviewOf(i)>>
             \/ \E i \in Owned(t.selected), g \in t.gates : e = <<ReviewOf(i), ValidateOf(g)>>
  BY DEF Prerequisites
<1>2. /\ \A i \in Owned(t.selected) : Work(i) \in Assignments(t) /\ ReviewOf(i) \in Assignments(t)
      /\ \A g \in t.gates : ValidateOf(g) \in Assignments(t)
  BY DEF Assignments
<1>3. ASSUME NEW e \in Prerequisites(t) PROVE e \in Assignments(t) \X Assignments(t)
  <2>1. ASSUME NEW d \in t.edges, e = <<Work(d[1]), Work(d[2])>>
        PROVE  e \in Assignments(t) \X Assignments(t)
    <3>1. Work(d[1]) \in Assignments(t) /\ Work(d[2]) \in Assignments(t)
      BY <1>2 DEF Within
    <3>2. QED
      BY <2>1, <3>1
  <2>2. QED
    BY <1>1, <1>2, <2>1
<1>4. QED
  BY <1>1, <1>3

\* Every assignment is in a later phase than what it waits for.
LEMMA ScheduleOrders ==
  ASSUME NEW t, Sound(t), Builders(t.selected) = Owned(t.selected), Within(t.selected, t.edges)
  PROVE  /\ Scheduled(t) \in [Assignments(t) -> Nat]
         /\ \A e \in Prerequisites(t) : Scheduled(t)[e[1]] < Scheduled(t)[e[2]]
<1> DEFINE A == Assignments(t)
           O == Owned(t.selected)
           P == Prerequisites(t)
           h == [a \in A |-> t.phase[AssignedTo(t)[a]]]
           N == Len(t.selected)
<1>1. IsFiniteSet(A)
  BY AssignmentsAre
<1>2. P \in SUBSET (A \X A)
  BY NeedsAre
<1>3. PICK place \in [DOMAIN t.selected -> 1..N] :
        \A e \in t.edges : e[1] \in DOMAIN t.selected /\ e[2] \in DOMAIN t.selected
                            => place[e[1]] < place[e[2]]
  BY PlacesOf
<1>4. N \in Nat /\ O \subseteq DOMAIN t.selected
  BY SeqFacts, OwnedAre DEF Sound
<1> DEFINE rank == [a \in A |-> IF a[1] = "work" THEN place[a[2]]
                                ELSE IF a[1] = "review" THEN N + 1 ELSE N + 2]
<1>5. /\ \A i \in O : Work(i) \in A /\ ReviewOf(i) \in A
      /\ \A g \in t.gates : ValidateOf(g) \in A
  BY DEF Assignments
<1>6. /\ \A i \in O : rank[Work(i)] = place[i] /\ place[i] \in 1..N /\ rank[ReviewOf(i)] = N + 1
      /\ \A g \in t.gates : rank[ValidateOf(g)] = N + 2
  BY <1>3, <1>4, <1>5 DEF Work, ReviewOf, ValidateOf
<1> HIDE DEF N, rank
<1>7. rank = [a \in A |-> rank[a]]
  BY DEF rank
<1>8. rank \in [A -> Nat]
  <2>1. ASSUME NEW a \in A PROVE rank[a] \in Nat
    BY <1>4, <1>6, Kinds
  <2>2. QED
    BY <1>7, <2>1
<1>9. ASSUME NEW e \in P PROVE rank[e[1]] < rank[e[2]]
  <2>1. ASSUME NEW d \in t.edges, e = <<Work(d[1]), Work(d[2])>> PROVE rank[e[1]] < rank[e[2]]
    <3>1. d[1] \in O /\ d[2] \in O
      BY DEF Within
    <3>2. place[d[1]] < place[d[2]]
      BY <1>3, <1>4, <3>1
    <3>3. e[1] = Work(d[1]) /\ e[2] = Work(d[2])
      BY <2>1
    <3>4. QED
      BY <1>6, <3>1, <3>2, <3>3
  <2>2. ASSUME NEW i \in O, e = <<Work(i), ReviewOf(i)>> PROVE rank[e[1]] < rank[e[2]]
    <3>1. e[1] = Work(i) /\ e[2] = ReviewOf(i)
      BY <2>2
    <3>2. QED
      BY <1>4, <1>6, <3>1
  <2>3. ASSUME NEW i \in O, NEW g \in t.gates, e = <<ReviewOf(i), ValidateOf(g)>>
        PROVE  rank[e[1]] < rank[e[2]]
    <3>1. e[1] = ReviewOf(i) /\ e[2] = ValidateOf(g)
      BY <2>3
    <3>2. QED
      BY <1>4, <1>6, <3>1
  <2>4. QED
    BY <2>1, <2>2, <2>3, NeedsAre
<1>10. h \in [A -> Nat]
  <2>1. t.phase \in [t.members -> Nat]
    BY DEF Sound
  <2>2. ASSUME NEW a \in A PROVE AssignedTo(t)[a] \in t.members
    <3>1. \A m \in t.members : m.type \in Nat /\ m.n \in Nat
      BY DEF Sound
    <3>2. ASSUME NEW i \in O, a = Work(i) PROVE AssignedTo(t)[a] \in t.members
      <4>1. a[1] = "work" /\ a[2] = i
        BY <3>2 DEF Work
      <4>2. AssignedTo(t)[a] = Owner(t.selected, i)
        BY <4>1 DEF AssignedTo
      <4>3. QED
        BY <1>4, <4>2 DEF Sound
    <3>3. ASSUME NEW i \in O, a = ReviewOf(i) PROVE AssignedTo(t)[a] \in t.members
      <4>1. a[1] = "review" /\ a[2] = i
        BY <3>3 DEF ReviewOf
      <4>2. AssignedTo(t)[a] = Reviewer(t.selected, t.members, i)
        BY <4>1 DEF AssignedTo
      <4>3. Reviewers(t.selected, t.members, i) # {}
        BY DEF Sound
      <4>4. Reviewer(t.selected, t.members, i) \in Reviewers(t.selected, t.members, i)
        BY <3>1, <4>3, ReviewerIs
      <4>5. QED
        BY <4>2, <4>4 DEF Reviewers
    <3>4. ASSUME NEW g \in t.gates, a = ValidateOf(g) PROVE AssignedTo(t)[a] \in t.members
      <4>1. a[1] = "gate" /\ a[2] = g
        BY <3>4 DEF ValidateOf
      <4>2. AssignedTo(t)[a] = Validator(t.members, g)
        BY <4>1 DEF AssignedTo
      <4>3. Validators(t.members, g) # {}
        BY DEF Sound
      <4>4. Validator(t.members, g) \in Validators(t.members, g)
        BY <3>1, <4>3, ValidatorIs
      <4>5. QED
        BY <4>2, <4>4 DEF Validators
    <3>5. QED
      BY <3>2, <3>3, <3>4, Kinds
  <2>3. QED
    BY <2>1, <2>2
<1>11. Scheduled(t) = Settled(h, P)
  BY DEF Scheduled
<1> HIDE DEF A, P, h
<1>12. Settled(h, P) \in [A -> Nat] /\ \A e \in P : Settled(h, P)[e[1]] < Settled(h, P)[e[2]]
  BY <1>1, <1>2, <1>8, <1>9, <1>10, SettledType, SettledOrders
<1>13. QED
  BY <1>11, <1>12 DEF A, P

\* Whoever uses a resource before another is joined to the next one that does.
LEMMA NextUser ==
  ASSUME NEW sel, NEW order, NEW S, order \in Seq(S), NEW type \in Types,
         Resource[type] # "none",
         NEW p \in Users(sel, order, Resource[type]),
         NEW q \in Users(sel, order, Resource[type]), p < q
  PROVE  \E k \in Users(sel, order, Resource[type]) :
           p < k /\ k <= q /\ <<order[p], order[k]>> \in InARow(sel, order)
<1> DEFINE r == Resource[type]
           U == Users(sel, order, r)
           later == {k \in U : p < k}
<1>1. U \in SUBSET Nat
  BY DEF Users
<1>2. later \in SUBSET Nat /\ q \in later
  BY <1>1
<1> DEFINE k == Min(later)
<1>3. k \in later /\ \A j \in later : k <= j
  <2> HIDE DEF later
  <2>1. QED
    BY <1>2, LeastIsMember
<1> HIDE DEF k
<1>4. k \in U /\ p < k /\ k <= q /\ k \in Nat
  BY <1>1, <1>2, <1>3
<1>5. ~\E j \in U : p < j /\ j < k
  BY <1>1, <1>3, <1>4
<1>6. <<order[p], order[k]>> \in InARow(sel, order)
  <2> DEFINE pairs(s) == {u \in Users(sel, order, s) \X Users(sel, order, s) :
               u[1] < u[2] /\ ~\E j \in Users(sel, order, s) : u[1] < j /\ j < u[2]}
             all == UNION {pairs(s) : s \in {Resource[t] : t \in Types} \ {"none"}}
  <2>1. <<p, k>> \in pairs(r)
    BY <1>4, <1>5
  <2>2. r \in {Resource[t] : t \in Types} \ {"none"}
    OBVIOUS
  <2>3. <<p, k>> \in all
    <3> HIDE DEF pairs, r
    <3>1. QED
      BY <2>1, <2>2
  <2>4. InARow(sel, order) = {<<order[u[1]], order[u[2]]>> : u \in all}
    BY DEF InARow
  <2> HIDE DEF all
  <2>5. <<p, k>>[1] = p /\ <<p, k>>[2] = k
    OBVIOUS
  <2>6. <<order[<<p, k>>[1]], order[<<p, k>>[2]]>> \in InARow(sel, order)
    BY <2>3, <2>4
  <2>7. QED
    BY <2>5, <2>6
<1>7. QED
  BY <1>4, <1>6

\* So of two users the later one waits for the earlier one.
LEMMA UsersWait ==
  ASSUME Inv, Bound, Within(team.selected, team.edges),
         NEW order, order \in Seq(Owned(team.selected)),
         Len(order) = Cardinality(Owned(team.selected)),
         InARow(team.selected, order) \subseteq team.edges,
         NEW type \in Types, Resource[type] # "none",
         NEW p \in Users(team.selected, order, Resource[type]),
         NEW q \in Users(team.selected, order, Resource[type]), p < q
  PROVE  Work(order[p]) \in Before(Work(order[q]))
<1> DEFINE U == Users(team.selected, order, Resource[type])
           O == Owned(team.selected)
           A == Assignments(team)
           n == Cardinality(A)
           a == Work(order[q])
           step == [found \in SUBSET A |-> Nearer(found, a)]
<1>1. /\ Sound(team) /\ Builders(team.selected) = O
      /\ rows.needs = Prerequisites(team) /\ rows.phase = Scheduled(team)
  BY DEF Inv
<1>2. IsFiniteSet(A) /\ Cardinality(O) <= n /\ Cardinality(O) \in Nat /\ n \in Nat
  BY <1>1, AssignmentsAre, OwnedAre, FS_CardinalityType DEF Sound
<1>3. DOMAIN rows.phase = A
  BY <1>1, ScheduleOrders
<1>4. rows.needs \in SUBSET (A \X A)
  BY <1>1, NeedsAre
<1>5. U \subseteq 1..Len(order) /\ Len(order) \in Nat
  BY DEF Users
<1>6. Before(a) = Repeated(step, {}, n)
  BY <1>3 DEF Before
<1>7. \A d \in InARow(team.selected, order) : <<Work(d[1]), Work(d[2])>> \in rows.needs
  BY <1>1 DEF Prerequisites
<1> HIDE DEF A, n, a, U
<1>8. step \in [SUBSET A -> SUBSET A] /\ {} \in SUBSET A
  <2>1. ASSUME NEW found \in SUBSET A PROVE Nearer(found, a) \in SUBSET A
    BY <1>4 DEF Nearer
  <2>2. QED
    BY <2>1
<1>9. \A found \in SUBSET A : step[found] = Nearer(found, a)
  OBVIOUS
<1> HIDE DEF step
<1>10. PICK f : Iteration(f, SUBSET A, step, {}, n) /\ Repeated(step, {}, n) = f[n]
  <2> DEFINE S == SUBSET A
  <2>1. step \in [S -> S] /\ {} \in S
    BY <1>8
  <2> HIDE DEF S
  <2>2. \E f : Iteration(f, S, step, {}, n) /\ Repeated(step, {}, n) = f[n]
    BY <1>2, <2>1, RepeatedIs
  <2>3. QED
    BY <2>2 DEF S
<1>11. /\ \A k \in 0..n : f[k] \in SUBSET A
       /\ \A k \in 1..n : f[k] = step[f[k - 1]]
  BY <1>10 DEF Iteration
<1> DEFINE Good(k) == \A u \in U : u < q /\ q - u <= k => Work(order[u]) \in f[k]
           Bad == {k \in 0..n : ~Good(k)}
<1>12. q \in U /\ p \in U /\ U \subseteq Nat
  BY <1>5 DEF U
<1>13. ASSUME NEW k \in 1..n, Good(k - 1) PROVE Good(k)
  <2> SUFFICES ASSUME NEW u \in U, u < q, q - u <= k PROVE Work(order[u]) \in f[k]
    OBVIOUS
  <2>1. PICK w \in U : u < w /\ w <= q /\ <<order[u], order[w]>> \in InARow(team.selected, order)
    BY <1>12, NextUser DEF U
  <2>2. <<Work(order[u]), Work(order[w])>> \in rows.needs
    <3> DEFINE d == <<order[u], order[w]>>
    <3>1. d[1] = order[u] /\ d[2] = order[w]
      OBVIOUS
    <3>2. d \in InARow(team.selected, order)
      BY <2>1
    <3> HIDE DEF d
    <3>3. QED
      BY <1>7, <3>1, <3>2
  <2>3. Work(order[w]) \in f[k - 1] \cup {a}
    <3>1. CASE w = q
      BY <3>1 DEF a
    <3>2. CASE w # q
      <4>1. w \in Nat /\ q \in Nat /\ u \in Nat /\ k \in Nat
        BY <1>2, <1>12
      <4>2. w < q /\ q - w <= k - 1
        BY <2>1, <3>2, <4>1
      <4>3. QED
        BY <1>13, <4>2
    <3>3. QED
      BY <3>1, <3>2
  <2>4. f[k] = Nearer(f[k - 1], a)
    <3>1. k - 1 \in 0..n
      BY <1>2
    <3>2. QED
      BY <1>9, <1>11, <3>1
  <2>5. QED
    <3> DEFINE d == <<Work(order[u]), Work(order[w])>>
    <3>1. d[1] = Work(order[u]) /\ d[2] = Work(order[w])
      OBVIOUS
    <3>2. d \in rows.needs
      BY <2>2
    <3> HIDE DEF d
    <3>3. d \in {e \in rows.needs : e[2] \in f[k - 1] \cup {a}}
      BY <2>3, <3>1, <3>2
    <3>4. QED
      BY <2>4, <3>1, <3>3 DEF Nearer
<1>14. Good(0)
  BY <1>12
<1>15. Bad = {}
  <2> HIDE DEF Good
  <2>1. ASSUME NEW k \in Bad PROVE \E m \in Bad : m < k
    <3>1. k \in 1..n /\ k - 1 \in 0..n /\ k - 1 < k
      BY <1>2, <1>14
    <3>2. ~Good(k - 1)
      BY <1>13, <3>1
    <3>3. QED
      BY <3>1, <3>2
  <2>2. Bad \in SUBSET Nat
    BY <1>2
  <2> HIDE DEF Bad
  <2>3. QED
    BY <2>1, <2>2, NoCounterexample
<1>16. Good(n)
  <2> HIDE DEF Good
  <2>1. n \in 0..n
    BY <1>2
  <2>2. QED
    BY <1>15, <2>1
<1>17. q - p <= n
  <2>1. q \in 1..Len(order) /\ p \in 1..Len(order) /\ Len(order) <= n
    BY <1>2, <1>5, <1>12
  <2>2. QED
    BY <1>2, <1>5, <2>1
<1>18. Work(order[p]) \in f[n]
  BY <1>12, <1>16, <1>17
<1>19. QED
  BY <1>6, <1>10, <1>18 DEF a

\* The work that is bound can be done milestone by milestone, and two
\* assignments that need the same scarce resource never have to run together:
\* with any registry, whatever a contract demands.
THEOREM WorkIsAlwaysOrdered == Spec => []WorkIsOrdered
<1>1. ASSUME Inv PROVE WorkIsOrdered
  <2> SUFFICES ASSUME Bound PROVE WorkIsOrdered
    BY DEF WorkIsOrdered
  <2> DEFINE sel == team.selected
             O == Owned(sel)
             order == Topological(O, InputEdges(sel))
  <2>1. /\ Sound(team) /\ Builders(sel) = O /\ Manifest(team)
        /\ rows.needs = Prerequisites(team) /\ rows.phase = Scheduled(team)
    BY <1>1 DEF Inv
  <2>2. Within(sel, team.edges)
    BY <2>1 DEF Manifest, Within
  <2>3. IsSeq(sel) /\ team.edges = Edges(sel)
    BY <2>1 DEF Sound
  <2>4. O \in SUBSET Nat /\ IsFiniteSet(O) /\ O \subseteq DOMAIN sel /\ O \subseteq Builders(sel)
    BY <2>3, OwnedAre DEF Owned
  <2>5. \A e \in rows.needs : rows.phase[e[1]] < rows.phase[e[2]]
    BY <2>1, <2>2, ScheduleOrders
  <2>6. Sorted(order, O, InputEdges(sel)) /\ Len(order) = Cardinality(O)
    <3>1. PICK place \in [DOMAIN sel -> 1..Len(sel)] :
            \A e \in team.edges : e[1] \in DOMAIN sel /\ e[2] \in DOMAIN sel
                                   => place[e[1]] < place[e[2]]
      BY <2>1, PlacesOf
    <3> DEFINE rank == [i \in O |-> place[i]]
    <3>2. rank \in [O -> Nat]
      BY <2>4, <3>1
    <3>3. ASSUME NEW e \in InputEdges(sel), e[1] \in O, e[2] \in O PROVE rank[e[1]] < rank[e[2]]
      BY <2>3, <2>4, <3>1, <3>3 DEF Edges
    <3> HIDE DEF rank, O
    <3>4. QED
      BY <2>4, <3>2, <3>3, TopologicalSorted, TopologicalFull
  <2>7. InARow(sel, order) \subseteq team.edges
    BY <2>3 DEF Edges, ResourceEdges
  <2> HIDE DEF order
  <2>8. order \in Seq(O) /\ DOMAIN order = 1..Len(order) /\ Len(order) \in Nat
    BY <2>6 DEF Sorted
  <2>9. \A i \in O : \E p \in DOMAIN order : order[p] = i
    <3>1. PICK place \in [O -> 1..Len(order)] : \A x \in O : order[place[x]] = x
      <4> HIDE DEF O
      <4>1. QED
        BY <2>4, <2>6, FullOrder
    <3>2. QED
      BY <2>8, <3>1
  <2>10. ASSUME NEW i \in O, NEW j \in O, i # j,
                Resource[rows.owner[Work(i)].type] = Resource[rows.owner[Work(j)].type],
                Resource[rows.owner[Work(i)].type] # "none"
         PROVE  Work(i) \in Before(Work(j)) \/ Work(j) \in Before(Work(i))
    <3>1. rows.owner[Work(i)].type = sel[i].type /\ rows.owner[Work(j)].type = sel[j].type
      BY <1>1, OwnersOf, OwnerIs
    <3>2. sel[i].type \in Types
      BY <2>1, <2>4, OwnerIs DEF Sound
    <3> DEFINE r == Resource[sel[i].type]
    <3>3. PICK p \in DOMAIN order : order[p] = i
      BY <2>9
    <3>4. PICK q \in DOMAIN order : order[q] = j
      BY <2>9
    <3>5. /\ p \in Users(sel, order, r) /\ q \in Users(sel, order, r) /\ r # "none"
          /\ p \in Nat /\ q \in Nat /\ p # q
      BY <2>8, <2>10, <3>1, <3>3, <3>4 DEF Users
    <3>6. CASE p < q
      <4>1. Work(order[p]) \in Before(Work(order[q]))
        BY <1>1, <2>2, <2>6, <2>7, <2>8, <3>2, <3>5, <3>6, UsersWait
      <4>2. QED
        BY <3>3, <3>4, <4>1
    <3>7. CASE q < p
      <4>1. Work(order[q]) \in Before(Work(order[p]))
        BY <1>1, <2>2, <2>6, <2>7, <2>8, <3>2, <3>5, <3>7, UsersWait
      <4>2. QED
        BY <3>3, <3>4, <4>1
    <3>8. QED
      BY <3>5, <3>6, <3>7
  <2>11. QED
    BY <2>5, <2>10 DEF WorkIsOrdered
<1>2. QED
  BY <1>1, TeamsInv, PTL
=============================================================================
