------------------------------ MODULE NumberFacts -----------------------------
(***************************************************************************)
(* Facts about numbers that the proofs of the components share: the least  *)
(* and the greatest of a set of naturals, the unit of time (a bar, a week) *)
(* that a minute falls in, and the sum of a function over a finite set.    *)
(*                                                                         *)
(* The library's induction theorems take the induction hypothesis as an    *)
(* operator, which the provers here cannot instantiate.  Induction is by   *)
(* the least counterexample instead: a set of naturals that is not empty   *)
(* has a least element, a set of finite sets one with the fewest elements. *)
(***************************************************************************)
EXTENDS Integers, FiniteSetsExt, FiniteSetTheorems, WellFoundedInduction, TLAPS

(* A set of naturals that is not empty has a least element.                 *)
LEMMA LeastExists ==
  ASSUME NEW S \in SUBSET Nat, S # {}
  PROVE  \E x \in S : \A y \in S : x <= y
<1> DEFINE Before == OpToRel(<, Nat)
<1>1. IsWellFoundedOn(Before, Nat)
  BY NatLessThanWellFounded
<1>2. \A x, y \in Nat : y < x => <<y, x>> \in Before
  BY DEF OpToRel
<1> HIDE DEF Before
<1>3. PICK x \in S : \A y \in S : ~ (<<y, x>> \in Before)
  BY <1>1, WFMin
<1>4. \A y \in S : x <= y
  <2> SUFFICES ASSUME NEW y \in S PROVE x <= y
    OBVIOUS
  <2>1. x \in Nat /\ y \in Nat
    OBVIOUS
  <2>2. ~ (y < x)
    BY <1>2, <1>3, <2>1, Zenon
  <2> QED
    BY <2>1, <2>2
<1> QED
  BY <1>4

(* Min is that element.                                                     *)
LEMMA MinIsLeast ==
  ASSUME NEW S \in SUBSET Nat, S # {}
  PROVE  Min(S) \in S /\ \A y \in S : Min(S) <= y
  BY LeastExists DEF Min

(* A bounded set of naturals has a greatest one, and Max is it.             *)
LEMMA MaxIsGreatest ==
  ASSUME NEW n \in Nat, NEW S \in SUBSET (0..n), S # {}
  PROVE  Max(S) \in S /\ \A y \in S : y <= Max(S)
<1> DEFINE T == {k \in Nat : n - k \in S}
<1>1. \A x \in S : x \in Nat /\ n - x \in T
  <2> SUFFICES ASSUME NEW x \in S PROVE x \in Nat /\ n - x \in T
    OBVIOUS
  <2>1. x \in 0..n
    OBVIOUS
  <2>2. x \in Nat /\ n - x \in Nat /\ n - (n - x) = x
    BY <2>1
  <2> QED
    BY <2>2
<1>2. T \in SUBSET Nat /\ T # {}
  BY <1>1
<1>3. PICK k \in T : \A l \in T : k <= l
  BY <1>2, LeastExists
<1>4. n - k \in S /\ k \in Nat
  BY <1>3
<1>5. \A y \in S : y <= n - k
  <2> SUFFICES ASSUME NEW y \in S PROVE y <= n - k
    OBVIOUS
  <2>1. k <= n - y /\ y \in Nat
    BY <1>1, <1>3
  <2> QED
    BY <2>1, <1>4
<1>6. \E x \in S : \A y \in S : x >= y
  <2>1. \A y \in S : n - k >= y
    BY <1>1, <1>4, <1>5
  <2> QED
    BY <1>4, <2>1
<1>7. Max(S) \in S /\ \A y \in S : Max(S) >= y
  BY <1>6 DEF Max
<1>8. Max(S) \in Nat
  BY <1>1, <1>7
<1> QED
  BY <1>1, <1>7, <1>8

(* The least of one number, and of two.                                     *)
LEMMA MinOfTwo ==
  ASSUME NEW a \in Int, NEW b \in Int
  PROVE  Min({a, b}) = IF a <= b THEN a ELSE b
<1>1. \E x \in {a, b} : \A y \in {a, b} : x <= y
  BY SMT
<1>2. Min({a, b}) \in {a, b} /\ \A y \in {a, b} : Min({a, b}) <= y
  BY <1>1 DEF Min
<1> QED
  BY <1>2
------------------------------------------------------------------------------
(* Multiplying by a natural number keeps the order of two numbers.          *)
LEMMA ProductKeepsOrder ==
  ASSUME NEW a \in Int, NEW c \in Int, NEW b \in Nat, a <= c
  PROVE  a * b <= c * b
<1>1. PICK d \in Nat : c = a + d
  BY c - a \in Nat
<1>2. d * b >= 0
  BY <1>1
<1>3. (a + d) * b = a * b + d * b
  BY <1>1
<1> QED
  BY <1>1, <1>2, <1>3

(* A minute lies in the k-th unit of d minutes or in a later one iff that   *)
(* unit has begun.                                                          *)
LEMMA UnitHasBegun ==
  ASSUME NEW m \in Nat, NEW d \in Nat \ {0}, NEW k \in Int
  PROVE  /\ m \div d \in Nat
         /\ (m \div d) * d <= m /\ m < (m \div d) * d + d
         /\ k <= m \div d <=> k * d <= m
<1> DEFINE q == m \div d
<1>1. q \in Nat /\ q * d <= m /\ m < q * d + d
  OBVIOUS
<1> HIDE DEF q
<1>2. k <= q => k * d <= m
  <2>1. k <= q => k * d <= q * d
    BY <1>1, ProductKeepsOrder
  <2>2. k * d \in Int /\ q * d \in Int
    BY <1>1
  <2> QED
    BY <1>1, <2>1, <2>2
<1>3. q + 1 <= k => m < k * d
  <2>1. q + 1 <= k => (q + 1) * d <= k * d
    BY <1>1, ProductKeepsOrder
  <2>2. (q + 1) * d = q * d + d /\ k * d \in Int /\ q * d \in Int
    BY <1>1
  <2> QED
    BY <1>1, <2>1, <2>2
<1>4. k * d \in Int
  OBVIOUS
<1>5. k <= q <=> k * d <= m
  BY <1>1, <1>2, <1>3, <1>4
<1> QED
  BY <1>1, <1>5 DEF q

(* Two runs of numbers that begin alike and grow alike are alike.           *)
LEMMA GrowAlike ==
  ASSUME NEW n \in Nat, NEW p \in [0..n -> Int], NEW q \in [0..n -> Int], p[0] = q[0],
         \A k \in 1..n : p[k] - p[k - 1] = q[k] - q[k - 1]
  PROVE  \A k \in 0..n : p[k] = q[k]
<1> DEFINE Bad == {k \in 0..n : p[k] # q[k]}
<1>1. CASE Bad = {}
  BY <1>1
<1>2. CASE Bad # {}
  <2>0. Bad \in SUBSET Nat
    OBVIOUS
  <2>1. PICK k \in Bad : \A l \in Bad : k <= l
    BY <1>2, <2>0, LeastExists
  <2>2. k \in 0..n /\ k # 0
    BY <2>1
  <2>3. k \in 1..n /\ k - 1 \in 0..n /\ ~ (k <= k - 1)
    BY <2>2
  <2>4. k - 1 \notin Bad
    BY <2>1, <2>3
  <2>5. p[k] - p[k - 1] = q[k] - q[k - 1] /\ p[k - 1] = q[k - 1]
    BY <2>3, <2>4
  <2>6. p[k] \in Int /\ q[k] \in Int /\ p[k - 1] \in Int
    BY <2>3
  <2> QED
    BY <2>1, <2>5, <2>6
<1> QED
  BY <1>1, <1>2

------------------------------------------------------------------------------
(* f[s] is the sum of w over s, for every subset s of S, adding one element *)
(* after the other (MapThenSumSet, with the function it builds named).      *)
AddsUp(f, w, S) ==
  f = [s \in SUBSET S |->
         IF s = {} THEN 0
         ELSE w[CHOOSE x \in s : TRUE] + f[s \ {CHOOSE x \in s : TRUE}]]

(* Such a function exists: build it for sets of at most n elements.         *)
LEMMA SumExists ==
  ASSUME NEW S, IsFiniteSet(S), NEW w \in [S -> Int]
  PROVE  \E f \in [SUBSET S -> Int] : AddsUp(f, w, S)
<1> DEFINE some(s)  == CHOOSE x \in s : TRUE
           Sum(f, s) == IF s = {} THEN 0 ELSE w[some(s)] + f[s \ {some(s)}]
           Upto(n)  == \E f \in [SUBSET S -> Int] :
                         \A s \in SUBSET S : Cardinality(s) <= n => f[s] = Sum(f, s)
<1>1. \A s \in SUBSET S : IsFiniteSet(s) /\ Cardinality(s) \in Nat
  BY FS_Subset, FS_CardinalityType
<1>2. \A s \in SUBSET S : s # {} =>
        /\ some(s) \in s /\ s \ {some(s)} \in SUBSET S
        /\ Cardinality(s \ {some(s)}) = Cardinality(s) - 1
  BY <1>1, FS_RemoveElement
<1>3. \A f \in [SUBSET S -> Int], s \in SUBSET S : Sum(f, s) \in Int
  BY <1>2
<1> HIDE DEF some
<1>4. Upto(0)
  <2>1. [s \in SUBSET S |-> 0] \in [SUBSET S -> Int]
    OBVIOUS
  <2>2. \A s \in SUBSET S : Cardinality(s) <= 0 => s = {}
    BY <1>1, FS_EmptySet
  <2> QED
    BY <2>1, <2>2
<1>5. ASSUME NEW n \in Nat, Upto(n) PROVE Upto(n + 1)
  <2>1. PICK f \in [SUBSET S -> Int] :
          \A s \in SUBSET S : Cardinality(s) <= n => f[s] = Sum(f, s)
    BY <1>5
  <2> DEFINE g == [s \in SUBSET S |-> IF Cardinality(s) <= n THEN f[s] ELSE Sum(f, s)]
  <2>2. g \in [SUBSET S -> Int]
    BY <1>3
  <2>3. ASSUME NEW s \in SUBSET S, Cardinality(s) <= n + 1 PROVE g[s] = Sum(g, s)
    <3>1. CASE s = {}
      <4>1. Cardinality(s) <= n
        BY <3>1, FS_EmptySet
      <4> QED
        BY <3>1, <4>1, <2>1
    <3>2. CASE s # {}
      <4>1. g[s \ {some(s)}] = f[s \ {some(s)}]
        BY <1>1, <1>2, <2>3, <3>2
      <4>2. g[s] = Sum(f, s)
        BY <2>1
      <4> QED
        BY <3>2, <4>1, <4>2
    <3> QED
      BY <3>1, <3>2
  <2> QED
    BY <2>2, <2>3
<1> HIDE DEF Upto
<1>6. \A n \in Nat : Upto(n)
  <2> DEFINE Bad == {n \in Nat : ~ Upto(n)}
  <2>1. CASE Bad = {}
    BY <2>1
  <2>2. CASE Bad # {}
    <3>1. PICK n \in Bad : \A m \in Bad : n <= m
      BY <2>2, LeastExists
    <3>2. n # 0 /\ n - 1 \in Nat /\ n - 1 \notin Bad
      BY <1>4, <3>1
    <3>3. Upto((n - 1) + 1)
      BY <1>5, <3>2
    <3> QED
      BY <3>1, <3>3
  <2> QED
    BY <2>1, <2>2
<1>7. PICK f \in [SUBSET S -> Int] :
        \A s \in SUBSET S : Cardinality(s) <= Cardinality(S) => f[s] = Sum(f, s)
  BY <1>1, <1>6 DEF Upto
<1>8. \A s \in SUBSET S : f[s] = Sum(f, s)
  BY <1>7, FS_Subset
<1> QED
  BY <1>8 DEF AddsUp, some

(* Of some subsets of a finite set, one has the fewest elements.            *)
LEMMA FewestExists ==
  ASSUME NEW S, IsFiniteSet(S), NEW T \in SUBSET SUBSET S, T # {}
  PROVE  \E t \in T : \A u \in T : Cardinality(t) <= Cardinality(u)
<1>1. \A t \in T : Cardinality(t) \in Nat
  BY FS_Subset, FS_CardinalityType
<1> DEFINE sizes == {Cardinality(t) : t \in T}
<1>2. sizes \in SUBSET Nat /\ sizes # {}
  BY <1>1
<1>3. PICK n \in sizes : \A m \in sizes : n <= m
  BY <1>2, LeastExists
<1> QED
  BY <1>3

(* A set has one element fewer without one of them.                         *)
LEMMA OneFewer ==
  ASSUME NEW S, IsFiniteSet(S), NEW t \in SUBSET S, NEW x \in t
  PROVE  /\ Cardinality(t) \in Nat /\ Cardinality(t \ {x}) \in Nat
         /\ Cardinality(t \ {x}) < Cardinality(t)
<1>1. IsFiniteSet(t) /\ IsFiniteSet(t \ {x})
  BY FS_Subset
<1>2. Cardinality(t) \in Nat /\ Cardinality(t \ {x}) \in Nat
  BY <1>1, FS_CardinalityType
<1>3. Cardinality(t \ {x}) = Cardinality(t) - 1
  BY <1>1, FS_RemoveElement
<1> QED
  BY <1>2, <1>3

(* A sum of integers is an integer, one of naturals a natural.              *)
LEMMA SumType ==
  ASSUME NEW S, IsFiniteSet(S), NEW V \in {Nat, Int}, NEW w \in [S -> V], NEW f, AddsUp(f, w, S)
  PROVE  f \in [SUBSET S -> V]
<1> DEFINE some(s) == CHOOSE x \in s : TRUE
           Bad     == {s \in SUBSET S : f[s] \notin V}
<1>1. \A s \in SUBSET S : f[s] = IF s = {} THEN 0 ELSE w[some(s)] + f[s \ {some(s)}]
  BY DEF AddsUp
<1>2. \A s \in SUBSET S : s # {} => some(s) \in s
  OBVIOUS
<1> HIDE DEF some
<1>3. CASE Bad = {}
  <2>1. f = [s \in SUBSET S |-> f[s]]
    BY DEF AddsUp
  <2> QED
    BY <1>3, <2>1
<1>4. CASE Bad # {}
  <2>1. PICK t \in Bad : \A u \in Bad : Cardinality(t) <= Cardinality(u)
    BY <1>4, FewestExists
  <2>2. t # {}
    <3>1. 0 \in V
      OBVIOUS
    <3> QED
      BY <1>1, <3>1
  <2>3. some(t) \in t
    BY <1>2, <2>2
  <2>4. t \ {some(t)} \notin Bad
    <3>1. /\ Cardinality(t) \in Nat /\ Cardinality(t \ {some(t)}) \in Nat
          /\ Cardinality(t \ {some(t)}) < Cardinality(t)
      BY <2>3, OneFewer
    <3> QED
      BY <2>1, <3>1
  <2>5. f[t] = w[some(t)] + f[t \ {some(t)}]
    BY <1>1, <2>2
  <2>6. w[some(t)] \in V /\ f[t \ {some(t)}] \in V
    BY <2>3, <2>4
  <2> QED
    BY <2>5, <2>6
<1> QED
  BY <1>3, <1>4

(* The order in which the elements are added does not matter: any of them   *)
(* can be the last.                                                         *)
LEMMA SumRemoves ==
  ASSUME NEW S, IsFiniteSet(S), NEW w \in [S -> Int], NEW f, AddsUp(f, w, S)
  PROVE  f[{}] = 0 /\ \A t \in SUBSET S : \A x \in t : f[t] = w[x] + f[t \ {x}]
<1> DEFINE some(s) == CHOOSE x \in s : TRUE
           Bad     == {s \in SUBSET S : \E x \in s : f[s] # w[x] + f[s \ {x}]}
<1>1. f \in [SUBSET S -> Int]
  BY SumType
<1>2. \A s \in SUBSET S : f[s] = IF s = {} THEN 0 ELSE w[some(s)] + f[s \ {some(s)}]
  BY DEF AddsUp
<1>3. \A s \in SUBSET S : s # {} => some(s) \in s
  OBVIOUS
<1> HIDE DEF some
<1>4. CASE Bad = {}
  BY <1>2, <1>4
<1>5. CASE Bad # {}
  <2>1. PICK t \in Bad : \A u \in Bad : Cardinality(t) <= Cardinality(u)
    BY <1>5, FewestExists
  <2>2. PICK x \in t : f[t] # w[x] + f[t \ {x}]
    BY <2>1
  <2> DEFINE y == some(t)
  <2>3. y \in t /\ f[t] = w[y] + f[t \ {y}] /\ y # x
    BY <1>2, <1>3, <2>2
  <2> HIDE DEF y
  <2>4. \A z \in t : t \ {z} \in SUBSET S /\ t \ {z} \notin Bad
    <3> SUFFICES ASSUME NEW z \in t PROVE t \ {z} \in SUBSET S /\ t \ {z} \notin Bad
      OBVIOUS
    <3>1. /\ Cardinality(t) \in Nat /\ Cardinality(t \ {z}) \in Nat
          /\ Cardinality(t \ {z}) < Cardinality(t)
      BY OneFewer
    <3> QED
      BY <2>1, <3>1
  <2>5. f[t \ {y}] = w[x] + f[(t \ {y}) \ {x}]
    BY <2>2, <2>3, <2>4
  <2>6. f[t \ {x}] = w[y] + f[(t \ {x}) \ {y}]
    BY <2>2, <2>3, <2>4
  <2>7. PICK rest \in SUBSET S : rest = (t \ {x}) \ {y} /\ rest = (t \ {y}) \ {x}
    OBVIOUS
  <2>8. w[x] \in Int /\ w[y] \in Int /\ f[rest] \in Int
    BY <1>1, <2>2, <2>3
  <2>9. f[t] = w[y] + (w[x] + f[rest]) /\ f[t \ {x}] = w[y] + f[rest]
    BY <2>3, <2>5, <2>6, <2>7
  <2>10. f[t] = w[x] + f[t \ {x}]
    BY <2>8, <2>9
  <2> QED
    BY <2>2, <2>10
<1> QED
  BY <1>4, <1>5

(* The sum over a set depends on what is added there, and on nothing else.  *)
LEMMA SumAgrees ==
  ASSUME NEW S, IsFiniteSet(S), NEW w \in [S -> Int], NEW f, AddsUp(f, w, S),
         NEW R, IsFiniteSet(R), NEW v \in [R -> Int], NEW g, AddsUp(g, v, R),
         NEW t \in SUBSET (S \cap R), \A x \in t : w[x] = v[x]
  PROVE  f[t] = g[t]
<1> DEFINE Bad == {s \in SUBSET t : f[s] # g[s]}
<1>1. /\ f[{}] = 0 /\ \A s \in SUBSET S : \A x \in s : f[s] = w[x] + f[s \ {x}]
      /\ g[{}] = 0 /\ \A s \in SUBSET R : \A x \in s : g[s] = v[x] + g[s \ {x}]
  BY SumRemoves
<1>2. IsFiniteSet(t)
  BY FS_Subset
<1>3. CASE Bad = {}
  BY <1>3
<1>4. CASE Bad # {}
  <2>1. PICK s \in Bad : \A u \in Bad : Cardinality(s) <= Cardinality(u)
    BY <1>2, <1>4, FewestExists
  <2>2. PICK x \in s : TRUE
    BY <1>1, <2>1
  <2>3. /\ Cardinality(s) \in Nat /\ Cardinality(s \ {x}) \in Nat
        /\ Cardinality(s \ {x}) < Cardinality(s)
    BY <1>2, OneFewer
  <2>5. f[s \ {x}] = g[s \ {x}]
    BY <2>1, <2>3
  <2>6. f[s] = w[x] + f[s \ {x}] /\ g[s] = v[x] + g[s \ {x}] /\ w[x] = v[x]
    BY <1>1, <2>1, <2>2
  <2> QED
    BY <2>1, <2>5, <2>6
<1> QED
  BY <1>3, <1>4

(* A sum changes with one element by what that element changes.             *)
LEMMA SumMoves ==
  ASSUME NEW S, IsFiniteSet(S), NEW w \in [S -> Int], NEW f, AddsUp(f, w, S),
         NEW v \in [S -> Int], NEW g, AddsUp(g, v, S),
         NEW c \in S, \A x \in S \ {c} : w[x] = v[x]
  PROVE  g[S] = f[S] - w[c] + v[c]
<1>1. f \in [SUBSET S -> Int] /\ g \in [SUBSET S -> Int]
  BY SumType
<1>2. f[S] = w[c] + f[S \ {c}]
  BY SumRemoves
<1>3. g[S] = v[c] + g[S \ {c}]
  BY SumRemoves
<1>4. f[S \ {c}] = g[S \ {c}]
  BY SumAgrees
<1>5. f[S \ {c}] \in Int /\ w[c] \in Int /\ v[c] \in Int
  BY <1>1
<1> QED
  BY <1>2, <1>3, <1>4, <1>5
==============================================================================
