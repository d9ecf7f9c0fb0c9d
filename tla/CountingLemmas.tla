--------------------------- MODULE CountingLemmas ---------------------------
(***************************************************************************)
(* Facts about numbers, sums and finite sets that the proofs about the     *)
(* counting loops need.  Where they are inductive, the induction is an     *)
(* appeal to a least counterexample, which is a fact about sets.           *)
(***************************************************************************)
EXTENDS Integers, FiniteSets, Functions, FiniteSetTheorems, WellFoundedInduction, TLAPS

-----------------------------------------------------------------------------
(* Induction                                                               *)

\* Among subsets of a finite set there is one that is smallest.
LEMMA SmallestSubset ==
    ASSUME NEW S, IsFiniteSet(S), NEW F, \A s \in F : s \subseteq S, F # {}
    PROVE  \E s \in F : \A t \in F : t \subseteq s => t = s
  <1>1. IsWellFoundedOn(StrictSubsetOrdering(S), SUBSET S)
    BY FS_StrictSubsetOrderingWellFounded, FS_FiniteSubsetsOfFinite
  <1>2. F \subseteq SUBSET S
    OBVIOUS
  <1>3. PICK s \in F : \A t \in F : <<t, s>> \notin StrictSubsetOrdering(S)
    BY <1>1, <1>2, WFMin
  <1>4. \A t \in F : ~(t \subseteq s /\ t # s)
    BY <1>3 DEF StrictSubsetOrdering
  <1> QED
    BY <1>4

\* Among natural numbers there is one that is least.
LEMMA LeastNumber ==
    ASSUME NEW T \in SUBSET Nat, T # {}
    PROVE  \E n \in T : \A m \in T : n <= m
  <1>1. PICK b \in T : TRUE
    OBVIOUS
  <1> DEFINE F == {1..n : n \in {m \in T : m <= b}}
  <1>2. IsFiniteSet(1..b)
    BY FS_Interval
  <1>3. \A s \in F : s \subseteq 1..b
    OBVIOUS
  <1>b. F # {}
    OBVIOUS
  <1>4. PICK s \in F : \A t \in F : t \subseteq s => t = s
    <2> HIDE DEF F
    <2> QED
      BY <1>2, <1>3, <1>b, SmallestSubset
  <1>5. PICK n \in T : n <= b /\ s = 1..n
    OBVIOUS
  <1>6. ASSUME NEW m \in T, m < n
        PROVE  FALSE
    <2>1. 1..m \in F /\ 1..m \subseteq 1..n
      BY <1>5, <1>6
    <2>2. n \in 1..n /\ n \notin 1..m
      BY <1>6
    <2> QED
      BY <1>4, <1>5, <2>1, <2>2
  <1> QED
    BY <1>6

-----------------------------------------------------------------------------
(* Remainders                                                              *)

\* The remainder is the one number below m that differs from a by a multiple of m.
LEMMA Remainder ==
    ASSUME NEW a \in Int, NEW m \in Nat \ {0}, NEW k \in Int, NEW r \in 0..(m - 1),
           a = m * k + r
    PROVE  a % m = r
  OBVIOUS

\* Each number has a remainder.
LEMMA Quotient ==
    ASSUME NEW a \in Int, NEW m \in Nat \ {0}
    PROVE  /\ a % m \in 0..(m - 1)
           /\ \E k \in Int : a = m * k + (a % m)
  <1>1. a % m \in 0..(m - 1)
    OBVIOUS
  <1>2. a \div m \in Int
    OBVIOUS
  <1>3. a = m * (a \div m) + (a % m)
    OBVIOUS
  <1> QED
    BY <1>1, <1>2, <1>3, Zenon

\* Counting up modulo m starts again after m - 1.
LEMMA NextRemainder ==
    ASSUME NEW a \in Nat, NEW m \in Nat \ {0}
    PROVE  (a + 1) % m = IF (a % m) + 1 = m THEN 0 ELSE (a % m) + 1
  <1>1. PICK k \in Int : a = m * k + (a % m)
    <2>1. a \in Int
      OBVIOUS
    <2> QED
      BY <2>1, Quotient, Zenon
  <1> DEFINE r == a % m
  <1>2. r \in 0..(m - 1)
    BY Quotient
  <1>3. a = m * k + r
    BY <1>1
  <1> HIDE DEF r
  <1>4. CASE r + 1 = m
    <2>1. a + 1 = m * (k + 1) + 0 /\ a + 1 \in Int /\ k + 1 \in Int /\ 0 \in 0..(m - 1)
      BY <1>2, <1>3, <1>4
    <2>2. (a + 1) % m = 0
      BY <2>1, Remainder, Zenon
    <2> QED
      BY <1>4, <2>2 DEF r
  <1>5. CASE r + 1 # m
    <2>1. a + 1 = m * k + (r + 1) /\ a + 1 \in Int /\ r + 1 \in 0..(m - 1)
      BY <1>2, <1>3, <1>5
    <2>2. (a + 1) % m = r + 1
      BY <2>1, Remainder, Zenon
    <2> QED
      BY <1>5, <2>2 DEF r
  <1> QED
    BY <1>4, <1>5

\* Taking the remainder of a summand before an addition or after it is the same.
LEMMA RemainderOfSum ==
    ASSUME NEW a \in Int, NEW b \in Int, NEW m \in Nat \ {0}
    PROVE  ((a % m) + b) % m = (a + b) % m
  <1> DEFINE r == a % m
             q == (r + b) % m
  <1>1. PICK k \in Int : a = m * k + r
    BY Quotient
  <1>2. r \in Int
    BY Quotient
  <1> HIDE DEF r
  <1>3. r + b \in Int /\ a + b \in Int
    BY <1>2
  <1>4. PICK h \in Int : r + b = m * h + q
    BY <1>3, Quotient, Zenon
  <1>5. q \in 0..(m - 1)
    BY <1>3, Quotient, Zenon
  <1> HIDE DEF q
  <1>6. a + b = m * (k + h) + q /\ k + h \in Int
    BY <1>1, <1>2, <1>4, <1>5
  <1>7. (a + b) % m = q
    BY <1>3, <1>5, <1>6, Remainder, Zenon
  <1> QED
    BY <1>7 DEF q, r

-----------------------------------------------------------------------------
(* Counting                                                                *)

\* The places 1..n of f hold elements of E, none twice; the places 1..k of g hold
\* each element of E.
AllFrom(f, n, E) == \A i \in 1..n : f[i] \in E
NoneTwice(f, n) == \A i, j \in 1..n : f[i] = f[j] => i = j
EachIn(E, g, k) == \A e \in E : \E i \in 1..k : g[i] = e

\* Distinct elements of a set that k places can hold are at most k, and when
\* they are k they are all of the set.
LEMMA Pigeonhole ==
    ASSUME NEW E, NEW n \in Nat, NEW k \in Nat, NEW f, NEW g,
           AllFrom(f, n, E), NoneTwice(f, n), EachIn(E, g, k)
    PROVE  n <= k /\ (n = k => EachIn(E, f, n))
  <1> USE DEF AllFrom, NoneTwice, EachIn
  <1> DEFINE F == [i \in 1..n |-> f[i]]
             P == [e \in E |-> CHOOSE i \in 1..k : g[i] = e]
  <1>1. IsFiniteSet(1..k) /\ Cardinality(1..k) = k /\ IsFiniteSet(1..n) /\ Cardinality(1..n) = n
    BY FS_Interval
  <1>2. P \in Injection(E, 1..k)
    BY DEF Injection, IsInjective
  <1>3. F \in Injection(1..n, E)
    BY DEF Injection, IsInjective
  <1> HIDE DEF F, P
  <1>4. IsFiniteSet(E) /\ Cardinality(E) <= k
    BY <1>1, <1>2, FS_Injection
  <1>5. n <= Cardinality(E) /\ (n = Cardinality(E) <=> F \in Surjection(1..n, E))
    BY <1>1, <1>3, <1>4, FS_Injection
  <1>6. Cardinality(E) \in Nat
    BY <1>4, FS_CardinalityType
  <1>7. n <= k /\ (n = k => F \in Surjection(1..n, E))
    BY <1>4, <1>5, <1>6
  <1> QED
    BY <1>7 DEF F, Surjection

\* What two ranges of places hold fits in one as long as both.
LEMMA TwoRanges ==
    ASSUME NEW E1, NEW E2, NEW g1, NEW g2, NEW k1 \in Nat, NEW k2 \in Nat,
           EachIn(E1, g1, k1), EachIn(E2, g2, k2)
    PROVE  \E g : EachIn(E1 \cup E2, g, k1 + k2)
  <1> DEFINE g == [i \in 1..(k1 + k2) |-> IF i <= k1 THEN g1[i] ELSE g2[i - k1]]
  <1>1. ASSUME NEW i \in 1..k1
        PROVE  i \in 1..(k1 + k2) /\ g[i] = g1[i]
    OBVIOUS
  <1>2. ASSUME NEW i \in 1..k2
        PROVE  i + k1 \in 1..(k1 + k2) /\ g[i + k1] = g2[i]
    <2>1. i + k1 \in 1..(k1 + k2) /\ ~(i + k1 <= k1) /\ (i + k1) - k1 = i
      OBVIOUS
    <2> QED
      BY <2>1
  <1> HIDE DEF g
  <1>3. EachIn(E1 \cup E2, g, k1 + k2)
    BY <1>1, <1>2 DEF EachIn
  <1> QED
    BY <1>3

\* Two ranges that have nothing in common, one behind the other.
LEMMA TwoLists ==
    ASSUME NEW E, NEW f1, NEW f2, NEW k1 \in Nat, NEW k2 \in Nat,
           AllFrom(f1, k1, E), NoneTwice(f1, k1), AllFrom(f2, k2, E), NoneTwice(f2, k2),
           \A i \in 1..k1 : \A j \in 1..k2 : f1[i] # f2[j]
    PROVE  \E f : AllFrom(f, k1 + k2, E) /\ NoneTwice(f, k1 + k2)
  <1> DEFINE f == [i \in 1..(k1 + k2) |-> IF i <= k1 THEN f1[i] ELSE f2[i - k1]]
  <1>1. \A i \in 1..(k1 + k2) : \/ i \in 1..k1 /\ f[i] = f1[i]
                                \/ ~(i \in 1..k1) /\ i - k1 \in 1..k2 /\ f[i] = f2[i - k1]
    OBVIOUS
  <1> HIDE DEF f
  <1>2. AllFrom(f, k1 + k2, E)
    BY <1>1 DEF AllFrom
  <1>3. ASSUME NEW i \in 1..(k1 + k2), NEW j \in 1..(k1 + k2), f[i] = f[j]
        PROVE  i = j
    <2>1. CASE i \in 1..k1 /\ j \in 1..k1
      BY <1>1, <1>3, <2>1 DEF NoneTwice
    <2>2. CASE i \in 1..k1 /\ ~(j \in 1..k1)
      BY <1>1, <1>3, <2>2
    <2>3. CASE ~(i \in 1..k1) /\ j \in 1..k1
      BY <1>1, <1>3, <2>3
    <2>4. CASE ~(i \in 1..k1) /\ ~(j \in 1..k1)
      <3>1. i - k1 \in 1..k2 /\ j - k1 \in 1..k2 /\ f2[i - k1] = f2[j - k1]
        BY <1>1, <1>3, <2>4
      <3>2. i - k1 = j - k1
        BY <3>1 DEF NoneTwice
      <3> QED
        BY <3>2
    <2> QED
      BY <2>1, <2>2, <2>3, <2>4
  <1> QED
    BY <1>2, <1>3 DEF NoneTwice

Rising(f, n) == \A i, j \in 1..n : i < j => f[i] < f[j]

\* Increasing numbers between 1 and n, if they are n, are all of them in order.
LEMMA IncreasingIsIdentity ==
    ASSUME NEW n \in Nat, NEW f, AllFrom(f, n, 1..n), Rising(f, n)
    PROVE  \A i \in 1..n : f[i] = i
  <1> USE DEF AllFrom, Rising
  <1>1. ASSUME NEW i \in 1..n, f[i] < i
        PROVE  FALSE
    <2> DEFINE T == {j \in 1..n : f[j] < j}
    <2>1. PICK j \in T : \A h \in T : j <= h
      <3>1. i \in T /\ T \in SUBSET Nat
        BY <1>1
      <3> HIDE DEF T
      <3> QED
        BY <3>1, LeastNumber
    <2>2. j - 1 \in 1..n /\ j - 1 < j
      BY <2>1
    <2>3. f[j - 1] \in Int /\ f[j] \in Int /\ f[j - 1] < f[j]
      BY <2>1, <2>2
    <2>4. f[j - 1] < j - 1
      BY <2>1, <2>3
    <2> QED
      BY <2>1, <2>2, <2>4
  <1>2. ASSUME NEW i \in 1..n, f[i] > i
        PROVE  FALSE
    <2> DEFINE T == {k \in 0..n : n - k \in 1..n /\ f[n - k] > n - k}
    <2>1. PICK k \in T : \A h \in T : k <= h
      <3>1. n - (n - i) = i /\ n - i \in 0..n
        OBVIOUS
      <3>2. n - i \in T /\ T \in SUBSET Nat
        BY <1>2, <3>1
      <3> HIDE DEF T
      <3> QED
        BY <3>2, LeastNumber
    <2>2. n - k \in 1..n /\ f[n - k] > n - k /\ f[n - k] \in 1..n
      BY <2>1
    <2>3. k # 0 /\ k - 1 \in 0..n /\ n - (k - 1) \in 1..n
      BY <2>1, <2>2
    <2>4. f[n - k] < f[n - (k - 1)] /\ f[n - (k - 1)] \in Int
      BY <2>2, <2>3
    <2>5. k - 1 \in T
      BY <2>2, <2>3, <2>4
    <2> QED
      BY <2>1, <2>5
  <1> QED
    BY <1>1, <1>2

-----------------------------------------------------------------------------
(* Sums                                                                    *)

\* The element of a set that the fold takes first, and what it leaves.
First(s) == CHOOSE x \in s : TRUE
Rest(s) == s \ {First(s)}

\* The recursion behind SumFunctionOnSet: g[s] is the sum over the set s, for all
\* sets of F.
Sums(g, fun, F) == \A s \in F : g[s] = IF s = {} THEN 0 ELSE fun[First(s)] + g[Rest(s)]

\* The numbers to be added, and two functions that have the same ones.
Integral(fun, S) == \A x \in S : fun[x] \in Int
SameOn(fun, h, S) == \A x \in S : fun[x] = h[x]

\* SumFunctionOnSet unfolded.
LEMMA SumUnfolded ==
    ASSUME NEW fun, NEW S,
           \E g : DOMAIN g = SUBSET S /\ g = [s \in SUBSET S |-> g[s]] /\ Sums(g, fun, SUBSET S)
    PROVE  \E g : SumFunctionOnSet(fun, S) = g[S] /\ Sums(g, fun, SUBSET S)
  <1> DEFINE Eq(g) == g = [s \in SUBSET S |-> IF s = {} THEN 0 ELSE fun[First(s)] + g[Rest(s)]]
  <1>1. SumFunctionOnSet(fun, S) = (CHOOSE g : Eq(g))[S]
    BY DEF SumFunctionOnSet, FoldFunctionOnSet, MapThenFoldSet, First, Rest
  <1>2. PICK g : Eq(g)
    BY DEF Sums
  <1>3. Eq(CHOOSE h : Eq(h))
    <2> HIDE DEF Eq
    <2> QED
      BY <1>2
  <1>4. Sums(CHOOSE h : Eq(h), fun, SUBSET S)
    <2> DEFINE c == CHOOSE h : Eq(h)
    <2>1. Eq(c)
      BY <1>3
    <2> HIDE DEF c
    <2>2. Sums(c, fun, SUBSET S)
      BY <2>1 DEF Sums
    <2> QED
      BY <2>2 DEF c
  <1> QED
    BY <1>1, <1>4

\* The subsets of a finite set, and what remains of one without its first element.
LEMMA Subsets ==
    ASSUME NEW S, IsFiniteSet(S), NEW s \in SUBSET S
    PROVE  /\ IsFiniteSet(s) /\ Cardinality(s) \in Nat /\ Cardinality(s) <= Cardinality(S)
           /\ Cardinality(s) = 0 <=> s = {}
           /\ s # {} => /\ First(s) \in s
                        /\ Rest(s) \in SUBSET S
                        /\ Cardinality(Rest(s)) = Cardinality(s) - 1
  <1>1. IsFiniteSet(s) /\ Cardinality(s) \in Nat /\ Cardinality(s) <= Cardinality(S)
    BY FS_Subset, FS_CardinalityType
  <1>2. Cardinality(s) = 0 <=> s = {}
    BY <1>1, FS_EmptySet
  <1>3. s # {} => First(s) \in s
    BY DEF First
  <1> QED
    BY <1>1, <1>2, <1>3, FS_RemoveElement DEF Rest

\* The recursion has a solution: it reaches the sets of n elements from those of n - 1.
LEMMA SumsExist ==
    ASSUME NEW S, IsFiniteSet(S), NEW fun, Integral(fun, S)
    PROVE  \E g \in [SUBSET S -> Int] : Sums(g, fun, SUBSET S)
  <1> USE DEF Integral
  <1> DEFINE Small(n) == {s \in SUBSET S : Cardinality(s) <= n}
             Solved(n) == \E g \in [Small(n) -> Int] : Sums(g, fun, Small(n))
             T == {n \in Nat : ~Solved(n)}
  <1>1. Solved(0)
    <2>1. \A s \in Small(0) : s = {}
      BY Subsets
    <2> DEFINE z == [s \in Small(0) |-> 0]
    <2>2. z \in [Small(0) -> Int] /\ Sums(z, fun, Small(0))
      BY <2>1 DEF Sums
    <2> HIDE DEF Small, z
    <2> QED
      BY <2>2
  <1>2. ASSUME NEW n \in Nat, n # 0, Solved(n - 1)
        PROVE  Solved(n)
    <2>1. PICK g \in [Small(n - 1) -> Int] : Sums(g, fun, Small(n - 1))
      BY <1>2
    <2> DEFINE h == [s \in Small(n) |->
                       IF s \in Small(n - 1) THEN g[s] ELSE fun[First(s)] + g[Rest(s)]]
    <2>2. \A s \in Small(n) : s # {} => First(s) \in S /\ Rest(s) \in Small(n - 1)
      BY <1>2, Subsets
    <2>3. \A s \in Small(n - 1) : s \in Small(n)
      BY <1>2, Subsets
    <2>4. {} \in Small(n - 1)
      BY <1>2, Subsets
    <2> HIDE DEF Small
    <2>5. h \in [Small(n) -> Int]
      BY <2>1, <2>2, <2>4
    <2>6. \A s \in Small(n) : s # {} => h[Rest(s)] = g[Rest(s)]
      BY <2>2, <2>3
    <2>7. ASSUME NEW s \in Small(n)
          PROVE  h[s] = IF s = {} THEN 0 ELSE fun[First(s)] + h[Rest(s)]
      <3>1. CASE s \in Small(n - 1)
        <4>1. h[s] = g[s]
          BY <3>1
        <4> HIDE DEF h
        <4> QED
          BY <2>1, <2>6, <2>7, <3>1, <4>1 DEF Sums
      <3>2. CASE s \notin Small(n - 1)
        <4>1. s # {} /\ h[s] = fun[First(s)] + g[Rest(s)]
          BY <2>4, <3>2
        <4> HIDE DEF h
        <4> QED
          BY <2>6, <2>7, <4>1
      <3> QED
        BY <3>1, <3>2
    <2>8. Sums(h, fun, Small(n))
      BY <2>7 DEF Sums
    <2> HIDE DEF h
    <2> QED
      BY <2>5, <2>8
  <1>3. T = {}
    <2> HIDE DEF Solved
    <2>1. ASSUME NEW n \in T, \A m \in T : n <= m
          PROVE  FALSE
      <3>1. n # 0 /\ n \in Nat /\ ~Solved(n)
        BY <1>1, <2>1
      <3>2. n - 1 \in Nat /\ n - 1 \notin T
        BY <2>1, <3>1
      <3>3. Solved(n - 1)
        BY <3>2
      <3> QED
        BY <1>2, <3>1, <3>3
    <2>2. T \in SUBSET Nat
      OBVIOUS
    <2> HIDE DEF T
    <2> QED
      BY <2>1, <2>2, LeastNumber
  <1>4. Cardinality(S) \in Nat /\ Small(Cardinality(S)) = SUBSET S
    BY Subsets
  <1>5. Solved(Cardinality(S))
    <2> HIDE DEF Solved
    <2> QED
      BY <1>3, <1>4
  <1> HIDE DEF Small
  <1> QED
    BY <1>4, <1>5

\* The order of the recursion does not matter: any element may come first.
LEMMA AnyFirst ==
    ASSUME NEW S, IsFiniteSet(S), NEW fun, Integral(fun, S),
           NEW g, Sums(g, fun, SUBSET S)
    PROVE  g[S] \in Int /\ \A x \in S : g[S] = fun[x] + g[S \ {x}]
  <1> USE DEF Integral
  <1> DEFINE Good(s) == g[s] \in Int /\ \A x \in s : g[s] = fun[x] + g[s \ {x}]
             F == {s \in SUBSET S : ~Good(s)}
  <1>1. ASSUME NEW s \in F, \A t \in F : t \subseteq s => t = s
        PROVE  FALSE
    <2>1. \A t \in SUBSET S : t \subseteq s /\ t # s => Good(t)
      BY <1>1
    <2>2. s \in SUBSET S /\ ~Good(s)
      BY <1>1
    <2>3. s # {} /\ First(s) \in s /\ g[s] = fun[First(s)] + g[Rest(s)]
      <3>1. g[{}] = 0
        BY DEF Sums
      <3>2. s # {}
        <4>1. s = {} => g[s] \in Int /\ \A x \in s : g[s] = fun[x] + g[s \ {x}]
          BY <3>1
        <4> QED
          BY <2>2, <4>1
      <3> QED
        BY <2>2, <3>2, Subsets DEF Sums
    <2>4. Good(Rest(s)) /\ Rest(s) = s \ {First(s)}
      BY <2>1, <2>2, <2>3 DEF Rest
    <2>5. fun[First(s)] \in Int /\ g[s] \in Int
      BY <2>2, <2>3, <2>4
    <2>6. ASSUME NEW x \in s, x # First(s)
          PROVE  g[s] = fun[x] + g[s \ {x}]
      <3> DEFINE c == First(s)
                 u == (s \ {x}) \ {c}
      <3>1. u = (s \ {c}) \ {x}
        OBVIOUS
      <3>2. Good(s \ {x})
        BY <2>1, <2>2, <2>6
      <3>3. c \in s \ {x} /\ x \in s \ {c}
        BY <2>3, <2>6
      <3>4. g[s \ {x}] = fun[c] + g[u]
        BY <3>2, <3>3
      <3>5. g[s \ {c}] = fun[x] + g[u]
        BY <2>4, <3>1, <3>3
      <3>6. g[u] \in Int
        BY <2>1, <2>2, <3>3
      <3>7. fun[x] \in Int
        BY <2>2
      <3> HIDE DEF u, c
      <3>8. g[s] = fun[c] + g[s \ {c}] /\ fun[c] \in Int
        BY <2>3, <2>4, <2>5 DEF c
      <3> QED
        BY <3>4, <3>5, <3>6, <3>7, <3>8
    <2> QED
      BY <2>2, <2>3, <2>4, <2>5, <2>6
  <1>2. F = {}
    <2>1. \A s \in F : s \subseteq S
      OBVIOUS
    <2> HIDE DEF F
    <2> QED
      BY <1>1, <2>1, SmallestSubset
  <1> QED
    BY <1>2

\* A sum depends on nothing but the numbers that are added.
LEMMA SameSums ==
    ASSUME NEW S, IsFiniteSet(S), NEW fun, NEW fun2, SameOn(fun, fun2, S),
           NEW g, Sums(g, fun, SUBSET S), NEW h, Sums(h, fun2, SUBSET S)
    PROVE  g[S] = h[S]
  <1> USE DEF SameOn
  <1> DEFINE F == {s \in SUBSET S : g[s] # h[s]}
  <1>1. ASSUME NEW s \in F, \A t \in F : t \subseteq s => t = s
        PROVE  FALSE
    <2>1. s \in SUBSET S /\ g[s] # h[s]
      BY <1>1
    <2>2. s # {}
      BY <2>1 DEF Sums
    <2>3. First(s) \in s /\ Rest(s) \in SUBSET S /\ Rest(s) \subseteq s /\ Rest(s) # s
      BY <2>1, <2>2, Subsets DEF Rest
    <2>4. g[Rest(s)] = h[Rest(s)]
      BY <1>1, <2>3
    <2>5. g[s] = fun[First(s)] + g[Rest(s)] /\ h[s] = fun2[First(s)] + h[Rest(s)]
      BY <2>1, <2>2 DEF Sums
    <2> QED
      BY <2>1, <2>3, <2>4, <2>5
  <1>2. F = {}
    <2>1. \A s \in F : s \subseteq S
      OBVIOUS
    <2> HIDE DEF F
    <2> QED
      BY <1>1, <2>1, SmallestSubset
  <1> QED
    BY <1>2

\* What SumFunctionOnSet is for integers.
LEMMA SumIsSums ==
    ASSUME NEW S, IsFiniteSet(S), NEW fun, Integral(fun, S)
    PROVE  \E g : SumFunctionOnSet(fun, S) = g[S] /\ Sums(g, fun, SUBSET S)
  <1>1. PICK g \in [SUBSET S -> Int] : Sums(g, fun, SUBSET S)
    BY SumsExist
  <1>2. DOMAIN g = SUBSET S /\ g = [s \in SUBSET S |-> g[s]]
    OBVIOUS
  <1> QED
    BY <1>1, <1>2, SumUnfolded

\* The sum of nothing, of one number more, and of the same numbers again.
LEMMA SumFacts ==
    ASSUME NEW n \in Nat, NEW fun, \A i \in 1..n : fun[i] \in Int
    PROVE  /\ SumFunctionOnSet(fun, 1..n) \in Int
           /\ n = 0 => SumFunctionOnSet(fun, 1..n) = 0
           /\ \A h : (\A i \in 1..n : h[i] = fun[i])
                        => SumFunctionOnSet(h, 1..n) = SumFunctionOnSet(fun, 1..n)
           /\ \A h : (\A i \in 1..n : h[i] = fun[i]) /\ h[n + 1] \in Int
                        => SumFunctionOnSet(h, 1..(n + 1))
                              = SumFunctionOnSet(fun, 1..n) + h[n + 1]
  <1> DEFINE D == 1..n
             N == 1..(n + 1)
  <1>1. IsFiniteSet(D) /\ IsFiniteSet(N)
    BY FS_Interval
  <1>2. /\ n = 0 => D = {}
        /\ N \ {n + 1} = D /\ n + 1 \in N /\ D \subseteq N
        /\ \A i \in N : i \in D \/ i = n + 1
    OBVIOUS
  <1>3. Integral(fun, D)
    BY DEF Integral
  <1> HIDE DEF D, N
  <1>4. PICK g : SumFunctionOnSet(fun, D) = g[D] /\ Sums(g, fun, SUBSET D)
    BY <1>1, <1>3, SumIsSums
  <1>5. SumFunctionOnSet(fun, D) \in Int
    BY <1>1, <1>3, <1>4, AnyFirst
  <1>6. n = 0 => SumFunctionOnSet(fun, D) = 0
    BY <1>2, <1>4 DEF Sums
  <1>7. ASSUME NEW h, \A i \in D : h[i] = fun[i]
        PROVE  SumFunctionOnSet(h, D) = SumFunctionOnSet(fun, D)
    <2>1. Integral(h, D) /\ SameOn(fun, h, D)
      BY <1>3, <1>7 DEF Integral, SameOn
    <2>2. PICK f : SumFunctionOnSet(h, D) = f[D] /\ Sums(f, h, SUBSET D)
      BY <1>1, <2>1, SumIsSums
    <2>3. g[D] = f[D]
      BY <1>1, <1>4, <2>1, <2>2, SameSums
    <2> QED
      BY <1>4, <2>2, <2>3
  <1>8. ASSUME NEW h, \A i \in D : h[i] = fun[i], h[n + 1] \in Int
        PROVE  SumFunctionOnSet(h, N) = SumFunctionOnSet(fun, D) + h[n + 1]
    <2>1. Integral(h, N) /\ SameOn(fun, h, D)
      BY <1>2, <1>3, <1>8 DEF Integral, SameOn
    <2>2. PICK f : SumFunctionOnSet(h, N) = f[N] /\ Sums(f, h, SUBSET N)
      BY <1>1, <2>1, SumIsSums
    <2>3. f[N] = h[n + 1] + f[N \ {n + 1}]
      BY <1>1, <1>2, <2>1, <2>2, AnyFirst
    <2>4. g[D] = f[D]
      <3>1. Sums(f, h, SUBSET D)
        BY <1>2, <2>2 DEF Sums
      <3> QED
        BY <1>1, <1>4, <2>1, <3>1, SameSums
    <2>5. f[N] = h[n + 1] + g[D] /\ g[D] \in Int
      BY <1>2, <1>4, <1>5, <2>3, <2>4
    <2> QED
      BY <1>4, <1>8, <2>2, <2>5
  <1> QED
    BY <1>5, <1>6, <1>7, <1>8 DEF D, N
=============================================================================
