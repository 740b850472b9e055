--------------------------- MODULE EvictionProofs ---------------------------
(***************************************************************************)
(* Proofs about the plan of a pass of the collector: it is what            *)
(* EvictionPolicy says, whatever files are listed.  The plan is made by    *)
(* recursion over two listings and adds up sizes, so the facts about sums, *)
(* and the induction they rest on, come first.                             *)
(***************************************************************************)
EXTENDS Eviction, FiniteSetTheorems, WellFoundedInduction, TLAPS

-----------------------------------------------------------------------------
(* Induction *)

\* A set of naturals has a least member.
LEMMA LeastMember ==
  ASSUME NEW T \in SUBSET Nat, T # {}
  PROVE  \E n \in T : \A m \in T : n <= m
<1>1. PICK n \in T : \A m \in T : ~(<<m, n>> \in OpToRel(<, Nat))
  BY NatLessThanWellFounded, WFMin, Zenon
<1>2. \A m \in T : m \in Nat /\ n \in Nat /\ ~(m < n)
  BY <1>1, Zenon DEF OpToRel
<1>3. \A m, k \in Nat : ~(m < k) => k <= m
  OBVIOUS
<1> QED
  BY <1>2, <1>3, Zenon

\* A set of naturals with zero, and with the successors of its members, has all.
LEMMA Induction ==
  ASSUME NEW T, T \subseteq Nat, 0 \in T, \A n \in T : n + 1 \in T
  PROVE  \A n \in Nat : n \in T
<1>1. SUFFICES ASSUME Nat \ T # {} PROVE FALSE
  OBVIOUS
<1>2. PICK n \in Nat \ T : \A m \in Nat \ T : n <= m
  BY <1>1, LeastMember, Zenon
<1>3. n - 1 \in T /\ (n - 1) + 1 = n
  BY <1>2
<1> QED
  BY <1>2, <1>3

-----------------------------------------------------------------------------
(* The recursion of the sum *)

Any(s) == CHOOSE x \in s : TRUE

\* g gives each set in D its sum by that of the set without one element.
IsSum(f, g, D) ==
  \A s \in D : g[s] = IF s = {} THEN 0 ELSE f[Any(s)] + g[s \ {Any(s)}]

UpTo(S, n) == {s \in SUBSET S : Cardinality(s) <= n}

\* The recursion goes to a smaller set.
LEMMA Smaller ==
  ASSUME NEW S, IsFiniteSet(S), NEW s \in SUBSET S, s # {}
  PROVE  /\ Any(s) \in s /\ Any(s) \in S /\ s \ {Any(s)} \in SUBSET S
         /\ \A n \in Nat : s \in UpTo(S, n + 1) => s \ {Any(s)} \in UpTo(S, n)
<1>1. IsFiniteSet(s) /\ Any(s) \in s
  BY FS_Subset DEF Any
<1>2. Cardinality(s \ {Any(s)}) = Cardinality(s) - 1 /\ Cardinality(s) \in Nat
  BY <1>1, FS_RemoveElement, FS_CardinalityType
<1> QED
  BY <1>1, <1>2 DEF UpTo

\* All subsets of a finite set are of some size.
LEMMA AllSizes ==
  ASSUME NEW S, IsFiniteSet(S)
  PROVE  /\ Cardinality(S) \in Nat /\ SUBSET S = UpTo(S, Cardinality(S))
         /\ UpTo(S, 0) = {{}}
         /\ \A n \in Nat : UpTo(S, n) \subseteq UpTo(S, n + 1)
<1>1. ASSUME NEW s \in SUBSET S
      PROVE  Cardinality(s) \in Nat /\ (Cardinality(s) <= 0 => s = {})
  BY FS_Subset, FS_EmptySet, FS_CardinalityType
<1>2. Cardinality({}) = 0
  BY FS_EmptySet
<1>3. \A s \in SUBSET S : Cardinality(s) <= Cardinality(S)
  BY FS_Subset
<1>4. Cardinality(S) \in Nat
  BY FS_CardinalityType
<1>5. SUBSET S = UpTo(S, Cardinality(S))
  BY <1>3 DEF UpTo
<1>6. UpTo(S, 0) = {{}}
  BY <1>1, <1>2 DEF UpTo
<1>7. \A n \in Nat : UpTo(S, n) \subseteq UpTo(S, n + 1)
  BY <1>1 DEF UpTo
<1> QED
  BY <1>4, <1>5, <1>6, <1>7

\* The recursion has a solution.
LEMMA SumExists ==
  ASSUME NEW S, IsFiniteSet(S), NEW f, \A x \in S : f[x] \in Nat
  PROVE  \E g \in [SUBSET S -> Nat] : IsSum(f, g, SUBSET S)
<1> DEFINE Solved(n) == \E g \in [UpTo(S, n) -> Nat] : IsSum(f, g, UpTo(S, n))
           T == {n \in Nat : Solved(n)}
<1>1. Solved(0)
  <2>1. [s \in UpTo(S, 0) |-> 0] \in [UpTo(S, 0) -> Nat] /\ IsSum(f, [s \in UpTo(S, 0) |-> 0], UpTo(S, 0))
    BY AllSizes DEF IsSum
  <2> QED
    BY <2>1
<1>2. ASSUME NEW n \in Nat, Solved(n) PROVE Solved(n + 1)
  <2>1. PICK g \in [UpTo(S, n) -> Nat] : IsSum(f, g, UpTo(S, n))
    BY <1>2
  <2> DEFINE h == [s \in UpTo(S, n + 1) |-> IF s = {} THEN 0 ELSE f[Any(s)] + g[s \ {Any(s)}]]
  <2>2. ASSUME NEW s \in UpTo(S, n + 1), s # {}
        PROVE  Any(s) \in S /\ s \ {Any(s)} \in UpTo(S, n)
    BY <2>2, Smaller DEF UpTo
  <2>3. h \in [UpTo(S, n + 1) -> Nat]
    BY <2>2
  <2>4. ASSUME NEW s \in UpTo(S, n) PROVE s \in UpTo(S, n + 1) /\ h[s] = g[s]
    BY <2>1, AllSizes, Zenon DEF IsSum
  <2>5. IsSum(f, h, UpTo(S, n + 1))
    <3> SUFFICES ASSUME NEW s \in UpTo(S, n + 1)
                 PROVE  h[s] = IF s = {} THEN 0 ELSE f[Any(s)] + h[s \ {Any(s)}]
      BY Zenon DEF IsSum
    <3> QED
      BY <2>2, <2>4, Zenon
  <2> HIDE DEF h
  <2> QED
    BY <2>3, <2>5
<1> HIDE DEF Solved
<1>3. \A n \in Nat : Solved(n)
  <2>1. T \subseteq Nat /\ 0 \in T /\ \A n \in T : n + 1 \in T
    BY <1>1, <1>2
  <2> HIDE DEF T
  <2>2. \A n \in Nat : n \in T
    BY <2>1, Induction, Zenon
  <2> QED
    BY <2>2 DEF T
<1>4. Solved(Cardinality(S))
  BY <1>3, AllSizes
<1>5. SUBSET S = UpTo(S, Cardinality(S))
  BY AllSizes
<1> QED
  BY <1>4, <1>5, Zenon DEF Solved

\* It has only one.
LEMMA SumUnique ==
  ASSUME NEW S, IsFiniteSet(S), NEW f, NEW g, NEW h,
         IsSum(f, g, SUBSET S), IsSum(f, h, SUBSET S)
  PROVE  \A s \in SUBSET S : g[s] = h[s]
<1> DEFINE T == {n \in Nat : \A s \in UpTo(S, n) : g[s] = h[s]}
<1>1. T \subseteq Nat
  OBVIOUS
<1>2. 0 \in T
  BY AllSizes DEF IsSum
<1>3. ASSUME NEW n \in T PROVE n + 1 \in T
  <2> SUFFICES ASSUME NEW s \in UpTo(S, n + 1) PROVE g[s] = h[s]
    OBVIOUS
  <2>1. s \in SUBSET S
    BY DEF UpTo
  <2>2. CASE s = {}
    BY <2>1, <2>2 DEF IsSum
  <2>3. CASE s # {}
    <3>1. g[s \ {Any(s)}] = h[s \ {Any(s)}]
      BY <2>1, <2>3, Smaller
    <3> QED
      BY <2>1, <2>3, <3>1, Zenon DEF IsSum
  <2> QED
    BY <2>2, <2>3
<1> HIDE DEF T
<1>4. Cardinality(S) \in T
  BY <1>1, <1>2, <1>3, Induction, AllSizes, Zenon
<1> QED
  BY <1>4, AllSizes DEF T

\* The sum is what the recursion gives.
LEMMA SumIs ==
  ASSUME NEW S, IsFiniteSet(S), NEW f, NEW g \in [SUBSET S -> Nat], IsSum(f, g, SUBSET S),
         NEW R \in SUBSET S
  PROVE  SumFunctionOnSet(f, R) = g[R]
<1> DEFINE F(i) == [s \in SUBSET R |-> IF s = {} THEN 0 ELSE f[Any(s)] + i[s \ {Any(s)}]]
           iter == CHOOSE i : i = F(i)
           k == [s \in SUBSET R |-> g[s]]
<1>1. IsFiniteSet(R)
  BY FS_Subset
<1>2. k = F(k) /\ IsSum(f, k, SUBSET R)
  <2>1. \A s \in SUBSET R : s \in SUBSET S /\ (s # {} => s \ {Any(s)} \in SUBSET R)
    OBVIOUS
  <2> QED
    BY <2>1, Zenon DEF IsSum
<1>3. iter = F(iter)
  <2> HIDE DEF k, F
  <2> QED
    BY <1>2
<1>4. IsSum(f, iter, SUBSET R)
  <2> HIDE DEF iter
  <2>1. ASSUME NEW s \in SUBSET R PROVE iter[s] = IF s = {} THEN 0 ELSE f[Any(s)] + iter[s \ {Any(s)}]
    BY <1>3, Zenon
  <2> QED
    BY <2>1 DEF IsSum
<1>5. iter[R] = g[R]
  <2> HIDE DEF iter, k, F
  <2>1. iter[R] = k[R]
    <3>1. \A s \in SUBSET R : iter[s] = k[s]
      BY <1>1, <1>2, <1>4, SumUnique
    <3> QED
      BY <3>1
  <2> QED
    BY <2>1 DEF k
<1>6. SumFunctionOnSet(f, R) = iter[R]
  BY DEF SumFunctionOnSet, FoldFunctionOnSet, MapThenFoldSet, Any
<1> QED
  BY <1>5, <1>6

-----------------------------------------------------------------------------
(* What the sum is *)

\* A sum of naturals is a natural, that of nothing is zero, and an element adds
\* its value.
LEMMA SumAdd ==
  ASSUME NEW S, IsFiniteSet(S), NEW f, \A x \in S : f[x] \in Nat
  PROVE  /\ SumFunctionOnSet(f, S) \in Nat
         /\ SumFunctionOnSet(f, {}) = 0
         /\ \A x \in S : SumFunctionOnSet(f, S) = SumFunctionOnSet(f, S \ {x}) + f[x]
<1>1. PICK g \in [SUBSET S -> Nat] : IsSum(f, g, SUBSET S)
  BY SumExists, Zenon
<1>2. \A R \in SUBSET S : SumFunctionOnSet(f, R) = g[R]
  BY <1>1, SumIs
<1> DEFINE T == {n \in Nat : \A s \in UpTo(S, n) : \A x \in s : g[s] = g[s \ {x}] + f[x]}
<1>3. T \subseteq Nat /\ 0 \in T
  BY AllSizes
<1>4. ASSUME NEW n \in T PROVE n + 1 \in T
  <2> SUFFICES ASSUME NEW s \in UpTo(S, n + 1), NEW x \in s PROVE g[s] = g[s \ {x}] + f[x]
    OBVIOUS
  <2> DEFINE y == Any(s)
  <2>1. s \in SUBSET S /\ s # {} /\ s \ {x} \in SUBSET S
    BY DEF UpTo
  <2>2. y \in s /\ y \in S /\ s \ {y} \in UpTo(S, n) /\ s \ {y} \in SUBSET S
    BY <2>1, Smaller
  <2>3. g[s] = f[y] + g[s \ {y}]
    BY <1>1, <2>1 DEF IsSum
  <2> HIDE DEF y
  <2>4. CASE x = y
    BY <2>2, <2>3, <2>4
  <2>5. CASE x # y
    <3>1. x \in s \ {y} /\ y \in s \ {x} /\ (s \ {y}) \ {x} = (s \ {x}) \ {y}
      BY <2>2, <2>5
    <3>2. g[s \ {y}] = g[(s \ {y}) \ {x}] + f[x]
      BY <2>2, <3>1, Zenon
    <3>3. s \ {x} \in UpTo(S, n)
      <4>1. IsFiniteSet(s)
        BY <2>1, FS_Subset
      <4>2. Cardinality(s \ {x}) = Cardinality(s) - 1 /\ Cardinality(s) \in Nat
        BY <4>1, FS_RemoveElement, FS_CardinalityType, Zenon
      <4> QED
        BY <2>1, <4>2 DEF UpTo
    <3>4. g[s \ {x}] = g[(s \ {x}) \ {y}] + f[y]
      BY <3>1, <3>3, Zenon
    <3>5. (s \ {y}) \ {x} \in SUBSET S /\ f[x] \in Nat /\ f[y] \in Nat
      BY <2>1, <2>2
    <3>6. g[(s \ {y}) \ {x}] \in Nat /\ g[s \ {x}] \in Nat /\ g[s \ {y}] \in Nat
      BY <2>1, <2>2, <3>5
    <3>7. g[s \ {x}] = g[(s \ {y}) \ {x}] + f[y]
      BY <3>1, <3>4, Zenon
    <3> DEFINE u == g[(s \ {y}) \ {x}]
    <3>8. g[s] = f[y] + (u + f[x]) /\ g[s \ {x}] = u + f[y] /\ u \in Nat
      BY <2>3, <3>2, <3>6, <3>7
    <3> HIDE DEF u
    <3> QED
      BY <3>5, <3>8
  <2> QED
    BY <2>4, <2>5
<1>5. \A x \in S : g[S] = g[S \ {x}] + f[x]
  <2> HIDE DEF T
  <2>1. Cardinality(S) \in T
    BY <1>3, <1>4, Induction, AllSizes, Zenon
  <2> QED
    BY <2>1, AllSizes DEF T
<1>6. g[{}] = 0 /\ {} \in SUBSET S /\ S \in SUBSET S
  BY <1>1 DEF IsSum
<1> QED
  BY <1>2, <1>5, <1>6

\* The sum depends on nothing else than the values on the set.
LEMMA SumSame ==
  ASSUME NEW S, IsFiniteSet(S), NEW f, NEW h, \A x \in S : f[x] \in Nat /\ h[x] = f[x]
  PROVE  SumFunctionOnSet(h, S) = SumFunctionOnSet(f, S)
<1>1. PICK g \in [SUBSET S -> Nat] : IsSum(f, g, SUBSET S)
  BY SumExists, Zenon
<1>2. IsSum(h, g, SUBSET S)
  <2>1. \A s \in SUBSET S : s # {} => h[Any(s)] = f[Any(s)]
    BY Smaller, Zenon
  <2> QED
    BY <1>1, <2>1 DEF IsSum
<1>3. SumFunctionOnSet(f, S) = g[S] /\ SumFunctionOnSet(h, S) = g[S]
  BY <1>1, <1>2, SumIs
<1> QED
  BY <1>3

\* One value changes.
LEMMA SumChange ==
  ASSUME NEW S, IsFiniteSet(S), NEW f, NEW h, NEW x \in S,
         \A y \in S : f[y] \in Nat /\ h[y] \in Nat, \A y \in S \ {x} : h[y] = f[y]
  PROVE  /\ SumFunctionOnSet(f, S) \in Nat /\ SumFunctionOnSet(h, S) \in Nat
         /\ f[x] \in Nat /\ h[x] \in Nat
         /\ SumFunctionOnSet(h, S) + f[x] = SumFunctionOnSet(f, S) + h[x]
<1>1. IsFiniteSet(S \ {x})
  BY FS_Subset
<1>2. SumFunctionOnSet(h, S \ {x}) = SumFunctionOnSet(f, S \ {x})
  BY <1>1, SumSame
<1>3. /\ SumFunctionOnSet(f, S) \in Nat /\ SumFunctionOnSet(h, S) \in Nat
      /\ SumFunctionOnSet(f, S) = SumFunctionOnSet(f, S \ {x}) + f[x]
      /\ SumFunctionOnSet(h, S) = SumFunctionOnSet(h, S \ {x}) + h[x]
  BY SumAdd
<1>4. SumFunctionOnSet(f, S \ {x}) \in Nat
  BY <1>1, SumAdd
<1> QED
  BY <1>2, <1>3, <1>4

\* Smaller values, and fewer elements, have a smaller sum.
LEMMA SumMonotone ==
  ASSUME NEW S, IsFiniteSet(S), NEW R \in SUBSET S, NEW f, NEW h,
         \A x \in S : f[x] \in Nat /\ h[x] \in Nat, \A x \in R : f[x] <= h[x]
  PROVE  SumFunctionOnSet(f, R) <= SumFunctionOnSet(h, S)
<1> DEFINE P(s) == SumFunctionOnSet(f, R \cap s) <= SumFunctionOnSet(h, s)
           T == {n \in Nat : \A s \in UpTo(S, n) : P(s)}
<1>1. T \subseteq Nat /\ 0 \in T
  <2>1. IsFiniteSet({}) /\ SumFunctionOnSet(f, {}) = 0 /\ SumFunctionOnSet(h, {}) = 0
    BY SumAdd, FS_EmptySet
  <2>2. P({})
    <3>1. R \cap {} = {}
      OBVIOUS
    <3> QED
      BY <2>1, <3>1
  <2> QED
    BY <2>2, AllSizes, Zenon
<1>2. ASSUME NEW n \in T PROVE n + 1 \in T
  <2> SUFFICES ASSUME NEW s \in UpTo(S, n + 1) PROVE P(s)
    OBVIOUS
  <2>1. CASE s = {}
    <3>1. s \in UpTo(S, n)
      BY <2>1, FS_EmptySet DEF UpTo
    <3> QED
      BY <3>1
  <2>2. CASE s # {}
    <3> DEFINE y == Any(s)
               q == s \ {y}
    <3>1. s \in SUBSET S /\ y \in s /\ y \in S /\ q \in UpTo(S, n) /\ q \in SUBSET S
      BY <2>2, Smaller DEF UpTo
    <3> HIDE DEF y
    <3>2. /\ IsFiniteSet(s) /\ IsFiniteSet(q) /\ IsFiniteSet(R \cap s) /\ IsFiniteSet(R \cap q)
      BY <3>1, FS_Subset
    <3>3. SumFunctionOnSet(f, R \cap q) <= SumFunctionOnSet(h, q)
      BY <3>1
    <3>4. SumFunctionOnSet(h, s) = SumFunctionOnSet(h, q) + h[y] /\ SumFunctionOnSet(h, q) \in Nat
      BY <3>1, <3>2, SumAdd
    <3>5. SumFunctionOnSet(f, R \cap q) \in Nat
      BY <3>1, <3>2, SumAdd
    <3> HIDE DEF q
    <3>8. f[y] \in Nat /\ h[y] \in Nat /\ (y \in R => f[y] <= h[y])
      BY <3>1
    <3>6. CASE y \in R
      <4>1. (R \cap s) \ {y} = R \cap q /\ y \in R \cap s
        BY <3>1, <3>6 DEF q
      <4>2. SumFunctionOnSet(f, R \cap s) = SumFunctionOnSet(f, R \cap q) + f[y]
        BY <3>1, <3>2, <4>1, SumAdd
      <4> QED
        BY <3>3, <3>4, <3>5, <3>6, <3>8, <4>2
    <3>7. CASE y \notin R
      <4>1. R \cap s = R \cap q
        BY <3>7 DEF q
      <4>2. SumFunctionOnSet(f, R \cap s) = SumFunctionOnSet(f, R \cap q)
        BY <4>1, Zenon
      <4> QED
        BY <3>3, <3>4, <3>5, <3>8, <4>2
    <3> QED
      BY <3>6, <3>7
  <2> QED
    BY <2>1, <2>2
<1>3. P(S)
  <2> HIDE DEF T, P
  <2>1. Cardinality(S) \in T
    BY <1>1, <1>2, Induction, AllSizes, Zenon
  <2> QED
    BY <2>1, AllSizes DEF T
<1>4. R \cap S = R
  OBVIOUS
<1> QED
  BY <1>3, <1>4

\* What is taken out of a set takes its sum with it.
LEMMA SumSplit ==
  ASSUME NEW S, IsFiniteSet(S), NEW R \in SUBSET S, NEW f, \A x \in S : f[x] \in Nat
  PROVE  SumFunctionOnSet(f, S) = SumFunctionOnSet(f, S \ R) + SumFunctionOnSet(f, R)
<1> DEFINE P(s) == SumFunctionOnSet(f, S) = SumFunctionOnSet(f, S \ s) + SumFunctionOnSet(f, s)
           T == {n \in Nat : \A s \in UpTo(S, n) : P(s)}
<1>1. P({})
  <2>1. SumFunctionOnSet(f, {}) = 0 /\ SumFunctionOnSet(f, S) \in Nat /\ S \ {} = S
    BY SumAdd
  <2> QED
    BY <2>1
<1>2. T \subseteq Nat /\ 0 \in T
  BY <1>1, AllSizes, Zenon
<1>3. ASSUME NEW n \in T PROVE n + 1 \in T
  <2> SUFFICES ASSUME NEW s \in UpTo(S, n + 1) PROVE P(s)
    OBVIOUS
  <2>1. CASE s = {}
    BY <1>1, <2>1
  <2>2. CASE s # {}
    <3> DEFINE y == Any(s)
               q == s \ {y}
    <3>1. s \in SUBSET S /\ y \in s /\ y \in S /\ q \in UpTo(S, n) /\ q \in SUBSET S
      BY <2>2, Smaller DEF UpTo
    <3> HIDE DEF y
    <3>2. IsFiniteSet(s) /\ IsFiniteSet(q) /\ IsFiniteSet(S \ q) /\ IsFiniteSet(S \ s)
      BY <3>1, FS_Subset
    <3>3. SumFunctionOnSet(f, S) = SumFunctionOnSet(f, S \ q) + SumFunctionOnSet(f, q)
      BY <3>1
    <3>4. /\ SumFunctionOnSet(f, s) = SumFunctionOnSet(f, q) + f[y]
          /\ SumFunctionOnSet(f, q) \in Nat
      BY <3>1, <3>2, SumAdd
    <3> HIDE DEF q
    <3>5. (S \ q) \ {y} = S \ s /\ y \in S \ q
      BY <3>1 DEF q
    <3>6. /\ SumFunctionOnSet(f, S \ q) = SumFunctionOnSet(f, (S \ q) \ {y}) + f[y]
          /\ SumFunctionOnSet(f, S \ s) \in Nat
      <4> DEFINE u == S \ q
                 v == S \ s
      <4>1. u \in SUBSET S /\ v \in SUBSET S /\ IsFiniteSet(u) /\ IsFiniteSet(v) /\ y \in u
        BY <3>2, <3>5
      <4> HIDE DEF u, v
      <4>2. SumFunctionOnSet(f, u) = SumFunctionOnSet(f, u \ {y}) + f[y] /\ SumFunctionOnSet(f, v) \in Nat
        BY <4>1, SumAdd
      <4> QED
        BY <4>2, Zenon DEF u, v
    <3>7. SumFunctionOnSet(f, S \ q) = SumFunctionOnSet(f, S \ s) + f[y] /\ f[y] \in Nat
      BY <3>1, <3>5, <3>6, Zenon
    <3> QED
      BY <3>3, <3>4, <3>6, <3>7
  <2> QED
    BY <2>1, <2>2
<1> HIDE DEF T, P
<1>4. Cardinality(S) \in T
  BY <1>2, <1>3, Induction, AllSizes, Zenon
<1>5. P(R)
  BY <1>4, AllSizes DEF T
<1> QED
  BY <1>5 DEF P

\* A sum of ones counts.
LEMMA SumCounts ==
  ASSUME NEW S, IsFiniteSet(S), NEW f, \A x \in S : f[x] = 1
  PROVE  SumFunctionOnSet(f, S) = Cardinality(S)
<1> DEFINE T == {n \in Nat : \A s \in UpTo(S, n) : SumFunctionOnSet(f, s) = Cardinality(s)}
<1>1. T \subseteq Nat /\ 0 \in T
  <2>1. SumFunctionOnSet(f, {}) = 0 /\ Cardinality({}) = 0
    BY SumAdd, FS_EmptySet
  <2> QED
    BY <2>1, AllSizes, Zenon
<1>2. ASSUME NEW n \in T PROVE n + 1 \in T
  <2> SUFFICES ASSUME NEW s \in UpTo(S, n + 1) PROVE SumFunctionOnSet(f, s) = Cardinality(s)
    OBVIOUS
  <2>1. CASE s = {}
    BY <2>1, <1>1, AllSizes, FS_EmptySet
  <2>2. CASE s # {}
    <3> DEFINE y == Any(s)
    <3>1. s \in SUBSET S /\ y \in s /\ y \in S /\ s \ {y} \in UpTo(S, n)
      BY <2>2, Smaller DEF UpTo
    <3> HIDE DEF y
    <3>2. IsFiniteSet(s)
      BY <3>1, FS_Subset
    <3>3. SumFunctionOnSet(f, s) = SumFunctionOnSet(f, s \ {y}) + f[y]
      BY <3>1, <3>2, SumAdd
    <3>4. Cardinality(s \ {y}) = Cardinality(s) - 1 /\ Cardinality(s) \in Nat
      BY <3>1, <3>2, FS_RemoveElement, FS_CardinalityType, Zenon
    <3>5. SumFunctionOnSet(f, s \ {y}) = Cardinality(s \ {y}) /\ f[y] = 1
      BY <3>1
    <3> QED
      BY <3>3, <3>4, <3>5
  <2> QED
    BY <2>1, <2>2
<1> HIDE DEF T
<1>3. Cardinality(S) \in T
  BY <1>1, <1>2, Induction, AllSizes, Zenon
<1> QED
  BY <1>3, AllSizes DEF T

-----------------------------------------------------------------------------
(* The recursion of the two tiers *)

FirstTier(g, n) ==
  g = [i \in 0..n |-> IF i = 0 THEN Tally ELSE EvictOrphan(g[i - 1], gc.blobs[i])]

SecondTier(g, n) ==
  g = [i \in 0..n |-> IF i = 0 THEN TierOne[Len(gc.blobs)] ELSE EvictAction(g[i - 1], gc.acts[i])]

\* A tally of the first n blobs goes on to the next one.
LEMMA FirstTierExists ==
  ASSUME NEW n \in Nat
  PROVE  \E g : FirstTier(g, n)
<1> DEFINE T == {m \in Nat : \E g : FirstTier(g, m)}
<1>1. 0 \in T
  <2> DEFINE g == [i \in 0..0 |-> Tally]
  <2>1. FirstTier(g, 0)
    BY DEF FirstTier
  <2> QED
    BY <2>1
<1>2. ASSUME NEW m \in T PROVE m + 1 \in T
  <2>1. PICK g : FirstTier(g, m)
    OBVIOUS
  <2> DEFINE h == [i \in 0..(m + 1) |-> IF i = m + 1 THEN EvictOrphan(g[m], gc.blobs[m + 1]) ELSE g[i]]
  <2>2. \A i \in 0..m : g[i] = IF i = 0 THEN Tally ELSE EvictOrphan(g[i - 1], gc.blobs[i])
    BY <2>1 DEF FirstTier
  <2>3. /\ h[m + 1] = EvictOrphan(g[m], gc.blobs[m + 1])
        /\ \A i \in 0..m : h[i] = g[i]
    OBVIOUS
  <2> HIDE DEF h
  <2>4. h[m + 1] = EvictOrphan(h[(m + 1) - 1], gc.blobs[m + 1])
    <3>1. (m + 1) - 1 = m /\ m \in 0..m
      OBVIOUS
    <3> QED
      BY <2>3, <3>1, Zenon
  <2>5. \A i \in 0..m : h[i] = IF i = 0 THEN Tally ELSE EvictOrphan(h[i - 1], gc.blobs[i])
    <3>1. SUFFICES ASSUME NEW i \in 0..m, i # 0
                   PROVE  h[i] = EvictOrphan(h[i - 1], gc.blobs[i])
      BY <2>2, <2>3
    <3>2. i - 1 \in 0..m
      BY <3>1
    <3>3. h[i - 1] = g[i - 1] /\ h[i] = g[i] /\ g[i] = EvictOrphan(g[i - 1], gc.blobs[i])
      BY <2>2, <2>3, <3>1, <3>2, Zenon
    <3> QED
      BY <3>3, Zenon
  <2>6. \A i \in 0..(m + 1) : i \in 0..m \/ i = m + 1
    OBVIOUS
  <2>7. \A i \in 0..(m + 1) : h[i] = IF i = 0 THEN Tally ELSE EvictOrphan(h[i - 1], gc.blobs[i])
    <3>1. m + 1 # 0
      OBVIOUS
    <3> QED
      BY <2>4, <2>5, <2>6, <3>1, Zenon
  <2>8. h = [i \in 0..(m + 1) |-> h[i]]
    BY DEF h
  <2>9. FirstTier(h, m + 1)
    BY <2>7, <2>8, Zenon DEF FirstTier
  <2> QED
    BY <2>9
<1>3. T \subseteq Nat
  OBVIOUS
<1> HIDE DEF T
<1>4. n \in T
  BY <1>1, <1>2, <1>3, Induction, Zenon
<1> QED
  BY <1>4 DEF T

\* The first tier takes the blobs one after the other.
LEMMA TierOneSteps ==
  ASSUME gc.blobs \in Seq(Blobs)
  PROVE  /\ TierOne[0] = Tally
         /\ \A i \in 1..Len(gc.blobs) : TierOne[i] = EvictOrphan(TierOne[i - 1], gc.blobs[i])
<1>1. Len(gc.blobs) \in Nat
  OBVIOUS
<1>2. \E g : FirstTier(g, Len(gc.blobs))
  BY <1>1, FirstTierExists
<1>3. FirstTier(TierOne, Len(gc.blobs))
  BY <1>2 DEF FirstTier, TierOne
<1>4. \A i \in 0..Len(gc.blobs) : TierOne[i] = IF i = 0 THEN Tally ELSE EvictOrphan(TierOne[i - 1], gc.blobs[i])
  BY <1>3, Zenon DEF FirstTier
<1> QED
  BY <1>1, <1>4

\* A tally of the first n results goes on to the next one.
LEMMA SecondTierExists ==
  ASSUME NEW n \in Nat
  PROVE  \E g : SecondTier(g, n)
<1> DEFINE T == {m \in Nat : \E g : SecondTier(g, m)}
<1>1. 0 \in T
  <2> DEFINE g == [i \in 0..0 |-> TierOne[Len(gc.blobs)]]
  <2>1. SecondTier(g, 0)
    BY DEF SecondTier
  <2> QED
    BY <2>1
<1>2. ASSUME NEW m \in T PROVE m + 1 \in T
  <2>1. PICK g : SecondTier(g, m)
    OBVIOUS
  <2> DEFINE h == [i \in 0..(m + 1) |-> IF i = m + 1 THEN EvictAction(g[m], gc.acts[m + 1]) ELSE g[i]]
  <2>2. \A i \in 0..m : g[i] = IF i = 0 THEN TierOne[Len(gc.blobs)] ELSE EvictAction(g[i - 1], gc.acts[i])
    BY <2>1 DEF SecondTier
  <2>3. /\ h[m + 1] = EvictAction(g[m], gc.acts[m + 1])
        /\ \A i \in 0..m : h[i] = g[i]
    OBVIOUS
  <2> HIDE DEF h
  <2>4. h[m + 1] = EvictAction(h[(m + 1) - 1], gc.acts[m + 1])
    <3>1. (m + 1) - 1 = m /\ m \in 0..m
      OBVIOUS
    <3> QED
      BY <2>3, <3>1, Zenon
  <2>5. \A i \in 0..m : h[i] = IF i = 0 THEN TierOne[Len(gc.blobs)] ELSE EvictAction(h[i - 1], gc.acts[i])
    <3>1. SUFFICES ASSUME NEW i \in 0..m, i # 0
                   PROVE  h[i] = EvictAction(h[i - 1], gc.acts[i])
      BY <2>2, <2>3
    <3>2. i - 1 \in 0..m
      BY <3>1
    <3>3. h[i - 1] = g[i - 1] /\ h[i] = g[i] /\ g[i] = EvictAction(g[i - 1], gc.acts[i])
      BY <2>2, <2>3, <3>1, <3>2, Zenon
    <3> QED
      BY <3>3, Zenon
  <2>6. \A i \in 0..(m + 1) : i \in 0..m \/ i = m + 1
    OBVIOUS
  <2>7. \A i \in 0..(m + 1) : h[i] = IF i = 0 THEN TierOne[Len(gc.blobs)] ELSE EvictAction(h[i - 1], gc.acts[i])
    <3>1. m + 1 # 0
      OBVIOUS
    <3> QED
      BY <2>4, <2>5, <2>6, <3>1, Zenon
  <2>8. h = [i \in 0..(m + 1) |-> h[i]]
    BY DEF h
  <2>9. SecondTier(h, m + 1)
    BY <2>7, <2>8, Zenon DEF SecondTier
  <2> QED
    BY <2>9
<1>3. T \subseteq Nat
  OBVIOUS
<1> HIDE DEF T
<1>4. n \in T
  BY <1>1, <1>2, <1>3, Induction, Zenon
<1> QED
  BY <1>4 DEF T

\* The second tier takes the results one after the other.
LEMMA TierTwoSteps ==
  ASSUME gc.acts \in Seq(Actions)
  PROVE  /\ TierTwo[0] = TierOne[Len(gc.blobs)]
         /\ \A i \in 1..Len(gc.acts) : TierTwo[i] = EvictAction(TierTwo[i - 1], gc.acts[i])
<1>1. Len(gc.acts) \in Nat
  OBVIOUS
<1>2. \E g : SecondTier(g, Len(gc.acts))
  BY <1>1, SecondTierExists
<1>3. SecondTier(TierTwo, Len(gc.acts))
  BY <1>2, Zenon DEF SecondTier, TierTwo
<1>4. \A i \in 0..Len(gc.acts) : TierTwo[i] = IF i = 0 THEN TierOne[Len(gc.blobs)] ELSE EvictAction(TierTwo[i - 1], gc.acts[i])
  BY <1>3, Zenon DEF SecondTier
<1> QED
  BY <1>1, <1>4

-----------------------------------------------------------------------------
(* What is listed, and its size *)

Firsts(s, k) == {s[j] : j \in 1..k}

\* A file is listed once.
LEMMA FirstsOf ==
  ASSUME NEW S, NEW s \in Seq(S), IsInjective(s)
  PROVE  /\ Firsts(s, 0) = {} /\ Firsts(s, Len(s)) = Range(s)
         /\ \A i \in 1..Len(s) : /\ Firsts(s, i) = Firsts(s, i - 1) \cup {s[i]}
                                 /\ s[i] \notin Firsts(s, i - 1) /\ s[i] \in Range(s)
         /\ \A i \in 0..Len(s) : Firsts(s, i) \subseteq Range(s)
<1>1. \A i, j \in 1..Len(s) : s[i] = s[j] => i = j
  BY DEF IsInjective
<1>2. Firsts(s, 0) = {} /\ Firsts(s, Len(s)) = Range(s)
  BY DEF Firsts, Range
<1>3. \A i \in 0..Len(s) : Firsts(s, i) \subseteq Range(s)
  BY DEF Firsts, Range
<1>4. ASSUME NEW i \in 1..Len(s)
      PROVE  /\ Firsts(s, i) = Firsts(s, i - 1) \cup {s[i]}
             /\ s[i] \notin Firsts(s, i - 1) /\ s[i] \in Range(s)
  <2>1. 1..i = 1..(i - 1) \cup {i} /\ \A j \in 1..(i - 1) : j \in 1..Len(s) /\ j # i
    OBVIOUS
  <2>2. Firsts(s, i) = Firsts(s, i - 1) \cup {s[i]}
    BY <2>1 DEF Firsts
  <2>3. s[i] \notin Firsts(s, i - 1)
    BY <1>1, <2>1 DEF Firsts
  <2>4. s[i] \in Range(s)
    BY DEF Range
  <2> QED
    BY <2>2, <2>3, <2>4
<1> QED
  BY <1>2, <1>3, <1>4

\* The first k of them are k.
LEMMA FirstsCount ==
  ASSUME NEW S, NEW s \in Seq(S), IsInjective(s), NEW k \in 0..Len(s)
  PROVE  /\ Cardinality(Firsts(s, k)) = k
         /\ Firsts(s, k) = Range(SubSeq(s, 1, k))
<1>1. Firsts(s, k) = Range(SubSeq(s, 1, k))
  <2>1. SubSeq(s, 1, k) = [i \in 1..k |-> s[i]]
    BY DEF SubSeq
  <2> QED
    BY <2>1, Zenon DEF Firsts, Range
<1>2. Cardinality(Firsts(s, k)) = k
  <2> DEFINE f == [i \in 1..k |-> s[i]]
  <2>1. \A i, j \in 1..Len(s) : s[i] = s[j] => i = j
    BY DEF IsInjective
  <2>2. \A i \in 1..k : i \in 1..Len(s)
    OBVIOUS
  <2>3. f \in Bijection(1..k, Firsts(s, k))
    BY <2>1, <2>2 DEF Bijection, Injection, Surjection, IsInjective, Firsts
  <2>4. k \in Nat /\ ExistsBijection(1..k, Firsts(s, k))
    BY <2>3 DEF ExistsBijection
  <2> QED
    BY <2>4, FS_CountingElements
<1> QED
  BY <1>1, <1>2

\* What a set of files takes: nothing takes nothing, a file adds its size, what
\* is taken out takes its size with it, and more takes no less.
LEMMA TotalOf ==
  ASSUME NEW es \in SUBSET (Blobs \cup Actions)
  PROVE  /\ Total(es) \in Nat /\ Total({}) = 0
         /\ \A e \in es : Size[e] \in Nat /\ Total(es) = Total(es \ {e}) + Size[e]
         /\ \A ds \in SUBSET es : /\ Total(es) = Total(es \ ds) + Total(ds)
                                  /\ Total(ds) \in Nat /\ Total(es \ ds) \in Nat /\ Total(ds) <= Total(es)
<1>1. IsFiniteSet(es) /\ \A e \in es : Size[e] \in Nat
  BY EvictionAssumption, FS_Subset
<1>2. \A ds \in SUBSET es : IsFiniteSet(ds) /\ IsFiniteSet(es \ ds)
  BY <1>1, FS_Subset
<1>3. /\ Total(es) \in Nat /\ Total({}) = 0
      /\ \A e \in es : Total(es) = Total(es \ {e}) + Size[e]
  BY <1>1, SumAdd DEF Total
<1>4. \A ds \in SUBSET es : Total(ds) \in Nat /\ Total(es \ ds) \in Nat
  <2> SUFFICES ASSUME NEW ds \in SUBSET es PROVE Total(ds) \in Nat /\ Total(es \ ds) \in Nat
    OBVIOUS
  <2>1. (\A e \in ds : Size[e] \in Nat) /\ (\A e \in es \ ds : Size[e] \in Nat)
    BY <1>1
  <2> QED
    BY <1>2, <2>1, SumAdd DEF Total
<1>5. \A ds \in SUBSET es : Total(es) = Total(es \ ds) + Total(ds)
  BY <1>1, SumSplit DEF Total
<1>6. \A ds \in SUBSET es : Total(ds) <= Total(es)
  <2> SUFFICES ASSUME NEW ds \in SUBSET es PROVE Total(ds) <= Total(es)
    OBVIOUS
  <2>1. Total(ds) \in Nat /\ Total(es \ ds) \in Nat /\ Total(es) = Total(es \ ds) + Total(ds)
    BY <1>4, <1>5, Zenon
  <2>2. \A x, y \in Nat : y <= x + y
    OBVIOUS
  <2> QED
    BY <2>1, <2>2, Zenon
<1> QED
  BY <1>1, <1>3, <1>4, <1>5, <1>6

-----------------------------------------------------------------------------
(* The choice of victims *)

\* What the two listings of a pass are.
Listed ==
  /\ gc.blobs \in Seq(Blobs) /\ IsInjective(gc.blobs)
  /\ gc.acts \in Seq(Actions) /\ IsInjective(gc.acts)
  /\ gc.refs \in [Range(gc.acts) -> SUBSET Blobs]
  /\ gc.max \in Nat

Owning(b) == {a \in Range(gc.acts) : b \in gc.refs[a]}
Orphans == {b \in Range(gc.blobs) : Owning(b) = {}}

\* After i blobs: only orphans are evicted, all of them while the store is over
\* budget, and without the last one it would be.
OrphansGone(t, i) ==
  /\ t.victims \subseteq Orphans \cap Firsts(gc.blobs, i)
  /\ t.owners = [b \in Range(gc.blobs) |-> Owning(b)]
  /\ t.after = Total(Snapshot \ t.victims)
  /\ t.after <= gc.max \/ Orphans \cap Firsts(gc.blobs, i) \subseteq t.victims
  /\ t.victims # {} => \E j \in 1..i : /\ gc.blobs[j] \in t.victims /\ t.victims \subseteq Firsts(gc.blobs, j)
                                       /\ Total((Snapshot \ t.victims) \cup {gc.blobs[j]}) > gc.max

\* What is listed is files of the store, and blobs are not results.
LEMMA ListedFiles ==
  ASSUME Listed
  PROVE  /\ Range(gc.blobs) \subseteq Blobs /\ Range(gc.acts) \subseteq Actions
         /\ Snapshot \subseteq Blobs \cup Actions
         /\ Len(gc.blobs) \in Nat /\ Len(gc.acts) \in Nat
<1>1. Range(gc.blobs) \subseteq Blobs /\ Range(gc.acts) \subseteq Actions
  BY DEF Listed, Range
<1> QED
  BY <1>1 DEF Snapshot, Listed

\* A step of the first tier.
LEMMA OrphanStep ==
  ASSUME Listed, NEW t, NEW i \in 1..Len(gc.blobs), OrphansGone(t, i - 1)
  PROVE  OrphansGone(EvictOrphan(t, gc.blobs[i]), i)
<1> DEFINE b == gc.blobs[i]
           F == Firsts(gc.blobs, i - 1)
           v == t.victims
<1>1. /\ Firsts(gc.blobs, i) = F \cup {b} /\ b \notin F /\ b \in Range(gc.blobs)
  BY FirstsOf DEF Listed
<1>2. /\ v \subseteq Orphans \cap F /\ t.owners[b] = Owning(b)
      /\ t.owners = [c \in Range(gc.blobs) |-> Owning(c)]
      /\ t.after = Total(Snapshot \ v)
      /\ t.after <= gc.max \/ Orphans \cap F \subseteq v
  BY <1>1 DEF OrphansGone
<1>3. CASE t.owners[b] # {} \/ t.after <= gc.max
  <2>1. EvictOrphan(t, b) = t
    BY <1>3 DEF EvictOrphan
  <2>2. v \subseteq Orphans \cap Firsts(gc.blobs, i)
    BY <1>1, <1>2
  <2>3. t.after <= gc.max \/ Orphans \cap Firsts(gc.blobs, i) \subseteq v
    BY <1>1, <1>2, <1>3 DEF Orphans
  <2>4. \A j \in 1..(i - 1) : j \in 1..i
    BY DEF Listed
  <2>5. v # {} => \E j \in 1..i : /\ gc.blobs[j] \in v /\ v \subseteq Firsts(gc.blobs, j)
                                  /\ Total((Snapshot \ v) \cup {gc.blobs[j]}) > gc.max
    BY <2>4, Zenon DEF OrphansGone
  <2> QED
    BY <1>2, <2>1, <2>2, <2>3, <2>5, Zenon DEF OrphansGone
<1>4. CASE t.owners[b] = {} /\ ~(t.after <= gc.max)
  <2> DEFINE u == EvictOrphan(t, b)
  <2>1. u = [victims |-> v \cup {b}, after |-> t.after - Size[b], owners |-> t.owners]
    BY <1>4 DEF EvictOrphan
  <2>2. u.victims = v \cup {b} /\ u.after = t.after - Size[b] /\ u.owners = t.owners
    BY <2>1
  <2>3. b \in Orphans /\ b \notin v /\ b \in Snapshot
    BY <1>1, <1>2, <1>4 DEF Orphans, Snapshot
  <2>4. Snapshot \ (v \cup {b}) = (Snapshot \ v) \ {b} /\ b \in Snapshot \ v
        /\ (Snapshot \ (v \cup {b})) \cup {b} = Snapshot \ v
    BY <2>3
  <2>5. /\ Total(Snapshot \ v) \in Nat /\ Total((Snapshot \ v) \ {b}) \in Nat /\ Size[b] \in Nat
        /\ Total(Snapshot \ v) = Total((Snapshot \ v) \ {b}) + Size[b]
    <3>1. Snapshot \ v \in SUBSET (Blobs \cup Actions) /\ (Snapshot \ v) \ {b} \in SUBSET (Blobs \cup Actions)
      BY ListedFiles
    <3> QED
      BY <2>4, <3>1, TotalOf, Zenon
  <2>6. u.after = Total(Snapshot \ u.victims)
    <3>1. u.after = Total(Snapshot \ v) - Size[b] /\ Snapshot \ u.victims = (Snapshot \ v) \ {b}
      BY <1>2, <2>2, <2>4, Zenon
    <3> DEFINE x == Total(Snapshot \ v)
               y == Total((Snapshot \ v) \ {b})
    <3>2. x \in Nat /\ y \in Nat /\ Size[b] \in Nat /\ x = y + Size[b]
      BY <2>5, Zenon
    <3>3. u.after = x - Size[b] /\ Total(Snapshot \ u.victims) = y
      BY <3>1, Zenon
    <3> HIDE DEF x, y
    <3>4. x - Size[b] = y
      BY <3>2
    <3> QED
      BY <3>3, <3>4, Zenon
  <2>7. u.victims = v \cup {b} /\ u.victims \subseteq Orphans \cap Firsts(gc.blobs, i)
        /\ Orphans \cap Firsts(gc.blobs, i) \subseteq u.victims
    BY <1>1, <1>2, <1>4, <2>2, <2>3
  <2>8. Total((Snapshot \ u.victims) \cup {gc.blobs[i]}) > gc.max
    <3>1. Total(Snapshot \ v) > gc.max
      BY <1>2, <1>4, <2>5 DEF Listed
    <3> QED
      BY <2>2, <2>4, <3>1, Zenon
  <2>9. gc.blobs[i] \in u.victims /\ u.victims \subseteq Firsts(gc.blobs, i) /\ i \in 1..i
    BY <1>1, <1>2, <2>2 DEF Listed
  <2> HIDE DEF u
  <2>10. OrphansGone(u, i)
    BY <1>2, <2>2, <2>6, <2>7, <2>8, <2>9, Zenon DEF OrphansGone
  <2> QED
    BY <2>10 DEF u
<1> QED
  BY <1>3, <1>4

\* The first tier.
LEMMA OrphansFirst ==
  ASSUME Listed
  PROVE  OrphansGone(TierOne[Len(gc.blobs)], Len(gc.blobs))
<1> DEFINE T == {i \in Nat : i <= Len(gc.blobs) => OrphansGone(TierOne[i], i)}
<1>1. T \subseteq Nat /\ Len(gc.blobs) \in Nat
  BY DEF Listed
<1>2. 0 \in T
  <2>1. TierOne[0] = Tally
    BY TierOneSteps DEF Listed
  <2>2. /\ Tally.victims = {} /\ Tally.after = Total(Snapshot)
        /\ Tally.owners = [b \in Range(gc.blobs) |-> Owning(b)]
    BY DEF Tally, Owning
  <2>3. Firsts(gc.blobs, 0) = {} /\ Snapshot \ {} = Snapshot
    BY FirstsOf DEF Listed
  <2>4. OrphansGone(Tally, 0)
    BY <2>2, <2>3 DEF OrphansGone
  <2> QED
    BY <2>1, <2>4
<1>3. ASSUME NEW i \in T PROVE i + 1 \in T
  <2> SUFFICES ASSUME i + 1 <= Len(gc.blobs) PROVE OrphansGone(TierOne[i + 1], i + 1)
    OBVIOUS
  <2>1. i + 1 \in 1..Len(gc.blobs) /\ i <= Len(gc.blobs) /\ (i + 1) - 1 = i
    BY <1>1
  <2>2. OrphansGone(TierOne[i], i)
    BY <2>1
  <2>3. TierOne[i + 1] = EvictOrphan(TierOne[i], gc.blobs[i + 1])
    BY <2>1, TierOneSteps DEF Listed
  <2>4. OrphansGone(EvictOrphan(TierOne[i], gc.blobs[i + 1]), i + 1)
    BY <2>1, <2>2, OrphanStep, Zenon
  <2> QED
    BY <2>3, <2>4
<1> HIDE DEF T
<1>4. Len(gc.blobs) \in T
  BY <1>1, <1>2, <1>3, Induction, Zenon
<1>5. Len(gc.blobs) <= Len(gc.blobs)
  BY <1>1
<1> QED
  BY <1>4, <1>5 DEF T

OrphanVictims == TierOne[Len(gc.blobs)].victims

\* The blobs that only the first c results reference.
OnlyTheirs(c) == {b \in Range(gc.blobs) : Owning(b) # {} /\ Owning(b) \subseteq Firsts(gc.acts, c)}

\* What goes with the first c results.
VictimsOf(c) == Firsts(gc.acts, c) \cup OrphanVictims \cup OnlyTheirs(c)

\* The owners that are left then, and what goes with the c-th.
OwnersLeft(c) == [b \in Range(gc.blobs) |-> Owning(b) \ Firsts(gc.acts, c)]
GoneAt(c) == {b \in Range(gc.blobs) : OwnersLeft(c - 1)[b] = {gc.acts[c]}} \ VictimsOf(c - 1)

\* After i results the first c are evicted, each while the store was over budget.
ActionsGone(t, c, i) ==
  /\ c < i => t.after <= gc.max
  /\ t.owners = OwnersLeft(c)
  /\ t.victims = VictimsOf(c)
  /\ t.after = Total(Snapshot \ t.victims)
  /\ c > 0 => /\ Orphans \subseteq OrphanVictims
              /\ Total((Snapshot \ t.victims) \cup {gc.acts[c]} \cup (gc.refs[gc.acts[c]] \cap Range(gc.blobs))) > gc.max

\* The blobs that go with a result are those that only it and the evicted ones
\* reference.
LEMMA GoneWith ==
  ASSUME Listed, NEW c \in 1..Len(gc.acts)
  PROVE  /\ VictimsOf(c - 1) \cup {gc.acts[c]} \cup GoneAt(c) = VictimsOf(c)
         /\ [b \in Range(gc.blobs) |-> OwnersLeft(c - 1)[b] \ {gc.acts[c]}] = OwnersLeft(c)
         /\ gc.acts[c] \in Snapshot \ VictimsOf(c - 1)
         /\ GoneAt(c) \subseteq (Snapshot \ VictimsOf(c - 1)) \ {gc.acts[c]}
         /\ GoneAt(c) \subseteq gc.refs[gc.acts[c]] \cap Range(gc.blobs)
<1> DEFINE F == Firsts(gc.acts, c - 1)
           a == gc.acts[c]
           owners == OwnersLeft(c - 1)
           gone == GoneAt(c)
<1>1. Firsts(gc.acts, c) = F \cup {a} /\ a \notin F /\ a \in Range(gc.acts)
  BY FirstsOf DEF Listed
<1>2. OrphanVictims \subseteq Orphans
  BY OrphansFirst DEF OrphansGone, OrphanVictims
<1>3. \A b \in Range(gc.blobs) : owners[b] = Owning(b) \ F
  BY DEF OwnersLeft
<1>4. a \notin Range(gc.blobs)
  BY <1>1, ListedFiles, EvictionAssumption
<1>15. gone = {b \in Range(gc.blobs) : owners[b] = {a}} \ VictimsOf(c - 1)
  BY DEF GoneAt
<1> HIDE DEF F, a, owners, gone
<1>5. \A b \in Range(gc.blobs) : owners[b] = {a} => a \in Owning(b) /\ Owning(b) \subseteq F \cup {a}
  BY <1>3
<1>6. \A b \in Range(gc.blobs) : a \in Owning(b) /\ Owning(b) \subseteq F \cup {a} => owners[b] = {a}
  BY <1>1, <1>3
<1>7. \A b \in Range(gc.blobs) : a \in Owning(b) => b \notin VictimsOf(c - 1)
  <2>1. \A b \in Range(gc.blobs) : b \notin F
    <3>1. F \subseteq Range(gc.acts)
      BY FirstsOf DEF F, Listed
    <3> QED
      BY <3>1, ListedFiles, EvictionAssumption
  <2> QED
    BY <1>1, <1>2, <2>1 DEF VictimsOf, OnlyTheirs, Orphans, F
<1>8. gone = {b \in Range(gc.blobs) : a \in Owning(b) /\ Owning(b) \subseteq F \cup {a}}
  BY <1>5, <1>6, <1>7, <1>15, Zenon
<1>9. OnlyTheirs(c) = OnlyTheirs(c - 1) \cup gone
  <2>1. OnlyTheirs(c - 1) = {b \in Range(gc.blobs) : Owning(b) # {} /\ Owning(b) \subseteq F}
    BY DEF OnlyTheirs, F
  <2>2. OnlyTheirs(c) = {b \in Range(gc.blobs) : Owning(b) # {} /\ Owning(b) \subseteq F \cup {a}}
    BY <1>1 DEF OnlyTheirs
  <2> QED
    BY <1>1, <1>8, <2>1, <2>2, Zenon
<1>10. VictimsOf(c - 1) \cup {a} \cup gone = VictimsOf(c)
  BY <1>1, <1>9, Zenon DEF VictimsOf, F
<1>11. [b \in Range(gc.blobs) |-> owners[b] \ {a}] = OwnersLeft(c)
  BY <1>1, <1>3 DEF OwnersLeft
<1>12. a \in Snapshot \ VictimsOf(c - 1)
  BY <1>1, <1>2, <1>4 DEF VictimsOf, OnlyTheirs, Orphans, Snapshot, F
<1>13. gone \subseteq (Snapshot \ VictimsOf(c - 1)) \ {a}
  BY <1>4, <1>15 DEF Snapshot
<1>14. gone \subseteq gc.refs[a] \cap Range(gc.blobs)
  BY <1>8 DEF Owning
<1> QED
  BY <1>10, <1>11, <1>12, <1>13, <1>14, Zenon DEF a, owners, gone

\* A step of the second tier.
LEMMA ActionStep ==
  ASSUME Listed, NEW t, NEW i \in 1..Len(gc.acts), NEW c \in 0..(i - 1), ActionsGone(t, c, i - 1),
         i = 1 => t = TierOne[Len(gc.blobs)]
  PROVE  \E d \in 0..i : ActionsGone(EvictAction(t, gc.acts[i]), d, i)
<1>1. CASE t.after <= gc.max
  <2>1. EvictAction(t, gc.acts[i]) = t
    BY <1>1 DEF EvictAction
  <2>2. ActionsGone(t, c, i)
    BY <1>1 DEF ActionsGone
  <2>3. c \in 0..i
    BY DEF Listed
  <2> QED
    BY <2>1, <2>2, <2>3
<1>2. CASE ~(t.after <= gc.max)
  <2> DEFINE a == gc.acts[i]
             u == EvictAction(t, a)
             v == VictimsOf(i - 1)
             gone == GoneAt(i)
  <2>1. c = i - 1 /\ i \in Nat
    BY <1>2 DEF ActionsGone, Listed
  <2>2. t.victims = v /\ t.after = Total(Snapshot \ v) /\ t.owners = OwnersLeft(i - 1)
    BY <2>1 DEF ActionsGone
  <2>3. gone = {b \in Range(gc.blobs) : t.owners[b] = {a}} \ t.victims
    BY <2>2 DEF GoneAt
  <2>4. u = [victims |-> t.victims \cup {a} \cup gone, after |-> t.after - Size[a] - Total(gone),
             owners |-> [b \in Range(gc.blobs) |-> t.owners[b] \ {a}]]
    <3> HIDE DEF gone
    <3> QED
      BY <1>2, <2>3 DEF EvictAction
  <2> HIDE DEF gone
  <2>5. /\ u.victims = t.victims \cup {a} \cup gone /\ u.after = t.after - Size[a] - Total(gone)
        /\ u.owners = [b \in Range(gc.blobs) |-> t.owners[b] \ {a}]
    BY <2>4
  <2>6. a \in Snapshot /\ a \in Actions
    BY FirstsOf, ListedFiles DEF Listed, Snapshot
  <2>7. /\ v \cup {a} \cup gone = VictimsOf(i) /\ a \in Snapshot \ v
        /\ [b \in Range(gc.blobs) |-> OwnersLeft(i - 1)[b] \ {a}] = OwnersLeft(i)
        /\ gone \subseteq (Snapshot \ v) \ {a} /\ gone \subseteq gc.refs[a] \cap Range(gc.blobs)
    BY GoneWith, Zenon DEF gone
  <2> HIDE DEF u, v, a
  <2>8. u.victims = VictimsOf(i) /\ u.owners = OwnersLeft(i)
    BY <2>2, <2>5, <2>7, Zenon
  <2>9. Snapshot \ VictimsOf(i) = ((Snapshot \ v) \ {a}) \ gone
    BY <2>7
  <2>10. u.after = Total(Snapshot \ VictimsOf(i))
    <3> DEFINE s == Snapshot \ v
    <3>1. s \in SUBSET (Blobs \cup Actions) /\ s \ {a} \in SUBSET (Blobs \cup Actions)
      BY ListedFiles
    <3> HIDE DEF s
    <3>2. Total(s) = Total(s \ {a}) + Size[a] /\ Total(s) \in Nat /\ Size[a] \in Nat
      BY <2>7, <3>1, TotalOf, Zenon DEF s
    <3>3. gone \in SUBSET (s \ {a})
      BY <2>7 DEF s
    <3>4. /\ Total(s \ {a}) = Total((s \ {a}) \ gone) + Total(gone)
          /\ Total(gone) \in Nat /\ Total((s \ {a}) \ gone) \in Nat /\ Total(s \ {a}) \in Nat
      BY <3>1, <3>3, TotalOf, Zenon
    <3>5. u.after = Total(s) - Size[a] - Total(gone)
      BY <2>2, <2>5, Zenon DEF s
    <3> DEFINE x == Total(s)
               y == Total(s \ {a})
               z == Total((s \ {a}) \ gone)
               g == Total(gone)
    <3>6. /\ x \in Nat /\ y \in Nat /\ z \in Nat /\ g \in Nat /\ Size[a] \in Nat
          /\ x = y + Size[a] /\ y = z + g
      BY <3>2, <3>4, Zenon
    <3> HIDE DEF x, y, z, g
    <3>8. x - Size[a] - g = z
      BY <3>6
    <3>7. Total(s) - Size[a] - Total(gone) = Total((s \ {a}) \ gone)
      BY <3>8 DEF x, y, z, g
    <3> QED
      BY <2>9, <3>5, <3>7, Zenon DEF s
  <2>11. Orphans \subseteq OrphanVictims
    <3>1. CASE i = 1
      <4>1. t = TierOne[Len(gc.blobs)] /\ OrphansGone(t, Len(gc.blobs))
        BY <3>1, OrphansFirst, Zenon
      <4>2. Orphans \cap Firsts(gc.blobs, Len(gc.blobs)) \subseteq OrphanVictims
        BY <1>2, <4>1 DEF OrphansGone, OrphanVictims
      <4>3. Firsts(gc.blobs, Len(gc.blobs)) = Range(gc.blobs)
        BY FirstsOf DEF Listed
      <4> QED
        BY <4>2, <4>3 DEF Orphans
    <3>2. CASE i # 1
      <4>1. c > 0
        BY <2>1, <3>2
      <4> QED
        BY <4>1, Zenon DEF ActionsGone
    <3> QED
      BY <3>1, <3>2
  <2>12. Total((Snapshot \ VictimsOf(i)) \cup {a} \cup (gc.refs[a] \cap Range(gc.blobs))) > gc.max
    <3> DEFINE big == (Snapshot \ VictimsOf(i)) \cup {a} \cup (gc.refs[a] \cap Range(gc.blobs))
               s == Snapshot \ v
    <3>1. s \in SUBSET big
      BY <2>7, <2>9
    <3>2. big \in SUBSET (Blobs \cup Actions)
      BY <2>6, ListedFiles
    <3> HIDE DEF big, s
    <3>3. Total(s) <= Total(big) /\ Total(s) \in Nat /\ Total(big) \in Nat
      BY <3>1, <3>2, TotalOf, Zenon
    <3>4. t.after = Total(s) /\ gc.max \in Nat
      BY <2>2 DEF s, Listed
    <3>5. Total(big) > gc.max
      BY <1>2, <3>3, <3>4
    <3> QED
      BY <3>5 DEF big
  <2>13. ~(i < i) /\ i \in 0..i
    BY <2>1
  <2>14. ActionsGone(u, i, i)
    BY <2>8, <2>10, <2>11, <2>12, <2>13, Zenon DEF ActionsGone, a
  <2> QED
    BY <2>13, <2>14 DEF u, a
<1> QED
  BY <1>1, <1>2

\* The second tier.
LEMMA ActionsOldestFirst ==
  ASSUME Listed
  PROVE  \E c \in 0..Len(gc.acts) : ActionsGone(TierTwo[Len(gc.acts)], c, Len(gc.acts))
<1> DEFINE Gone(i) == \E c \in 0..i : ActionsGone(TierTwo[i], c, i)
           T == {i \in Nat : i <= Len(gc.acts) => Gone(i)}
<1>1. T \subseteq Nat /\ Len(gc.acts) \in Nat
  BY DEF Listed
<1>2. TierTwo[0] = TierOne[Len(gc.blobs)]
  BY TierTwoSteps DEF Listed
<1>3. Gone(0)
  <2> DEFINE t == TierOne[Len(gc.blobs)]
  <2>1. /\ t.owners = [b \in Range(gc.blobs) |-> Owning(b)]
        /\ t.after = Total(Snapshot \ t.victims)
    BY OrphansFirst, Zenon DEF OrphansGone
  <2>2. Firsts(gc.acts, 0) = {}
    BY FirstsOf DEF Listed
  <2>3. OwnersLeft(0) = [b \in Range(gc.blobs) |-> Owning(b)]
    BY <2>2 DEF OwnersLeft
  <2>4. VictimsOf(0) = OrphanVictims
    BY <2>2 DEF VictimsOf, OnlyTheirs
  <2>5. t.victims = OrphanVictims
    BY DEF OrphanVictims
  <2>6. ~(0 < 0) /\ ~(0 > 0) /\ 0 \in 0..0
    OBVIOUS
  <2> HIDE DEF t
  <2>7. ActionsGone(t, 0, 0)
    BY <2>1, <2>3, <2>4, <2>5, <2>6, Zenon DEF ActionsGone
  <2>8. ActionsGone(TierTwo[0], 0, 0)
    BY <1>2, <2>7 DEF t
  <2> QED
    BY <2>6, <2>8
<1>4. ASSUME NEW i \in T PROVE i + 1 \in T
  <2> SUFFICES ASSUME i + 1 <= Len(gc.acts) PROVE Gone(i + 1)
    OBVIOUS
  <2>1. i + 1 \in 1..Len(gc.acts) /\ i <= Len(gc.acts) /\ (i + 1) - 1 = i /\ i \in Nat
    BY <1>1
  <2>2. PICK c \in 0..i : ActionsGone(TierTwo[i], c, i)
    BY <2>1
  <2>3. TierTwo[i + 1] = EvictAction(TierTwo[i], gc.acts[i + 1])
    BY <2>1, TierTwoSteps DEF Listed
  <2>4. i + 1 = 1 => TierTwo[i] = TierOne[Len(gc.blobs)]
    BY <1>2, <2>1
  <2>5. \E d \in 0..(i + 1) : ActionsGone(EvictAction(TierTwo[i], gc.acts[i + 1]), d, i + 1)
    BY <2>1, <2>2, <2>4, ActionStep, Zenon
  <2> QED
    BY <2>3, <2>5, Zenon
<1> HIDE DEF T, Gone
<1>5. 0 \in T
  BY <1>3 DEF T
<1>6. Len(gc.acts) \in T
  BY <1>1, <1>4, <1>5, Induction, Zenon
<1>7. Len(gc.acts) <= Len(gc.acts)
  BY <1>1
<1> QED
  BY <1>6, <1>7 DEF T, Gone

Meets(victims, after) == WellChosen(gc.blobs, gc.acts, gc.refs, gc.max, victims, after)

\* The plan meets it.
THEOREM PlanMeets ==
  ASSUME Listed, Total(Snapshot) > gc.max, NEW t, t = TierTwo[Len(gc.acts)]
  PROVE  Meets(t.victims, t.after)
<1> DEFINE v == t.victims
<1>1. PICK c \in 0..Len(gc.acts) : ActionsGone(t, c, Len(gc.acts))
  BY ActionsOldestFirst, Zenon
<1> DEFINE F == Firsts(gc.acts, c)
<1>2. /\ v = F \cup OrphanVictims \cup OnlyTheirs(c)
      /\ t.after = Total(Snapshot \ v)
      /\ c > 0 => /\ Orphans \subseteq OrphanVictims
                  /\ Total((Snapshot \ v) \cup {gc.acts[c]} \cup (gc.refs[gc.acts[c]] \cap Range(gc.blobs))) > gc.max
  BY <1>1, Zenon DEF ActionsGone, VictimsOf
<1>3. OrphansGone(TierOne[Len(gc.blobs)], Len(gc.blobs)) /\ OrphanVictims \subseteq Orphans
  BY OrphansFirst, Zenon DEF OrphansGone, OrphanVictims
<1>4. /\ Range(gc.blobs) \subseteq Blobs /\ Range(gc.acts) \subseteq Actions /\ Blobs \cap Actions = {}
      /\ F \subseteq Range(gc.acts) /\ Orphans \subseteq Range(gc.blobs) /\ OnlyTheirs(c) \subseteq Range(gc.blobs)
  BY ListedFiles, FirstsOf, EvictionAssumption, Zenon DEF Listed, Orphans, OnlyTheirs
<1>5. v \cap Actions = F /\ Range(gc.acts) \ v = Range(gc.acts) \ F
  BY <1>2, <1>3, <1>4, Zenon
<1>6. Cardinality(F) = c /\ F = Range(SubSeq(gc.acts, 1, c)) /\ c \in Nat
  <2>1. gc.acts \in Seq(Actions) /\ IsInjective(gc.acts)
    BY DEF Listed
  <2>2. c \in Nat
    BY ListedFiles
  <2> QED
    BY <2>1, <2>2, FirstsCount, Zenon
<1>7. F # {} <=> c > 0
  <2>1. c = 0 => F = {}
    BY FirstsOf DEF Listed
  <2>2. F = {} => c = 0
    BY <1>6, FS_EmptySet
  <2> QED
    BY <1>6, <2>1, <2>2
<1> HIDE DEF F, v
<1>8. t.after <= gc.max
  <2>1. CASE c < Len(gc.acts)
    BY <1>1, <2>1 DEF ActionsGone
  <2>2. CASE c = Len(gc.acts) /\ Orphans \subseteq v
    <3>1. F = Range(gc.acts)
      BY <2>2, FirstsOf DEF F, Listed
    <3>2. \A b \in Range(gc.blobs) : Owning(b) \subseteq F
      BY <3>1 DEF Owning
    <3>3. Range(gc.blobs) \subseteq v
      BY <1>2, <2>2, <3>2 DEF Orphans, OnlyTheirs, F
    <3>4. Snapshot \ v = {}
      BY <1>2, <3>1, <3>3 DEF Snapshot
    <3>5. Total({}) = 0
      BY TotalOf
    <3>6. t.after = 0
      BY <1>2, <3>4, <3>5, Zenon
    <3> QED
      BY <3>6 DEF Listed
  <2>3. CASE c = Len(gc.acts) /\ ~(Orphans \subseteq v)
    <3>1. c = 0
      BY <1>2, <1>6, <2>3
    <3>2. ~(Orphans \subseteq OrphanVictims)
      BY <1>2, <2>3
    <3>3. Firsts(gc.blobs, Len(gc.blobs)) = Range(gc.blobs)
      BY FirstsOf DEF Listed
    <3>4. TierOne[Len(gc.blobs)].after <= gc.max
      BY <1>3, <1>4, <3>2, <3>3, Zenon DEF OrphansGone, OrphanVictims
    <3>5. F = {} /\ OnlyTheirs(c) = {}
      BY <1>7, <3>1 DEF OnlyTheirs, F
    <3>6. v = OrphanVictims
      BY <1>2, <3>5
    <3>7. TierOne[Len(gc.blobs)].after = Total(Snapshot \ OrphanVictims)
      BY <1>3 DEF OrphansGone, OrphanVictims
    <3> QED
      BY <1>2, <3>4, <3>6, <3>7, Zenon
  <2> QED
    BY <1>6, <2>1, <2>2, <2>3, ListedFiles
<1>9. ASSUME NEW a \in Range(gc.acts) \ F, NEW b \in gc.refs[a] PROVE b \notin v
  <2>1. b \in Blobs
    BY DEF Listed
  <2>2. CASE b \in Range(gc.blobs)
    <3>1. a \in Owning(b)
      BY DEF Owning
    <3> QED
      BY <1>2, <1>3, <1>4, <2>1, <3>1 DEF Orphans, OnlyTheirs, F
  <2>3. CASE b \notin Range(gc.blobs)
    BY <1>2, <1>3, <1>4, <2>1, <2>3
  <2> QED
    BY <2>2, <2>3
<1>10. F # {} => Orphans \subseteq v
  BY <1>2, <1>7
<1>11. ASSUME NEW a \in F, NEW b \in gc.refs[a], b \in Snapshot \ v
       PROVE  \E d \in Range(gc.acts) \ F : b \in gc.refs[d]
  <2>1. b \in Range(gc.blobs) /\ a \in Owning(b) /\ b \notin OnlyTheirs(c)
    BY <1>2, <1>4, <1>11 DEF Snapshot, Owning, Listed
  <2>2. ~(Owning(b) \subseteq F)
    BY <2>1 DEF OnlyTheirs, F
  <2> QED
    BY <2>2 DEF Owning
<1>12. ASSUME F = {}
       PROVE  Total((Snapshot \ v) \cup {gc.blobs[Max({i \in DOMAIN gc.blobs : gc.blobs[i] \in v})]}) > gc.max
  <2>1. v = OrphanVictims
    <3>1. OnlyTheirs(c) = {}
      BY <1>12 DEF OnlyTheirs, F
    <3> QED
      BY <1>2, <1>12, <3>1
  <2>2. v # {}
    <3>1. v = {} => Snapshot \ v = Snapshot
      OBVIOUS
    <3>2. Total(Snapshot) \in Nat
      BY ListedFiles, TotalOf
    <3>3. v = {} => t.after = Total(Snapshot)
      BY <1>2, <3>1, Zenon
    <3>4. ~(Total(Snapshot) <= gc.max)
      BY <3>2 DEF Listed
    <3> QED
      BY <1>8, <3>3, <3>4, Zenon
  <2>3. PICK j \in 1..Len(gc.blobs) : /\ gc.blobs[j] \in v /\ v \subseteq Firsts(gc.blobs, j)
                                      /\ Total((Snapshot \ v) \cup {gc.blobs[j]}) > gc.max
    BY <1>3, <2>1, <2>2, Zenon DEF OrphansGone, OrphanVictims
  <2> DEFINE I == {i \in DOMAIN gc.blobs : gc.blobs[i] \in v}
  <2>4. DOMAIN gc.blobs = 1..Len(gc.blobs) /\ \A i, k \in 1..Len(gc.blobs) : gc.blobs[i] = gc.blobs[k] => i = k
    BY DEF Listed, IsInjective
  <2>5. ASSUME NEW i \in I PROVE i \in Nat /\ i <= j
    <3>1. i \in 1..Len(gc.blobs) /\ gc.blobs[i] \in Firsts(gc.blobs, j)
      BY <2>3, <2>4
    <3>2. PICK k \in 1..j : gc.blobs[i] = gc.blobs[k]
      BY <3>1 DEF Firsts
    <3>3. k \in 1..Len(gc.blobs)
      OBVIOUS
    <3>4. i = k
      BY <2>4, <3>1, <3>2, <3>3, Zenon
    <3> QED
      BY <3>4
  <2>6. j \in I
    BY <2>3, <2>4
  <2> HIDE DEF I
  <2>7. Max(I) = j
    <3>1. \E m \in I : \A y \in I : m >= y
      BY <2>5, <2>6
    <3>2. Max(I) \in I /\ \A y \in I : Max(I) >= y
      BY <3>1 DEF Max
    <3>3. Max(I) \in Nat /\ Max(I) <= j /\ Max(I) >= j
      BY <2>5, <2>6, <3>2, Zenon
    <3> QED
      BY <3>3
  <2> QED
    BY <2>3, <2>7, Zenon DEF I
<1> HIDE DEF Listed
<1>13. F # {} => Total((Snapshot \ v) \cup {gc.acts[c]} \cup (gc.refs[gc.acts[c]] \cap Range(gc.blobs))) > gc.max
  BY <1>2, <1>7, Zenon
<1>14. (UNION {gc.refs[a] : a \in Range(gc.acts) \ v}) \cap v = {}
  <2> SUFFICES ASSUME NEW b \in UNION {gc.refs[a] : a \in Range(gc.acts) \ v} PROVE b \notin v
    OBVIOUS
  <2>3. PICK bs \in {gc.refs[a] : a \in Range(gc.acts) \ v} : b \in bs
    OBVIOUS
  <2>1. PICK a \in Range(gc.acts) \ v : b \in gc.refs[a]
    BY <2>3
  <2> QED
    BY <1>5, <1>9, <2>1
<1>15. (UNION {gc.refs[a] : a \in v \cap Actions}) \cap (Snapshot \ v) \subseteq UNION {gc.refs[a] : a \in Range(gc.acts) \ v}
  <2> SUFFICES ASSUME NEW b \in UNION {gc.refs[a] : a \in v \cap Actions}, b \in Snapshot \ v
               PROVE  b \in UNION {gc.refs[a] : a \in Range(gc.acts) \ v}
    OBVIOUS
  <2>3. PICK bs \in {gc.refs[a] : a \in v \cap Actions} : b \in bs
    OBVIOUS
  <2>1. PICK a \in v \cap Actions : b \in gc.refs[a]
    BY <2>3
  <2>2. PICK d \in Range(gc.acts) \ F : b \in gc.refs[d]
    BY <1>5, <1>11, <2>1
  <2> QED
    BY <1>5, <2>2
<1>16. /\ Cardinality(v \cap Actions) = c /\ v \cap Actions = Range(SubSeq(gc.acts, 1, Cardinality(v \cap Actions)))
       /\ v \cap Actions # {} => Orphans \subseteq v
       /\ v \cap Actions # {} =>
            Total((Snapshot \ v) \cup {gc.acts[c]} \cup (gc.refs[gc.acts[c]] \cap Range(gc.blobs))) > gc.max
       /\ v \cap Actions = {} =>
            Total((Snapshot \ v) \cup {gc.blobs[Max({i \in DOMAIN gc.blobs : gc.blobs[i] \in v})]}) > gc.max
  <2>1. v \cap Actions = Range(SubSeq(gc.acts, 1, Cardinality(v \cap Actions)))
    BY <1>5, <1>6, Zenon
  <2> QED
    BY <1>5, <1>6, <1>10, <1>12, <1>13, <2>1, Zenon
<1>17. Total(Snapshot \ v) = t.after
  BY <1>2
<1>18. Orphans = {b \in Range(gc.blobs) : \A a \in Range(gc.acts) : b \notin gc.refs[a]}
  BY DEF Orphans, Owning
<1> DEFINE all == Range(gc.blobs) \cup Range(gc.acts)
<1>19. Snapshot = all
  BY DEF Snapshot
<1> HIDE DEF all
<1>20. Meets(v, t.after)
  <2> DEFINE Chosen ==
        /\ Total(all \ v) = t.after /\ t.after <= gc.max
        /\ (UNION {gc.refs[a] : a \in Range(gc.acts) \ v}) \cap v = {}
        /\ v \cap Actions # {} => {b \in Range(gc.blobs) : \A a \in Range(gc.acts) : b \notin gc.refs[a]} \subseteq v
        /\ v \cap Actions = Range(SubSeq(gc.acts, 1, Cardinality(v \cap Actions)))
        /\ (UNION {gc.refs[a] : a \in v \cap Actions}) \cap (all \ v) \subseteq UNION {gc.refs[a] : a \in Range(gc.acts) \ v}
        /\ IF v \cap Actions # {}
             THEN Total((all \ v) \cup {gc.acts[Cardinality(v \cap Actions)]}
                        \cup (gc.refs[gc.acts[Cardinality(v \cap Actions)]] \cap Range(gc.blobs))) > gc.max
             ELSE Total((all \ v) \cup {gc.blobs[Max({i \in DOMAIN gc.blobs : gc.blobs[i] \in v})]}) > gc.max
  <2>1. Chosen
    BY <1>8, <1>14, <1>15, <1>16, <1>17, <1>18, <1>19, Zenon
  <2> QED
    BY <2>1, Zenon DEF Meets, WellChosen, all
<1> QED
  BY <1>20 DEF v
=============================================================================
