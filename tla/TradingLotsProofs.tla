-------------------------- MODULE TradingLotsProofs --------------------------
(***************************************************************************)
(* What the theorems about TradingKernel rest on: induction over the        *)
(* natural numbers and over finite sets, with the property given as a set;  *)
(* sums over finite sets, which do not depend on the order in which they    *)
(* are taken; the arithmetic of prices, fees and declarations; the search   *)
(* for an affordable quantity; and what changes of lots do to their sums.   *)
(***************************************************************************)
EXTENDS TradingKernel, FiniteSetTheorems, WellFoundedInduction, TLAPS

-----------------------------------------------------------------------------
(* Induction.                                                              *)

\* A set of natural numbers that is not empty has a least one.
LEMMA LeastNatural ==
    ASSUME NEW S \in SUBSET Nat, S # {}
    PROVE  \E x \in S : \A y \in S : x <= y
<1>1. PICK x \in S : \A y \in S : ~(<<y, x>> \in OpToRel(<, Nat))
  BY NatLessThanWellFounded, WFMin
<1>2. \A y \in S : ~(y < x)
  BY <1>1 DEF OpToRel
<1> QED BY <1>2

\* A set of numbers that has 0 and the successor of each of its elements has all.
LEMMA AllNaturals ==
    ASSUME NEW P, 0 \in P, \A n \in Nat : n \in P => n + 1 \in P
    PROVE  Nat \subseteq P
<1> DEFINE T == {n \in Nat : n \notin P}
<1> SUFFICES ASSUME T # {} PROVE FALSE
  OBVIOUS
<1>1. PICK n \in T : \A m \in T : n <= m
  BY LeastNatural
<1>2. n \in Nat /\ n # 0 /\ n \notin P
  BY <1>1
<1>3. n - 1 \in Nat /\ n - 1 \notin T
  BY <1>1, <1>2
<1>4. n - 1 \in P /\ (n - 1) + 1 = n
  BY <1>2, <1>3
<1> QED BY <1>2, <1>3, <1>4

\* The subsets of a finite set, and what is left when one element is taken out.
LEMMA Subsets ==
    ASSUME NEW S, IsFiniteSet(S), NEW T \in SUBSET S
    PROVE  /\ IsFiniteSet(T) /\ Cardinality(T) \in Nat
           /\ Cardinality(T) = 0 <=> T = {}
           /\ \A x \in T : Cardinality(T \ {x}) = Cardinality(T) - 1
<1>1. IsFiniteSet(T)
  BY FS_Subset
<1>2. Cardinality(T) \in Nat
  BY <1>1, FS_CardinalityType
<1>3. Cardinality(T) = 0 <=> T = {}
  BY <1>1, FS_EmptySet
<1>4. \A x \in T : Cardinality(T \ {x}) = Cardinality(T) - 1
  BY <1>1, FS_RemoveElement
<1> QED BY <1>1, <1>2, <1>3, <1>4

\* What holds of a set as soon as it holds of all the sets that one of its elements
\* less leaves, holds of every finite set.
LEMMA SmallerFirst ==
    ASSUME NEW S, IsFiniteSet(S), NEW P,
           \A T \in SUBSET S : (\A x \in T : T \ {x} \in P) => T \in P
    PROVE  SUBSET S \subseteq P
<1> DEFINE N == {n \in Nat : \A T \in SUBSET S : Cardinality(T) = n => T \in P}
<1>1. 0 \in N
  <2>1. ASSUME NEW T \in SUBSET S, Cardinality(T) = 0 PROVE T \in P
    BY <2>1, Subsets
  <2> QED BY <2>1
<1>2. ASSUME NEW n \in Nat, n \in N PROVE n + 1 \in N
  <2>1. ASSUME NEW T \in SUBSET S, Cardinality(T) = n + 1 PROVE T \in P
    <3>1. ASSUME NEW x \in T PROVE T \ {x} \in P
      <4>1. Cardinality(T \ {x}) = Cardinality(T) - 1
        BY Subsets
      <4>2. Cardinality(T \ {x}) = n /\ T \ {x} \in SUBSET S
        BY <2>1, <4>1
      <4> QED BY <1>2, <4>2
    <3> QED BY <3>1
  <2> QED BY <2>1
<1>3. Nat \subseteq N
  <2> HIDE DEF N
  <2> QED BY <1>1, <1>2, AllNaturals
<1>4. ASSUME NEW T \in SUBSET S PROVE T \in P
  <2>1. Cardinality(T) \in Nat
    BY Subsets
  <2> QED BY <1>3, <2>1
<1> QED BY <1>4

\* What a function makes of a finite set.
LEMMA ImageIsFinite ==
    ASSUME NEW S, IsFiniteSet(S), NEW g
    PROVE  IsFiniteSet({g[x] : x \in S})
<1> DEFINE T == {g[x] : x \in S}
           f == [x \in S |-> g[x]]
<1>1. f \in Surjection(S, T)
  BY DEF Surjection
<1> HIDE DEF f, T
<1>2. IsFiniteSet(T)
  BY <1>1, FS_Surjection
<1> QED BY <1>2 DEF T

-----------------------------------------------------------------------------
(* Sums.                                                                   *)

\* f[x] for all x of S, added up; SumFunction is the case S = DOMAIN f.
Sum(f, S) == SumFunctionOnSet(f, S)

\* How SumFunctionOnSet iterates: the element it takes first, and the function that the
\* recursion of MapThenFoldSet defines on the subsets of S.
First(s) == CHOOSE x \in s : TRUE
Iterates(it, f, S) ==
    it = [s \in SUBSET S |-> IF s = {} THEN 0 ELSE f[First(s)] + it[s \ {First(s)}]]

\* A sum is what the recursion gives for its whole set.
LEMMA SumIsIteration ==
    ASSUME NEW f, NEW S
    PROVE  Sum(f, S) = (CHOOSE it : Iterates(it, f, S))[S]
BY DEF Sum, SumFunctionOnSet, FoldFunctionOnSet, MapThenFoldSet, Iterates, First

\* A sum over a domain.
LEMMA SumOfFunction ==
    ASSUME NEW S, NEW f \in [S -> Int]
    PROVE  SumFunction(f) = Sum(f, S)
BY DEF Sum, SumFunction

\* The recursion that defines a sum is well founded.
LEMMA IterationExists ==
    ASSUME NEW S, IsFiniteSet(S), NEW f
    PROVE  \E it : Iterates(it, f, S)
<1> DEFINE D(n) == {s \in SUBSET S : Cardinality(s) <= n}
           Is(g, n) == g = [s \in D(n) |-> IF s = {} THEN 0
                                           ELSE f[First(s)] + g[s \ {First(s)}]]
           P == {n \in Nat : \E g : Is(g, n)}
<1>1. ASSUME NEW s \in SUBSET S
      PROVE  /\ Cardinality(s) \in Nat
             /\ Cardinality(s) = 0 <=> s = {}
             /\ s # {} => /\ First(s) \in s
                          /\ s \ {First(s)} \in SUBSET S
                          /\ Cardinality(s \ {First(s)}) = Cardinality(s) - 1
  BY Subsets DEF First
<1>2. 0 \in P
  <2> DEFINE g == [s \in D(0) |-> 0]
  <2>1. ASSUME NEW s \in SUBSET S, Cardinality(s) <= 0 PROVE s = {}
    <3>1. Cardinality(s) \in Nat /\ (Cardinality(s) = 0 <=> s = {})
      BY <1>1
    <3> QED BY <2>1, <3>1
  <2>2. Is(g, 0)
    BY <2>1
  <2> QED BY <2>2
<1>3. ASSUME NEW n \in Nat, n \in P PROVE n + 1 \in P
  <2>1. PICK g : Is(g, n)
    BY <1>3
  <2> DEFINE h == [s \in D(n + 1) |-> IF s = {} THEN 0
                                      ELSE f[First(s)] + g[s \ {First(s)}]]
  <2>2. \A s \in D(n + 1) : s # {} => s \ {First(s)} \in D(n)
    BY <1>1
  <2>3. ASSUME NEW s \in SUBSET S, Cardinality(s) <= n PROVE Cardinality(s) <= n + 1
    <3>1. Cardinality(s) \in Nat
      BY <1>1
    <3> QED BY <2>3, <3>1
  <2>4. \A s \in D(n) : h[s] = g[s]
    BY <2>1, <2>3
  <2>5. Is(h, n + 1)
    BY <2>2, <2>4
  <2>6. \E x : Is(x, n + 1)
    BY <2>5
  <2> HIDE DEF Is
  <2> QED BY <2>6
<1>4. Cardinality(S) \in P
  <2>1. Nat \subseteq P
    <3> HIDE DEF P
    <3> QED BY <1>2, <1>3, AllNaturals
  <2> QED BY <2>1, <1>1
<1>5. PICK g : Is(g, Cardinality(S))
  BY <1>4
<1>6. D(Cardinality(S)) = SUBSET S
  <2>1. \A s \in SUBSET S : Cardinality(s) <= Cardinality(S)
    BY FS_Subset
  <2> QED BY <2>1
<1> QED BY <1>5, <1>6 DEF Iterates

\* What iterates over one set and what iterates over another agree on what they
\* have in common.
LEMMA IterationIsUnique ==
    ASSUME NEW S, NEW R, NEW T, IsFiniteSet(T), T \subseteq S, T \subseteq R,
           NEW f, NEW g, \A x \in T : f[x] = g[x],
           NEW it, NEW jt, Iterates(it, f, S), Iterates(jt, g, R)
    PROVE  it[T] = jt[T]
<1> DEFINE P == {U \in SUBSET T : it[U] = jt[U]}
<1>1. ASSUME NEW U \in SUBSET T, \A x \in U : U \ {x} \in P PROVE U \in P
  <2>1. /\ it[U] = IF U = {} THEN 0 ELSE f[First(U)] + it[U \ {First(U)}]
        /\ jt[U] = IF U = {} THEN 0 ELSE g[First(U)] + jt[U \ {First(U)}]
    BY DEF Iterates
  <2>2. U # {} => First(U) \in U
    BY DEF First
  <2> QED BY <1>1, <2>1, <2>2
<1>2. SUBSET T \subseteq P
  <2> HIDE DEF P
  <2> QED BY <1>1, SmallerFirst
<1> QED BY <1>2

\* A sum is what any iteration gives.
LEMMA SumIs ==
    ASSUME NEW S, NEW T, IsFiniteSet(T), T \subseteq S, NEW f, NEW g,
           \A x \in T : f[x] = g[x],
           NEW it, Iterates(it, g, S)
    PROVE  Sum(f, T) = it[T]
<1> DEFINE jt == CHOOSE j : Iterates(j, f, T)
<1>1. Iterates(jt, f, T)
  BY IterationExists
<1>2. Sum(f, T) = jt[T]
  BY SumIsIteration
<1> HIDE DEF jt
<1>3. jt[T] = it[T]
  BY <1>1, IterationIsUnique
<1> QED BY <1>2, <1>3

\* A sum is about the values on its set only.
LEMMA SumSame ==
    ASSUME NEW S, IsFiniteSet(S), NEW f, NEW g, \A x \in S : f[x] = g[x]
    PROVE  Sum(f, S) = Sum(g, S)
<1>1. PICK it : Iterates(it, g, S)
  BY IterationExists
<1>2. Sum(f, S) = it[S]
  BY <1>1, SumIs
<1>3. Sum(g, S) = it[S]
  BY <1>1, SumIs
<1> QED BY <1>2, <1>3

\* The sum of nothing.
LEMMA SumEmpty ==
    ASSUME NEW f PROVE Sum(f, {}) = 0
<1>1. IsFiniteSet({})
  BY FS_EmptySet
<1>2. PICK it : Iterates(it, f, {})
  BY <1>1, IterationExists
<1>3. it[{}] = 0
  BY <1>2 DEF Iterates
<1> QED BY <1>1, <1>2, <1>3, SumIs

\* The recursion, one step.
LEMMA SumFirst ==
    ASSUME NEW S, IsFiniteSet(S), S # {}, NEW f
    PROVE  /\ First(S) \in S
           /\ Sum(f, S) = f[First(S)] + Sum(f, S \ {First(S)})
<1>1. First(S) \in S
  BY DEF First
<1>2. IsFiniteSet(S \ {First(S)})
  BY FS_Subset
<1>3. PICK it : Iterates(it, f, S)
  BY IterationExists
<1>4. it[S] = f[First(S)] + it[S \ {First(S)}]
  BY <1>3 DEF Iterates
<1>5. Sum(f, S) = it[S] /\ Sum(f, S \ {First(S)}) = it[S \ {First(S)}]
  BY <1>2, <1>3, SumIs
<1> QED BY <1>1, <1>4, <1>5

\* The sum of integers is one, and of natural numbers too.
LEMMA SumIsInt ==
    ASSUME NEW S, IsFiniteSet(S), NEW f, \A x \in S : f[x] \in Int
    PROVE  Sum(f, S) \in Int
<1> DEFINE P == {T \in SUBSET S : Sum(f, T) \in Int}
<1>1. ASSUME NEW T \in SUBSET S, \A x \in T : T \ {x} \in P PROVE T \in P
  <2>1. CASE T = {}
    BY <2>1, SumEmpty
  <2>2. CASE T # {}
    <3>1. IsFiniteSet(T)
      BY Subsets
    <3>2. First(T) \in T /\ Sum(f, T) = f[First(T)] + Sum(f, T \ {First(T)})
      BY <2>2, <3>1, SumFirst
    <3>3. Sum(f, T \ {First(T)}) \in Int
      BY <1>1, <3>2
    <3> QED BY <3>2, <3>3
  <2> QED BY <2>1, <2>2
<1>2. SUBSET S \subseteq P
  <2> HIDE DEF P
  <2> QED BY <1>1, SmallerFirst
<1> QED BY <1>2

\* The sum of natural numbers is one.
LEMMA SumIsNat ==
    ASSUME NEW S, IsFiniteSet(S), NEW f, \A x \in S : f[x] \in Nat
    PROVE  Sum(f, S) \in Nat
<1> DEFINE P == {T \in SUBSET S : Sum(f, T) \in Nat}
<1>1. ASSUME NEW T \in SUBSET S, \A x \in T : T \ {x} \in P PROVE T \in P
  <2>1. CASE T = {}
    BY <2>1, SumEmpty
  <2>2. CASE T # {}
    <3>1. IsFiniteSet(T)
      BY Subsets
    <3>2. First(T) \in T /\ Sum(f, T) = f[First(T)] + Sum(f, T \ {First(T)})
      BY <2>2, <3>1, SumFirst
    <3>3. Sum(f, T \ {First(T)}) \in Nat
      BY <1>1, <3>2
    <3> QED BY <3>2, <3>3
  <2> QED BY <2>1, <2>2
<1>2. SUBSET S \subseteq P
  <2> HIDE DEF P
  <2> QED BY <1>1, SmallerFirst
<1> QED BY <1>2

\* Any element may be taken out first.
LEMMA SumRemove ==
    ASSUME NEW S, IsFiniteSet(S), NEW f, \A x \in S : f[x] \in Int, NEW x \in S
    PROVE  Sum(f, S) = f[x] + Sum(f, S \ {x})
<1> DEFINE P == {T \in SUBSET S : \A y \in T : Sum(f, T) = f[y] + Sum(f, T \ {y})}
<1>1. ASSUME NEW T \in SUBSET S, \A y \in T : T \ {y} \in P PROVE T \in P
  <2>1. ASSUME NEW y \in T PROVE Sum(f, T) = f[y] + Sum(f, T \ {y})
    <3>1. IsFiniteSet(T)
      BY Subsets
    <3>2. First(T) \in T /\ Sum(f, T) = f[First(T)] + Sum(f, T \ {First(T)})
      BY <3>1, SumFirst
    <3>3. PICK z \in T : z = First(T)
      BY <3>2
    <3>4. CASE y # z
      <4> DEFINE U == (T \ {z}) \ {y}
      <4>1. T \ {z} \in P /\ T \ {y} \in P
        BY <1>1
      <4>2. Sum(f, T \ {z}) = f[y] + Sum(f, U)
        BY <3>4, <4>1
      <4>3. (T \ {y}) \ {z} = U
        OBVIOUS
      <4>4. Sum(f, T \ {y}) = f[z] + Sum(f, U)
        BY <3>4, <4>1, <4>3
      <4>5. IsFiniteSet(U) /\ U \subseteq S
        BY <3>1, FS_Subset
      <4> HIDE DEF U
      <4>6. f[z] \in Int /\ f[y] \in Int /\ Sum(f, U) \in Int
        BY <4>5, SumIsInt
      <4>7. \A c, d, t \in Int : c + (d + t) = d + (c + t)
        OBVIOUS
      <4> QED BY <3>2, <3>3, <4>2, <4>4, <4>6, <4>7
    <3> QED BY <3>2, <3>3, <3>4
  <2> QED BY <2>1
<1>2. SUBSET S \subseteq P
  <2> HIDE DEF P
  <2> QED BY <1>1, SmallerFirst
<1> QED BY <1>2

\* One element more.
LEMMA SumAdd ==
    ASSUME NEW S, IsFiniteSet(S), NEW x, x \notin S,
           NEW f, f[x] \in Int, \A y \in S : f[y] \in Int
    PROVE  Sum(f, S \cup {x}) = f[x] + Sum(f, S)
<1>1. IsFiniteSet(S \cup {x})
  BY FS_AddElement
<1>2. (S \cup {x}) \ {x} = S
  OBVIOUS
<1>3. \A y \in S \cup {x} : f[y] \in Int
  OBVIOUS
<1>4. Sum(f, S \cup {x}) = f[x] + Sum(f, (S \cup {x}) \ {x})
  BY <1>1, <1>3, SumRemove
<1> QED BY <1>2, <1>4

\* Two sums over sets that have nothing in common.
LEMMA SumUnion ==
    ASSUME NEW S, IsFiniteSet(S), NEW R, IsFiniteSet(R), S \cap R = {},
           NEW f, \A x \in S \cup R : f[x] \in Int
    PROVE  Sum(f, S \cup R) = Sum(f, S) + Sum(f, R)
<1> DEFINE P == {T \in SUBSET S : Sum(f, T \cup R) = Sum(f, T) + Sum(f, R)}
<1>1. Sum(f, R) \in Int
  BY SumIsInt
<1>2. ASSUME NEW T \in SUBSET S, \A x \in T : T \ {x} \in P PROVE T \in P
  <2>1. CASE T = {}
    <3>1. T \cup R = R
      BY <2>1
    <3>2. Sum(f, T) = 0
      BY <2>1, SumEmpty
    <3>3. Sum(f, T \cup R) = Sum(f, R)
      BY <3>1
    <3>4. Sum(f, T \cup R) = Sum(f, T) + Sum(f, R)
      BY <1>1, <3>2, <3>3
    <3> QED BY <3>4
  <2>2. CASE T # {}
    <3>1. PICK x \in T : TRUE
      BY <2>2
    <3>2. IsFiniteSet(T) /\ IsFiniteSet(T \cup R) /\ IsFiniteSet(T \ {x})
      BY Subsets, FS_Union, FS_Subset
    <3>3. Sum(f, T \cup R) = f[x] + Sum(f, (T \cup R) \ {x})
      BY <3>2, SumRemove
    <3>4. Sum(f, T) = f[x] + Sum(f, T \ {x})
      BY <3>2, SumRemove
    <3>5. (T \cup R) \ {x} = (T \ {x}) \cup R
      OBVIOUS
    <3>6. Sum(f, (T \ {x}) \cup R) = Sum(f, T \ {x}) + Sum(f, R)
      BY <1>2
    <3>7. f[x] \in Int /\ Sum(f, T \ {x}) \in Int
      BY <3>2, SumIsInt
    <3>8. Sum(f, T \cup R) = f[x] + (Sum(f, T \ {x}) + Sum(f, R))
      BY <3>3, <3>5, <3>6
    <3>9. \A c, d, t \in Int : c + (d + t) = (c + d) + t
      OBVIOUS
    <3>10. Sum(f, T \cup R) = Sum(f, T) + Sum(f, R)
      BY <1>1, <3>4, <3>7, <3>8, <3>9
    <3> QED BY <3>10
  <2> QED BY <2>1, <2>2
<1>3. SUBSET S \subseteq P
  <2> HIDE DEF P
  <2> QED BY <1>2, SmallerFirst
<1> QED BY <1>3

\* What is added up twice.
LEMMA SumPlus ==
    ASSUME NEW S, IsFiniteSet(S), NEW f, NEW g, NEW h,
           \A x \in S : f[x] \in Int /\ g[x] \in Int /\ h[x] = f[x] + g[x]
    PROVE  Sum(h, S) = Sum(f, S) + Sum(g, S)
<1> DEFINE P == {T \in SUBSET S : Sum(h, T) = Sum(f, T) + Sum(g, T)}
<1>1. ASSUME NEW T \in SUBSET S, \A x \in T : T \ {x} \in P PROVE T \in P
  <2>1. CASE T = {}
    BY <2>1, SumEmpty
  <2>2. CASE T # {}
    <3>1. PICK x \in T : TRUE
      BY <2>2
    <3>2. IsFiniteSet(T) /\ IsFiniteSet(T \ {x})
      BY Subsets, FS_Subset
    <3>3. /\ Sum(h, T) = h[x] + Sum(h, T \ {x})
          /\ Sum(f, T) = f[x] + Sum(f, T \ {x})
          /\ Sum(g, T) = g[x] + Sum(g, T \ {x})
      BY <3>2, SumRemove
    <3>4. Sum(h, T \ {x}) = Sum(f, T \ {x}) + Sum(g, T \ {x})
      BY <1>1
    <3>5. Sum(f, T \ {x}) \in Int /\ Sum(g, T \ {x}) \in Int
      BY <3>2, SumIsInt
    <3>6. f[x] \in Int /\ g[x] \in Int /\ h[x] = f[x] + g[x]
      OBVIOUS
    <3> QED BY <3>3, <3>4, <3>5, <3>6
  <2> QED BY <2>1, <2>2
<1>2. SUBSET S \subseteq P
  <2> HIDE DEF P
  <2> QED BY <1>1, SmallerFirst
<1> QED BY <1>2

\* The sum of zeros.
LEMMA SumZero ==
    ASSUME NEW A, IsFiniteSet(A), NEW h, \A x \in A : h[x] = 0
    PROVE  Sum(h, A) = 0
<1> DEFINE z == [x \in A |-> h[x] + h[x]]
<1>1. \A x \in A : h[x] \in Int /\ z[x] \in Int /\ h[x] = z[x] + h[x] /\ z[x] = h[x] + h[x]
  OBVIOUS
<1> HIDE DEF z
<1>2. Sum(z, A) = Sum(h, A) + Sum(h, A) /\ Sum(h, A) = Sum(z, A) + Sum(h, A)
  BY <1>1, SumPlus
<1>3. Sum(h, A) \in Int /\ Sum(z, A) \in Int
  BY <1>1, SumIsInt
<1>4. \A s, t \in Int : t = s + s /\ s = t + s => s = 0
  OBVIOUS
<1> QED BY <1>2, <1>3, <1>4

\* A sum whose values are made of two parts, the second of them outside K nothing.
LEMMA SumParts ==
    ASSUME NEW S, IsFiniteSet(S), NEW K \in SUBSET S, NEW f, NEW g, NEW h,
           \A x \in S : f[x] \in Int /\ g[x] \in Int /\ h[x] = f[x] + g[x],
           \A x \in S \ K : g[x] = 0
    PROVE  Sum(h, S) = Sum(f, S) + Sum(g, K)
<1>1. PICK R : R = S \ K
  OBVIOUS
<1>2. K \cup R = S /\ K \cap R = {}
  BY <1>1
<1>3. IsFiniteSet(K) /\ IsFiniteSet(R)
  BY <1>1, FS_Subset
<1>4. Sum(h, S) = Sum(f, S) + Sum(g, S)
  BY SumPlus
<1>5. Sum(g, R) = 0
  BY <1>1, <1>3, SumZero
<1>6. Sum(g, S) = Sum(g, K) + Sum(g, R)
  <2>1. \A x \in K \cup R : g[x] \in Int
    BY <1>2
  <2>2. Sum(g, K \cup R) = Sum(g, K) + Sum(g, R)
    BY <1>2, <1>3, <2>1, SumUnion
  <2> QED BY <1>2, <2>2
<1>7. Sum(g, K) \in Int
  BY <1>3, SumIsInt
<1> QED BY <1>4, <1>5, <1>6, <1>7

\* A sum over what g makes of the elements of S, where it makes different things.
LEMMA SumOfImages ==
    ASSUME NEW S, IsFiniteSet(S), NEW f, NEW g, NEW h,
           \A x, y \in S : g[x] = g[y] => x = y,
           \A x \in S : f[x] \in Int /\ h[g[x]] = f[x]
    PROVE  /\ IsFiniteSet({g[x] : x \in S})
           /\ Sum(h, {g[x] : x \in S}) = Sum(f, S)
<1> DEFINE Image(T) == {g[x] : x \in T}
           P == {T \in SUBSET S : IsFiniteSet(Image(T)) /\ Sum(h, Image(T)) = Sum(f, T)}
<1>1. ASSUME NEW T \in SUBSET S, \A x \in T : T \ {x} \in P PROVE T \in P
  <2>1. CASE T = {}
    <3>1. Image(T) = {}
      BY <2>1
    <3> QED BY <2>1, <3>1, SumEmpty, FS_EmptySet
  <2>2. CASE T # {}
    <3>1. PICK x \in T : TRUE
      BY <2>2
    <3>2. IsFiniteSet(T)
      BY Subsets
    <3>3. Sum(f, T) = f[x] + Sum(f, T \ {x})
      BY <3>2, SumRemove
    <3>4. Image(T) = Image(T \ {x}) \cup {g[x]} /\ g[x] \notin Image(T \ {x})
      OBVIOUS
    <3>5. IsFiniteSet(Image(T \ {x})) /\ Sum(h, Image(T \ {x})) = Sum(f, T \ {x})
      BY <1>1
    <3>6. h[g[x]] = f[x] /\ f[x] \in Int /\ \A y \in Image(T \ {x}) : h[y] \in Int
      OBVIOUS
    <3> HIDE DEF Image
    <3>7. PICK R : R = Image(T \ {x})
      OBVIOUS
    <3>8. PICK w : w = g[x]
      OBVIOUS
    <3>9. IsFiniteSet(R) /\ w \notin R /\ h[w] \in Int /\ \A y \in R : h[y] \in Int
      BY <3>4, <3>5, <3>6, <3>7, <3>8
    <3>10. IsFiniteSet(R \cup {w}) /\ Sum(h, R \cup {w}) = h[w] + Sum(h, R)
      BY <3>9, SumAdd, FS_AddElement
    <3>11. Image(T) = R \cup {w}
      BY <3>4, <3>7, <3>8
    <3>12. IsFiniteSet(Image(T)) /\ Sum(h, Image(T)) = f[x] + Sum(f, T \ {x})
      BY <3>5, <3>6, <3>7, <3>8, <3>10, <3>11
    <3> QED BY <3>3, <3>12
  <2> QED BY <2>1, <2>2
<1>2. SUBSET S \subseteq P
  <2> HIDE DEF P
  <2> QED BY <1>1, SmallerFirst
<1> QED BY <1>2

-----------------------------------------------------------------------------
(* Arithmetic.                                                             *)

\* What is known of a quotient.
LEMMA Division ==
    ASSUME NEW a \in Int, NEW b \in Nat \ {0}
    PROVE  /\ a \div b \in Int
           /\ b * (a \div b) <= a /\ a < b * (a \div b) + b
           /\ 0 <= a => 0 <= a \div b
OBVIOUS

\* A quotient of what is below c + 1 times the divisor.
LEMMA DivisionAtMost ==
    ASSUME NEW a \in Int, NEW b \in Nat \ {0}, NEW c \in Int, a < (c + 1) * b
    PROVE  a \div b <= c
<1>1. b * (a \div b) <= a /\ a \div b \in Int
  BY Division
<1>2. b * (a \div b) < (c + 1) * b
  BY <1>1
<1>3. \A q \in Int : b * q < (c + 1) * b => q < c + 1
  <2>1. ASSUME NEW q \in Int, q >= c + 1 PROVE b * q >= (c + 1) * b
    BY <2>1
  <2> QED BY <2>1
<1> QED BY <1>1, <1>2, <1>3

\* A rounded quotient, and one of a part.
LEMMA RoundDivType ==
    ASSUME NEW a \in Int, NEW b \in Nat \ {0}
    PROVE  RoundDiv(a, b) \in Int /\ (a >= 0 => RoundDiv(a, b) \in Nat)
<1>1. 2 * a + b \in Int /\ 2 * b \in Nat \ {0} /\ (a >= 0 => 2 * a + b >= 0)
  OBVIOUS
<1> QED BY <1>1, Division DEF RoundDiv

\* A rounded part of c is no more than c.
LEMMA RoundedPart ==
    ASSUME NEW c \in Nat, NEW m \in Nat, NEW n \in Nat \ {0}, m <= n
    PROVE  RoundDiv(c * m, n) \in 0..c
<1>1. c * m \in Nat /\ c * m <= c * n
  OBVIOUS
<1>2. RoundDiv(c * m, n) \in Nat
  BY <1>1, RoundDivType
<1>3. 2 * (c * m) + n < (c + 1) * (2 * n)
  BY <1>1
<1>4. (2 * (c * m) + n) \div (2 * n) <= c
  <2>1. 2 * (c * m) + n \in Int /\ 2 * n \in Nat \ {0} /\ c \in Int
    BY <1>1
  <2> QED BY <1>3, <2>1, DivisionAtMost
<1> QED BY <1>2, <1>4 DEF RoundDiv

\* The whole is not rounded.
LEMMA WholeIsExact ==
    ASSUME NEW c \in Nat, NEW n \in Nat \ {0}
    PROVE  RoundDiv(c * n, n) = c
<1>1. (2 * (c * n) + n) \div (2 * n) = c
  OBVIOUS
<1> QED BY <1>1 DEF RoundDiv

\* The lesser and the greater of two numbers.
LEMMA LesserGreater ==
    ASSUME NEW a \in Int, NEW b \in Int
    PROVE  /\ Lesser(a, b) \in {a, b} /\ Lesser(a, b) <= a /\ Lesser(a, b) <= b
           /\ Greater(a, b) \in {a, b} /\ Greater(a, b) >= a /\ Greater(a, b) >= b
BY DEF Lesser, Greater

\* A declaration is at most what it was made of, and normal unless it is 0.
LEMMA NormalFloorType ==
    ASSUME NEW n \in Int, NEW lot \in Nat \ {0}, NEW step \in Nat \ {0}
    PROVE  /\ NormalFloor(n, lot, step) \in Nat
           /\ n >= 0 => NormalFloor(n, lot, step) <= n
           /\ NormalFloor(n, lot, step) > 0 => IsNormal(NormalFloor(n, lot, step), lot, step)
<1>1. CASE n < lot
  BY <1>1 DEF NormalFloor
<1>2. CASE n >= lot
  <2> DEFINE q == (n - lot) \div step
  <2>1. n - lot \in Nat
    BY <1>2
  <2>2. q \in Nat /\ step * q <= n - lot
    BY <2>1, Division
  <2>3. NormalFloor(n, lot, step) = lot + q * step
    BY <1>2 DEF NormalFloor
  <2> HIDE DEF q
  <2>4. q * step \in Nat /\ q * step <= n - lot
    BY <2>2
  <2>5. ((lot + q * step) - lot) % step = 0
    <3>1. (lot + q * step) - lot = q * step
      BY <2>4
    <3>2. (q * step) % step = 0
      BY <2>2
    <3> QED BY <3>1, <3>2
  <2> QED BY <2>2, <2>3, <2>4, <2>5 DEF IsNormal
<1> QED BY <1>1, <1>2

-----------------------------------------------------------------------------
(* The affordable quantity.                                                *)

\* The middle that the search looks at, and the function that its recursion defines on
\* the ranges of slots.
Mid(range) == (range[1] + range[2] + 1) \div 2
Searches(search, b, largest) ==
    search = [range \in (0..largest) \X (0..largest) |->
                IF range[1] >= range[2] THEN range[1]
                ELSE IF BuyTotal(Slot(b, Mid(range)), b) <= cash
                     THEN search[<<Mid(range), range[2]>>]
                     ELSE search[<<range[1], Mid(range) - 1>>]]

\* The slot that _affordable_buy_quantity ends at is what that function gives for the
\* whole range.
LEMMA SlotIsSearch ==
    ASSUME NEW b, NEW largest
    PROVE  AffordableSlot(b, largest)
             = (CHOOSE search : Searches(search, b, largest))[<<0, largest>>]
BY DEF AffordableSlot, Searches, Mid

\* The middle of a range is above its low end.
LEMMA Middle ==
    ASSUME NEW low \in Nat, NEW high \in Nat, low < high
    PROVE  (low + high + 1) \div 2 \in (low + 1)..high
OBVIOUS

\* The recursion that defines the search is well founded: its ranges get smaller.
LEMMA SearchExists ==
    ASSUME NEW b, NEW largest \in Nat
    PROVE  \E search : Searches(search, b, largest)
<1> DEFINE Ranges == (0..largest) \X (0..largest)
           D(n) == {w \in Ranges : w[2] - w[1] <= n}
           up(w) == <<Mid(w), w[2]>>
           down(w) == <<w[1], Mid(w) - 1>>
           A(w) == BuyTotal(Slot(b, Mid(w)), b) <= cash
           Is(g, n) == g = [w \in D(n) |-> IF w[1] >= w[2] THEN w[1]
                                           ELSE IF A(w) THEN g[up(w)] ELSE g[down(w)]]
           P == {n \in Nat : \E g : Is(g, n)}
<1>1. ASSUME NEW w \in Ranges, w[1] < w[2]
      PROVE  /\ up(w) \in Ranges /\ down(w) \in Ranges
             /\ \A n \in Nat : w[2] - w[1] <= n + 1 => up(w) \in D(n) /\ down(w) \in D(n)
  <2>1. Mid(w) \in (w[1] + 1)..w[2]
    BY <1>1, Middle DEF Mid
  <2> QED BY <1>1, <2>1
<1> HIDE DEF up, down, A
<1>2. 0 \in P
  <2> DEFINE g == [w \in D(0) |-> w[1]]
  <2>1. \A w \in D(0) : w[1] >= w[2]
    OBVIOUS
  <2>2. Is(g, 0)
    BY <2>1
  <2> QED BY <2>2
<1>3. ASSUME NEW n \in Nat, n \in P PROVE n + 1 \in P
  <2>1. PICK g : Is(g, n)
    BY <1>3
  <2> DEFINE h == [w \in D(n + 1) |-> IF w[1] >= w[2] THEN w[1]
                                      ELSE IF A(w) THEN g[up(w)] ELSE g[down(w)]]
  <2>2. \A w \in D(n + 1) : ~(w[1] >= w[2]) => up(w) \in D(n) /\ down(w) \in D(n)
    BY <1>1
  <2>3. \A w \in D(n) : w \in D(n + 1)
    OBVIOUS
  <2> HIDE DEF D
  <2>4. \A w \in D(n) : h[w] = g[w]
    BY <2>1, <2>3
  <2>5. Is(h, n + 1)
    BY <2>2, <2>4
  <2>6. \E x : Is(x, n + 1)
    BY <2>5
  <2> HIDE DEF Is
  <2> QED BY <2>6
<1>4. largest \in P
  <2> HIDE DEF P
  <2> QED BY <1>2, <1>3, AllNaturals
<1>5. PICK g : Is(g, largest)
  BY <1>4
<1>6. D(largest) = Ranges
  OBVIOUS
<1>7. Searches(g, b, largest)
  BY <1>5, <1>6 DEF Searches, up, down, A
<1> QED BY <1>7

\* The search ends at a slot that the cash pays for.
LEMMA SearchIsSound ==
    ASSUME NEW b, NEW largest \in Nat, NEW search, Searches(search, b, largest),
           NEW range \in (0..largest) \X (0..largest), range[1] <= range[2]
    PROVE  /\ search[range] \in range[1]..range[2]
           /\ search[range] = range[1] \/ BuyTotal(Slot(b, search[range]), b) <= cash
<1> DEFINE Ranges == (0..largest) \X (0..largest)
           A(slot) == BuyTotal(Slot(b, slot), b) <= cash
           Good(w) == /\ search[w] \in w[1]..w[2]
                      /\ search[w] = w[1] \/ A(search[w])
           P == {n \in Nat : \A w \in Ranges : w[1] <= w[2] /\ w[2] - w[1] <= n => Good(w)}
<1>1. ASSUME NEW w \in Ranges, w[1] = w[2] PROVE Good(w)
  <2>1. search[w] = w[1]
    BY <1>1 DEF Searches
  <2> QED BY <1>1, <2>1
<1>2. 0 \in P
  BY <1>1
<1>3. ASSUME NEW n \in Nat, n \in P PROVE n + 1 \in P
  <2>1. ASSUME NEW w \in Ranges, w[1] < w[2], w[2] - w[1] <= n + 1 PROVE Good(w)
    <3>1. Mid(w) \in (w[1] + 1)..w[2]
      BY <2>1, Middle DEF Mid
    <3>2. search[w] = IF A(Mid(w)) THEN search[<<Mid(w), w[2]>>]
                                   ELSE search[<<w[1], Mid(w) - 1>>]
      <4>1. search[w] = IF w[1] >= w[2] THEN w[1]
                        ELSE IF BuyTotal(Slot(b, Mid(w)), b) <= cash
                             THEN search[<<Mid(w), w[2]>>]
                             ELSE search[<<w[1], Mid(w) - 1>>]
        BY DEF Searches
      <4>2. ~(w[1] >= w[2])
        BY <2>1
      <4> QED BY <4>1, <4>2
    <3> DEFINE u == <<Mid(w), w[2]>>
               d == <<w[1], Mid(w) - 1>>
    <3>3. /\ u \in Ranges /\ u[1] <= u[2] /\ u[2] - u[1] <= n
          /\ d \in Ranges /\ d[1] <= d[2] /\ d[2] - d[1] <= n
      BY <2>1, <3>1
    <3>4. /\ search[u] \in Mid(w)..w[2] /\ (search[u] = Mid(w) \/ A(search[u]))
          /\ search[d] \in w[1]..(Mid(w) - 1) /\ (search[d] = w[1] \/ A(search[d]))
      <4>1. Good(u) /\ Good(d)
        <5> HIDE DEF Good, u, d
        <5> QED BY <1>3, <3>3
      <4> QED BY <4>1
    <3> HIDE DEF A
    <3> QED BY <3>1, <3>2, <3>4
  <2> HIDE DEF Good
  <2>2. \A w \in Ranges : w[1] \in Int /\ w[2] \in Int
    OBVIOUS
  <2> QED BY <1>1, <2>1, <2>2
<1>4. range[2] - range[1] \in P
  <2> HIDE DEF P
  <2>1. range[2] - range[1] \in Nat
    OBVIOUS
  <2> QED BY <1>2, <1>3, <2>1, AllNaturals
<1> QED BY <1>4

\* What _affordable_buy_quantity comes to is a normal quantity, no more than it may
\* be and no more than the cash pays for.
LEMMA AffordableType ==
    ASSUME NEW maximum \in Nat, NEW b, b.lot \in Nat \ {0}, b.step \in Nat \ {0}
    PROVE  LET n == AffordableBuyQuantity(maximum, b)
           IN  /\ n \in 0..maximum
               /\ n > 0 => IsNormal(n, b.lot, b.step) /\ BuyTotal(n, b) <= cash
<1> DEFINE n == AffordableBuyQuantity(maximum, b)
<1>1. CASE maximum < b.lot
  BY <1>1 DEF AffordableBuyQuantity
<1>2. CASE maximum >= b.lot
  <2> DEFINE largest == 1 + (maximum - b.lot) \div b.step
             search == CHOOSE s : Searches(s, b, largest)
             slot == search[<<0, largest>>]
  <2>1. n = IF slot = 0 THEN 0 ELSE Slot(b, slot)
    <3>1. slot = AffordableSlot(b, largest)
      BY SlotIsSearch
    <3>2. ~(maximum < b.lot)
      BY <1>2
    <3> HIDE DEF slot, search
    <3> QED BY <3>1, <3>2 DEF AffordableBuyQuantity
  <2>2. maximum - b.lot \in Nat
    BY <1>2
  <2>3. largest - 1 \in Nat /\ b.step * (largest - 1) <= maximum - b.lot
    BY <2>2, Division
  <2>4. largest \in Nat
    BY <2>3
  <2> HIDE DEF largest
  <2>5. Searches(search, b, largest)
    BY <2>4, SearchExists
  <2> HIDE DEF search
  <2>6. /\ slot \in 0..largest
        /\ slot = 0 \/ BuyTotal(Slot(b, slot), b) <= cash
    BY <2>4, <2>5, SearchIsSound
  <2> HIDE DEF slot
  <2>7. CASE slot = 0
    BY <2>1, <2>7
  <2>8. CASE slot # 0
    <3>1. n = b.lot + (slot - 1) * b.step
      BY <2>1, <2>8 DEF Slot
    <3>2. (slot - 1) * b.step \in Nat /\ (slot - 1) * b.step <= maximum - b.lot
      <4>1. slot - 1 \in Nat /\ slot - 1 <= largest - 1
        BY <2>4, <2>6, <2>8
      <4>2. (slot - 1) * b.step <= (largest - 1) * b.step
        BY <2>3, <4>1
      <4> QED BY <2>3, <4>1, <4>2
    <3>3. ((slot - 1) * b.step) % b.step = 0
      BY <2>4, <2>6
    <3>4. n - b.lot = (slot - 1) * b.step
      BY <3>1, <3>2
    <3>5. n \in 0..maximum /\ n >= b.lot
      BY <3>1, <3>2
    <3>6. BuyTotal(n, b) <= cash
      BY <2>1, <2>6, <2>8
    <3>7. IsNormal(n, b.lot, b.step)
      <4> HIDE DEF n
      <4> QED BY <3>3, <3>4, <3>5 DEF IsNormal
    <3> QED BY <3>5, <3>6, <3>7
  <2> QED BY <2>7, <2>8
<1> QED BY <1>1, <1>2

-----------------------------------------------------------------------------
(* Prices, fees and what is approved of an order.                          *)

\* The bars in which an order may fill.
TradedBar == {b \in Bars : b.state = "traded"}

\* The fields of such a bar.
LEMMA BarFields ==
    ASSUME NEW b \in TradedBar
    PROVE  /\ b.open \in Nat \ {0} /\ b.high \in Nat /\ b.low \in Nat \ {0} /\ b.close \in Nat
           /\ b.up \in Nat /\ b.down \in Nat /\ b.volume \in Nat /\ b.lot \in Nat \ {0}
           /\ b.step \in Nat \ {0} /\ b.odd \in BOOLEAN /\ b.delay \in Nat
<1>1. b \in Bar /\ b.state = "traded"
  BY MarketAssumption DEF TradedBar
<1>2. b \in [state : {"traded"}, open : Nat, high : Nat, low : Nat, close : Nat,
             up : Nat, down : Nat, volume : Nat, lot : Nat \ {0},
             step : Nat \ {0}, odd : BOOLEAN, delay : Nat]
  BY <1>1 DEF Bar
<1>3. 0 < b.low /\ b.open \in b.low..b.high
  BY MarketAssumption DEF TradedBar
<1> QED BY <1>2, <1>3

\* NormalFloorType, for the lot and the step of a bar.
LEMMA BarFloor ==
    ASSUME NEW n \in Nat, NEW b, b.lot \in Nat \ {0}, b.step \in Nat \ {0}
    PROVE  LET m == NormalFloor(n, b.lot, b.step)
           IN  m \in 0..n /\ (m > 0 => IsNormal(m, b.lot, b.step))
<1>1. PICK lot \in Nat \ {0} : lot = b.lot
  OBVIOUS
<1>2. PICK step \in Nat \ {0} : step = b.step
  OBVIOUS
<1>3. LET m == NormalFloor(n, lot, step)
      IN  m \in 0..n /\ (m > 0 => IsNormal(m, lot, step))
  BY NormalFloorType
<1> QED BY <1>1, <1>2, <1>3

\* The types of the policy, the fees and the risk limits.
LEMMA ConstantTypes ==
    /\ Policy.num \in Nat \ {0} /\ Policy.den \in Nat \ {0}
    /\ Policy.base \in Nat /\ Policy.impact \in Nat
    /\ Fee.rate \in Nat /\ Fee.minimum \in Nat /\ Fee.levy \in Nat /\ Fee.stamp \in Nat
    /\ Risk.maximum \in Nat /\ Risk.minimum \in Nat
BY PolicyAssumption

\* FeeSchedule.calculate never gives a negative amount.
LEMMA FeesType ==
    ASSUME NEW side, NEW amount \in Nat
    PROVE  Fees(side, amount) \in Nat
<1>1. PICK c : c = 10000
  OBVIOUS
<1>2. ASSUME NEW r \in Nat PROVE RoundDiv(amount * r, c) \in Nat
  <2>1. amount * r \in Nat /\ c \in Nat \ {0}
    BY <1>1
  <2> QED BY <2>1, RoundDivType
<1>3. /\ RoundDiv(amount * Fee.rate, c) \in Nat
      /\ RoundDiv(amount * Fee.levy, c) \in Nat
      /\ RoundDiv(amount * Fee.stamp, c) \in Nat
  BY <1>2, ConstantTypes
<1>4. Greater(RoundDiv(amount * Fee.rate, c), Fee.minimum) \in Nat
  BY <1>3, ConstantTypes DEF Greater
<1>5. Fees(side, amount) = Greater(RoundDiv(amount * Fee.rate, c), Fee.minimum)
                           + RoundDiv(amount * Fee.levy, c)
                           + (IF side = "sell" THEN RoundDiv(amount * Fee.stamp, c) ELSE 0)
  BY <1>1 DEF Fees
<1> QED BY <1>3, <1>4, <1>5

\* _fill_price never gives a negative price.
LEMMA FillPriceType ==
    ASSUME NEW side, NEW n \in Nat, NEW b \in TradedBar, b.volume > 0
    PROVE  FillPrice(side, n, b) \in Nat
<1> DEFINE v == b.volume * Policy.num
           used == Lesser(n * Policy.den, v)
           whole == 10000 * v * v
           slip == Policy.base * v * v + Policy.impact * used * used
<1>1. v \in Nat \ {0}
  BY BarFields, ConstantTypes
<1>2. n * Policy.den \in Nat
  BY ConstantTypes
<1> HIDE DEF v
<1>3. used \in Nat
  BY <1>1, <1>2 DEF Lesser
<1>4. whole \in Nat \ {0}
  BY <1>1
<1>5. slip \in Nat
  <2> HIDE DEF used
  <2>1. v * v \in Nat /\ used * used \in Nat
    BY <1>1, <1>3
  <2>2. (Policy.base * v) * v \in Nat /\ (Policy.impact * used) * used \in Nat
    BY <1>1, <1>3, ConstantTypes
  <2> QED BY <2>2
<1> HIDE DEF whole, slip
<1>6. \A p \in Nat : Within(p, b) \in Nat
  BY BarFields DEF Within, Lesser, Greater
<1>7. CeilDiv(b.open * (whole + slip), whole) \in Nat
  <2>1. (b.open * (whole + slip)) + whole - 1 \in Nat
    BY <1>4, <1>5, BarFields
  <2> QED BY <1>4, <2>1, Division DEF CeilDiv
<1>8. (b.open * (whole - slip)) \div whole \in Int
  <2>1. b.open * (whole - slip) \in Int
    BY <1>4, <1>5, BarFields
  <2> QED BY <1>4, <2>1, Division
<1>9. Lesser(CeilDiv(b.open * (whole + slip), whole), b.high) \in Nat
  BY <1>7, BarFields DEF Lesser
<1>10. Greater((b.open * (whole - slip)) \div whole, b.low) \in Nat
  BY <1>8, BarFields DEF Greater
<1>11. FillPrice(side, n, b) =
         IF side = "buy"
         THEN Within(Lesser(CeilDiv(b.open * (whole + slip), whole), b.high), b)
         ELSE Within(Greater((b.open * (whole - slip)) \div whole, b.low), b)
  BY DEF FillPrice, v, whole, slip
<1> QED BY <1>6, <1>9, <1>10, <1>11

\* What a buy costs is never negative.
LEMMA BuyTotalType ==
    ASSUME NEW n \in Nat, NEW b \in TradedBar, b.volume > 0
    PROVE  BuyTotal(n, b) \in Nat
<1>1. FillPrice("buy", n, b) * n \in Nat
  BY FillPriceType
<1> QED BY <1>1, FeesType DEF BuyTotal

\* The lots of a portfolio add up.
LEMMA QuantityType ==
    ASSUME NEW S, IsFiniteSet(S), \A l \in S : l.quantity \in Nat
    PROVE  QuantityOf(S) \in Nat
<1> DEFINE f == [l \in S |-> l.quantity]
<1>1. QuantityOf(S) = Sum(f, S)
  BY DEF QuantityOf, SumFunction, Sum
<1> QED BY <1>1, SumIsNat

\* The costs of a portfolio add up.
LEMMA CostType ==
    ASSUME NEW S, IsFiniteSet(S), \A l \in S : l.cost \in Nat
    PROVE  CostOf(S) \in Nat
<1> DEFINE f == [l \in S |-> l.cost]
<1>1. CostOf(S) = Sum(f, S)
  BY DEF CostOf, SumFunction, Sum
<1> QED BY <1>1, SumIsNat

\* The quantities of a position, and what of it is settled.
LEMMA PositionType ==
    ASSUME lots \subseteq Lot, IsFiniteSet(lots), NEW i
    PROVE  /\ IsFiniteSet(LotsOf(i)) /\ IsFiniteSet(SettledLots(i))
           /\ Quantity(i) \in Nat /\ Sellable(i) \in Nat /\ CostOf(LotsOf(i)) \in Nat
<1>1. IsFiniteSet(LotsOf(i)) /\ IsFiniteSet(SettledLots(i))
  BY FS_Subset DEF LotsOf, SettledLots
<1>2. \A l \in lots : l.quantity \in Nat /\ l.cost \in Nat
  BY DEF Lot
<1>3. LotsOf(i) \subseteq lots /\ SettledLots(i) \subseteq lots
  BY DEF LotsOf, SettledLots
<1> QED BY <1>1, <1>2, <1>3, QuantityType, CostType DEF Quantity, Sellable

\* What an order may fill: no more than it asks for and the market allows, a normal
\* quantity or the whole position, settled if it is sold and paid for if it is bought.
Allowed(o, b, n) ==
    /\ n \in 0..o.quantity
    /\ n > 0 => /\ n * Policy.den <= b.volume * Policy.num
                /\ \/ IsNormal(n, b.lot, b.step)
                   \/ o.side = "sell" /\ b.odd /\ n = Quantity(o.instrument)
                /\ o.side = "sell" => n <= Sellable(o.instrument)
                /\ o.side = "buy" => BuyTotal(n, b) <= cash

\* What is approved of an order is allowed.
LEMMA ApprovedIsAllowed ==
    ASSUME lots \subseteq Lot, IsFiniteSet(lots), NEW o \in Order, NEW b \in TradedBar
    PROVE  Allowed(o, b, Approved(o, b))
<1> DEFINE n == o.quantity
           volume == b.volume * Policy.num
           normal == NormalFloor(volume \div Policy.den, b.lot, b.step)
           residual == IsResidual(o, b)
           capacity == IF residual /\ volume >= n * Policy.den
                       THEN Greater(normal, n) ELSE normal
           traded == Lesser(n, capacity)
           settled == Lesser(traded, Sellable(o.instrument))
           declared == IF o.side = "buy" THEN traded
                       ELSE IF residual /\ settled = n THEN n
                       ELSE NormalFloor(settled, b.lot, b.step)
           partial == IF ~Policy.partial /\ declared < n THEN 0 ELSE declared
<1>1. Approved(o, b) = IF ~residual /\ ~IsNormal(n, b.lot, b.step) THEN 0
                       ELSE IF o.side = "buy" /\ partial > 0 THEN AffordableBuyQuantity(partial, b)
                       ELSE partial
  BY DEF Approved
<1>2. n \in Nat \ {0} /\ o.side \in {"buy", "sell"}
  BY DEF Order
<1>3. volume \in Nat /\ b.lot \in Nat \ {0} /\ b.step \in Nat \ {0} /\ Policy.den \in Nat \ {0}
  BY BarFields, ConstantTypes
<1>4. Sellable(o.instrument) \in Nat /\ Quantity(o.instrument) \in Nat
  BY PositionType
<1>5. residual => o.side = "sell" /\ b.odd /\ n = Quantity(o.instrument)
                  /\ n = Sellable(o.instrument)
  BY DEF IsResidual
<1> HIDE DEF volume, residual
<1>6. /\ normal \in Nat /\ normal * Policy.den <= volume
      /\ normal > 0 => IsNormal(normal, b.lot, b.step)
  <2> DEFINE q == volume \div Policy.den
  <2>1. q \in Nat /\ Policy.den * q <= volume
    BY <1>3, Division
  <2> HIDE DEF q
  <2>2. normal = NormalFloor(q, b.lot, b.step)
    BY DEF q
  <2>3. /\ normal \in Nat /\ normal <= q
        /\ normal > 0 => IsNormal(normal, b.lot, b.step)
    <3>1. LET m == NormalFloor(q, b.lot, b.step)
          IN  m \in 0..q /\ (m > 0 => IsNormal(m, b.lot, b.step))
      BY <1>3, <2>1, BarFloor
    <3> QED BY <2>1, <2>2, <3>1
  <2>4. normal * Policy.den <= Policy.den * q
    BY <1>3, <2>1, <2>3
  <2> QED BY <1>3, <2>1, <2>3, <2>4
<1> HIDE DEF normal
<1>7. /\ traded \in 0..n /\ traded * Policy.den <= volume
      /\ ~residual => traded \in {n, normal}
  <2>1. CASE residual /\ volume >= n * Policy.den
    <3>1. traded = n
      BY <1>2, <1>6, <2>1 DEF Greater, Lesser
    <3> QED BY <1>2, <1>3, <2>1, <3>1
  <2>2. CASE ~(residual /\ volume >= n * Policy.den)
    <3>1. traded = Lesser(n, normal)
      BY <2>2
    <3>2. traded \in {n, normal} /\ traded \in 0..n /\ traded <= normal
      BY <1>2, <1>6, <3>1 DEF Lesser
    <3> HIDE DEF traded
    <3>3. traded * Policy.den <= normal * Policy.den
      BY <1>2, <1>3, <1>6, <3>2
    <3>4. normal * Policy.den \in Nat /\ traded * Policy.den \in Nat
      BY <1>2, <1>3, <1>6, <3>2
    <3> QED BY <1>3, <1>6, <3>2, <3>3, <3>4
  <2> QED BY <2>1, <2>2
<1> HIDE DEF capacity, traded
<1>8. settled \in 0..traded /\ settled <= Sellable(o.instrument)
  BY <1>4, <1>7 DEF Lesser
<1> HIDE DEF settled
<1>9. CASE o.side = "buy"
  <2>1. CASE IsNormal(n, b.lot, b.step)
    <3>1. declared = traded /\ ~residual
      BY <1>5, <1>9
    <3>2. partial \in {0, traded} /\ partial \in 0..n
      <4>1. partial = IF ~Policy.partial /\ declared < n THEN 0 ELSE declared
        OBVIOUS
      <4> HIDE DEF partial, declared
      <4> QED BY <1>2, <1>7, <3>1, <4>1
    <3> HIDE DEF partial, declared
    <3>3. Approved(o, b) = IF partial > 0 THEN AffordableBuyQuantity(partial, b) ELSE partial
      BY <1>1, <1>9, <2>1
    <3>4. CASE partial = 0
      BY <1>2, <3>3, <3>4 DEF Allowed
    <3>5. CASE partial > 0
      <4> DEFINE m == AffordableBuyQuantity(partial, b)
      <4>1. partial \in Nat
        BY <3>2
      <4>2. m \in 0..partial /\ (m > 0 => IsNormal(m, b.lot, b.step) /\ BuyTotal(m, b) <= cash)
        BY <1>3, <4>1, AffordableType
      <4> HIDE DEF m
      <4>3. m \in 0..n /\ m <= traded
        BY <1>2, <1>7, <3>2, <3>5, <4>2
      <4>4. m * Policy.den <= traded * Policy.den
        BY <1>3, <1>7, <4>3
      <4>5. m * Policy.den <= volume
        BY <1>3, <1>7, <4>3, <4>4
      <4>6. Approved(o, b) = m
        BY <3>3, <3>5 DEF m
      <4> QED BY <1>9, <4>2, <4>3, <4>5, <4>6 DEF Allowed, volume
    <3> QED BY <3>2, <3>4, <3>5
  <2>2. CASE ~IsNormal(n, b.lot, b.step)
    <3>1. Approved(o, b) = 0
      BY <1>1, <1>5, <1>9, <2>2
    <3> QED BY <1>2, <3>1 DEF Allowed
  <2> QED BY <2>1, <2>2
<1>10. CASE o.side = "sell"
  <2>1. /\ declared \in 0..settled
        /\ declared > 0 => IsNormal(declared, b.lot, b.step) \/ (residual /\ declared = n)
    <3>1. CASE residual /\ settled = n
      BY <1>2, <1>10, <3>1
    <3>2. CASE ~(residual /\ settled = n)
      <4>1. declared = NormalFloor(settled, b.lot, b.step)
        BY <1>10, <3>2
      <4>2. settled \in Nat
        BY <1>8
      <4>3. LET m == NormalFloor(settled, b.lot, b.step)
            IN  m \in 0..settled /\ (m > 0 => IsNormal(m, b.lot, b.step))
        BY <1>3, <4>2, BarFloor
      <4> HIDE DEF declared
      <4> QED BY <4>1, <4>2, <4>3
    <3> QED BY <3>1, <3>2
  <2> HIDE DEF declared
  <2>2. partial \in {0, declared}
    OBVIOUS
  <2> HIDE DEF partial
  <2>3. Approved(o, b) \in {0, declared}
    BY <1>1, <1>10, <2>2
  <2>4. declared \in 0..n /\ declared <= traded /\ declared <= Sellable(o.instrument)
    BY <1>2, <1>4, <1>7, <1>8, <2>1
  <2>5. declared * Policy.den <= traded * Policy.den
    BY <1>3, <1>7, <2>4
  <2>6. declared * Policy.den <= volume
    BY <1>3, <1>7, <2>4, <2>5
  <2>7. CASE Approved(o, b) = 0
    BY <1>2, <2>7 DEF Allowed
  <2>8. CASE Approved(o, b) = declared
    BY <1>5, <1>10, <2>1, <2>4, <2>6, <2>8 DEF Allowed, volume
  <2> QED BY <2>3, <2>7, <2>8
<1> QED BY <1>2, <1>9, <1>10

-----------------------------------------------------------------------------
(* Lots.                                                                   *)

\* A total that is shared over lots is what the shares add up to, if one of the lots
\* takes what the rounding leaves.
LEMMA SharesAddUp ==
    ASSUME NEW S, IsFiniteSet(S), NEW total \in Int, NEW whole \in Nat, NEW last,
           NEW weight, \A l \in S : weight[l] \in Int
    PROVE  LET shares == Shares(S, total, weight, whole, last)
           IN  /\ shares \in [S -> Int]
               /\ last \in S => Sum(shares, S) = total
<1> DEFINE part(l) == IF whole = 0 THEN 0 ELSE RoundDiv(total * weight[l], whole)
           rest == [m \in S \ {last} |-> part(m)]
           shares == Shares(S, total, weight, whole, last)
<1>1. \A l \in S : part(l) \in Int
  <2>1. ASSUME NEW l \in S, whole # 0 PROVE RoundDiv(total * weight[l], whole) \in Int
    <3>1. total * weight[l] \in Int
      OBVIOUS
    <3> QED BY <2>1, <3>1, RoundDivType
  <2> QED BY <2>1
<1> HIDE DEF part
<1>2. IsFiniteSet(S \ {last})
  BY FS_Subset
<1>3. SumFunction(rest) = Sum(rest, S \ {last}) /\ Sum(rest, S \ {last}) \in Int
  <2>1. rest \in [S \ {last} -> Int]
    BY <1>1
  <2> QED BY <1>2, <2>1, SumOfFunction, SumIsInt
<1>4. shares = [l \in S |-> IF l = last THEN total - SumFunction([m \in S \ {l} |-> part(m)])
                                        ELSE part(l)]
  BY DEF Shares, part
<1>5. /\ DOMAIN shares = S /\ shares = [l \in S |-> shares[l]]
      /\ \A l \in S : shares[l] = IF l = last THEN total - SumFunction(rest) ELSE part(l)
  BY <1>4
<1> HIDE DEF shares, rest
<1>6. \A l \in S : shares[l] \in Int
  BY <1>1, <1>3, <1>5
<1>7. ASSUME last \in S PROVE Sum(shares, S) = total
  <2>1. Sum(shares, S) = shares[last] + Sum(shares, S \ {last})
    BY <1>6, <1>7, SumRemove
  <2>2. Sum(shares, S \ {last}) = Sum(rest, S \ {last})
    <3>1. \A l \in S \ {last} : shares[l] = rest[l]
      BY <1>5 DEF rest
    <3> QED BY <1>2, <3>1, SumSame
  <2>3. shares[last] = total - SumFunction(rest)
    BY <1>5, <1>7
  <2> QED BY <1>3, <2>1, <2>2, <2>3
<1> QED BY <1>5, <1>6, <1>7 DEF shares

-----------------------------------------------------------------------------
(* Typing.                                                                 *)

\* TypeOK, and what it does not say: a portfolio is finite, and a session is a day.
Typed ==
    /\ TypeOK
    /\ IsFiniteSet(lots) /\ IsFiniteSet(entitlements)
    /\ pc # "idle" => day \in Days

\* The fields of a corporate action.
LEMMA ActionFields ==
    ASSUME NEW a \in ActionIds
    PROVE  LET action == Actions[a] IN
           /\ action.instrument \in Instruments
           /\ action.type \in {"cash_dividend", "stock_dividend", "split", "rights_issue"}
           /\ action.record \in Days /\ action.ex \in Days
           /\ action.pay \in 0..LastDay /\ action.listing \in 0..LastDay
           /\ action.cash \in Nat /\ action.share[1] \in Nat /\ action.share[2] \in Nat \ {0}
<1>1. Actions[a] \in Action
  BY MarketAssumption DEF ActionIds
<1> QED BY <1>1 DEF Action

\* The corporate actions are finitely many, numbered from 1.
LEMMA ActionsAreFinite == IsFiniteSet(ActionIds) /\ ActionIds \subseteq Nat \ {0}
<1>1. ActionIds = 1..Len(Actions) /\ Len(Actions) \in Nat
  BY MarketAssumption DEF ActionIds
<1>2. IsFiniteSet(1..Len(Actions))
  BY <1>1, FS_Interval
<1>3. 1..Len(Actions) \subseteq Nat \ {0}
  BY <1>1
<1> QED BY <1>1, <1>2, <1>3

\* A sum of costs, taken over a part of U.
LEMMA CostIs ==
    ASSUME NEW U, NEW X \in SUBSET U, IsFiniteSet(X)
    PROVE  CostOf(X) = Sum([l \in U |-> l.cost], X)
<1> DEFINE f == [l \in X |-> l.cost]
           h == [l \in U |-> l.cost]
<1>1. CostOf(X) = Sum(f, X)
  BY DEF CostOf, SumFunction, Sum
<1>2. \A l \in X : f[l] = h[l]
  OBVIOUS
<1> HIDE DEF f, h
<1>3. Sum(f, X) = Sum(h, X)
  BY <1>2, SumSame
<1> QED BY <1>1, <1>3 DEF h

\* What names a lot (its lot_id).
SameName(l, m) ==
    l.instrument = m.instrument /\ l.acquired = m.acquired /\ l.source = m.source

\* Lots of K after a change of quantity and cost.
Changed(K, quantity, cost) ==
    {[l EXCEPT !.quantity = quantity[l], !.cost = cost[l]] : l \in K}

\* Of L, the elements of S go, and what g makes of those of K comes.
Renews(L, S, K, g, M) ==
    /\ IsFiniteSet(L) /\ S \subseteq L /\ K \subseteq S
    /\ \A l, m \in K : g[l] = g[m] => l = m
    /\ \A l \in K : g[l] \notin L \ S
    /\ M = (L \ S) \cup {g[l] : l \in K}

\* What becomes of a sum, whose values over the new elements are those of f over K.
LEMMA SumChange ==
    ASSUME NEW L, NEW S, NEW K, NEW g, NEW M, Renews(L, S, K, g, M),
           NEW h, \A l \in L \cup M : h[l] \in Int,
           NEW f, \A l \in K : h[g[l]] = f[l]
    PROVE  /\ IsFiniteSet(M)
           /\ Sum(h, M) = (Sum(h, L) - Sum(h, S)) + Sum(f, K)
<1>0. PICK N : N = {g[l] : l \in K}
  OBVIOUS
<1>a. /\ IsFiniteSet(L) /\ S \subseteq L /\ K \subseteq S
      /\ \A l, m \in K : g[l] = g[m] => l = m
      /\ (L \ S) \cap N = {}
      /\ M = (L \ S) \cup N
  BY <1>0 DEF Renews
<1> USE <1>0, <1>a
<1>1. PICK R : R = L \ S
  OBVIOUS
<1>2. IsFiniteSet(K) /\ IsFiniteSet(R) /\ IsFiniteSet(S)
  <2>1. K \in SUBSET L /\ R \in SUBSET L /\ S \in SUBSET L
    BY <1>1
  <2> QED BY <2>1, FS_Subset
<1>3. IsFiniteSet(N) /\ Sum(h, N) = Sum(f, K)
  <2>1. \A l \in K : f[l] \in Int /\ h[g[l]] = f[l]
    OBVIOUS
  <2> QED BY <1>2, <2>1, SumOfImages
<1>4. Sum(h, R \cup N) = Sum(h, R) + Sum(h, N) /\ IsFiniteSet(R \cup N)
  <2>1. R \cap N = {} /\ \A l \in R \cup N : h[l] \in Int
    BY <1>1
  <2>2. IsFiniteSet(R \cup N)
    BY <1>2, <1>3, FS_Union
  <2>3. Sum(h, R \cup N) = Sum(h, R) + Sum(h, N)
    BY <1>2, <1>3, <2>1, SumUnion
  <2> QED BY <2>2, <2>3
<1>5. Sum(h, L) = Sum(h, R) + Sum(h, S)
  <2>1. R \cup S = L /\ R \cap S = {} /\ \A l \in R \cup S : h[l] \in Int
    BY <1>1
  <2>2. Sum(h, R \cup S) = Sum(h, R) + Sum(h, S)
    BY <1>2, <2>1, SumUnion
  <2> QED BY <2>1, <2>2
<1>6. Sum(h, R) \in Int /\ Sum(h, S) \in Int /\ Sum(h, N) \in Int
  <2>1. (\A l \in R : h[l] \in Int) /\ (\A l \in S : h[l] \in Int) /\ \A l \in N : h[l] \in Int
    BY <1>1
  <2> QED BY <1>2, <1>3, <2>1, SumIsInt
<1>7. Sum(h, R \cup N) = (Sum(h, L) - Sum(h, S)) + Sum(f, K)
  BY <1>3, <1>4, <1>5, <1>6
<1> QED BY <1>1, <1>4, <1>7

\* A sum of quantities, taken over a part of U.
LEMMA QuantityIs ==
    ASSUME NEW U, NEW X \in SUBSET U, IsFiniteSet(X)
    PROVE  QuantityOf(X) = Sum([l \in U |-> l.quantity], X)
<1> DEFINE f == [l \in X |-> l.quantity]
           h == [l \in U |-> l.quantity]
<1>1. QuantityOf(X) = Sum(f, X)
  BY DEF QuantityOf, SumFunction, Sum
<1>2. \A l \in X : f[l] = h[l]
  OBVIOUS
<1> HIDE DEF f, h
<1>3. Sum(f, X) = Sum(h, X)
  BY <1>2, SumSame
<1> QED BY <1>1, <1>3 DEF h

\* The lots of a portfolio, one of each name.
LotsAre(L) == /\ L \subseteq Lot /\ IsFiniteSet(L)
              /\ \A l, m \in L : SameName(l, m) => l = m

\* The lots S of L are replaced by what some of them, K, become.
Replaces(L, S, K, quantity, cost, M) ==
    /\ LotsAre(L)
    /\ S \subseteq L /\ K \subseteq S
    /\ \A l \in K : quantity[l] \in Nat \ {0} /\ cost[l] \in Nat
    /\ M = (L \ S) \cup Changed(K, quantity, cost)

\* The names stay, and cost and quantity change by what the change says.
LEMMA LotsChange ==
    ASSUME NEW L, NEW S, NEW K, NEW quantity, NEW cost, NEW M,
           Replaces(L, S, K, quantity, cost, M)
    PROVE  /\ LotsAre(M)
           /\ \A m \in M : \E l \in L : SameName(l, m)
           /\ CostOf(M) = (CostOf(L) - CostOf(S)) + Sum(cost, K)
           /\ QuantityOf(M) = (QuantityOf(L) - QuantityOf(S)) + Sum(quantity, K)
<1>0. /\ L \in SUBSET Lot /\ IsFiniteSet(L) /\ S \in SUBSET L /\ K \in SUBSET S
      /\ \A l, m \in L : SameName(l, m) => l = m
      /\ \A l \in K : quantity[l] \in Nat \ {0} /\ cost[l] \in Nat
      /\ M = (L \ S) \cup Changed(K, quantity, cost)
  BY DEF Replaces, LotsAre
<1> USE <1>0
<1>1. PICK g : g = [l \in K |-> [l EXCEPT !.quantity = quantity[l], !.cost = cost[l]]]
  OBVIOUS
<1>2. PICK N : N = {g[l] : l \in K}
  OBVIOUS
<1>3. \A l \in K : /\ g[l] \in Lot /\ SameName(l, g[l])
                   /\ g[l].cost = cost[l] /\ g[l].quantity = quantity[l]
  <2>1. ASSUME NEW l \in K
        PROVE  g[l] \in Lot /\ SameName(l, g[l]) /\ g[l].cost = cost[l]
               /\ g[l].quantity = quantity[l]
    <3>1. l \in Lot /\ g[l] = [l EXCEPT !.quantity = quantity[l], !.cost = cost[l]]
      BY <1>1
    <3> QED BY <3>1 DEF Lot, SameName
  <2> QED BY <2>1
<1>4. M = (L \ S) \cup N
  <2>1. N = Changed(K, quantity, cost)
    BY <1>1, <1>2 DEF Changed
  <2> QED BY <2>1
<1>5. \A l, m \in K : g[l] = g[m] => l = m
  <2>1. ASSUME NEW l \in K, NEW m \in K, g[l] = g[m] PROVE l = m
    <3>1. SameName(l, m)
      BY <1>3, <2>1 DEF SameName
    <3> QED BY <3>1
  <2> QED BY <2>1
<1>6. (L \ S) \cap N = {}
  <2>1. ASSUME NEW l \in K, g[l] \in L PROVE g[l] \in S
    <3>1. l \in L /\ SameName(l, g[l])
      BY <1>3
    <3>2. l = g[l]
      BY <2>1, <3>1
    <3> QED BY <3>2
  <2> QED BY <1>2, <2>1
<1>7. PICK U : U = L \cup N
  OBVIOUS
<1>8. PICK h : h = [l \in U |-> l.cost]
  OBVIOUS
<1>9. PICK k : k = [l \in U |-> l.quantity]
  OBVIOUS
<1>10. U \subseteq Lot
  BY <1>2, <1>3, <1>7
<1>11. /\ \A l \in L \cup N : h[l] \in Int
       /\ \A l \in L \cup N : k[l] \in Int
       /\ \A l \in K : h[g[l]] = cost[l]
       /\ \A l \in K : k[g[l]] = quantity[l]
  <2>1. \A l \in U : l.cost \in Int /\ l.quantity \in Int
    BY <1>10 DEF Lot
  <2>2. \A l \in K : g[l] \in U
    BY <1>2, <1>7
  <2> QED BY <1>3, <1>7, <1>8, <1>9, <2>1, <2>2
<1>12. /\ IsFiniteSet(M)
       /\ Sum(h, M) = (Sum(h, L) - Sum(h, S)) + Sum(cost, K)
       /\ Sum(k, M) = (Sum(k, L) - Sum(k, S)) + Sum(quantity, K)
  <2>1. Renews(L, S, K, g, M)
    BY <1>2, <1>4, <1>5, <1>6 DEF Renews
  <2>2. (\A l \in L \cup M : h[l] \in Int) /\ \A l \in L \cup M : k[l] \in Int
    BY <1>4, <1>11
  <2>3. IsFiniteSet(M) /\ Sum(h, M) = (Sum(h, L) - Sum(h, S)) + Sum(cost, K)
    BY <1>11, <2>1, <2>2, SumChange
  <2>4. Sum(k, M) = (Sum(k, L) - Sum(k, S)) + Sum(quantity, K)
    BY <1>11, <2>1, <2>2, SumChange
  <2> QED BY <2>3, <2>4
<1>13. /\ CostOf(M) = Sum(h, M) /\ CostOf(L) = Sum(h, L) /\ CostOf(S) = Sum(h, S)
       /\ QuantityOf(M) = Sum(k, M) /\ QuantityOf(L) = Sum(k, L) /\ QuantityOf(S) = Sum(k, S)
  <2>1. M \in SUBSET U /\ L \in SUBSET U /\ S \in SUBSET U
    BY <1>4, <1>7
  <2>2. IsFiniteSet(S)
    BY FS_Subset
  <2> QED BY <1>8, <1>9, <1>12, <2>1, <2>2, CostIs, QuantityIs
<1>14. M \subseteq Lot
  BY <1>4, <1>7, <1>10
<1>15. \A m \in M : m \in L \ S \/ \E l \in K : m = g[l]
  BY <1>2, <1>4
<1>16. \A m \in M : \E l \in L : SameName(l, m)
  <2>1. \A m \in L \ S : SameName(m, m)
    BY DEF SameName
  <2> QED BY <1>3, <1>15, <2>1
<1>17. \A l, m \in M : SameName(l, m) => l = m
  <2>1. ASSUME NEW l \in M, NEW m \in M, SameName(l, m) PROVE l = m
    <3>1. CASE l \in L \ S /\ m \in L \ S
      BY <2>1, <3>1
    <3>2. ASSUME NEW j \in K, l = g[j], m \in L \ S PROVE FALSE
      <4>1. SameName(j, m)
        BY <1>3, <2>1, <3>2 DEF SameName
      <4> QED BY <3>2, <4>1
    <3>3. ASSUME NEW j \in K, m = g[j], l \in L \ S PROVE FALSE
      <4>1. SameName(l, j)
        BY <1>3, <2>1, <3>3 DEF SameName
      <4> QED BY <3>3, <4>1
    <3>4. ASSUME NEW i \in K, NEW j \in K, l = g[i], m = g[j] PROVE l = m
      <4>1. SameName(i, j)
        BY <1>3, <2>1, <3>4 DEF SameName
      <4> QED BY <3>4, <4>1
    <3> QED BY <1>15, <3>1, <3>2, <3>3, <3>4
  <2> QED BY <2>1
<1>18. CostOf(M) = (CostOf(L) - CostOf(S)) + Sum(cost, K)
  BY <1>12, <1>13
<1>19. QuantityOf(M) = (QuantityOf(L) - QuantityOf(S)) + Sum(quantity, K)
  BY <1>12, <1>13
<1> QED BY <1>12, <1>14, <1>16, <1>17, <1>18, <1>19 DEF LotsAre

\* One more, of a name that no lot has.
LEMMA LotAdded ==
    ASSUME NEW L \in SUBSET Lot, IsFiniteSet(L), NEW m \in Lot,
           \A l, k \in L : SameName(l, k) => l = k, \A l \in L : ~SameName(l, m)
    PROVE  LET M == L \cup {m}
           IN  /\ M \subseteq Lot /\ IsFiniteSet(M)
               /\ \A l, k \in M : SameName(l, k) => l = k
               /\ CostOf(M) = CostOf(L) + m.cost
               /\ QuantityOf(M) = QuantityOf(L) + m.quantity
<1> DEFINE M == L \cup {m}
           h == [l \in M |-> l.cost]
           k == [l \in M |-> l.quantity]
<1>1. m \notin L
  BY DEF SameName
<1>2. IsFiniteSet(M)
  BY FS_AddElement
<1>3. \A l \in M : h[l] \in Int /\ k[l] \in Int
  BY DEF Lot
<1>4. h[m] = m.cost /\ k[m] = m.quantity
  OBVIOUS
<1>5. /\ CostOf(M) = Sum(h, M) /\ CostOf(L) = Sum(h, L)
      /\ QuantityOf(M) = Sum(k, M) /\ QuantityOf(L) = Sum(k, L)
  <2>1. M \in SUBSET M /\ L \in SUBSET M
    OBVIOUS
  <2> HIDE DEF M
  <2> QED BY <1>2, <2>1, CostIs, QuantityIs
<1> HIDE DEF h, k
<1>6. Sum(h, M) = h[m] + Sum(h, L) /\ Sum(h, L) \in Int /\ h[m] \in Int
  BY <1>1, <1>3, SumAdd, SumIsInt
<1>7. Sum(k, M) = k[m] + Sum(k, L) /\ Sum(k, L) \in Int /\ k[m] \in Int
  BY <1>1, <1>3, SumAdd, SumIsInt
<1>8. \A l \in L : ~SameName(m, l)
  BY DEF SameName
<1> QED BY <1>2, <1>4, <1>5, <1>6, <1>7, <1>8

-----------------------------------------------------------------------------
(* Shares in proportion.                                                   *)

\* A sum of multiples.
LEMMA SumTimes ==
    ASSUME NEW S, IsFiniteSet(S), NEW c \in Int, NEW f, NEW h,
           \A x \in S : f[x] \in Int /\ h[x] = c * f[x]
    PROVE  Sum(h, S) = c * Sum(f, S)
<1> DEFINE P == {T \in SUBSET S : Sum(h, T) = c * Sum(f, T)}
<1>1. ASSUME NEW T \in SUBSET S, \A x \in T : T \ {x} \in P PROVE T \in P
  <2>1. CASE T = {}
    <3>1. Sum(h, T) = 0 /\ Sum(f, T) = 0
      BY <2>1, SumEmpty
    <3> QED BY <3>1
  <2>2. CASE T # {}
    <3>1. PICK x \in T : TRUE
      BY <2>2
    <3>2. IsFiniteSet(T) /\ IsFiniteSet(T \ {x})
      BY Subsets, FS_Subset
    <3>3. \A y \in S : h[y] \in Int
      OBVIOUS
    <3>4. Sum(h, T) = h[x] + Sum(h, T \ {x}) /\ Sum(f, T) = f[x] + Sum(f, T \ {x})
      BY <3>2, <3>3, SumRemove
    <3>5. Sum(h, T \ {x}) = c * Sum(f, T \ {x})
      BY <1>1
    <3>6. Sum(f, T \ {x}) \in Int /\ f[x] \in Int /\ h[x] = c * f[x]
      BY <3>2, SumIsInt
    <3>7. \A a, b \in Int : c * a + c * b = c * (a + b)
      OBVIOUS
    <3> QED BY <3>4, <3>5, <3>6, <3>7
  <2> QED BY <2>1, <2>2
<1>2. SUBSET S \subseteq P
  <2> HIDE DEF P
  <2> QED BY <1>1, SmallerFirst
<1> QED BY <1>2

\* A sum of ones and zeros counts the ones.
LEMMA SumCounts ==
    ASSUME NEW S, IsFiniteSet(S), NEW f, \A x \in S : f[x] \in {0, 1}
    PROVE  Sum(f, S) = Cardinality({x \in S : f[x] = 1})
<1> DEFINE Ones(T) == {x \in T : f[x] = 1}
           P == {T \in SUBSET S : Sum(f, T) = Cardinality(Ones(T))}
<1>1. ASSUME NEW T \in SUBSET S, \A x \in T : T \ {x} \in P PROVE T \in P
  <2>1. CASE T = {}
    <3>1. Sum(f, T) = 0 /\ Ones(T) = {}
      BY <2>1, SumEmpty
    <3> QED BY <3>1, FS_EmptySet
  <2>2. CASE T # {}
    <3>1. PICK x \in T : TRUE
      BY <2>2
    <3>2. IsFiniteSet(T) /\ IsFiniteSet(Ones(T)) /\ Cardinality(Ones(T)) \in Nat
      <4>1. Ones(T) \in SUBSET S
        OBVIOUS
      <4> QED BY <4>1, Subsets
    <3>3. \A y \in S : f[y] \in Int
      OBVIOUS
    <3>4. Sum(f, T) = f[x] + Sum(f, T \ {x})
      BY <3>2, <3>3, SumRemove
    <3>5. Sum(f, T \ {x}) = Cardinality(Ones(T \ {x}))
      BY <1>1
    <3>6. CASE f[x] = 1
      <4>1. Ones(T \ {x}) = Ones(T) \ {x} /\ x \in Ones(T)
        BY <3>6
      <4>2. Cardinality(Ones(T) \ {x}) = Cardinality(Ones(T)) - 1
        BY <3>2, <4>1, FS_RemoveElement
      <4> HIDE DEF Ones
      <4>3. PICK c \in Nat : c = Cardinality(Ones(T))
        BY <3>2
      <4>4. Sum(f, T \ {x}) = c - 1
        BY <3>5, <4>1, <4>2, <4>3
      <4>5. Sum(f, T) = c
        BY <3>4, <3>6, <4>3, <4>4
      <4> QED BY <4>3, <4>5
    <3>7. CASE f[x] = 0
      <4>1. Ones(T \ {x}) = Ones(T)
        BY <3>7
      <4> HIDE DEF Ones
      <4> QED BY <3>2, <3>4, <3>5, <3>7, <4>1
    <3> QED BY <3>6, <3>7
  <2> QED BY <2>1, <2>2
<1>2. SUBSET S \subseteq P
  <2> HIDE DEF P
  <2> QED BY <1>1, SmallerFirst
<1> QED BY <1>2

\* The numbers below n.
LEMMA UpTo ==
    ASSUME NEW n \in Nat
    PROVE  IsFiniteSet(0..n - 1) /\ Cardinality(0..n - 1) = n
<1>1. PICK m \in Int : m = n - 1
  OBVIOUS
<1>2. 0 \in Int /\ (0 > m => n = 0) /\ (~(0 > m) => (m - 0) + 1 = n)
  BY <1>1
<1>3. IsFiniteSet(0..m) /\ Cardinality(0..m) = IF 0 > m THEN 0 ELSE m - 0 + 1
  BY FS_Interval
<1> QED BY <1>1, <1>2, <1>3

\* If different elements have different ranks, below their number, there is one of
\* every rank.
LEMMA RanksAreTaken ==
    ASSUME NEW S, IsFiniteSet(S), NEW r, \A l \in S : r[l] \in 0..Cardinality(S) - 1,
           \A l, m \in S : r[l] = r[m] => l = m, NEW k \in 0..Cardinality(S)
    PROVE  Cardinality({l \in S : r[l] < k}) = k
<1>1. Cardinality(S) \in Nat
  BY FS_CardinalityType
<1>2. PICK n \in Nat : n = Cardinality(S)
  BY <1>1
<1>3. PICK g : g = [l \in S |-> r[l]]
  OBVIOUS
<1>4. g \in Injection(S, 0..n - 1)
  BY <1>2, <1>3 DEF Injection, IsInjective
<1>5. IsFiniteSet(0..n - 1) /\ Cardinality(0..n - 1) = n
  BY UpTo
<1>6. g \in Surjection(S, 0..n - 1)
  BY <1>2, <1>4, <1>5, FS_Injection
<1>7. \A j \in 0..n - 1 : \E l \in S : r[l] = j
  BY <1>3, <1>6 DEF Surjection
<1>8. PICK A : A = {l \in S : r[l] < k}
  OBVIOUS
<1>9. PICK h : h = [l \in A |-> r[l]]
  OBVIOUS
<1>10. h \in Injection(A, 0..k - 1)
  BY <1>1, <1>8, <1>9 DEF Injection, IsInjective
<1>11. h \in Surjection(A, 0..k - 1)
  BY <1>2, <1>7, <1>8, <1>9 DEF Surjection
<1>12. IsFiniteSet(0..k - 1) /\ Cardinality(0..k - 1) = k
  BY <1>1, UpTo
<1>13. Cardinality(A) = Cardinality(0..k - 1)
  BY <1>10, <1>11, <1>12, FS_Injection
<1> QED BY <1>8, <1>12, <1>13

\* The ranks in an order that is total: how many come before.
LEMMA RanksDiffer ==
    ASSUME NEW S, IsFiniteSet(S), NEW before, \A l \in S : before[l] \subseteq S,
           \A l \in S : l \notin before[l],
           \A l, m \in S : l = m \/ l \in before[m] \/ m \in before[l],
           \A l, m \in S : l \in before[m] => before[l] \subseteq before[m]
    PROVE  /\ \A l \in S : Cardinality(before[l]) \in 0..Cardinality(S) - 1
           /\ \A l, m \in S : Cardinality(before[l]) = Cardinality(before[m]) => l = m
<1>1. ASSUME NEW l \in S PROVE Cardinality(before[l]) \in 0..Cardinality(S) - 1
  <2>1. Cardinality(before[l]) \in Nat /\ Cardinality(S) \in Nat
    BY Subsets
  <2>2. before[l] \subseteq S \ {l} /\ IsFiniteSet(S \ {l})
    BY FS_Subset
  <2>3. Cardinality(before[l]) <= Cardinality(S \ {l})
    BY <2>2, FS_Subset
  <2>4. Cardinality(S \ {l}) = Cardinality(S) - 1
    BY FS_RemoveElement
  <2> QED BY <2>1, <2>3, <2>4
<1>2. ASSUME NEW l \in S, NEW m \in S, l \in before[m]
      PROVE  Cardinality(before[l]) < Cardinality(before[m])
  <2>1. Cardinality(before[l]) \in Nat /\ Cardinality(before[m]) \in Nat
        /\ IsFiniteSet(before[m])
    BY Subsets
  <2>2. before[l] \subseteq before[m] \ {l} /\ IsFiniteSet(before[m] \ {l})
    BY <1>2, <2>1, FS_Subset
  <2>3. Cardinality(before[l]) <= Cardinality(before[m] \ {l})
    BY <2>2, FS_Subset
  <2>4. Cardinality(before[m] \ {l}) = Cardinality(before[m]) - 1
    BY <1>2, <2>1, FS_RemoveElement
  <2> QED BY <2>1, <2>3, <2>4
<1>3. \A l \in S : Cardinality(before[l]) \in Nat
  BY <1>1
<1>4. ASSUME NEW l \in S, NEW m \in S, Cardinality(before[l]) = Cardinality(before[m])
      PROVE  l = m
  <2>1. ~(l \in before[m]) /\ ~(m \in before[l])
    BY <1>2, <1>3, <1>4
  <2> QED BY <2>1
<1> QED BY <1>1, <1>4

\* The lots of S that have a fraction, and those that come before l in the order of
\* their fractions.
Fractional(S, f) == {l \in S : f[l] # 0}
Preferred(S, f, l) == {m \in S : f[m] > f[l] \/ (f[m] = f[l] /\ LotId(m) < LotId(l))}

\* The remainders of a division by q of which some are not zero, m of them: what
\* they make up is less than m wholes.
LEMMA SpareIsFew ==
    ASSUME NEW S, IsFiniteSet(S), NEW q \in Nat \ {0}, NEW f, \A l \in S : f[l] \in 0..q - 1
    PROVE  /\ Sum(f, S) \in Nat
           /\ Sum(f, S) <= q * Cardinality(Fractional(S, f))
<1>1. PICK o : o = [l \in S |-> IF f[l] # 0 THEN 1 ELSE 0]
  OBVIOUS
<1>2. PICK g : g = [l \in S |-> q * o[l]]
  OBVIOUS
<1>3. PICK h : h = [l \in S |-> g[l] - f[l]]
  OBVIOUS
<1>4. Sum(f, S) \in Nat
  BY SumIsNat
<1>5. \A l \in S : f[l] \in Int /\ o[l] \in {0, 1} /\ g[l] = q * o[l] /\ g[l] \in Int
                   /\ h[l] \in Nat /\ g[l] = f[l] + h[l]
  BY <1>1, <1>2, <1>3
<1>6. Sum(o, S) = Cardinality({l \in S : o[l] = 1})
  BY <1>5, SumCounts
<1>7. Sum(o, S) = Cardinality(Fractional(S, f))
  <2>1. {l \in S : o[l] = 1} = Fractional(S, f)
    BY <1>1 DEF Fractional
  <2> QED BY <1>6, <2>1
<1>8. Sum(g, S) = q * Sum(o, S)
  BY <1>5, SumTimes
<1>9. Sum(g, S) = Sum(f, S) + Sum(h, S)
  BY <1>5, SumPlus
<1>10. Sum(h, S) \in Nat
  BY <1>5, SumIsNat
<1>11. PICK c : c = q * Cardinality(Fractional(S, f))
  OBVIOUS
<1>12. c = Sum(f, S) + Sum(h, S)
  BY <1>7, <1>8, <1>9, <1>11
<1>13. Sum(f, S) <= c
  BY <1>4, <1>10, <1>12
<1> QED BY <1>4, <1>11, <1>13

\* The order in which a split hands out the shares that are left over.
LEMMA FractionsInOrder ==
    ASSUME NEW S, S \subseteq Lot, \A l, m \in S : SameName(l, m) => l = m,
           \A l, m \in S : l.instrument = m.instrument,
           NEW f, \A l \in S : f[l] \in Int, NEW before,
           \A l \in S : before[l] = Preferred(S, f, l)
    PROVE  /\ \A l \in S : before[l] \subseteq S /\ l \notin before[l]
           /\ \A l, m \in S : l = m \/ l \in before[m] \/ m \in before[l]
           /\ \A l, m \in S : l \in before[m] => before[l] \subseteq before[m]
<1>1. \A l \in S : LotId(l) \in Int /\ <<l.acquired, l.source>> \in Days \X ({0} \cup ActionIds)
  <2>1. ASSUME NEW l \in S
        PROVE LotId(l) \in Int /\ <<l.acquired, l.source>> \in Days \X ({0} \cup ActionIds)
    <3>1. l.acquired \in Days /\ l.source \in {0} \cup ActionIds
      BY DEF Lot
    <3>2. <<l.acquired, l.source>> \in Days \X ({0} \cup ActionIds)
      BY <3>1
    <3> QED BY <3>2, DigestsAssumption DEF LotId
  <2> QED BY <2>1
<1>2. ASSUME NEW l \in S, NEW m \in S, LotId(l) = LotId(m) PROVE l = m
  <2>1. <<l.acquired, l.source>> = <<m.acquired, m.source>>
    BY <1>1, <1>2, DigestsAssumption DEF LotId
  <2> QED BY <2>1 DEF SameName
<1>3. \A l, m \in S : l \in before[m] <=>
        (f[l] > f[m] \/ (f[l] = f[m] /\ LotId(l) < LotId(m)))
  BY DEF Preferred
<1>4. \A l \in S : before[l] \subseteq S
  BY DEF Preferred
<1>a. \A l \in S : f[l] \in Int /\ LotId(l) \in Int
  BY <1>1
<1>5. \A l \in S : l \notin before[l]
  <2>1. ASSUME NEW l \in S PROVE l \notin before[l]
    <3>1. ~(f[l] > f[l]) /\ ~(LotId(l) < LotId(l))
      BY <1>a
    <3> QED BY <1>3, <3>1
  <2> QED BY <2>1
<1>6. \A l, m \in S : l = m \/ l \in before[m] \/ m \in before[l]
  <2>1. ASSUME NEW l \in S, NEW m \in S, l # m PROVE l \in before[m] \/ m \in before[l]
    <3>1. LotId(l) # LotId(m)
      BY <1>2, <2>1
    <3>2. f[l] > f[m] \/ f[m] > f[l] \/ (f[l] = f[m] /\ f[m] = f[l])
      BY <1>a
    <3>3. LotId(l) < LotId(m) \/ LotId(m) < LotId(l)
      BY <1>a, <3>1
    <3> QED BY <1>3, <3>2, <3>3
  <2> QED BY <2>1
<1>7. \A l, m, k \in S : k \in before[l] /\ l \in before[m] => k \in before[m]
  <2>1. ASSUME NEW l \in S, NEW m \in S, NEW k \in S, k \in before[l], l \in before[m]
        PROVE  k \in before[m]
    <3>1. PICK a \in Int, b \in Int, c \in Int : a = f[l] /\ b = f[m] /\ c = f[k]
      BY <1>a
    <3>2. PICK x \in Int, y \in Int, z \in Int : x = LotId(l) /\ y = LotId(m) /\ z = LotId(k)
      BY <1>a
    <3>3. (c > a \/ (c = a /\ z < x)) /\ (a > b \/ (a = b /\ x < y))
      BY <1>3, <2>1, <3>1, <3>2
    <3>4. c > b \/ (c = b /\ z < y)
      BY <3>3
    <3> QED BY <1>3, <3>1, <3>2, <3>4
  <2> QED BY <2>1
<1> QED BY <1>4, <1>5, <1>6, <1>7

\* What a split leaves adds up to the rounded total, and each lot has its part to
\* within a share (_apply_split).
LEMMA SplitTotal ==
    ASSUME NEW S, S \subseteq Lot, IsFiniteSet(S),
           \A l, m \in S : SameName(l, m) => l = m,
           \A l, m \in S : l.instrument = m.instrument,
           NEW ratio, ratio[1] \in Nat, ratio[2] \in Nat \ {0}
    PROVE  LET quantity == SplitQuantities(S, ratio)
           IN  /\ Sum(quantity, S) = (QuantityOf(S) * ratio[1]) \div ratio[2]
               /\ \A l \in S : LET gap == l.quantity * ratio[1] - quantity[l] * ratio[2]
                               IN  -ratio[2] < gap /\ gap < ratio[2]
<1> DEFINE whole(l) == (l.quantity * ratio[1]) \div ratio[2]
           fraction(l) == (l.quantity * ratio[1]) % ratio[2]
           target == (QuantityOf(S) * ratio[1]) \div ratio[2]
           spare == target - SumFunction([l \in S |-> whole(l)])
           ahead(l) == {m \in S : \/ fraction(m) > fraction(l)
                                  \/ fraction(m) = fraction(l) /\ LotId(m) < LotId(l)}
           quantity == SplitQuantities(S, ratio)
<1>1. quantity = [l \in S |-> whole(l) + (IF Cardinality(ahead(l)) < spare THEN 1 ELSE 0)]
  BY DEF SplitQuantities
<1>2. PICK w : w = [l \in S |-> whole(l)]
  OBVIOUS
<1>3. PICK f : f = [l \in S |-> fraction(l)]
  OBVIOUS
<1>4. PICK before : before = [l \in S |-> ahead(l)]
  OBVIOUS
<1>5. PICK s : s = spare
  OBVIOUS
<1>6. PICK one : one = [l \in S |-> IF Cardinality(before[l]) < s THEN 1 ELSE 0]
  OBVIOUS
<1>7. PICK p \in Nat : p = ratio[1]
  OBVIOUS
<1>8. PICK q \in Nat \ {0} : q = ratio[2]
  OBVIOUS
<1>9. PICK x : x = [l \in S |-> l.quantity]
  OBVIOUS
<1>10. PICK y : y = [l \in S |-> p * x[l]]
  OBVIOUS
<1>11. PICK n : n = QuantityOf(S)
  OBVIOUS
<1>12. \A l \in S : /\ before[l] = Preferred(S, f, l)
                    /\ quantity[l] = w[l] + one[l]
  BY <1>1, <1>3, <1>2, <1>4, <1>5, <1>6 DEF Preferred
<1>13. s = (n * p) \div q - Sum(w, S)
  BY <1>2, <1>5, <1>7, <1>8, <1>11 DEF Sum, SumFunction
<1>14. \A l \in S : one[l] \in {0, 1} /\ (one[l] = 1 <=> Cardinality(before[l]) < s)
  BY <1>6
<1>15. \A l \in S : /\ x[l] \in Nat /\ y[l] = p * x[l] /\ y[l] \in Nat
                    /\ w[l] \in Int /\ f[l] \in 0..q - 1 /\ y[l] = q * w[l] + f[l]
                    /\ x[l] = l.quantity
  <2>1. ASSUME NEW l \in S
        PROVE  /\ x[l] \in Nat /\ y[l] = p * x[l] /\ y[l] \in Nat
               /\ w[l] \in Int /\ f[l] \in 0..q - 1 /\ y[l] = q * w[l] + f[l]
               /\ x[l] = l.quantity
    <3>1. x[l] \in Nat /\ x[l] = l.quantity
      BY <1>9 DEF Lot
    <3>2. y[l] = p * x[l] /\ y[l] \in Nat
      BY <1>10, <3>1
    <3>3. w[l] = y[l] \div q /\ f[l] = y[l] % q
      BY <1>2, <1>3, <1>7, <1>8, <3>1, <3>2
    <3>4. \A a \in Nat : a \div q \in Int /\ a % q \in 0..q - 1 /\ a = q * (a \div q) + (a % q)
      OBVIOUS
    <3> QED BY <3>1, <3>2, <3>3, <3>4
  <2> QED BY <2>1
<1> HIDE DEF quantity, whole, fraction, target, spare, ahead
<1>16. QuantityOf(S) = Sum(x, S) /\ Sum(x, S) \in Nat
  BY <1>9, <1>15, SumIsNat DEF QuantityOf, Sum, SumFunction
<1>17. Sum(y, S) = p * Sum(x, S)
  BY <1>15, SumTimes
<1>18. Sum(w, S) \in Int /\ Sum(y, S) = q * Sum(w, S) + Sum(f, S)
  <2>1. PICK z : z = [l \in S |-> q * w[l]]
    OBVIOUS
  <2>2. \A l \in S : z[l] = q * w[l] /\ z[l] \in Int /\ f[l] \in Int /\ w[l] \in Int
                     /\ y[l] = z[l] + f[l]
    BY <1>15, <2>1
  <2>3. Sum(z, S) = q * Sum(w, S) /\ Sum(y, S) = Sum(z, S) + Sum(f, S)
    BY <2>2, SumTimes, SumPlus
  <2> QED BY <2>2, <2>3, SumIsInt
<1>19. PICK F : F = Fractional(S, f)
  OBVIOUS
<1>20. Sum(f, S) \in Nat /\ Sum(f, S) <= q * Cardinality(F) /\ Cardinality(F) \in Nat
       /\ Cardinality(F) <= Cardinality(S) /\ Cardinality(S) \in Nat
  <2>1. F \in SUBSET S
    BY <1>19 DEF Fractional
  <2>2. Cardinality(F) \in Nat /\ Cardinality(F) <= Cardinality(S) /\ Cardinality(S) \in Nat
    BY <2>1, Subsets, FS_Subset
  <2> QED BY <1>15, <1>19, <2>2, SpareIsFew
<1>21. s \in 0..Cardinality(F) /\ n * p \in Int
  <2>1. PICK t \in Int : t = (n * p) \div q /\ n * p \in Nat /\ n * p = Sum(y, S)
    <3>1. n * p \in Nat /\ n * p = Sum(y, S)
      BY <1>11, <1>16, <1>17
    <3> QED BY <3>1, Division
  <2>2. PICK u \in Int : u = Sum(w, S)
    BY <1>18
  <2>3. PICK g \in Nat : g = Sum(f, S)
    BY <1>20
  <2>4. PICK c \in Nat : c = Cardinality(F)
    BY <1>20
  <2>5. q * t <= q * u + g /\ q * u + g < q * t + q
    <3>1. q * t <= n * p /\ n * p < q * t + q
      BY <2>1, Division
    <3> QED BY <1>18, <2>1, <2>2, <2>3, <3>1
  <2>6. g <= q * c /\ s = t - u
    BY <1>13, <1>20, <2>1, <2>2, <2>3, <2>4
  <2>7. q * s <= g /\ g < q * s + q
    <3>1. q * s = q * t - q * u
      BY <2>6
    <3> QED BY <2>5, <3>1
  <2>8. s \in Int /\ (s < 0 => q * s + q <= 0) /\ (s > c => q * s >= q * c + q)
    <3>1. s \in Int
      BY <2>6
    <3>2. \A a \in Int : a < 0 => q * a + q <= 0
      <4>1. \A a \in Int : q * a + q = q * (a + 1)
        OBVIOUS
      <4>2. \A a \in Int : a <= 0 => q * a <= 0
        OBVIOUS
      <4> QED BY <4>1, <4>2
    <3>3. \A a \in Int : a > c => q * a >= q * c + q
      <4>1. \A a \in Int : a >= c + 1 => q * a >= q * (c + 1)
        OBVIOUS
      <4>2. q * (c + 1) = q * c + q
        OBVIOUS
      <4> QED BY <4>1, <4>2
    <3> QED BY <3>1, <3>2, <3>3
  <2>9. s \in 0..c
    BY <2>6, <2>7, <2>8
  <2> QED BY <2>1, <2>4, <2>9
<1>22. /\ \A l \in S : Cardinality(before[l]) \in 0..Cardinality(S) - 1
       /\ \A l, m \in S : Cardinality(before[l]) = Cardinality(before[m]) => l = m
  <2>1. /\ \A l \in S : before[l] \subseteq S /\ l \notin before[l]
        /\ \A l, m \in S : l = m \/ l \in before[m] \/ m \in before[l]
        /\ \A l, m \in S : l \in before[m] => before[l] \subseteq before[m]
    <3>1. \A l \in S : f[l] \in Int
      BY <1>15
    <3>2. \A l \in S : before[l] = Preferred(S, f, l)
      BY <1>12
    <3> QED BY <3>1, <3>2, FractionsInOrder
  <2> QED BY <2>1, RanksDiffer
<1>23. Sum(one, S) = s
  <2>1. PICK r : r = [l \in S |-> Cardinality(before[l])]
    OBVIOUS
  <2>2. /\ \A l \in S : r[l] \in 0..Cardinality(S) - 1
        /\ \A l, m \in S : r[l] = r[m] => l = m
    BY <1>22, <2>1
  <2>3. s \in 0..Cardinality(S)
    BY <1>20, <1>21
  <2>4. Cardinality({l \in S : r[l] < s}) = s
    BY <2>2, <2>3, RanksAreTaken
  <2>5. {l \in S : one[l] = 1} = {l \in S : r[l] < s}
    BY <1>14, <2>1
  <2>6. Sum(one, S) = Cardinality({l \in S : one[l] = 1})
    BY <1>14, SumCounts
  <2> QED BY <2>4, <2>5, <2>6
<1>24. Sum(quantity, S) = (n * p) \div q
  <2>1. \A l \in S : w[l] \in Int /\ one[l] \in Int /\ quantity[l] = w[l] + one[l]
    BY <1>12, <1>14, <1>15
  <2>2. Sum(quantity, S) = Sum(w, S) + Sum(one, S)
    BY <2>1, SumPlus
  <2>3. (n * p) \div q \in Int
    BY <1>21, Division
  <2> QED BY <1>13, <1>18, <1>23, <2>2, <2>3
<1>25. ASSUME NEW l \in S, one[l] = 1 PROVE f[l] # 0
  <2>1. SUFFICES ASSUME f[l] = 0 PROVE FALSE
    OBVIOUS
  <2>2. F \subseteq before[l] /\ before[l] \in SUBSET S
    <3>1. before[l] = Preferred(S, f, l)
      BY <1>12
    <3>2. \A m \in S : f[m] # 0 => f[m] > f[l]
      BY <1>15, <2>1
    <3> QED BY <1>19, <3>1, <3>2 DEF Preferred, Fractional
  <2>3. IsFiniteSet(before[l]) /\ Cardinality(before[l]) \in Nat
    BY <2>2, Subsets
  <2>4. Cardinality(F) <= Cardinality(before[l])
    BY <2>2, <2>3, FS_Subset
  <2>5. Cardinality(before[l]) < s
    BY <1>14, <1>25
  <2> QED BY <1>20, <1>21, <2>3, <2>4, <2>5
<1>26. ASSUME NEW l \in S
       PROVE  -q < l.quantity * p - quantity[l] * q /\ l.quantity * p - quantity[l] * q < q
  <2>1. PICK a \in Int : a = w[l]
    BY <1>15
  <2>2. PICK b \in 0..q - 1 : b = f[l]
    BY <1>15
  <2>3. PICK e \in {0, 1} : e = one[l] /\ (e = 1 => b # 0)
    BY <1>14, <1>25, <2>2
  <2>4. quantity[l] = a + e /\ p * l.quantity = q * a + b /\ l.quantity \in Nat
    BY <1>12, <1>15, <2>1, <2>2, <2>3
  <2>5. (a + e) * q = q * a + q * e /\ q * e \in Int /\ q * a \in Int
        /\ (e = 0 => q * e = 0) /\ (e = 1 => q * e = q)
    BY <2>1, <2>3
  <2>6. l.quantity * p = q * a + b
    BY <2>4
  <2>7. l.quantity * p - quantity[l] * q = b - q * e
    BY <2>4, <2>5, <2>6
  <2>8. PICK d \in Int : d = q * e /\ (d = 0 \/ (d = q /\ b # 0))
    BY <2>3, <2>5
  <2>9. -q < b - d /\ b - d < q
    BY <2>2, <2>8
  <2> QED BY <2>7, <2>8, <2>9
<1> QED BY <1>7, <1>8, <1>11, <1>24, <1>26 DEF quantity
=============================================================================
