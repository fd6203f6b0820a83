----------------------------- MODULE SumLemmas -----------------------------
(***************************************************************************)
(* Sums over finite sets.  SumFunctionOnSet of the community modules is a  *)
(* fold that takes the elements in an order of CHOOSE's; what the proofs   *)
(* about shares and margin need is that the order does not matter.         *)
(*                                                                         *)
(* Induction is stated here for sets, not for predicates: a set of natural *)
(* numbers, or of subsets of a finite set, that is closed under a step.    *)
(***************************************************************************)
EXTENDS Integers, FiniteSets, Functions, FiniteSetTheorems, TLAPS

-----------------------------------------------------------------------------
(* Induction.                                                              *)

\* A set of natural numbers with 0 in it, and with every number the next one,
\* is all of them.
LEMMA SetInduction ==
  ASSUME NEW N \in SUBSET Nat, 0 \in N, \A n \in N : n + 1 \in N
  PROVE  N = Nat
<1> DEFINE T == Nat \ N
<1> SUFFICES ASSUME T # {} PROVE FALSE
  OBVIOUS
<1>1. T \subseteq Nat
  OBVIOUS
<1>2. PICK m \in T : \A n \in T : ~(<<n, m>> \in OpToRel(<, Nat))
  <2> HIDE DEF T
  <2> QED BY <1>1, NatLessThanWellFounded, WFMin
<1>3. \A n \in T : ~(n < m)
  BY <1>1, <1>2 DEF OpToRel
<1>4. m \in Nat /\ m # 0
  OBVIOUS
<1>5. m - 1 \in Nat /\ m - 1 < m /\ (m - 1) + 1 = m
  BY <1>4
<1>6. m - 1 \in N
  BY <1>3, <1>5
<1> QED BY <1>5, <1>6

\* A finite set that is not empty, without one of its elements.
LEMMA Fewer ==
  ASSUME NEW S, IsFiniteSet(S), NEW n \in Nat, Cardinality(S) = n + 1
  PROVE  /\ S # {}
         /\ \A x \in S : IsFiniteSet(S \ {x}) /\ Cardinality(S \ {x}) = n
<1>1. n + 1 # 0 /\ (n + 1) - 1 = n
  OBVIOUS
<1>2. S # {}
  BY <1>1, FS_EmptySet
<1>3. \A x \in S : IsFiniteSet(S \ {x})
                   /\ Cardinality(S \ {x}) = Cardinality(S) - 1
  BY FS_RemoveElement
<1> QED BY <1>1, <1>2, <1>3

\* A set of subsets of a finite set with the empty set in it, and with every
\* subset also those that have one element more, has the whole set in it.
LEMMA SubsetInduction ==
  ASSUME NEW S, IsFiniteSet(S), NEW P \in SUBSET (SUBSET S), {} \in P,
         \A T \in P : \A x \in S \ T : T \cup {x} \in P
  PROVE  S \in P
<1> DEFINE N == {n \in Nat : \A T \in SUBSET S : Cardinality(T) = n => T \in P}
<1>1. \A T \in SUBSET S : IsFiniteSet(T) /\ Cardinality(T) \in Nat
  BY FS_Subset, FS_CardinalityType
<1>2. 0 \in N
  BY <1>1, FS_EmptySet
<1>3. ASSUME NEW n \in N PROVE n + 1 \in N
  <2> SUFFICES ASSUME NEW T \in SUBSET S, Cardinality(T) = n + 1
               PROVE  T \in P
    OBVIOUS
  <2>1. T # {} /\ \A x \in T : Cardinality(T \ {x}) = n
    BY <1>1, Fewer
  <2>2. PICK x \in T : TRUE
    BY <2>1
  <2>3. Cardinality(T \ {x}) = n
    BY <2>1
  <2>4. T \ {x} \in P
    BY <2>3
  <2>5. T = (T \ {x}) \cup {x} /\ x \in S \ (T \ {x})
    OBVIOUS
  <2> QED BY <2>4, <2>5
<1>4. N = Nat
  <2> HIDE DEF N
  <2>1. N \in SUBSET Nat
    BY DEF N
  <2> QED BY <1>2, <1>3, <2>1, SetInduction
<1> QED BY <1>1, <1>4

-----------------------------------------------------------------------------
(* The fold.                                                               *)

\* The element the fold takes first.
First(s) == CHOOSE x \in s : TRUE

\* One turn of the fold, on what it gives for the smaller set.
Turn(f, g, s) == IF s = {} THEN 0 ELSE f[First(s)] + g[s \ {First(s)}]

\* The fold over all subsets of S.
IsFold(f, S, g) == g = [s \in SUBSET S |-> Turn(f, g, s)]
FoldOver(f, S) == CHOOSE g : IsFold(f, S, g)

\* A sum is the value of such a function.
LEMMA SumIsFold ==
  ASSUME NEW f, NEW S
  PROVE  SumFunctionOnSet(f, S) = FoldOver(f, S)[S]
BY DEF SumFunctionOnSet, FoldFunctionOnSet, MapThenFoldSet, Turn, First,
       IsFold, FoldOver

\* The first element is one.
LEMMA FirstIsIn ==
  ASSUME NEW s, s # {}
  PROVE  First(s) \in s
BY DEF First

\* There is such a function: subsets of n elements need those of fewer only.
LEMMA FoldExists ==
  ASSUME NEW f, NEW S, IsFiniteSet(S)
  PROVE  IsFold(f, S, FoldOver(f, S))
<1> DEFINE Level(n) == {s \in SUBSET S : Cardinality(s) <= n}
           N == {n \in Nat : \E g : g = [s \in Level(n) |-> Turn(f, g, s)]}
<1>1. \A s \in SUBSET S : IsFiniteSet(s) /\ Cardinality(s) \in Nat
  BY FS_Subset, FS_CardinalityType
<1>2. 0 \in N
  <2> DEFINE g == [s \in Level(0) |-> 0]
  <2>1. \A s \in Level(0) : s = {}
    BY <1>1, FS_EmptySet
  <2>2. \A s \in Level(0) : Turn(f, g, s) = 0
    BY <2>1 DEF Turn
  <2>3. g = [s \in Level(0) |-> Turn(f, g, s)]
    BY <2>2
  <2> QED BY <2>3
<1>3. ASSUME NEW n \in N PROVE n + 1 \in N
  <2>1. PICK g : g = [s \in Level(n) |-> Turn(f, g, s)]
    OBVIOUS
  <2> DEFINE h == [s \in Level(n + 1) |-> Turn(f, g, s)]
  <2>2. ASSUME NEW s \in Level(n + 1) PROVE Turn(f, h, s) = Turn(f, g, s)
    <3>1. CASE s = {}
      BY <3>1 DEF Turn
    <3>2. CASE s # {}
      <4> DEFINE r == s \ {First(s)}
      <4>1. r \in SUBSET S /\ Cardinality(r) = Cardinality(s) - 1
        BY <1>1, <3>2, FirstIsIn, FS_RemoveElement
      <4>2. r \in Level(n) /\ r \in Level(n + 1)
        BY <1>1, <4>1
      <4>3. h[r] = Turn(f, g, r) /\ g[r] = Turn(f, g, r)
        <5> HIDE DEF Level
        <5> QED BY <2>1, <4>2
      <4> QED BY <3>2, <4>3 DEF Turn
    <3> QED BY <3>1, <3>2
  <2>3. h = [s \in Level(n + 1) |-> Turn(f, h, s)]
    BY <2>2
  <2>4. n + 1 \in Nat
    OBVIOUS
  <2> HIDE DEF h
  <2> QED BY <2>3, <2>4
<1>4. N = Nat
  <2>1. N \in SUBSET Nat
    OBVIOUS
  <2> HIDE DEF N
  <2> QED BY <1>2, <1>3, <2>1, SetInduction
<1>5. Cardinality(S) \in N
  BY <1>1, <1>4
<1>6. Level(Cardinality(S)) = SUBSET S
  BY <1>1, FS_Subset
<1>7. \E g : IsFold(f, S, g)
  <2> HIDE DEF Level
  <2> QED BY <1>5, <1>6 DEF IsFold
<1> QED BY <1>7 DEF FoldOver

\* It gives a subset the same whatever set it is a subset of.
LEMMA FoldOfSubset ==
  ASSUME NEW f, NEW S, IsFiniteSet(S), NEW T \in SUBSET S
  PROVE  FoldOver(f, S)[T] = FoldOver(f, T)[T]
<1> DEFINE g == FoldOver(f, S)
           h == FoldOver(f, T)
           N == {n \in Nat : \A s \in SUBSET T :
                   Cardinality(s) = n => g[s] = h[s]}
<1>1. \A s \in SUBSET T : IsFiniteSet(s) /\ Cardinality(s) \in Nat
  BY FS_Subset, FS_CardinalityType
<1>2. \A s \in SUBSET T : g[s] = Turn(f, g, s) /\ h[s] = Turn(f, h, s)
  <2>1. IsFold(f, S, g) /\ IsFold(f, T, h)
    BY FS_Subset, FoldExists
  <2> HIDE DEF g, h
  <2> QED BY <2>1 DEF IsFold
<1> HIDE DEF g, h
<1>3. 0 \in N
  <2>1. \A s \in SUBSET T : Cardinality(s) = 0 => s = {}
    BY <1>1, FS_EmptySet
  <2> QED BY <1>2, <2>1 DEF Turn
<1>4. ASSUME NEW n \in N PROVE n + 1 \in N
  <2> SUFFICES ASSUME NEW s \in SUBSET T, Cardinality(s) = n + 1
               PROVE  g[s] = h[s]
    OBVIOUS
  <2>1. s # {} /\ \A x \in s : Cardinality(s \ {x}) = n
    BY <1>1, Fewer
  <2>2. Cardinality(s \ {First(s)}) = n
    BY <2>1, FirstIsIn
  <2>3. g[s \ {First(s)}] = h[s \ {First(s)}]
    BY <2>2
  <2> QED BY <1>2, <2>3 DEF Turn
<1>5. N = Nat
  <2>1. N \in SUBSET Nat
    OBVIOUS
  <2> HIDE DEF N
  <2> QED BY <1>3, <1>4, <2>1, SetInduction
<1> QED BY <1>1, <1>5 DEF g, h

-----------------------------------------------------------------------------
(* What is used of sums.                                                   *)

\* Nothing sums up to zero.
LEMMA SumOfNone ==
  ASSUME NEW f
  PROVE  SumFunctionOnSet(f, {}) = 0
<1>1. IsFold(f, {}, FoldOver(f, {}))
  BY FS_EmptySet, FoldExists
<1>2. FoldOver(f, {})[{}] = Turn(f, FoldOver(f, {}), {})
  BY <1>1 DEF IsFold
<1> QED BY <1>2, SumIsFold DEF Turn

\* The fold takes one element and goes on with the others.
LEMMA SumTakesFirst ==
  ASSUME NEW f, NEW S, IsFiniteSet(S), S # {}
  PROVE  SumFunctionOnSet(f, S) =
           f[First(S)] + SumFunctionOnSet(f, S \ {First(S)})
<1> DEFINE g == FoldOver(f, S)
           r == S \ {First(S)}
<1>1. IsFold(f, S, g)
  BY FoldExists
<1>2. g[S] = f[First(S)] + g[r]
  <2> HIDE DEF g
  <2>1. g[S] = Turn(f, g, S)
    BY <1>1 DEF IsFold
  <2> QED BY <2>1 DEF Turn
<1>3. g[r] = FoldOver(f, r)[r]
  BY FoldOfSubset
<1> HIDE DEF g, r
<1> QED BY <1>2, <1>3, SumIsFold DEF g, r

\* A sum of whole numbers is one.
LEMMA SumIsInt ==
  ASSUME NEW f, NEW S, IsFiniteSet(S), \A x \in S : f[x] \in Int
  PROVE  SumFunctionOnSet(f, S) \in Int
<1> DEFINE Sum(T) == SumFunctionOnSet(f, T)
           N == {n \in Nat : \A T \in SUBSET S :
                   Cardinality(T) = n => Sum(T) \in Int}
<1>1. \A T \in SUBSET S : IsFiniteSet(T) /\ Cardinality(T) \in Nat
  BY FS_Subset, FS_CardinalityType
<1>2. \A T \in SUBSET S : T # {} =>
        First(T) \in T /\ Sum(T) = f[First(T)] + Sum(T \ {First(T)})
  BY <1>1, FirstIsIn, SumTakesFirst
<1>3. Sum({}) = 0
  BY SumOfNone
<1> HIDE DEF Sum
<1>4. 0 \in N
  <2>1. \A T \in SUBSET S : Cardinality(T) = 0 => T = {}
    BY <1>1, FS_EmptySet
  <2> QED BY <1>3, <2>1
<1>5. ASSUME NEW n \in N PROVE n + 1 \in N
  <2> SUFFICES ASSUME NEW T \in SUBSET S, Cardinality(T) = n + 1
               PROVE  Sum(T) \in Int
    OBVIOUS
  <2>0. T # {} /\ \A x \in T : Cardinality(T \ {x}) = n
    BY <1>1, Fewer
  <2>1. First(T) \in T /\ Sum(T) = f[First(T)] + Sum(T \ {First(T)})
    BY <1>2, <2>0
  <2>2. Cardinality(T \ {First(T)}) = n
    BY <2>0, <2>1
  <2>3. Sum(T \ {First(T)}) \in Int
    BY <2>2
  <2> QED BY <2>1, <2>3
<1>6. N = Nat
  <2>1. N \in SUBSET Nat
    OBVIOUS
  <2> HIDE DEF N
  <2> QED BY <1>4, <1>5, <2>1, SetInduction
<1>7. Sum(S) \in Int
  BY <1>1, <1>6
<1> QED BY <1>7 DEF Sum

\* Any element may be taken first.
LEMMA SumTakesAny ==
  ASSUME NEW f, NEW S, IsFiniteSet(S), \A x \in S : f[x] \in Int
  PROVE  \A x \in S : SumFunctionOnSet(f, S) =
                        f[x] + SumFunctionOnSet(f, S \ {x})
<1> DEFINE Sum(T) == SumFunctionOnSet(f, T)
           Any(T) == \A x \in T : Sum(T) = f[x] + Sum(T \ {x})
           N == {n \in Nat : \A T \in SUBSET S : Cardinality(T) = n => Any(T)}
<1>1. \A T \in SUBSET S : IsFiniteSet(T) /\ Cardinality(T) \in Nat
  BY FS_Subset, FS_CardinalityType
<1>2. \A T \in SUBSET S : T # {} =>
        First(T) \in T /\ Sum(T) = f[First(T)] + Sum(T \ {First(T)})
  BY <1>1, FirstIsIn, SumTakesFirst
<1>3. \A T \in SUBSET S : Sum(T) \in Int
  BY <1>1, SumIsInt
<1> HIDE DEF Sum
<1>4. 0 \in N
  <2>1. \A T \in SUBSET S : Cardinality(T) = 0 => T = {}
    BY <1>1, FS_EmptySet
  <2> QED BY <2>1
<1>5. ASSUME NEW n \in N PROVE n + 1 \in N
  <2> SUFFICES ASSUME NEW T \in SUBSET S, Cardinality(T) = n + 1,
                      NEW x \in T
               PROVE  Sum(T) = f[x] + Sum(T \ {x})
    OBVIOUS
  <2> DEFINE c == First(T)
  <2>2. T # {} /\ \A y \in T : Cardinality(T \ {y}) = n
    BY <1>1, Fewer
  <2>1. c \in T /\ Sum(T) = f[c] + Sum(T \ {c})
    BY <1>2, <2>2
  <2>3. \A y \in T : Any(T \ {y})
    BY <2>2
  <2> HIDE DEF c
  <2>4. CASE x = c
    BY <2>1, <2>4
  <2>5. CASE x # c
    <3>1. Sum(T \ {c}) = f[x] + Sum((T \ {c}) \ {x})
      BY <2>1, <2>3, <2>5
    <3>2. Sum(T \ {x}) = f[c] + Sum((T \ {x}) \ {c})
      BY <2>1, <2>3, <2>5
    <3>3. Sum((T \ {x}) \ {c}) = Sum((T \ {c}) \ {x})
      <4>1. (T \ {x}) \ {c} = (T \ {c}) \ {x}
        OBVIOUS
      <4> QED BY <4>1
    <3>4. Sum((T \ {c}) \ {x}) \in Int /\ f[x] \in Int /\ f[c] \in Int
      BY <1>3, <2>1
    <3> QED BY <2>1, <3>1, <3>2, <3>3, <3>4
  <2> QED BY <2>4, <2>5
<1>6. N = Nat
  <2>1. N \in SUBSET Nat
    OBVIOUS
  <2> HIDE DEF N
  <2> QED BY <1>4, <1>5, <2>1, SetInduction
<1>7. Any(S)
  BY <1>1, <1>6
<1> QED BY <1>7 DEF Sum

\* One element more adds its value.
LEMMA SumAdds ==
  ASSUME NEW f, NEW S, IsFiniteSet(S), \A y \in S : f[y] \in Int,
         NEW x, x \notin S, f[x] \in Int
  PROVE  SumFunctionOnSet(f, S \cup {x}) = SumFunctionOnSet(f, S) + f[x]
<1>1. IsFiniteSet(S \cup {x})
  BY FS_AddElement
<1>2. SumFunctionOnSet(f, (S \cup {x}) \ {x}) = SumFunctionOnSet(f, S)
  <2>1. (S \cup {x}) \ {x} = S
    OBVIOUS
  <2> QED BY <2>1
<1>3. SumFunctionOnSet(f, S \cup {x}) =
        f[x] + SumFunctionOnSet(f, (S \cup {x}) \ {x})
  BY <1>1, SumTakesAny
<1>4. SumFunctionOnSet(f, S) \in Int
  BY SumIsInt
<1> QED BY <1>2, <1>3, <1>4

\* The sum of f + g - h is that of f, plus that of g, minus that of h.
LEMMA SumCombines ==
  ASSUME NEW S, IsFiniteSet(S), NEW e, NEW f, NEW g, NEW h,
         \A x \in S : /\ f[x] \in Int /\ g[x] \in Int /\ h[x] \in Int
                      /\ e[x] = f[x] + g[x] - h[x]
  PROVE  SumFunctionOnSet(e, S) =
           SumFunctionOnSet(f, S) + SumFunctionOnSet(g, S)
             - SumFunctionOnSet(h, S)
<1> DEFINE SumE(T) == SumFunctionOnSet(e, T)
           SumF(T) == SumFunctionOnSet(f, T)
           SumG(T) == SumFunctionOnSet(g, T)
           SumH(T) == SumFunctionOnSet(h, T)
           P == {T \in SUBSET S : SumE(T) = SumF(T) + SumG(T) - SumH(T)}
<1>1. {} \in P
  <2>1. SumE({}) = 0 /\ SumF({}) = 0 /\ SumG({}) = 0 /\ SumH({}) = 0
    BY SumOfNone
  <2> QED BY <2>1
<1>2. ASSUME NEW T \in P, NEW x \in S \ T PROVE T \cup {x} \in P
  <2>1. IsFiniteSet(T) /\ \A y \in S : e[y] \in Int
    BY FS_Subset
  <2>2. /\ SumE(T) \in Int /\ SumF(T) \in Int
        /\ SumG(T) \in Int /\ SumH(T) \in Int
    BY <2>1, SumIsInt
  <2>3. /\ SumE(T \cup {x}) = SumE(T) + e[x]
        /\ SumF(T \cup {x}) = SumF(T) + f[x]
        /\ SumG(T \cup {x}) = SumG(T) + g[x]
        /\ SumH(T \cup {x}) = SumH(T) + h[x]
    BY <2>1, SumAdds
  <2>4. /\ SumE(T) = SumF(T) + SumG(T) - SumH(T)
        /\ e[x] = f[x] + g[x] - h[x]
        /\ f[x] \in Int /\ g[x] \in Int /\ h[x] \in Int
    OBVIOUS
  <2> HIDE DEF SumE, SumF, SumG, SumH
  <2>5. SumE(T \cup {x}) =
          SumF(T \cup {x}) + SumG(T \cup {x}) - SumH(T \cup {x})
    BY <2>2, <2>3, <2>4
  <2> QED BY <2>5
<1>3. P \in SUBSET (SUBSET S)
  OBVIOUS
<1>4. S \in P
  <2> HIDE DEF P
  <2> QED BY <1>1, <1>2, <1>3, SubsetInduction
<1> QED BY <1>4

\* Zeroes sum up to zero.
LEMMA SumOfZeroes ==
  ASSUME NEW S, IsFiniteSet(S), NEW f, \A x \in S : f[x] = 0
  PROVE  SumFunctionOnSet(f, S) = 0
<1> DEFINE P == {T \in SUBSET S : SumFunctionOnSet(f, T) = 0}
<1>1. {} \in P
  BY SumOfNone
<1>2. ASSUME NEW T \in P, NEW x \in S \ T PROVE T \cup {x} \in P
  <2>1. SumFunctionOnSet(f, T \cup {x}) = SumFunctionOnSet(f, T) + f[x]
    BY FS_Subset, SumAdds
  <2> QED BY <2>1
<1>3. P \in SUBSET (SUBSET S)
  OBVIOUS
<1>4. S \in P
  <2> HIDE DEF P
  <2> QED BY <1>1, <1>2, <1>3, SubsetInduction
<1> QED BY <1>4

\* Two functions with the same values have the same sum.
LEMMA SumOfSame ==
  ASSUME NEW S, IsFiniteSet(S), NEW f, NEW g,
         \A x \in S : f[x] \in Int /\ g[x] = f[x]
  PROVE  SumFunctionOnSet(g, S) = SumFunctionOnSet(f, S)
<1> DEFINE zero == [x \in S |-> 0]
<1>1. SumFunctionOnSet(zero, S) = 0
  BY SumOfZeroes
<1>2. \A x \in S : /\ zero[x] = 0 /\ zero[x] \in Int
                   /\ g[x] = f[x] + zero[x] - zero[x]
  OBVIOUS
<1> HIDE DEF zero
<1>3. SumFunctionOnSet(g, S) = SumFunctionOnSet(f, S)
        + SumFunctionOnSet(zero, S) - SumFunctionOnSet(zero, S)
  BY <1>2, SumCombines
<1>4. SumFunctionOnSet(f, S) \in Int
  BY SumIsInt
<1> QED BY <1>1, <1>3, <1>4

\* What two disjoint sets sum up to.
LEMMA SumOfUnion ==
  ASSUME NEW S, IsFiniteSet(S), NEW R, IsFiniteSet(R), S \cap R = {},
         NEW f, \A x \in S \cup R : f[x] \in Int
  PROVE  SumFunctionOnSet(f, S \cup R) =
           SumFunctionOnSet(f, S) + SumFunctionOnSet(f, R)
<1> DEFINE Sum(T) == SumFunctionOnSet(f, T)
           P == {T \in SUBSET R : Sum(S \cup T) = Sum(S) + Sum(T)}
<1>1. {} \in P
  <2>1. S \cup {} = S /\ Sum({}) = 0 /\ Sum(S) \in Int
    BY SumOfNone, SumIsInt
  <2> HIDE DEF Sum
  <2> QED BY <2>1
<1>2. ASSUME NEW T \in P, NEW x \in R \ T PROVE T \cup {x} \in P
  <2>1. IsFiniteSet(T) /\ IsFiniteSet(S \cup T)
    BY FS_Subset, FS_Union
  <2>2. x \notin S \cup T /\ Sum(S \cup (T \cup {x})) = Sum((S \cup T) \cup {x})
    <3>1. S \cup (T \cup {x}) = (S \cup T) \cup {x}
      OBVIOUS
    <3> QED BY <3>1
  <2>3. Sum(S \cup T) = Sum(S) + Sum(T) /\ f[x] \in Int
    OBVIOUS
  <2>4. /\ Sum((S \cup T) \cup {x}) = Sum(S \cup T) + f[x]
        /\ Sum(T \cup {x}) = Sum(T) + f[x]
    BY <2>1, <2>2, SumAdds
  <2>5. Sum(S) \in Int /\ Sum(T) \in Int
    BY <2>1, SumIsInt
  <2> HIDE DEF Sum
  <2>6. Sum(S \cup (T \cup {x})) = Sum(S) + Sum(T \cup {x})
    BY <2>2, <2>3, <2>4, <2>5
  <2> QED BY <2>6
<1>3. P \in SUBSET (SUBSET R)
  OBVIOUS
<1>4. R \in P
  <2> HIDE DEF P
  <2> QED BY <1>1, <1>2, <1>3, SubsetInduction
<1> QED BY <1>4

\* The elements of S in one group.
InGroup(S, group, u) == {x \in S : group[x] = u}

\* A sum may be taken in groups: first within each, then over the groups.
LEMMA SumOfGroups ==
  ASSUME NEW S, IsFiniteSet(S), NEW f, \A x \in S : f[x] \in Int,
         NEW U, IsFiniteSet(U), NEW group, \A x \in S : group[x] \in U,
         NEW part, \A u \in U :
           part[u] = SumFunctionOnSet(f, InGroup(S, group, u))
  PROVE  SumFunctionOnSet(part, U) = SumFunctionOnSet(f, S)
<1> DEFINE Of(V) == {x \in S : group[x] \in V}
           One(u) == InGroup(S, group, u)
           Sum(T) == SumFunctionOnSet(f, T)
           P == {V \in SUBSET U : SumFunctionOnSet(part, V) = Sum(Of(V))}
<1>0. ASSUME NEW u \in U
      PROVE  /\ IsFiniteSet(One(u)) /\ part[u] = Sum(One(u))
             /\ part[u] \in Int
  <2>1. IsFiniteSet(One(u)) /\ One(u) \subseteq S
    BY FS_Subset DEF InGroup
  <2>2. Sum(One(u)) \in Int
    BY <2>1, SumIsInt
  <2> QED BY <2>1, <2>2
<1>1. {} \in P
  <2>1. Of({}) = {}
    OBVIOUS
  <2> QED BY <2>1, SumOfNone
<1>2. ASSUME NEW V \in P, NEW u \in U \ V PROVE V \cup {u} \in P
  <2>1. /\ Of(V \cup {u}) = Of(V) \cup One(u)
        /\ Of(V) \cap One(u) = {} /\ One(u) \subseteq S
    BY DEF InGroup
  <2>2. IsFiniteSet(V) /\ IsFiniteSet(Of(V))
    BY FS_Subset
  <2>3. Sum(Of(V) \cup One(u)) = Sum(Of(V)) + Sum(One(u))
    BY <1>0, <2>1, <2>2, SumOfUnion
  <2>4. SumFunctionOnSet(part, V \cup {u}) =
          SumFunctionOnSet(part, V) + part[u]
    BY <1>0, <2>2, SumAdds
  <2>5. SumFunctionOnSet(part, V) = Sum(Of(V))
    OBVIOUS
  <2>6. SumFunctionOnSet(part, V \cup {u}) = Sum(Of(V \cup {u}))
    <3>1. Sum(Of(V \cup {u})) = Sum(Of(V) \cup One(u))
      BY <2>1
    <3>2. part[u] = Sum(One(u))
      BY <1>0
    <3> HIDE DEF Sum, Of, One
    <3> QED BY <2>3, <2>4, <2>5, <3>1, <3>2
  <2> QED BY <2>6
<1>3. P \in SUBSET (SUBSET U)
  OBVIOUS
<1>4. U \in P
  <2> HIDE DEF P
  <2> QED BY <1>1, <1>2, <1>3, SubsetInduction
<1>5. Of(U) = S
  OBVIOUS
<1> QED BY <1>4, <1>5

\* Values that are not negative have such a sum.
LEMMA SumIsNat ==
  ASSUME NEW S, IsFiniteSet(S), NEW f, \A x \in S : f[x] \in Nat
  PROVE  SumFunctionOnSet(f, S) \in Nat
<1> DEFINE P == {T \in SUBSET S : SumFunctionOnSet(f, T) \in Nat}
<1>1. {} \in P
  BY SumOfNone
<1>2. ASSUME NEW T \in P, NEW x \in S \ T PROVE T \cup {x} \in P
  <2>1. SumFunctionOnSet(f, T \cup {x}) = SumFunctionOnSet(f, T) + f[x]
    BY FS_Subset, SumAdds
  <2> QED BY <2>1
<1>3. P \in SUBSET (SUBSET S)
  OBVIOUS
<1>4. S \in P
  <2> HIDE DEF P
  <2> QED BY <1>1, <1>2, <1>3, SubsetInduction
<1> QED BY <1>4

\* One value replaced changes the sum by the difference.
LEMMA SumOfUpdate ==
  ASSUME NEW S, IsFiniteSet(S), NEW f, \A y \in S : f[y] \in Int,
         NEW x \in S, NEW n \in Int, NEW g, g[x] = n,
         \A y \in S \ {x} : g[y] = f[y]
  PROVE  SumFunctionOnSet(g, S) = SumFunctionOnSet(f, S) - f[x] + n
<1>1. IsFiniteSet(S \ {x}) /\ \A y \in S : g[y] \in Int
  BY FS_RemoveElement
<1>2. /\ SumFunctionOnSet(g, S) = g[x] + SumFunctionOnSet(g, S \ {x})
      /\ SumFunctionOnSet(f, S) = f[x] + SumFunctionOnSet(f, S \ {x})
  BY <1>1, SumTakesAny
<1>3. SumFunctionOnSet(g, S \ {x}) = SumFunctionOnSet(f, S \ {x})
  BY <1>1, SumOfSame
<1>4. SumFunctionOnSet(f, S \ {x}) \in Int /\ f[x] \in Int
  BY <1>1, SumIsInt
<1> QED BY <1>2, <1>3, <1>4

\* A part of what is not negative is not more than the whole.
LEMMA SumOfPart ==
  ASSUME NEW T, IsFiniteSet(T), NEW S \in SUBSET T,
         NEW f, \A x \in T : f[x] \in Nat
  PROVE  /\ SumFunctionOnSet(f, S) \in Nat /\ SumFunctionOnSet(f, T) \in Nat
         /\ SumFunctionOnSet(f, S) <= SumFunctionOnSet(f, T)
<1> DEFINE R == T \ S
<1>1. IsFiniteSet(S) /\ IsFiniteSet(R) /\ S \cap R = {} /\ S \cup R = T
  BY FS_Subset
<1>2. \A x \in S : f[x] \in Nat
  OBVIOUS
<1>3. \A x \in R : f[x] \in Nat
  OBVIOUS
<1>4. SumFunctionOnSet(f, S \cup R) = SumFunctionOnSet(f, T)
  BY <1>1
<1> HIDE DEF R
<1>5. SumFunctionOnSet(f, S) \in Nat /\ SumFunctionOnSet(f, R) \in Nat
  BY <1>1, <1>2, <1>3, SumIsNat
<1>6. \A x \in S \cup R : f[x] \in Int
  BY <1>2, <1>3
<1>7. SumFunctionOnSet(f, S \cup R) =
        SumFunctionOnSet(f, S) + SumFunctionOnSet(f, R)
  BY <1>1, <1>6, SumOfUnion
<1> QED BY <1>4, <1>5, <1>7

\* Values that are each at most k times another have at most k times its sum.
LEMMA SumAtMost ==
  ASSUME NEW S, IsFiniteSet(S), NEW k \in Nat, NEW f, NEW g,
         \A x \in S : f[x] \in Nat /\ g[x] \in Nat /\ g[x] <= k * f[x]
  PROVE  SumFunctionOnSet(g, S) <= k * SumFunctionOnSet(f, S)
<1> DEFINE P == {T \in SUBSET S :
                   SumFunctionOnSet(g, T) <= k * SumFunctionOnSet(f, T)}
<1>1. {} \in P
  BY SumOfNone
<1>2. ASSUME NEW T \in P, NEW x \in S \ T PROVE T \cup {x} \in P
  <2>1. IsFiniteSet(T) /\ \A y \in T : f[y] \in Nat /\ g[y] \in Nat
    BY FS_Subset
  <2>2. /\ SumFunctionOnSet(f, T \cup {x}) = SumFunctionOnSet(f, T) + f[x]
        /\ SumFunctionOnSet(g, T \cup {x}) = SumFunctionOnSet(g, T) + g[x]
    BY <2>1, SumAdds
  <2>3. SumFunctionOnSet(f, T) \in Nat /\ SumFunctionOnSet(g, T) \in Nat
    BY <2>1, SumIsNat
  <2>4. /\ SumFunctionOnSet(g, T) <= k * SumFunctionOnSet(f, T)
        /\ f[x] \in Nat /\ g[x] \in Nat /\ g[x] <= k * f[x]
    OBVIOUS
  <2>5. \A m, n \in Nat : k * (m + n) = k * m + k * n
    OBVIOUS
  <2>6. k * (SumFunctionOnSet(f, T) + f[x]) =
          k * SumFunctionOnSet(f, T) + k * f[x]
    BY <2>3, <2>4, <2>5
  <2>7. SumFunctionOnSet(g, T) + g[x] <=
          k * SumFunctionOnSet(f, T) + k * f[x]
    BY <2>3, <2>4
  <2> QED BY <2>2, <2>6, <2>7
<1>3. P \in SUBSET (SUBSET S)
  OBVIOUS
<1>4. S \in P
  <2> HIDE DEF P
  <2> QED BY <1>1, <1>2, <1>3, SubsetInduction
<1> QED BY <1>4
=============================================================================
