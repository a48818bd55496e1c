---------------------------- MODULE SumTheorems ----------------------------
(***************************************************************************)
(* Facts about the sum of a function over a finite set, for the counters   *)
(* and byte totals of Handlers and UdpRelay.  The sum is a recursive       *)
(* function on the subsets of the set; what holds of it is shown by taking *)
(* a least set for which it fails, because strict inclusion is well        *)
(* founded on finite sets.                                                 *)
(***************************************************************************)
EXTENDS Integers, FiniteSets, Functions, FiniteSetTheorems, TLAPS

\* The element that the sum takes first, and the equation of its recursion.
First(s) == CHOOSE x \in s : TRUE
Unfold(f, it, s) == IF s = {} THEN 0 ELSE f[First(s)] + it[s \ {First(s)}]
IsSum(f, S, it) == it = [s \in SUBSET S |-> Unfold(f, it, s)]

(* Induction over finite sets: a set of them that is not empty has a least *)
(* member.                                                                 *)
LEMMA LeastSubset ==
    ASSUME NEW S, IsFiniteSet(S), NEW T, T \subseteq SUBSET S, T # {}
    PROVE  \E X \in T : \A Y \in SUBSET X : Y # X => Y \notin T
<1>1. T \subseteq FiniteSubsetsOf(S)
    BY FS_FiniteSubsetsOfFinite
<1>2. PICK X \in T : \A Y \in T : ~(<<Y, X>> \in StrictSubsetOrdering(S))
    BY <1>1, FS_StrictSubsetOrderingWellFounded, WFMin
<1>3. ASSUME NEW Y \in SUBSET X, Y # X, Y \in T PROVE FALSE
    <2>1. <<Y, X>> \in StrictSubsetOrdering(S)
        BY <1>3 DEF StrictSubsetOrdering
    <2> QED BY <1>2, <1>3, <2>1
<1> QED BY <1>3

LEMMA FirstIsElement ==
    ASSUME NEW s, s # {}
    PROVE  First(s) \in s
BY DEF First

LEMMA SolutionAt ==
    ASSUME NEW f, NEW S, NEW it, IsSum(f, S, it), NEW s, s \subseteq S
    PROVE  it[s] = Unfold(f, it, s)
BY DEF IsSum

(* Two solutions of the equation agree where both are defined.             *)
LEMMA SolutionsAgree ==
    ASSUME NEW f, NEW S, NEW T, IsFiniteSet(S), NEW g, NEW h,
           IsSum(f, S, g), IsSum(f, T, h),
           NEW s, s \subseteq S, s \subseteq T
    PROVE  g[s] = h[s]
<1> DEFINE Bad == {t \in SUBSET S : t \subseteq T /\ g[t] # h[t]}
<1> SUFFICES ASSUME s \in Bad PROVE FALSE
    OBVIOUS
<1>1. Bad \subseteq SUBSET S /\ Bad # {}
    OBVIOUS
<1> HIDE DEF Bad
<1>2. PICK X \in Bad : \A Y \in SUBSET X : Y # X => Y \notin Bad
    BY <1>1, LeastSubset
<1> USE DEF Bad
<1>3. g[X] = Unfold(f, g, X) /\ h[X] = Unfold(f, h, X)
    BY SolutionAt
<1>4. CASE X = {}
    BY <1>3, <1>4 DEF Unfold
<1>5. CASE X # {}
    <2>1. First(X) \in X
        BY <1>5, FirstIsElement
    <2>2. X \ {First(X)} \notin Bad
        BY <1>2, <2>1
    <2>3. g[X \ {First(X)}] = h[X \ {First(X)}]
        BY <2>2
    <2> QED BY <1>3, <1>5, <2>3 DEF Unfold
<1> QED BY <1>4, <1>5

(* The equation has a solution over every finite set.                      *)
LEMMA SolutionExists ==
    ASSUME NEW f, NEW S, IsFiniteSet(S)
    PROVE  \E it : IsSum(f, S, it)
<1> DEFINE Bad == {t \in SUBSET S : ~ \E it : IsSum(f, t, it)}
<1> SUFFICES ASSUME S \in Bad PROVE FALSE
    OBVIOUS
<1>1. Bad \subseteq SUBSET S /\ Bad # {}
    OBVIOUS
<1> HIDE DEF Bad
<1>2. PICK X \in Bad : \A Y \in SUBSET X : Y # X => Y \notin Bad
    BY <1>1, LeastSubset
<1> DEFINE sol(t) == CHOOSE it : IsSum(f, t, it)
           up(t) == Unfold(f, sol(t \ {First(t)}), t)
           all == [t \in SUBSET X |-> up(t)]
<1> HIDE DEF sol
<1>3. ASSUME NEW Y \in SUBSET X, Y # X PROVE IsSum(f, Y, sol(Y)) /\ IsFiniteSet(Y)
    <2>1. \E it : IsSum(f, Y, it)
        BY <1>1, <1>2, <1>3 DEF Bad
    <2>2. IsFiniteSet(Y)
        BY <1>1, FS_Subset
    <2> QED BY <2>1, <2>2 DEF sol
<1>4. ASSUME NEW t \in SUBSET X PROVE all[t] = Unfold(f, all, t)
    <2>1. CASE t = {}
        BY <2>1 DEF Unfold
    <2>2. CASE t # {}
        <3> DEFINE r == t \ {First(t)}
        <3>1. First(t) \in t
            BY <2>2, FirstIsElement
        <3>2. r \in SUBSET X /\ r # X
            BY <3>1
        <3> HIDE DEF r
        <3>3. sol(r)[r] = Unfold(f, sol(r), r)
            BY <1>3, <3>2, SolutionAt
        <3>4. CASE r = {}
            BY <2>2, <3>2, <3>3, <3>4 DEF Unfold, r
        <3>5. CASE r # {}
            <4> DEFINE q == r \ {First(r)}
            <4>1. q \in SUBSET X /\ q # X /\ q \subseteq r
                BY <3>2, <3>5, FirstIsElement
            <4> HIDE DEF q
            <4>2. sol(r)[q] = sol(q)[q]
                BY <1>3, <3>2, <4>1, SolutionsAgree
            <4>3. all[r] = sol(r)[r]
                BY <3>2, <3>3, <3>5, <4>2 DEF Unfold, q
            <4> QED BY <2>2, <4>3 DEF Unfold, r
        <3> QED BY <3>4, <3>5
    <2> QED BY <2>1, <2>2
<1>5. IsSum(f, X, all)
    BY <1>4 DEF IsSum
<1> QED BY <1>1, <1>2, <1>5 DEF Bad

-----------------------------------------------------------------------------
(* The sum satisfies its equation.                                         *)
LEMMA SumUnfolds ==
    ASSUME NEW f, NEW S, IsFiniteSet(S)
    PROVE  SumFunctionOnSet(f, S) =
               IF S = {} THEN 0
               ELSE f[First(S)] + SumFunctionOnSet(f, S \ {First(S)})
<1> DEFINE sol(T) == CHOOSE it : IsSum(f, T, it)
<1>1. ASSUME NEW T PROVE SumFunctionOnSet(f, T) = sol(T)[T]
    BY DEF SumFunctionOnSet, FoldFunctionOnSet, MapThenFoldSet, IsSum, Unfold, First
<1>2. ASSUME NEW T, IsFiniteSet(T) PROVE IsSum(f, T, sol(T))
    BY <1>2, SolutionExists
<1> HIDE DEF sol
<1>3. sol(S)[S] = Unfold(f, sol(S), S)
    BY <1>2, SolutionAt
<1>4. CASE S = {}
    BY <1>1, <1>3, <1>4 DEF Unfold
<1>5. CASE S # {}
    <2> DEFINE r == S \ {First(S)}
    <2>1. r \subseteq S /\ IsFiniteSet(r)
        BY FS_Subset
    <2>2. sol(S)[r] = sol(r)[r]
        BY <1>2, <2>1, SolutionsAgree
    <2> QED BY <1>1, <1>3, <1>5, <2>2 DEF Unfold
<1> QED BY <1>4, <1>5

(* The sum over no element.                                                *)
LEMMA SumOverEmpty ==
    ASSUME NEW f
    PROVE  SumFunctionOnSet(f, {}) = 0
BY SumUnfolds, FS_EmptySet

(* A sum of integers is one, and a sum of natural numbers is one.          *)
LEMMA SumType ==
    ASSUME NEW f, NEW S, IsFiniteSet(S), NEW D \in {Nat, Int}, \A x \in S : f[x] \in D
    PROVE  SumFunctionOnSet(f, S) \in D
<1> DEFINE Bad == {t \in SUBSET S : SumFunctionOnSet(f, t) \notin D}
<1> SUFFICES ASSUME S \in Bad PROVE FALSE
    OBVIOUS
<1>1. Bad \subseteq SUBSET S /\ Bad # {}
    OBVIOUS
<1> HIDE DEF Bad
<1>2. PICK X \in Bad : \A Y \in SUBSET X : Y # X => Y \notin Bad
    BY <1>1, LeastSubset
<1>3. X \subseteq S /\ IsFiniteSet(X) /\ SumFunctionOnSet(f, X) \notin D
    BY <1>1, FS_Subset DEF Bad
<1>4. X # {}
    BY <1>3, SumOverEmpty
<1> DEFINE r == X \ {First(X)}
<1>5. First(X) \in X /\ r \in SUBSET S /\ r \in SUBSET X /\ r # X
    BY <1>3, <1>4, FirstIsElement
<1>6. SumFunctionOnSet(f, r) \in D
    BY <1>2, <1>5 DEF Bad
<1>7. SumFunctionOnSet(f, X) = f[First(X)] + SumFunctionOnSet(f, r)
    BY <1>3, <1>4, SumUnfolds
<1> HIDE DEF r
<1> QED BY <1>3, <1>5, <1>6, <1>7

(* Any element can be taken out of a sum.                                  *)
LEMMA SumRemoveElement ==
    ASSUME NEW f, NEW S, IsFiniteSet(S), \A y \in S : f[y] \in Int, NEW x \in S
    PROVE  SumFunctionOnSet(f, S) = f[x] + SumFunctionOnSet(f, S \ {x})
<1> DEFINE Sum(t) == SumFunctionOnSet(f, t)
           Bad == {t \in SUBSET S : \E e \in t : Sum(t) # f[e] + Sum(t \ {e})}
<1> SUFFICES ASSUME S \in Bad PROVE FALSE
    OBVIOUS
<1>1. Bad \subseteq SUBSET S /\ Bad # {}
    OBVIOUS
<1> HIDE DEF Bad
<1>2. PICK X \in Bad : \A Y \in SUBSET X : Y # X => Y \notin Bad
    BY <1>1, LeastSubset
<1>3. X \subseteq S /\ IsFiniteSet(X)
    BY <1>1, FS_Subset
<1>4. PICK e \in X : Sum(X) # f[e] + Sum(X \ {e})
    BY DEF Bad
<1> DEFINE h == First(X)
<1>5. h \in X /\ Sum(X) = f[h] + Sum(X \ {h})
    BY <1>3, SumUnfolds, FirstIsElement
<1> HIDE DEF h, Sum
<1>6. h # e
    BY <1>4, <1>5
<1> DEFINE both == X \ {h, e}
<1>7. /\ (X \ {h}) \ {e} = both /\ (X \ {e}) \ {h} = both
      /\ X \ {h} \in SUBSET X /\ X \ {h} # X /\ e \in X \ {h}
      /\ X \ {e} \in SUBSET X /\ X \ {e} # X /\ h \in X \ {e}
    BY <1>5, <1>6
<1>8. \A Y \in SUBSET X : \A y \in Y : Y # X => Sum(Y) = f[y] + Sum(Y \ {y})
    BY <1>2, <1>3 DEF Bad
<1>9. Sum(X \ {h}) = f[e] + Sum(both) /\ Sum(X \ {e}) = f[h] + Sum(both)
    BY <1>7, <1>8
<1>10. IsFiniteSet(both) /\ both \subseteq S
    BY <1>3, FS_Subset
<1>11. Sum(both) \in Int
    BY <1>10, SumType DEF Sum
<1>12. f[h] \in Int /\ f[e] \in Int
    BY <1>3, <1>5
<1> HIDE DEF both
<1> QED BY <1>4, <1>5, <1>9, <1>11, <1>12

(* An element can be added to a sum.                                       *)
LEMMA SumAddElement ==
    ASSUME NEW f, NEW S, IsFiniteSet(S), NEW x, x \notin S,
           \A y \in S \cup {x} : f[y] \in Int
    PROVE  SumFunctionOnSet(f, S \cup {x}) = SumFunctionOnSet(f, S) + f[x]
<1> DEFINE T == S \cup {x}
<1>1. IsFiniteSet(T) /\ x \in T /\ T \ {x} = S
    BY FS_AddElement
<1> HIDE DEF T
<1>2. \A y \in T : f[y] \in Int
    BY DEF T
<1>3. SumFunctionOnSet(f, T) = f[x] + SumFunctionOnSet(f, S)
    BY <1>1, <1>2, SumRemoveElement
<1>4. SumFunctionOnSet(f, S) \in Int
    BY SumType
<1>5. f[x] \in Int
    BY <1>1, <1>2
<1> QED BY <1>3, <1>4, <1>5 DEF T

(* Functions that agree on a set have the same sum over it.                *)
LEMMA SumOfEqual ==
    ASSUME NEW f, NEW g, NEW S, IsFiniteSet(S), \A x \in S : f[x] = g[x]
    PROVE  SumFunctionOnSet(f, S) = SumFunctionOnSet(g, S)
<1> DEFINE Bad == {t \in SUBSET S : SumFunctionOnSet(f, t) # SumFunctionOnSet(g, t)}
<1> SUFFICES ASSUME S \in Bad PROVE FALSE
    OBVIOUS
<1>1. Bad \subseteq SUBSET S /\ Bad # {}
    OBVIOUS
<1> HIDE DEF Bad
<1>2. PICK X \in Bad : \A Y \in SUBSET X : Y # X => Y \notin Bad
    BY <1>1, LeastSubset
<1>3. X \subseteq S /\ IsFiniteSet(X) /\ SumFunctionOnSet(f, X) # SumFunctionOnSet(g, X)
    BY <1>1, FS_Subset DEF Bad
<1>4. X # {}
    BY <1>3, SumOverEmpty
<1> DEFINE r == X \ {First(X)}
<1>5. First(X) \in X /\ r \in SUBSET S /\ r \in SUBSET X /\ r # X
    BY <1>3, <1>4, FirstIsElement
<1>6. SumFunctionOnSet(f, r) = SumFunctionOnSet(g, r)
    BY <1>2, <1>5 DEF Bad
<1>7. /\ SumFunctionOnSet(f, X) = f[First(X)] + SumFunctionOnSet(f, r)
      /\ SumFunctionOnSet(g, X) = g[First(X)] + SumFunctionOnSet(g, r)
    BY <1>3, <1>4, SumUnfolds
<1> QED BY <1>3, <1>5, <1>6, <1>7

(* Where a function changes at one element, its sum changes by as much.    *)
LEMMA SumChange ==
    ASSUME NEW f, NEW g, NEW S, IsFiniteSet(S), NEW x \in S,
           \A y \in S : f[y] \in Int, g[x] \in Int,
           \A y \in S \ {x} : g[y] = f[y]
    PROVE  SumFunctionOnSet(g, S) = SumFunctionOnSet(f, S) + (g[x] - f[x])
<1> DEFINE r == S \ {x}
<1>1. IsFiniteSet(r)
    BY FS_Subset
<1>2. \A y \in S : g[y] \in Int
    OBVIOUS
<1>3. SumFunctionOnSet(f, S) = f[x] + SumFunctionOnSet(f, r)
    BY SumRemoveElement
<1>4. SumFunctionOnSet(g, S) = g[x] + SumFunctionOnSet(g, r)
    BY <1>2, SumRemoveElement
<1>5. SumFunctionOnSet(g, r) = SumFunctionOnSet(f, r)
    BY <1>1, SumOfEqual
<1>6. SumFunctionOnSet(f, r) \in Int
    BY <1>1, SumType
<1>7. f[x] \in Int
    OBVIOUS
<1> HIDE DEF r
<1> QED BY <1>3, <1>4, <1>5, <1>6, <1>7

(* Where a function is zero its sum does not change.                       *)
LEMMA SumOverPart ==
    ASSUME NEW f, NEW S, IsFiniteSet(S), NEW T, T \subseteq S,
           \A x \in S : f[x] \in Int, \A x \in S \ T : f[x] = 0
    PROVE  SumFunctionOnSet(f, S) = SumFunctionOnSet(f, T)
<1> DEFINE Bad == {U \in SUBSET S : T \subseteq U /\ SumFunctionOnSet(f, U) # SumFunctionOnSet(f, T)}
<1> SUFFICES ASSUME S \in Bad PROVE FALSE
    OBVIOUS
<1>1. Bad \subseteq SUBSET S /\ Bad # {}
    OBVIOUS
<1> HIDE DEF Bad
<1>2. PICK X \in Bad : \A Y \in SUBSET X : Y # X => Y \notin Bad
    BY <1>1, LeastSubset
<1>3. /\ X \subseteq S /\ IsFiniteSet(X) /\ T \subseteq X
      /\ SumFunctionOnSet(f, X) # SumFunctionOnSet(f, T)
    BY <1>1, FS_Subset DEF Bad
<1>4. PICK x \in X : x \notin T
    BY <1>3
<1> DEFINE r == X \ {x}
<1>5. r \in SUBSET S /\ r \in SUBSET X /\ r # X /\ T \subseteq r /\ IsFiniteSet(r)
    BY <1>3, <1>4, FS_Subset
<1>6. SumFunctionOnSet(f, r) = SumFunctionOnSet(f, T)
    BY <1>2, <1>5 DEF Bad
<1>7. SumFunctionOnSet(f, X) = f[x] + SumFunctionOnSet(f, r)
    BY <1>3, <1>4, SumRemoveElement
<1>8. SumFunctionOnSet(f, r) \in Int
    BY <1>5, SumType
<1>9. f[x] = 0
    BY <1>3, <1>4
<1> HIDE DEF r
<1> QED BY <1>3, <1>6, <1>7, <1>8, <1>9

(* A sum of zeros is zero.                                                 *)
LEMMA SumOfZeros ==
    ASSUME NEW f, NEW S, IsFiniteSet(S), \A x \in S : f[x] = 0
    PROVE  SumFunctionOnSet(f, S) = 0
<1>1. SumFunctionOnSet(f, S) = SumFunctionOnSet(f, {})
    BY SumOverPart
<1> QED BY <1>1, SumOverEmpty

(* A sum of ones counts.                                                   *)
LEMMA SumOfOnes ==
    ASSUME NEW f, NEW S, IsFiniteSet(S), \A x \in S : f[x] = 1
    PROVE  SumFunctionOnSet(f, S) = Cardinality(S)
<1> DEFINE Bad == {U \in SUBSET S : SumFunctionOnSet(f, U) # Cardinality(U)}
<1> SUFFICES ASSUME S \in Bad PROVE FALSE
    OBVIOUS
<1>1. Bad \subseteq SUBSET S /\ Bad # {}
    OBVIOUS
<1> HIDE DEF Bad
<1>2. PICK X \in Bad : \A Y \in SUBSET X : Y # X => Y \notin Bad
    BY <1>1, LeastSubset
<1>3. X \subseteq S /\ IsFiniteSet(X) /\ SumFunctionOnSet(f, X) # Cardinality(X)
    BY <1>1, FS_Subset DEF Bad
<1>4. X # {}
    BY <1>3, SumOverEmpty, FS_EmptySet
<1> DEFINE r == X \ {First(X)}
<1>5. First(X) \in X /\ r \in SUBSET S /\ r \in SUBSET X /\ r # X
    BY <1>3, <1>4, FirstIsElement
<1>6. SumFunctionOnSet(f, r) = Cardinality(r)
    BY <1>2, <1>5 DEF Bad
<1>7. SumFunctionOnSet(f, X) = 1 + SumFunctionOnSet(f, r)
    BY <1>3, <1>4, <1>5, SumUnfolds
<1>8. Cardinality(r) = Cardinality(X) - 1 /\ Cardinality(X) \in Nat
    BY <1>3, <1>5, FS_RemoveElement, FS_CardinalityType
<1> HIDE DEF r
<1> QED BY <1>3, <1>6, <1>7, <1>8

(* A function with one more element in its domain has the sum increased by *)
(* what it maps the element to.                                            *)
LEMMA SumGrows ==
    ASSUME NEW S, IsFiniteSet(S), NEW x, x \notin S, NEW f, NEW g,
           DOMAIN f = S, DOMAIN g = S \cup {x},
           \A y \in S : f[y] \in Int /\ g[y] = f[y], g[x] \in Int
    PROVE  SumFunction(g) = SumFunction(f) + g[x]
<1>1. SumFunction(f) = SumFunctionOnSet(f, S) /\ SumFunction(g) = SumFunctionOnSet(g, S \cup {x})
    BY DEF SumFunction
<1>2. SumFunctionOnSet(g, S \cup {x}) = SumFunctionOnSet(g, S) + g[x]
    BY SumAddElement
<1>3. SumFunctionOnSet(g, S) = SumFunctionOnSet(f, S)
    BY SumOfEqual
<1> QED BY <1>1, <1>2, <1>3
=============================================================================
