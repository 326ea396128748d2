---------------------------- MODULE FiniteFacts ----------------------------
(***************************************************************************)
(* Facts about finite sets that the proofs of the engines share.  A set    *)
(* with at most one element; and the sums of the values of a function      *)
(* (SumFunction of module Functions), as the ledgers need them: what a sum *)
(* becomes when one value changes, and how the sums of two functions       *)
(* compare. The latter are inductions on the size of the set, written as   *)
(* the search for a least counterexample.                                  *)
(***************************************************************************)
EXTENDS Functions, FiniteSetTheorems, TLAPS

(* A set of naturals that is not empty has a least element.                *)
LEMMA LeastNatural ==
  ASSUME NEW T \in SUBSET Nat, T # {}
  PROVE  \E n \in T : \A m \in T : n <= m
<1>1. PICK n \in T : \A m \in T : <<m, n>> \notin OpToRel(<, Nat)
  BY NatLessThanWellFounded, WFMin
<1>2. ASSUME NEW m \in T
      PROVE  n <= m
  <2>1. ~(m < n)
    BY <1>1 DEF OpToRel
  <2> QED
    BY <2>1
<1> QED
  BY <1>2

(* A finite set that does not have two elements has at most one.           *)
LEMMA AtMostOne ==
  ASSUME NEW S, IsFiniteSet(S), ~(Cardinality(S) > 1), NEW x \in S, NEW y \in S
  PROVE  x = y
<1> SUFFICES ASSUME x # y PROVE FALSE
  OBVIOUS
<1>1. /\ IsFiniteSet(S \ {x}) /\ Cardinality(S \ {x}) = Cardinality(S) - 1
      /\ Cardinality(S) \in Nat /\ Cardinality(S \ {x}) \in Nat
  BY FS_RemoveElement, FS_CardinalityType
<1>2. Cardinality(S \ {x}) = 0
  BY <1>1
<1> QED
  BY <1>1, <1>2, FS_EmptySet

-----------------------------------------------------------------------------
(* The element a fold takes first, and what it then computes.              *)
First(s) == CHOOSE x \in s : TRUE
SumStep(f, g, s) == IF s = {} THEN 0 ELSE f[First(s)] + g[s \ {First(s)}]
IsSum(f, g, S) == \A s \in SUBSET S : g[s] = SumStep(f, g, s)

(* Taking an element from a set makes it smaller.                          *)
LEMMA Smaller ==
  ASSUME NEW S, IsFiniteSet(S), NEW s \in SUBSET S, NEW x \in s
  PROVE  /\ s \ {x} \in SUBSET S /\ IsFiniteSet(s \ {x})
         /\ Cardinality(s) \in Nat /\ Cardinality(s \ {x}) \in Nat
         /\ Cardinality(s \ {x}) = Cardinality(s) - 1
<1>1. IsFiniteSet(s)
  BY FS_Subset
<1> QED
  BY <1>1, FS_RemoveElement, FS_CardinalityType

LEMMA Sizes ==
  ASSUME NEW S, IsFiniteSet(S), NEW s \in SUBSET S
  PROVE  /\ IsFiniteSet(s) /\ Cardinality(s) \in Nat /\ Cardinality(S) \in Nat
         /\ Cardinality(s) <= Cardinality(S)
         /\ Cardinality(s) = 0 <=> s = {}
BY FS_Subset, FS_CardinalityType, FS_EmptySet

(* The fold's recursion has a solution, by induction on the size up to     *)
(* which it holds ...                                                      *)
LEMMA SumExists ==
  ASSUME NEW S, IsFiniteSet(S), NEW f \in [S -> Int]
  PROVE  \E g \in [SUBSET S -> Int] : IsSum(f, g, S)
<1> DEFINE Upto(g, n) == \A s \in SUBSET S : Cardinality(s) <= n => g[s] = SumStep(f, g, s)
           Good(n) == \E g \in [SUBSET S -> Int] : Upto(g, n)
           Bad == {n \in Nat : ~Good(n)}
<1>1. Good(0)
  <2> DEFINE g == [s \in SUBSET S |-> 0]
  <2>1. g \in [SUBSET S -> Int] /\ Upto(g, 0)
    BY Sizes DEF SumStep
  <2> QED
    BY <2>1
<1>2. ASSUME NEW n \in Nat, Good(n)
      PROVE  Good(n + 1)
  <2>1. PICK g \in [SUBSET S -> Int] : Upto(g, n)
    BY <1>2
  <2> DEFINE h == [s \in SUBSET S |-> SumStep(f, g, s)]
  <2>2. ASSUME NEW s \in SUBSET S, s # {}
        PROVE  First(s) \in s /\ First(s) \in S
    BY <2>2 DEF First
  <2>3. h \in [SUBSET S -> Int]
    <3>1. ASSUME NEW s \in SUBSET S
          PROVE  SumStep(f, g, s) \in Int
      <4>1. CASE s = {}
        BY <4>1 DEF SumStep
      <4>2. CASE s # {}
        <5>1. f[First(s)] \in Int /\ g[s \ {First(s)}] \in Int
          BY <2>2, <4>2
        <5> QED
          BY <4>2, <5>1 DEF SumStep
      <4> QED
        BY <4>1, <4>2
    <3> QED
      BY <3>1
  <2>4. ASSUME NEW s \in SUBSET S, Cardinality(s) <= n + 1
        PROVE  h[s] = SumStep(f, h, s)
    <3>1. CASE s = {}
      BY <3>1 DEF SumStep
    <3>2. CASE s # {}
      <4>0. First(s) \in s
        BY <2>2, <3>2
      <4>1. Cardinality(s \ {First(s)}) <= n /\ s \ {First(s)} \in SUBSET S
        <5>1. /\ s \ {First(s)} \in SUBSET S /\ Cardinality(s) \in Nat
              /\ Cardinality(s \ {First(s)}) = Cardinality(s) - 1
          BY <4>0, Smaller
        <5> QED
          BY <2>4, <5>1
      <4>2. g[s \ {First(s)}] = h[s \ {First(s)}]
        BY <2>1, <4>1
      <4> QED
        BY <4>2, <3>2 DEF SumStep
    <3> QED
      BY <3>1, <3>2
  <2> QED
    BY <2>3, <2>4
<1>3. ASSUME NEW n \in Nat
      PROVE  Good(n)
  <2> HIDE DEF Good
  <2> SUFFICES ASSUME Bad # {}
               PROVE  FALSE
    OBVIOUS
  <2>1. PICK m \in Bad : \A k \in Bad : m <= k
    BY LeastNatural
  <2>2. m # 0
    BY <1>1, <2>1
  <2>3. m - 1 \in Nat /\ Good(m - 1)
    BY <2>1, <2>2
  <2> QED
    BY <2>1, <2>3, <1>2
<1>4. PICK g \in [SUBSET S -> Int] : Upto(g, Cardinality(S))
  BY <1>3, Sizes
<1> QED
  BY <1>4, Sizes DEF IsSum

(* ... and only one, also on a smaller set.                                *)
LEMMA SumUnique ==
  ASSUME NEW S, IsFiniteSet(S), NEW f, NEW g, NEW h,
         IsSum(f, g, S), NEW T \in SUBSET S, IsSum(f, h, T)
  PROVE  \A s \in SUBSET T : h[s] = g[s]
<1> DEFINE Bad == {n \in Nat : \E s \in SUBSET T : Cardinality(s) = n /\ h[s] # g[s]}
<1>1. SUFFICES ASSUME Bad # {}
               PROVE  FALSE
  BY Sizes
<1>2. PICK n \in Bad : \A m \in Bad : n <= m
  BY <1>1, LeastNatural
<1>3. PICK s \in SUBSET T : Cardinality(s) = n /\ h[s] # g[s]
  BY <1>2
<1>4. s # {}
  BY <1>3 DEF IsSum, SumStep
<1>5. First(s) \in s
  BY <1>4 DEF First
<1> DEFINE u == s \ {First(s)}
<1>6. u \in SUBSET T /\ Cardinality(u) \in Nat /\ Cardinality(u) = n - 1
  BY <1>3, <1>5, Smaller
<1>7. h[u] = g[u]
  BY <1>2, <1>6
<1> QED
  BY <1>3, <1>4, <1>7 DEF IsSum, SumStep

(* So a fold is the solution of its recursion.                             *)
FoldedBy(f, g, S) ==
    IsSum(f, g, S) /\ \A T \in SUBSET S : SumFunctionOnSet(f, T) = g[T]

LEMMA SumIsFold ==
  ASSUME NEW S, IsFiniteSet(S), NEW f \in [S -> Int]
  PROVE  \E g \in [SUBSET S -> Int] : FoldedBy(f, g, S)
<1>1. PICK g \in [SUBSET S -> Int] : IsSum(f, g, S)
  BY SumExists
<1>2. ASSUME NEW T \in SUBSET S
      PROVE  SumFunctionOnSet(f, T) = g[T]
  <2> DEFINE F(iter) == [s \in SUBSET T |->
                 IF s = {} THEN 0
                 ELSE f[CHOOSE x \in s : TRUE] + iter[s \ {CHOOSE x \in s : TRUE}]]
             it == CHOOSE iter : iter = F(iter)
             h == [s \in SUBSET T |-> g[s]]
  <2>1. h = F(h)
    <3>1. ASSUME NEW s \in SUBSET T
          PROVE  h[s] = F(h)[s]
      BY <1>1 DEF IsSum, SumStep, First
    <3> QED
      BY <3>1
  <2>2. it = F(it)
    BY <2>1
  <2>3. SumFunctionOnSet(f, T) = it[T]
    BY DEF SumFunctionOnSet, FoldFunctionOnSet, MapThenFoldSet
  <2> HIDE DEF it
  <2>4. IsSum(f, it, T)
    BY <2>2 DEF IsSum, SumStep, First
  <2> HIDE DEF h, F
  <2>5. \A s \in SUBSET T : it[s] = g[s]
    BY <1>1, <2>4, SumUnique
  <2> QED
    BY <2>3, <2>5
<1> QED
  BY <1>1, <1>2 DEF FoldedBy

-----------------------------------------------------------------------------
(* A sum of integers is an integer, and the sum over no element is 0.      *)
THEOREM SumType ==
  ASSUME NEW S, IsFiniteSet(S), NEW f \in [S -> Int], NEW T \in SUBSET S
  PROVE  SumFunctionOnSet(f, T) \in Int /\ SumFunctionOnSet(f, {}) = 0
<1>1. PICK g \in [SUBSET S -> Int] : FoldedBy(f, g, S)
  BY SumIsFold
<1> QED
  BY <1>1 DEF FoldedBy, IsSum, SumStep

(* Any element can be taken out of a sum first.                            *)
THEOREM SumRemove ==
  ASSUME NEW S, IsFiniteSet(S), NEW f \in [S -> Int], NEW T \in SUBSET S, NEW x \in T
  PROVE  SumFunctionOnSet(f, T) = f[x] + SumFunctionOnSet(f, T \ {x})
<1> DEFINE Sum(U) == SumFunctionOnSet(f, U)
           Splits(U, y) == Sum(U) = f[y] + Sum(U \ {y})
           Bad == {n \in Nat : \E U \in SUBSET S : \E y \in U : Cardinality(U) = n /\ ~Splits(U, y)}
<1>1. ASSUME NEW U \in SUBSET S, U # {}
      PROVE  First(U) \in U /\ Splits(U, First(U))
  <2>1. PICK g \in [SUBSET S -> Int] : FoldedBy(f, g, S)
    BY SumIsFold
  <2>2. First(U) \in U /\ U \ {First(U)} \in SUBSET S
    BY <1>1 DEF First
  <2> QED
    BY <1>1, <2>1, <2>2 DEF FoldedBy, IsSum, SumStep
<1>2. \A U \in SUBSET S : Sum(U) \in Int
  BY SumType
<1>3. SUFFICES ASSUME Bad # {}
               PROVE  FALSE
  BY Sizes
<1>4. PICK n \in Bad : n \in Nat /\ \A m \in Bad : m \in Nat /\ n <= m
  BY <1>3, LeastNatural
<1>5. ASSUME NEW U \in SUBSET S, NEW y \in U, Cardinality(U) = n - 1
      PROVE  Splits(U, y)
  <2>1. Cardinality(U) \in Nat /\ Cardinality(U) < n
    BY <1>5, Sizes
  <2>2. Cardinality(U) \notin Bad
    <3> HIDE DEF Bad
    <3> QED
      BY <1>4, <2>1
  <2> QED
    BY <2>1, <2>2
<1>6. PICK U \in SUBSET S : \E y \in U : Cardinality(U) = n /\ ~Splits(U, y)
  BY <1>4
<1>7. PICK y \in U : Cardinality(U) = n /\ ~Splits(U, y)
  BY <1>6
<1> DEFINE c == First(U)
<1> HIDE DEF Bad
<1>8. c \in U /\ Splits(U, c)
  BY <1>1
<1>9. c # y
  BY <1>7, <1>8
<1> HIDE DEF c
<1>10. Splits(U \ {c}, y)
  <2>1. U \ {c} \in SUBSET S /\ Cardinality(U \ {c}) = n - 1
    BY <1>7, <1>8, Smaller
  <2>2. y \in U \ {c}
    BY <1>9
  <2> QED
    BY <1>5, <2>1, <2>2
<1>11. Splits(U \ {y}, c)
  <2>1. U \ {y} \in SUBSET S /\ Cardinality(U \ {y}) = n - 1
    BY <1>7, Smaller
  <2>2. c \in U \ {y}
    BY <1>8, <1>9
  <2> QED
    BY <1>5, <2>1, <2>2
<1>12. (U \ {y}) \ {c} = (U \ {c}) \ {y}
  OBVIOUS
<1> DEFINE W == (U \ {c}) \ {y}
<1>13. Sum(U \ {y}) = f[c] + Sum(W) /\ Sum(U) = f[c] + (f[y] + Sum(W))
  BY <1>8, <1>10, <1>11, <1>12
<1>14. Sum(W) \in Int /\ f[y] \in Int /\ f[c] \in Int
  BY <1>2, <1>8
<1>15. Sum(U) # f[y] + Sum(U \ {y})
  BY <1>7
<1> HIDE DEF Sum, Splits, W
<1> QED
  BY <1>13, <1>14, <1>15

(* Of two functions, the one that is nowhere greater has the lesser sum.   *)
THEOREM SumMonotone ==
  ASSUME NEW S, IsFiniteSet(S), NEW f \in [S -> Int], NEW g \in [S -> Int],
         NEW T \in SUBSET S, \A x \in T : f[x] <= g[x]
  PROVE  SumFunctionOnSet(f, T) <= SumFunctionOnSet(g, T)
<1> DEFINE F(U) == SumFunctionOnSet(f, U)
           G(U) == SumFunctionOnSet(g, U)
           Bad == {n \in Nat : \E U \in SUBSET T : Cardinality(U) = n /\ ~(F(U) <= G(U))}
<1>1. \A U \in SUBSET T : F(U) \in Int /\ G(U) \in Int /\ F({}) = 0 /\ G({}) = 0
  BY SumType
<1>2. ASSUME NEW U \in SUBSET T, NEW x \in U
      PROVE  F(U) = f[x] + F(U \ {x}) /\ G(U) = g[x] + G(U \ {x})
  <2>1. U \in SUBSET S
    OBVIOUS
  <2> QED
    BY <2>1, SumRemove
<1> HIDE DEF F, G
<1>3. SUFFICES ASSUME Bad # {}
               PROVE  FALSE
  BY Sizes DEF F, G
<1>4. PICK n \in Bad : \A m \in Bad : n <= m
  BY <1>3, LeastNatural
<1>5. PICK U \in SUBSET T : Cardinality(U) = n /\ ~(F(U) <= G(U))
  BY <1>4
<1>6. PICK x \in U : TRUE
  BY <1>1, <1>5
<1>7. U \ {x} \in SUBSET T /\ Cardinality(U \ {x}) \in Nat /\ Cardinality(U \ {x}) = n - 1
  BY <1>5, Smaller
<1>8. F(U \ {x}) <= G(U \ {x})
  BY <1>4, <1>7
<1>9. /\ F(U \ {x}) \in Int /\ G(U \ {x}) \in Int /\ f[x] \in Int /\ g[x] \in Int
      /\ f[x] <= g[x]
  BY <1>1, <1>7
<1>10. F(U) = f[x] + F(U \ {x}) /\ G(U) = g[x] + G(U \ {x})
  BY <1>2
<1> QED
  BY <1>5, <1>8, <1>9, <1>10

(* A sum moves by as much as the one value that changes, if it is summed.  *)
THEOREM SumUpdateOn ==
  ASSUME NEW S, IsFiniteSet(S), NEW f \in [S -> Int], NEW g \in [S -> Int],
         NEW x \in S, \A y \in S \ {x} : g[y] = f[y], NEW T \in SUBSET S
  PROVE  /\ x \in T => SumFunctionOnSet(g, T) = SumFunctionOnSet(f, T) + g[x] - f[x]
         /\ x \notin T => SumFunctionOnSet(g, T) = SumFunctionOnSet(f, T)
<1> DEFINE R == T \ {x}
           F(U) == SumFunctionOnSet(f, U)
           G(U) == SumFunctionOnSet(g, U)
<1>1. x \in T => F(T) = f[x] + F(R) /\ G(T) = g[x] + G(R)
  BY SumRemove
<1>2. F(R) \in Int /\ G(R) \in Int /\ (x \notin T => R = T)
  BY SumType
<1>3. F(R) <= G(R) /\ G(R) <= F(R)
  <2>1. R \in SUBSET S /\ \A y \in R : f[y] <= g[y] /\ g[y] <= f[y]
    OBVIOUS
  <2> HIDE DEF R
  <2> QED
    BY <2>1, SumMonotone
<1> HIDE DEF R, F, G
<1>4. x \in T => G(T) = F(T) + g[x] - f[x]
  BY <1>1, <1>2, <1>3
<1>5. x \notin T => G(T) = F(T)
  BY <1>2, <1>3
<1> QED
  BY <1>4, <1>5 DEF F, G

-----------------------------------------------------------------------------
(* The sums of whole functions, as the modules use them.                   *)
THEOREM SumUpdate ==
  ASSUME NEW S, IsFiniteSet(S), NEW f \in [S -> Int], NEW g \in [S -> Int],
         NEW x \in S, \A y \in S \ {x} : g[y] = f[y]
  PROVE  SumFunction(g) = SumFunction(f) + g[x] - f[x]
<1>1. DOMAIN f = S /\ DOMAIN g = S /\ S \in SUBSET S
  OBVIOUS
<1>2. SumFunctionOnSet(g, S) = SumFunctionOnSet(f, S) + g[x] - f[x]
  BY <1>1, SumUpdateOn
<1> QED
  BY <1>1, <1>2 DEF SumFunction

(* Writing one value moves the sum by what is written less what was there. *)
THEOREM SumExcept ==
  ASSUME NEW S, IsFiniteSet(S), NEW f \in [S -> Int], NEW x \in S, NEW v \in Int
  PROVE  SumFunction([f EXCEPT ![x] = v]) = SumFunction(f) + v - f[x]
<1> DEFINE g == [f EXCEPT ![x] = v]
<1>1. g \in [S -> Int] /\ g[x] = v /\ \A y \in S \ {x} : g[y] = f[y]
  OBVIOUS
<1> HIDE DEF g
<1>2. SumFunction(g) = SumFunction(f) + g[x] - f[x]
  BY <1>1, SumUpdate
<1> QED
  BY <1>1, <1>2 DEF g

(* g is f with d added at x.                                               *)
AddsAt(S, f, g, x, d) == \A y \in S : g[y] = IF y = x THEN f[y] + d ELSE f[y]

(* Adding to one value adds as much to the sum.                            *)
THEOREM SumAdds ==
  ASSUME NEW S, IsFiniteSet(S), NEW f \in [S -> Int], NEW g \in [S -> Int], NEW x \in S,
         NEW d \in Int, AddsAt(S, f, g, x, d)
  PROVE  SumFunction(f) \in Int /\ SumFunction(g) = SumFunction(f) + d
<1>1. \A y \in S \ {x} : g[y] = f[y]
  BY DEF AddsAt
<1>2. SumFunction(g) = SumFunction(f) + g[x] - f[x]
  BY <1>1, SumUpdate
<1>3. SumFunction(f) \in Int
  BY SumType DEF SumFunction
<1>4. g[x] = f[x] + d /\ f[x] \in Int
  BY DEF AddsAt
<1> QED
  BY <1>2, <1>3, <1>4

(* The sum of what is nowhere greater is not greater.                      *)
THEOREM SumAtMost ==
  ASSUME NEW S, IsFiniteSet(S), NEW f \in [S -> Int], NEW g \in [S -> Int],
         \A x \in S : f[x] <= g[x]
  PROVE  SumFunction(f) <= SumFunction(g)
BY SumMonotone DEF SumFunction

(* A function that is 0 everywhere has the sum 0, over any part of it.     *)
THEOREM SumZeroOn ==
  ASSUME NEW S, IsFiniteSet(S), NEW T \in SUBSET S
  PROVE  SumFunctionOnSet([x \in S |-> 0], T) = 0
<1> DEFINE zero == [x \in S |-> 0]
           none == [s \in SUBSET S |-> 0]
<1>0. zero \in [S -> Int]
  OBVIOUS
<1>1. PICK g \in [SUBSET S -> Int] : FoldedBy(zero, g, S)
  <2> HIDE DEF zero, none
  <2> QED
    BY <1>0, SumIsFold
<1>2. IsSum(zero, none, S)
  BY DEF IsSum, SumStep, First
<1> HIDE DEF zero, none
<1>3. \A s \in SUBSET S : none[s] = g[s]
  BY <1>1, <1>2, SumUnique DEF FoldedBy
<1>4. SumFunctionOnSet(zero, T) = 0
  BY <1>1, <1>3 DEF FoldedBy, none
<1> QED
  BY <1>4 DEF zero

THEOREM SumZero ==
  ASSUME NEW S, IsFiniteSet(S)
  PROVE  SumFunction([x \in S |-> 0]) = 0
BY SumZeroOn DEF SumFunction

(* Sums of natural numbers are natural.                                    *)
THEOREM SumTyped ==
  ASSUME NEW S, IsFiniteSet(S)
  PROVE  /\ \A f \in [S -> Int] : SumFunction(f) \in Int
         /\ \A f \in [S -> Nat] : SumFunction(f) \in Nat
<1>1. ASSUME NEW f \in [S -> Int]
      PROVE  SumFunction(f) \in Int
  BY SumType DEF SumFunction
<1>2. ASSUME NEW f \in [S -> Nat]
      PROVE  SumFunction(f) \in Nat
  <2>1. f \in [S -> Int] /\ \A x \in S : 0 <= f[x]
    OBVIOUS
  <2>2. SumFunction([x \in S |-> 0]) <= SumFunction(f)
    BY <2>1, SumAtMost
  <2> QED
    BY <1>1, <2>1, <2>2, SumZero
<1> QED
  BY <1>1, <1>2

(* No value is greater than the sum of natural numbers it is part of.      *)
THEOREM SumCovers ==
  ASSUME NEW S, IsFiniteSet(S), NEW f \in [S -> Nat], NEW x \in S
  PROVE  f[x] <= SumFunction(f)
<1> DEFINE T == S \ {x}
           zero == [y \in S |-> 0]
<1>1. /\ f \in [S -> Int] /\ zero \in [S -> Int] /\ T \in SUBSET S /\ S \in SUBSET S
      /\ DOMAIN f = S /\ f[x] \in Int /\ \A y \in T : zero[y] <= f[y]
  OBVIOUS
<1>2. SumFunctionOnSet(f, S) = f[x] + SumFunctionOnSet(f, T)
  BY <1>1, SumRemove
<1>3. SumFunctionOnSet(zero, T) = 0
  BY SumZeroOn
<1> HIDE DEF zero, T
<1>4. SumFunctionOnSet(zero, T) <= SumFunctionOnSet(f, T) /\ SumFunctionOnSet(f, T) \in Int
  BY <1>1, SumMonotone, SumType
<1>5. f[x] <= SumFunctionOnSet(f, S)
  BY <1>1, <1>2, <1>3, <1>4
<1> QED
  BY <1>1, <1>5 DEF SumFunction

(* A finite set of naturals that is not empty has a greatest element: its  *)
(* sum is a bound, and the least bound is an element.                      *)
THEOREM GreatestNatural ==
  ASSUME NEW S \in SUBSET Nat, IsFiniteSet(S), S # {}
  PROVE  \E m \in S : \A x \in S : x <= m
<1> DEFINE id == [x \in S |-> x]
           Bound == {n \in Nat : \A x \in S : x <= n}
<1>1. id \in [S -> Nat] /\ \A x \in S : id[x] = x
  OBVIOUS
<1> HIDE DEF id
<1>2. \A x \in S : id[x] <= SumFunction(id)
  BY <1>1, SumCovers
<1>3. SumFunction(id) \in Bound
  BY <1>1, <1>2, SumTyped
<1>4. PICK n \in Bound : \A m \in Bound : n <= m
  BY <1>3, LeastNatural
<1>5. n \in S
  <2>1. SUFFICES ASSUME n \notin S PROVE FALSE
    OBVIOUS
  <2>2. \A x \in S : x \in Nat /\ x <= n - 1
    BY <1>4, <2>1
  <2>3. n - 1 \in Bound
    <3>1. n - 1 \in Nat
      <4>1. PICK x \in S : x \in Nat /\ x <= n - 1
        BY <2>2
      <4> QED
        BY <1>4, <4>1
    <3> QED
      BY <2>2, <3>1
  <2> QED
    BY <1>4, <2>3
<1> QED
  BY <1>4, <1>5
=============================================================================
