---------------------------- MODULE SumTheorems ----------------------------
(***************************************************************************)
(* The sum of the values of a function over a finite set, SumFunctionOnSet *)
(* of the community modules, which the models add money and shares up      *)
(* with: it is defined, it is an integer, and it does not matter which     *)
(* element is taken out first.                                             *)
(*                                                                         *)
(* The induction theorems of the library take the property to be proved as *)
(* an operator.  Here an induction is a proof by least counterexample: the *)
(* set of the sizes at which a statement fails, were it not empty, would   *)
(* have a least member (WFMin, whose parameters are sets).                 *)
(***************************************************************************)
EXTENDS Functions, Integers, FiniteSets, FiniteSetTheorems, WellFoundedInduction, TLAPS

\* The element a sum takes next, and what it leaves.
Pick(s) == CHOOSE x \in s : TRUE
Rest(s) == s \ {Pick(s)}

\* g gives the sum of f over every subset of S.
IsSum(g, f, S) ==
  g = [s \in SUBSET S |-> IF s = {} THEN 0 ELSE f[Pick(s)] + g[Rest(s)]]

\* A sum is the value at S of a function that satisfies its recursive equation.
LEMMA Unfold ==
  ASSUME NEW f, NEW S
  PROVE  SumFunctionOnSet(f, S) = (CHOOSE g : IsSum(g, f, S))[S]
BY DEF SumFunctionOnSet, FoldFunctionOnSet, MapThenFoldSet, IsSum, Pick, Rest

-----------------------------------------------------------------------------
(* Least counterexamples, and the function that sums.                      *)

\* The order of the natural numbers, as a set of pairs.
Below == {p \in Nat \X Nat : p[1] < p[2]}

\* A set of natural numbers that is not empty has a least element.
LEMMA LeastCounterexample ==
  ASSUME NEW T \in SUBSET Nat, T # {}
  PROVE  \E n \in T : \A m \in T : n <= m
<1>1. IsWellFoundedOn(Below, Nat)
  BY NatLessThanWellFounded DEF OpToRel, Below
<1>2. PICK n \in T : \A m \in T : ~(<<m, n>> \in Below)
  BY <1>1, WFMin
<1>3. ASSUME NEW m \in T  PROVE  n <= m
  <2>1. n \in Nat /\ m \in Nat
    OBVIOUS
  <2>2. ~(m < n)
    BY <1>2, <2>1 DEF Below
  <2>3. QED
    BY <2>1, <2>2
<1>4. QED
  BY <1>3

\* The subsets of S of at most n elements.
Small(S, n) == {s \in SUBSET S : Cardinality(s) <= n}

\* g gives the sum of f over those.
SumUpTo(g, f, S, n) ==
  g = [s \in Small(S, n) |-> IF s = {} THEN 0 ELSE f[Pick(s)] + g[Rest(s)]]

\* What is left is finite and one smaller.
LEMMA RestSmaller ==
  ASSUME NEW s, IsFiniteSet(s), s # {}
  PROVE  /\ Pick(s) \in s /\ IsFiniteSet(Rest(s))
         /\ Cardinality(s) \in Nat /\ Cardinality(Rest(s)) = Cardinality(s) - 1
<1>1. Pick(s) \in s
  BY DEF Pick
<1>2. QED
  BY <1>1, FS_RemoveElement, FS_CardinalityType DEF Rest

\* The recursive equation has a solution on the subsets of any size.
LEMMA SumUpToExists ==
  ASSUME NEW f, NEW S, IsFiniteSet(S), NEW n \in Nat
  PROVE  \E g : SumUpTo(g, f, S, n)
<1> DEFINE Bad == {m \in Nat : ~ \E g : SumUpTo(g, f, S, m)}
<1>1. SUFFICES ASSUME Bad # {} PROVE FALSE
  OBVIOUS
<1>2. PICK m \in Bad : \A k \in Bad : m <= k
  BY <1>1, LeastCounterexample
<1>3. m # 0
  <2>1. SUFFICES ASSUME m = 0 PROVE \E g : SumUpTo(g, f, S, m)
    BY <1>2
  <2>2. \A s \in Small(S, 0) : s = {}
    BY FS_Subset, FS_EmptySet, FS_CardinalityType DEF Small
  <2>3. SumUpTo([s \in Small(S, 0) |-> 0], f, S, 0)
    BY <2>2 DEF SumUpTo
  <2>4. QED
    BY <2>1, <2>3
<1>4. m - 1 \in Nat /\ m - 1 \notin Bad
  BY <1>2, <1>3
<1>5. PICK g : SumUpTo(g, f, S, m - 1)
  BY <1>4
<1> DEFINE h == [s \in Small(S, m) |-> IF s = {} THEN 0 ELSE f[Pick(s)] + g[Rest(s)]]
<1>6. ASSUME NEW s \in Small(S, m), s # {}
      PROVE  Rest(s) \in Small(S, m - 1) /\ Rest(s) \in Small(S, m)
  <2>1. s \in SUBSET S /\ IsFiniteSet(s) /\ Cardinality(s) <= m
    BY FS_Subset DEF Small
  <2>2. Rest(s) \in SUBSET S
    BY <2>1 DEF Rest
  <2>3. QED
    BY <1>4, <1>6, <2>1, <2>2, RestSmaller DEF Small
<1>7. ASSUME NEW s \in Small(S, m - 1)  PROVE  h[s] = g[s]
  <2>1. s \in Small(S, m)
    BY <1>4, FS_Subset, FS_CardinalityType DEF Small
  <2>2. h[s] = IF s = {} THEN 0 ELSE f[Pick(s)] + g[Rest(s)]
    BY <2>1
  <2>3. g[s] = IF s = {} THEN 0 ELSE f[Pick(s)] + g[Rest(s)]
    BY <1>5, <1>7 DEF SumUpTo
  <2>4. QED
    BY <2>2, <2>3
<1>8. SumUpTo(h, f, S, m)
  <2>1. h = [s \in Small(S, m) |-> IF s = {} THEN 0 ELSE f[Pick(s)] + h[Rest(s)]]
    BY <1>6, <1>7
  <2>2. QED
    BY <2>1 DEF SumUpTo
<1>9. QED
  BY <1>2, <1>8

\* It has a solution on all subsets of a finite set.
LEMMA SumExists ==
  ASSUME NEW f, NEW S, IsFiniteSet(S)
  PROVE  \E g : IsSum(g, f, S)
<1> DEFINE n == Cardinality(S)
<1>1. n \in Nat
  BY FS_CardinalityType
<1>2. PICK g : SumUpTo(g, f, S, n)
  BY <1>1, SumUpToExists
<1>3. Small(S, n) = SUBSET S
  BY FS_Subset DEF Small
<1>4. QED
  BY <1>2, <1>3 DEF SumUpTo, IsSum

\* The sum is the value of one.
LEMMA SumIs ==
  ASSUME NEW f, NEW S, IsFiniteSet(S)
  PROVE  \E g : IsSum(g, f, S) /\ SumFunctionOnSet(f, S) = g[S]
<1>1. IsSum(CHOOSE g : IsSum(g, f, S), f, S)
  BY SumExists
<1>2. QED
  BY <1>1, Unfold

\* What the equation says of a subset.
LEMMA SumStep ==
  ASSUME NEW f, NEW S, NEW g, IsSum(g, f, S), NEW s \in SUBSET S
  PROVE  g[s] = IF s = {} THEN 0 ELSE f[Pick(s)] + g[Rest(s)]
BY DEF IsSum

\* Solutions over a set and over a subset of it agree where both are defined.
LEMMA SumAgrees ==
  ASSUME NEW f, NEW S, IsFiniteSet(S), NEW T \in SUBSET S,
         NEW g, IsSum(g, f, S), NEW h, IsSum(h, f, T), NEW s \in SUBSET T
  PROVE  g[s] = h[s]
<1> DEFINE Bad == {m \in Nat : \E t \in SUBSET T : Cardinality(t) = m /\ g[t] # h[t]}
<1>1. SUFFICES ASSUME Bad # {} PROVE FALSE
  BY FS_Subset, FS_CardinalityType
<1>2. PICK m \in Bad : \A k \in Bad : m <= k
  BY <1>1, LeastCounterexample
<1>3. PICK t \in SUBSET T : Cardinality(t) = m /\ g[t] # h[t]
  BY <1>2
<1>4. IsFiniteSet(t) /\ t \in SUBSET S
  BY <1>3, FS_Subset
<1>5. g[t] = IF t = {} THEN 0 ELSE f[Pick(t)] + g[Rest(t)]
  BY <1>4, SumStep
<1>6. h[t] = IF t = {} THEN 0 ELSE f[Pick(t)] + h[Rest(t)]
  BY SumStep
<1>7. t # {}
  BY <1>3, <1>5, <1>6
<1>8. /\ Rest(t) \in SUBSET T /\ m \in Nat
      /\ Cardinality(Rest(t)) = m - 1 /\ m - 1 \in Nat
  BY <1>3, <1>4, <1>7, RestSmaller, FS_CardinalityType DEF Rest
<1>9. g[Rest(t)] = h[Rest(t)]
  BY <1>2, <1>8
<1>10. QED
  BY <1>3, <1>5, <1>6, <1>9

-----------------------------------------------------------------------------
(* The facts the proofs about the models cite.                             *)

\* There is nothing to add up.
THEOREM SumEmpty ==
  ASSUME NEW f
  PROVE  SumFunctionOnSet(f, {}) = 0
BY SumIs, SumStep, FS_EmptySet

\* The element that is taken first.
LEMMA SumPick ==
  ASSUME NEW f, NEW S, IsFiniteSet(S), S # {}
  PROVE  SumFunctionOnSet(f, S) = f[Pick(S)] + SumFunctionOnSet(f, Rest(S))
<1>1. Rest(S) \in SUBSET S /\ IsFiniteSet(Rest(S))
  BY RestSmaller DEF Rest
<1>2. PICK g : IsSum(g, f, S) /\ SumFunctionOnSet(f, S) = g[S]
  BY SumIs
<1>3. PICK h : IsSum(h, f, Rest(S)) /\ SumFunctionOnSet(f, Rest(S)) = h[Rest(S)]
  BY <1>1, SumIs
<1>4. g[Rest(S)] = h[Rest(S)]
  BY <1>1, <1>2, <1>3, SumAgrees
<1>5. QED
  BY <1>2, <1>3, <1>4, SumStep

\* A sum of integers is an integer.
THEOREM SumInt ==
  ASSUME NEW f, NEW S, IsFiniteSet(S), \A x \in S : f[x] \in Int
  PROVE  SumFunctionOnSet(f, S) \in Int
<1> DEFINE Bad == {m \in Nat : \E t \in SUBSET S :
                     Cardinality(t) = m /\ SumFunctionOnSet(f, t) \notin Int}
<1>1. SUFFICES ASSUME Bad # {} PROVE FALSE
  BY FS_CardinalityType
<1>2. PICK m \in Bad : \A k \in Bad : m <= k
  BY <1>1, LeastCounterexample
<1>3. PICK t \in SUBSET S : Cardinality(t) = m /\ SumFunctionOnSet(f, t) \notin Int
  BY <1>2
<1>0. SumFunctionOnSet(f, {}) \in Int
  BY SumEmpty, 0 \in Int
<1>4. IsFiniteSet(t) /\ t # {}
  BY <1>0, <1>3, FS_Subset
<1>5. /\ Rest(t) \in SUBSET S /\ m \in Nat /\ Pick(t) \in S
      /\ Cardinality(Rest(t)) = m - 1 /\ m - 1 \in Nat
  BY <1>3, <1>4, RestSmaller, FS_CardinalityType DEF Rest
<1>6. SumFunctionOnSet(f, Rest(t)) \in Int
  BY <1>2, <1>5
<1>7. QED
  BY <1>3, <1>4, <1>5, <1>6, SumPick

\* Any element may be taken out first.
THEOREM SumRemove ==
  ASSUME NEW f, NEW S, IsFiniteSet(S), \A y \in S : f[y] \in Int, NEW x \in S
  PROVE  SumFunctionOnSet(f, S) = f[x] + SumFunctionOnSet(f, S \ {x})
<1> DEFINE Sum(t) == SumFunctionOnSet(f, t)
           Good(t) == \A y \in t : Sum(t) = f[y] + Sum(t \ {y})
           Bad == {m \in Nat : \E t \in SUBSET S : Cardinality(t) = m /\ ~Good(t)}
<1>1. SUFFICES ASSUME Bad # {} PROVE FALSE
  <2>1. Cardinality(S) \in Nat /\ Good(S)
    BY <1>1, FS_CardinalityType
  <2>2. QED
    BY <2>1
<1>2. PICK m \in Bad : \A k \in Bad : m <= k
  BY <1>1, LeastCounterexample
<1> HIDE DEF Good
<1>3. PICK t \in SUBSET S : Cardinality(t) = m /\ ~Good(t)
  BY <1>2
<1>4. PICK y \in t : Sum(t) # f[y] + Sum(t \ {y})
  BY <1>3 DEF Good
<1>5. IsFiniteSet(t) /\ t # {}
  BY <1>4, FS_Subset
<1> DEFINE u == t \ {y}
           x0 == Pick(t)
<1>6. /\ Rest(t) \in SUBSET S /\ m \in Nat /\ x0 \in t /\ IsFiniteSet(Rest(t))
      /\ Cardinality(Rest(t)) = m - 1 /\ m - 1 \in Nat
  BY <1>3, <1>5, RestSmaller, FS_CardinalityType DEF Rest
<1>7. Sum(t) = f[x0] + Sum(Rest(t))
  BY <1>5, SumPick
<1>8. y # x0
  BY <1>4, <1>7 DEF Rest
<1>9. y \in Rest(t) /\ x0 \in u
  BY <1>4, <1>6, <1>8 DEF Rest
<1>10. /\ u \in SUBSET S /\ Cardinality(u) = m - 1 /\ IsFiniteSet(u)
       /\ u \ {x0} = Rest(t) \ {y}
  BY <1>3, <1>5, FS_RemoveElement DEF Rest
<1>11. m - 1 \notin Bad
  BY <1>2, <1>6
<1>12. Good(Rest(t)) /\ Good(u)
  BY <1>6, <1>10, <1>11
<1> HIDE DEF Sum, u, x0, Bad
<1>13. Sum(Rest(t)) = f[y] + Sum(Rest(t) \ {y})
  BY <1>9, <1>12 DEF Good
<1>14. Sum(u) = f[x0] + Sum(Rest(t) \ {y})
  BY <1>9, <1>10, <1>12 DEF Good
<1>15. Sum(Rest(t) \ {y}) \in Int
  BY <1>6, <1>10, FS_Subset, SumInt DEF Sum
<1>16. f[y] \in Int /\ f[x0] \in Int
  BY <1>4, <1>6
<1>17. Sum(t) = f[y] + Sum(u)
  BY <1>7, <1>13, <1>14, <1>15, <1>16
<1>18. QED
  BY <1>4, <1>17 DEF u

\* A sum depends on the function where it is summed, and nowhere else.
THEOREM SumSame ==
  ASSUME NEW f, NEW h, NEW S, IsFiniteSet(S), \A y \in S : f[y] = h[y]
  PROVE  SumFunctionOnSet(f, S) = SumFunctionOnSet(h, S)
<1> DEFINE Bad == {m \in Nat : \E t \in SUBSET S :
                /\ Cardinality(t) = m
                /\ SumFunctionOnSet(f, t) # SumFunctionOnSet(h, t)}
<1>1. SUFFICES ASSUME Bad # {} PROVE FALSE
  BY FS_CardinalityType
<1>2. PICK m \in Bad : \A k \in Bad : m <= k
  BY <1>1, LeastCounterexample
<1>3. PICK t \in SUBSET S : /\ Cardinality(t) = m
                            /\ SumFunctionOnSet(f, t) # SumFunctionOnSet(h, t)
  BY <1>2
<1>4. IsFiniteSet(t) /\ t # {}
  BY <1>3, FS_Subset, SumEmpty
<1>5. /\ Rest(t) \in SUBSET S /\ m \in Nat /\ Pick(t) \in S
      /\ Cardinality(Rest(t)) = m - 1 /\ m - 1 \in Nat
  BY <1>3, <1>4, RestSmaller, FS_CardinalityType DEF Rest
<1>6. SumFunctionOnSet(f, Rest(t)) = SumFunctionOnSet(h, Rest(t))
  BY <1>2, <1>5
<1>7. QED
  BY <1>3, <1>4, <1>5, <1>6, SumPick

\* An element that is not in the set yet.
THEOREM SumAdd ==
  ASSUME NEW f, NEW S, IsFiniteSet(S), NEW x, x \notin S,
         \A y \in S \cup {x} : f[y] \in Int
  PROVE  SumFunctionOnSet(f, S \cup {x}) = f[x] + SumFunctionOnSet(f, S)
<1>1. IsFiniteSet(S \cup {x}) /\ (S \cup {x}) \ {x} = S
  BY FS_AddElement
<1>2. QED
  BY <1>1, SumRemove

\* Two sets that do not meet.
THEOREM SumUnion ==
  ASSUME NEW f, NEW S, IsFiniteSet(S), NEW T, IsFiniteSet(T), S \cap T = {},
         \A y \in S \cup T : f[y] \in Int
  PROVE  SumFunctionOnSet(f, S \cup T) = SumFunctionOnSet(f, S) + SumFunctionOnSet(f, T)
<1> DEFINE Sum(t) == SumFunctionOnSet(f, t)
           Good(t) == Sum(S \cup t) = Sum(S) + Sum(t)
           Bad == {m \in Nat : \E t \in SUBSET T : Cardinality(t) = m /\ ~Good(t)}
<1>1. SUFFICES ASSUME Bad # {} PROVE FALSE
  <2>1. Cardinality(T) \in Nat /\ Good(T)
    BY <1>1, FS_CardinalityType
  <2>2. QED
    BY <2>1
<1>2. PICK m \in Bad : \A k \in Bad : m <= k
  BY <1>1, LeastCounterexample
<1> HIDE DEF Good
<1>3. PICK t \in SUBSET T : Cardinality(t) = m /\ ~Good(t)
  BY <1>2
<1>4. IsFiniteSet(t) /\ Sum(S) \in Int
  BY FS_Subset, SumInt
<1>5. t # {}
  <2>1. Sum({}) = 0 /\ S \cup {} = S
    BY SumEmpty
  <2> HIDE DEF Sum
  <2>2. Good({})
    BY <1>4, <2>1 DEF Good
  <2>3. QED
    BY <1>3, <2>2
<1> DEFINE x == Pick(t)
           u == Rest(t)
<1>6. /\ x \in t /\ IsFiniteSet(u) /\ u \in SUBSET T /\ x \notin u
      /\ m \in Nat /\ Cardinality(u) = m - 1 /\ m - 1 \in Nat
  BY <1>3, <1>4, <1>5, RestSmaller, FS_CardinalityType DEF Rest
<1>7. Good(u)
  <2>1. m - 1 \notin Bad
    BY <1>2, <1>6
  <2>2. QED
    BY <1>6, <2>1
<1>8. t \ {x} = u /\ (S \cup t) \ {x} = S \cup u /\ x \in S \cup t
  BY <1>6 DEF Rest
<1>9. IsFiniteSet(S \cup t)
  BY <1>4, FS_Union
<1> HIDE DEF u, x
<1>10. Sum(t) = f[x] + Sum(u)
  BY <1>4, <1>6, <1>8, SumRemove
<1>11. Sum(S \cup t) = f[x] + Sum(S \cup u)
  BY <1>8, <1>9, SumRemove
<1>12. Sum(u) \in Int /\ f[x] \in Int
  BY <1>6, SumInt
<1> HIDE DEF Sum
<1>13. Good(t)
  BY <1>4, <1>7, <1>10, <1>11, <1>12 DEF Good
<1>14. QED
  BY <1>3, <1>13

\* One element comes, goes or changes its value.
THEOREM SumChange ==
  ASSUME NEW f, NEW S, IsFiniteSet(S), \A y \in S : f[y] \in Int,
         NEW g, NEW T, \A y \in T : g[y] \in Int,
         NEW x, S \ {x} = T \ {x}, \A y \in S \ {x} : f[y] = g[y]
  PROVE  /\ SumFunctionOnSet(f, S) \in Int /\ SumFunctionOnSet(g, T) \in Int
         /\ SumFunctionOnSet(g, T) =
              SumFunctionOnSet(f, S) - (IF x \in S THEN f[x] ELSE 0)
                                     + (IF x \in T THEN g[x] ELSE 0)
<1>1. IsFiniteSet(S \ {x}) /\ IsFiniteSet(T)
  <2>1. IsFiniteSet(S \ {x})
    BY FS_Subset
  <2>2. IsFiniteSet((T \ {x}) \cup {x})
    BY <2>1, FS_AddElement
  <2>3. QED
    BY <2>1, <2>2, FS_Subset
<1>2. SumFunctionOnSet(f, S \ {x}) = SumFunctionOnSet(g, S \ {x})
  BY <1>1, SumSame
<1>3. SumFunctionOnSet(f, S \ {x}) \in Int
  BY <1>1, SumInt
<1>4. SumFunctionOnSet(f, S) \in Int /\ SumFunctionOnSet(g, T) \in Int
  BY <1>1, SumInt
<1> DEFINE fx == IF x \in S THEN f[x] ELSE 0
           gx == IF x \in T THEN g[x] ELSE 0
<1>5. fx \in Int /\ gx \in Int
  OBVIOUS
<1>6. SumFunctionOnSet(f, S) = fx + SumFunctionOnSet(f, S \ {x})
  <2>1. CASE x \in S
    BY <2>1, SumRemove
  <2>2. CASE x \notin S
    <3>1. S \ {x} = S
      BY <2>2
    <3>2. SumFunctionOnSet(f, S) = 0 + SumFunctionOnSet(f, S \ {x})
      <4> HIDE DEF fx
      <4>1. SumFunctionOnSet(f, S \ {x}) = SumFunctionOnSet(f, S)
        BY <3>1, Zenon
      <4>2. QED
        BY <1>4, <4>1
    <3>3. QED
      BY <2>2, <3>2
  <2>3. QED
    BY <2>1, <2>2
<1>7. SumFunctionOnSet(g, T) = gx + SumFunctionOnSet(g, T \ {x})
  <2>1. CASE x \in T
    BY <1>1, <2>1, SumRemove
  <2>2. CASE x \notin T
    <3>1. T \ {x} = T
      BY <2>2
    <3>2. SumFunctionOnSet(g, T) = 0 + SumFunctionOnSet(g, T \ {x})
      <4> HIDE DEF gx
      <4>1. SumFunctionOnSet(g, T \ {x}) = SumFunctionOnSet(g, T)
        BY <3>1, Zenon
      <4>2. QED
        BY <1>4, <4>1
    <3>3. QED
      BY <2>2, <3>2
  <2>3. QED
    BY <2>1, <2>2
<1>8. SumFunctionOnSet(g, T \ {x}) = SumFunctionOnSet(f, S \ {x})
  BY <1>2
<1> HIDE DEF fx, gx
<1>9. SumFunctionOnSet(g, T) = SumFunctionOnSet(f, S) - fx + gx
  BY <1>3, <1>4, <1>5, <1>6, <1>7, <1>8
<1>10. QED
  BY <1>4, <1>9 DEF fx, gx

\* No term is below zero, so the sum is not.
THEOREM SumNat ==
  ASSUME NEW f, NEW S, IsFiniteSet(S), \A y \in S : f[y] \in Nat
  PROVE  SumFunctionOnSet(f, S) \in Nat
<1> DEFINE Bad == {m \in Nat : \E t \in SUBSET S :
                     Cardinality(t) = m /\ SumFunctionOnSet(f, t) \notin Nat}
<1>1. SUFFICES ASSUME Bad # {} PROVE FALSE
  BY FS_CardinalityType
<1>2. PICK m \in Bad : \A k \in Bad : m <= k
  BY <1>1, LeastCounterexample
<1>3. PICK t \in SUBSET S : Cardinality(t) = m /\ SumFunctionOnSet(f, t) \notin Nat
  BY <1>2
<1>4. SumFunctionOnSet(f, {}) \in Nat
  BY SumEmpty, 0 \in Nat
<1>5. IsFiniteSet(t) /\ t # {}
  BY <1>3, <1>4, FS_Subset
<1>6. /\ Rest(t) \in SUBSET S /\ m \in Nat /\ Pick(t) \in S
      /\ Cardinality(Rest(t)) = m - 1 /\ m - 1 \in Nat
  BY <1>3, <1>5, RestSmaller, FS_CardinalityType DEF Rest
<1>7. SumFunctionOnSet(f, Rest(t)) \in Nat
  BY <1>2, <1>6
<1>8. QED
  BY <1>3, <1>5, <1>6, <1>7, SumPick
===========================================================================
