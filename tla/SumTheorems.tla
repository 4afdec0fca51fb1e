---------------------------- MODULE SumTheorems ----------------------------
(***************************************************************************)
(* What the proofs about the token and the market need to know of          *)
(* SumFunction, the sum over a function's domain of the community modules. *)
(***************************************************************************)
EXTENDS Integers, FiniteSets, Functions, FiniteSetTheorems, TLAPS

\* Strict inclusion is well founded on the subsets of a finite set: a nonempty
\* collection of them has a minimal member.  The proofs below take a minimal
\* counterexample, which needs no induction rule with a predicate parameter.
LEMMA MinimalSubset ==
  ASSUME NEW U, IsFiniteSet(U), NEW C, C \subseteq SUBSET U, C # {}
  PROVE  \E T \in C : \A t \in C : ~ (t \subseteq T /\ t # T)
<1>1. IsWellFoundedOn(StrictSubsetOrdering(U), SUBSET U)
  BY FS_StrictSubsetOrderingWellFounded, FS_FiniteSubsetsOfFinite
<1>2. \E T \in C : \A t \in C : ~ (<<t, T>> \in StrictSubsetOrdering(U))
  BY <1>1, WFMin
<1> QED BY <1>2 DEF StrictSubsetOrdering

\* The element that the folds of the community modules take first.
Pick(T) == CHOOSE x \in T : TRUE

\* g gives the sum of f over every subset of U, taken in the order of Pick.
IsSumOn(g, f, U) ==
  \A T \in SUBSET U :
     g[T] = IF T = {} THEN 0 ELSE f[Pick(T)] + g[T \ {Pick(T)}]

\* The equations of IsSumOn determine the sums.
LEMMA SumOnUnique ==
  ASSUME NEW U, IsFiniteSet(U), NEW f \in [U -> Int],
         NEW g, NEW h, IsSumOn(g, f, U), IsSumOn(h, f, U)
  PROVE  \A T \in SUBSET U : g[T] = h[T]
<1> DEFINE C == {T \in SUBSET U : g[T] # h[T]}
<1> SUFFICES ASSUME C # {} PROVE FALSE  OBVIOUS
<1>1. PICK T \in C : \A t \in C : ~ (t \subseteq T /\ t # T)
  <2>1. C \subseteq SUBSET U  OBVIOUS
  <2> HIDE DEF C
  <2> QED BY <2>1, MinimalSubset
<1>2. T # {}
  BY <1>1 DEF IsSumOn
<1>3. Pick(T) \in T
  BY <1>2 DEF Pick
<1>4. g[T \ {Pick(T)}] = h[T \ {Pick(T)}]
  BY <1>1, <1>3
<1> QED BY <1>1, <1>2, <1>4 DEF IsSumOn

\* The equations of IsSumOn have an integer solution.
LEMMA SumOnExists ==
  ASSUME NEW U, IsFiniteSet(U), NEW f \in [U -> Int]
  PROVE  \E g \in [SUBSET U -> Int] : IsSumOn(g, f, U)
<1> DEFINE G(T) == \E g \in [SUBSET T -> Int] : IsSumOn(g, f, T)
           C == {T \in SUBSET U : ~ G(T)}
<1> SUFFICES ASSUME C # {} PROVE FALSE  OBVIOUS
<1>1. PICK T \in C : \A t \in C : ~ (t \subseteq T /\ t # T)
  <2> HIDE DEF C
  <2>1. C \subseteq SUBSET U BY DEF C
  <2> QED BY <2>1, MinimalSubset
<1> DEFINE Sum(t) == CHOOSE g \in [SUBSET t -> Int] : IsSumOn(g, f, t)
           s == [t \in SUBSET T |->
                   IF t = {} THEN 0 ELSE f[Pick(t)] + Sum(t \ {Pick(t)})[t \ {Pick(t)}]]
<1>2. \A t \in SUBSET T : t # T => /\ Sum(t) \in [SUBSET t -> Int]
                                   /\ IsSumOn(Sum(t), f, t)
  BY <1>1
<1> HIDE DEF Sum, C
<1>3. ASSUME NEW t \in SUBSET T, t # {}
      PROVE  Pick(t) \in t /\ t \ {Pick(t)} \in SUBSET T /\ t \ {Pick(t)} # T
  BY <1>3 DEF Pick
<1>4. T \in SUBSET U BY <1>1 DEF C
<1>5. s \in [SUBSET T -> Int]
  <2> SUFFICES ASSUME NEW t \in SUBSET T, t # {}
               PROVE  f[Pick(t)] + Sum(t \ {Pick(t)})[t \ {Pick(t)}] \in Int
    OBVIOUS
  <2>1. Pick(t) \in U BY <1>3, <1>4
  <2>2. t \ {Pick(t)} \in SUBSET T /\ t \ {Pick(t)} # T BY <1>3
  <2>3. Sum(t \ {Pick(t)}) \in [SUBSET (t \ {Pick(t)}) -> Int] BY <1>2, <2>2
  <2>4. Sum(t \ {Pick(t)})[t \ {Pick(t)}] \in Int BY <2>3
  <2> QED BY <2>1, <2>4
<1>6. \A t \in SUBSET T : t # T => s[t] = Sum(t)[t]
  <2> SUFFICES ASSUME NEW t \in SUBSET T, t # T
               PROVE  s[t] = Sum(t)[t]
    OBVIOUS
  <2>1. Sum(t)[t] = IF t = {} THEN 0 ELSE f[Pick(t)] + Sum(t)[t \ {Pick(t)}]
    BY <1>2 DEF IsSumOn
  <2>2. CASE t = {}
    BY <2>1, <2>2
  <2>3. CASE t # {}
    <3> DEFINE r == t \ {Pick(t)}
    <3>1. r \in SUBSET T /\ r # T /\ r \subseteq t BY <1>3, <2>3
    <3>2. IsSumOn(Sum(r), f, r) BY <1>2, <3>1
    <3>3. IsSumOn(Sum(t), f, r) BY <1>2, <3>1 DEF IsSumOn
    <3>4. IsFiniteSet(r) BY <3>1, <1>4, FS_Subset
    <3>5. f \in [U -> Int] /\ r \subseteq U BY <3>1, <1>4
    <3>6. Sum(r)[r] = Sum(t)[r]
      <4> DEFINE fr == [x \in r |-> f[x]]
      <4>1. fr \in [r -> Int] BY <3>5
      <4>2. \A q \in SUBSET r : q # {} => fr[Pick(q)] = f[Pick(q)]
        BY DEF Pick
      <4>3. IsSumOn(Sum(r), fr, r) BY <3>2, <4>2 DEF IsSumOn
      <4>4. IsSumOn(Sum(t), fr, r) BY <3>3, <4>2 DEF IsSumOn
      <4> HIDE DEF fr, r
      <4> QED BY <4>1, <4>3, <4>4, <3>4, SumOnUnique
    <3> QED BY <2>1, <2>3, <3>6
  <2> QED BY <2>2, <2>3
<1>7. IsSumOn(s, f, T)
  <2> SUFFICES ASSUME NEW t \in SUBSET T, t # {}
               PROVE  s[t] = f[Pick(t)] + s[t \ {Pick(t)}]
    BY DEF IsSumOn
  <2>1. s[t \ {Pick(t)}] = Sum(t \ {Pick(t)})[t \ {Pick(t)}]
    BY <1>3, <1>6
  <2> QED BY <2>1
<1> QED BY <1>1, <1>5, <1>7 DEF C

PartialSums(f) ==
  CHOOSE iter : iter = [s \in SUBSET DOMAIN f |->
                IF s = {} THEN 0
                ELSE f[CHOOSE x \in s : TRUE] + iter[s \ {CHOOSE x \in s : TRUE}]]

\* SumFunction is the partial sum over the whole domain.
LEMMA SumFunctionDef ==
  ASSUME NEW f PROVE SumFunction(f) = PartialSums(f)[DOMAIN f]
BY DEF SumFunction, SumFunctionOnSet, FoldFunctionOnSet, MapThenFoldSet, PartialSums

\* The recursive definition of the partial sums has the value it describes.
LEMMA PartialSumsDef ==
  ASSUME NEW U, IsFiniteSet(U), NEW f \in [U -> Int]
  PROVE  PartialSums(f) \in [SUBSET U -> Int] /\ IsSumOn(PartialSums(f), f, U)
<1>1. PICK g \in [SUBSET U -> Int] : IsSumOn(g, f, U)
  BY SumOnExists
<1>2. g = [s \in SUBSET DOMAIN f |->
                IF s = {} THEN 0
                ELSE f[CHOOSE x \in s : TRUE] + g[s \ {CHOOSE x \in s : TRUE}]]
  BY <1>1 DEF IsSumOn, Pick
<1>3. PartialSums(f) = [s \in SUBSET DOMAIN f |->
                IF s = {} THEN 0
                ELSE f[CHOOSE x \in s : TRUE] + PartialSums(f)[s \ {CHOOSE x \in s : TRUE}]]
  BY <1>2 DEF PartialSums
<1>4. IsSumOn(PartialSums(f), f, U)
  BY <1>3, Zenon DEF IsSumOn, Pick
<1>5. \A T \in SUBSET U : PartialSums(f)[T] = g[T]
  BY <1>1, <1>4, SumOnUnique
<1> QED BY <1>1, <1>3, <1>4, <1>5

\* Every partial sum is an integer.
LEMMA PartialSumsInt ==
  ASSUME NEW U, IsFiniteSet(U), NEW f \in [U -> Int], NEW T \in SUBSET U
  PROVE  PartialSums(f)[T] \in Int
<1>1. PartialSums(f) \in [SUBSET U -> Int]  BY PartialSumsDef
<1> QED BY <1>1

\* A partial sum may take any element first, not only the one Pick takes.
LEMMA PartialSumsRemove ==
  ASSUME NEW U, IsFiniteSet(U), NEW f \in [U -> Int]
  PROVE  \A T \in SUBSET U : \A x \in T :
            PartialSums(f)[T] = f[x] + PartialSums(f)[T \ {x}]
<1> DEFINE P == PartialSums(f)
           C == {T \in SUBSET U : \E x \in T : P[T] # f[x] + P[T \ {x}]}
<1> SUFFICES ASSUME C # {} PROVE FALSE  OBVIOUS
<1>0. P \in [SUBSET U -> Int] /\ IsSumOn(P, f, U)
  BY PartialSumsDef
<1> HIDE DEF P
<1>1. PICK T \in C : \A t \in C : ~ (t \subseteq T /\ t # T)
  <2>1. C \subseteq SUBSET U  OBVIOUS
  <2> HIDE DEF C
  <2> QED BY <2>1, MinimalSubset
<1>2. PICK x \in T : P[T] # f[x] + P[T \ {x}]
  OBVIOUS
<1> DEFINE y == Pick(T)
<1>3. y \in T BY DEF Pick
<1>4. P[T] = f[y] + P[T \ {y}]
  BY <1>0, <1>2 DEF IsSumOn
<1> HIDE DEF y
<1>5. x # y BY <1>2, <1>4
<1>6. T \ {y} \notin C /\ T \ {x} \notin C
  BY <1>1, <1>2, <1>3
<1>7. P[T \ {y}] = f[x] + P[(T \ {y}) \ {x}]
  BY <1>5, <1>6, <1>2, <1>3
<1>8. P[T \ {x}] = f[y] + P[(T \ {x}) \ {y}]
  BY <1>5, <1>6, <1>2, <1>3
<1> DEFINE r == P[(T \ {x}) \ {y}]
<1>9. (T \ {y}) \ {x} = (T \ {x}) \ {y}  OBVIOUS
<1>10. P[T \ {y}] = f[x] + r /\ P[T \ {x}] = f[y] + r
  BY <1>7, <1>8, <1>9
<1>11. T \in SUBSET U  OBVIOUS
<1>12. (T \ {x}) \ {y} \in SUBSET U  BY <1>11
<1>13. f[x] \in Int /\ f[y] \in Int /\ r \in Int
  BY <1>0, <1>2, <1>3, <1>11, <1>12
<1> HIDE DEF r, C
<1> QED BY <1>2, <1>4, <1>10, <1>13

\* A partial sum depends only on the values over its subset.
LEMMA PartialSumsAgree ==
  ASSUME NEW U, IsFiniteSet(U), NEW f \in [U -> Int], NEW h \in [U -> Int]
  PROVE  \A T \in SUBSET U : (\A x \in T : f[x] = h[x])
                                => PartialSums(f)[T] = PartialSums(h)[T]
<1> DEFINE P == PartialSums(f)
           Q == PartialSums(h)
           C == {T \in SUBSET U : (\A x \in T : f[x] = h[x]) /\ P[T] # Q[T]}
<1> SUFFICES ASSUME C # {} PROVE FALSE  OBVIOUS
<1>0. IsSumOn(P, f, U) /\ IsSumOn(Q, h, U)
  BY PartialSumsDef
<1> HIDE DEF P, Q
<1>1. PICK T \in C : \A t \in C : ~ (t \subseteq T /\ t # T)
  <2>1. C \subseteq SUBSET U  OBVIOUS
  <2> HIDE DEF C
  <2> QED BY <2>1, MinimalSubset
<1>2. T # {}  BY <1>0 DEF IsSumOn
<1>3. Pick(T) \in T BY <1>2 DEF Pick
<1>4. P[T \ {Pick(T)}] = Q[T \ {Pick(T)}]
  BY <1>1, <1>3
<1> QED BY <1>0, <1>2, <1>3, <1>4 DEF IsSumOn

\* The sum of an integer function with a finite domain is an integer.
THEOREM SumInt ==
  ASSUME NEW U, IsFiniteSet(U), NEW f \in [U -> Int]
  PROVE  SumFunction(f) \in Int
BY SumFunctionDef, PartialSumsInt

\* Replacing one value changes the sum by the difference: what a handler that
\* writes one account's balance or debt does to the sum over the accounts.
THEOREM SumExcept ==
  ASSUME NEW U, IsFiniteSet(U), NEW f \in [U -> Int], NEW a \in U, NEW v \in Int
  PROVE  SumFunction([f EXCEPT ![a] = v]) = SumFunction(f) - f[a] + v
<1> DEFINE h == [f EXCEPT ![a] = v]
<1>1. h \in [U -> Int] /\ h[a] = v /\ \A x \in U \ {a} : h[x] = f[x]
  OBVIOUS
<1>2. DOMAIN h = U /\ DOMAIN f = U  OBVIOUS
<1> HIDE DEF h
<1>3. PartialSums(f)[U] = f[a] + PartialSums(f)[U \ {a}]
  BY PartialSumsRemove
<1>4. PartialSums(h)[U] = v + PartialSums(h)[U \ {a}]
  BY <1>1, PartialSumsRemove
<1>5. PartialSums(h)[U \ {a}] = PartialSums(f)[U \ {a}]
  BY <1>1, PartialSumsAgree
<1>6. PartialSums(f)[U \ {a}] \in Int /\ f[a] \in Int
  BY PartialSumsInt
<1>7. SumFunction(h) = v + PartialSums(f)[U \ {a}]
  BY <1>2, <1>4, <1>5, SumFunctionDef
<1>8. SumFunction(f) = f[a] + PartialSums(f)[U \ {a}]
  BY <1>2, <1>3, SumFunctionDef
<1>9. SumFunction(h) = SumFunction(f) - f[a] + v
  BY <1>6, <1>7, <1>8
<1> QED BY <1>9 DEF h

\* The sum of a linear combination is the linear combination of the sums.
THEOREM SumLinear ==
  ASSUME NEW U, IsFiniteSet(U), NEW f \in [U -> Int], NEW h \in [U -> Int],
         NEW k \in [U -> Int], NEW c \in Int, 
         \A x \in U : k[x] = c * f[x] + h[x]
  PROVE  SumFunction(k) = c * SumFunction(f) + SumFunction(h)
<1> DEFINE P == PartialSums(f)
           Q == PartialSums(h)
           R == PartialSums(k)
           C == {T \in SUBSET U : R[T] # c * P[T] + Q[T]}
<1>0. /\ P \in [SUBSET U -> Int] /\ IsSumOn(P, f, U)
      /\ Q \in [SUBSET U -> Int] /\ IsSumOn(Q, h, U)
      /\ R \in [SUBSET U -> Int] /\ IsSumOn(R, k, U)
  BY PartialSumsDef
<1>a. DOMAIN f = U /\ DOMAIN h = U /\ DOMAIN k = U OBVIOUS
<1>b. SumFunction(f) = P[U] /\ SumFunction(h) = Q[U] /\ SumFunction(k) = R[U]
  BY <1>a, SumFunctionDef
<1> HIDE DEF P, Q, R
<1>1. C = {}
  <2> SUFFICES ASSUME C # {} PROVE FALSE OBVIOUS
  <2>1. PICK T \in C : \A t \in C : ~ (t \subseteq T /\ t # T)
    <3>1. C \subseteq SUBSET U  OBVIOUS
    <3> HIDE DEF C
    <3> QED BY <3>1, MinimalSubset
  <2>2. T # {}
    <3>1. P[{}] = 0 /\ Q[{}] = 0 /\ R[{}] = 0  BY <1>0 DEF IsSumOn
    <3>2. {} \notin C  BY <3>1
    <3> HIDE DEF C
    <3> QED BY <3>2, <2>1
  <2> DEFINE y == Pick(T)
             r == T \ {y}
  <2>3. y \in T BY <2>2 DEF Pick
  <2>4. P[T] = f[y] + P[r] /\ Q[T] = h[y] + Q[r] /\ R[T] = k[y] + R[r]
    BY <1>0, <2>2 DEF IsSumOn
  <2>5. R[r] = c * P[r] + Q[r]
    BY <2>1, <2>3
  <2>6. /\ f[y] \in Int /\ h[y] \in Int /\ P[r] \in Int /\ Q[r] \in Int
        /\ k[y] = c * f[y] + h[y]
    BY <1>0, <2>3
  <2> HIDE DEF y, r
  <2>7. c * (f[y] + P[r]) = c * f[y] + c * P[r]  BY <2>6
  <2>8. R[T] = c * P[T] + Q[T]
    BY <2>4, <2>5, <2>6, <2>7
  <2> QED BY <2>1, <2>8
<1> QED BY <1>1, <1>b

\* The sum of a nonnegative function is nonnegative.
THEOREM SumNonNegative ==
  ASSUME NEW U, IsFiniteSet(U), NEW f \in [U -> Int], \A x \in U : f[x] >= 0
  PROVE  SumFunction(f) >= 0
<1> DEFINE P == PartialSums(f)
           C == {T \in SUBSET U : ~ (P[T] >= 0)}
<1>0. P \in [SUBSET U -> Int] /\ IsSumOn(P, f, U)
  BY PartialSumsDef
<1>a. SumFunction(f) = P[U]
  <2>1. DOMAIN f = U OBVIOUS
  <2> QED BY <2>1, SumFunctionDef
<1> HIDE DEF P
<1>1. C = {}
  <2> SUFFICES ASSUME C # {} PROVE FALSE OBVIOUS
  <2>1. PICK T \in C : \A t \in C : ~ (t \subseteq T /\ t # T)
    <3>1. C \subseteq SUBSET U  OBVIOUS
    <3> HIDE DEF C
    <3> QED BY <3>1, MinimalSubset
  <2>2. T # {}
    <3>1. P[{}] = 0  BY <1>0 DEF IsSumOn
    <3>2. {} \notin C  BY <3>1
    <3> HIDE DEF C
    <3> QED BY <3>2, <2>1
  <2>3. Pick(T) \in T BY <2>2 DEF Pick
  <2>4. P[T] = f[Pick(T)] + P[T \ {Pick(T)}]
    BY <1>0, <2>2 DEF IsSumOn
  <2>5. P[T \ {Pick(T)}] >= 0 /\ P[T \ {Pick(T)}] \in Int
    BY <1>0, <2>1, <2>3
  <2> QED BY <2>1, <2>3, <2>4, <2>5
<1> QED BY <1>1, <1>a

\* No value of a nonnegative function exceeds the sum.
THEOREM SumMember ==
  ASSUME NEW U, IsFiniteSet(U), NEW f \in [U -> Int], NEW a \in U,
         \A x \in U : f[x] >= 0
  PROVE  f[a] <= SumFunction(f)
<1> DEFINE h == [f EXCEPT ![a] = 0]
<1>1. h \in [U -> Int] /\ \A x \in U : h[x] >= 0  OBVIOUS
<1>2. SumFunction(h) = SumFunction(f) - f[a] + 0
  <2>1. 0 \in Int  OBVIOUS
  <2> QED BY <2>1, SumExcept
<1> HIDE DEF h
<1>3. SumFunction(h) >= 0
  BY <1>1, SumNonNegative
<1> QED BY <1>2, <1>3, SumInt

\* The sum of two functions is the sum of their sums.
THEOREM SumPlus ==
  ASSUME NEW U, IsFiniteSet(U), NEW f \in [U -> Int], NEW h \in [U -> Int],
         NEW k \in [U -> Int], \A x \in U : k[x] = f[x] + h[x]
  PROVE  SumFunction(k) = SumFunction(f) + SumFunction(h)
<1>1. \A x \in U : k[x] = 1 * f[x] + h[x]  OBVIOUS
<1>2. SumFunction(k) = 1 * SumFunction(f) + SumFunction(h)
  BY <1>1, SumLinear
<1> QED BY <1>2, SumInt

\* The sum of the constant 0, of a contract's empty maps, is 0.
THEOREM SumConstZero ==
  ASSUME NEW U, IsFiniteSet(U)
  PROVE  SumFunction([x \in U |-> 0]) = 0
<1> DEFINE z == [x \in U |-> 0]
<1>1. z \in [U -> Int] /\ \A x \in U : z[x] = z[x] + z[x]  OBVIOUS
<1> HIDE DEF z
<1>2. SumFunction(z) = SumFunction(z) + SumFunction(z)
  BY <1>1, SumPlus
<1>3. SumFunction(z) \in Int  BY <1>1, SumInt
<1>4. \A s \in Int : s = s + s => s = 0  OBVIOUS
<1>5. SumFunction(z) = 0  BY <1>2, <1>3, <1>4, Zenon
<1> QED BY <1>5 DEF z

\* A multiple of one function that is nowhere more than another has no more
\* than the other's sum.
THEOREM SumScaledWithin ==
  ASSUME NEW U, IsFiniteSet(U), NEW f \in [U -> Int], NEW k \in [U -> Int],
         NEW c \in Int, \A x \in U : c * f[x] <= k[x]
  PROVE  c * SumFunction(f) <= SumFunction(k)
<1> DEFINE h == [x \in U |-> k[x] - c * f[x]]
<1>1. \A x \in U : c * f[x] \in Int /\ k[x] \in Int  OBVIOUS
<1>2. h \in [U -> Int] /\ \A x \in U : h[x] = k[x] - c * f[x]  BY <1>1
<1>3. \A x \in U : h[x] >= 0 /\ k[x] = c * f[x] + h[x]
  BY <1>1, <1>2
<1> HIDE DEF h
<1>4. SumFunction(k) = c * SumFunction(f) + SumFunction(h)
  BY <1>2, <1>3, SumLinear
<1>5. SumFunction(h) >= 0
  BY <1>2, <1>3, SumNonNegative
<1>6. c * SumFunction(f) \in Int /\ SumFunction(h) \in Int
  BY <1>2, SumInt
<1> QED BY <1>4, <1>5, <1>6

\* The sum of a function that is nowhere more than another is no more.
THEOREM SumWithin ==
  ASSUME NEW U, IsFiniteSet(U), NEW f \in [U -> Int], NEW k \in [U -> Int],
         \A x \in U : f[x] <= k[x]
  PROVE  SumFunction(f) <= SumFunction(k)
<1>1. \A x \in U : 1 * f[x] <= k[x]  OBVIOUS
<1>2. 1 * SumFunction(f) <= SumFunction(k)  BY <1>1, SumScaledWithin
<1> QED BY <1>2, SumInt

\* The sum of a difference is the difference of the sums.
THEOREM SumMinus ==
  ASSUME NEW U, IsFiniteSet(U), NEW f \in [U -> Int], NEW h \in [U -> Int],
         NEW k \in [U -> Int], \A x \in U : k[x] = f[x] - h[x]
  PROVE  SumFunction(k) = SumFunction(f) - SumFunction(h)
<1>1. \A x \in U : f[x] = k[x] + h[x]  OBVIOUS
<1>2. SumFunction(f) = SumFunction(k) + SumFunction(h)  BY <1>1, SumPlus
<1> QED BY <1>2, SumInt

\* Where the values fall by no more than two others, so do the sums.
THEOREM SumLoses ==
  ASSUME NEW U, IsFiniteSet(U), NEW f \in [U -> Int], NEW k \in [U -> Int],
         NEW r \in [U -> Int], NEW l \in [U -> Int],
         \A x \in U : k[x] >= f[x] - r[x] - l[x]
  PROVE  SumFunction(k) >= SumFunction(f) - SumFunction(r) - SumFunction(l)
<1> DEFINE g == [x \in U |-> f[x] - r[x]]
           h == [x \in U |-> g[x] - l[x]]
<1>1. g \in [U -> Int] /\ \A x \in U : g[x] = f[x] - r[x]  OBVIOUS
<1>2. SumFunction(g) = SumFunction(f) - SumFunction(r)  BY <1>1, SumMinus
<1>3. h \in [U -> Int] /\ \A x \in U : h[x] = g[x] - l[x]  BY <1>1
<1>4. SumFunction(h) = SumFunction(g) - SumFunction(l)  BY <1>1, <1>3, SumMinus
<1>5. \A x \in U : h[x] <= k[x]
  <2> TAKE x \in U
  <2>1. k[x] >= f[x] - r[x] - l[x] /\ h[x] = (f[x] - r[x]) - l[x]  BY <1>1, <1>3
  <2>2. k[x] \in Int /\ f[x] \in Int /\ r[x] \in Int /\ l[x] \in Int  OBVIOUS
  <2> QED BY <2>1, <2>2
<1>6. SumFunction(h) <= SumFunction(k)  BY <1>3, <1>5, SumWithin
<1>7. /\ SumFunction(f) \in Int /\ SumFunction(r) \in Int /\ SumFunction(l) \in Int
      /\ SumFunction(k) \in Int
  BY SumInt
<1> QED BY <1>2, <1>4, <1>6, <1>7

\* The function that is 0 but for i at x and j at y, added where x is y.
At(U, x, i, y, j) ==
  [z \in U |-> (IF z = x THEN i ELSE 0) + (IF z = y THEN j ELSE 0)]

\* Its sum.
THEOREM SumAt ==
  ASSUME NEW U, IsFiniteSet(U), NEW x \in U, NEW i \in Int, NEW y \in U, NEW j \in Int
  PROVE  At(U, x, i, y, j) \in [U -> Int] /\ SumFunction(At(U, x, i, y, j)) = i + j
<1> DEFINE z == [u \in U |-> 0]
           f == [z EXCEPT ![x] = i]
           h == [z EXCEPT ![y] = j]
           k == At(U, x, i, y, j)
<1>1. z \in [U -> Int] /\ SumFunction(z) = 0 /\ \A u \in U : z[u] = 0  BY SumConstZero
<1>2. f \in [U -> Int] /\ h \in [U -> Int]  OBVIOUS
<1>3. \A u \in U : f[u] = (IF u = x THEN i ELSE 0) /\ h[u] = (IF u = y THEN j ELSE 0)
  OBVIOUS
<1>4. k \in [U -> Int] /\ \A u \in U : k[u] = f[u] + h[u]
  <2>1. k = [u \in U |-> f[u] + h[u]]  BY <1>3 DEF At
  <2> HIDE DEF f, h, k
  <2> QED BY <2>1, <1>2
<1> HIDE DEF z, k
<1>a. ASSUME NEW u \in U, NEW v \in Int
      PROVE  SumFunction([z EXCEPT ![u] = v]) = SumFunction(z) - z[u] + v
  <2>1. z \in [U -> Int]  BY <1>1
  <2> QED BY <2>1, SumExcept
<1>5. SumFunction(f) = SumFunction(z) - z[x] + i  BY <1>a, Zenon
<1>6. SumFunction(h) = SumFunction(z) - z[y] + j  BY <1>a, Zenon
<1> HIDE DEF f, h
<1>7. SumFunction(k) = SumFunction(f) + SumFunction(h)  BY <1>2, <1>4, SumPlus
<1>8. z[x] = 0 /\ z[y] = 0  BY <1>1
<1>9. SumFunction(f) = i /\ SumFunction(h) = j  BY <1>1, <1>5, <1>6, <1>8
<1> QED BY <1>4, <1>7, <1>9 DEF k

\* Values that are 0 outside a subset add nothing to the partial sum over it.
LEMMA PartialSumsOutside ==
  ASSUME NEW U, IsFiniteSet(U), NEW S \in SUBSET U, NEW f \in [U -> Int],
         \A x \in U \ S : f[x] = 0
  PROVE  \A T \in SUBSET U : PartialSums(f)[T] = PartialSums(f)[T \cap S]
<1> DEFINE P == PartialSums(f)
           C == {T \in SUBSET U : P[T] # P[T \cap S]}
<1> SUFFICES ASSUME C # {} PROVE FALSE  OBVIOUS
<1>a. P \in [SUBSET U -> Int]  BY PartialSumsDef
<1>0. ASSUME NEW T \in SUBSET U, NEW x \in T PROVE P[T] = f[x] + P[T \ {x}]
  BY PartialSumsRemove
<1> HIDE DEF P
<1>1. PICK T \in C : \A t \in C : ~ (t \subseteq T /\ t # T)
  <2>1. C \subseteq SUBSET U  OBVIOUS
  <2> HIDE DEF C
  <2> QED BY <2>1, MinimalSubset
<1>2. T \in SUBSET U /\ P[T] # P[T \cap S]  BY <1>1
<1>3. PICK x \in T : x \notin S
  <2>1. T \cap S # T  BY <1>2
  <2> QED BY <2>1
<1>4. P[T] = f[x] + P[T \ {x}]  BY <1>0, <1>2
<1>5. f[x] = 0 /\ P[T \ {x}] \in Int  BY <1>a, <1>2, <1>3
<1>6. T \ {x} \notin C  BY <1>1
<1>7. P[T \ {x}] = P[(T \ {x}) \cap S]  BY <1>2, <1>6
<1>8. (T \ {x}) \cap S = T \cap S  BY <1>3
<1>9. P[T] = P[T \ {x}]  BY <1>4, <1>5
<1> QED BY <1>2, <1>7, <1>8, <1>9

\* Sums over a subset, in the order of Pick, are the sum over all of a function
\* that is 0 outside it.
THEOREM SumOutside ==
  ASSUME NEW U, IsFiniteSet(U), NEW S \in SUBSET U, NEW f \in [U -> Int],
         \A x \in U \ S : f[x] = 0, NEW g, IsSumOn(g, f, S)
  PROVE  g[S] = SumFunction(f)
<1> DEFINE h == [x \in S |-> f[x]]
           P == PartialSums(f)
<1>1. IsSumOn(P, f, U)  BY PartialSumsDef
<1>2. P[U] = P[U \cap S] /\ U \cap S = S  BY PartialSumsOutside
<1> HIDE DEF P
<1>3. \A T \in SUBSET S : T # {} => Pick(T) \in T  BY DEF Pick
<1>4. IsSumOn(P, h, S) /\ IsSumOn(g, h, S)
  BY <1>1, <1>3 DEF IsSumOn
<1>5. IsFiniteSet(S) /\ h \in [S -> Int]  BY FS_Subset
<1> HIDE DEF h
<1>6. \A T \in SUBSET S : P[T] = g[T]  BY <1>4, <1>5, SumOnUnique
<1>7. g[S] = P[U]  BY <1>2, <1>6
<1>8. DOMAIN f = U  OBVIOUS
<1> QED BY <1>7, <1>8, SumFunctionDef DEF P
=============================================================================
