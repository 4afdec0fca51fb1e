--------------------------- MODULE InterestLemmas ---------------------------
(***************************************************************************)
(* What the proofs about the market need to know of interest: rates and    *)
(* their compounding are natural numbers, compounding never shrinks, a     *)
(* curve is highest at full utilisation, and however the periods are split *)
(* among charges, compounding them stays below one product per period,     *)
(* rounded up.  Compounding and that bound are recursive functions: that   *)
(* they satisfy their equations is proved, by minimal counterexamples.     *)
(***************************************************************************)
EXTENDS InterestCurve, TokenLemmas, NaturalsInduction

\* A nonempty set of natural numbers has a least member.
LEMMA LeastNat ==
  ASSUME NEW C, C \subseteq Nat, C # {}
  PROVE  \E m \in C : \A n \in C : m <= n
<1>1. IsWellFoundedOn(OpToRel(<, Nat), Nat)
  BY NatLessThanWellFounded
<1>2. \E m \in C : \A n \in C : ~ (<<n, m>> \in OpToRel(<, Nat))
  BY <1>1, WFMin
<1>3. PICK m \in C : \A n \in C : ~ (<<n, m>> \in OpToRel(<, Nat))
  BY <1>2
<1>4. ASSUME NEW n \in C PROVE m <= n
  <2>1. n \in Nat /\ m \in Nat  OBVIOUS
  <2>2. ~ (n < m)  BY <1>3, <2>1 DEF OpToRel
  <2> QED BY <2>1, <2>2
<1> QED BY <1>4

\* A quotient is within one of the exact one.
LEMMA DivBounds ==
  ASSUME NEW x \in Nat, NEW n \in Nat \ {0}
  PROVE  x \div n \in Nat /\ n * (x \div n) <= x /\ x <= n * (x \div n) + (n - 1)
<1> DEFINE q == x \div n
           r == x % n
<1>1. q \in Nat  BY DivType
<1>a. x = n * q + r /\ r \in 0 .. n - 1
  <2>1. x \in Int  OBVIOUS
  <2> QED BY <2>1, DivMod
<1> HIDE DEF q, r
<1>2. n * q \in Nat  BY <1>1
<1>3. n * q <= x /\ x <= n * q + (n - 1)
  BY <1>1, <1>a, <1>2
<1> QED BY <1>1, <1>3 DEF q

\* An integer whose multiple is below a number is not above its quotient.
LEMMA BelowQuotient ==
  ASSUME NEW k \in Int, NEW x \in Nat, NEW n \in Nat \ {0}, n * k <= x
  PROVE  k <= x \div n
<1> DEFINE q == x \div n
<1>1. q \in Nat /\ x <= n * q + (n - 1)  BY DivBounds
<1> HIDE DEF q
<1>2. n * k < n * (q + 1)  BY <1>1
<1>3. k < q + 1  BY <1>1, <1>2
<1> QED BY <1>1, <1>3 DEF q

\* The products of an ordered pair with a natural number are ordered.
LEMMA TimesMonotone ==
  ASSUME NEW x \in Int, NEW y \in Int, x <= y, NEW k \in Nat
  PROVE  x * k <= y * k /\ k * x <= k * y
OBVIOUS

\* Products distribute over sums and differences.
LEMMA Distribute ==
  ASSUME NEW x \in Int, NEW y \in Int, NEW k \in Int
  PROVE  /\ k * (x + y) = k * x + k * y /\ k * (x - y) = k * x - k * y
         /\ (x + y) * k = x * k + y * k /\ (x - y) * k = x * k - y * k
OBVIOUS

\* A common factor does not change an order.
LEMMA CancelFactor ==
  ASSUME NEW x \in Int, NEW y \in Int, NEW d \in Nat \ {0}, d * x <= d * y
  PROVE  x <= y
OBVIOUS

\* Products of decimals are natural numbers.
LEMMA MulDecNat ==
  ASSUME NEW x \in Nat, NEW y \in Nat
  PROVE  MulDec(x, y) \in Nat
<1>1. x * y \in Nat  OBVIOUS
<1> QED BY <1>1, DivType, FractionAssumption DEF MulDec

\* Amounts at most as great are at most as great after multiplication.
LEMMA MulIntMonotone ==
  ASSUME NEW x \in Nat, NEW y \in Nat, NEW v \in Nat, NEW w \in Nat, x <= y, v <= w
  PROVE  MulInt(x, v) \in Nat /\ MulInt(y, w) \in Nat /\ MulInt(x, v) <= MulInt(y, w)
<1>1. DecimalFractional \in Nat \ {0}  BY FractionAssumption
<1>2. x * v \in Nat /\ y * v \in Nat /\ y * w \in Nat  OBVIOUS
<1>3. x * v <= y * v  BY TimesMonotone
<1>4. v * y <= w * y  BY TimesMonotone
<1>5. y * v = v * y /\ y * w = w * y  OBVIOUS
<1>6. x * v <= y * w  BY <1>2, <1>3, <1>4, <1>5
<1> DEFINE p == x * v
           q == y * w
<1>7. p \in Nat /\ q \in Nat /\ p <= q  BY <1>2, <1>6
<1> HIDE DEF p, q
<1>8. p \div DecimalFractional \in Nat /\ q \div DecimalFractional \in Nat
  BY <1>1, <1>7, DivType
<1>9. p \div DecimalFractional <= q \div DecimalFractional
  BY <1>1, <1>7, DivMonotone
<1> QED BY <1>8, <1>9 DEF MulInt, p, q

\* Multiplying by at least one does not shrink a decimal.
LEMMA MulDecGrows ==
  ASSUME NEW x \in Nat, NEW y \in Nat, y >= One
  PROVE  MulDec(x, y) >= x
<1> DEFINE d == DecimalFractional
<1>1. d \in Nat \ {0} /\ y >= d  BY FractionAssumption DEF One
<1> HIDE DEF d
<1>2. x * y >= x * d /\ x * d \in Nat /\ x * y \in Nat  BY <1>1
<1>3. (x * d) \div d <= (x * y) \div d  BY <1>1, <1>2, DivMonotone
<1>4. (x * d) \div d = x
  <2>1. x * d = d * x + 0 /\ 0 \in 0 .. d - 1  BY <1>1
  <2> QED BY <1>1, <1>2, <2>1, Euclid
<1>5. (x * y) \div d \in Nat  BY <1>1, <1>2, DivType
<1> QED BY <1>3, <1>4, <1>5 DEF MulDec, d

-----------------------------------------------------------------------------
(***************************************************************************)
(* The recursion of Pow.                                                   *)
(***************************************************************************)
\* The right-hand side of Pow's recursive function.
Squaring(g, n, x, y) ==
    IF n = 0 THEN One
    ELSE IF n = 1 THEN MulDec(x, y)
    ELSE IF n % 2 = 0 THEN g[n \div 2][MulDec(x, x)][y]
    ELSE g[(n - 1) \div 2][MulDec(x, x)][MulDec(x, y)]

\* g satisfies the equation of Pow's function for exponents below k.
PowBelow(g, k) ==
    \A n \in 0 .. k - 1 : g[n] = [x \in Nat |-> [y \in Nat |-> Squaring(g, n, x, y)]]

\* The exponents of the recursive calls are smaller.
LEMMA Halves ==
  ASSUME NEW n \in Nat, n # 0, n # 1
  PROVE  n \div 2 \in 0 .. n - 1 /\ (n - 1) \div 2 \in 0 .. n - 1
OBVIOUS

\* The right-hand side depends only on smaller exponents.
LEMMA SquaringAgrees ==
  ASSUME NEW g, NEW h, NEW n \in Nat, \A j \in 0 .. n - 1 : g[j] = h[j],
         NEW x \in Nat, NEW y \in Nat
  PROVE  Squaring(g, n, x, y) = Squaring(h, n, x, y)
<1>1. CASE n = 0 \/ n = 1
  BY <1>1 DEF Squaring
<1>2. CASE n # 0 /\ n # 1
  <2>1. n \div 2 \in 0 .. n - 1 /\ (n - 1) \div 2 \in 0 .. n - 1
    BY <1>2, Halves
  <2>2. g[n \div 2] = h[n \div 2] /\ g[(n - 1) \div 2] = h[(n - 1) \div 2]
    BY <2>1
  <2> QED BY <1>2, <2>2 DEF Squaring
<1> QED BY <1>1, <1>2

\* The right-hand side is a natural number if it is for smaller exponents.
LEMMA SquaringNat ==
  ASSUME NEW g, NEW n \in Nat, \A j \in 0 .. n - 1 : g[j] \in [Nat -> [Nat -> Nat]],
         NEW x \in Nat, NEW y \in Nat
  PROVE  Squaring(g, n, x, y) \in Nat
<1>1. MulDec(x, x) \in Nat /\ MulDec(x, y) \in Nat
  BY MulDecNat
<1>2. CASE n = 0 \/ n = 1
  BY <1>1, <1>2, FractionAssumption DEF Squaring, One
<1>3. CASE n # 0 /\ n # 1
  <2>1. n \div 2 \in 0 .. n - 1 /\ (n - 1) \div 2 \in 0 .. n - 1
    BY <1>3, Halves
  <2>2. /\ g[n \div 2] \in [Nat -> [Nat -> Nat]]
        /\ g[(n - 1) \div 2] \in [Nat -> [Nat -> Nat]]
    BY <2>1
  <2> QED BY <1>1, <1>3, <2>2 DEF Squaring
<1> QED BY <1>2, <1>3

\* The equation determines the function.
LEMMA PowUnique ==
  ASSUME NEW k \in Nat, NEW g, NEW h, PowBelow(g, k), PowBelow(h, k)
  PROVE  \A n \in 0 .. k - 1 : g[n] = h[n]
<1> DEFINE C == {n \in 0 .. k - 1 : g[n] # h[n]}
<1> SUFFICES ASSUME C # {} PROVE FALSE  OBVIOUS
<1>1. PICK m \in C : \A n \in C : m <= n
  <2>1. C \subseteq Nat  OBVIOUS
  <2> HIDE DEF C
  <2> QED BY <2>1, LeastNat
<1>2. m \in Nat /\ m \in 0 .. k - 1 /\ g[m] # h[m]
  OBVIOUS
<1>3. \A j \in 0 .. m - 1 : g[j] = h[j]
  BY <1>1, <1>2
<1>4. \A x \in Nat, y \in Nat : Squaring(g, m, x, y) = Squaring(h, m, x, y)
  BY <1>2, <1>3, SquaringAgrees
<1>5. /\ g[m] = [x \in Nat |-> [y \in Nat |-> Squaring(g, m, x, y)]]
      /\ h[m] = [x \in Nat |-> [y \in Nat |-> Squaring(h, m, x, y)]]
  BY <1>2 DEF PowBelow
<1> HIDE DEF C
<1>6. g[m] = h[m]
  BY <1>4, <1>5
<1> QED BY <1>2, <1>6

\* The equation has a solution for exponents below any number.
LEMMA PowBelowExists ==
  \A k \in Nat : \E g \in [0 .. k - 1 -> [Nat -> [Nat -> Nat]]] : PowBelow(g, k)
<1> DEFINE Good(k) == \E g \in [0 .. k - 1 -> [Nat -> [Nat -> Nat]]] : PowBelow(g, k)
           C == {k \in Nat : ~ Good(k)}
<1> SUFFICES ASSUME C # {} PROVE FALSE  OBVIOUS
<1>1. PICK k \in C : \A n \in C : k <= n
  <2>1. C \subseteq Nat  OBVIOUS
  <2> HIDE DEF C
  <2> QED BY <2>1, LeastNat
<1>2. k \in Nat /\ ~ Good(k)  OBVIOUS
<1>3. k # 0
  <2> SUFFICES ASSUME k = 0 PROVE FALSE  OBVIOUS
  <2>1. 0 .. k - 1 = {}  OBVIOUS
  <2> DEFINE g == [n \in 0 .. k - 1 |-> [x \in Nat |-> [y \in Nat |-> 0]]]
  <2>2. g \in [0 .. k - 1 -> [Nat -> [Nat -> Nat]]]  BY <2>1
  <2>3. PowBelow(g, k)  BY <2>1 DEF PowBelow
  <2> HIDE DEF g
  <2> QED BY <1>2, <2>2, <2>3
<1>4. k - 1 \in Nat /\ Good(k - 1)
  <2>1. k - 1 \in Nat /\ ~ (k <= k - 1)  BY <1>2, <1>3
  <2>2. k - 1 \notin C  BY <1>1, <2>1
  <2> QED BY <2>1, <2>2
<1> DEFINE last == k - 1
<1>5. PICK g \in [0 .. last - 1 -> [Nat -> [Nat -> Nat]]] : PowBelow(g, last)
  BY <1>4
<1>6. last \in Nat /\ k = last + 1  BY <1>2, <1>4
<1> HIDE DEF last, C, Good
<1> DEFINE top == [x \in Nat |-> [y \in Nat |-> Squaring(g, last, x, y)]]
           h == [n \in 0 .. last |-> IF n = last THEN top ELSE g[n]]
<1>7. top \in [Nat -> [Nat -> Nat]]
  <2>1. \A j \in 0 .. last - 1 : g[j] \in [Nat -> [Nat -> Nat]]  BY <1>5
  <2>2. \A x \in Nat, y \in Nat : Squaring(g, last, x, y) \in Nat
    BY <1>6, <2>1, SquaringNat
  <2> QED BY <2>2
<1> HIDE DEF top
<1>8. /\ h \in [0 .. last -> [Nat -> [Nat -> Nat]]] /\ h[last] = top
      /\ \A n \in 0 .. last - 1 : h[n] = g[n]
  <2>1. last \in 0 .. last /\ \A n \in 0 .. last - 1 : n \in 0 .. last /\ n # last
    BY <1>6
  <2>2. ASSUME NEW n \in 0 .. last
        PROVE  (IF n = last THEN top ELSE g[n]) \in [Nat -> [Nat -> Nat]]
    <3>1. n # last => n \in 0 .. last - 1  BY <1>6
    <3>2. n # last => g[n] \in [Nat -> [Nat -> Nat]]  BY <1>5, <3>1
    <3> QED BY <1>7, <3>2
  <2>3. h \in [0 .. last -> [Nat -> [Nat -> Nat]]]  BY <2>2
  <2> QED BY <2>1, <2>3
<1> HIDE DEF h
<1>9. ASSUME NEW n \in 0 .. last
      PROVE  h[n] = [x \in Nat |-> [y \in Nat |-> Squaring(h, n, x, y)]]
  <2>1. n \in Nat /\ \A j \in 0 .. n - 1 : g[j] = h[j]
    BY <1>6, <1>8
  <2>2. \A x \in Nat, y \in Nat : Squaring(g, n, x, y) = Squaring(h, n, x, y)
    BY <2>1, SquaringAgrees
  <2>3. h[n] = [x \in Nat |-> [y \in Nat |-> Squaring(g, n, x, y)]]
    <3>1. CASE n = last
      BY <3>1, <1>8 DEF top
    <3>2. CASE n # last
      <4>1. n \in 0 .. last - 1  BY <3>2, <1>6
      <4> QED BY <4>1, <1>5, <1>8 DEF PowBelow
    <3> QED BY <3>1, <3>2
  <2> QED BY <2>2, <2>3
<1>10. 0 .. k - 1 = 0 .. last  BY <1>6
<1>11. PowBelow(h, k)
  BY <1>9, <1>10 DEF PowBelow
<1> QED BY <1>2, <1>8, <1>10, <1>11 DEF Good

\* The recursive function in the definition of Pow.
PowFunction ==
  CHOOSE p : p = [n \in Nat |->
          [x \in Nat |-> [y \in Nat |->
             IF n = 0 THEN One
             ELSE IF n = 1 THEN MulDec(x, y)
             ELSE IF n % 2 = 0 THEN p[n \div 2][MulDec(x, x)][y]
             ELSE p[(n - 1) \div 2][MulDec(x, x)][MulDec(x, y)]]]]

\* Pow is that function.
LEMMA PowDef ==
  ASSUME NEW base, NEW exponent
  PROVE  Pow(base, exponent) = PowFunction[exponent][base][One]
BY DEF Pow, PowFunction

\* The recursive function satisfies its equation.
LEMMA PowEquation ==
  PowFunction = [n \in Nat |-> [x \in Nat |-> [y \in Nat |-> Squaring(PowFunction, n, x, y)]]]
<1> DEFINE Sol(k) == CHOOSE g \in [0 .. k - 1 -> [Nat -> [Nat -> Nat]]] : PowBelow(g, k)
           G == [n \in Nat |-> Sol(n + 1)[n]]
<1>1. \A k \in Nat : PowBelow(Sol(k), k)
  BY PowBelowExists
<1> HIDE DEF Sol
<1>2. ASSUME NEW n \in Nat
      PROVE  G[n] = [x \in Nat |-> [y \in Nat |-> Squaring(G, n, x, y)]]
  <2> DEFINE s == Sol(n + 1)
  <2>1. n + 1 \in Nat /\ PowBelow(s, n + 1)  BY <1>1
  <2>2. ASSUME NEW j \in 0 .. n - 1 PROVE s[j] = G[j]
    <3>1. j \in Nat /\ j + 1 \in Nat /\ j + 1 <= n + 1 /\ j \in 0 .. (j + 1) - 1
      OBVIOUS
    <3>2. PowBelow(s, j + 1)
      <4>1. \A i \in 0 .. (j + 1) - 1 : i \in 0 .. (n + 1) - 1  BY <3>1
      <4> QED BY <2>1, <4>1 DEF PowBelow
    <3>3. PowBelow(Sol(j + 1), j + 1)  BY <3>1, <1>1
    <3>4. \A i \in 0 .. (j + 1) - 1 : s[i] = Sol(j + 1)[i]
      <4> HIDE DEF s
      <4> QED BY <3>1, <3>2, <3>3, PowUnique
    <3> QED BY <3>1, <3>4
  <2>3. s[n] = [x \in Nat |-> [y \in Nat |-> Squaring(s, n, x, y)]]
    <3>1. n \in 0 .. (n + 1) - 1  OBVIOUS
    <3> QED BY <2>1, <3>1 DEF PowBelow
  <2>4. G[n] = s[n]  OBVIOUS
  <2> HIDE DEF s, G
  <2>5. \A x \in Nat, y \in Nat : Squaring(s, n, x, y) = Squaring(G, n, x, y)
    BY <2>2, SquaringAgrees
  <2> QED BY <2>3, <2>4, <2>5
<1>3. G = [n \in Nat |-> [x \in Nat |-> [y \in Nat |-> Squaring(G, n, x, y)]]]
  <2>1. G = [n \in Nat |-> G[n]]  OBVIOUS
  <2> HIDE DEF G
  <2> QED BY <1>2, <2>1
<1> HIDE DEF G
<1>4. \E p : p = [n \in Nat |-> [x \in Nat |-> [y \in Nat |-> Squaring(p, n, x, y)]]]
  BY <1>3
<1> QED BY <1>4 DEF PowFunction, Squaring

\* The function at an exponent.
LEMMA PowAt ==
  ASSUME NEW n \in Nat
  PROVE  PowFunction[n] = [x \in Nat |-> [y \in Nat |-> Squaring(PowFunction, n, x, y)]]
<1> DEFINE F(p, k) == [x \in Nat |-> [y \in Nat |-> Squaring(p, k, x, y)]]
<1>1. PowFunction = [k \in Nat |-> F(PowFunction, k)]  BY PowEquation
<1> HIDE DEF F
<1>2. PowFunction[n] = F(PowFunction, n)  BY <1>1
<1> QED BY <1>2 DEF F

\* The function at an exponent, a base and a factor.
LEMMA PowValue ==
  ASSUME NEW n \in Nat, NEW x \in Nat, NEW y \in Nat
  PROVE  PowFunction[n][x][y] = Squaring(PowFunction, n, x, y)
<1>1. PowFunction[n] = [v \in Nat |-> [w \in Nat |-> Squaring(PowFunction, n, v, w)]]
  BY PowAt
<1>2. PowFunction[n][x] = [w \in Nat |-> Squaring(PowFunction, n, x, w)]
  BY <1>1
<1> QED BY <1>2

\* Compounding returns natural numbers.
LEMMA PowNat == \A n \in Nat : PowFunction[n] \in [Nat -> [Nat -> Nat]]
<1> DEFINE C == {n \in Nat : PowFunction[n] \notin [Nat -> [Nat -> Nat]]}
<1> SUFFICES ASSUME C # {} PROVE FALSE  OBVIOUS
<1>1. PICK n \in C : \A k \in C : n <= k
  <2>1. C \subseteq Nat  OBVIOUS
  <2> HIDE DEF C
  <2> QED BY <2>1, LeastNat
<1>2. n \in Nat /\ PowFunction[n] \notin [Nat -> [Nat -> Nat]]  OBVIOUS
<1>3. ASSUME NEW k \in 0 .. n - 1 PROVE PowFunction[k] \in [Nat -> [Nat -> Nat]]
  <2>1. k \in Nat /\ ~ (n <= k)  BY <1>2
  <2>2. k \notin C  BY <1>1, <2>1
  <2> QED BY <2>1, <2>2
<1> HIDE DEF C
<1>4. \A x \in Nat, y \in Nat : Squaring(PowFunction, n, x, y) \in Nat
  BY <1>2, <1>3, SquaringNat
<1>5. PowFunction[n] \in [Nat -> [Nat -> Nat]]
  <2>1. PowFunction[n] = [x \in Nat |-> [y \in Nat |-> Squaring(PowFunction, n, x, y)]]
    BY <1>2, PowAt
  <2>2. \A x \in Nat : [y \in Nat |-> Squaring(PowFunction, n, x, y)] \in [Nat -> Nat]
    BY <1>4
  <2> QED BY <2>1, <2>2
<1> QED BY <1>2, <1>5

\* Compounding factors that are at least one gives at least one.
LEMMA PowGrows ==
  \A n \in Nat, x \in Nat, y \in Nat :
     x >= One /\ y >= One => PowFunction[n][x][y] >= One
<1> DEFINE Bad(n) == \E x \in Nat, y \in Nat :
                        x >= One /\ y >= One /\ ~ (PowFunction[n][x][y] >= One)
           C == {n \in Nat : Bad(n)}
<1> SUFFICES ASSUME C # {} PROVE FALSE  OBVIOUS
<1>1. PICK n \in C : \A k \in C : n <= k
  <2>1. C \subseteq Nat  OBVIOUS
  <2> HIDE DEF C
  <2> QED BY <2>1, LeastNat
<1>2. n \in Nat /\ Bad(n)  OBVIOUS
<1>3. ASSUME NEW k \in 0 .. n - 1, NEW x \in Nat, NEW y \in Nat, x >= One, y >= One
      PROVE  PowFunction[k][x][y] >= One
  <2>1. k \in Nat /\ ~ (n <= k)  BY <1>2
  <2>2. ~ Bad(k)  BY <1>1, <2>1
  <2> QED BY <2>2, <1>3
<1> HIDE DEF C
<1>4. PICK x \in Nat, y \in Nat : x >= One /\ y >= One /\ ~ (PowFunction[n][x][y] >= One)
  BY <1>2
<1> HIDE DEF Bad
<1>5. PowFunction[n][x][y] = Squaring(PowFunction, n, x, y)
  BY <1>2, PowValue
<1>6. One \in Nat  BY FractionAssumption DEF One
<1>7. /\ MulDec(x, x) \in Nat /\ MulDec(x, y) \in Nat
      /\ MulDec(x, x) >= One /\ MulDec(x, y) >= One
  <2>1. /\ MulDec(x, x) \in Nat /\ MulDec(x, y) \in Nat
        /\ MulDec(x, x) >= x /\ MulDec(x, y) >= x
    BY <1>4, MulDecNat, MulDecGrows
  <2> QED BY <1>4, <1>6, <2>1
<1>8. CASE n = 0 \/ n = 1
  BY <1>4, <1>5, <1>6, <1>7, <1>8 DEF Squaring
<1>9. CASE n # 0 /\ n # 1
  <2>1. n \div 2 \in 0 .. n - 1 /\ (n - 1) \div 2 \in 0 .. n - 1
    BY <1>2, <1>9, Halves
  <2>2. /\ PowFunction[n \div 2][MulDec(x, x)][y] >= One
        /\ PowFunction[(n - 1) \div 2][MulDec(x, x)][MulDec(x, y)] >= One
    BY <1>3, <1>4, <1>7, <2>1
  <2> QED BY <1>4, <1>5, <1>9, <2>2 DEF Squaring
<1> QED BY <1>2, <1>8, <1>9

-----------------------------------------------------------------------------
(***************************************************************************)
(* Rates.                                                                  *)
(***************************************************************************)
\* Quotients of decimals are natural numbers.
LEMMA DivDecNat ==
  ASSUME NEW x \in Nat, NEW y \in Nat \ {0}
  PROVE  DivDec(x, y) \in Nat
<1>1. x * DecimalFractional \in Nat  BY FractionAssumption
<1> QED BY <1>1, DivType DEF DivDec

\* The yearly rate of a valid curve is a natural number at every utilisation,
\* below and above the breakpoint.
LEMMA RateNat ==
  ASSUME NEW rates, IsCurve(rates), Valid(rates), NEW utilisation \in Nat
  PROVE  calculate_interest_rate(rates, utilisation) \in Nat
<1>0. One \in Nat  BY FractionAssumption DEF One
<1>1. CASE rates.kind = "linear"
  <2>1. rates.base \in Nat /\ rates.slope \in Nat  BY <1>1 DEF IsCurve
  <2>2. MulDec(rates.slope, utilisation) \in Nat  BY <2>1, MulDecNat
  <2> QED BY <1>1, <2>1, <2>2 DEF calculate_interest_rate
<1>2. CASE rates.kind # "linear"
  <2> DEFINE opt == rates.optimal_utilisation
  <2>1. /\ rates.base \in Nat /\ rates.slope1 \in Nat /\ rates.slope2 \in Nat
        /\ opt \in Nat \ {0} /\ One - opt \in Nat \ {0}
    BY <1>0, <1>2 DEF IsCurve, Valid
  <2>2. Inv(opt) \in Nat /\ Inv(One - opt) \in Nat
    BY <1>0, <2>1, DivDecNat DEF Inv
  <2>3. CASE utilisation < opt
    <3>1. MulDec(utilisation, Inv(opt)) \in Nat  BY <2>2, MulDecNat
    <3>2. MulDec(rates.slope1, MulDec(utilisation, Inv(opt))) \in Nat
      BY <2>1, <3>1, MulDecNat
    <3> QED BY <1>2, <2>1, <2>3, <3>2 DEF calculate_interest_rate
  <2>4. CASE ~ (utilisation < opt)
    <3>1. utilisation - opt \in Nat  BY <2>1, <2>4
    <3>2. MulDec(utilisation - opt, Inv(One - opt)) \in Nat
      BY <2>2, <3>1, MulDecNat
    <3>3. MulDec(rates.slope2, MulDec(utilisation - opt, Inv(One - opt))) \in Nat
      BY <2>1, <3>2, MulDecNat
    <3> QED BY <1>2, <2>1, <2>4, <3>3 DEF calculate_interest_rate
  <2> QED BY <2>3, <2>4
<1> QED BY <1>1, <1>2

\* Interest compounded over any number of periods is not negative.
LEMMA CompoundedNat ==
  ASSUME SecondsInYear \in Nat \ {0}, NEW rate \in Nat, NEW charge_period \in Nat,
         NEW epochs_passed \in Nat
  PROVE  compounded_interest_rate(rate, charge_period, epochs_passed) \in Nat
<1> DEFINE periodic == (charge_period * rate) \div SecondsInYear
           grown == PowFunction[epochs_passed][One + periodic][One]
<1>0. One \in Nat  BY FractionAssumption DEF One
<1>1. periodic \in Nat
  <2>1. charge_period * rate \in Nat  OBVIOUS
  <2> QED BY <2>1, DivType
<1>2. compounded_interest_rate(rate, charge_period, epochs_passed) = grown - One
  BY PowDef DEF compounded_interest_rate
<1> HIDE DEF periodic
<1>3. One + periodic \in Nat /\ One + periodic >= One  BY <1>0, <1>1
<1>4. grown \in Nat
  <2>1. PowFunction[epochs_passed] \in [Nat -> [Nat -> Nat]]  BY PowNat
  <2> QED BY <1>0, <1>3, <2>1
<1>5. grown >= One  BY <1>0, <1>3, PowGrows
<1> HIDE DEF grown
<1> QED BY <1>0, <1>2, <1>4, <1>5

-----------------------------------------------------------------------------
(***************************************************************************)
(* Roundings: what charging makes of a balance, and what a query says that *)
(* it will; what charging adds to all claims, and what to all debts.       *)
(***************************************************************************)
\* The roundings of a query and of a charge, from the bounds of each quotient.
LEMMA RoundingsDiffer ==
  ASSUME NEW P \in Nat, NEW M \in Nat, NEW r \in Nat, NEW d \in Nat \ {0},
         NEW N \in Nat, d * N <= M * (d + r), M * (d + r) <= d * N + (d - 1),
         NEW charged \in Nat, d * charged <= P * N, P * N <= d * charged + (d - 1),
         NEW balance \in Nat, d * balance <= P * M, P * M <= d * balance + (d - 1),
         NEW w \in Nat, d * w <= balance * r, balance * r <= d * w + (d - 1),
         NEW preview \in Nat, preview = balance + w
  PROVE  /\ charged - preview <= 2 + (r \div d)
         /\ preview - charged <= 1 + (P \div d)
<1> DEFINE g == d + r
           X == P * M
<1>0. g \in Nat /\ g >= d /\ X \in Nat  OBVIOUS
<1>1. N \in Nat /\ d * N <= M * g /\ M * g <= d * N + (d - 1)  OBVIOUS
<1>2. charged \in Nat /\ d * charged <= P * N /\ P * N <= d * charged + (d - 1)
  OBVIOUS
<1>3. balance \in Nat /\ d * balance <= X /\ X <= d * balance + (d - 1)  OBVIOUS
<1>4. w \in Nat /\ d * w <= balance * r /\ balance * r <= d * w + (d - 1)  OBVIOUS
<1>5. preview = balance + w  OBVIOUS
<1>6. preview \in Nat  OBVIOUS
<1>7. balance * g = d * balance + balance * r
  <2>1. balance * (d + r) = balance * d + balance * r  BY <1>3, Distribute
  <2>2. balance * d = d * balance  BY <1>3
  <2> QED BY <2>1, <2>2
<1>8. d * preview <= balance * g /\ balance * g <= d * preview + (d - 1)
  BY <1>3, <1>4, <1>5, <1>7
<1>9. P * (d * N) <= X * g /\ X * g <= P * (d * N) + P * (d - 1)
  <2>1. M * g \in Nat /\ d * N \in Nat  BY <1>0, <1>1
  <2>2. P * (d * N) <= P * (M * g) /\ P * (M * g) <= P * (d * N + (d - 1))
    <3> HIDE DEF g
    <3> QED BY <1>1, <2>1, TimesMonotone
  <2>3. P * (M * g) = X * g  OBVIOUS
  <2>4. P * (d * N + (d - 1)) = P * (d * N) + P * (d - 1)  BY <2>1
  <2> QED BY <2>2, <2>3, <2>4
<1>10. P * (d * N) = d * (P * N)  BY <1>1
<1>11. d * (d * charged) <= d * (P * N)
       /\ d * (P * N) <= d * (d * charged) + d * (d - 1)
  <2>1. P * N \in Nat /\ d * charged \in Nat  BY <1>1, <1>2
  <2>2. d * (d * charged + (d - 1)) = d * (d * charged) + d * (d - 1)  BY <2>1
  <2> QED BY <1>2, <2>1, <2>2, TimesMonotone
<1>12. /\ d * (balance * g) <= X * g
       /\ X * g <= d * (balance * g) + (d - 1) * g
  <2>1. (d * balance) * g <= X * g /\ X * g <= (d * balance + (d - 1)) * g
    <3>1. d * balance \in Nat  BY <1>3
    <3> HIDE DEF g, X
    <3> QED BY <1>0, <1>3, <3>1, TimesMonotone
  <2> HIDE DEF g, X
  <2>2. (d * balance) * g = d * (balance * g)  BY <1>0, <1>3
  <2>3. (d * balance + (d - 1)) * g = d * (balance * g) + (d - 1) * g  BY <1>0, <1>3
  <2> QED BY <2>1, <2>2, <2>3
<1>13. /\ d * (d * preview) <= d * (balance * g)
       /\ d * (balance * g) <= d * (d * preview) + d * (d - 1)
  <2>1. balance * g \in Nat /\ d * preview \in Nat  BY <1>0, <1>3, <1>6
  <2>2. d * (d * preview + (d - 1)) = d * (d * preview) + d * (d - 1)  BY <2>1
  <2> HIDE DEF g
  <2> QED BY <1>8, <2>1, <2>2, TimesMonotone
<1> DEFINE A == d * (d * charged)
           B == d * (d * preview)
           C == d * (P * N)
           D == X * g
           E == d * (balance * g)
<1>14. /\ A \in Int /\ B \in Int /\ C \in Int /\ D \in Int /\ E \in Int
       /\ d * (d - 1) \in Int /\ (d - 1) * g \in Int /\ P * (d - 1) \in Int
  BY <1>0, <1>1, <1>2, <1>3, <1>6
<1>15. A - B <= d * (d - 1) + (d - 1) * g /\ B - A <= P * (d - 1) + d * (d - 1)
  <2>1. /\ A <= C /\ C <= A + d * (d - 1) /\ C <= D /\ D <= C + P * (d - 1)
        /\ E <= D /\ D <= E + (d - 1) * g /\ B <= E /\ E <= B + d * (d - 1)
    BY <1>9, <1>10, <1>11, <1>12, <1>13
  <2> HIDE DEF A, B, C, D, E, g, X
  <2> QED BY <1>14, <2>1
<1>16. A - B = d * (d * (charged - preview)) /\ B - A = d * (d * (preview - charged))
  <2>1. charged \in Int /\ preview \in Int /\ d * charged \in Int /\ d * preview \in Int
    BY <1>2, <1>6
  <2>2. /\ d * (charged - preview) = d * charged - d * preview
        /\ d * (preview - charged) = d * preview - d * charged
    BY <2>1, Distribute
  <2> QED BY <2>1, <2>2, Distribute
<1> HIDE DEF A, B, C, D, E
<1>17. charged - preview <= 2 + (r \div d)
  <2> DEFINE k == charged - preview
  <2>1. k \in Int  BY <1>2, <1>6
  <2>2. d * (d * k) <= d * (d - 1) + (d - 1) * (d + r)  BY <1>15, <1>16
  <2> HIDE DEF k
  <2>3. d * (d - 1) + (d - 1) * (d + r) <= d * (2 * d + r)
    OBVIOUS
  <2>4. d * (d * k) <= d * (2 * d + r)  BY <2>1, <2>2, <2>3
  <2>5. d * k <= 2 * d + r  BY <2>1, <2>4
  <2>6. d * (k - 2) <= r /\ k - 2 \in Int  BY <2>1, <2>5
  <2>7. k - 2 <= r \div d  BY <2>6, BelowQuotient
  <2>8. r \div d \in Int  BY DivType
  <2> QED BY <2>1, <2>7, <2>8 DEF k
<1>18. preview - charged <= 1 + (P \div d)
  <2> DEFINE k == preview - charged
  <2>1. k \in Int  BY <1>2, <1>6
  <2>2. d * (d * k) <= P * (d - 1) + d * (d - 1)  BY <1>15, <1>16
  <2> HIDE DEF k
  <2>3. P * (d - 1) + d * (d - 1) <= d * (P + d)
    OBVIOUS
  <2>4. d * (d * k) <= d * (P + d)  BY <2>1, <2>2, <2>3
  <2>5. d * k <= P + d  BY <2>1, <2>4
  <2>6. d * (k - 1) <= P /\ k - 1 \in Int  BY <2>1, <2>5
  <2>7. k - 1 <= P \div d  BY <2>6, BelowQuotient
  <2>8. P \div d \in Int  BY DivType
  <2> QED BY <2>1, <2>7, <2>8 DEF k
<1> QED BY <1>17, <1>18

\* The interest that a query adds to a rounded balance P * M, at the ratio r,
\* is the interest that charging adds to the multiplier, but for roundings: one
\* for each of the products, the last digit of the multiplier for each of the P
\* points, and the interest on the fraction that the balance leaves out.
LEMMA PreviewRounds ==
  ASSUME NEW P \in Nat, NEW M \in Nat, NEW r \in Nat
  PROVE  LET charged == token_to_base(P, MulDec(M, One + r))
             balance == token_to_base(P, M)
             preview == balance + MulInt(balance, r)
         IN  /\ charged \in Nat /\ preview \in Nat
             /\ charged - preview <= 2 + (r \div One)
             /\ preview - charged <= 1 + (P \div One)
<1> DEFINE d == DecimalFractional
           N == (M * (d + r)) \div d
           charged == (P * N) \div d
           balance == (P * M) \div d
           w == (balance * r) \div d
           preview == balance + w
<1>0. d \in Nat \ {0}  BY FractionAssumption
<1> HIDE DEF d
<1>1. N \in Nat /\ d * N <= M * (d + r) /\ M * (d + r) <= d * N + (d - 1)
  <2>1. M * (d + r) \in Nat  BY <1>0
  <2> QED BY <1>0, <2>1, DivBounds
<1> HIDE DEF N
<1>2. charged \in Nat /\ d * charged <= P * N /\ P * N <= d * charged + (d - 1)
  <2>1. P * N \in Nat  BY <1>1
  <2> QED BY <1>0, <2>1, DivBounds
<1>3. balance \in Nat /\ d * balance <= P * M /\ P * M <= d * balance + (d - 1)
  <2>1. P * M \in Nat  OBVIOUS
  <2> QED BY <1>0, <2>1, DivBounds
<1> HIDE DEF charged, balance
<1>4. w \in Nat /\ d * w <= balance * r /\ balance * r <= d * w + (d - 1)
  <2>1. balance * r \in Nat  BY <1>3
  <2> QED BY <1>0, <2>1, DivBounds
<1> HIDE DEF w
<1>5. preview \in Nat /\ preview = balance + w  BY <1>3, <1>4
<1> HIDE DEF preview
<1>6. charged - preview <= 2 + (r \div d) /\ preview - charged <= 1 + (P \div d)
  BY <1>0, <1>1, <1>2, <1>3, <1>4, <1>5, RoundingsDiffer
<1>7. /\ charged = token_to_base(P, MulDec(M, One + r)) /\ balance = token_to_base(P, M)
      /\ preview = balance + MulInt(balance, r) /\ One = d
  BY DEF token_to_base, MulInt, MulDec, One, charged, balance, preview, N, w, d
<1> QED BY <1>2, <1>5, <1>6, <1>7

\* What charging adds to the lenders' claims, S C tokens, when nothing goes to
\* the reserve: at most the interest I, but for a rounding.
LEMMA ClaimsGrow ==
  ASSUME NEW d \in Nat \ {0}, NEW S \in Nat, NEW cm \in Nat, NEW cm1 \in Nat,
         NEW supplied \in Nat \ {0}, NEW total \in Nat, total <= supplied,
         NEW r \in Nat, NEW I \in Nat, NEW rc \in Nat,
         S * cm <= d * supplied + (d - 1), d * I <= total * r,
         supplied * rc <= I * d, d * cm1 <= cm * (d + rc)
  PROVE  S * cm1 <= S * cm + total * r + r
<1>1. rc <= r
  <2>1. total * r <= supplied * r  BY TimesMonotone
  <2>2. I * d = d * I /\ d * I \in Nat /\ total * r \in Nat  OBVIOUS
  <2>3. supplied * rc <= supplied * r  BY <2>1, <2>2
  <2> QED BY <2>3, CancelFactor
<1>2. cm * (d + rc) = d * cm + cm * rc
  <2>1. cm * (d + rc) = cm * d + cm * rc  BY Distribute
  <2> QED BY <2>1
<1>3. S * (d * cm1) <= S * (d * cm) + S * (cm * rc)
  <2>1. d * cm1 \in Nat /\ d * cm \in Nat /\ cm * rc \in Nat  OBVIOUS
  <2>2. S * (d * cm1) <= S * (d * cm + cm * rc)  BY <1>2, <2>1, TimesMonotone
  <2> QED BY <2>1, <2>2, Distribute
<1>4. S * (cm * rc) <= d * (d * I) + d * rc
  <2>1. S * cm \in Nat /\ d * supplied \in Nat /\ I * d \in Nat /\ supplied * rc \in Nat
        /\ d * I \in Nat
    OBVIOUS
  <2>2. (S * cm) * rc <= (d * supplied + (d - 1)) * rc  BY <2>1, TimesMonotone
  <2>3. (d * supplied + (d - 1)) * rc = (d * supplied) * rc + (d - 1) * rc
    BY <2>1, Distribute
  <2>4. (d * supplied) * rc = d * (supplied * rc)  OBVIOUS
  <2>5. d * (supplied * rc) <= d * (I * d)  BY <2>1, TimesMonotone
  <2>6. (d - 1) * rc <= d * rc  BY TimesMonotone
  <2>7. (S * cm) * rc = S * (cm * rc) /\ I * d = d * I  OBVIOUS
  <2>8. /\ S * (cm * rc) \in Int /\ d * (supplied * rc) \in Int /\ d * (I * d) \in Int
        /\ (d - 1) * rc \in Int /\ d * rc \in Int
    BY <2>1
  <2> QED BY <2>2, <2>3, <2>4, <2>5, <2>6, <2>7, <2>8
<1>5. d * (S * cm1) <= d * (S * cm + d * I + rc)
  <2>1. S * (d * cm1) = d * (S * cm1) /\ S * (d * cm) = d * (S * cm)  OBVIOUS
  <2>2. /\ S * cm1 \in Int /\ S * cm \in Int /\ d * I \in Int /\ S * (cm * rc) \in Int
        /\ d * (S * cm1) \in Int /\ d * (S * cm) \in Int /\ d * (d * I) \in Int
        /\ d * rc \in Int
    OBVIOUS
  <2>3. d * (S * cm + d * I + rc) = d * (S * cm) + d * (d * I) + d * rc
    BY <2>2, Distribute
  <2> QED BY <1>3, <1>4, <2>1, <2>2, <2>3
<1>6. S * cm1 <= S * cm + d * I + rc
  <2>1. S * cm1 \in Int /\ S * cm + d * I + rc \in Int  OBVIOUS
  <2> QED BY <1>5, <2>1, CancelFactor
<1>7. S * cm1 \in Int /\ S * cm \in Int /\ d * I \in Int /\ total * r \in Int
  OBVIOUS
<1> QED BY <1>1, <1>6, <1>7

\* What charging adds to debts of at least `total`, D points: the interest on
\* the total, but for the last digit of the multiplier on each point.
LEMMA DebtsGrow ==
  ASSUME NEW d \in Nat \ {0}, NEW D \in Nat, NEW dm \in Nat, NEW dm1 \in Nat,
         NEW total \in Nat, NEW r \in Nat,
         d * total <= D * dm, dm * (d + r) <= d * dm1 + (d - 1)
  PROVE  D * dm + total * r <= D * dm1 + D
<1>1. d * (total * r) <= D * (dm * r)
  <2>1. d * total \in Nat /\ D * dm \in Nat  OBVIOUS
  <2>2. (d * total) * r <= (D * dm) * r  BY <2>1, TimesMonotone
  <2> QED BY <2>2
<1>2. dm * (d + r) = d * dm + dm * r
  <2>1. dm * (d + r) = dm * d + dm * r  BY Distribute
  <2> QED BY <2>1
<1>3. D * (d * dm) + D * (dm * r) <= D * (d * dm1) + D * d
  <2>1. d * dm \in Nat /\ dm * r \in Nat /\ d * dm1 \in Nat  OBVIOUS
  <2>2. d * dm + dm * r <= d * dm1 + d  BY <1>2, <2>1
  <2>3. D * (d * dm + dm * r) <= D * (d * dm1 + d)  BY <2>1, <2>2, TimesMonotone
  <2> QED BY <2>1, <2>3, Distribute
<1>4. d * (D * dm + total * r) <= d * (D * dm1 + D)
  <2>1. D * (d * dm) = d * (D * dm) /\ D * (d * dm1) = d * (D * dm1) /\ D * d = d * D
    OBVIOUS
  <2>2. /\ D * dm \in Int /\ total * r \in Int /\ D * dm1 \in Int /\ D * (dm * r) \in Int
        /\ d * (D * dm) \in Int /\ d * (total * r) \in Int /\ d * (D * dm1) \in Int
        /\ d * D \in Int
    OBVIOUS
  <2>3. /\ d * (D * dm + total * r) = d * (D * dm) + d * (total * r)
        /\ d * (D * dm1 + D) = d * (D * dm1) + d * D
    BY <2>2, Distribute
  <2> QED BY <1>1, <1>3, <2>1, <2>2, <2>3
<1>5. D * dm + total * r \in Int /\ D * dm1 + D \in Int  OBVIOUS
<1> QED BY <1>4, <1>5, CancelFactor

-----------------------------------------------------------------------------
(***************************************************************************)
(* A bound on compounding: a value that grows by the factor x in every     *)
(* period, rounded up.                                                     *)
(***************************************************************************)
RoundedUp(value, x) == (value * x + One - 1) \div One

\* One more period.
NextValue(g, start, x, n) == IF n = 0 THEN start ELSE RoundedUp(g[n - 1], x)

\* g is that growth in the periods below k.
GrowthBelow(g, start, x, k) == \A n \in 0 .. k - 1 : g[n] = NextValue(g, start, x, n)

GrowthFunction(start, x) ==
  CHOOSE g : g = [n \in Nat |-> IF n = 0 THEN start ELSE (g[n - 1] * x + One - 1) \div One]

\* A product rounded up is within one of the exact one.
LEMMA RoundedUpBounds ==
  ASSUME NEW v \in Nat, NEW x \in Nat
  PROVE  RoundedUp(v, x) \in Nat /\ v * x <= RoundedUp(v, x) * One
<1> DEFINE d == One
           y == v * x + d - 1
<1>1. d \in Nat \ {0} /\ v * x \in Nat  BY FractionAssumption DEF One
<1>2. y \in Nat /\ v * x = y - (d - 1)
  <2> HIDE DEF d
  <2> QED BY <1>1
<1> HIDE DEF d, y
<1> DEFINE q == y \div d
<1>3. q \in Nat /\ y <= d * q + (d - 1)  BY <1>1, <1>2, DivBounds
<1> HIDE DEF q
<1>4. v * x <= q * d
  <2>1. d * q = q * d /\ d * q \in Nat  BY <1>1, <1>3
  <2> QED BY <1>1, <1>2, <1>3, <2>1
<1> QED BY <1>3, <1>4 DEF RoundedUp, q, y, d

\* The growth determines the function.
LEMMA GrowthUnique ==
  ASSUME NEW start, NEW x, NEW k \in Nat, NEW g, NEW h,
         GrowthBelow(g, start, x, k), GrowthBelow(h, start, x, k)
  PROVE  \A n \in 0 .. k - 1 : g[n] = h[n]
<1> DEFINE C == {n \in 0 .. k - 1 : g[n] # h[n]}
<1> SUFFICES ASSUME C # {} PROVE FALSE  OBVIOUS
<1>1. PICK m \in C : \A n \in C : m <= n
  <2>1. C \subseteq Nat  OBVIOUS
  <2> HIDE DEF C
  <2> QED BY <2>1, LeastNat
<1>2. m \in Nat /\ m \in 0 .. k - 1 /\ g[m] # h[m]  OBVIOUS
<1>3. m # 0 => g[m - 1] = h[m - 1]
  <2> SUFFICES ASSUME m # 0 PROVE g[m - 1] = h[m - 1]  OBVIOUS
  <2>1. m - 1 \in 0 .. k - 1 /\ ~ (m <= m - 1)  BY <1>2
  <2> QED BY <1>1, <2>1
<1>4. g[m] = NextValue(g, start, x, m) /\ h[m] = NextValue(h, start, x, m)
  BY <1>2 DEF GrowthBelow
<1>5. NextValue(g, start, x, m) = NextValue(h, start, x, m)  BY <1>3 DEF NextValue
<1> QED BY <1>2, <1>4, <1>5

\* There is such a growth below any number of periods.
LEMMA GrowthBelowExists ==
  ASSUME NEW start \in Nat, NEW x \in Nat
  PROVE  \A k \in Nat : \E g \in [0 .. k - 1 -> Nat] : GrowthBelow(g, start, x, k)
<1> DEFINE Good(k) == \E g \in [0 .. k - 1 -> Nat] : GrowthBelow(g, start, x, k)
           C == {k \in Nat : ~ Good(k)}
<1> SUFFICES ASSUME C # {} PROVE FALSE  OBVIOUS
<1>1. PICK k \in C : \A n \in C : k <= n
  <2>1. C \subseteq Nat  OBVIOUS
  <2> HIDE DEF C
  <2> QED BY <2>1, LeastNat
<1>2. k \in Nat /\ ~ Good(k)  OBVIOUS
<1>3. k # 0
  <2> SUFFICES ASSUME k = 0 PROVE FALSE  OBVIOUS
  <2>1. 0 .. k - 1 = {}  OBVIOUS
  <2> DEFINE g == [n \in 0 .. k - 1 |-> 0]
  <2>2. g \in [0 .. k - 1 -> Nat]  BY <2>1
  <2>3. GrowthBelow(g, start, x, k)  BY <2>1 DEF GrowthBelow
  <2> HIDE DEF g
  <2> QED BY <1>2, <2>2, <2>3
<1>4. k - 1 \in Nat /\ Good(k - 1)
  <2>1. k - 1 \in Nat /\ ~ (k <= k - 1)  BY <1>2, <1>3
  <2>2. k - 1 \notin C  BY <1>1, <2>1
  <2> QED BY <2>1, <2>2
<1> DEFINE last == k - 1
<1>5. PICK g \in [0 .. last - 1 -> Nat] : GrowthBelow(g, start, x, last)
  BY <1>4
<1>6. last \in Nat /\ k = last + 1  BY <1>2, <1>4
<1> HIDE DEF last, C, Good
<1> DEFINE top == NextValue(g, start, x, last)
           h == [n \in 0 .. last |-> IF n = last THEN top ELSE g[n]]
<1>7. top \in Nat
  <2>1. last # 0 => g[last - 1] \in Nat  BY <1>5, <1>6
  <2> QED BY <2>1, RoundedUpBounds DEF NextValue
<1> HIDE DEF top
<1>8. /\ h \in [0 .. last -> Nat] /\ h[last] = top
      /\ \A n \in 0 .. last - 1 : h[n] = g[n]
  <2>1. last \in 0 .. last /\ \A n \in 0 .. last - 1 : n \in 0 .. last /\ n # last
    BY <1>6
  <2>2. ASSUME NEW n \in 0 .. last
        PROVE  (IF n = last THEN top ELSE g[n]) \in Nat
    <3>1. n # last => n \in 0 .. last - 1  BY <1>6
    <3> QED BY <1>5, <1>7, <3>1
  <2>3. h \in [0 .. last -> Nat]  BY <2>2
  <2> QED BY <2>1, <2>3
<1> HIDE DEF h
<1>9. ASSUME NEW n \in 0 .. last
      PROVE  h[n] = NextValue(h, start, x, n)
  <2>1. n \in Nat /\ (n # 0 => g[n - 1] = h[n - 1])
    <3>1. n # 0 => n - 1 \in 0 .. last - 1  BY <1>6
    <3> QED BY <1>6, <1>8, <3>1
  <2>2. NextValue(g, start, x, n) = NextValue(h, start, x, n)  BY <2>1 DEF NextValue
  <2>3. CASE n = last
    BY <2>2, <2>3, <1>8 DEF top
  <2>4. CASE n # last
    <3>1. n \in 0 .. last - 1  BY <2>4, <1>6
    <3> QED BY <2>2, <3>1, <1>5, <1>8 DEF GrowthBelow
  <2> QED BY <2>3, <2>4
<1>10. 0 .. k - 1 = 0 .. last  BY <1>6
<1>11. GrowthBelow(h, start, x, k)  BY <1>9, <1>10 DEF GrowthBelow
<1> QED BY <1>2, <1>8, <1>10, <1>11 DEF Good

\* U starts at a value and grows by the factor x.
Grows(U, start, x) ==
    U \in [Nat -> Nat] /\ U[0] = start /\ \A n \in Nat : U[n + 1] = RoundedUp(U[n], x)

\* The recursive function is that growth.
LEMMA GrowthEquation ==
  ASSUME NEW start \in Nat, NEW x \in Nat
  PROVE  Grows(GrowthFunction(start, x), start, x)
<1> DEFINE U == GrowthFunction(start, x)
           Sol(k) == CHOOSE g \in [0 .. k - 1 -> Nat] : GrowthBelow(g, start, x, k)
           G == [n \in Nat |-> Sol(n + 1)[n]]
<1>1. \A k \in Nat : Sol(k) \in [0 .. k - 1 -> Nat] /\ GrowthBelow(Sol(k), start, x, k)
  BY GrowthBelowExists
<1> HIDE DEF Sol
<1>2. ASSUME NEW n \in Nat
      PROVE  G[n] \in Nat /\ G[n] = NextValue(G, start, x, n)
  <2> DEFINE s == Sol(n + 1)
  <2>1. /\ n + 1 \in Nat /\ GrowthBelow(s, start, x, n + 1) /\ n \in 0 .. (n + 1) - 1
        /\ s \in [0 .. (n + 1) - 1 -> Nat]
    BY <1>1
  <2>2. n # 0 => s[n - 1] = G[n - 1]
    <3> SUFFICES ASSUME n # 0 PROVE s[n - 1] = G[n - 1]  OBVIOUS
    <3> DEFINE j == n - 1
    <3>1. j \in Nat /\ j + 1 = n /\ j \in 0 .. n - 1  OBVIOUS
    <3>2. GrowthBelow(Sol(n), start, x, n)  BY <1>1
    <3>3. GrowthBelow(s, start, x, n)
      <4>1. \A i \in 0 .. n - 1 : i \in 0 .. (n + 1) - 1  OBVIOUS
      <4> QED BY <2>1, <4>1 DEF GrowthBelow
    <3>4. G[j] = Sol(n)[j]  BY <3>1
    <3> HIDE DEF s, G
    <3>5. \A i \in 0 .. n - 1 : s[i] = Sol(n)[i]  BY <3>2, <3>3, GrowthUnique
    <3> QED BY <3>1, <3>4, <3>5
  <2>3. G[n] = s[n]  OBVIOUS
  <2> HIDE DEF s, G
  <2>4. s[n] = NextValue(s, start, x, n)  BY <2>1 DEF GrowthBelow
  <2>5. NextValue(s, start, x, n) = NextValue(G, start, x, n)  BY <2>2 DEF NextValue
  <2>6. s[n] \in Nat  BY <2>1
  <2> QED BY <2>3, <2>4, <2>5, <2>6
<1>3. G = [n \in Nat |-> G[n]]  OBVIOUS
<1> HIDE DEF G
<1>4. G = [n \in Nat |-> IF n = 0 THEN start ELSE (G[n - 1] * x + One - 1) \div One]
  BY <1>2, <1>3 DEF NextValue, RoundedUp
<1>5. U = [n \in Nat |-> IF n = 0 THEN start ELSE (U[n - 1] * x + One - 1) \div One]
  BY <1>4 DEF GrowthFunction
<1> HIDE DEF U
<1>6. U[0] = start  BY <1>5
<1>7. ASSUME NEW n \in Nat PROVE U[n + 1] = RoundedUp(U[n], x)
  <2>1. n + 1 \in Nat /\ n + 1 # 0 /\ (n + 1) - 1 = n  OBVIOUS
  <2> DEFINE F(k) == IF k = 0 THEN start ELSE (U[k - 1] * x + One - 1) \div One
  <2>2. U = [k \in Nat |-> F(k)]  BY <1>5
  <2> HIDE DEF F
  <2>3. U[n + 1] = F(n + 1)  BY <2>1, <2>2
  <2> QED BY <2>1, <2>3 DEF RoundedUp, F
<1>8. \A n \in Nat : U[n] \in Nat
  <2> DEFINE C == {n \in Nat : U[n] \notin Nat}
  <2> SUFFICES ASSUME C # {} PROVE FALSE  OBVIOUS
  <2>1. PICK m \in C : \A n \in C : m <= n
    <3>1. C \subseteq Nat  OBVIOUS
    <3> HIDE DEF C
    <3> QED BY <3>1, LeastNat
  <2>2. m \in Nat /\ U[m] \notin Nat  OBVIOUS
  <2>3. m # 0  BY <1>6, <2>2
  <2>4. m - 1 \in Nat /\ (m - 1) + 1 = m /\ ~ (m <= m - 1)  BY <2>2, <2>3
  <2>5. U[m - 1] \in Nat  BY <2>1, <2>4
  <2>6. U[m] = RoundedUp(U[m - 1], x)  BY <1>7, <2>4
  <2> QED BY <2>2, <2>5, <2>6, RoundedUpBounds
<1>9. U \in [Nat -> Nat]
  <2>1. U = [n \in Nat |-> U[n]]  BY <1>5
  <2> QED BY <1>8, <2>1
<1> QED BY <1>6, <1>7, <1>9 DEF Grows, U

\* The factor b takes no value of U further than j periods.
GrowsWithin(U, b, j) == \A k \in Nat : U[k] * b <= U[k + j] * One

\* Products of factors, rounded down, take as many periods as both.
LEMMA GrowsProduct ==
  ASSUME NEW U \in [Nat -> Nat], NEW b \in Nat, NEW c \in Nat, NEW i \in Nat, NEW j \in Nat,
         GrowsWithin(U, b, i), GrowsWithin(U, c, j)
  PROVE  GrowsWithin(U, MulDec(b, c), i + j)
<1> SUFFICES ASSUME NEW k \in Nat PROVE U[k] * MulDec(b, c) <= U[k + (i + j)] * One
  BY DEF GrowsWithin
<1> DEFINE d == One
           q == (b * c) \div d
           v == U[k]
           w == U[k + i]
           z == U[k + (i + j)]
<1>1. d \in Nat \ {0} /\ b * c \in Nat  BY FractionAssumption DEF One
<1>2. q \in Nat /\ d * q <= b * c
  <2> HIDE DEF d
  <2> QED BY <1>1, DivBounds
<1>3. v \in Nat /\ w \in Nat /\ z \in Nat /\ v * b <= w * d /\ w * c <= z * d
  <2>1. k + i \in Nat /\ k + (i + j) \in Nat /\ (k + i) + j = k + (i + j)  OBVIOUS
  <2>2. U[k] * b <= U[k + i] * One /\ U[k + i] * c <= U[(k + i) + j] * One
    BY <2>1 DEF GrowsWithin
  <2> QED BY <2>1, <2>2
<1>4. MulDec(b, c) = q  BY DEF MulDec, One
<1> HIDE DEF d, q, v, w, z
<1>5. v * (d * q) <= v * (b * c)
  <2>1. d * q \in Nat  BY <1>1, <1>2
  <2> QED BY <1>1, <1>2, <1>3, <2>1, TimesMonotone
<1>6. (v * b) * c <= (w * d) * c
  <2>1. v * b \in Nat /\ w * d \in Nat  BY <1>1, <1>3
  <2> QED BY <1>3, <2>1, TimesMonotone
<1>7. d * (w * c) <= d * (z * d)
  <2>1. w * c \in Nat /\ z * d \in Nat  BY <1>1, <1>3
  <2> QED BY <1>1, <1>3, <2>1, TimesMonotone
<1>8. d * (v * q) <= d * (z * d)
  <2>1. v * (d * q) = d * (v * q) /\ v * (b * c) = (v * b) * c /\ (w * d) * c = d * (w * c)
    BY <1>1, <1>2, <1>3
  <2>2. /\ d * (v * q) \in Int /\ (v * b) * c \in Int /\ d * (w * c) \in Int
        /\ d * (z * d) \in Int
    BY <1>1, <1>2, <1>3
  <2> QED BY <1>5, <1>6, <1>7, <2>1, <2>2
<1>9. v * q \in Int /\ z * d \in Int  BY <1>1, <1>2, <1>3
<1>10. v * q <= z * d  BY <1>1, <1>8, <1>9, CancelFactor
<1> QED BY <1>4, <1>10 DEF v, z, d

\* A value that does not shrink in a period does not in any number of them.
LEMMA GrowthMonotone ==
  ASSUME NEW U \in [Nat -> Nat], \A n \in Nat : U[n] <= U[n + 1],
         NEW k \in Nat
  PROVE  \A j \in Nat : U[k] <= U[k + j]
<1> DEFINE C == {j \in Nat : ~ (U[k] <= U[k + j])}
<1> SUFFICES ASSUME C # {} PROVE FALSE  OBVIOUS
<1>1. PICK j \in C : \A n \in C : j <= n
  <2>1. C \subseteq Nat  OBVIOUS
  <2> HIDE DEF C
  <2> QED BY <2>1, LeastNat
<1>2. j \in Nat /\ ~ (U[k] <= U[k + j])  OBVIOUS
<1>3. j # 0
  <2>1. U[k] \in Nat /\ k + 0 = k  OBVIOUS
  <2> QED BY <1>2, <2>1
<1>4. j - 1 \in Nat /\ ~ (j <= j - 1) /\ k + (j - 1) \in Nat /\ (k + (j - 1)) + 1 = k + j
  BY <1>2, <1>3
<1>5. U[k] <= U[k + (j - 1)]  BY <1>1, <1>4
<1>6. U[k + (j - 1)] <= U[(k + (j - 1)) + 1]  BY <1>4
<1>7. U[k] \in Nat /\ U[k + (j - 1)] \in Nat /\ U[k + j] \in Nat  BY <1>2, <1>4
<1> QED BY <1>2, <1>4, <1>5, <1>6, <1>7

\* What is compounded over n periods of i, and j more.
LEMMA GrowsPow ==
  ASSUME NEW U \in [Nat -> Nat], \A n \in Nat : U[n] <= U[n + 1]
  PROVE  \A n \in Nat, x \in Nat, y \in Nat, i \in Nat, j \in Nat :
            GrowsWithin(U, x, i) /\ GrowsWithin(U, y, j)
              => GrowsWithin(U, PowFunction[n][x][y], n * i + j)
<1> DEFINE Good(n) == \A x \in Nat, y \in Nat, i \in Nat, j \in Nat :
                         GrowsWithin(U, x, i) /\ GrowsWithin(U, y, j)
                           => GrowsWithin(U, PowFunction[n][x][y], n * i + j)
           C == {n \in Nat : ~ Good(n)}
<1> SUFFICES ASSUME C # {} PROVE FALSE  OBVIOUS
<1>1. PICK n \in C : \A k \in C : n <= k
  <2>1. C \subseteq Nat  OBVIOUS
  <2> HIDE DEF C
  <2> QED BY <2>1, LeastNat
<1>2. n \in Nat /\ ~ Good(n)  OBVIOUS
<1>3. \A k \in 0 .. n - 1 : Good(k)
  <2> SUFFICES ASSUME NEW k \in 0 .. n - 1 PROVE Good(k)  OBVIOUS
  <2>1. k \in Nat /\ ~ (n <= k)  BY <1>2
  <2>2. k \notin C  BY <1>1, <2>1
  <2> QED BY <2>1, <2>2
<1> HIDE DEF C
<1> SUFFICES ASSUME NEW x \in Nat, NEW y \in Nat, NEW i \in Nat, NEW j \in Nat,
                    GrowsWithin(U, x, i), GrowsWithin(U, y, j)
             PROVE  GrowsWithin(U, PowFunction[n][x][y], n * i + j)
  BY <1>2
<1>4. MulDec(x, x) \in Nat /\ MulDec(x, y) \in Nat  BY MulDecNat
<1>5. GrowsWithin(U, MulDec(x, x), i + i) /\ GrowsWithin(U, MulDec(x, y), i + j)
  BY GrowsProduct
<1>6. i + i \in Nat /\ i + j \in Nat  OBVIOUS
<1>7. PowFunction[n][x][y] = Squaring(PowFunction, n, x, y)  BY <1>2, PowValue
<1>8. CASE n = 0
  <2>1. PowFunction[n][x][y] = One /\ n * i + j = j  BY <1>7, <1>8 DEF Squaring
  <2>2. ASSUME NEW k \in Nat PROVE U[k] * One <= U[k + j] * One
    <3>1. U[k] \in Nat /\ U[k + j] \in Nat  OBVIOUS
    <3>3. U[k] <= U[k + j]
      <4>1. \A h \in Nat : U[k] <= U[k + h]  BY GrowthMonotone
      <4> QED BY <4>1
    <3>2. One \in Nat  BY FractionAssumption DEF One
    <3> QED BY <3>1, <3>2, <3>3, TimesMonotone
  <2> QED BY <2>1, <2>2 DEF GrowsWithin
<1>9. CASE n = 1
  <2>1. PowFunction[n][x][y] = MulDec(x, y) /\ n * i + j = i + j
    BY <1>7, <1>9 DEF Squaring
  <2> QED BY <1>5, <2>1
<1>10. CASE n # 0 /\ n # 1
  <2>1. n \div 2 \in 0 .. n - 1 /\ (n - 1) \div 2 \in 0 .. n - 1  BY <1>2, <1>10, Halves
  <2>2. CASE n % 2 = 0
    <3> DEFINE h == n \div 2
    <3>1. n = 2 * h /\ h \in Nat /\ h \in 0 .. n - 1  BY <1>2, <2>1, <2>2
    <3>2. PowFunction[n][x][y] = PowFunction[h][MulDec(x, x)][y]
      BY <1>7, <1>10, <2>2 DEF Squaring
    <3> HIDE DEF h
    <3>3. GrowsWithin(U, PowFunction[h][MulDec(x, x)][y], h * (i + i) + j)
      <4>1. Good(h)  BY <1>3, <3>1
      <4> QED BY <1>4, <1>5, <1>6, <4>1
    <3>4. h * (i + i) + j = n * i + j
      <4>1. h * (i + i) = h * i + h * i  BY <3>1, Distribute
      <4>2. (2 * h) * i = h * i + h * i  BY <3>1
      <4> QED BY <3>1, <4>1, <4>2
    <3> QED BY <3>2, <3>3, <3>4
  <2>3. CASE n % 2 # 0
    <3> DEFINE h == (n - 1) \div 2
    <3>1. n = 2 * h + 1 /\ h \in Nat /\ h \in 0 .. n - 1  BY <1>2, <2>1, <2>3
    <3>2. PowFunction[n][x][y] = PowFunction[h][MulDec(x, x)][MulDec(x, y)]
      BY <1>7, <1>10, <2>3 DEF Squaring
    <3> HIDE DEF h
    <3>3. GrowsWithin(U, PowFunction[h][MulDec(x, x)][MulDec(x, y)], h * (i + i) + (i + j))
      <4>1. Good(h)  BY <1>3, <3>1
      <4> QED BY <1>4, <1>5, <1>6, <4>1
    <3>4. h * (i + i) + (i + j) = n * i + j
      <4>1. h * (i + i) = h * i + h * i /\ h * i \in Nat  BY <3>1, Distribute
      <4>2. (2 * h + 1) * i = h * i + h * i + i
        <5>1. (2 * h + 1) * i = (2 * h) * i + 1 * i  BY <3>1, Distribute
        <5>2. (2 * h) * i = h * i + h * i  BY <3>1
        <5> QED BY <5>1, <5>2
      <4> QED BY <3>1, <4>1, <4>2
    <3> QED BY <3>2, <3>3, <3>4
  <2> QED BY <2>2, <2>3
<1> QED BY <1>8, <1>9, <1>10

\* Compounding takes a period for each of its own at no more than the factor
\* with which U grows.
LEMMA CompoundedWithin ==
  ASSUME NEW start \in Nat, NEW top \in Nat, NEW U, U = GrowthFunction(start, One + top),
         SecondsInYear \in Nat \ {0}, NEW rate \in Nat, NEW charge_period \in Nat,
         (charge_period * rate) \div SecondsInYear <= top,
         NEW epochs \in Nat, NEW k \in Nat, NEW v \in Nat, v <= U[k],
         NEW r \in Nat, r <= compounded_interest_rate(rate, charge_period, epochs)
  PROVE  MulDec(v, One + r) <= U[k + epochs]
<1> DEFINE d == One
           x == d + top
           y == d + (charge_period * rate) \div SecondsInYear
           p == PowFunction[epochs][y][d]
<1>1. d \in Nat \ {0}  BY FractionAssumption DEF One
<1>2. (charge_period * rate) \div SecondsInYear \in Nat
  <2>1. charge_period * rate \in Nat  OBVIOUS
  <2> QED BY <2>1, DivType
<1>3. d + r <= p
  <2>1. compounded_interest_rate(rate, charge_period, epochs) = p - d
    BY PowDef DEF compounded_interest_rate
  <2>2. p \in Nat
    <3>1. y \in Nat  BY <1>1, <1>2
    <3>2. PowFunction[epochs] \in [Nat -> [Nat -> Nat]]  BY PowNat
    <3> HIDE DEF y, d
    <3> QED BY <1>1, <3>1, <3>2
  <2> HIDE DEF p, d
  <2> QED BY <1>1, <2>1, <2>2
<1>4. x \in Nat /\ y \in Nat /\ y <= x /\ x >= d
  <2> DEFINE z == (charge_period * rate) \div SecondsInYear
  <2> HIDE DEF d
  <2>1. z \in Nat /\ z <= top  BY <1>2
  <2> HIDE DEF z
  <2>2. d + z \in Nat /\ d + z <= d + top  BY <1>1, <2>1
  <2> QED BY <1>1, <2>2 DEF z
<1>b. U = GrowthFunction(start, x)  OBVIOUS
<1> HIDE DEF y, x
<1>5. /\ U \in [Nat -> Nat] /\ \A n \in Nat : U[n + 1] = RoundedUp(U[n], x)
  <2>1. Grows(GrowthFunction(start, x), start, x)  BY <1>4, GrowthEquation
  <2> QED BY <1>b, <2>1 DEF Grows
<1>6. \A n \in Nat : U[n] * x <= U[n + 1] * d
  BY <1>4, <1>5, RoundedUpBounds
<1>7. \A n \in Nat : U[n] <= U[n + 1] /\ U[n] * y <= U[n + 1] * d
  <2> SUFFICES ASSUME NEW n \in Nat PROVE U[n] <= U[n + 1] /\ U[n] * y <= U[n + 1] * d
    OBVIOUS
  <2> DEFINE u == U[n]
             w == U[n + 1]
  <2>1. u \in Nat /\ w \in Nat /\ u * x <= w * d  BY <1>5, <1>6
  <2> HIDE DEF u, w, d
  <2>2. u * d <= u * x /\ u * y <= u * x  BY <1>1, <1>4, <2>1, TimesMonotone
  <2>3. u * d = d * u /\ w * d = d * w /\ u * x \in Int /\ u * y \in Int /\ d * u \in Int
        /\ d * w \in Int
    BY <1>1, <1>4, <2>1
  <2>4. d * u <= d * w  BY <2>1, <2>2, <2>3
  <2>5. u <= w  BY <1>1, <2>1, <2>4, CancelFactor
  <2> QED BY <2>1, <2>2, <2>3, <2>5 DEF u, w
<1>8. GrowsWithin(U, y, 1) /\ GrowsWithin(U, d, 0)
  <2>1. \A n \in Nat : n + 0 = n  OBVIOUS
  <2>2. \A n \in Nat : U[n] * d \in Int  BY <1>1, <1>5
  <2> QED BY <1>7, <2>1, <2>2 DEF GrowsWithin
<1>9. GrowsWithin(U, p, epochs)
  <2>1. GrowsWithin(U, PowFunction[epochs][y][d], epochs * 1 + 0)
    BY <1>1, <1>4, <1>5, <1>7, <1>8, GrowsPow
  <2>2. epochs * 1 + 0 = epochs  OBVIOUS
  <2> QED BY <2>1, <2>2
<1>10. p \in Nat
  <2>1. PowFunction[epochs] \in [Nat -> [Nat -> Nat]]  BY PowNat
  <2> QED BY <1>1, <1>4, <2>1
<1> DEFINE w == U[k + epochs]
           u == U[k]
           q == (v * (d + r)) \div d
<1>11. u \in Nat /\ w \in Nat /\ u * p <= w * d
  <2>1. k + epochs \in Nat  OBVIOUS
  <2> QED BY <1>5, <1>9, <2>1 DEF GrowsWithin
<1>12. q \in Nat /\ d * q <= v * (d + r)
  <2>1. v * (d + r) \in Nat  BY <1>1
  <2> HIDE DEF d
  <2> QED BY <1>1, <2>1, DivBounds
<1>13. MulDec(v, One + r) = q  BY DEF MulDec, One
<1>a. v <= u  OBVIOUS
<1> HIDE DEF d, p, u, w, q
<1>14. v * (d + r) <= u * p
  <2>1. v * (d + r) <= v * p /\ v * p <= u * p
    <3>1. d + r \in Int /\ p \in Int  BY <1>1, <1>10
    <3> QED BY <1>3, <1>10, <1>11, <1>a, <3>1, TimesMonotone
  <2>2. v * (d + r) \in Int /\ v * p \in Int /\ u * p \in Int  BY <1>1, <1>10, <1>11
  <2> QED BY <2>1, <2>2
<1>15. d * q <= d * w
  <2>1. w * d = d * w /\ d * q \in Int /\ v * (d + r) \in Int /\ u * p \in Int /\ d * w \in Int
    BY <1>1, <1>10, <1>11, <1>12
  <2> QED BY <1>11, <1>12, <1>14, <2>1
<1>16. q <= w  BY <1>1, <1>11, <1>12, <1>15, CancelFactor
<1> QED BY <1>13, <1>16 DEF w

\* Products of greater decimals are greater.
LEMMA MulDecMonotone ==
  ASSUME NEW x \in Nat, NEW y \in Nat, NEW v \in Nat, NEW w \in Nat, x <= y, v <= w
  PROVE  MulDec(x, v) \in Nat /\ MulDec(y, w) \in Nat /\ MulDec(x, v) <= MulDec(y, w)
<1>1. MulDec(x, v) = MulInt(x, v) /\ MulDec(y, w) = MulInt(y, w)  BY DEF MulDec, MulInt
<1> QED BY <1>1, MulIntMonotone

\* Multiplying by at most one does not enlarge a decimal.
LEMMA MulDecShrinks ==
  ASSUME NEW x \in Nat, NEW y \in Nat, y <= One
  PROVE  MulDec(x, y) \in Nat /\ MulDec(x, y) <= x
<1>1. One \in Nat  BY FractionAssumption DEF One
<1>2. /\ MulDec(x, y) \in Nat /\ MulDec(x, One) \in Nat
      /\ MulDec(x, y) <= MulDec(x, One)
  <2>1. x <= x  OBVIOUS
  <2> QED BY <1>1, <2>1, MulDecMonotone
<1>3. MulDec(x, One) = x
  <2> DEFINE d == DecimalFractional
  <2>1. d \in Nat \ {0}  BY FractionAssumption
  <2> HIDE DEF d
  <2>2. x * d = d * x + 0 /\ 0 \in 0 .. d - 1 /\ x * d \in Int  BY <2>1
  <2>3. (x * d) \div d = x  BY <2>1, <2>2, Euclid
  <2> QED BY <2>3 DEF MulDec, One, d
<1> QED BY <1>2, <1>3

\* What is at most the breakpoint is at most one in its terms.
LEMMA ScaledShare ==
  ASSUME NEW u \in Nat, NEW opt \in Nat \ {0}, u <= opt
  PROVE  Inv(opt) \in Nat /\ MulDec(u, Inv(opt)) \in Nat /\ MulDec(u, Inv(opt)) <= One
<1> DEFINE d == DecimalFractional
           i == (d * d) \div opt
           q == (u * i) \div d
<1>1. d \in Nat \ {0} /\ d * d \in Nat  BY FractionAssumption
<1> HIDE DEF d
<1>2. i \in Nat /\ opt * i <= d * d  BY <1>1, DivBounds
<1> HIDE DEF i
<1>3. u * i \in Nat /\ u * i <= opt * i  BY <1>2, TimesMonotone
<1>4. q \in Nat /\ d * q <= u * i  BY <1>1, <1>3, DivBounds
<1> HIDE DEF q
<1>5. d * q <= d * d
  <2>1. d * q \in Int /\ u * i \in Int /\ opt * i \in Int  BY <1>1, <1>2, <1>4
  <2> QED BY <1>1, <1>2, <1>3, <1>4, <2>1
<1>6. q <= d  BY <1>1, <1>4, <1>5, CancelFactor
<1>7. Inv(opt) = i /\ MulDec(u, Inv(opt)) = q /\ One = d
  BY DEF Inv, DivDec, MulDec, One, d, i, q
<1> QED BY <1>2, <1>4, <1>6, <1>7

\* A curve is highest when all that was deposited is lent.
LEMMA RateHighest ==
  ASSUME NEW rates, IsCurve(rates), Valid(rates), NEW u \in Nat, u <= One
  PROVE  calculate_interest_rate(rates, u) <= calculate_interest_rate(rates, One)
<1>0. One \in Nat  BY FractionAssumption DEF One
<1>1. CASE rates.kind = "linear"
  <2>1. rates.base \in Nat /\ rates.slope \in Nat  BY <1>1 DEF IsCurve
  <2>2. /\ MulDec(rates.slope, u) \in Nat /\ MulDec(rates.slope, One) \in Nat
        /\ MulDec(rates.slope, u) <= MulDec(rates.slope, One)
    <3>1. rates.slope <= rates.slope  BY <2>1
    <3> QED BY <1>0, <2>1, <3>1, MulDecMonotone
  <2> QED BY <1>1, <2>1, <2>2 DEF calculate_interest_rate
<1>2. CASE rates.kind # "linear"
  <2> DEFINE opt == rates.optimal_utilisation
             low == MulDec(rates.slope1, MulDec(u, Inv(opt)))
             high(v) == MulDec(rates.slope2, MulDec(v - opt, Inv(One - opt)))
  <2>1. /\ rates.base \in Nat /\ rates.slope1 \in Nat /\ rates.slope2 \in Nat
        /\ opt \in Nat \ {0} /\ One - opt \in Nat \ {0}
    BY <1>0, <1>2 DEF IsCurve, Valid
  <2>2. Inv(One - opt) \in Nat
    BY <1>0, <2>1, DivDecNat DEF Inv
  <2>3. ASSUME NEW v \in Nat, v >= opt, v <= One
        PROVE  high(v) \in Nat /\ high(v) <= high(One)
    <3>1. v - opt \in Nat /\ v - opt <= One - opt /\ One - opt \in Nat
      BY <1>0, <2>1, <2>3
    <3>2. Inv(One - opt) <= Inv(One - opt)  BY <2>2
    <3> HIDE DEF opt
    <3>3. /\ MulDec(v - opt, Inv(One - opt)) \in Nat
          /\ MulDec(One - opt, Inv(One - opt)) \in Nat
          /\ MulDec(v - opt, Inv(One - opt)) <= MulDec(One - opt, Inv(One - opt))
      BY <2>2, <3>1, <3>2, MulDecMonotone
    <3>4. rates.slope2 <= rates.slope2  BY <2>1
    <3> QED BY <2>1, <3>3, <3>4, MulDecMonotone
  <2>4. ~ (One < opt) /\ One >= opt /\ One <= One  BY <1>0, <2>1
  <2>5. high(One) \in Nat  BY <1>0, <2>3, <2>4
  <2>6. calculate_interest_rate(rates, One) = rates.base + rates.slope1 + high(One)
    BY <1>2, <2>4 DEF calculate_interest_rate
  <2>7. CASE u < opt
    <3>1. u <= opt  BY <2>1, <2>7
    <3>2. MulDec(u, Inv(opt)) \in Nat /\ MulDec(u, Inv(opt)) <= One
      BY <2>1, <3>1, ScaledShare
    <3>3. low \in Nat /\ low <= rates.slope1  BY <2>1, <3>2, MulDecShrinks
    <3>4. calculate_interest_rate(rates, u) = rates.base + low
      BY <1>2, <2>7 DEF calculate_interest_rate
    <3> HIDE DEF low, high
    <3> QED BY <2>1, <2>5, <2>6, <3>3, <3>4
  <2>8. CASE ~ (u < opt)
    <3>1. u >= opt  BY <2>1, <2>8
    <3>2. high(u) \in Nat /\ high(u) <= high(One)  BY <2>3, <3>1
    <3>3. calculate_interest_rate(rates, u) = rates.base + rates.slope1 + high(u)
      BY <1>2, <2>8 DEF calculate_interest_rate
    <3> HIDE DEF high
    <3> QED BY <2>1, <2>5, <2>6, <3>2, <3>3
  <2> QED BY <2>7, <2>8
<1> QED BY <1>1, <1>2
=============================================================================
