---------------------------- MODULE CreditProofs ----------------------------
(***************************************************************************)
(* Theorems about the credit of accounts, for every set of users, tokens,  *)
(* prices and collateral ratios: only prices, the passing of time and      *)
(* governance bring an account to where it can be liquidated, and no       *)
(* transaction deepens the shortfall of one that is there.                 *)
(*                                                                         *)
(* The health of an account is the sum, over the markets that it is in, of *)
(* what it has there at a price and a collateral ratio less what it owes.  *)
(* A transaction moves its balances in at most two markets.  What it moves *)
(* there is bounded by the amount of the message, but for the roundings of *)
(* divisions and of interest that it charges, and the amount by what the   *)
(* market or the agency checked in the transaction.                        *)
(***************************************************************************)
EXTENDS PlatformProofs

-----------------------------------------------------------------------------
(***************************************************************************)
(* Roundings: what they make of the parts of an amount.                    *)
(***************************************************************************)
\* The value of a sum is that of its parts, but for a rounding.
LEMMA MulIntParts ==
  ASSUME NEW x \in Nat, NEW y \in Nat, NEW p \in Nat
  PROVE  /\ MulInt(x, p) \in Nat /\ MulInt(y, p) \in Nat /\ MulInt(x + y, p) \in Nat
         /\ MulInt(x, p) + MulInt(y, p) <= MulInt(x + y, p)
         /\ MulInt(x + y, p) <= MulInt(x, p) + MulInt(y, p) + 1
<1> DEFINE X == MulInt(x, p)
           Y == MulInt(y, p)
           Z == MulInt(x + y, p)
<1>0. One \in Nat \ {0} /\ DecimalFractional = One  BY FractionAssumption DEF One
<1>1. x * p \in Nat /\ y * p \in Nat /\ (x + y) * p \in Nat  OBVIOUS
<1>2. (x + y) * p = x * p + y * p  OBVIOUS
<1>3. X \in Nat /\ One * X <= x * p /\ x * p <= One * X + (One - 1)
  BY <1>0, <1>1, DivBounds DEF MulInt
<1>4. Y \in Nat /\ One * Y <= y * p /\ y * p <= One * Y + (One - 1)
  BY <1>0, <1>1, DivBounds DEF MulInt
<1>5. Z \in Nat /\ One * Z <= (x + y) * p /\ (x + y) * p <= One * Z + (One - 1)
  BY <1>0, <1>1, DivBounds DEF MulInt
<1> HIDE DEF X, Y, Z
<1> DEFINE a == One * X
           b == One * Y
           c == One * Z
<1>6. a \in Nat /\ b \in Nat /\ c \in Nat  BY <1>0, <1>3, <1>4, <1>5
<1>7. One * (X + Y) = a + b /\ One * (X + Y + 1) = a + b + One /\ One * (Z + 1) = c + One
  BY <1>0, <1>3, <1>4, <1>5
<1> HIDE DEF a, b, c
<1> DEFINE s == x * p
           t == y * p
           u == (x + y) * p
<1>8. /\ s \in Nat /\ t \in Nat /\ u = s + t
      /\ a <= s /\ s <= a + (One - 1) /\ b <= t /\ t <= b + (One - 1)
      /\ c <= u /\ u <= c + (One - 1)
  BY <1>1, <1>2, <1>3, <1>4, <1>5 DEF a, b, c
<1> HIDE DEF s, t, u
<1>9. a + b < c + One /\ c < a + b + One + One  BY <1>0, <1>6, <1>8
<1>10. X + Y \in Int /\ Z \in Int  BY <1>3, <1>4, <1>5
<1>11. X + Y <= Z
  <2> SUFFICES ASSUME Z + 1 <= X + Y PROVE FALSE  BY <1>10
  <2>1. One * (Z + 1) <= One * (X + Y)  BY <1>0, <1>10, TimesMonotone
  <2> QED BY <2>1, <1>7, <1>9, <1>6, <1>0
<1>12. Z <= X + Y + 1
  <2> SUFFICES ASSUME X + Y + 1 + 1 <= Z PROVE FALSE  BY <1>10
  <2>1. One * (X + Y + 1 + 1) <= One * Z  BY <1>0, <1>10, TimesMonotone
  <2>2. One * (X + Y + 1 + 1) = One * (X + Y + 1) + One  BY <1>0, <1>3, <1>4
  <2> QED BY <2>1, <2>2, <1>7, <1>9, <1>6, <1>0 DEF c
<1> QED BY <1>3, <1>4, <1>5, <1>11, <1>12 DEF X, Y, Z

\* What collateral adds to a credit line, at a price and a collateral ratio.
Line(amount, price, ratio) == MulInt(MulInt(amount, price), ratio)

\* More collateral is a longer line.
LEMMA LineMonotone ==
  ASSUME NEW x \in Nat, NEW y \in Nat, x <= y, NEW p \in Nat, NEW q \in Nat
  PROVE  Line(x, p, q) \in Nat /\ Line(y, p, q) \in Nat /\ Line(x, p, q) <= Line(y, p, q)
<1>0. p <= p /\ q <= q  OBVIOUS
<1>1. MulInt(x, p) \in Nat /\ MulInt(y, p) \in Nat /\ MulInt(x, p) <= MulInt(y, p)
  BY <1>0, MulIntMonotone
<1> DEFINE X == MulInt(x, p)
           Y == MulInt(y, p)
<1>a. X \in Nat /\ Y \in Nat /\ X <= Y  BY <1>1
<1> HIDE DEF X, Y
<1>b. MulInt(X, q) \in Nat /\ MulInt(Y, q) \in Nat /\ MulInt(X, q) <= MulInt(Y, q)
  BY <1>0, <1>a, MulIntMonotone
<1> QED BY <1>b DEF Line, X, Y

\* A line whose collateral x loses v, and r by roundings.
LEMMA LineLoses ==
  ASSUME NEW x \in Nat, NEW y \in Nat, NEW r \in Nat, NEW v \in Nat, x <= y + r + v,
         NEW p \in Nat, NEW q \in Nat
  PROVE  /\ Line(x, p, q) \in Nat /\ Line(y, p, q) \in Nat /\ Line(v, p, q) \in Nat
         /\ MulInt(MulInt(r, p) + 2, q) \in Nat
         /\ Line(x, p, q) <= Line(y, p, q) + MulInt(MulInt(r, p) + 2, q) + 2 + Line(v, p, q)
<1> DEFINE X == MulInt(x, p)
           Y == MulInt(y, p)
           R == MulInt(r, p)
           V == MulInt(v, p)
           W == MulInt(y + r + v, p)
           Z == MulInt(y + r, p)
<1>1. /\ Y \in Nat /\ R \in Nat /\ Z \in Nat /\ Z <= Y + R + 1
  BY MulIntParts
<1>2. V \in Nat /\ W \in Nat /\ W <= Z + V + 1
  <2>1. y + r \in Nat  OBVIOUS
  <2> QED BY <2>1, MulIntParts
<1>3. X \in Nat /\ X <= W
  <2>1. y + r + v \in Nat  OBVIOUS
  <2>2. p \in Nat /\ p <= p  OBVIOUS
  <2> QED BY <2>1, <2>2, MulIntMonotone
<1>4. x \in Nat /\ y \in Nat /\ v \in Nat  OBVIOUS
<1> HIDE DEF X, Y, R, V, W, Z
<1> DEFINE k == R + 2
           T == MulInt(Y + k + V, q)
           S == MulInt(Y + k, q)
<1>5. k \in Nat /\ Y + k \in Nat /\ Y + k + V \in Nat /\ X <= Y + k + V
  BY <1>1, <1>2, <1>3
<1> HIDE DEF k
<1>6. /\ MulInt(Y, q) \in Nat /\ MulInt(k, q) \in Nat /\ S \in Nat
      /\ S <= MulInt(Y, q) + MulInt(k, q) + 1
  BY <1>1, <1>5, MulIntParts
<1>7. MulInt(V, q) \in Nat /\ T \in Nat /\ T <= S + MulInt(V, q) + 1
  BY <1>2, <1>5, MulIntParts
<1>8. MulInt(X, q) \in Nat /\ MulInt(X, q) <= T
  <2>1. q \in Nat /\ q <= q  OBVIOUS
  <2> QED BY <1>3, <1>5, <2>1, MulIntMonotone
<1> HIDE DEF S, T
<1>9. MulInt(X, q) <= MulInt(Y, q) + MulInt(k, q) + 2 + MulInt(V, q)
  BY <1>6, <1>7, <1>8
<1> QED BY <1>6, <1>7, <1>8, <1>9 DEF Line, X, Y, V, R, k

\* The value of a debt y after a loan u, a repayment w and roundings s.
LEMMA OwedGrows ==
  ASSUME NEW y \in Nat, NEW z \in Nat, NEW s \in Nat, NEW u \in Nat, NEW w \in Nat,
         z + w <= y + s + u, NEW p \in Nat
  PROVE  /\ MulInt(y, p) \in Nat /\ MulInt(z, p) \in Nat /\ MulInt(s, p) \in Nat
         /\ MulInt(u, p) \in Nat /\ MulInt(w, p) \in Nat
         /\ MulInt(z, p) + MulInt(w, p) <= MulInt(y, p) + MulInt(s, p) + MulInt(u, p) + 2
<1>1. /\ MulInt(z, p) \in Nat /\ MulInt(w, p) \in Nat /\ MulInt(z + w, p) \in Nat
      /\ MulInt(z, p) + MulInt(w, p) <= MulInt(z + w, p)
  BY MulIntParts
<1>2. /\ MulInt(y, p) \in Nat /\ MulInt(s, p) \in Nat /\ MulInt(y + s, p) \in Nat
      /\ MulInt(y + s, p) <= MulInt(y, p) + MulInt(s, p) + 1
  BY MulIntParts
<1>3. /\ MulInt(u, p) \in Nat /\ MulInt(y + s + u, p) \in Nat
      /\ MulInt(y + s + u, p) <= MulInt(y + s, p) + MulInt(u, p) + 1
  <2>1. y + s \in Nat  OBVIOUS
  <2> QED BY <2>1, MulIntParts
<1>4. MulInt(z + w, p) <= MulInt(y + s + u, p)
  <2>1. z + w \in Nat /\ y + s + u \in Nat /\ p <= p  OBVIOUS
  <2> QED BY <2>1, MulIntMonotone
<1> QED BY <1>1, <1>2, <1>3, <1>4

-----------------------------------------------------------------------------
(***************************************************************************)
(* What an account has and owes in a market, as its queries answer, when   *)
(* the market is changed.                                                  *)
(***************************************************************************)
\* The ratios of the interest that is pending at a time.
DebtRatio(m, t) == IF pending(m, t) THEN debt_ratio(m, epochs_passed(m, t)) ELSE 0

TokenRatio(m, t) == IF pending(m, t) THEN ctoken_ratio(m, epochs_passed(m, t)) ELSE 0

\* What roundings take from an account's C tokens, and what they add to its
\* debt, with the last point of a repayment.
HeldSlack(m, t, a) == Slack(m.ctoken.balances[a], TokenRatio(m, t))

OwedSlack(m, t, a) ==
    Slack(m.debt[a], DebtRatio(m, t))
      + (MulDec(m.debt_multiplier, One + DebtRatio(m, t)) \div One) + 1

\* From m to n an account's collateral falls by no more than v, and its debt
\* grows by no more than u and falls by w, but for roundings.
Moved(m, n, t, a, v, u, w) ==
    /\ collateral_balance(m, t, a) <= collateral_balance(n, t, a) + HeldSlack(m, t, a) + v
    /\ debt_balance(n, t, a) + w <= debt_balance(m, t, a) + OwedSlack(m, t, a) + u

\* What the queries answer are natural numbers.
LEMMA QueriedNat ==
  ASSUME NEW K, NEW m, NEW t \in Nat, Sound(K, m, t), Rated(m), QueryOK(m, t),
         NEW a \in Accounts
  PROVE  /\ DebtRatio(m, t) \in Nat /\ TokenRatio(m, t) \in Nat
         /\ HeldSlack(m, t, a) \in Nat /\ OwedSlack(m, t, a) \in Nat
         /\ collateral_balance(m, t, a) \in Nat /\ debt_balance(m, t, a) \in Nat
         /\ debt_of(m, a) \in Nat /\ debt_of(m, a) <= debt_balance(m, t, a)
<1> DEFINE e == epochs_passed(m, t)
           dr == DebtRatio(m, t)
           cr == TokenRatio(m, t)
           x == BaseBalance(m.ctoken, a)
           y == debt_of(m, a)
<1>0. One \in Nat \ {0} /\ m.charge_period \in Nat \ {0}
  BY FractionAssumption DEF One, Sound
<1>1. /\ m \in StoredMarket(K) /\ m.debt_multiplier \in Nat /\ m.ctoken.multiplier \in Nat
      /\ m.debt[a] \in Nat /\ m.ctoken.balances[a] \in Nat
  BY StoredNat DEF Sound
<1>2. e \in Nat
  <2>1. t - m.last_charged \in Nat  BY StoredNat DEF Sound
  <2> QED BY <1>0, <2>1, DivType DEF epochs_passed
<1>3. dr \in Nat
  BY <1>0, <1>1, <1>2, DebtRatioNat DEF DebtRatio
<1>4. cr \in Nat
  <2>1. pending(m, t) => InterestOK(m, e)  BY DEF QueryOK
  <2> QED BY <1>0, <1>1, <1>2, <2>1, InterestNat DEF TokenRatio
<1>5. x \in Nat /\ y \in Nat
  BY <1>1, WorthNat DEF BaseBalance, debt_of
<1>6. collateral_balance(m, t, a) = IF pending(m, t) THEN x + MulInt(x, cr) ELSE x
  BY DEF collateral_balance, TokenRatio
<1>7. debt_balance(m, t, a) = IF pending(m, t) THEN y + MulInt(y, dr) ELSE y
  BY DEF debt_balance, DebtRatio
<1> HIDE DEF x, y, dr, cr, e
<1>8. MulInt(x, cr) \in Nat /\ MulInt(y, dr) \in Nat
  <2>1. \A i \in Nat, j \in Nat : MulInt(i, j) \in Nat
    BY MulIntParts
  <2> QED BY <1>3, <1>4, <1>5, <2>1
<1>9. HeldSlack(m, t, a) \in Nat
  <2>1. m.ctoken.balances[a] \div One \in Nat /\ cr \div One \in Nat
    BY <1>0, <1>1, <1>4, DivType
  <2> QED BY <2>1 DEF HeldSlack, Slack, cr
<1>10. OwedSlack(m, t, a) \in Nat
  <2>1. m.debt[a] \div One \in Nat /\ dr \div One \in Nat
    BY <1>0, <1>1, <1>3, DivType
  <2>a. One + dr \in Nat  BY <1>0, <1>3
  <2>2. MulDec(m.debt_multiplier, One + dr) \in Nat
    BY <1>1, <2>a, MulDecNat
  <2>3. MulDec(m.debt_multiplier, One + dr) \div One \in Nat
    BY <1>0, <2>2, DivType
  <2> QED BY <2>1, <2>3 DEF OwedSlack, Slack, dr
<1> QED BY <1>3, <1>4, <1>5, <1>6, <1>7, <1>8, <1>9, <1>10 DEF x, y, dr, cr

\* What charging makes of an account's C tokens and debt, against what the
\* queries say of them before.
LEMMA ChargedWorth ==
  ASSUME NEW K, NEW m, NEW t \in Nat, Sound(K, m, t), Rated(m), ChargeOK(m, t),
         NEW c, c = charge_interest(m, t), NEW a \in Accounts
  PROVE  /\ QueryOK(m, t)
         /\ c.ctoken.multiplier \in Nat /\ c.debt_multiplier \in Nat
         /\ m.ctoken.balances[a] \in Nat /\ m.debt[a] \in Nat
         /\ collateral_balance(m, t, a)
              <= token_to_base(m.ctoken.balances[a], c.ctoken.multiplier)
                   + HeldSlack(m, t, a)
         /\ token_to_base(m.debt[a], c.debt_multiplier) + (c.debt_multiplier \div One) + 1
              <= debt_balance(m, t, a) + OwedSlack(m, t, a)
<1> DEFINE dr == DebtRatio(m, t)
           cr == TokenRatio(m, t)
           P == m.debt[a]
           M == m.debt_multiplier
           T == m.ctoken.balances[a]
           L == m.ctoken.multiplier
           N == c.debt_multiplier
           X == token_to_base(T, c.ctoken.multiplier)
           Y == token_to_base(P, N)
           x == collateral_balance(m, t, a)
           y == debt_balance(m, t, a)
<1>0. One \in Nat \ {0} /\ DecimalFractional = One  BY FractionAssumption DEF One
<1>1. QueryOK(m, t)
  BY ChargeFields DEF QueryOK, pending
<1>2. /\ P \in Nat /\ M \in Nat /\ T \in Nat /\ L \in Nat
  BY StoredNat DEF Sound
<1>3. /\ c.ctoken.multiplier \in Nat /\ N \in Nat
  BY ChargeSound, StoredNat DEF Sound
<1>4. dr \in Nat /\ cr \in Nat /\ x \in Nat /\ y \in Nat
  BY <1>1, QueriedNat
<1>5. X \in Nat /\ Y \in Nat  BY <1>2, <1>3, WorthNat
<1>6. /\ P \div One \in Nat /\ T \div One \in Nat /\ dr \div One \in Nat
      /\ cr \div One \in Nat /\ N \div One \in Nat
  BY <1>0, <1>2, <1>3, <1>4, DivType
<1>7. /\ HeldSlack(m, t, a) = 3 + (T \div One) + (cr \div One)
      /\ OwedSlack(m, t, a) = 3 + (P \div One) + (dr \div One)
                                + (MulDec(M, One + dr) \div One) + 1
  BY DEF HeldSlack, OwedSlack, Slack
<1>8. N = MulDec(M, One + dr) /\ x - X <= 1 + (T \div One) /\ Y - y <= 2 + (dr \div One)
  <2>1. CASE pending(m, t)
    <3>1. N = MulDec(M, One + dr) /\ c.ctoken.multiplier = MulDec(L, One + cr)
      BY <2>1, ChargeFields DEF DebtRatio, TokenRatio
    <3>2. x = token_to_base(T, L) + MulInt(token_to_base(T, L), cr)
      BY <2>1 DEF collateral_balance, TokenRatio, BaseBalance
    <3>3. y = token_to_base(P, M) + MulInt(token_to_base(P, M), dr)
      BY <2>1 DEF debt_balance, DebtRatio, debt_of
    <3> HIDE DEF dr, cr, P, M, T, L, N, x, y
    <3>4. x - X <= 1 + (T \div One)
      BY <1>2, <1>4, <3>1, <3>2, PreviewRounds
    <3>5. Y - y <= 2 + (dr \div One)
      BY <1>2, <1>4, <3>1, <3>3, PreviewRounds
    <3> QED BY <3>1, <3>4, <3>5
  <2>2. CASE ~ pending(m, t)
    <3>1. N = M /\ c.ctoken.multiplier = L /\ dr = 0 /\ cr = 0
      BY <2>2, ChargeFields DEF DebtRatio, TokenRatio
    <3>2. x = X /\ y = Y
      BY <2>2, <3>1 DEF collateral_balance, debt_balance, BaseBalance, debt_of
    <3>3. N = MulDec(M, One + dr)
      <4>1. M * One \in Int /\ M * One = One * M + 0 /\ 0 \in 0 .. One - 1 /\ One + dr = One
        BY <1>0, <1>2, <3>1
      <4>2. (M * One) \div One = M
        <5>1. M \in Int  BY <1>2
        <5> QED BY <1>0, <4>1, <5>1, Euclid
      <4>3. MulDec(M, One + dr) = M  BY <1>0, <4>1, <4>2 DEF MulDec
      <4> QED BY <3>1, <4>3
    <3> QED BY <1>4, <1>6, <3>1, <3>2, <3>3
  <2> QED BY <2>1, <2>2
<1> HIDE DEF dr, cr, P, M, T, L, N, X, Y, x, y
<1>9. x <= X + HeldSlack(m, t, a)
  BY <1>4, <1>5, <1>6, <1>7, <1>8
<1>10. Y + (N \div One) + 1 <= y + OwedSlack(m, t, a)
  BY <1>4, <1>5, <1>6, <1>7, <1>8
<1> QED BY <1>1, <1>2, <1>3, <1>9, <1>10 DEF P, T, N, X, Y, x, y

\* After a handler that charges, balances are what the tokens and the points
\* are worth.
LEMMA SettledMoves ==
  ASSUME NEW K, NEW m, NEW t \in Nat, Sound(K, m, t), Rated(m), ChargeOK(m, t),
         NEW c, c = charge_interest(m, t), NEW n, SameCharge(c, n), NEW a \in Accounts,
         n.ctoken.balances[a] \in Nat, n.debt[a] \in Nat,
         NEW v \in Nat, NEW u \in Nat, NEW w \in Nat,
         token_to_base(m.ctoken.balances[a], c.ctoken.multiplier)
           <= token_to_base(n.ctoken.balances[a], c.ctoken.multiplier) + v,
         token_to_base(n.debt[a], c.debt_multiplier) + w
           <= token_to_base(m.debt[a], c.debt_multiplier) + (c.debt_multiplier \div One)
                + 1 + u
  PROVE  QueryOK(m, t) /\ Moved(m, n, t, a, v, u, w)
<1> DEFINE X == token_to_base(m.ctoken.balances[a], c.ctoken.multiplier)
           Z == token_to_base(n.ctoken.balances[a], c.ctoken.multiplier)
           Y == token_to_base(m.debt[a], c.debt_multiplier)
           W == token_to_base(n.debt[a], c.debt_multiplier)
           k == c.debt_multiplier \div One
           x == collateral_balance(m, t, a)
           y == debt_balance(m, t, a)
           r == HeldSlack(m, t, a)
           s == OwedSlack(m, t, a)
<1>1. /\ QueryOK(m, t) /\ c.ctoken.multiplier \in Nat /\ c.debt_multiplier \in Nat
      /\ m.ctoken.balances[a] \in Nat /\ m.debt[a] \in Nat
      /\ x <= X + r /\ Y + k + 1 <= y + s
  BY ChargedWorth
<1>2. x \in Nat /\ y \in Nat /\ r \in Nat /\ s \in Nat
  BY <1>1, QueriedNat
<1>3. X \in Nat /\ Y \in Nat /\ Z \in Nat /\ W \in Nat
  BY <1>1, WorthNat
<1>4. k \in Nat
  <2>1. One \in Nat \ {0}  BY FractionAssumption DEF One
  <2> QED BY <1>1, <2>1, DivType
<1>5. ~ pending(n, t)
  <2>1. c.charge_period = m.charge_period  BY ChargeSound
  <2>2. n.last_charged = c.last_charged /\ n.charge_period = m.charge_period
    BY <2>1 DEF SameCharge
  <2> QED BY <2>2, ChargedNotPending
<1>6. collateral_balance(n, t, a) = Z /\ debt_balance(n, t, a) = W
  BY <1>5 DEF collateral_balance, debt_balance, BaseBalance, debt_of, SameCharge
<1>7. X <= Z + v /\ W + w <= Y + k + 1 + u  OBVIOUS
<1> HIDE DEF X, Y, Z, W, k, x, y, r, s
<1>8. x <= Z + r + v /\ W + w <= y + s + u
  BY <1>1, <1>2, <1>3, <1>4, <1>7
<1> QED BY <1>1, <1>6, <1>8 DEF Moved, x, y, r, s

-----------------------------------------------------------------------------
(***************************************************************************)
(* C tokens and points that change hands.                                  *)
(***************************************************************************)
\* Taking k tokens that are worth no more than v off h of them takes no more
\* than v off their worth.
LEMMA TokensTaken ==
  ASSUME NEW h \in Nat, NEW k \in Nat, k <= h, NEW M \in Nat, NEW v \in Nat,
         k * M <= v * One
  PROVE  token_to_base(h, M) <= token_to_base(h - k, M) + v
<1> DEFINE X == token_to_base(h, M)
           Z == token_to_base(h - k, M)
<1>0. One \in Nat \ {0} /\ DecimalFractional = One  BY FractionAssumption DEF One
<1>1. h - k \in Nat  OBVIOUS
<1>2. h * M \in Nat /\ (h - k) * M \in Nat /\ k * M \in Nat /\ v * One \in Nat
  BY <1>0, <1>1
<1>3. h * M = (h - k) * M + k * M  BY Distribute
<1>4. X \in Nat /\ One * X <= h * M
  BY <1>0, <1>2, DivBounds DEF token_to_base, MulInt
<1>5. Z \in Nat /\ (h - k) * M <= One * Z + (One - 1)
  BY <1>0, <1>2, DivBounds DEF token_to_base, MulInt
<1> HIDE DEF X, Z
<1> SUFFICES ASSUME Z + v + 1 <= X PROVE FALSE  BY <1>4, <1>5 DEF X, Z
<1>6. One * (Z + v + 1) <= One * X  BY <1>0, <1>4, <1>5, TimesMonotone
<1>7. One * (Z + v + 1) = One * Z + v * One + One  BY <1>0, <1>5
<1>8. One * X \in Nat /\ One * Z \in Nat  BY <1>0, <1>4, <1>5
<1> DEFINE i == h * M
           j == (h - k) * M
           l == k * M
           o == v * One
           x == One * X
           z == One * Z
<1>9. /\ i \in Nat /\ j \in Nat /\ l \in Nat /\ o \in Nat /\ x \in Nat /\ z \in Nat
      /\ i = j + l /\ l <= o /\ x <= i /\ j <= z + (One - 1) /\ z + o + One <= x
  BY <1>2, <1>3, <1>4, <1>5, <1>6, <1>7, <1>8
<1> HIDE DEF i, j, l, o, x, z
<1> QED BY <1>0, <1>9

\* The k points that w repays are worth it, but for one point.
LEMMA PointsPaid ==
  ASSUME NEW h \in Nat, NEW k \in Nat, k <= h, NEW M \in Nat, NEW w \in Nat,
         w * One <= k * M + M
  PROVE  token_to_base(h - k, M) + w <= token_to_base(h, M) + (M \div One) + 1
<1> DEFINE X == token_to_base(h, M)
           Z == token_to_base(h - k, M)
           q == M \div One
<1>0. One \in Nat \ {0} /\ DecimalFractional = One  BY FractionAssumption DEF One
<1>1. h - k \in Nat  OBVIOUS
<1>2. h * M \in Nat /\ (h - k) * M \in Nat /\ k * M \in Nat /\ w * One \in Nat
  BY <1>0, <1>1
<1>3. h * M = (h - k) * M + k * M  BY Distribute
<1>4. X \in Nat /\ h * M <= One * X + (One - 1)
  BY <1>0, <1>2, DivBounds DEF token_to_base, MulInt
<1>5. Z \in Nat /\ One * Z <= (h - k) * M
  BY <1>0, <1>2, DivBounds DEF token_to_base, MulInt
<1>6. q \in Nat /\ M <= One * q + (One - 1)
  BY <1>0, DivBounds
<1> HIDE DEF X, Z, q
<1> SUFFICES ASSUME X + q + 2 <= Z + w PROVE FALSE  BY <1>4, <1>5, <1>6 DEF X, Z, q
<1>7. One * (X + q + 2) <= One * (Z + w)
  <2>1. X + q + 2 \in Int /\ Z + w \in Int  BY <1>4, <1>5, <1>6
  <2> QED BY <1>0, <2>1, TimesMonotone
<1>8. /\ One * (X + q + 2) = One * X + One * q + One + One
      /\ One * (Z + w) = One * Z + w * One
  BY <1>0, <1>4, <1>5, <1>6
<1>9. One * X \in Nat /\ One * Z \in Nat /\ One * q \in Nat
  BY <1>0, <1>4, <1>5, <1>6
<1> DEFINE i == h * M
           j == (h - k) * M
           l == k * M
           o == w * One
           x == One * X
           z == One * Z
           r == One * q
<1>10. /\ i \in Nat /\ j \in Nat /\ l \in Nat /\ o \in Nat /\ x \in Nat /\ z \in Nat
       /\ r \in Nat /\ i = j + l /\ o <= l + M /\ i <= x + (One - 1) /\ z <= j
       /\ M <= r + (One - 1) /\ x + r + One + One <= z + o
  BY <1>2, <1>3, <1>4, <1>5, <1>6, <1>7, <1>8, <1>9
<1> HIDE DEF i, j, l, o, x, z, r
<1> QED BY <1>0, <1>10

\* What messages to the C token make of the balances.
LEMMA BalanceChanged ==
  ASSUME NEW t \in TokenState, NEW a \in Accounts, NEW diff \in Int, NEW x \in Accounts
  PROVE  /\ ChangeBalance(t, a, diff).balances[x]
              = IF x = a THEN t.balances[x] + diff ELSE t.balances[x]
         /\ ChangeBalance(t, a, diff).multiplier = t.multiplier
         /\ ChangeBalance(t, a, diff).total_supply = t.total_supply
BY DEF ChangeBalance, TokenState

\* A transfer takes no more from an account than its amount.
LEMMA TokensMoved ==
  ASSUME NEW t \in TokenState, NEW s \in Accounts, NEW r \in Accounts, NEW k \in Nat,
         TransferOK(t, s, r, k), NEW x \in Accounts, NEW n, n = transfer_tokens(t, s, r, k)
  PROVE  /\ x # s => n.balances[x] >= t.balances[x]
         /\ s = r => n.balances[x] = t.balances[x]
         /\ x = s => n.balances[x] >= t.balances[x] - k
         /\ k \in 0 .. t.balances[s]
         /\ n.balances[x] \in Nat
         /\ n.multiplier = t.multiplier /\ n.total_supply = t.total_supply
<1> DEFINE i == ChangeBalance(t, s, -k)
<1>1. -k \in Int /\ k \in Int  OBVIOUS
<1>2. k \in 0 .. t.balances[s] /\ \A y \in Accounts : t.balances[y] \in Nat
  BY DEF TransferOK, TokenState
<1>3. /\ \A y \in Accounts : i.balances[y] = IF y = s THEN t.balances[y] + (-k) ELSE t.balances[y]
      /\ i.multiplier = t.multiplier /\ i.total_supply = t.total_supply
  BY <1>1, BalanceChanged
<1>4. i \in TokenState
  <2>1. Fits(t.balances[s] + (-k))
    <3>1. t.balances[s] \in 0 .. Modulus - 1  BY DEF TokenState
    <3> QED BY <1>2, <3>1, ModulusAssumption DEF Fits
  <2> QED BY <1>1, <2>1, ChangeBalanceType
<1>5. n = ChangeBalance(i, r, k)  BY DEF transfer_tokens
<1> HIDE DEF i
<1>6. /\ n.balances[x] = IF x = r THEN i.balances[x] + k ELSE i.balances[x]
      /\ n.multiplier = i.multiplier /\ n.total_supply = i.total_supply
  BY <1>1, <1>4, <1>5, BalanceChanged
<1> QED BY <1>2, <1>3, <1>6

\* Minting takes nothing from an account.
LEMMA TokensMinted ==
  ASSUME NEW t \in TokenState, NEW r \in Accounts, NEW k \in Nat, NEW x \in Accounts,
         NEW n, n = mint(t, r, k)
  PROVE  /\ n.balances[x] \in Nat /\ n.balances[x] >= t.balances[x]
         /\ n.multiplier = t.multiplier
<1> DEFINE i == ChangeBalance(t, r, k)
<1>1. k \in Int /\ t.balances[x] \in Nat  BY DEF TokenState
<1>2. /\ i.balances[x] = IF x = r THEN t.balances[x] + k ELSE t.balances[x]
      /\ i.multiplier = t.multiplier
  BY <1>1, BalanceChanged
<1>3. n.balances = i.balances /\ n.multiplier = i.multiplier
  BY DEF mint, ChangeBalance, TokenState
<1> QED BY <1>1, <1>2, <1>3

\* Burning takes its amount from the owner alone.
LEMMA TokensBurnt ==
  ASSUME NEW t \in TokenState, NEW o \in Accounts, NEW k \in Nat, BurnOK(t, o, k),
         NEW x \in Accounts, NEW n, n = burn_from(t, o, k)
  PROVE  /\ n.balances[x] \in Nat
         /\ x # o => n.balances[x] = t.balances[x]
         /\ x = o => n.balances[x] = t.balances[x] - k /\ k \in 1 .. t.balances[x]
         /\ n.multiplier = t.multiplier /\ n.total_supply = t.total_supply - k
<1> DEFINE i == ChangeBalance(t, o, -k)
<1>1. -k \in Int /\ t.balances[x] \in Nat  BY DEF TokenState
<1>2. /\ i.balances[x] = IF x = o THEN t.balances[x] + (-k) ELSE t.balances[x]
      /\ i.multiplier = t.multiplier
  BY <1>1, BalanceChanged
<1>3. n.balances = i.balances /\ n.multiplier = i.multiplier
      /\ n.total_supply = t.total_supply - k
  BY DEF burn_from, ChangeBalance, TokenState
<1>4. k > 0 /\ k <= t.balances[o]  BY DEF BurnOK
<1> QED BY <1>1, <1>2, <1>3, <1>4

-----------------------------------------------------------------------------
(***************************************************************************)
(* The credit of an account is the sum of what its markets are worth to    *)
(* it.                                                                     *)
(***************************************************************************)
\* The sums of an account's credit lines over the subsets of some markets.
CreditSums(p, t, ds, a) ==
  CHOOSE iter : iter = [s \in SUBSET ds |->
                IF s = {} THEN zero
                ELSE Plus(market_credit_line(p, t, CHOOSE x \in s : TRUE, a),
                          iter[s \ {CHOOSE x \in s : TRUE}])]

\* CreditLineOver is the sum over all of them.
LEMMA CreditOverDef ==
  ASSUME NEW p, NEW t, NEW ds, NEW a
  PROVE  CreditLineOver(p, t, ds, a) = CreditSums(p, t, ds, a)[ds]
BY DEF CreditLineOver, MapThenFoldSet, CreditSums

\* A credit line.
Credit == [collateral : Int, credit_line : Int, borrow_limit : Int, debt : Int]

\* Each of the markets has a credit line for the account.
Credited(p, t, ds, a) == \A d \in ds : market_credit_line(p, t, d, a) \in Credit

\* S gives the sum over every subset of the markets.
SumsCredit(S, p, t, ds, a) ==
  \A s \in SUBSET ds :
     S[s] = IF s = {} THEN zero
            ELSE Plus(market_credit_line(p, t, Pick(s), a), S[s \ {Pick(s)}])

\* The equations of CreditSums have a solution.
LEMMA CreditSumsDef ==
  ASSUME NEW p, NEW t, NEW ds, IsFiniteSet(ds), NEW a,
         Credited(p, t, ds, a)
  PROVE  SumsCredit(CreditSums(p, t, ds, a), p, t, ds, a)
<1> DEFINE S == CreditSums(p, t, ds, a)
           L(d) == market_credit_line(p, t, d, a)
           f1 == [d \in ds |-> L(d).collateral]
           f2 == [d \in ds |-> L(d).credit_line]
           f3 == [d \in ds |-> L(d).borrow_limit]
           f4 == [d \in ds |-> L(d).debt]
           g1 == PartialSums(f1)
           g2 == PartialSums(f2)
           g3 == PartialSums(f3)
           g4 == PartialSums(f4)
           g == [s \in SUBSET ds |->
                   [collateral |-> g1[s], credit_line |-> g2[s], borrow_limit |-> g3[s],
                    debt |-> g4[s]]]
<1>1. \A d \in ds : L(d) \in Credit  BY DEF Credited
<1> HIDE DEF L
<1>2. f1 \in [ds -> Int] /\ f2 \in [ds -> Int] /\ f3 \in [ds -> Int] /\ f4 \in [ds -> Int]
  BY <1>1 DEF Credit
<1>3. IsSumOn(g1, f1, ds) /\ IsSumOn(g2, f2, ds) /\ IsSumOn(g3, f3, ds) /\ IsSumOn(g4, f4, ds)
  <2> HIDE DEF f1, f2, f3, f4
  <2> QED BY <1>2, PartialSumsDef
<1> HIDE DEF g1, g2, g3, g4
<1>4. ASSUME NEW s \in SUBSET ds
      PROVE  g[s] = IF s = {} THEN zero
                    ELSE Plus(L(CHOOSE x \in s : TRUE), g[s \ {CHOOSE x \in s : TRUE}])
  <2> DEFINE x == Pick(s)
             r == s \ {x}
  <2>1. CASE s = {}
    <3>1. g1[s] = 0 /\ g2[s] = 0 /\ g3[s] = 0 /\ g4[s] = 0
      BY <1>3, <2>1 DEF IsSumOn
    <3> QED BY <2>1, <3>1 DEF zero
  <2>2. CASE s # {}
    <3>1. x \in s /\ x \in ds /\ r \in SUBSET ds  BY <2>2 DEF Pick
    <3>2. /\ g1[s] = f1[x] + g1[r] /\ g2[s] = f2[x] + g2[r]
          /\ g3[s] = f3[x] + g3[r] /\ g4[s] = f4[x] + g4[r]
      BY <1>3, <2>2 DEF IsSumOn
    <3>3. /\ f1[x] = L(x).collateral /\ f2[x] = L(x).credit_line
          /\ f3[x] = L(x).borrow_limit /\ f4[x] = L(x).debt
      BY <3>1
    <3>4. Plus(L(x), g[r]) = g[s]
      <4> HIDE DEF f1, f2, f3, f4, x, r
      <4> QED BY <3>1, <3>2, <3>3 DEF Plus
    <3> QED BY <2>2, <3>4 DEF Pick
  <2> QED BY <2>1, <2>2
<1>5. g = [s \in SUBSET ds |->
             IF s = {} THEN zero
             ELSE Plus(L(CHOOSE x \in s : TRUE), g[s \ {CHOOSE x \in s : TRUE}])]
  <2>1. g = [s \in SUBSET ds |-> g[s]]  OBVIOUS
  <2> HIDE DEF g
  <2> QED BY <1>4, <2>1
<1> HIDE DEF g
<1>6. g = [s \in SUBSET ds |->
             IF s = {} THEN zero
             ELSE Plus(market_credit_line(p, t, CHOOSE x \in s : TRUE, a),
                       g[s \ {CHOOSE x \in s : TRUE}])]
  BY <1>5 DEF L
<1> DEFINE Solves(h) ==
             h = [s \in SUBSET ds |->
                    IF s = {} THEN zero
                    ELSE Plus(market_credit_line(p, t, CHOOSE x \in s : TRUE, a),
                              h[s \ {CHOOSE x \in s : TRUE}])]
<1>7. Solves(g)  BY <1>6
<1>8. S = CHOOSE h : Solves(h)  BY DEF CreditSums
<1> HIDE DEF S
<1>9. Solves(S)
  <2> HIDE DEF Solves
  <2> QED BY <1>7, <1>8
<1>10. S = [s \in SUBSET ds |->
             IF s = {} THEN zero
             ELSE Plus(market_credit_line(p, t, CHOOSE x \in s : TRUE, a),
                       S[s \ {CHOOSE x \in s : TRUE}])]
  BY <1>9
<1>11. \A s \in SUBSET ds :
          S[s] = IF s = {} THEN zero
                 ELSE Plus(market_credit_line(p, t, Pick(s), a), S[s \ {Pick(s)}])
  BY <1>10, Zenon DEF Pick
<1> QED BY <1>11 DEF SumsCredit, S

\* The credit lines, borrow limits and debts in those markets, and 0 elsewhere.
LinesIn(p, t, ds, a) ==
  [d \in Denoms |-> IF d \in ds THEN market_credit_line(p, t, d, a).credit_line ELSE 0]

LimitsIn(p, t, ds, a) ==
  [d \in Denoms |-> IF d \in ds THEN market_credit_line(p, t, d, a).borrow_limit ELSE 0]

DebtsIn(p, t, ds, a) ==
  [d \in Denoms |-> IF d \in ds THEN market_credit_line(p, t, d, a).debt ELSE 0]

\* A field of the total credit line is the sum of that field over the markets.
LEMMA CreditOverSums ==
  ASSUME NEW p, NEW t, NEW ds \in SUBSET Denoms, NEW a,
         Credited(p, t, ds, a),
         NEW c, c = CreditLineOver(p, t, ds, a)
  PROVE  /\ c.credit_line = SumFunction(LinesIn(p, t, ds, a))
         /\ c.borrow_limit = SumFunction(LimitsIn(p, t, ds, a))
         /\ c.debt = SumFunction(DebtsIn(p, t, ds, a))
<1> DEFINE L(d) == market_credit_line(p, t, d, a)
           S == CreditSums(p, t, ds, a)
           g1 == [s \in SUBSET ds |-> S[s].credit_line]
           g2 == [s \in SUBSET ds |-> S[s].borrow_limit]
           g3 == [s \in SUBSET ds |-> S[s].debt]
           f1 == [d \in Denoms |-> IF d \in ds THEN L(d).credit_line ELSE 0]
           f2 == [d \in Denoms |-> IF d \in ds THEN L(d).borrow_limit ELSE 0]
           f3 == [d \in Denoms |-> IF d \in ds THEN L(d).debt ELSE 0]
<1>1. IsFiniteSet(Denoms) /\ IsFiniteSet(ds)
  BY PlatformAssumption, FS_Subset
<1>3. c = S[ds]  BY CreditOverDef
<1>4. \A d \in ds : L(d) \in Credit  BY DEF Credited
<1>5. \A s \in SUBSET ds :
         S[s] = IF s = {} THEN zero ELSE Plus(L(Pick(s)), S[s \ {Pick(s)}])
  BY <1>1, CreditSumsDef DEF SumsCredit
<1> HIDE DEF S, L
<1>6. f1 \in [Denoms -> Int] /\ f2 \in [Denoms -> Int] /\ f3 \in [Denoms -> Int]
  BY <1>4 DEF Credit
<1>7. ASSUME NEW s \in SUBSET ds
      PROVE  /\ g1[s] = IF s = {} THEN 0 ELSE f1[Pick(s)] + g1[s \ {Pick(s)}]
             /\ g2[s] = IF s = {} THEN 0 ELSE f2[Pick(s)] + g2[s \ {Pick(s)}]
             /\ g3[s] = IF s = {} THEN 0 ELSE f3[Pick(s)] + g3[s \ {Pick(s)}]
  <2>1. CASE s = {}
    <3>1. S[s] = zero  BY <1>5, <2>1
    <3> QED BY <2>1, <3>1 DEF zero
  <2>2. CASE s # {}
    <3> DEFINE x == Pick(s)
               r == s \ {x}
    <3>1. x \in s /\ x \in ds /\ x \in Denoms /\ r \in SUBSET ds  BY <2>2 DEF Pick
    <3>2. S[s] = Plus(L(x), S[r])  BY <1>5, <2>2
    <3>3. f1[x] = L(x).credit_line /\ f2[x] = L(x).borrow_limit /\ f3[x] = L(x).debt
      BY <3>1
    <3> HIDE DEF x, r, f1, f2, f3
    <3>4. /\ g1[s] = f1[x] + g1[r] /\ g2[s] = f2[x] + g2[r] /\ g3[s] = f3[x] + g3[r]
      BY <3>1, <3>2, <3>3 DEF Plus
    <3> QED BY <2>2, <3>4 DEF x, r
  <2> QED BY <2>1, <2>2
<1>8. \A d \in Denoms \ ds : f1[d] = 0 /\ f2[d] = 0 /\ f3[d] = 0  OBVIOUS
<1>9. g1[ds] = c.credit_line /\ g2[ds] = c.borrow_limit /\ g3[ds] = c.debt
  BY <1>3
<1> HIDE DEF g1, g2, g3, f1, f2, f3
<1>10. IsSumOn(g1, f1, ds) /\ IsSumOn(g2, f2, ds) /\ IsSumOn(g3, f3, ds)
  BY <1>7 DEF IsSumOn
<1>11. g1[ds] = SumFunction(f1)
  BY <1>1, <1>6, <1>8, <1>10, SumOutside
<1>12. g2[ds] = SumFunction(f2)
  BY <1>1, <1>6, <1>8, <1>10, SumOutside
<1>13. g3[ds] = SumFunction(f3)
  BY <1>1, <1>6, <1>8, <1>10, SumOutside
<1>14. f1 = LinesIn(p, t, ds, a) /\ f2 = LimitsIn(p, t, ds, a) /\ f3 = DebtsIn(p, t, ds, a)
  BY DEF f1, f2, f3, L, LinesIn, LimitsIn, DebtsIn
<1> QED BY <1>9, <1>11, <1>12, <1>13, <1>14

\* A ratio of no more than 1 takes some of an amount.
LEMMA Fraction ==
  ASSUME NEW x \in Nat, NEW r \in Nat
  PROVE  MulInt(x, r) \in Nat /\ (r <= One => MulInt(x, r) <= x)
<1>0. One \in Nat \ {0} /\ DecimalFractional = One  BY FractionAssumption DEF One
<1>1. x * r \in Nat  OBVIOUS
<1>2. MulInt(x, r) \in Nat /\ One * MulInt(x, r) <= x * r
  BY <1>0, <1>1, DivBounds DEF MulInt
<1>3. ASSUME r <= One PROVE MulInt(x, r) <= x
  <2>1. x * r <= x * One  BY <1>0, <1>3, TimesMonotone
  <2>2. x * One = One * x /\ One * MulInt(x, r) \in Int /\ One * x \in Int
    BY <1>0, <1>2
  <2>3. One * MulInt(x, r) <= One * x  BY <1>1, <1>2, <2>1, <2>2
  <2> QED BY <1>0, <1>2, <2>3, CancelFactor
<1> QED BY <1>2, <1>3

\* The credit line of an account in a market that answers.
LEMMA LineIs ==
  ASSUME NEW p, NEW t \in Nat, PlatformSound(p, t), Lent(p), NEW d \in listed(p),
         NEW a \in Accounts, MarketLineOK(p, t, d, a),
         NEW m, m = p.markets[d], NEW price, price = PriceOf(p, d),
         NEW l, l = market_credit_line(p, t, d, a)
  PROVE  /\ price \in Nat /\ m.collateral_ratio \in CollateralRatios
         /\ m.collateral_ratio \in Nat /\ QueryOK(m, t)
         /\ l \in Credit /\ l.credit_line \in Nat /\ l.debt \in Nat /\ l.borrow_limit \in Nat
         /\ l.credit_line = Line(collateral_balance(m, t, a), price, m.collateral_ratio)
         /\ l.debt = MulInt(debt_balance(m, t, a), price)
         /\ BorrowLimitRatio <= One => l.borrow_limit <= l.credit_line
<1> DEFINE K == Configs({p.common_token})
           x == collateral_balance(m, t, a)
           y == debt_balance(m, t, a)
           ratio == m.collateral_ratio
           limit == m.borrow_limit_ratio
<1>1. Sound(K, m, t) /\ Rated(m) /\ m \in MarketState
  BY ListedRated
<1>2. ratio \in CollateralRatios /\ ratio \in Nat /\ limit = BorrowLimitRatio /\ limit \in Nat
  <2>1. ratio \in CollateralRatios /\ limit \in {BorrowLimitRatio}
    BY <1>1 DEF MarketState, Configs, InstantiateMsg, StoredMarket
  <2> QED BY <2>1, PlatformAssumption
<1>3. price \in Nat
  BY PriceIs, PlatformAssumption DEF PriceOf
<1>4. QueryOK(m, t) /\ (HasBalance(p, d, a) => PriceOK(p, d))
  BY DEF MarketLineOK
<1>5. x \in Nat /\ y \in Nat
  BY <1>1, <1>4, QueriedNat
<1>6. MulInt(x, price) \in Nat /\ MulInt(y, price) \in Nat
  BY <1>3, <1>5, Fraction
<1>7. Line(x, price, ratio) \in Nat /\ Line(x, price, ratio) = MulInt(MulInt(x, price), ratio)
  BY <1>2, <1>6, Fraction DEF Line
<1>8. CASE HasBalance(p, d, a)
  <2>1. Price(p, d) = price  BY <1>4, <1>8 DEF PriceOf
  <2>2. l = credit_line(m, t, a, price)
    BY <1>8, <2>1 DEF market_credit_line
  <2>3. /\ l = [collateral |-> MulInt(x, price), credit_line |-> Line(x, price, ratio),
                borrow_limit |-> MulInt(Line(x, price, ratio), limit),
                debt |-> MulInt(y, price)]
    BY <2>2, <1>7 DEF credit_line
  <2>4. /\ MulInt(Line(x, price, ratio), limit) \in Nat
        /\ limit <= One => MulInt(Line(x, price, ratio), limit) <= Line(x, price, ratio)
    BY <1>2, <1>7, Fraction
  <2> HIDE DEF x, y, ratio, limit
  <2> QED BY <1>2, <1>3, <1>4, <1>6, <1>7, <2>3, <2>4 DEF Credit, x, y, ratio
<1>9. CASE ~ HasBalance(p, d, a)
  <2>1. BaseBalance(m.ctoken, a) = 0 /\ debt_of(m, a) = 0
    BY <1>9 DEF HasBalance
  <2>2. \A r \in Nat : MulInt(0, r) = 0
    <3>1. One \in Nat \ {0} /\ DecimalFractional = One  BY FractionAssumption DEF One
    <3>2. 0 \div One = 0
      <4>1. 0 = One * 0 + 0 /\ 0 \in 0 .. One - 1  BY <3>1
      <4> QED BY <3>1, <4>1, Euclid
    <3>3. \A r \in Nat : 0 * r = 0  OBVIOUS
    <3> QED BY <3>1, <3>2, <3>3 DEF MulInt
  <2>3. DebtRatio(m, t) \in Nat /\ TokenRatio(m, t) \in Nat
    BY <1>1, <1>4, QueriedNat
  <2>4. x = 0
    BY <2>1, <2>2, <2>3 DEF collateral_balance, TokenRatio
  <2>5. y = 0
    BY <2>1, <2>2, <2>3 DEF debt_balance, DebtRatio
  <2>6. l = zero  BY <1>9 DEF market_credit_line
  <2>7. Line(x, price, ratio) = 0 /\ MulInt(y, price) = 0
    BY <1>2, <1>3, <2>2, <2>4, <2>5 DEF Line
  <2> HIDE DEF x, y, ratio, limit
  <2> QED BY <1>2, <1>3, <1>4, <2>6, <2>7 DEF Credit, zero, x, y, ratio
<1> QED BY <1>8, <1>9

\* What an account's C tokens in a market, and its debt, count for.
Claim(p, t, d, a) ==
  Line(collateral_balance(p.markets[d], t, a), PriceOf(p, d), p.markets[d].collateral_ratio)

Owed(p, t, d, a) == MulInt(debt_balance(p.markets[d], t, a), PriceOf(p, d))

\* What the market of d adds to the health of an account that is in the
\* markets ds.
WorthIn(p, t, ds, a) ==
  [d \in Denoms |-> IF d \in ds THEN Claim(p, t, d, a) - Owed(p, t, d, a) ELSE 0]

\* Credit lines over markets that answer.
LEMMA CreditIs ==
  ASSUME NEW p, NEW t \in Nat, PlatformSound(p, t), Lent(p), NEW ds, ds \subseteq listed(p),
         NEW a \in Accounts, CreditLineOK(p, t, ds, a),
         NEW c, c = CreditLineOver(p, t, ds, a)
  PROVE  /\ c.credit_line \in Nat /\ c.debt \in Nat /\ c.borrow_limit \in Nat
         /\ BorrowLimitRatio <= One => c.borrow_limit <= c.credit_line
         /\ WorthIn(p, t, ds, a) \in [Denoms -> Int]
         /\ c.credit_line - c.debt = SumFunction(WorthIn(p, t, ds, a))
         /\ \A d \in ds : Claim(p, t, d, a) <= c.credit_line
<1> DEFINE L(d) == market_credit_line(p, t, d, a)
           f1 == [d \in Denoms |-> IF d \in ds THEN L(d).credit_line ELSE 0]
           f2 == [d \in Denoms |-> IF d \in ds THEN L(d).borrow_limit ELSE 0]
           f3 == [d \in Denoms |-> IF d \in ds THEN L(d).debt ELSE 0]
           f == WorthIn(p, t, ds, a)
<1>1. ds \in SUBSET Denoms /\ IsFiniteSet(Denoms)
  <2>1. listed(p) \subseteq Denoms
    BY DEF PlatformSound, PlatformState, Partial, listed
  <2> QED BY <2>1, PlatformAssumption
<1>2. ASSUME NEW d \in ds
      PROVE  /\ L(d) \in Credit /\ L(d).credit_line \in Nat /\ L(d).debt \in Nat
             /\ L(d).borrow_limit \in Nat
             /\ L(d).credit_line = Claim(p, t, d, a) /\ L(d).debt = Owed(p, t, d, a)
             /\ BorrowLimitRatio <= One => L(d).borrow_limit <= L(d).credit_line
  <2>1. d \in listed(p) /\ MarketLineOK(p, t, d, a)
    BY DEF CreditLineOK
  <2> QED BY <2>1, LineIs DEF Claim, Owed
<1>3. /\ c.credit_line = SumFunction(f1) /\ c.borrow_limit = SumFunction(f2)
      /\ c.debt = SumFunction(f3)
  <2>1. Credited(p, t, ds, a)  BY <1>2 DEF Credited
  <2>2. f1 = LinesIn(p, t, ds, a) /\ f2 = LimitsIn(p, t, ds, a) /\ f3 = DebtsIn(p, t, ds, a)
    BY DEF LinesIn, LimitsIn, DebtsIn
  <2> HIDE DEF f1, f2, f3
  <2> QED BY <1>1, <2>1, <2>2, CreditOverSums
<1> HIDE DEF L
<1>4. /\ f1 \in [Denoms -> Int] /\ f2 \in [Denoms -> Int] /\ f3 \in [Denoms -> Int]
      /\ \A d \in Denoms : f1[d] >= 0 /\ f2[d] >= 0 /\ f3[d] >= 0
      /\ BorrowLimitRatio <= One => \A d \in Denoms : f2[d] <= f1[d]
  BY <1>2
<1>5. f \in [Denoms -> Int] /\ \A d \in Denoms : f[d] = f1[d] - f3[d]
  BY <1>2 DEF WorthIn
<1>6. \A d \in ds : d \in Denoms /\ Claim(p, t, d, a) = f1[d]
  BY <1>1, <1>2
<1> HIDE DEF f1, f2, f3, f
<1>7. c.credit_line \in Nat
  BY <1>1, <1>3, <1>4, SumInt, SumNonNegative
<1>8. c.borrow_limit \in Nat
  BY <1>1, <1>3, <1>4, SumInt, SumNonNegative
<1>9. c.debt \in Nat
  BY <1>1, <1>3, <1>4, SumInt, SumNonNegative
<1>10. BorrowLimitRatio <= One => c.borrow_limit <= c.credit_line
  BY <1>1, <1>3, <1>4, SumWithin
<1>11. c.credit_line - c.debt = SumFunction(f)
  BY <1>1, <1>3, <1>4, <1>5, SumMinus
<1>12. \A d \in ds : Claim(p, t, d, a) <= c.credit_line
  <2> TAKE d \in ds
  <2>1. d \in Denoms  BY <1>6
  <2>2. f1[d] <= SumFunction(f1)  BY <1>1, <1>4, <2>1, SumMember
  <2> QED BY <1>3, <1>6, <2>2
<1> QED BY <1>5, <1>7, <1>8, <1>9, <1>10, <1>11, <1>12 DEF f

\* What the market of d adds to the health of an account.
Worth(p, t, a) == WorthIn(p, t, p.entered[a], a)

\* The health of an account is the sum of what its markets are worth to it.
LEMMA HealthIs ==
  ASSUME NEW p, NEW t \in Nat, PlatformSound(p, t), Lent(p),
         NEW a \in Accounts, TotalCreditLineOK(p, t, a)
  PROVE  /\ Worth(p, t, a) \in [Denoms -> Int]
         /\ Health(p, t, a) = SumFunction(Worth(p, t, a))
         /\ Health(p, t, a) \in Int
<1>1. p.entered[a] \subseteq listed(p)  BY DEF PlatformSound
<1>2. IsFiniteSet(Denoms)  BY PlatformAssumption
<1> DEFINE c == total_credit_line(p, t, a)
<1>3. /\ WorthIn(p, t, p.entered[a], a) \in [Denoms -> Int]
      /\ c.credit_line \in Nat /\ c.debt \in Nat
      /\ c.credit_line - c.debt = SumFunction(WorthIn(p, t, p.entered[a], a))
  BY <1>1, CreditIs DEF TotalCreditLineOK, total_credit_line
<1>4. Health(p, t, a) = c.credit_line - c.debt  BY DEF Health
<1> HIDE DEF c
<1> QED BY <1>3, <1>4 DEF Worth

\* RoundingIn and Rounding of WyndLend, of any platform and time.
Outside(p, t, d, a) ==
  IF d \in p.entered[a] THEN 0 ELSE debt_balance(p.markets[d], t, a)

RoundingOf(p, t, d, a) ==
  MulInt(MulInt(HeldSlack(p.markets[d], t, a), PriceOf(p, d)) + 2,
         p.markets[d].collateral_ratio)
    + MulInt(OwedSlack(p.markets[d], t, a) + Outside(p, t, d, a), PriceOf(p, d)) + 4

RoundingsOf(p, t, a) ==
  [d \in Denoms |->
     IF d \in listed(p) /\ QueryOK(p.markets[d], t) THEN RoundingOf(p, t, d, a) ELSE 0]

\* What a market of the platform is made of.
LEMMA ListedIs ==
  ASSUME NEW p, NEW t \in Nat, PlatformSound(p, t), Lent(p), NEW d \in listed(p),
         QueryOK(p.markets[d], t), NEW a \in Accounts, NEW m, m = p.markets[d],
         NEW price, price = PriceOf(p, d), NEW ratio, ratio = m.collateral_ratio
  PROVE  /\ Sound(Configs({p.common_token}), m, t) /\ Rated(m) /\ Exact(m)
         /\ price \in Nat /\ ratio \in Nat /\ ratio \in CollateralRatios
         /\ collateral_balance(m, t, a) \in Nat /\ debt_balance(m, t, a) \in Nat
         /\ HeldSlack(m, t, a) \in Nat /\ OwedSlack(m, t, a) \in Nat
         /\ Outside(p, t, d, a) \in Nat
         /\ MulInt(MulInt(HeldSlack(m, t, a), price) + 2, ratio) \in Nat
         /\ MulInt(OwedSlack(m, t, a) + Outside(p, t, d, a), price) \in Nat
         /\ Claim(p, t, d, a) \in Nat /\ Owed(p, t, d, a) \in Nat
<1>1. Sound(Configs({p.common_token}), m, t) /\ Rated(m) /\ Exact(m) /\ m \in MarketState
  BY ListedRated
<1>2. /\ collateral_balance(m, t, a) \in Nat /\ debt_balance(m, t, a) \in Nat
      /\ HeldSlack(m, t, a) \in Nat /\ OwedSlack(m, t, a) \in Nat
  BY <1>1, QueriedNat
<1>3. price \in Nat
  BY PriceIs, PlatformAssumption DEF PriceOf
<1>4. ratio \in Nat /\ ratio \in CollateralRatios
  <2>1. ratio \in CollateralRatios
    BY <1>1 DEF MarketState, Configs, InstantiateMsg, StoredMarket
  <2> QED BY <2>1, PlatformAssumption
<1>5. Outside(p, t, d, a) \in Nat  BY <1>2 DEF Outside
<1>6. MulInt(HeldSlack(m, t, a), price) \in Nat  BY <1>2, <1>3, Fraction
<1>7. MulInt(HeldSlack(m, t, a), price) + 2 \in Nat
      /\ OwedSlack(m, t, a) + Outside(p, t, d, a) \in Nat
  BY <1>2, <1>5, <1>6
<1>8. /\ MulInt(MulInt(HeldSlack(m, t, a), price) + 2, ratio) \in Nat
      /\ MulInt(OwedSlack(m, t, a) + Outside(p, t, d, a), price) \in Nat
  BY <1>3, <1>4, <1>7, Fraction
<1>9. Claim(p, t, d, a) \in Nat
  <2>1. MulInt(collateral_balance(m, t, a), price) \in Nat  BY <1>2, <1>3, Fraction
  <2> QED BY <1>4, <2>1, Fraction DEF Claim, Line
<1>10. Owed(p, t, d, a) \in Nat
  BY <1>2, <1>3, Fraction DEF Owed
<1> QED BY <1>1, <1>2, <1>3, <1>4, <1>5, <1>8, <1>9, <1>10

\* The roundings are natural numbers.
LEMMA RoundingsNat ==
  ASSUME NEW p, NEW t \in Nat, PlatformSound(p, t), Lent(p), NEW a \in Accounts
  PROVE  /\ RoundingsOf(p, t, a) \in [Denoms -> Int]
         /\ \A d \in Denoms : RoundingsOf(p, t, a)[d] >= 0
         /\ SumFunction(RoundingsOf(p, t, a)) \in Nat
<1> DEFINE f == RoundingsOf(p, t, a)
<1>1. ASSUME NEW d \in listed(p), QueryOK(p.markets[d], t)
      PROVE  RoundingOf(p, t, d, a) \in Nat
  <2> DEFINE x == MulInt(MulInt(HeldSlack(p.markets[d], t, a), PriceOf(p, d)) + 2,
                         p.markets[d].collateral_ratio)
             y == MulInt(OwedSlack(p.markets[d], t, a) + Outside(p, t, d, a), PriceOf(p, d))
  <2>1. x \in Nat /\ y \in Nat  BY <1>1, ListedIs
  <2>2. RoundingOf(p, t, d, a) = x + y + 4  BY DEF RoundingOf
  <2> HIDE DEF x, y
  <2> QED BY <2>1, <2>2
<1>2. f \in [Denoms -> Int] /\ \A d \in Denoms : f[d] >= 0
  BY <1>1 DEF RoundingsOf
<1> HIDE DEF f
<1>3. SumFunction(f) \in Nat
  BY <1>2, PlatformAssumption, SumInt, SumNonNegative
<1> QED BY <1>2, <1>3 DEF f

\* What an account's health loses in a market.
LEMMA WorthMoves ==
  ASSUME NEW p, NEW q, NEW t \in Nat, PlatformSound(p, t), Lent(p), PlatformSound(q, t),
         Lent(q), NEW d \in listed(p), d \in listed(q), NEW a \in Accounts,
         NEW m, m = p.markets[d], NEW n, n = q.markets[d],
         QueryOK(m, t), d \in p.entered[a] => d \in q.entered[a],
         d \in q.entered[a] =>
            /\ QueryOK(n, t) /\ PriceOf(q, d) = PriceOf(p, d)
            /\ n.collateral_ratio = m.collateral_ratio,
         NEW v \in Nat, NEW u \in Nat, NEW w \in Nat, w <= debt_balance(m, t, a),
         Moved(m, n, t, a, v, u, w)
  PROVE  /\ Line(v, PriceOf(p, d), m.collateral_ratio) \in Nat
         /\ MulInt(u, PriceOf(p, d)) \in Nat /\ MulInt(w, PriceOf(p, d)) \in Nat
         /\ Worth(q, t, a)[d]
              >= Worth(p, t, a)[d] - RoundingsOf(p, t, a)[d]
                   - (Line(v, PriceOf(p, d), m.collateral_ratio)
                        + MulInt(u, PriceOf(p, d)) - MulInt(w, PriceOf(p, d)))
<1> DEFINE price == PriceOf(p, d)
           ratio == m.collateral_ratio
           x == collateral_balance(m, t, a)
           y == debt_balance(m, t, a)
           r == HeldSlack(m, t, a)
           s == OwedSlack(m, t, a)
           o == Outside(p, t, d, a)
           C == Claim(p, t, d, a)
           O == Owed(p, t, d, a)
           CC == Claim(q, t, d, a)
           OO == Owed(q, t, d, a)
           R1 == MulInt(MulInt(r, price) + 2, ratio)
           R2 == MulInt(s + o, price)
           V == Line(v, price, ratio)
           U == MulInt(u, price)
           W == MulInt(w, price)
           L == V + U - W
<1>1. /\ price \in Nat /\ ratio \in Nat /\ x \in Nat /\ y \in Nat /\ r \in Nat /\ s \in Nat
      /\ o \in Nat /\ C \in Nat /\ O \in Nat /\ R1 \in Nat /\ R2 \in Nat
  <2>1. price = PriceOf(p, d) /\ ratio = m.collateral_ratio  OBVIOUS
  <2> HIDE DEF price, ratio
  <2>2. price \in Nat /\ ratio \in Nat BY <2>1, ListedIs
  <2>3. x \in Nat /\ y \in Nat /\ r \in Nat /\ s \in Nat  BY <2>1, ListedIs
  <2>4. o \in Nat /\ C \in Nat /\ O \in Nat  BY <2>1, ListedIs
  <2>5. R1 \in Nat /\ R2 \in Nat
    <3> HIDE DEF r, s, o
    <3>1. MulInt(r, price) \in Nat  BY <2>2, <2>3, Fraction
    <3>2. MulInt(r, price) + 2 \in Nat /\ s + o \in Nat  BY <2>3, <2>4, <3>1
    <3> QED BY <2>2, <3>2, Fraction
  <2> QED BY <2>2, <2>3, <2>4, <2>5
<1>2. C = Line(x, price, ratio) /\ O = MulInt(y, price)
  BY DEF Claim, Owed
<1>3. U \in Nat /\ W \in Nat  BY <1>1, Fraction
<1>4. V \in Nat
  <2>1. MulInt(v, price) \in Nat  BY <1>1, Fraction
  <2> QED BY <1>1, <2>1, Fraction DEF Line
<1>5. RoundingsOf(p, t, a)[d] = R1 + R2 + 4 /\ d \in Denoms
  <2>1. d \in Denoms
    BY DEF PlatformSound, PlatformState, Partial, listed
  <2> QED BY <2>1 DEF RoundingsOf, RoundingOf
<1>6. /\ Worth(p, t, a)[d] = IF d \in p.entered[a] THEN C - O ELSE 0
      /\ Worth(q, t, a)[d] = IF d \in q.entered[a] THEN CC - OO ELSE 0
  BY <1>5 DEF Worth, WorthIn
<1>7. /\ MulInt(s, price) \in Nat /\ MulInt(o, price) \in Nat
      /\ MulInt(s, price) + MulInt(o, price) <= R2
  <2> HIDE DEF price, s, o
  <2> QED BY <1>1, MulIntParts
<1>8. W <= O
  <2> HIDE DEF price, y
  <2>1. w \in Nat /\ w <= y /\ price <= price  BY <1>1 DEF y
  <2> QED BY <1>1, <1>2, <2>1, MulIntMonotone
<1>9. d \notin p.entered[a] => MulInt(o, price) = O
  BY <1>2 DEF Outside
<1>10. CASE d \in q.entered[a]
  <2> DEFINE z == collateral_balance(n, t, a)
             k == debt_balance(n, t, a)
  <2>1. z \in Nat /\ k \in Nat /\ CC \in Nat /\ OO \in Nat
    BY <1>10, ListedIs
  <2>2. CC = Line(z, price, ratio) /\ OO = MulInt(k, price)
    BY <1>10 DEF Claim, Owed
  <2>3. x <= z + r + v /\ k + w <= y + s + u
    BY DEF Moved
  <2>4. C <= CC + R1 + 2 + V
    <3> HIDE DEF x, z, r, price, ratio, C, CC
    <3> QED BY <1>1, <1>2, <2>1, <2>2, <2>3, LineLoses
  <2>5. OO + W <= O + MulInt(s, price) + U + 2
    <3> HIDE DEF y, k, s, price, O, OO
    <3> QED BY <1>1, <1>2, <2>1, <2>2, <2>3, OwedGrows
  <2>6. CASE d \in p.entered[a]
    <3>1. Worth(p, t, a)[d] = C - O /\ Worth(q, t, a)[d] = CC - OO
      BY <1>6, <1>10, <2>6
    <3> HIDE DEF C, O, CC, OO, R1, R2, V, U, W, s, o, price
    <3> QED BY <1>1, <1>3, <1>4, <1>5, <1>7, <2>1, <2>4, <2>5, <3>1 DEF V, U, W, price
  <2>7. CASE d \notin p.entered[a]
    <3>1. Worth(p, t, a)[d] = 0 /\ Worth(q, t, a)[d] = CC - OO
      BY <1>6, <1>10, <2>7
    <3>2. O = MulInt(o, price)  BY <1>9, <2>7
    <3> HIDE DEF C, O, CC, OO, R1, R2, V, U, W, s, o, price
    <3> QED BY <1>1, <1>3, <1>4, <1>5, <1>7, <2>1, <2>5, <3>1, <3>2 DEF V, U, W, price
  <2> QED BY <2>6, <2>7
<1>11. CASE d \notin q.entered[a]
  <2>1. Worth(p, t, a)[d] = 0 /\ Worth(q, t, a)[d] = 0 /\ O = MulInt(o, price)
    BY <1>6, <1>9, <1>11
  <2> HIDE DEF C, O, CC, OO, R1, R2, V, U, W, s, o, price
  <2> QED BY <1>1, <1>3, <1>4, <1>5, <1>7, <1>8, <2>1 DEF V, U, W, price
<1> QED BY <1>10, <1>11

-----------------------------------------------------------------------------
(***************************************************************************)
(* What each handler of a market takes from an account there: no more than *)
(* the amount of the message, but for roundings.                           *)
(***************************************************************************)
\* SettledMoves, from what the handler finds after charging.
LEMMA ChargedMoves ==
  ASSUME NEW K, NEW m, NEW t \in Nat, Sound(K, m, t), Rated(m), ChargeOK(m, t),
         NEW c, c = charge_interest(m, t), NEW n, SameCharge(c, n), NEW a \in Accounts,
         n.ctoken.balances[a] \in Nat, n.debt[a] \in Nat,
         NEW v \in Nat, NEW u \in Nat, NEW w \in Nat,
         token_to_base(c.ctoken.balances[a], c.ctoken.multiplier)
           <= token_to_base(n.ctoken.balances[a], c.ctoken.multiplier) + v,
         token_to_base(n.debt[a], c.debt_multiplier) + w
           <= token_to_base(m.debt[a], c.debt_multiplier) + (c.debt_multiplier \div One)
                + 1 + u
  PROVE  QueryOK(m, t) /\ Moved(m, n, t, a, v, u, w)
<1> DEFINE M == c.ctoken.multiplier
           T == m.ctoken.balances[a]
           S == c.ctoken.balances[a]
<1>1. M \in Nat /\ T \in Nat /\ S \in Nat /\ T <= S
  <2>1. T \in Nat  BY StoredNat DEF Sound
  <2>2. M \in Nat /\ S \in Nat  BY ChargeSound, StoredNat DEF Sound
  <2>3. S >= T  BY ChargeTokens
  <2> QED BY <2>1, <2>2, <2>3
<1>2. /\ token_to_base(T, M) \in Nat /\ token_to_base(S, M) \in Nat
      /\ token_to_base(T, M) <= token_to_base(S, M)
  <2> HIDE DEF T, S, M
  <2>1. M <= M  BY <1>1
  <2> QED BY <1>1, <2>1, MulIntMonotone DEF token_to_base
<1>3. token_to_base(n.ctoken.balances[a], M) \in Nat
  BY <1>1, WorthNat
<1>4. token_to_base(T, M) <= token_to_base(n.ctoken.balances[a], M) + v
  BY <1>2, <1>3
<1> QED BY <1>4, SettledMoves

\* A worth is at least that of fewer tokens.
LEMMA WorthMonotone ==
  ASSUME NEW x \in Nat, NEW y \in Nat, x <= y, NEW M \in Nat
  PROVE  /\ token_to_base(x, M) \in Nat /\ token_to_base(y, M) \in Nat
         /\ token_to_base(x, M) <= token_to_base(y, M)
<1>1. M <= M  OBVIOUS
<1> QED BY <1>1, MulIntMonotone DEF token_to_base

\* A handler that leaves the debts alone.
LEMMA TokensMoves ==
  ASSUME NEW K, NEW m, NEW t \in Nat, Sound(K, m, t), Rated(m), ChargeOK(m, t),
         NEW c, c = charge_interest(m, t), NEW n, SameCharge(c, n), NEW a \in Accounts,
         n.ctoken.balances[a] \in Nat, n.debt = c.debt, NEW v \in Nat,
         token_to_base(c.ctoken.balances[a], c.ctoken.multiplier)
           <= token_to_base(n.ctoken.balances[a], c.ctoken.multiplier) + v
  PROVE  QueryOK(m, t) /\ Moved(m, n, t, a, v, 0, 0)
<1>1. n.debt[a] = m.debt[a] /\ m.debt[a] \in Nat
  BY ChargeSound, StoredNat DEF Sound
<1>2. c.debt_multiplier \in Nat  BY ChargeSound, StoredNat DEF Sound
<1> DEFINE Y == token_to_base(m.debt[a], c.debt_multiplier)
           k == c.debt_multiplier \div One
<1>3. Y \in Nat  BY <1>1, <1>2, WorthNat
<1>4. k \in Nat
  <2>1. One \in Nat \ {0}  BY FractionAssumption DEF One
  <2> QED BY <1>2, <2>1, DivType
<1> HIDE DEF Y, k
<1>5. Y + 0 <= Y + k + 1 + 0  BY <1>3, <1>4
<1>6. 0 \in Nat  OBVIOUS
<1> QED BY <1>1, <1>5, <1>6, ChargedMoves DEF Y, k

\* A handler that leaves the C tokens as charging left them, but for a loan or
\* a repayment.
LEMMA DebtMoves ==
  ASSUME NEW K, NEW m, NEW t \in Nat, Sound(K, m, t), Rated(m), ChargeOK(m, t),
         NEW c, c = charge_interest(m, t), NEW n, SameCharge(c, n), NEW a \in Accounts,
         n.ctoken = c.ctoken, n.debt[a] \in Nat, NEW u \in Nat, NEW w \in Nat,
         token_to_base(n.debt[a], c.debt_multiplier) + w
           <= token_to_base(m.debt[a], c.debt_multiplier) + (c.debt_multiplier \div One)
                + 1 + u
  PROVE  QueryOK(m, t) /\ Moved(m, n, t, a, 0, u, w)
<1>1. n.ctoken.balances[a] \in Nat /\ c.ctoken.multiplier \in Nat
  BY ChargeSound, StoredNat DEF Sound
<1> DEFINE Z == token_to_base(n.ctoken.balances[a], c.ctoken.multiplier)
<1>2. Z \in Nat /\ token_to_base(c.ctoken.balances[a], c.ctoken.multiplier) = Z
  BY <1>1, WorthNat
<1> HIDE DEF Z
<1>3. Z <= Z + 0 /\ 0 \in Nat  BY <1>2
<1> QED BY <1>1, <1>2, <1>3, ChargedMoves DEF Z

\* What deposit does to an account.
LEMMA DepositMoves ==
  ASSUME NEW K, NEW m, NEW t \in Nat, Sound(K, m, t), Rated(m), NEW a \in Accounts,
         NEW amount \in Nat, DepositOK(m, t, a, amount),
         NEW n, n = deposit(m, t, a, amount), NEW b \in Accounts
  PROVE  QueryOK(m, t) /\ Moved(m, n, t, b, 0, 0, 0)
<1> DEFINE c == charge_interest(m, t)
           k == FromBase(c.ctoken, amount)
<1>1. ChargeOK(m, t) /\ SameCharge(c, n) /\ SameDebts(c, n)
  BY DepositEffect
<1>2. MintBaseOK(c, a, amount)  BY DEF DepositOK
<1>3. k \in Nat  BY <1>2, FromBaseNat DEF MintBaseOK
<1>4. c \in StoredMarket(K) /\ c.ctoken \in TokenState /\ c.ctoken.multiplier \in Nat
      /\ c.ctoken.balances[b] \in Nat
  BY <1>1, ChargeSound, StoredNat DEF Sound
<1>5. n.ctoken = mint(c.ctoken, a, k)
  <2>1. n = receive(mint_base(c, a, amount), amount)  BY DEF deposit
  <2> HIDE DEF c
  <2> QED BY <1>4, <2>1 DEF receive, mint_base, StoredMarket, k
<1> HIDE DEF k, c
<1>6. n.ctoken.balances[b] \in Nat /\ n.ctoken.balances[b] >= c.ctoken.balances[b]
  BY <1>3, <1>4, <1>5, TokensMinted
<1>7. token_to_base(c.ctoken.balances[b], c.ctoken.multiplier)
        <= token_to_base(n.ctoken.balances[b], c.ctoken.multiplier) + 0
  <2>1. /\ token_to_base(c.ctoken.balances[b], c.ctoken.multiplier) \in Nat
        /\ token_to_base(n.ctoken.balances[b], c.ctoken.multiplier) \in Nat
        /\ token_to_base(c.ctoken.balances[b], c.ctoken.multiplier)
             <= token_to_base(n.ctoken.balances[b], c.ctoken.multiplier)
    BY <1>4, <1>6, WorthMonotone
  <2> QED BY <2>1
<1>8. 0 \in Nat /\ n.debt = c.debt  BY <1>1 DEF SameDebts
<1> QED BY <1>1, <1>6, <1>7, <1>8, TokensMoves DEF c

\* What withdraw does to an account.
LEMMA WithdrawMoves ==
  ASSUME NEW K, NEW m, NEW t \in Nat, Sound(K, m, t), Rated(m), NEW a \in Accounts,
         NEW amount \in Nat, WithdrawBaseOK(m, t, a, amount),
         NEW n, n = withdraw(m, t, a, amount), NEW b \in Accounts,
         NEW v, v = IF b = a THEN amount ELSE 0
  PROVE  QueryOK(m, t) /\ Moved(m, n, t, b, v, 0, 0)
<1> DEFINE c == charge_interest(m, t)
           k == FromBase(c.ctoken, amount)
           M == c.ctoken.multiplier
<1>1. ChargeOK(m, t) /\ SameCharge(c, n) /\ SameDebts(c, n)
  BY WithdrawEffect
<1>2. BurnBaseOK(c, a, amount)  BY DEF WithdrawBaseOK
<1>3. c \in StoredMarket(K) /\ c.ctoken \in TokenState /\ M \in Nat
      /\ c.ctoken.balances[b] \in Nat
  BY <1>1, ChargeSound, StoredNat DEF Sound
<1>4. k \in Nat /\ M > 0  BY <1>2, FromBaseNat DEF BurnBaseOK, FromBaseOK
<1>5. n.ctoken = burn_from(c.ctoken, a, k)
  <2>1. n = pay(burn_base_from(c, a, amount), amount)  BY DEF withdraw
  <2> HIDE DEF c
  <2> QED BY <1>3, <2>1 DEF pay, burn_base_from, StoredMarket, k
<1>6. BurnOK(c.ctoken, a, k)  BY <1>2 DEF BurnBaseOK
<1>7. k * M <= amount * One
  <2>1. k = base_to_token(amount, M)  BY DEF FromBase
  <2> HIDE DEF k, M
  <2> QED BY <1>3, <1>4, <2>1, ConvertedWorth
<1> HIDE DEF k, c, M
<1>8. /\ n.ctoken.balances[b] \in Nat
      /\ b # a => n.ctoken.balances[b] = c.ctoken.balances[b]
      /\ b = a => n.ctoken.balances[b] = c.ctoken.balances[b] - k
                  /\ k \in 1 .. c.ctoken.balances[b]
  BY <1>3, <1>4, <1>5, <1>6, TokensBurnt
<1>9. token_to_base(c.ctoken.balances[b], M) <= token_to_base(n.ctoken.balances[b], M) + v
      /\ v \in Nat
  <2>1. CASE b = a
    BY <1>3, <1>4, <1>7, <1>8, <2>1, TokensTaken
  <2>2. CASE b # a
    <3>1. token_to_base(c.ctoken.balances[b], M) \in Nat  BY <1>3, WorthNat
    <3> QED BY <1>8, <2>2, <3>1
  <2> QED BY <2>1, <2>2
<1>10. n.debt = c.debt  BY <1>1 DEF SameDebts
<1> QED BY <1>1, <1>8, <1>9, <1>10, TokensMoves DEF c, M

\* What borrow does to an account.
LEMMA BorrowMoves ==
  ASSUME NEW K, NEW m, NEW t \in Nat, Sound(K, m, t), Rated(m), NEW a \in Accounts,
         NEW amount \in Nat, BorrowOK(m, t, a, amount),
         NEW n, n = borrow(m, t, a, amount), NEW b \in Accounts,
         NEW u, u = IF b = a THEN amount ELSE 0
  PROVE  QueryOK(m, t) /\ Moved(m, n, t, b, 0, u, 0)
<1> DEFINE c == charge_interest(m, t)
           k == base_to_token(amount, c.debt_multiplier)
           M == c.debt_multiplier
           P == m.debt[b]
<1>1. ChargeOK(m, t) /\ SameCharge(c, n)
  BY BorrowEffect
<1>2. IncreaseOK(c, a, amount)  BY DEF BorrowOK
<1>3. c \in StoredMarket(K) /\ M \in Nat /\ P \in Nat /\ c.debt = m.debt
  BY <1>1, ChargeSound, StoredNat DEF Sound
<1>4. k \in Nat /\ M > 0 /\ k * M <= amount * One
  <2>1. M > 0  BY <1>2 DEF IncreaseOK, PointsOK
  <2> HIDE DEF M, c
  <2>2. M \in Nat \ {0}  BY <1>3, <2>1
  <2> QED BY <2>1, <2>2, ConvertedWorth DEF M
<1>5. n.ctoken = c.ctoken /\ n.debt[b] = IF b = a THEN P + k ELSE P
  <2>1. n = pay(increase(c, a, amount), amount)  BY DEF borrow
  <2> HIDE DEF c
  <2>2. c.debt \in [Accounts -> 0 .. Modulus - 1]  BY <1>3 DEF StoredMarket
  <2> QED BY <1>3, <2>1, <2>2 DEF pay, increase, StoredMarket
<1>6. n.debt[b] \in Nat /\ u \in Nat  BY <1>3, <1>4, <1>5
<1>7. M \div One \in Nat
  <2>1. One \in Nat \ {0}  BY FractionAssumption DEF One
  <2> QED BY <1>3, <2>1, DivType
<1> HIDE DEF k, M, P, c
<1>8. token_to_base(n.debt[b], M) + 0 <= token_to_base(P, M) + (M \div One) + 1 + u
  <2>1. token_to_base(n.debt[b], M) \in Nat /\ token_to_base(P, M) \in Nat
    BY <1>3, <1>6, WorthNat
  <2>2. CASE b = a
    <3>1. n.debt[b] = P + k /\ u = amount  BY <1>5, <2>2
    <3>2. P + k \in Nat /\ k <= P + k /\ (P + k) - k = P  BY <1>3, <1>4
    <3>3. token_to_base(P + k, M) <= token_to_base((P + k) - k, M) + amount
      BY <1>3, <1>4, <3>2, TokensTaken
    <3>4. token_to_base(P + k, M) <= token_to_base(P, M) + amount
      BY <3>2, <3>3
    <3> QED BY <1>7, <2>1, <3>1, <3>4
  <2>3. CASE b # a
    BY <1>5, <1>7, <2>1, <2>3
  <2> QED BY <2>2, <2>3
<1>9. 0 \in Nat  OBVIOUS
<1> QED BY <1>1, <1>5, <1>6, <1>8, <1>9, DebtMoves DEF c, M, P

\* What repaying an account's debt within its points does to the accounts.
LEMMA DecreaseMoves ==
  ASSUME NEW K, NEW m, NEW t \in Nat, Sound(K, m, t), Rated(m), Exact(m), ChargeOK(m, t),
         NEW c, c = charge_interest(m, t), NEW a \in Accounts, NEW amount \in Nat,
         PointsOK(c, amount), base_to_token(amount, c.debt_multiplier) <= m.debt[a],
         NEW n, n \in {repay(m, t, a, amount), repay_to(m, t, a, amount)},
         NEW b \in Accounts, NEW w, w = IF b = a THEN amount ELSE 0
  PROVE  QueryOK(m, t) /\ Moved(m, n, t, b, 0, 0, w)
<1> DEFINE k == base_to_token(amount, c.debt_multiplier)
           M == c.debt_multiplier
           P == m.debt[b]
           r == receive(decrease(c, a, amount), amount)
<1>1. c \in StoredMarket(K) /\ M \in Nat /\ P \in Nat /\ c.debt = m.debt
      /\ c.total_points = m.total_points /\ m.debt[a] \in Nat
  BY ChargeSound, StoredNat DEF Sound
<1>2. SameCharge(c, n)
  BY RepayKeepsCharge
<1>3. Exact(c)  BY <1>1 DEF Exact
<1>4. /\ k \in Nat /\ decrease(c, a, amount).debt = [c.debt EXCEPT ![a] = c.debt[a] - k]
      /\ Surplus(c, a, amount) = 0
  BY <1>1, <1>3, DecreaseExact
<1>5. n.ctoken = c.ctoken /\ n.debt = [c.debt EXCEPT ![a] = c.debt[a] - k]
  <2>1. r.ctoken = c.ctoken /\ r.debt = decrease(c, a, amount).debt
    BY <1>1 DEF receive, decrease, StoredMarket
  <2>2. CASE n = repay_to(m, t, a, amount)
    <3>1. n = r  BY <2>2 DEF repay_to
    <3> QED BY <1>4, <2>1, <3>1
  <2>3. CASE n = repay(m, t, a, amount)
    <3>1. n = pay(r, 0)
      BY <1>4, <2>3 DEF repay
    <3>2. n.ctoken = r.ctoken /\ n.debt = r.debt
      BY <1>1, <3>1 DEF pay, receive, decrease, StoredMarket
    <3> QED BY <1>4, <2>1, <3>2
  <2> QED BY <2>2, <2>3
<1>6. amount * One <= k * M + M
  <2>1. M > 0  BY DEF PointsOK
  <2> HIDE DEF M
  <2>2. M \in Nat \ {0}  BY <1>1, <2>1
  <2> QED BY <2>2, ConvertedWorth DEF M
<1>7. M \div One \in Nat
  <2>1. One \in Nat \ {0}  BY FractionAssumption DEF One
  <2> QED BY <1>1, <2>1, DivType
<1>8. n.debt[b] = IF b = a THEN P - k ELSE P
  <2>1. c.debt \in [Accounts -> 0 .. Modulus - 1]  BY <1>1 DEF StoredMarket
  <2> QED BY <1>1, <1>5, <2>1
<1>9. k <= m.debt[a]  OBVIOUS
<1> HIDE DEF k, M, P, r
<1>10. b = a => P = m.debt[a]  BY DEF P
<1>11. n.debt[b] \in Nat /\ w \in Nat  BY <1>1, <1>4, <1>8, <1>9, <1>10
<1>12. token_to_base(n.debt[b], M) + w <= token_to_base(P, M) + (M \div One) + 1 + 0
  <2>1. token_to_base(n.debt[b], M) \in Nat /\ token_to_base(P, M) \in Nat
    BY <1>1, <1>11, WorthNat
  <2>2. CASE b = a
    <3>1. n.debt[b] = P - k /\ w = amount /\ k <= P  BY <1>8, <1>9, <1>10, <2>2
    <3>2. token_to_base(P - k, M) + amount <= token_to_base(P, M) + (M \div One) + 1
      BY <1>1, <1>4, <1>6, <3>1, PointsPaid
    <3> QED BY <1>7, <2>1, <3>1, <3>2
  <2>3. CASE b # a
    BY <1>7, <1>8, <2>1, <2>3
  <2> QED BY <2>2, <2>3
<1>13. 0 \in Nat  OBVIOUS
<1> QED BY <1>2, <1>5, <1>11, <1>12, <1>13, DebtMoves DEF M, P

\* What repay does to an account, when it repays no more than the debt.
LEMMA RepayMoves ==
  ASSUME NEW K, NEW m, NEW t \in Nat, Sound(K, m, t), Rated(m), Exact(m), NEW a \in Accounts,
         NEW amount \in Nat, RepayOK(m, t, a, amount),
         base_to_token(amount, charge_interest(m, t).debt_multiplier) <= m.debt[a],
         NEW n, n = repay(m, t, a, amount), NEW b \in Accounts
  PROVE  QueryOK(m, t) /\ Moved(m, n, t, b, 0, 0, 0)
<1> DEFINE w == IF b = a THEN amount ELSE 0
<1>1. ChargeOK(m, t) /\ PointsOK(charge_interest(m, t), amount)
  BY DEF RepayOK
<1>2. QueryOK(m, t) /\ Moved(m, n, t, b, 0, 0, w)
  BY <1>1, DecreaseMoves
<1>3. w \in Nat  OBVIOUS
<1> HIDE DEF w
<1>4. n.debt[b] \in Nat /\ n.debt_multiplier \in Nat
  BY RepaySound, StoredNat DEF Sound
<1>5. debt_balance(m, t, b) \in Nat /\ OwedSlack(m, t, b) \in Nat
  BY <1>2, QueriedNat
<1>6. debt_balance(n, t, b) \in Nat
  <2>1. SameCharge(charge_interest(m, t), n)  BY <1>1, RepayKeepsCharge
  <2>2. n.last_charged = charge_interest(m, t).last_charged
        /\ n.charge_period = m.charge_period
    BY <1>1, <2>1, ChargeSound DEF SameCharge
  <2>3. ~ pending(n, t)  BY <1>1, <2>2, ChargedNotPending
  <2>4. debt_balance(n, t, b) = token_to_base(n.debt[b], n.debt_multiplier)
    BY <2>3 DEF debt_balance, debt_of
  <2> QED BY <1>4, <2>4, WorthNat
<1> QED BY <1>2, <1>3, <1>5, <1>6 DEF Moved

\* What repay_to does to an account.
LEMMA RepayToMoves ==
  ASSUME NEW K, NEW m, NEW t \in Nat, Sound(K, m, t), Rated(m), Exact(m), NEW a \in Accounts,
         NEW amount \in Nat, RepayToOK(m, t, a, amount),
         NEW n, n = repay_to(m, t, a, amount), NEW b \in Accounts,
         NEW w, w = IF b = a THEN amount ELSE 0
  PROVE  /\ QueryOK(m, t) /\ w \in Nat /\ w <= debt_balance(m, t, b)
         /\ Moved(m, n, t, b, 0, 0, w)
<1>1. ChargeOK(m, t) /\ PointsOK(charge_interest(m, t), amount) /\ amount <= debt_of(m, a)
  BY DEF RepayToOK
<1>2. base_to_token(amount, charge_interest(m, t).debt_multiplier) <= m.debt[a]
  BY RepaidWithinDebt
<1>3. QueryOK(m, t) /\ Moved(m, n, t, b, 0, 0, w)
  BY <1>1, <1>2, DecreaseMoves
<1>4. /\ debt_balance(m, t, b) \in Nat
      /\ debt_of(m, b) \in Nat /\ debt_of(m, b) <= debt_balance(m, t, b)
  BY <1>3, QueriedNat
<1>5. w <= debt_balance(m, t, b)
  <2>1. CASE b = a
    <3>1. w = amount /\ amount <= debt_of(m, b)  BY <1>1, <2>1
    <3> QED BY <1>4, <3>1
  <2>2. CASE b # a
    BY <1>4, <2>2
  <2> QED BY <2>1, <2>2
<1> QED BY <1>3, <1>5

\* C tokens that go from one account to another are worth no more than the
\* value that they are handed over for.
LEMMA TokensHanded ==
  ASSUME NEW t \in TokenState, NEW s \in Accounts, NEW r \in Accounts, NEW value \in Nat,
         FromBaseOK(t, value), NEW k, k = FromBase(t, value), TransferOK(t, s, r, k),
         NEW n, n = transfer_tokens(t, s, r, k), NEW b \in Accounts,
         NEW v, v = IF b = s THEN value ELSE 0
  PROVE  /\ n.balances[b] \in Nat /\ v \in Nat
         /\ token_to_base(t.balances[b], t.multiplier)
              <= token_to_base(n.balances[b], t.multiplier) + v
<1> DEFINE M == t.multiplier
           h == t.balances[b]
<1>1. k \in Nat /\ M \in Nat /\ M > 0 /\ h \in Nat
  BY FromBaseNat DEF FromBaseOK, TokenState
<1>2. k * M <= value * One
  <2>1. k = base_to_token(value, M) /\ M \in Nat \ {0}  BY <1>1 DEF FromBase
  <2> HIDE DEF M
  <2> QED BY <2>1, ConvertedWorth
<1>3. /\ b # s => n.balances[b] >= h
      /\ b = s => n.balances[b] >= h - k
      /\ k \in 0 .. t.balances[s] /\ n.balances[b] \in Nat
  BY <1>1, TokensMoved
<1>4. v \in Nat  OBVIOUS
<1>5. b = s => h = t.balances[s]  OBVIOUS
<1> HIDE DEF M, h
<1>6. CASE b = s
  <2>1. k <= h /\ h - k \in Nat /\ h - k <= n.balances[b] /\ v = value
    BY <1>1, <1>3, <1>5, <1>6
  <2>2. token_to_base(h, M) <= token_to_base(h - k, M) + v
    BY <1>1, <1>2, <2>1, TokensTaken
  <2>3. /\ token_to_base(h - k, M) \in Nat /\ token_to_base(n.balances[b], M) \in Nat
        /\ token_to_base(h - k, M) <= token_to_base(n.balances[b], M)
    BY <1>1, <1>3, <2>1, WorthMonotone
  <2>4. token_to_base(h, M) \in Nat  BY <1>1, WorthNat
  <2>5. token_to_base(h, M) <= token_to_base(n.balances[b], M) + v
    BY <1>4, <2>2, <2>3, <2>4
  <2> QED BY <1>3, <1>4, <2>5 DEF h, M
<1>7. CASE b # s
  <2>1. h <= n.balances[b]  BY <1>1, <1>3, <1>7
  <2>2. /\ token_to_base(h, M) \in Nat /\ token_to_base(n.balances[b], M) \in Nat
        /\ token_to_base(h, M) <= token_to_base(n.balances[b], M)
    BY <1>1, <1>3, <2>1, WorthMonotone
  <2>3. token_to_base(h, M) <= token_to_base(n.balances[b], M) + v
    BY <1>4, <2>2
  <2> QED BY <1>3, <1>4, <2>3 DEF h, M
<1> QED BY <1>6, <1>7

\* What transfer_from leaves of the tokens of an account.
LEMMA TransferFromTokens ==
  ASSUME NEW K, NEW m, NEW t \in Nat, Sound(K, m, t), Rated(m), NEW s \in Accounts,
         NEW r \in Accounts, NEW amount, NEW price, NEW discount,
         TransferFromOK(m, t, s, r, amount, price, discount),
         RepaidValue(amount, price, discount) \in Nat,
         NEW c, c = charge_interest(m, t),
         NEW n, n = transfer_from(m, t, s, r, amount, price, discount), NEW b \in Accounts,
         NEW v, v = IF b = s THEN RepaidValue(amount, price, discount) ELSE 0
  PROVE  /\ n.ctoken.balances[b] \in Nat /\ v \in Nat
         /\ token_to_base(c.ctoken.balances[b], c.ctoken.multiplier)
              <= token_to_base(n.ctoken.balances[b], c.ctoken.multiplier) + v
<1> DEFINE value == RepaidValue(amount, price, discount)
           k == FromBase(c.ctoken, value)
<1>1. ChargeOK(m, t) /\ FromBaseOK(c.ctoken, value) /\ TransferOK(c.ctoken, s, r, k)
  BY DEF TransferFromOK
<1>2. c \in StoredMarket(K) /\ c.ctoken \in TokenState
  BY <1>1, ChargeSound, StoredNat DEF Sound
<1>3. n.ctoken = transfer_tokens(c.ctoken, s, r, k)
  <2>1. n = [c EXCEPT !.ctoken = transfer_tokens(@, s, r, k)]
    BY DEF transfer_from
  <2> QED BY <1>2, <2>1 DEF StoredMarket
<1>4. k = FromBase(c.ctoken, value) /\ value \in Nat  OBVIOUS
<1>5. v = IF b = s THEN value ELSE 0  OBVIOUS
<1> HIDE DEF k, value
<1> QED BY <1>1, <1>2, <1>3, <1>4, <1>5, TokensHanded

\* What transfer_from does to an account.
LEMMA TransferFromMoves ==
  ASSUME NEW K, NEW m, NEW t \in Nat, Sound(K, m, t), Rated(m), NEW s \in Accounts,
         NEW r \in Accounts, NEW amount, NEW price, NEW discount,
         TransferFromOK(m, t, s, r, amount, price, discount),
         RepaidValue(amount, price, discount) \in Nat,
         NEW n, n = transfer_from(m, t, s, r, amount, price, discount), NEW b \in Accounts,
         NEW v, v = IF b = s THEN RepaidValue(amount, price, discount) ELSE 0
  PROVE  QueryOK(m, t) /\ v \in Nat /\ Moved(m, n, t, b, v, 0, 0)
<1> DEFINE c == charge_interest(m, t)
<1>1. ChargeOK(m, t) /\ SameCharge(c, n) /\ SameDebts(c, n)
  BY TransferFromEffect
<1>2. /\ n.ctoken.balances[b] \in Nat /\ v \in Nat
      /\ token_to_base(c.ctoken.balances[b], c.ctoken.multiplier)
           <= token_to_base(n.ctoken.balances[b], c.ctoken.multiplier) + v
  BY TransferFromTokens
<1>3. n.debt = c.debt  BY <1>1 DEF SameDebts
<1> QED BY <1>1, <1>2, <1>3, TokensMoves

\* What a market that was just charged makes of charging again.
LEMMA ChargedTwice ==
  ASSUME NEW K, NEW m, NEW t \in Nat, Sound(K, m, t), Rated(m), ChargeOK(m, t),
         NEW c, c = charge_interest(m, t), NEW n, SameCharge(c, n), Sound(K, n, t),
         ChargeOK(n, t), NEW e, e = charge_interest(n, t)
  PROVE  Rated(n) /\ e.ctoken = n.ctoken /\ e.debt = n.debt /\ SameCharge(c, e)
<1>1. /\ Rated(c) /\ c.charge_period = m.charge_period
      /\ n.last_charged = c.last_charged /\ n.charge_period = m.charge_period
  BY ChargeFields DEF SameCharge
<1>2. Rated(n)  BY <1>1 DEF Rated, SameCharge
<1>3. epochs_passed(n, t) = 0 /\ ~ pending(n, t)
  BY <1>1, ChargedNotPending
<1>4. /\ e.debt = n.debt /\ e.rates = n.rates /\ e.reserve_factor = n.reserve_factor
      /\ e.charge_period = n.charge_period
      /\ e.last_charged = n.last_charged + 0 * n.charge_period
      /\ e.debt_multiplier = n.debt_multiplier /\ e.ctoken = n.ctoken
  BY <1>2, <1>3, ChargeFields
<1>5. n.last_charged + 0 * n.charge_period = n.last_charged
  <2>1. n.last_charged \in Nat /\ n.charge_period \in Nat
    BY StoredNat DEF Sound
  <2> QED BY <2>1
<1> QED BY <1>2, <1>4, <1>5 DEF SameCharge

\* What a repayment does to an account whose C tokens in the same market pay
\* for it.
LEMMA SeizedMoves ==
  ASSUME NEW K, NEW m, NEW t \in Nat, Sound(K, m, t), Rated(m), Exact(m), NEW a \in Accounts,
         NEW amount \in Nat, RepayToOK(m, t, a, amount),
         NEW n, n = repay_to(m, t, a, amount),
         NEW r \in Accounts, NEW worth, NEW price, NEW discount,
         TransferFromOK(n, t, a, r, worth, price, discount),
         RepaidValue(worth, price, discount) \in Nat,
         NEW o, o = transfer_from(n, t, a, r, worth, price, discount), NEW b \in Accounts,
         NEW v, v = (IF b = a THEN RepaidValue(worth, price, discount) ELSE 0),
         NEW w, w = IF b = a THEN amount ELSE 0
  PROVE  /\ QueryOK(m, t) /\ v \in Nat /\ w \in Nat /\ w <= debt_balance(m, t, b)
         /\ Moved(m, o, t, b, v, 0, w)
<1> DEFINE c == charge_interest(m, t)
           e == charge_interest(n, t)
<1>1. /\ QueryOK(m, t) /\ w \in Nat /\ w <= debt_balance(m, t, b)
      /\ Moved(m, n, t, b, 0, 0, w)
  BY RepayToMoves
<1>2. ChargeOK(m, t) /\ ChargeOK(n, t)  BY DEF RepayToOK, TransferFromOK
<1>3. Sound(K, n, t)  BY RepayToSound
<1>4. SameCharge(c, n)  BY <1>2, RepayKeepsCharge
<1>5. Rated(n) /\ e.ctoken = n.ctoken /\ e.debt = n.debt /\ SameCharge(c, e)
  BY <1>2, <1>3, <1>4, ChargedTwice
<1>6. SameCharge(e, o) /\ SameDebts(e, o)
  BY <1>3, TransferFromEffect
<1>7. /\ o.ctoken.balances[b] \in Nat /\ v \in Nat
      /\ token_to_base(n.ctoken.balances[b], n.ctoken.multiplier)
           <= token_to_base(o.ctoken.balances[b], n.ctoken.multiplier) + v
  BY <1>3, <1>5, TransferFromTokens
<1>8. SameCharge(n, o) /\ o.debt = n.debt
  BY <1>4, <1>5, <1>6 DEF SameCharge, SameDebts
<1>9. ~ pending(n, t) /\ ~ pending(o, t)
  <2>1. /\ n.last_charged = c.last_charged /\ n.charge_period = m.charge_period
        /\ o.last_charged = c.last_charged /\ o.charge_period = m.charge_period
    BY <1>2, <1>4, <1>8, ChargeSound DEF SameCharge
  <2> QED BY <1>2, <2>1, ChargedNotPending
<1> DEFINE x == collateral_balance(m, t, b)
           y == collateral_balance(n, t, b)
           z == collateral_balance(o, t, b)
           s == HeldSlack(m, t, b)
<1>10. /\ y = token_to_base(n.ctoken.balances[b], n.ctoken.multiplier)
       /\ z = token_to_base(o.ctoken.balances[b], n.ctoken.multiplier)
       /\ debt_balance(o, t, b) = debt_balance(n, t, b)
  BY <1>8, <1>9 DEF collateral_balance, debt_balance, BaseBalance, debt_of, SameCharge
<1>11. x \in Nat /\ s \in Nat  BY <1>1, QueriedNat
<1>12. y \in Nat /\ z \in Nat
  <2>1. n.ctoken.balances[b] \in Nat /\ n.ctoken.multiplier \in Nat
    BY <1>3, StoredNat DEF Sound
  <2>2. /\ token_to_base(n.ctoken.balances[b], n.ctoken.multiplier) \in Nat
        /\ token_to_base(o.ctoken.balances[b], n.ctoken.multiplier) \in Nat
    BY <1>7, <2>1, WorthNat
  <2> QED BY <1>10, <2>2
<1>13. x <= y + s + 0  BY <1>1 DEF Moved
<1>14. y <= z + v  BY <1>7, <1>10
<1>15. debt_balance(o, t, b) + w <= debt_balance(m, t, b) + OwedSlack(m, t, b) + 0
  BY <1>1, <1>10 DEF Moved
<1>16. x <= z + s + v
  <2> HIDE DEF x, y, z, s
  <2> QED BY <1>7, <1>11, <1>12, <1>13, <1>14
<1> QED BY <1>1, <1>7, <1>15, <1>16 DEF Moved

\* The queries about an account read only its tokens, its debt and what they
\* are worth.
LEMMA SameQueries ==
  ASSUME NEW m, NEW n, NEW t, NEW a \in Accounts,
         n.ctoken = m.ctoken, n.debt = m.debt, n.debt_multiplier = m.debt_multiplier,
         n.total_points = m.total_points, n.rates = m.rates,
         n.reserve_factor = m.reserve_factor, n.last_charged = m.last_charged,
         n.charge_period = m.charge_period
  PROVE  /\ QueryOK(n, t) <=> QueryOK(m, t)
         /\ collateral_balance(n, t, a) = collateral_balance(m, t, a)
         /\ debt_balance(n, t, a) = debt_balance(m, t, a)
         /\ HeldSlack(n, t, a) = HeldSlack(m, t, a)
         /\ OwedSlack(n, t, a) = OwedSlack(m, t, a)
<1>1. /\ epochs_passed(n, t) = epochs_passed(m, t) /\ supplied(n) = supplied(m)
      /\ total(n) = total(m) /\ pending(n, t) = pending(m, t)
  BY DEF epochs_passed, supplied, total, pending
<1>2. utilisation(n) = utilisation(m)
  BY <1>1 DEF utilisation
<1>3. ASSUME NEW e PROVE debt_ratio(n, e) = debt_ratio(m, e)
  BY <1>2 DEF debt_ratio
<1>4. ASSUME NEW e
      PROVE  /\ charged_interest(n, e) = charged_interest(m, e)
             /\ reserve(n, e) = reserve(m, e) /\ ctoken_ratio(n, e) = ctoken_ratio(m, e)
  BY <1>1, <1>3 DEF charged_interest, reserve, ctoken_ratio
<1>5. ASSUME NEW e PROVE InterestOK(n, e) <=> InterestOK(m, e)
  BY <1>1, <1>3, <1>4 DEF InterestOK
<1>6. QueryOK(n, t) <=> QueryOK(m, t)
  BY <1>1, <1>5 DEF QueryOK
<1>7. collateral_balance(n, t, a) = collateral_balance(m, t, a)
  BY <1>1, <1>4 DEF collateral_balance
<1>8. debt_balance(n, t, a) = debt_balance(m, t, a)
  <2>1. debt_of(n, a) = debt_of(m, a)  BY DEF debt_of
  <2> QED BY <1>1, <1>3, <2>1 DEF debt_balance
<1>9. DebtRatio(n, t) = DebtRatio(m, t) /\ TokenRatio(n, t) = TokenRatio(m, t)
  BY <1>1, <1>3, <1>4 DEF DebtRatio, TokenRatio
<1> QED BY <1>6, <1>7, <1>8, <1>9 DEF HeldSlack, OwedSlack

\* A repayment for which the market of the same token pays: nothing is sold.
LEMMA SameTokenMoves ==
  ASSUME NEW K, NEW m, NEW t \in Nat, Sound(K, m, t), Rated(m), Exact(m), NEW a \in Accounts,
         NEW amount \in Nat, amount <= m.cash,
         NEW o, o = withdraw_same_token(m, amount), RepayToOK(o, t, a, amount),
         NEW n, n = repay_to(o, t, a, amount), NEW b \in Accounts,
         NEW w, w = IF b = a THEN amount ELSE 0
  PROVE  /\ QueryOK(m, t) /\ w \in Nat /\ w <= debt_balance(m, t, b)
         /\ Moved(m, n, t, b, 0, 0, w)
<1>1. Sound(K, o, t)  BY PaySound DEF withdraw_same_token
<1>2. m \in StoredMarket(K)  BY DEF Sound
<1>3. /\ o.ctoken = m.ctoken /\ o.debt = m.debt /\ o.debt_multiplier = m.debt_multiplier
      /\ o.total_points = m.total_points /\ o.rates = m.rates
      /\ o.reserve_factor = m.reserve_factor /\ o.last_charged = m.last_charged
      /\ o.charge_period = m.charge_period
  BY <1>2 DEF withdraw_same_token, pay, StoredMarket
<1>4. Rated(o) /\ Exact(o)  BY <1>3 DEF Rated, Exact
<1>5. /\ QueryOK(o, t) /\ w \in Nat /\ w <= debt_balance(o, t, b)
      /\ Moved(o, n, t, b, 0, 0, w)
  BY <1>1, <1>4, RepayToMoves
<1>6. /\ QueryOK(o, t) <=> QueryOK(m, t)
      /\ collateral_balance(o, t, b) = collateral_balance(m, t, b)
      /\ debt_balance(o, t, b) = debt_balance(m, t, b)
      /\ HeldSlack(o, t, b) = HeldSlack(m, t, b)
      /\ OwedSlack(o, t, b) = OwedSlack(m, t, b)
  BY <1>3, SameQueries
<1> QED BY <1>5, <1>6 DEF Moved

\* What burning the C tokens that are worth an amount leaves of an account's.
LEMMA TokensSold ==
  ASSUME NEW t \in TokenState, NEW s \in Accounts, NEW value \in Nat,
         FromBaseOK(t, value), NEW k, k = FromBase(t, value), BurnOK(t, s, k),
         NEW n, n = burn_from(t, s, k), NEW b \in Accounts,
         NEW v, v = IF b = s THEN value ELSE 0
  PROVE  /\ n.balances[b] \in Nat /\ v \in Nat /\ n.multiplier = t.multiplier
         /\ n.total_supply # t.total_supply
         /\ token_to_base(t.balances[b], t.multiplier)
              <= token_to_base(n.balances[b], t.multiplier) + v
<1> DEFINE M == t.multiplier
           h == t.balances[b]
<1>1. k \in Nat /\ M \in Nat /\ M > 0 /\ h \in Nat
  BY FromBaseNat DEF FromBaseOK, TokenState
<1>2. k * M <= value * One
  <2>1. k = base_to_token(value, M) /\ M \in Nat \ {0}  BY <1>1 DEF FromBase
  <2> HIDE DEF M
  <2> QED BY <2>1, ConvertedWorth
<1>3. /\ b # s => n.balances[b] = h
      /\ b = s => n.balances[b] = h - k /\ k \in 1 .. h
      /\ n.balances[b] \in Nat /\ n.multiplier = M
      /\ n.total_supply = t.total_supply - k
  BY <1>1, TokensBurnt
<1>4. n.total_supply # t.total_supply
  <2>1. t.total_supply \in Nat  BY DEF TokenState
  <2>2. k > 0  BY DEF BurnOK
  <2> QED BY <1>1, <1>3, <2>1, <2>2
<1>5. v \in Nat  OBVIOUS
<1> HIDE DEF M, h
<1>6. token_to_base(h, M) <= token_to_base(n.balances[b], M) + v
  <2>1. CASE b = s
    <3>1. k <= h /\ v = value /\ n.balances[b] = h - k  BY <1>1, <1>3, <2>1
    <3> QED BY <1>1, <1>2, <3>1, TokensTaken
  <2>2. CASE b # s
    <3>1. token_to_base(h, M) \in Nat  BY <1>1, WorthNat
    <3> QED BY <1>3, <1>5, <2>2, <3>1
  <2> QED BY <2>1, <2>2
<1> QED BY <1>3, <1>4, <1>5, <1>6 DEF M, h

\* A swap, in a market whose interest is charged: it does not charge any.
LEMMA SwapMoves ==
  ASSUME NEW K, NEW m, NEW t \in Nat, Sound(K, m, t), Rated(m), NEW a \in Accounts,
         NEW estimate \in Nat, NEW limit \in Nat, SwapWithdrawOK(m, a, estimate, limit),
         NEW n, n = swap_withdraw_from(m, a, estimate, limit), epochs_passed(n, t) = 0,
         NEW b \in Accounts, NEW v, v = IF b = a THEN estimate ELSE 0
  PROVE  QueryOK(m, t) /\ v \in Nat /\ Moved(m, n, t, b, v, 0, 0)
<1> DEFINE k == FromBase(m.ctoken, estimate)
<1>1. m \in StoredMarket(K) /\ m.ctoken \in TokenState
  BY StoredNat DEF Sound
<1>2. FromBaseOK(m.ctoken, estimate) /\ BurnOK(m.ctoken, a, k)
  BY DEF SwapWithdrawOK, BurnBaseOK
<1>3. /\ n.ctoken = burn_from(m.ctoken, a, k) /\ n.debt = m.debt
      /\ n.debt_multiplier = m.debt_multiplier
      /\ n.last_charged = m.last_charged /\ n.charge_period = m.charge_period
  BY <1>1 DEF swap_withdraw_from, pay, StoredMarket
<1> HIDE DEF k
<1>4. /\ v \in Nat /\ n.ctoken.multiplier = m.ctoken.multiplier
      /\ token_to_base(m.ctoken.balances[b], m.ctoken.multiplier)
           <= token_to_base(n.ctoken.balances[b], m.ctoken.multiplier) + v
      /\ n.ctoken.balances[b] \in Nat
  BY <1>1, <1>2, <1>3, TokensSold DEF k
<1>5. ~ pending(m, t) /\ ~ pending(n, t)
  BY <1>3 DEF pending, epochs_passed
<1>6. QueryOK(m, t)  BY <1>5 DEF QueryOK
<1> DEFINE X == collateral_balance(m, t, b)
           Z == collateral_balance(n, t, b)
           Y == debt_balance(m, t, b)
<1>7. /\ X = token_to_base(m.ctoken.balances[b], m.ctoken.multiplier)
      /\ Z = token_to_base(n.ctoken.balances[b], m.ctoken.multiplier)
      /\ debt_balance(n, t, b) = Y
  BY <1>3, <1>4, <1>5 DEF collateral_balance, debt_balance, BaseBalance, debt_of
<1>8. X \in Nat /\ Y \in Nat /\ HeldSlack(m, t, b) \in Nat /\ OwedSlack(m, t, b) \in Nat
  BY <1>6, QueriedNat
<1>9. Z \in Nat
  <2>1. m.ctoken.multiplier \in Nat  BY <1>1 DEF TokenState
  <2> QED BY <1>4, <1>7, <2>1, WorthNat
<1>10. X <= Z + v  BY <1>4, <1>7
<1> HIDE DEF X, Y, Z
<1>11. X <= Z + HeldSlack(m, t, b) + v /\ Y + 0 <= Y + OwedSlack(m, t, b) + 0
  BY <1>4, <1>8, <1>9, <1>10
<1> QED BY <1>4, <1>6, <1>7, <1>11 DEF Moved, X, Y, Z

\* The worth of C tokens with the interest that is pending on them.
WorthWith(tokens, multiplier, ratio) ==
  token_to_base(tokens, multiplier) + MulInt(token_to_base(tokens, multiplier), ratio)

\* C tokens that are worth no more than as many base tokens: what is left of a
\* balance after k of them go.
LEMMA TokensBelow ==
  ASSUME NEW h \in Nat, NEW k \in Nat, k <= h, NEW M \in Nat, NEW r \in Nat,
         M * (One + r) <= One * One
  PROVE  /\ WorthWith(h, M, r) \in Nat /\ WorthWith(h - k, M, r) \in Nat
         /\ WorthWith(h, M, r) <= WorthWith(h - k, M, r) + Slack(h, r) + k
<1> DEFINE l == h - k
           X == MulInt(h, M)
           Z == MulInt(l, M)
           V == MulInt(k, M)
           W == MulInt(V, r)
           q == r \div One
<1>0. One \in Nat \ {0} /\ DecimalFractional = One  BY FractionAssumption DEF One
<1>1. l \in Nat /\ l + k = h  OBVIOUS
<1> HIDE DEF l
<1>2. Z \in Nat /\ V \in Nat /\ X \in Nat /\ X <= Z + V + 1
  <2>1. MulInt(l + k, M) \in Nat /\ MulInt(l + k, M) <= Z + V + 1 /\ Z \in Nat /\ V \in Nat
    BY <1>1, MulIntParts
  <2> QED BY <1>1, <2>1
<1> HIDE DEF X, Z
<1>3. W \in Nat /\ q \in Nat /\ V * One <= k * M /\ W * One <= V * r
  <2>1. k * M \in Nat  OBVIOUS
  <2>2. One * V <= k * M
    BY <1>0, <2>1, DivBounds DEF MulInt
  <2> HIDE DEF V
  <2>3. V * r \in Nat  BY <1>2
  <2>4. W \in Nat /\ One * W <= V * r
    BY <1>0, <2>3, DivBounds DEF MulInt
  <2>5. q \in Nat  BY <1>0, DivBounds
  <2> QED BY <1>0, <1>2, <2>2, <2>4, <2>5
<1>4. MulInt(1, r) = q
  BY <1>0 DEF MulInt
<1> HIDE DEF V, q
<1>5. /\ MulInt(Z, r) \in Nat /\ MulInt(X, r) \in Nat
      /\ MulInt(X, r) <= MulInt(Z, r) + W + q + 2
  <2>1. Z + V \in Nat /\ Z + V + 1 \in Nat /\ 1 \in Nat /\ r <= r  BY <1>2
  <2>2. MulInt(X, r) \in Nat /\ MulInt(X, r) <= MulInt(Z + V + 1, r)
    BY <1>2, <2>1, MulIntMonotone
  <2>3. MulInt(Z + V, r) \in Nat /\ MulInt(Z + V + 1, r) \in Nat
        /\ MulInt(Z + V + 1, r) <= MulInt(Z + V, r) + MulInt(1, r) + 1
    BY <2>1, MulIntParts
  <2>4. MulInt(Z, r) \in Nat /\ MulInt(Z + V, r) <= MulInt(Z, r) + W + 1
    BY <1>2, MulIntParts
  <2> QED BY <1>2, <1>3, <1>4, <2>2, <2>3, <2>4
<1> HIDE DEF W
<1>6. V + W <= k
  <2>1. (V + W) * One <= V * (One + r)
    <3>1. (V + W) * One = V * One + W * One /\ V * (One + r) = V * One + V * r
      BY <1>0, <1>2, <1>3
    <3>2. V * One \in Int /\ W * One \in Int /\ V * r \in Int  BY <1>0, <1>2, <1>3
    <3> QED BY <1>3, <3>1, <3>2
  <2>2. (V * (One + r)) * One <= (k * M) * (One + r)
    <3>1. V * One \in Int /\ k * M \in Int /\ One + r \in Nat  BY <1>0, <1>2
    <3>2. (V * One) * (One + r) <= (k * M) * (One + r)
      BY <1>3, <3>1, TimesMonotone
    <3>3. (V * (One + r)) * One = (V * One) * (One + r)
      BY <1>0, <1>2
    <3> QED BY <3>2, <3>3
  <2>3. (k * M) * (One + r) <= (k * One) * One
    <3>1. M * (One + r) \in Int /\ One * One \in Int  BY <1>0
    <3>2. k * (M * (One + r)) <= k * (One * One)
      BY <3>1, TimesMonotone
    <3>3. k * (M * (One + r)) = (k * M) * (One + r) /\ k * (One * One) = (k * One) * One
      BY <1>0
    <3> QED BY <3>2, <3>3
  <2>4. ((V + W) * One) * One <= (V * (One + r)) * One
    <3>1. (V + W) * One \in Int /\ V * (One + r) \in Int  BY <1>0, <1>2, <1>3
    <3> QED BY <1>0, <2>1, <3>1, TimesMonotone
  <2>5. ((V + W) * One) * One <= (k * One) * One
    <3> DEFINE a == ((V + W) * One) * One
               b == (V * (One + r)) * One
               c == (k * M) * (One + r)
               e == (k * One) * One
    <3>1. a \in Int /\ b \in Int /\ c \in Int /\ e \in Int  BY <1>0, <1>2, <1>3
    <3>2. a <= b /\ b <= c /\ c <= e  BY <2>2, <2>3, <2>4
    <3> HIDE DEF a, b, c, e
    <3>3. a <= e  BY <3>1, <3>2
    <3> QED BY <3>3 DEF a, e
  <2>6. One * (One * (V + W)) <= One * (One * k)
    <3>1. One * (One * (V + W)) = ((V + W) * One) * One /\ One * (One * k) = (k * One) * One
      BY <1>0, <1>2, <1>3
    <3> QED BY <2>5, <3>1
  <2>7. One * (V + W) \in Int /\ One * k \in Int /\ V + W \in Int  BY <1>0, <1>2, <1>3
  <2>8. One * (V + W) <= One * k  BY <1>0, <2>6, <2>7, CancelFactor
  <2> QED BY <1>0, <2>7, <2>8, CancelFactor
<1>7. h \div One \in Nat  BY <1>0, DivType
<1>8. Slack(h, r) = 3 + (h \div One) + q  BY DEF Slack, q
<1>9. /\ WorthWith(h, M, r) = X + MulInt(X, r) /\ WorthWith(h - k, M, r) = Z + MulInt(Z, r)
  BY DEF WorthWith, token_to_base, X, Z, l
<1> QED BY <1>2, <1>3, <1>5, <1>6, <1>7, <1>8, <1>9

\* More C tokens are worth more, with the interest that is pending.
LEMMA WorthWithMonotone ==
  ASSUME NEW x \in Nat, NEW y \in Nat, x <= y, NEW M \in Nat, NEW r \in Nat
  PROVE  /\ WorthWith(x, M, r) \in Nat /\ WorthWith(y, M, r) \in Nat
         /\ WorthWith(x, M, r) <= WorthWith(y, M, r)
<1> DEFINE X == token_to_base(x, M)
           Y == token_to_base(y, M)
<1>1. X \in Nat /\ Y \in Nat /\ X <= Y  BY WorthMonotone
<1> HIDE DEF X, Y
<1>2. MulInt(X, r) \in Nat /\ MulInt(Y, r) \in Nat /\ MulInt(X, r) <= MulInt(Y, r)
  <2>1. r <= r  OBVIOUS
  <2> QED BY <1>1, <2>1, MulIntMonotone
<1>3. WorthWith(x, M, r) = X + MulInt(X, r) /\ WorthWith(y, M, r) = Y + MulInt(Y, r)
  BY DEF WorthWith, X, Y
<1> QED BY <1>1, <1>2, <1>3

\* The answer about an account's C tokens.
LEMMA CollateralIs ==
  ASSUME NEW K, NEW m, NEW t \in Nat, Sound(K, m, t), NEW a \in Accounts,
         m.ctoken.balances[a] \in Nat
  PROVE  collateral_balance(m, t, a)
           = WorthWith(m.ctoken.balances[a], m.ctoken.multiplier, TokenRatio(m, t))
<1> DEFINE x == token_to_base(m.ctoken.balances[a], m.ctoken.multiplier)
<1>1. m.ctoken.multiplier \in Nat  BY StoredNat DEF Sound
<1>2. x \in Nat  BY <1>1, WorthNat
<1>3. CASE pending(m, t)
  BY <1>3 DEF collateral_balance, WorthWith, TokenRatio, BaseBalance
<1>4. CASE ~ pending(m, t)
  <2>1. collateral_balance(m, t, a) = x /\ TokenRatio(m, t) = 0
    BY <1>4 DEF collateral_balance, TokenRatio, BaseBalance
  <2> HIDE DEF x
  <2>2. MulInt(x, 0) = 0
    <3>1. x * 0 = 0  BY <1>2
    <3>2. 0 \div One = 0  BY FractionAssumption DEF One
    <3> QED BY <3>1, <3>2 DEF MulInt, One
  <2> QED BY <1>2, <2>1, <2>2 DEF WorthWith, x
<1> QED BY <1>3, <1>4

\* A transfer of C tokens, which charges no interest.  What the sender loses
\* is no more than as many base tokens if a C token is worth no more than one.
LEMMA TransferMoves ==
  ASSUME NEW K, NEW m, NEW t \in Nat, Sound(K, m, t), Rated(m), QueryOK(m, t),
         NEW a \in Accounts, NEW r \in Accounts, NEW k \in Nat, TransferOK(m.ctoken, a, r, k),
         NEW n, n = [m EXCEPT !.ctoken = transfer_tokens(@, a, r, k)],
         NEW b \in Accounts
  PROVE  /\ collateral_balance(m, t, b) \in Nat
         /\ Moved(m, n, t, b, collateral_balance(m, t, b), 0, 0)
         /\ b # a \/ a = r => Moved(m, n, t, b, 0, 0, 0)
         /\ m.ctoken.multiplier * (One + TokenRatio(m, t)) <= One * One
              => Moved(m, n, t, b, k, 0, 0)
<1> DEFINE M == m.ctoken.multiplier
           h == m.ctoken.balances[b]
           l == n.ctoken.balances[b]
           c == TokenRatio(m, t)
           X == collateral_balance(m, t, b)
           Z == collateral_balance(n, t, b)
           Y == debt_balance(m, t, b)
           s == HeldSlack(m, t, b)
           o == OwedSlack(m, t, b)
<1>1. m \in StoredMarket(K) /\ m.ctoken \in TokenState /\ M \in Nat /\ h \in Nat
  BY StoredNat DEF Sound
<1>2. n.ctoken = transfer_tokens(m.ctoken, a, r, k)
  BY <1>1 DEF StoredMarket
<1>3. /\ n.debt = m.debt /\ n.debt_multiplier = m.debt_multiplier
      /\ n.total_points = m.total_points /\ n.rates = m.rates
      /\ n.reserve_factor = m.reserve_factor /\ n.last_charged = m.last_charged
      /\ n.charge_period = m.charge_period
  BY <1>1 DEF StoredMarket
<1>4. /\ b # a => l >= h
      /\ a = r => l = h
      /\ b = a => l >= h - k /\ k <= h
      /\ l \in Nat /\ n.ctoken.multiplier = M
      /\ n.ctoken.total_supply = m.ctoken.total_supply
  BY <1>1, <1>2, TokensMoved
<1>5. /\ epochs_passed(n, t) = epochs_passed(m, t) /\ supplied(n) = supplied(m)
      /\ total(n) = total(m) /\ pending(n, t) = pending(m, t)
  BY <1>3, <1>4 DEF epochs_passed, supplied, total, pending
<1>6. ASSUME NEW e PROVE debt_ratio(n, e) = debt_ratio(m, e)
  BY <1>3, <1>5 DEF debt_ratio, utilisation
<1>7. ASSUME NEW e PROVE ctoken_ratio(n, e) = ctoken_ratio(m, e)
  BY <1>3, <1>5, <1>6 DEF charged_interest, reserve, ctoken_ratio
<1>8. TokenRatio(n, t) = c
  BY <1>5, <1>7 DEF TokenRatio
<1>9. debt_balance(n, t, b) = Y
  BY <1>3, <1>5, <1>6 DEF debt_balance, debt_of
<1>10. X \in Nat /\ Y \in Nat /\ c \in Nat /\ s \in Nat /\ o \in Nat
  BY QueriedNat
<1>11. X = WorthWith(h, M, c)
  BY <1>1, CollateralIs
<1>12. Z = WorthWith(l, M, c)
  <2>1. collateral_balance(n, t, b)
          = IF pending(m, t)
            THEN BaseBalance(n.ctoken, b)
                   + MulInt(BaseBalance(n.ctoken, b), ctoken_ratio(m, epochs_passed(m, t)))
            ELSE BaseBalance(n.ctoken, b)
    BY <1>5, <1>7 DEF collateral_balance
  <2> DEFINE z == token_to_base(l, M)
  <2>2. BaseBalance(n.ctoken, b) = z  BY <1>4 DEF BaseBalance
  <2>3. z \in Nat  BY <1>1, <1>4, WorthNat
  <2>4. WorthWith(l, M, c) = z + MulInt(z, c)  BY DEF WorthWith
  <2> HIDE DEF z
  <2>5. CASE pending(m, t)
    BY <2>1, <2>2, <2>4, <2>5 DEF TokenRatio
  <2>6. CASE ~ pending(m, t)
    <3>1. c = 0  BY <2>6 DEF TokenRatio
    <3>2. MulInt(z, 0) = 0
      <4>1. z * 0 = 0  BY <2>3
      <4>2. 0 \div One = 0  BY FractionAssumption DEF One
      <4> QED BY <4>1, <4>2 DEF MulInt, One
    <3> QED BY <2>1, <2>2, <2>3, <2>4, <2>6, <3>1, <3>2
  <2> QED BY <2>5, <2>6
<1>13. Z \in Nat /\ (h <= l => X <= Z)
  <2> HIDE DEF M, h, l, c, X, Z
  <2>1. WorthWith(l, M, c) \in Nat /\ (h <= l => WorthWith(h, M, c) <= WorthWith(l, M, c))
    <3>1. l <= l  BY <1>4
    <3> QED BY <1>1, <1>4, <1>10, <3>1, WorthWithMonotone
  <2> QED BY <1>11, <1>12, <2>1
<1>14. Y + 0 <= Y + o + 0  BY <1>10
<1>15. X <= Z + s + X  BY <1>10, <1>13
<1>16. Moved(m, n, t, b, X, 0, 0)  BY <1>9, <1>14, <1>15 DEF Moved
<1>17. ASSUME b # a \/ a = r PROVE Moved(m, n, t, b, 0, 0, 0)
  <2>1. h <= l  BY <1>1, <1>4, <1>17
  <2>2. X <= Z + s + 0  BY <1>10, <1>13, <2>1
  <2> QED BY <1>9, <1>14, <2>2 DEF Moved
<1>18. ASSUME M * (One + c) <= One * One PROVE Moved(m, n, t, b, k, 0, 0)
  <2>1. X <= Z + s + k
    <3>1. CASE b # a
      <4>1. h <= l  BY <1>1, <1>4, <3>1
      <4> QED BY <1>10, <1>13, <4>1
    <3>2. CASE b = a
      <4>1. k <= h /\ l >= h - k /\ h - k \in Nat  BY <1>1, <1>4, <3>2
      <4>2. s = Slack(h, c)  BY DEF HeldSlack
      <4> HIDE DEF M, h, l, c, X, Z, s
      <4>3. /\ WorthWith(h - k, M, c) \in Nat
            /\ WorthWith(h, M, c) <= WorthWith(h - k, M, c) + Slack(h, c) + k
        BY <1>1, <1>10, <1>18, <4>1, TokensBelow
      <4>4. WorthWith(h - k, M, c) <= WorthWith(l, M, c)
        BY <1>1, <1>4, <1>10, <4>1, WorthWithMonotone
      <4> QED BY <1>10, <1>11, <1>12, <1>13, <4>2, <4>3, <4>4
    <3> QED BY <3>1, <3>2
  <2> QED BY <1>9, <1>14, <2>1 DEF Moved
<1> QED BY <1>10, <1>16, <1>17, <1>18

-----------------------------------------------------------------------------
(***************************************************************************)
(* What the markets and the agency check, as bounds on common tokens.      *)
(***************************************************************************)
\* An upper bound of a value.
LEMMA ValueWithin ==
  ASSUME NEW amount \in Nat, NEW price \in Nat, NEW A \in Nat, amount * price <= A * One
  PROVE  MulInt(amount, price) \in Nat /\ MulInt(amount, price) <= A
<1> DEFINE V == MulInt(amount, price)
<1>0. One \in Nat \ {0} /\ DecimalFractional = One  BY FractionAssumption DEF One
<1>1. amount * price \in Nat  OBVIOUS
<1>2. V \in Nat /\ One * V <= amount * price
  BY <1>0, <1>1, DivBounds DEF MulInt
<1> HIDE DEF V
<1>3. One * V <= One * A  BY <1>0, <1>1, <1>2
<1>4. V <= A  BY <1>0, <1>2, <1>3, CancelFactor
<1> QED BY <1>2, <1>4 DEF V

\* What a credit line is, but for its roundings, which are down.
LEMMA LineBounds ==
  ASSUME NEW amount \in Nat, NEW price \in Nat, NEW ratio \in Nat
  PROVE  /\ Line(amount, price, ratio) \in Nat
         /\ (One * One) * Line(amount, price, ratio) <= (amount * price) * ratio
<1> DEFINE V == MulInt(amount, price)
           L == MulInt(V, ratio)
<1>0. One \in Nat \ {0} /\ DecimalFractional = One  BY FractionAssumption DEF One
<1>1. amount * price \in Nat  OBVIOUS
<1>2. V \in Nat /\ One * V <= amount * price
  BY <1>0, <1>1, DivBounds DEF MulInt
<1> HIDE DEF V
<1>3. V * ratio \in Nat  BY <1>2
<1>4. L \in Nat /\ One * L <= V * ratio
  BY <1>0, <1>3, DivBounds DEF MulInt
<1> HIDE DEF L
<1>5. One * (One * L) <= One * (V * ratio)
  <2>1. One * L \in Int  BY <1>0, <1>4
  <2> QED BY <1>0, <1>3, <1>4, <2>1, TimesMonotone
<1>6. (One * V) * ratio <= (amount * price) * ratio
  <2>1. One * V \in Int  BY <1>0, <1>2
  <2> QED BY <1>1, <1>2, <2>1, TimesMonotone
<1>7. One * (One * L) = (One * One) * L /\ One * (V * ratio) = (One * V) * ratio
  BY <1>0, <1>2, <1>4
<1>8. (One * One) * L \in Int /\ (One * V) * ratio \in Int /\ (amount * price) * ratio \in Int
  BY <1>0, <1>2, <1>4
<1>9. (One * One) * L <= (amount * price) * ratio
  <2> DEFINE x == (One * One) * L
             y == (One * V) * ratio
             z == (amount * price) * ratio
  <2>1. x <= y /\ y <= z  BY <1>5, <1>6, <1>7
  <2> HIDE DEF x, y, z
  <2>2. x <= z  BY <1>8, <2>1 DEF x, y, z
  <2> QED BY <2>2 DEF x, z
<1>10. Line(amount, price, ratio) = L  BY DEF Line, L, V
<1> QED BY <1>4, <1>9, <1>10

\* An upper bound of a credit line.
LEMMA LineWithin ==
  ASSUME NEW amount \in Nat, NEW price \in Nat, NEW ratio \in Nat, NEW A \in Nat,
         (amount * price) * ratio <= (One * One) * A
  PROVE  Line(amount, price, ratio) <= A
<1> DEFINE L == Line(amount, price, ratio)
           f == One * One
           x == (amount * price) * ratio
<1>0. One \in Nat \ {0}  BY FractionAssumption DEF One
<1>1. L \in Nat /\ f * L <= x /\ x <= f * A  BY LineBounds
<1>2. f \in Nat \ {0}
  <2>1. One * One >= One  BY <1>0
  <2> QED BY <1>0, <2>1
<1>3. x \in Int  OBVIOUS
<1> HIDE DEF L, f, x
<1>4. f * L <= f * A
  <2>1. f * L \in Int /\ f * A \in Int  BY <1>1, <1>2
  <2> QED BY <1>1, <1>3, <2>1
<1>5. L <= A  BY <1>1, <1>2, <1>4, CancelFactor
<1> QED BY <1>5 DEF L

\* The market's own division rounds down.
LEMMA Divided ==
  ASSUME NEW top \in Nat, NEW bottom \in Nat, bottom > 0
  PROVE  divide(top, bottom) \in Nat /\ divide(top, bottom) * bottom <= top * One
<1>0. One \in Nat \ {0}  BY FractionAssumption DEF One
<1>1. top * One \in Nat  BY <1>0
<1> DEFINE q == divide(top, bottom)
<1>2. q \in Nat /\ bottom * q <= top * One
  <2>1. bottom \in Nat \ {0}  OBVIOUS
  <2> QED BY <1>1, <2>1, DivBounds DEF divide
<1> HIDE DEF q
<1>3. q * bottom = bottom * q  BY <1>2
<1> QED BY <1>2, <1>3 DEF q

\* The credit that is left.
LEMMA AvailableIs ==
  ASSUME NEW credit, credit.borrow_limit \in Nat, credit.debt \in Nat
  PROVE  /\ available(credit) \in Nat
         /\ available(credit) = 0 \/ available(credit) = credit.borrow_limit - credit.debt
BY DEF available

\* A loan that the market grants is within the credit that is left.
LEMMA LoanWithin ==
  ASSUME NEW credit, credit.borrow_limit \in Nat, credit.debt \in Nat,
         NEW price \in Nat, NEW amount \in Nat, CanBorrow(credit, price, amount)
  PROVE  MulInt(amount, price) \in Nat /\ MulInt(amount, price) <= available(credit)
<1> DEFINE A == available(credit)
           B == borrowable_tokens(credit, price)
<1>0. One \in Nat \ {0}  BY FractionAssumption DEF One
<1>1. A \in Nat  BY AvailableIs
<1>2. price > 0 /\ amount <= B
  BY DEF CanBorrow, BorrowableOK, DivideOK
<1>3. B = divide(A, price)  BY DEF borrowable_tokens
<1> HIDE DEF A, B
<1>4. B \in Nat /\ B * price <= A * One  BY <1>1, <1>2, <1>3, Divided
<1>5. amount * price <= B * price  BY <1>2, <1>4, TimesMonotone
<1>6. amount * price \in Int /\ B * price \in Int /\ A * One \in Int  BY <1>0, <1>1, <1>4
<1>7. amount * price <= A * One  BY <1>4, <1>5, <1>6
<1> QED BY <1>1, <1>7, ValueWithin DEF A

\* What the market lets out of the collateral of an account with a debt is
\* within the credit that is left.
LEMMA ReleaseWithin ==
  ASSUME NEW m, NEW a, NEW credit, credit.borrow_limit \in Nat, credit.debt \in Nat,
         credit.debt # 0, NEW price \in Nat, m.collateral_ratio \in Nat, NEW amount \in Nat,
         CanTransfer(m, a, credit, price, amount)
  PROVE  /\ Line(amount, price, m.collateral_ratio) <= available(credit)
         /\ available(credit) = 0 => amount = 0
<1> DEFINE A == available(credit)
           B == borrowable_tokens(credit, price)
           ratio == m.collateral_ratio
           C == divide(B, ratio)
<1>0. One \in Nat \ {0}  BY FractionAssumption DEF One
<1>1. A \in Nat  BY AvailableIs
<1>2. price > 0 /\ ratio > 0 /\ amount <= C
  BY DEF CanTransfer, TransferableOK, BorrowableOK, DivideOK, transferable_amount
<1>3. B = divide(A, price) /\ C = divide(B, ratio)  BY DEF borrowable_tokens
<1>a. ratio \in Nat  OBVIOUS
<1> HIDE DEF A, B, C, ratio
<1>4. B \in Nat /\ B * price <= A * One  BY <1>1, <1>2, <1>3, Divided
<1>5. C \in Nat /\ C * ratio <= B * One  BY <1>a, <1>2, <1>3, <1>4, Divided
<1>6. (amount * ratio) * price <= (B * One) * price
  <2>1. amount * ratio <= C * ratio  BY <1>a, <1>2, <1>5, TimesMonotone
  <2>2. amount * ratio \in Int /\ C * ratio \in Int /\ B * One \in Int  BY <1>0, <1>a, <1>4, <1>5
  <2>3. amount * ratio <= B * One  BY <1>5, <2>1, <2>2
  <2> QED BY <2>2, <2>3, TimesMonotone
<1>7. (B * price) * One <= (A * One) * One
  <2>1. B * price \in Int /\ A * One \in Int  BY <1>0, <1>1, <1>4
  <2> QED BY <1>0, <1>4, <2>1, TimesMonotone
<1>8. /\ (amount * ratio) * price = (amount * price) * ratio
      /\ (B * One) * price = (B * price) * One
      /\ (A * One) * One = (One * One) * A
  BY <1>0, <1>a, <1>1, <1>4
<1>9. (amount * price) * ratio <= (One * One) * A
  <2> DEFINE x == (amount * price) * ratio
             y == (B * price) * One
             z == (One * One) * A
  <2>1. x <= y /\ y <= z  BY <1>6, <1>7, <1>8
  <2>2. x \in Int /\ y \in Int /\ z \in Int  BY <1>0, <1>a, <1>1, <1>4
  <2> HIDE DEF x, y, z
  <2>3. x <= z  BY <2>1, <2>2
  <2> QED BY <2>3 DEF x, z
<1>10. Line(amount, price, ratio) <= A
  BY <1>a, <1>1, <1>9, LineWithin
<1>11. ASSUME A = 0 PROVE amount = 0
  <2>1. B = 0
    <3>1. (0 * One) \div price = 0  BY <1>0, <1>2
    <3> QED BY <1>3, <1>11, <3>1 DEF divide
  <2>2. C = 0
    <3>1. (0 * One) \div ratio = 0  BY <1>0, <1>a, <1>2
    <3> QED BY <1>3, <2>1, <3>1 DEF divide
  <2> QED BY <1>2, <2>2
<1> QED BY <1>10, <1>11 DEF A, ratio

\* What a liquidator takes is within the value that it repays, if its discount
\* leaves the collateral worth more than it counts for.
LEMMA SeizedWithin ==
  ASSUME NEW value \in Nat, NEW price \in Nat, NEW discount \in Nat, NEW ratio \in Nat,
         DivideOK(value, MulDec(price, discount)),
         price * ratio <= MulDec(price, discount) * One
  PROVE  /\ RepaidValue(value, price, discount) \in Nat
         /\ Line(RepaidValue(value, price, discount), price, ratio) <= value
<1> DEFINE D == MulDec(price, discount)
           V == RepaidValue(value, price, discount)
<1>0. One \in Nat \ {0}  BY FractionAssumption DEF One
<1>1. D \in Nat /\ D > 0
  <2>1. D \in Nat  BY MulDecNat
  <2> QED BY <2>1 DEF DivideOK
<1>2. V = divide(value, D) /\ price * ratio <= D * One  BY DEF RepaidValue
<1> HIDE DEF D, V
<1>3. V \in Nat /\ V * D <= value * One  BY <1>1, <1>2, Divided
<1>4. V * (price * ratio) <= V * (D * One)
  <2>1. price * ratio \in Int /\ D * One \in Int  BY <1>0, <1>1
  <2> QED BY <1>2, <1>3, <2>1, TimesMonotone
<1>5. (V * D) * One <= (value * One) * One
  <2>1. V * D \in Int /\ value * One \in Int  BY <1>0, <1>1, <1>3
  <2> QED BY <1>0, <1>3, <2>1, TimesMonotone
<1>6. /\ V * (price * ratio) = (V * price) * ratio /\ V * (D * One) = (V * D) * One
      /\ (value * One) * One = (One * One) * value
  BY <1>0, <1>1, <1>3
<1>7. (V * price) * ratio <= (One * One) * value
  <2> DEFINE x == (V * price) * ratio
             y == (V * D) * One
             z == (One * One) * value
  <2>1. x <= y /\ y <= z  BY <1>4, <1>5, <1>6
  <2>2. x \in Int /\ y \in Int /\ z \in Int  BY <1>0, <1>1, <1>3
  <2> HIDE DEF x, y, z
  <2>3. x <= z  BY <2>1, <2>2
  <2> QED BY <2>3 DEF x, z
<1>8. Line(V, price, ratio) <= value  BY <1>3, <1>7, LineWithin
<1> QED BY <1>3, <1>8 DEF V

\* Nothing is worth nothing.
LEMMA NothingIs ==
  ASSUME NEW price \in Nat, NEW ratio \in Nat
  PROVE  MulInt(0, price) = 0 /\ Line(0, price, ratio) = 0
<1>1. 0 * price = 0 /\ 0 * ratio = 0  OBVIOUS
<1>2. 0 \div One = 0  BY FractionAssumption DEF One
<1>3. MulInt(0, price) = 0 /\ MulInt(0, ratio) = 0
  BY <1>1, <1>2 DEF MulInt, One
<1> QED BY <1>3 DEF Line

-----------------------------------------------------------------------------
(***************************************************************************)
(* From the markets to the account: its health falls by what its markets   *)
(* lose.                                                                   *)
(***************************************************************************)
\* What the roundings can take from an account in all markets together.
HealthRoundings(p, t, a) == SumFunction(RoundingsOf(p, t, a))

\* From p to q an account's health falls by no more than loss, but for
\* roundings.
Falls(p, q, t, a, loss) == Health(q, t, a) >= Health(p, t, a) - HealthRoundings(p, t, a) - loss

\* What a market of d is worth to an account is all it needs to fall by.
WorthFalls(p, q, t, a, d, loss) ==
  Worth(q, t, a)[d] >= Worth(p, t, a)[d] - RoundingsOf(p, t, a)[d] - loss

\* Health falls as the worth of two markets does.
LEMMA HealthFalls ==
  ASSUME NEW p, NEW q, NEW t \in Nat, PlatformSound(p, t), Lent(p), PlatformSound(q, t),
         Lent(q), NEW a \in Accounts, TotalCreditLineOK(p, t, a), TotalCreditLineOK(q, t, a),
         NEW c \in Denoms, NEW d \in Denoms, NEW i \in Int, NEW j \in Int,
         \A k \in Denoms \ {c, d} : Worth(q, t, a)[k] >= Worth(p, t, a)[k],
         \A k \in {c, d} : WorthFalls(p, q, t, a, k, At(Denoms, c, i, d, j)[k])
  PROVE  Falls(p, q, t, a, i + j) /\ HealthRoundings(p, t, a) \in Nat
         /\ Health(p, t, a) \in Int /\ Health(q, t, a) \in Int
<1> DEFINE f == Worth(p, t, a)
           g == Worth(q, t, a)
           r == RoundingsOf(p, t, a)
           l == At(Denoms, c, i, d, j)
<1>1. /\ f \in [Denoms -> Int] /\ Health(p, t, a) = SumFunction(f) /\ Health(p, t, a) \in Int
      /\ g \in [Denoms -> Int] /\ Health(q, t, a) = SumFunction(g) /\ Health(q, t, a) \in Int
  BY HealthIs
<1>2. /\ r \in [Denoms -> Int] /\ \A k \in Denoms : r[k] >= 0
      /\ SumFunction(r) \in Nat
  BY RoundingsNat
<1>3. IsFiniteSet(Denoms)  BY PlatformAssumption
<1>4. l \in [Denoms -> Int] /\ SumFunction(l) = i + j
  BY <1>3, SumAt
<1>5. \A k \in Denoms \ {c, d} : l[k] = 0
  BY DEF At
<1>6. \A k \in {c, d} : g[k] >= f[k] - r[k] - l[k]
  BY DEF WorthFalls
<1> HIDE DEF f, g, r, l
<1>7. ASSUME NEW k \in Denoms PROVE g[k] >= f[k] - r[k] - l[k]
  <2>1. g[k] \in Int /\ f[k] \in Int /\ r[k] \in Int /\ r[k] >= 0 /\ l[k] \in Int
    BY <1>1, <1>2, <1>4
  <2>2. CASE k \in {c, d}  BY <1>6, <2>2
  <2>3. CASE k \notin {c, d}
    <3>1. g[k] >= f[k] /\ l[k] = 0  BY <1>5, <2>3 DEF f, g
    <3> QED BY <2>1, <3>1
  <2> QED BY <2>2, <2>3
<1>8. SumFunction(g) >= SumFunction(f) - SumFunction(r) - SumFunction(l)
  BY <1>1, <1>2, <1>3, <1>4, <1>7, SumLoses
<1> QED BY <1>1, <1>2, <1>4, <1>8 DEF Falls, HealthRoundings, r

\* A market that stays as it is, at the same price, is worth the same.
LEMMA WorthSame ==
  ASSUME NEW p, NEW q, NEW t \in Nat, PlatformSound(p, t), Lent(p), NEW a \in Accounts,
         NEW k \in Denoms, k \in q.entered[a] <=> k \in p.entered[a],
         k \in p.entered[a] =>
            /\ q.markets[k] = p.markets[k] /\ PriceOf(q, k) = PriceOf(p, k)
  PROVE  Worth(q, t, a)[k] = Worth(p, t, a)[k]
BY DEF Worth, WorthIn, Claim, Owed

\* What SameValues and CreditKnown say of an account, and that the platform is
\* sound, of any two states of it.
Observed(p, q, t, a) ==
    /\ PlatformSound(p, t) /\ Lent(p) /\ TotalCreditLineOK(p, t, a)
    /\ PlatformSound(q, t) /\ Lent(q) /\ TotalCreditLineOK(q, t, a)
    /\ \A d \in p.entered[a] : PriceOf(q, d) = PriceOf(p, d)
    /\ \A d \in p.entered[a] \cup q.entered[a] :
          /\ q.markets[d].collateral_ratio = p.markets[d].collateral_ratio
          /\ q.markets[d].ctoken.total_supply # p.markets[d].ctoken.total_supply
               => epochs_passed(q.markets[d], t) = 0

\* The prices are what they were.
SamePrices(p, q) ==
    q.oracles = p.oracles /\ q.price_oracle = p.price_oracle /\ q.common_token = p.common_token

\* What an account loses in the market of d that its collateral falls by v in
\* and its debt grows by u and falls by w.
Loss(p, d, v, u, w) ==
    Line(v, PriceOf(p, d), p.markets[d].collateral_ratio)
      + MulInt(u, PriceOf(p, d)) - MulInt(w, PriceOf(p, d))

\* Prices are read from the oracles in the common token.
LEMMA PricesKept ==
  ASSUME NEW p, NEW q, NEW t, PlatformSound(p, t), PlatformSound(q, t), SamePrices(p, q),
         NEW d, d \in listed(p), d \in listed(q)
  PROVE  PriceOf(q, d) = PriceOf(p, d)
<1>1. /\ p.markets[d].common_token = p.common_token
      /\ q.markets[d].common_token = q.common_token
  BY DEF PlatformSound, Sound, StoredMarket, Configs, InstantiateMsg
<1>2. IsCommon(q, d) <=> IsCommon(p, d)
  BY <1>1 DEF IsCommon, SamePrices
<1>3. oracle_of(q, d) = oracle_of(p, d)
  BY DEF oracle_of, SamePrices
<1>4. PriceOK(q, d) <=> PriceOK(p, d)
  BY <1>1, <1>2, <1>3 DEF PriceOK, SamePrices
<1>5. Price(q, d) = Price(p, d)
  BY <1>1, <1>2, <1>3 DEF Price, price_market_local_per_common, SamePrices
<1> QED BY <1>4, <1>5 DEF PriceOf

\* What an account that is in the market of d can lose there.
LEMMA LossNat ==
  ASSUME NEW p, NEW t \in Nat, PlatformSound(p, t), Lent(p), NEW d \in listed(p),
         NEW v \in Nat, NEW u \in Nat, NEW w \in Nat
  PROVE  /\ PriceOf(p, d) \in Nat /\ p.markets[d].collateral_ratio \in Nat
         /\ Line(v, PriceOf(p, d), p.markets[d].collateral_ratio) \in Nat
         /\ MulInt(u, PriceOf(p, d)) \in Nat /\ MulInt(w, PriceOf(p, d)) \in Nat
         /\ Loss(p, d, v, u, w) \in Int
<1> DEFINE price == PriceOf(p, d)
           ratio == p.markets[d].collateral_ratio
<1>1. price \in Nat  BY PriceIs, PlatformAssumption DEF PriceOf
<1>2. ratio \in Nat
  <2>1. p.markets[d] \in MarketState  BY ListedRated
  <2>2. ratio \in CollateralRatios
    BY <2>1 DEF MarketState, Configs, InstantiateMsg, StoredMarket
  <2> QED BY <2>2, PlatformAssumption
<1>3. Loss(p, d, v, u, w) = Line(v, price, ratio) + MulInt(u, price) - MulInt(w, price)
  BY DEF Loss
<1> HIDE DEF price, ratio
<1>4. Line(v, price, ratio) \in Nat  BY <1>1, <1>2, LineBounds
<1>5. MulInt(u, price) \in Nat /\ MulInt(w, price) \in Nat  BY <1>1, Fraction
<1>6. Loss(p, d, v, u, w) \in Int  BY <1>3, <1>4, <1>5
<1> QED BY <1>1, <1>2, <1>4, <1>5, <1>6 DEF price, ratio

\* WorthMoves, for an account that is observed.
LEMMA MarketFalls ==
  ASSUME NEW p, NEW q, NEW t \in Nat, NEW a \in Accounts, Observed(p, q, t, a),
         NEW d \in listed(p), d \in listed(q), d \in p.entered[a] => d \in q.entered[a],
         d \in q.entered[a] => PriceOf(q, d) = PriceOf(p, d),
         QueryOK(p.markets[d], t), NEW v \in Nat, NEW u \in Nat, NEW w \in Nat,
         w <= debt_balance(p.markets[d], t, a),
         Moved(p.markets[d], q.markets[d], t, a, v, u, w)
  PROVE  /\ Loss(p, d, v, u, w) \in Int
         /\ WorthFalls(p, q, t, a, d, Loss(p, d, v, u, w))
<1>1. /\ PlatformSound(p, t) /\ Lent(p) /\ PlatformSound(q, t) /\ Lent(q)
  BY DEF Observed
<1>2. d \in q.entered[a] =>
         /\ QueryOK(q.markets[d], t) /\ PriceOf(q, d) = PriceOf(p, d)
         /\ q.markets[d].collateral_ratio = p.markets[d].collateral_ratio
  BY DEF Observed, TotalCreditLineOK, CreditLineOK, MarketLineOK
<1>3. Worth(q, t, a)[d]
        >= Worth(p, t, a)[d] - RoundingsOf(p, t, a)[d]
             - (Line(v, PriceOf(p, d), p.markets[d].collateral_ratio)
                  + MulInt(u, PriceOf(p, d)) - MulInt(w, PriceOf(p, d)))
  BY <1>1, <1>2, WorthMoves
<1>4. Loss(p, d, v, u, w) \in Int
  BY <1>1, LossNat
<1> QED BY <1>3, <1>4 DEF WorthFalls, Loss

\* An account that is in a market neither before nor after loses nothing there.
LEMMA OutsideFalls ==
  ASSUME NEW p, NEW q, NEW t \in Nat, NEW a \in Accounts, Observed(p, q, t, a),
         NEW d \in Denoms, d \notin p.entered[a], d \notin q.entered[a]
  PROVE  WorthFalls(p, q, t, a, d, 0)
<1>1. Worth(p, t, a)[d] = 0 /\ Worth(q, t, a)[d] = 0
  BY DEF Worth, WorthIn
<1>2. RoundingsOf(p, t, a) \in [Denoms -> Int] /\ RoundingsOf(p, t, a)[d] >= 0
  BY RoundingsNat DEF Observed
<1>3. RoundingsOf(p, t, a)[d] \in Int  BY <1>2
<1> QED BY <1>1, <1>2, <1>3 DEF WorthFalls

\* A transaction in one market.
LEMMA OneMarketFalls ==
  ASSUME NEW p, NEW q, NEW t \in Nat, NEW a \in Accounts, Observed(p, q, t, a),
         NEW d \in listed(p), NEW n, q.markets = [p.markets EXCEPT ![d] = n],
         p.entered[a] \subseteq q.entered[a], q.entered[a] \subseteq p.entered[a] \cup {d},
         NEW loss \in Int, WorthFalls(p, q, t, a, d, loss)
  PROVE  /\ Falls(p, q, t, a, loss) /\ HealthRoundings(p, t, a) \in Nat
         /\ Health(p, t, a) \in Int /\ Health(q, t, a) \in Int
<1>1. /\ PlatformSound(p, t) /\ Lent(p) /\ PlatformSound(q, t) /\ Lent(q)
      /\ TotalCreditLineOK(p, t, a) /\ TotalCreditLineOK(q, t, a)
  BY DEF Observed
<1>2. d \in Denoms
  BY <1>1 DEF PlatformSound, PlatformState, Partial, listed
<1>3. ASSUME NEW k \in Denoms \ {d, d} PROVE Worth(q, t, a)[k] >= Worth(p, t, a)[k]
  <2>1. k \in Denoms /\ (k \in q.entered[a] <=> k \in p.entered[a])  OBVIOUS
  <2>2. k \in p.entered[a] => q.markets[k] = p.markets[k] /\ PriceOf(q, k) = PriceOf(p, k)
    BY <1>1 DEF Observed, PlatformSound, listed
  <2>3. Worth(q, t, a)[k] = Worth(p, t, a)[k]
    BY <2>1, <2>2 DEF Worth, WorthIn, Claim, Owed
  <2>4. Worth(p, t, a) \in [Denoms -> Int]  BY <1>1, HealthIs
  <2>5. Worth(p, t, a)[k] \in Int  BY <2>4
  <2> QED BY <2>3, <2>5
<1>4. At(Denoms, d, loss, d, 0)[d] = loss  BY <1>2 DEF At
<1>5. \A k \in {d, d} : WorthFalls(p, q, t, a, k, At(Denoms, d, loss, d, 0)[k])
  BY <1>4
<1>6. 0 \in Int /\ loss + 0 = loss  OBVIOUS
<1>7. /\ Falls(p, q, t, a, loss + 0) /\ HealthRoundings(p, t, a) \in Nat
      /\ Health(p, t, a) \in Int /\ Health(q, t, a) \in Int
  BY <1>1, <1>2, <1>3, <1>5, <1>6, HealthFalls
<1> QED BY <1>6, <1>7

\* A transaction in two markets.
LEMMA TwoMarketsFall ==
  ASSUME NEW p, NEW q, NEW t \in Nat, NEW a \in Accounts, Observed(p, q, t, a),
         NEW c \in listed(p), NEW d \in listed(p), c # d,
         \A k \in listed(p) \ {c, d} :
            /\ q.markets[k] = p.markets[k]
            /\ k \in q.entered[a] <=> k \in p.entered[a],
         listed(q) = listed(p),
         NEW i \in Int, NEW j \in Int, WorthFalls(p, q, t, a, c, i),
         WorthFalls(p, q, t, a, d, j)
  PROVE  /\ Falls(p, q, t, a, i + j) /\ HealthRoundings(p, t, a) \in Nat
         /\ Health(p, t, a) \in Int /\ Health(q, t, a) \in Int
<1>1. /\ PlatformSound(p, t) /\ Lent(p) /\ PlatformSound(q, t) /\ Lent(q)
      /\ TotalCreditLineOK(p, t, a) /\ TotalCreditLineOK(q, t, a)
  BY DEF Observed
<1>2. c \in Denoms /\ d \in Denoms
  BY <1>1 DEF PlatformSound, PlatformState, Partial, listed
<1>3. ASSUME NEW k \in Denoms \ {c, d} PROVE Worth(q, t, a)[k] >= Worth(p, t, a)[k]
  <2>1. k \in q.entered[a] <=> k \in p.entered[a]
    BY <1>1 DEF PlatformSound
  <2>2. k \in p.entered[a] => q.markets[k] = p.markets[k] /\ PriceOf(q, k) = PriceOf(p, k)
    BY <1>1 DEF Observed, PlatformSound
  <2>3. Worth(q, t, a)[k] = Worth(p, t, a)[k]  BY <1>1, <2>1, <2>2, WorthSame
  <2>4. Worth(p, t, a) \in [Denoms -> Int]  BY <1>1, HealthIs
  <2>5. Worth(p, t, a)[k] \in Int  BY <2>4
  <2> QED BY <2>3, <2>5
<1>4. At(Denoms, c, i, d, j)[c] = i /\ At(Denoms, c, i, d, j)[d] = j
  BY <1>2 DEF At
<1>5. \A k \in {c, d} : WorthFalls(p, q, t, a, k, At(Denoms, c, i, d, j)[k])
  BY <1>4
<1> QED BY <1>1, <1>2, <1>3, <1>5, HealthFalls

\* From p to q another storage of one market, which b may enter.
Changed(p, q, d, n, b) ==
    q \in {[p EXCEPT !.markets[d] = n], enter_market([p EXCEPT !.markets[d] = n], d, b)}

\* What that changes: one market, and that b may be in it.
LEMMA ChangedFields ==
  ASSUME NEW p, NEW t, PlatformSound(p, t), NEW d \in listed(p), NEW n, NEW b \in Accounts,
         NEW q, Changed(p, q, d, n, b), NEW a \in Accounts
  PROVE  /\ q.markets = [p.markets EXCEPT ![d] = n] /\ q.markets[d] = n
         /\ listed(q) = listed(p) /\ SamePrices(p, q)
         /\ p.entered[a] \subseteq q.entered[a]
         /\ q.entered[a] \subseteq p.entered[a] \cup {d}
<1> DEFINE r == [p EXCEPT !.markets[d] = n]
           s == enter_market(r, d, b)
<1>1. p \in PlatformState /\ p.entered \in [Accounts -> SUBSET Denoms]
  BY DEF PlatformSound, PlatformState
<1>2. /\ r.markets = [p.markets EXCEPT ![d] = n] /\ r.entered = p.entered
      /\ r.oracles = p.oracles /\ r.price_oracle = p.price_oracle
      /\ r.common_token = p.common_token
  BY <1>1 DEF PlatformState
<1>3. s = [r EXCEPT !.entered[b] = @ \cup {d}]  BY DEF enter_market
<1>4. /\ s.markets = r.markets /\ s.entered = [r.entered EXCEPT ![b] = @ \cup {d}]
      /\ s.oracles = r.oracles /\ s.price_oracle = r.price_oracle
      /\ s.common_token = r.common_token
  BY <1>1, <1>3 DEF PlatformState
<1>5. q = r \/ q = s  BY DEF Changed
<1> HIDE DEF r, s
<1>6. /\ q.markets = [p.markets EXCEPT ![d] = n] /\ SamePrices(p, q)
      /\ q.entered = p.entered \/ q.entered = [p.entered EXCEPT ![b] = @ \cup {d}]
  BY <1>2, <1>4, <1>5 DEF SamePrices
<1>7. q.markets[d] = n /\ listed(q) = listed(p)  BY <1>6 DEF listed
<1>8. /\ p.entered[a] \subseteq q.entered[a]
      /\ q.entered[a] \subseteq p.entered[a] \cup {d}
  BY <1>1, <1>6
<1> QED BY <1>6, <1>7, <1>8 DEF r

\* What an account loses by another storage of one market.
LEMMA ChangedFalls ==
  ASSUME NEW p, NEW q, NEW t \in Nat, NEW a \in Accounts, Observed(p, q, t, a),
         NEW d \in listed(p), NEW n, NEW b \in Accounts, Changed(p, q, d, n, b),
         QueryOK(p.markets[d], t), NEW v \in Nat, NEW u \in Nat, NEW w \in Nat,
         w <= debt_balance(p.markets[d], t, a), Moved(p.markets[d], n, t, a, v, u, w)
  PROVE  /\ Falls(p, q, t, a, Loss(p, d, v, u, w)) /\ Loss(p, d, v, u, w) \in Int
         /\ HealthRoundings(p, t, a) \in Nat
         /\ Health(p, t, a) \in Int /\ Health(q, t, a) \in Int
<1>1. PlatformSound(p, t) /\ PlatformSound(q, t)  BY DEF Observed
<1>2. /\ q.markets = [p.markets EXCEPT ![d] = n] /\ q.markets[d] = n
      /\ listed(q) = listed(p) /\ SamePrices(p, q)
      /\ p.entered[a] \subseteq q.entered[a]
      /\ q.entered[a] \subseteq p.entered[a] \cup {d}
  BY <1>1, ChangedFields
<1>3. PriceOf(q, d) = PriceOf(p, d)
  BY <1>1, <1>2, PricesKept
<1> DEFINE l == Loss(p, d, v, u, w)
<1>4. l \in Int /\ WorthFalls(p, q, t, a, d, l)
  BY <1>2, <1>3, MarketFalls
<1> HIDE DEF l
<1>5. /\ Falls(p, q, t, a, l) /\ HealthRoundings(p, t, a) \in Nat
      /\ Health(p, t, a) \in Int /\ Health(q, t, a) \in Int
  BY <1>2, <1>4, OneMarketFalls
<1> QED BY <1>4, <1>5 DEF l

\* What a transaction may do to an account: it leaves it afloat, or no lower
\* than it was, but for roundings.
KeepsHealth(p, q, t, a) ==
    \/ Health(q, t, a) >= -HealthRoundings(p, t, a)
    \/ Health(q, t, a) >= Health(p, t, a) - HealthRoundings(p, t, a)

\* A loss within the health, or none.
LEMMA FallsKeeps ==
  ASSUME NEW p, NEW q, NEW t, NEW a, NEW loss \in Int, Falls(p, q, t, a, loss),
         HealthRoundings(p, t, a) \in Nat, Health(p, t, a) \in Int, Health(q, t, a) \in Int,
         loss <= 0 \/ loss <= Health(p, t, a)
  PROVE  KeepsHealth(p, q, t, a)
<1> DEFINE h == Health(p, t, a)
           k == Health(q, t, a)
           r == HealthRoundings(p, t, a)
<1>1. k >= h - r - loss  BY DEF Falls
<1>2. h \in Int /\ k \in Int /\ r \in Nat /\ (loss <= 0 \/ loss <= h)  OBVIOUS
<1> HIDE DEF h, k, r
<1>3. k >= -r \/ k >= h - r  BY <1>1, <1>2
<1> QED BY <1>3 DEF KeepsHealth, h, k, r

\* Another storage of one market in which the account neither loses collateral
\* nor borrows.
LEMMA HarmlessChange ==
  ASSUME NEW p, NEW q, NEW t \in Nat, NEW a \in Accounts, Observed(p, q, t, a),
         NEW d \in listed(p), NEW n, NEW b \in Accounts, Changed(p, q, d, n, b),
         QueryOK(p.markets[d], t), NEW w \in Nat,
         w <= debt_balance(p.markets[d], t, a), Moved(p.markets[d], n, t, a, 0, 0, w)
  PROVE  KeepsHealth(p, q, t, a)
<1>1. PlatformSound(p, t) /\ Lent(p)  BY DEF Observed
<1>a. 0 \in Nat  OBVIOUS
<1> DEFINE l == Loss(p, d, 0, 0, w)
<1>2. /\ Falls(p, q, t, a, l) /\ l \in Int /\ HealthRoundings(p, t, a) \in Nat
      /\ Health(p, t, a) \in Int /\ Health(q, t, a) \in Int
  BY <1>a, ChangedFalls
<1>3. l <= 0
  <2> DEFINE price == PriceOf(p, d)
             ratio == p.markets[d].collateral_ratio
  <2>1. price \in Nat /\ ratio \in Nat /\ MulInt(w, price) \in Nat
    BY <1>1, <1>a, LossNat
  <2>2. l = Line(0, price, ratio) + MulInt(0, price) - MulInt(w, price)
    BY DEF Loss
  <2> HIDE DEF l, price, ratio
  <2>3. MulInt(0, price) = 0 /\ Line(0, price, ratio) = 0  BY <2>1, NothingIs
  <2> QED BY <2>1, <2>2, <2>3
<1> HIDE DEF l
<1> QED BY <1>2, <1>3, FallsKeeps

\* Another storage of a market that the account is not in.
LEMMA OutsideChange ==
  ASSUME NEW p, NEW q, NEW t \in Nat, NEW a \in Accounts, Observed(p, q, t, a),
         NEW d \in listed(p), NEW n, NEW b \in Accounts, q = [p EXCEPT !.markets[d] = n],
         d \notin p.entered[a]
  PROVE  KeepsHealth(p, q, t, a)
<1>1. PlatformSound(p, t) /\ PlatformSound(q, t)  BY DEF Observed
<1>2. Changed(p, q, d, n, b)  BY DEF Changed
<1>3. q.markets = [p.markets EXCEPT ![d] = n] /\ q.entered[a] = p.entered[a]
  BY <1>1, PlatformFields
<1>4. d \in Denoms
  BY <1>1 DEF PlatformSound, PlatformState, Partial, listed
<1>5. WorthFalls(p, q, t, a, d, 0)
  BY <1>3, <1>4, OutsideFalls
<1>6. /\ Falls(p, q, t, a, 0) /\ HealthRoundings(p, t, a) \in Nat
      /\ Health(p, t, a) \in Int /\ Health(q, t, a) \in Int
  <2>1. 0 \in Int  OBVIOUS
  <2> QED BY <1>3, <1>5, <2>1, OneMarketFalls
<1>7. 0 \in Int /\ 0 <= 0  OBVIOUS
<1> QED BY <1>6, <1>7, FallsKeeps

-----------------------------------------------------------------------------
(***************************************************************************)
(* Each transaction keeps the health of every account: messages to the     *)
(* markets.                                                                *)
(***************************************************************************)
\* The credit line of an account, its health and the credit it has left.
LEMMA CreditLeft ==
  ASSUME BorrowLimitRatio <= One,
         NEW p, NEW q, NEW t \in Nat, NEW a \in Accounts, Observed(p, q, t, a),
         NEW credit, credit = total_credit_line(p, t, a)
  PROVE  /\ credit.credit_line \in Nat /\ credit.debt \in Nat /\ credit.borrow_limit \in Nat
         /\ Health(p, t, a) = credit.credit_line - credit.debt
         /\ available(credit) \in Nat
         /\ available(credit) = 0 \/ available(credit) <= Health(p, t, a)
         /\ Health(p, t, a) < 0 => available(credit) = 0 /\ credit.debt # 0
         /\ \A d \in p.entered[a] : Claim(p, t, d, a) <= credit.credit_line
<1>1. /\ PlatformSound(p, t) /\ Lent(p) /\ TotalCreditLineOK(p, t, a)
  BY DEF Observed
<1>2. /\ credit = CreditLineOver(p, t, p.entered[a], a)
      /\ CreditLineOK(p, t, p.entered[a], a) /\ p.entered[a] \subseteq listed(p)
  BY <1>1 DEF total_credit_line, TotalCreditLineOK, PlatformSound
<1>3. /\ credit.credit_line \in Nat /\ credit.debt \in Nat /\ credit.borrow_limit \in Nat
      /\ credit.borrow_limit <= credit.credit_line
      /\ \A d \in p.entered[a] : Claim(p, t, d, a) <= credit.credit_line
  BY <1>1, <1>2, CreditIs
<1>4. Health(p, t, a) = credit.credit_line - credit.debt
  BY DEF Health
<1>5. /\ available(credit) \in Nat
      /\ available(credit)
           = IF credit.debt >= credit.borrow_limit THEN 0 ELSE credit.borrow_limit - credit.debt
  BY <1>3, AvailableIs DEF available
<1> QED BY <1>3, <1>4, <1>5

\* A deposit, of any account.
LEMMA DepositKeepsHealth ==
  ASSUME NEW p, NEW q, NEW t \in Nat, NEW a \in Accounts, Observed(p, q, t, a),
         NEW b \in Accounts, NEW d, NEW amount \in Nat, MarketDepositOK(p, t, b, d, amount),
         q = market_deposit(p, t, b, d, amount)
  PROVE  KeepsHealth(p, q, t, a)
<1> DEFINE m == p.markets[d]
           n == deposit(m, t, b, amount)
           K == Configs({p.common_token})
<1>1. PlatformSound(p, t) /\ Lent(p)  BY DEF Observed
<1>2. d \in listed(p) /\ DepositOK(m, t, b, amount)  BY DEF MarketDepositOK
<1>3. Sound(K, m, t) /\ Rated(m)  BY <1>1, <1>2, ListedRated
<1>4. Changed(p, q, d, n, b)
  <2>1. q = enter_market([p EXCEPT !.markets[d] = n], d, b)  BY DEF market_deposit
  <2> QED BY <2>1 DEF Changed
<1>5. QueryOK(m, t) /\ Moved(m, n, t, a, 0, 0, 0)
  <2>1. n = deposit(m, t, b, amount)  OBVIOUS
  <2> HIDE DEF m, n, K
  <2> QED BY <1>2, <1>3, <2>1, DepositMoves
<1>6. 0 \in Nat /\ 0 <= debt_balance(m, t, a)
  <2> HIDE DEF m
  <2> QED BY <1>3, <1>5, QueriedNat
<1> HIDE DEF n
<1> QED BY <1>2, <1>4, <1>5, <1>6, HarmlessChange

\* A repayment within the debt, for any account.
LEMMA RepayKeepsHealth ==
  ASSUME NEW p, NEW q, NEW t \in Nat, NEW a \in Accounts, Observed(p, q, t, a),
         NEW b \in Accounts, NEW d, NEW amount \in Nat, MarketRepayOK(p, t, b, d, amount),
         base_to_token(amount, charge_interest(p.markets[d], t).debt_multiplier)
           <= p.markets[d].debt[b],
         q = market_repay(p, t, b, d, amount)
  PROVE  KeepsHealth(p, q, t, a)
<1> DEFINE m == p.markets[d]
           n == repay(m, t, b, amount)
           K == Configs({p.common_token})
<1>1. PlatformSound(p, t) /\ Lent(p)  BY DEF Observed
<1>2. d \in listed(p) /\ RepayOK(m, t, b, amount)  BY DEF MarketRepayOK
<1>3. Sound(K, m, t) /\ Rated(m) /\ Exact(m)  BY <1>1, <1>2, ListedRated
<1>4. Changed(p, q, d, n, b)
  <2>1. q = [p EXCEPT !.markets[d] = n]  BY DEF market_repay
  <2> QED BY <2>1 DEF Changed
<1>5. QueryOK(m, t) /\ Moved(m, n, t, a, 0, 0, 0)
  <2>1. n = repay(m, t, b, amount)  OBVIOUS
  <2>2. base_to_token(amount, charge_interest(m, t).debt_multiplier) <= m.debt[b]
    OBVIOUS
  <2> HIDE DEF m, n, K
  <2> QED BY <1>2, <1>3, <2>1, <2>2, RepayMoves
<1>6. 0 \in Nat /\ 0 <= debt_balance(m, t, a)
  <2> HIDE DEF m
  <2> QED BY <1>3, <1>5, QueriedNat
<1> HIDE DEF n
<1> QED BY <1>2, <1>4, <1>5, <1>6, HarmlessChange

\* A loan, of any account: the borrower's is within the credit it has left.
LEMMA BorrowKeepsHealth ==
  ASSUME BorrowLimitRatio <= One,
         NEW p, NEW q, NEW t \in Nat, NEW a \in Accounts, Observed(p, q, t, a),
         NEW b \in Accounts, NEW d, NEW amount \in Nat,
         MarketBorrowOK(p, t, b, d, amount, total_credit_line(p, t, b)),
         q = market_borrow(p, t, b, d, amount)
  PROVE  KeepsHealth(p, q, t, a)
<1> DEFINE m == p.markets[d]
           n == borrow(m, t, b, amount)
           K == Configs({p.common_token})
           u == IF a = b THEN amount ELSE 0
           credit == total_credit_line(p, t, b)
           price == PriceOf(p, d)
<1>1. PlatformSound(p, t) /\ Lent(p)  BY DEF Observed
<1>2. d \in listed(p) /\ BorrowOK(m, t, b, amount) /\ CanBorrow(credit, price, amount)
  BY DEF MarketBorrowOK, PriceOf
<1>3. Sound(K, m, t) /\ Rated(m)  BY <1>1, <1>2, ListedRated
<1>4. Changed(p, q, d, n, b)
  <2>1. q = enter_market([p EXCEPT !.markets[d] = n], d, b)  BY DEF market_borrow
  <2> QED BY <2>1 DEF Changed
<1>5. QueryOK(m, t) /\ Moved(m, n, t, a, 0, u, 0) /\ u \in Nat
  <2>1. n = borrow(m, t, b, amount) /\ u = IF a = b THEN amount ELSE 0  OBVIOUS
  <2>2. u \in Nat  OBVIOUS
  <2> HIDE DEF m, n, K, u
  <2>3. QueryOK(m, t) /\ Moved(m, n, t, a, 0, u, 0)
    BY <1>2, <1>3, <2>1, BorrowMoves
  <2> QED BY <2>2, <2>3
<1>6. 0 \in Nat /\ 0 <= debt_balance(m, t, a)
  <2> HIDE DEF m
  <2> QED BY <1>3, <1>5, QueriedNat
<1> DEFINE l == Loss(p, d, 0, u, 0)
<1>7. /\ Falls(p, q, t, a, l) /\ l \in Int /\ HealthRoundings(p, t, a) \in Nat
      /\ Health(p, t, a) \in Int /\ Health(q, t, a) \in Int
  <2> HIDE DEF n, u
  <2> QED BY <1>2, <1>4, <1>5, <1>6, ChangedFalls
<1>8. price \in Nat /\ m.collateral_ratio \in Nat  BY <1>1, <1>2, <1>6, LossNat
<1>9. l = MulInt(u, price) /\ MulInt(u, price) \in Nat
  <2>1. MulInt(u, price) \in Nat  BY <1>1, <1>2, <1>5, <1>6, LossNat
  <2>2. l = Line(0, price, m.collateral_ratio) + MulInt(u, price) - MulInt(0, price)
    BY DEF Loss
  <2>3. MulInt(0, price) = 0 /\ Line(0, price, m.collateral_ratio) = 0
    <3> HIDE DEF price
    <3> QED BY <1>8, NothingIs
  <2> HIDE DEF price, l, u
  <2> QED BY <2>1, <2>2, <2>3
<1>10. l <= 0 \/ l <= Health(p, t, a)
  <2>1. CASE a # b
    <3>1. u = 0  BY <2>1
    <3>2. MulInt(0, price) = 0
      <4> HIDE DEF price
      <4> QED BY <1>8, NothingIs
    <3> QED BY <1>9, <3>1, <3>2
  <2>2. CASE a = b
    <3>1. u = amount /\ credit = total_credit_line(p, t, a)  BY <2>2
    <3> HIDE DEF credit, price, u, l
    <3>2. /\ credit.debt \in Nat /\ credit.borrow_limit \in Nat /\ available(credit) \in Nat
          /\ available(credit) = 0 \/ available(credit) <= Health(p, t, a)
      BY <3>1, CreditLeft
    <3>3. MulInt(amount, price) \in Nat /\ MulInt(amount, price) <= available(credit)
      BY <1>2, <1>8, <3>2, LoanWithin
    <3> QED BY <1>7, <1>9, <3>1, <3>2, <3>3
  <2> QED BY <2>1, <2>2
<1> HIDE DEF l
<1> QED BY <1>7, <1>10, FallsKeeps

\* Collateral that its market lets the account take out: all of it if the
\* account has no debt, and no more than its credit otherwise.
LEMMA ReleaseKeepsHealth ==
  ASSUME BorrowLimitRatio <= One,
         NEW p, NEW q, NEW t \in Nat, NEW a \in Accounts, Observed(p, q, t, a),
         NEW d \in listed(p), NEW n, q = [p EXCEPT !.markets[d] = n],
         NEW m, m = p.markets[d], QueryOK(m, t),
         NEW amount \in Nat \ {0}, NEW credit, credit = total_credit_line(p, t, a),
         CanTransfer(m, a, credit, PriceOf(p, d), amount),
         Moved(m, n, t, a, collateral_balance(m, t, a), 0, 0),
         credit.debt # 0 /\ Health(p, t, a) >= 0 => Moved(m, n, t, a, amount, 0, 0)
  PROVE  KeepsHealth(p, q, t, a)
<1> DEFINE price == PriceOf(p, d)
           ratio == m.collateral_ratio
           x == collateral_balance(m, t, a)
           h == Health(p, t, a)
<1>1. PlatformSound(p, t) /\ Lent(p)  BY DEF Observed
<1>2. Changed(p, q, d, n, a)  BY DEF Changed
<1>3. x \in Nat /\ 0 \in Nat /\ debt_balance(m, t, a) \in Nat /\ 0 <= debt_balance(m, t, a)
  <2>1. Sound(Configs({p.common_token}), m, t) /\ Rated(m)  BY <1>1, ListedRated
  <2>2. x \in Nat /\ debt_balance(m, t, a) \in Nat  BY <2>1, QueriedNat
  <2> QED BY <2>2
<1>4. price \in Nat /\ ratio \in Nat  BY <1>1, <1>3, LossNat
<1>5. /\ credit.credit_line \in Nat /\ credit.debt \in Nat /\ credit.borrow_limit \in Nat
      /\ h = credit.credit_line - credit.debt /\ available(credit) \in Nat
      /\ available(credit) = 0 \/ available(credit) <= h
      /\ h < 0 => available(credit) = 0 /\ credit.debt # 0
      /\ \A k \in p.entered[a] : Claim(p, t, k, a) <= credit.credit_line
  <2>1. credit = total_credit_line(p, t, a) /\ h = Health(p, t, a)  OBVIOUS
  <2> HIDE DEF h
  <2>2. /\ credit.credit_line \in Nat /\ credit.debt \in Nat /\ credit.borrow_limit \in Nat
        /\ Health(p, t, a) = credit.credit_line - credit.debt
        /\ available(credit) \in Nat
        /\ available(credit) = 0 \/ available(credit) <= Health(p, t, a)
        /\ Health(p, t, a) < 0 => available(credit) = 0 /\ credit.debt # 0
        /\ \A k \in p.entered[a] : Claim(p, t, k, a) <= credit.credit_line
    BY <2>1, CreditLeft
  <2> QED BY <2>1, <2>2
<1>6. ASSUME NEW v \in Nat
      PROVE  /\ Loss(p, d, v, 0, 0) = Line(v, price, ratio) /\ Line(v, price, ratio) \in Nat
  <2>1. Loss(p, d, v, 0, 0) = Line(v, price, ratio) + MulInt(0, price) - MulInt(0, price)
    BY DEF Loss
  <2> HIDE DEF price, ratio
  <2>2. MulInt(0, price) = 0 /\ Line(v, price, ratio) \in Nat
    BY <1>4, NothingIs, LineBounds
  <2> QED BY <2>1, <2>2
<1>7. ASSUME NEW v \in Nat, Moved(m, n, t, a, v, 0, 0), Line(v, price, ratio) <= h
      PROVE  KeepsHealth(p, q, t, a)
  <2> DEFINE l == Loss(p, d, v, 0, 0)
  <2>1. /\ Falls(p, q, t, a, l) /\ l \in Int /\ HealthRoundings(p, t, a) \in Nat
        /\ Health(p, t, a) \in Int /\ Health(q, t, a) \in Int
    BY <1>2, <1>3, <1>7, ChangedFalls
  <2>2. l <= Health(p, t, a)  BY <1>6, <1>7
  <2> HIDE DEF l
  <2> QED BY <2>1, <2>2, FallsKeeps
<1>8. CASE d \notin p.entered[a]
  BY <1>8, OutsideChange
<1>9. CASE d \in p.entered[a] /\ credit.debt = 0
  <2>1. Claim(p, t, d, a) = Line(x, price, ratio)  BY DEF Claim
  <2>2. Claim(p, t, d, a) <= credit.credit_line /\ h = credit.credit_line
    BY <1>5, <1>9
  <2>3. Line(x, price, ratio) <= h  BY <2>1, <2>2
  <2> HIDE DEF x, price, ratio, h
  <2> QED BY <1>3, <1>7, <2>3 DEF x
<1>10. CASE d \in p.entered[a] /\ credit.debt # 0
  <2>1. /\ Line(amount, price, ratio) <= available(credit)
        /\ available(credit) = 0 => amount = 0
    <3> HIDE DEF price
    <3> QED BY <1>4, <1>5, <1>10, ReleaseWithin DEF price
  <2>2. available(credit) # 0 /\ available(credit) <= h /\ h >= 0
    <3> HIDE DEF h
    <3>1. available(credit) # 0 /\ available(credit) <= h  BY <1>5, <2>1
    <3>2. h \in Int  BY <1>5
    <3> QED BY <1>5, <3>1, <3>2
  <2>3. Moved(m, n, t, a, amount, 0, 0)  BY <1>10, <2>2
  <2>4. amount \in Nat  OBVIOUS
  <2>5. Line(amount, price, ratio) <= h
    <3>1. Line(amount, price, ratio) \in Nat  BY <1>6, <2>4
    <3> HIDE DEF price, ratio, h
    <3>2. h \in Int  BY <1>5
    <3> QED BY <1>5, <2>1, <2>2, <3>1, <3>2
  <2> HIDE DEF price, ratio, h
  <2> QED BY <1>7, <2>3, <2>4, <2>5
<1> QED BY <1>8, <1>9, <1>10

\* A withdrawal, of any account.
LEMMA WithdrawKeepsHealth ==
  ASSUME BorrowLimitRatio <= One,
         NEW p, NEW q, NEW t \in Nat, NEW a \in Accounts, Observed(p, q, t, a),
         NEW b \in Accounts, NEW d, NEW amount \in Nat \ {0},
         MarketWithdrawOK(p, t, b, d, amount, total_credit_line(p, t, b)),
         q = market_withdraw(p, t, b, d, amount)
  PROVE  KeepsHealth(p, q, t, a)
<1> DEFINE m == p.markets[d]
           n == withdraw(m, t, b, amount)
           K == Configs({p.common_token})
           v == IF a = b THEN amount ELSE 0
           credit == total_credit_line(p, t, b)
<1>1. /\ PlatformSound(p, t) /\ Lent(p) /\ PlatformSound(q, t) /\ Lent(q)
  BY DEF Observed
<1>2. /\ d \in listed(p) /\ WithdrawBaseOK(m, t, b, amount)
      /\ CanTransfer(m, b, credit, PriceOf(p, d), amount)
  BY DEF MarketWithdrawOK, PriceOf
<1>3. Sound(K, m, t) /\ Rated(m)  BY <1>1, <1>2, ListedRated
<1>4. q = [p EXCEPT !.markets[d] = n]  BY DEF market_withdraw
<1>5. Changed(p, q, d, n, b)  BY <1>4 DEF Changed
<1>6. QueryOK(m, t) /\ Moved(m, n, t, a, v, 0, 0) /\ v \in Nat
  <2>1. n = withdraw(m, t, b, amount) /\ v = IF a = b THEN amount ELSE 0  OBVIOUS
  <2>2. v \in Nat /\ amount \in Nat  OBVIOUS
  <2> HIDE DEF m, n, K, v
  <2>3. QueryOK(m, t) /\ Moved(m, n, t, a, v, 0, 0)
    BY <1>2, <1>3, <2>1, <2>2, WithdrawMoves
  <2> QED BY <2>2, <2>3
<1>7. /\ 0 \in Nat /\ 0 <= debt_balance(m, t, a) /\ collateral_balance(m, t, a) \in Nat
      /\ HeldSlack(m, t, a) \in Nat
  <2> HIDE DEF m
  <2> QED BY <1>3, <1>6, QueriedNat
<1>8. CASE a # b
  <2>1. v = 0  BY <1>8
  <2> HIDE DEF n, m, v
  <2> QED BY <1>2, <1>5, <1>6, <1>7, <2>1, HarmlessChange DEF m
<1>9. CASE a = b /\ d \notin p.entered[a]
  <2> HIDE DEF n
  <2> QED BY <1>2, <1>4, <1>9, OutsideChange
<1>10. CASE a = b /\ d \in p.entered[a]
  <2>1. q.entered[a] = p.entered[a] /\ q.markets[d] = n /\ d \in listed(q)
    <3>1. q.markets = [p.markets EXCEPT ![d] = n] /\ q.entered = p.entered
      <4> HIDE DEF n
      <4> QED BY <1>1, <1>2, <1>4, PlatformFields
    <3> QED BY <1>2, <3>1 DEF listed
  <2>2. QueryOK(n, t)
    BY <1>10, <2>1 DEF Observed, TotalCreditLineOK, CreditLineOK, MarketLineOK
  <2>3. collateral_balance(n, t, a) \in Nat
    <3>1. Sound(Configs({q.common_token}), n, t) /\ Rated(n)
      BY <1>1, <2>1, ListedRated
    <3> HIDE DEF n
    <3> QED BY <2>2, <3>1, QueriedNat
  <2>4. Moved(m, n, t, a, collateral_balance(m, t, a), 0, 0)
    <3> DEFINE x == collateral_balance(m, t, a)
               z == collateral_balance(n, t, a)
               s == HeldSlack(m, t, a)
    <3>1. x <= z + s + x
      <4>1. x \in Nat /\ z \in Nat /\ s \in Nat  BY <1>7, <2>3
      <4> HIDE DEF x, z, s
      <4> QED BY <4>1
    <3> QED BY <1>6, <3>1 DEF Moved
  <2>5. v = amount /\ credit = total_credit_line(p, t, a)
        /\ CanTransfer(m, a, credit, PriceOf(p, d), amount)
    BY <1>2, <1>10
  <2>6. Moved(m, n, t, a, amount, 0, 0)  BY <1>6, <2>5
  <2>7. m = p.markets[d]  OBVIOUS
  <2> HIDE DEF n, m, credit, v
  <2> QED BY <1>2, <1>4, <1>6, <2>4, <2>5, <2>6, <2>7, ReleaseKeepsHealth
<1> QED BY <1>8, <1>9, <1>10

\* A C token is worth no more than a base token, with the interest that is
\* pending on it.
BelowPar(m, t) == m.ctoken.multiplier * (One + TokenRatio(m, t)) <= One * One

\* A transfer of C tokens, of any account.  What the market lets an account
\* with a debt transfer it counts in base tokens: an account that is not to be
\* liquidated stays so only if a C token is worth no more than one.
LEMMA TransferKeepsHealth ==
  ASSUME BorrowLimitRatio <= One,
         NEW p, NEW q, NEW t \in Nat, NEW a \in Accounts, Observed(p, q, t, a),
         NEW b \in Accounts, NEW r \in Accounts, NEW d, NEW amount \in Nat \ {0},
         CTokenTransferOK(p, b, r, d, amount, total_credit_line(p, t, b)),
         TotalCreditLineOK(p, t, b), q = ctoken_transfer(p, b, r, d, amount),
         a = b /\ QueryOK(p.markets[d], t) /\ Health(p, t, a) >= 0
           => BelowPar(p.markets[d], t)
  PROVE  KeepsHealth(p, q, t, a)
<1> DEFINE m == p.markets[d]
           n == [m EXCEPT !.ctoken = transfer_tokens(@, b, r, amount)]
           K == Configs({p.common_token})
           credit == total_credit_line(p, t, b)
           x == collateral_balance(m, t, a)
<1>1. /\ PlatformSound(p, t) /\ Lent(p) /\ PlatformSound(q, t) /\ Lent(q)
  BY DEF Observed
<1>2. /\ d \in listed(p) /\ TransferOK(m.ctoken, b, r, amount)
      /\ CanTransfer(m, b, credit, PriceOf(p, d), amount)
  BY DEF CTokenTransferOK, PriceOf
<1>3. Sound(K, m, t) /\ Rated(m)  BY <1>1, <1>2, ListedRated
<1>4. q = [p EXCEPT !.markets[d] = n]
  <2>1. p \in PlatformState /\ p.markets \in Partial(Denoms, MarketState)
    BY <1>1 DEF PlatformSound, PlatformState
  <2> QED BY <1>2, <2>1 DEF ctoken_transfer, Partial, PlatformState, listed
<1>5. Changed(p, q, d, n, b)  BY <1>4 DEF Changed
<1>6. CASE d \notin p.entered[a]
  <2> HIDE DEF n
  <2> QED BY <1>2, <1>4, <1>6, OutsideChange
<1>7. CASE d \in p.entered[a]
  <2>1. QueryOK(m, t)
    BY <1>7 DEF Observed, TotalCreditLineOK, CreditLineOK, MarketLineOK
  <2>2. amount \in Nat  OBVIOUS
  <2>3. /\ x \in Nat /\ Moved(m, n, t, a, x, 0, 0)
        /\ a # b \/ b = r => Moved(m, n, t, a, 0, 0, 0)
        /\ BelowPar(m, t) => Moved(m, n, t, a, amount, 0, 0)
    <3>1. n = [m EXCEPT !.ctoken = transfer_tokens(@, b, r, amount)]  OBVIOUS
    <3> HIDE DEF m, n, K
    <3> QED BY <1>2, <1>3, <2>1, <2>2, <3>1, TransferMoves DEF BelowPar
  <2>4. /\ 0 \in Nat /\ 0 <= debt_balance(m, t, a)
    <3> HIDE DEF m
    <3> QED BY <1>3, <2>1, QueriedNat
  <2>5. CASE a # b
    <3>1. Moved(m, n, t, a, 0, 0, 0)  BY <2>3, <2>5
    <3> HIDE DEF n, m
    <3> QED BY <1>2, <1>5, <2>1, <2>4, <3>1, HarmlessChange DEF m
  <2>6. CASE a = b
    <3>1. credit = total_credit_line(p, t, a)
          /\ CanTransfer(m, a, credit, PriceOf(p, d), amount)
      BY <1>2, <2>6
    <3>2. Health(p, t, a) >= 0 => Moved(m, n, t, a, amount, 0, 0)  BY <2>1, <2>3, <2>6
    <3>3. m = p.markets[d]  OBVIOUS
    <3> HIDE DEF n, m, credit
    <3> QED BY <1>2, <1>4, <2>1, <2>3, <3>1, <3>2, <3>3, ReleaseKeepsHealth
  <2> QED BY <2>5, <2>6
<1> QED BY <1>6, <1>7

-----------------------------------------------------------------------------
(***************************************************************************)
(* Messages to the credit agency.                                          *)
(***************************************************************************)
\* Collateral counts for less than a liquidator pays for it.
Discounted ==
    \A price \in Prices, ratio \in CollateralRatios :
       price * ratio <= MulDec(price, LiquidationPrice) * One

\* One storage after the other of two markets, or twice of the same.
LEMMA TwoChanges ==
  ASSUME NEW p, NEW t, PlatformSound(p, t), NEW d \in listed(p), NEW n, NEW r,
         NEW b \in Accounts, Changed(p, r, d, n, b), PlatformSound(r, t),
         NEW c \in listed(p), NEW o, NEW q, NEW e \in Accounts, Changed(r, q, c, o, e),
         NEW a \in Accounts, r.entered[a] = p.entered[a]
  PROVE  /\ r.markets[c] = IF c = d THEN n ELSE p.markets[c]
         /\ listed(r) = listed(p) /\ listed(q) = listed(p)
         /\ q.markets[c] = o
         /\ c # d => q.markets[d] = n
         /\ \A k \in listed(p) \ {c, d} : q.markets[k] = p.markets[k]
         /\ SamePrices(p, q) /\ p.entered[a] \subseteq q.entered[a]
         /\ q.entered[a] \subseteq p.entered[a] \cup {c}
<1>1. /\ r.markets = [p.markets EXCEPT ![d] = n] /\ r.markets[d] = n
      /\ listed(r) = listed(p) /\ SamePrices(p, r)
  BY ChangedFields
<1>2. c \in listed(r)  BY <1>1
<1>3. /\ q.markets = [r.markets EXCEPT ![c] = o] /\ q.markets[c] = o
      /\ listed(q) = listed(r) /\ SamePrices(r, q)
      /\ r.entered[a] \subseteq q.entered[a]
      /\ q.entered[a] \subseteq r.entered[a] \cup {c}
  BY <1>2, ChangedFields
<1>4. r.markets[c] = IF c = d THEN n ELSE p.markets[c]
  BY <1>1 DEF listed
<1>5. /\ c # d => q.markets[d] = n
      /\ \A k \in listed(p) \ {c, d} : q.markets[k] = p.markets[k]
  BY <1>1, <1>3 DEF listed
<1>6. SamePrices(p, q)  BY <1>1, <1>3 DEF SamePrices
<1> QED BY <1>1, <1>3, <1>4, <1>5, <1>6

\* What a liquidation does to the storage: d is repaid and c pays.
LEMMA LiquidateFields ==
  ASSUME NEW p, NEW t \in Nat, PlatformSound(p, t), NEW sender \in Accounts,
         NEW account \in Accounts, NEW d, NEW amount \in Nat, NEW c,
         LiquidateOK(p, t, sender, account, d, amount, c),
         NEW q, q = liquidate(p, t, sender, account, d, amount, c), NEW a \in Accounts,
         NEW value, value = MulInt(amount, PriceOf(p, d)), NEW price, price = PriceOf(p, c),
         NEW n, n = repay_to(p.markets[d], t, account, amount),
         NEW m, m = IF c = d THEN n ELSE p.markets[c],
         NEW o, o = transfer_from(m, t, account, sender, value, price, LiquidationPrice)
  PROVE  /\ c \in listed(p) /\ d \in listed(p) /\ listed(q) = listed(p)
         /\ price \in Prices /\ PriceOf(p, d) \in Prices
         /\ RepayToOK(p.markets[d], t, account, amount)
         /\ TransferFromOK(m, t, account, sender, value, price, LiquidationPrice)
         /\ q.markets[c] = o
         /\ c # d => q.markets[d] = n
         /\ \A k \in listed(p) \ {c, d} : q.markets[k] = p.markets[k]
         /\ SamePrices(p, q) /\ p.entered[a] \subseteq q.entered[a]
         /\ q.entered[a] \subseteq p.entered[a] \cup {c}
<1> DEFINE r == repaid(p, t, account, d, amount)
<1>1. /\ c \in listed(p) /\ d \in listed(p) /\ PriceOK(p, c) /\ PriceOK(p, d)
      /\ RepayToOK(p.markets[d], t, account, amount)
      /\ TransferFromOK(r.markets[c], t, account, sender, MulInt(amount, Price(p, d)),
                        Price(p, c), p.liquidation_price)
  BY DEF LiquidateOK
<1>2. /\ value = MulInt(amount, Price(p, d)) /\ price = Price(p, c)
      /\ price \in Prices /\ PriceOf(p, d) \in Prices
  BY <1>1, PriceIs DEF PriceOf
<1>3. p.liquidation_price = LiquidationPrice  BY DEF PlatformSound, PlatformState
<1>4. r = [p EXCEPT !.markets[d] = n]  BY DEF repaid
<1>5. r.entered[a] = p.entered[a] /\ r.markets = [p.markets EXCEPT ![d] = n]
  <2> HIDE DEF r
  <2> QED BY <1>1, <1>4, PlatformFields
<1>6. Changed(p, r, d, n, a)  BY <1>4 DEF Changed
<1>7. PlatformSound(r, t)  BY <1>1, RepaidSound
<1>8. q = enter_market([r EXCEPT !.markets[c] =
                          transfer_from(r.markets[c], t, account, sender,
                                        MulInt(amount, Price(p, d)), Price(p, c),
                                        p.liquidation_price)], c, sender)
  BY DEF liquidate
<1> HIDE DEF r
<1>9. r.markets[c] = m
  BY <1>1, <1>5 DEF listed
<1>10. Changed(r, q, c, o, sender)
  <2>1. q = enter_market([r EXCEPT !.markets[c] = o], c, sender)
    BY <1>2, <1>3, <1>8, <1>9
  <2> QED BY <2>1 DEF Changed
<1>11. d \in listed(p) /\ c \in listed(p)  BY <1>1
<1>12. /\ listed(q) = listed(p)
       /\ q.markets[c] = o
       /\ c # d => q.markets[d] = n
       /\ \A k \in listed(p) \ {c, d} : q.markets[k] = p.markets[k]
       /\ SamePrices(p, q) /\ p.entered[a] \subseteq q.entered[a]
       /\ q.entered[a] \subseteq p.entered[a] \cup {c}
  BY <1>5, <1>6, <1>7, <1>10, <1>11, TwoChanges
<1>13. TransferFromOK(m, t, account, sender, value, price, LiquidationPrice)
  BY <1>1, <1>2, <1>3, <1>9
<1> QED BY <1>1, <1>2, <1>12, <1>13

\* A liquidation, of any account: that it takes more off the debt than off the
\* credit line is for the collateral ratios to see to.
LEMMA LiquidateKeepsHealth ==
  ASSUME NEW p, NEW q, NEW t \in Nat, NEW a \in Accounts, Observed(p, q, t, a),
         NEW sender \in Accounts, NEW account \in Accounts, NEW d, NEW amount \in Nat, NEW c,
         LiquidateOK(p, t, sender, account, d, amount, c),
         q = liquidate(p, t, sender, account, d, amount, c),
         a = account => Discounted
  PROVE  KeepsHealth(p, q, t, a)
<1> DEFINE md == p.markets[d]
           mc == p.markets[c]
           pd == PriceOf(p, d)
           pc == PriceOf(p, c)
           rd == md.collateral_ratio
           rc == mc.collateral_ratio
           value == MulInt(amount, pd)
           n == repay_to(md, t, account, amount)
           m == IF c = d THEN n ELSE mc
           V == RepaidValue(value, pc, LiquidationPrice)
           o == transfer_from(m, t, account, sender, value, pc, LiquidationPrice)
           v == IF a = account THEN V ELSE 0
           w == IF a = account THEN amount ELSE 0
           K == Configs({p.common_token})
<1>1. /\ PlatformSound(p, t) /\ Lent(p) /\ PlatformSound(q, t) /\ Lent(q)
  BY DEF Observed
<1>2. /\ c \in listed(p) /\ d \in listed(p) /\ listed(q) = listed(p)
      /\ pc \in Prices /\ pd \in Prices /\ RepayToOK(md, t, account, amount)
      /\ TransferFromOK(m, t, account, sender, value, pc, LiquidationPrice)
      /\ q.markets[c] = o
      /\ c # d => q.markets[d] = n
      /\ \A k \in listed(p) \ {c, d} : q.markets[k] = p.markets[k]
      /\ SamePrices(p, q) /\ p.entered[a] \subseteq q.entered[a]
      /\ q.entered[a] \subseteq p.entered[a] \cup {c}
  <2>1. /\ value = MulInt(amount, PriceOf(p, d)) /\ pc = PriceOf(p, c)
        /\ n = repay_to(p.markets[d], t, account, amount)
        /\ m = IF c = d THEN n ELSE p.markets[c]
    OBVIOUS
  <2> HIDE DEF value, pc, n, m
  <2>2. /\ c \in listed(p) /\ d \in listed(p) /\ listed(q) = listed(p)
        /\ pc \in Prices /\ PriceOf(p, d) \in Prices
        /\ RepayToOK(p.markets[d], t, account, amount)
        /\ TransferFromOK(m, t, account, sender, value, pc, LiquidationPrice)
        /\ q.markets[c]
              = transfer_from(m, t, account, sender, value, pc, LiquidationPrice)
        /\ c # d => q.markets[d] = n
        /\ \A k \in listed(p) \ {c, d} : q.markets[k] = p.markets[k]
        /\ SamePrices(p, q) /\ p.entered[a] \subseteq q.entered[a]
        /\ q.entered[a] \subseteq p.entered[a] \cup {c}
    BY <1>1, <2>1, LiquidateFields
  <2> QED BY <2>2
<1>3. Sound(K, md, t) /\ Rated(md) /\ Exact(md) /\ Sound(K, mc, t) /\ Rated(mc)
  BY <1>1, <1>2, ListedRated
<1>4. /\ pd \in Nat /\ pc \in Nat /\ rd \in Nat /\ rc \in Nat /\ rc \in CollateralRatios
      /\ LiquidationPrice \in Nat
  <2>1. 0 \in Nat  OBVIOUS
  <2>2. pd \in Nat /\ rd \in Nat  BY <1>1, <1>2, <2>1, LossNat
  <2>3. pc \in Nat /\ rc \in Nat  BY <1>1, <1>2, <2>1, LossNat
  <2>4. rc \in CollateralRatios
    <3>1. mc \in MarketState  BY <1>1, <1>2, ListedRated
    <3> QED BY <3>1 DEF MarketState, Configs, InstantiateMsg, StoredMarket
  <2> QED BY <2>2, <2>3, <2>4, PlatformAssumption
<1>5. value \in Nat
  <2> HIDE DEF pd
  <2> QED BY <1>4, Fraction
<1>6. V \in Nat /\ (a = account => Line(V, pc, rc) <= value)
  <2>1. DivideOK(value, MulDec(pc, LiquidationPrice))
    BY <1>2 DEF TransferFromOK
  <2>2. a = account => pc * rc <= MulDec(pc, LiquidationPrice) * One
    BY <1>2, <1>4 DEF Discounted
  <2> HIDE DEF value, pc, rc
  <2>3. V \in Nat
    <3>1. MulDec(pc, LiquidationPrice) \in Nat  BY <1>4, MulDecNat
    <3>2. MulDec(pc, LiquidationPrice) > 0  BY <2>1 DEF DivideOK
    <3> QED BY <1>5, <3>1, <3>2, Divided DEF RepaidValue
  <2>4. a = account => Line(V, pc, rc) <= value
    BY <1>4, <1>5, <2>1, <2>2, SeizedWithin
  <2> QED BY <2>3, <2>4
<1>7. v \in Nat /\ w \in Nat /\ 0 \in Nat  BY <1>6
<1>8. Line(v, pc, rc) <= MulInt(w, pd) /\ Line(v, pc, rc) \in Nat /\ MulInt(w, pd) \in Nat
  <2>1. Line(v, pc, rc) \in Nat /\ MulInt(w, pd) \in Nat
    <3> HIDE DEF v, w, pc, rc, pd
    <3> QED BY <1>4, <1>7, LineBounds, Fraction
  <2>2. CASE a = account
    BY <1>6, <2>1, <2>2
  <2>3. CASE a # account
    <3>1. v = 0 /\ w = 0  BY <2>3
    <3> HIDE DEF v, w, pc, rc, pd
    <3>2. Line(0, pc, rc) = 0 /\ MulInt(0, pd) = 0  BY <1>4, NothingIs
    <3> QED BY <3>1, <3>2
  <2> QED BY <2>2, <2>3
<1>9. CASE c = d
  <2>1. /\ QueryOK(md, t) /\ w <= debt_balance(md, t, a) /\ Moved(md, o, t, a, v, 0, w)
    <3>1. /\ TransferFromOK(n, t, account, sender, value, pc, LiquidationPrice)
          /\ o = transfer_from(n, t, account, sender, value, pc, LiquidationPrice)
          /\ RepaidValue(value, pc, LiquidationPrice) \in Nat
          /\ n = repay_to(md, t, account, amount)
          /\ v = (IF a = account THEN RepaidValue(value, pc, LiquidationPrice) ELSE 0)
          /\ w = IF a = account THEN amount ELSE 0
      BY <1>2, <1>6, <1>9
    <3> HIDE DEF md, n, o, value, pc, v, w, K
    <3> QED BY <1>2, <1>3, <3>1, SeizedMoves
  <2>2. q.markets = [p.markets EXCEPT ![d] = o]
    <3>1. p.markets \in Partial(Denoms, MarketState) /\ q.markets \in Partial(Denoms, MarketState)
      BY <1>1 DEF PlatformSound, PlatformState
    <3> HIDE DEF o
    <3> QED BY <1>2, <1>9, <3>1 DEF Partial, listed
  <2> DEFINE l == Loss(p, d, v, 0, w)
  <2>3. PriceOf(q, d) = PriceOf(p, d)
    BY <1>1, <1>2, PricesKept
  <2>4. l \in Int /\ WorthFalls(p, q, t, a, d, l)
    <3>1. Moved(p.markets[d], q.markets[d], t, a, v, 0, w)
      BY <1>2, <1>9, <2>1
    <3>2. QueryOK(p.markets[d], t) /\ w <= debt_balance(p.markets[d], t, a)  BY <2>1
    <3>3. d \in listed(q) /\ (d \in p.entered[a] => d \in q.entered[a])  BY <1>2
    <3> HIDE DEF v, w
    <3> QED BY <1>2, <1>7, <2>3, <3>1, <3>2, <3>3, MarketFalls
  <2>5. l <= 0
    <3>1. l = Line(v, pc, rc) + MulInt(0, pc) - MulInt(w, pd)
      BY <1>9 DEF Loss
    <3> HIDE DEF l, v, w, pc, rc, pd
    <3>2. MulInt(0, pc) = 0  BY <1>4, NothingIs
    <3> QED BY <1>8, <3>1, <3>2
  <2> HIDE DEF l
  <2>6. /\ Falls(p, q, t, a, l) /\ HealthRoundings(p, t, a) \in Nat
        /\ Health(p, t, a) \in Int /\ Health(q, t, a) \in Int
    <3>1. q.entered[a] \subseteq p.entered[a] \cup {d}  BY <1>2, <1>9
    <3> HIDE DEF o
    <3> QED BY <1>2, <2>2, <2>4, <3>1, OneMarketFalls
  <2> QED BY <2>4, <2>5, <2>6, FallsKeeps
<1>10. CASE c # d
  <2>1. /\ QueryOK(md, t) /\ w <= debt_balance(md, t, a) /\ Moved(md, n, t, a, 0, 0, w)
    <3>1. n = repay_to(md, t, account, amount) /\ w = IF a = account THEN amount ELSE 0
      OBVIOUS
    <3> HIDE DEF md, n, w, K
    <3> QED BY <1>2, <1>3, <3>1, RepayToMoves
  <2>2. QueryOK(mc, t) /\ Moved(mc, o, t, a, v, 0, 0)
    <3>1. /\ TransferFromOK(mc, t, account, sender, value, pc, LiquidationPrice)
          /\ o = transfer_from(mc, t, account, sender, value, pc, LiquidationPrice)
          /\ RepaidValue(value, pc, LiquidationPrice) \in Nat
          /\ v = (IF a = account THEN RepaidValue(value, pc, LiquidationPrice) ELSE 0)
      BY <1>2, <1>6, <1>10
    <3> HIDE DEF mc, o, value, pc, v, K
    <3> QED BY <1>3, <3>1, TransferFromMoves
  <2>3. 0 <= debt_balance(mc, t, a)
    <3>1. debt_balance(mc, t, a) \in Nat
      <4> HIDE DEF mc
      <4> QED BY <1>3, <2>2, QueriedNat
    <3> QED BY <3>1
  <2>4. PriceOf(q, c) = PriceOf(p, c) /\ PriceOf(q, d) = PriceOf(p, d)
    BY <1>1, <1>2, PricesKept
  <2> DEFINE i == Loss(p, c, v, 0, 0)
             j == Loss(p, d, 0, 0, w)
  <2>5. i \in Int /\ WorthFalls(p, q, t, a, c, i)
    <3>1. Moved(p.markets[c], q.markets[c], t, a, v, 0, 0)
      BY <1>2, <2>2
    <3>2. QueryOK(p.markets[c], t) /\ 0 <= debt_balance(p.markets[c], t, a)  BY <2>2, <2>3
    <3>3. c \in listed(q) /\ (c \in p.entered[a] => c \in q.entered[a])  BY <1>2
    <3> HIDE DEF v, w
    <3> QED BY <1>2, <1>7, <2>4, <3>1, <3>2, <3>3, MarketFalls
  <2>6. j \in Int /\ WorthFalls(p, q, t, a, d, j)
    <3>1. Moved(p.markets[d], q.markets[d], t, a, 0, 0, w)
      BY <1>2, <1>10, <2>1
    <3>2. QueryOK(p.markets[d], t) /\ w <= debt_balance(p.markets[d], t, a)  BY <2>1
    <3>3. d \in listed(q) /\ (d \in p.entered[a] => d \in q.entered[a])  BY <1>2
    <3> HIDE DEF v, w
    <3> QED BY <1>2, <1>7, <2>4, <3>1, <3>2, <3>3, MarketFalls
  <2>7. i + j <= 0
    <3>1. /\ i = Line(v, pc, rc) + MulInt(0, pc) - MulInt(0, pc)
          /\ j = Line(0, pd, rd) + MulInt(0, pd) - MulInt(w, pd)
      BY DEF Loss
    <3> HIDE DEF i, j, v, w, pc, rc, pd, rd
    <3>2. MulInt(0, pc) = 0 /\ MulInt(0, pd) = 0 /\ Line(0, pd, rd) = 0  BY <1>4, NothingIs
    <3> QED BY <1>8, <3>1, <3>2
  <2> HIDE DEF i, j
  <2>8. i + j \in Int  BY <2>5, <2>6
  <2>9. /\ Falls(p, q, t, a, i + j) /\ HealthRoundings(p, t, a) \in Nat
        /\ Health(p, t, a) \in Int /\ Health(q, t, a) \in Int
    <3>1. \A k \in listed(p) \ {c, d} :
             q.markets[k] = p.markets[k] /\ (k \in q.entered[a] <=> k \in p.entered[a])
      BY <1>2
    <3> HIDE DEF o, n
    <3> QED BY <1>2, <1>10, <2>5, <2>6, <3>1, TwoMarketsFall
  <2> QED BY <2>7, <2>8, <2>9, FallsKeeps
<1> QED BY <1>9, <1>10

\* What is sold changes the supply of C tokens.
LEMMA SaleBurns ==
  ASSUME NEW K, NEW m, NEW t, Sound(K, m, t), NEW a \in Accounts, NEW estimate \in Nat,
         NEW limit, SwapWithdrawOK(m, a, estimate, limit),
         NEW n, n = swap_withdraw_from(m, a, estimate, limit)
  PROVE  n.ctoken.total_supply # m.ctoken.total_supply
<1> DEFINE k == FromBase(m.ctoken, estimate)
           o == burn_from(m.ctoken, a, k)
           v == estimate
<1>1. m \in StoredMarket(K) /\ m.ctoken \in TokenState
  BY StoredNat DEF Sound
<1>2. FromBaseOK(m.ctoken, estimate) /\ BurnOK(m.ctoken, a, k)
  BY DEF SwapWithdrawOK, BurnBaseOK
<1>3. n.ctoken = o
  BY <1>1 DEF swap_withdraw_from, pay, StoredMarket
<1>4. k = FromBase(m.ctoken, estimate) /\ o = burn_from(m.ctoken, a, k)
      /\ v = IF a = a THEN estimate ELSE 0
  OBVIOUS
<1> HIDE DEF k, o, v
<1>5. o.total_supply # m.ctoken.total_supply
  BY <1>1, <1>2, <1>4, TokensSold
<1> QED BY <1>3, <1>5

\* From p to q b repays in the market of d, which leaves o, with collateral
\* that the market of c sells for at most `limit`, which leaves n.
Sale(p, q, t, b, c, max_collateral, limit, d, amount, estimate, n, o) ==
    /\ RepayWithCollateralOK(p, t, b, c, max_collateral, d, amount, estimate)
    /\ q = repay_with_collateral(p, t, b, c, max_collateral, d, amount, estimate)
    /\ limit = SellLimit(p, c, max_collateral)
    /\ n = swap_withdraw_from(p.markets[c], b, estimate, limit)
    /\ o = repay_to(p.markets[d], t, b, amount)

\* The outcome of a sale, also for an account a.
Sold(p, q, t, a, b, c, limit, d, amount, estimate, n, o) ==
    /\ c \in listed(p) /\ d \in listed(p) /\ listed(q) = listed(p)
    /\ SwapWithdrawOK(p.markets[c], b, estimate, limit)
    /\ RepayToOK(p.markets[d], t, b, amount)
    /\ q.markets[c] = n /\ q.markets[d] = o
    /\ \A k \in listed(p) \ {c, d} : q.markets[k] = p.markets[k]
    /\ SamePrices(p, q) /\ p.entered[a] \subseteq q.entered[a]
    /\ q.entered[a] \subseteq p.entered[a] \cup {d}

\* What a repayment with collateral of another market does to the storage.
LEMMA SaleFields ==
  ASSUME NEW p, NEW t \in Nat, PlatformSound(p, t), NEW b \in Accounts, NEW c,
         NEW max_collateral, NEW limit, NEW d, NEW amount \in Nat, NEW estimate \in Nat, c # d,
         NEW q, NEW n, NEW o,
         Sale(p, q, t, b, c, max_collateral, limit, d, amount, estimate, n, o),
         NEW a \in Accounts
  PROVE  Sold(p, q, t, a, b, c, limit, d, amount, estimate, n, o)
<1>0. /\ RepayWithCollateralOK(p, t, b, c, max_collateral, d, amount, estimate)
      /\ limit = SellLimit(p, c, max_collateral)
      /\ q = repay_with_collateral(p, t, b, c, max_collateral, d, amount, estimate)
      /\ n = swap_withdraw_from(p.markets[c], b, estimate, limit)
      /\ o = repay_to(p.markets[d], t, b, amount)
  BY DEF Sale
<1> DEFINE w == withdrawn(p, b, c, limit, d, amount, estimate)
<1>1. /\ c \in listed(p) /\ d \in listed(p)
      /\ SwapWithdrawOK(p.markets[c], b, estimate, limit)
      /\ RepayToOK(w.markets[d], t, b, amount)
  BY <1>0, RepaymentAsks
<1>2. PlatformSound(w, t)  BY <1>0, WithdrawnSound
<1>3. w = [p EXCEPT !.markets[c] = n]
  <2>1. p \in PlatformState /\ p.markets \in Partial(Denoms, MarketState)
    BY DEF PlatformSound, PlatformState
  <2> QED BY <1>0, <1>1, <2>1 DEF withdrawn, Partial, PlatformState, listed
<1>4. q = repaid(w, t, b, d, amount)
  BY <1>0 DEF repay_with_collateral
<1> HIDE DEF w
<1>5. w.entered[a] = p.entered[a] /\ w.markets = [p.markets EXCEPT ![c] = n]
  BY <1>1, <1>3, PlatformFields
<1>6. w.markets[d] = p.markets[d]  BY <1>1, <1>5 DEF listed
<1>7. Changed(p, w, c, n, b)  BY <1>3 DEF Changed
<1>8. Changed(w, q, d, o, b)
  <2>1. q = [w EXCEPT !.markets[d] = o]  BY <1>0, <1>4, <1>6 DEF repaid
  <2> QED BY <2>1 DEF Changed
<1>9. c \in listed(p) /\ d \in listed(p)  BY <1>1
<1>10. /\ listed(q) = listed(p)
       /\ q.markets[d] = o
       /\ d # c => q.markets[c] = n
       /\ \A k \in listed(p) \ {d, c} : q.markets[k] = p.markets[k]
       /\ SamePrices(p, q) /\ p.entered[a] \subseteq q.entered[a]
       /\ q.entered[a] \subseteq p.entered[a] \cup {d}
  BY <1>2, <1>5, <1>7, <1>8, <1>9, TwoChanges
<1> QED BY <1>1, <1>6, <1>10 DEF Sold

\* A repayment with collateral of the same token.
LEMMA RepayWithSameKeepsHealth ==
  ASSUME NEW p, NEW q, NEW t \in Nat, NEW a \in Accounts, Observed(p, q, t, a),
         NEW b \in Accounts, NEW max_collateral, NEW d, NEW amount \in Nat, NEW estimate,
         RepayWithCollateralOK(p, t, b, d, max_collateral, d, amount, estimate),
         q = repay_with_collateral(p, t, b, d, max_collateral, d, amount, estimate)
  PROVE  KeepsHealth(p, q, t, a)
<1> DEFINE limit == SellLimit(p, d, max_collateral)
           m == p.markets[d]
           o == withdraw_same_token(m, amount)
           n == repay_to(o, t, b, amount)
           x == withdrawn(p, b, d, limit, d, amount, estimate)
           w == IF a = b THEN amount ELSE 0
           K == Configs({p.common_token})
<1>1. PlatformSound(p, t) /\ Lent(p)  BY DEF Observed
<1>2. /\ d \in listed(p) /\ amount <= m.cash /\ RepayToOK(x.markets[d], t, b, amount)
  BY RepaymentAsks
<1>3. Sound(K, m, t) /\ Rated(m) /\ Exact(m)  BY <1>1, <1>2, ListedRated
<1>4. p \in PlatformState /\ p.markets \in Partial(Denoms, MarketState)
  BY <1>1 DEF PlatformSound, PlatformState
<1>5. x = [p EXCEPT !.markets[d] = o]
  BY <1>2, <1>4 DEF withdrawn, Partial, PlatformState, listed
<1>6. q = repaid(x, t, b, d, amount)
  BY DEF repay_with_collateral
<1> HIDE DEF x
<1>7. x.markets[d] = o
  <2> HIDE DEF o
  <2>1. x.markets = [p.markets EXCEPT ![d] = o]  BY <1>1, <1>2, <1>5, PlatformFields
  <2> QED BY <1>2, <2>1 DEF listed
<1>8. q = [p EXCEPT !.markets[d] = n]
  <2>1. q = [x EXCEPT !.markets[d] = n]  BY <1>6, <1>7 DEF repaid
  <2> HIDE DEF n, o
  <2> QED BY <1>2, <1>4, <1>5, <2>1 DEF PlatformState, Partial, listed
<1>9. Changed(p, q, d, n, b)  BY <1>8 DEF Changed
<1>10. /\ QueryOK(m, t) /\ w \in Nat /\ w <= debt_balance(m, t, a)
       /\ Moved(m, n, t, a, 0, 0, w)
  <2>1. /\ o = withdraw_same_token(m, amount) /\ n = repay_to(o, t, b, amount)
        /\ w = (IF a = b THEN amount ELSE 0) /\ RepayToOK(o, t, b, amount)
    BY <1>2, <1>7
  <2> HIDE DEF m, n, o, w, K
  <2> QED BY <1>2, <1>3, <2>1, SameTokenMoves
<1> HIDE DEF n, w
<1> QED BY <1>2, <1>9, <1>10, HarmlessChange

\* The simulation leaves the account at least as far from liquidation as it is,
\* less what is to be sold and what is repaid.
LEMMA SimulatedLoss ==
  ASSUME BorrowLimitRatio <= One,
         NEW p, NEW q, NEW t \in Nat, NEW a \in Accounts, Observed(p, q, t, a),
         NEW credit, credit = total_credit_line(p, t, a), NEW i \in Int, NEW j \in Int,
         credit.debt - j <= credit.credit_line - i
  PROVE  Health(p, t, a) \in Int /\ i - j <= Health(p, t, a)
<1>1. /\ credit.credit_line \in Nat /\ credit.debt \in Nat
      /\ Health(p, t, a) = credit.credit_line - credit.debt
  BY CreditLeft
<1> QED BY <1>1

\* A repayment with collateral of another market: what the agency simulates
\* is worse for the account than what happens, if no more is sold than it allows.
LEMMA RepayWithOtherKeepsHealth ==
  ASSUME BorrowLimitRatio <= One,
         NEW p, NEW q, NEW t \in Nat, NEW a \in Accounts, Observed(p, q, t, a),
         NEW b \in Accounts, NEW c, NEW max_collateral \in Nat, NEW limit \in Nat, NEW d,
         NEW amount \in Nat, NEW estimate \in Nat, c # d, NEW n, NEW o,
         Sale(p, q, t, b, c, max_collateral, limit, d, amount, estimate, n, o),
         a = b => estimate <= max_collateral
  PROVE  KeepsHealth(p, q, t, a)
<1> DEFINE md == p.markets[d]
           mc == p.markets[c]
           pd == PriceOf(p, d)
           pc == PriceOf(p, c)
           rd == md.collateral_ratio
           rc == mc.collateral_ratio
           v == IF a = b THEN estimate ELSE 0
           w == IF a = b THEN amount ELSE 0
           K == Configs({p.common_token})
           h == Health(p, t, a)
           i == Loss(p, c, v, 0, 0)
           j == Loss(p, d, 0, 0, w)
<1>1. /\ PlatformSound(p, t) /\ Lent(p) /\ PlatformSound(q, t) /\ Lent(q)
  BY DEF Observed
<1>2. /\ c \in listed(p) /\ d \in listed(p) /\ listed(q) = listed(p)
      /\ SwapWithdrawOK(mc, b, estimate, limit) /\ RepayToOK(md, t, b, amount)
      /\ q.markets[c] = n /\ q.markets[d] = o
      /\ \A k \in listed(p) \ {c, d} : q.markets[k] = p.markets[k]
      /\ SamePrices(p, q) /\ p.entered[a] \subseteq q.entered[a]
      /\ q.entered[a] \subseteq p.entered[a] \cup {d}
  <2> HIDE DEF md, mc, pd, pc, rd, rc, v, w, K, h, i, j
  <2>2. PlatformSound(p, t)  BY <1>1
  <2>3. Sold(p, q, t, a, b, c, limit, d, amount, estimate, n, o)
    BY <2>2, SaleFields
  <2> QED BY <2>3 DEF Sold, mc, md
<1>3. /\ Sound(K, md, t) /\ Rated(md) /\ Exact(md) /\ Sound(K, mc, t) /\ Rated(mc)
  BY <1>1, <1>2, ListedRated
<1>4. pd \in Nat /\ pc \in Nat /\ rd \in Nat /\ rc \in Nat
  <2>1. 0 \in Nat  OBVIOUS
  <2>2. pd \in Nat /\ rd \in Nat  BY <1>1, <1>2, <2>1, LossNat
  <2>3. pc \in Nat /\ rc \in Nat  BY <1>1, <1>2, <2>1, LossNat
  <2> QED BY <2>2, <2>3
<1>5. v \in Nat /\ w \in Nat /\ 0 \in Nat  OBVIOUS
<1>6. i = Line(v, pc, rc) /\ j = -MulInt(w, pd) /\ Line(v, pc, rc) \in Nat
      /\ MulInt(w, pd) \in Nat /\ i \in Int /\ j \in Int
  <2>1. /\ i = Line(v, pc, rc) + MulInt(0, pc) - MulInt(0, pc)
        /\ j = Line(0, pd, rd) + MulInt(0, pd) - MulInt(w, pd)
    BY DEF Loss
  <2> HIDE DEF v, w, pc, rc, pd, rd, i, j
  <2>2. MulInt(0, pc) = 0 /\ MulInt(0, pd) = 0 /\ Line(0, pd, rd) = 0
    BY <1>4, NothingIs
  <2>3. Line(v, pc, rc) \in Nat /\ MulInt(w, pd) \in Nat
    BY <1>4, <1>5, LineBounds, Fraction
  <2> QED BY <2>1, <2>2, <2>3
<1>7. PriceOf(q, c) = PriceOf(p, c) /\ PriceOf(q, d) = PriceOf(p, d)
  BY <1>1, <1>2, PricesKept
<1>8. WorthFalls(p, q, t, a, d, j)
  <2>1. QueryOK(md, t) /\ w <= debt_balance(md, t, a) /\ Moved(md, o, t, a, 0, 0, w)
    <3>1. o = repay_to(md, t, b, amount) /\ w = IF a = b THEN amount ELSE 0
      BY DEF Sale
    <3> HIDE DEF md, w, K
    <3> QED BY <1>2, <1>3, <3>1, RepayToMoves
  <2>2. Moved(p.markets[d], q.markets[d], t, a, 0, 0, w)  BY <1>2, <2>1
  <2>3. QueryOK(p.markets[d], t) /\ w <= debt_balance(p.markets[d], t, a)  BY <2>1
  <2>4. d \in listed(q) /\ (d \in p.entered[a] => d \in q.entered[a])  BY <1>2
  <2> HIDE DEF w
  <2> QED BY <1>2, <1>5, <1>7, <2>2, <2>3, <2>4, MarketFalls
<1>9. /\ c \in p.entered[b] /\ TotalCreditLineOK(p, t, b)
      /\ RepaySimulated(p, t, b, c, max_collateral, d, amount)
      /\ Price(p, c) = pc /\ Price(p, d) = pd
  BY DEF Sale, RepayWithCollateralOK, PriceOf
<1>10. CASE c \notin p.entered[a]
  <2>1. a # b  BY <1>9, <1>10
  <2>2. v = 0 /\ w = 0  BY <2>1
  <2>3. WorthFalls(p, q, t, a, c, 0)
    <3>1. c \in Denoms
      BY <1>1, <1>2 DEF PlatformSound, PlatformState, Partial, listed
    <3>2. c \notin q.entered[a]  BY <1>2, <1>10
    <3> QED BY <1>10, <3>1, <3>2, OutsideFalls
  <2>4. 0 \in Int /\ j = 0 /\ 0 + j = 0 /\ 0 + j <= 0
    <3> HIDE DEF v, w, pc, rc, pd, i, j
    <3>1. MulInt(0, pd) = 0  BY <1>4, NothingIs
    <3>2. j = -MulInt(w, pd)  BY <1>6
    <3>3. j = 0  BY <2>2, <3>1, <3>2
    <3> QED BY <3>3
  <2>5. /\ Falls(p, q, t, a, 0 + j) /\ HealthRoundings(p, t, a) \in Nat
        /\ Health(p, t, a) \in Int /\ Health(q, t, a) \in Int
    <3>1. \A k \in listed(p) \ {c, d} :
             /\ q.markets[k] = p.markets[k]
             /\ k \in q.entered[a] <=> k \in p.entered[a]
      BY <1>2
    <3>2. j \in Int  BY <1>6
    <3> HIDE DEF j
    <3> QED BY <1>2, <1>8, <2>3, <2>4, <3>1, <3>2, TwoMarketsFall
  <2>6. 0 + j \in Int  BY <1>6
  <2> HIDE DEF j
  <2> QED BY <2>4, <2>5, <2>6, FallsKeeps
<1>11. CASE c \in p.entered[a]
  <2>1. n.ctoken.total_supply # mc.ctoken.total_supply
    <3>1. n = swap_withdraw_from(mc, b, estimate, limit)  BY DEF Sale
    <3> HIDE DEF mc, K
    <3> QED BY <1>2, <1>3, <3>1, SaleBurns
  <2>2. epochs_passed(n, t) = 0
    BY <1>2, <1>11, <2>1 DEF Observed, mc
  <2>3. QueryOK(mc, t) /\ Moved(mc, n, t, a, v, 0, 0)
    <3>1. n = swap_withdraw_from(mc, b, estimate, limit) /\ v = IF a = b THEN estimate ELSE 0
      BY DEF Sale
    <3> HIDE DEF mc, v, K
    <3> QED BY <1>2, <1>3, <2>2, <3>1, SwapMoves
  <2>4. 0 <= debt_balance(mc, t, a)
    <3>1. debt_balance(mc, t, a) \in Nat
      <4> HIDE DEF mc
      <4> QED BY <1>3, <2>3, QueriedNat
    <3> QED BY <3>1
  <2>5. WorthFalls(p, q, t, a, c, i)
    <3>1. Moved(p.markets[c], q.markets[c], t, a, v, 0, 0)  BY <1>2, <2>3
    <3>2. QueryOK(p.markets[c], t) /\ 0 <= debt_balance(p.markets[c], t, a)  BY <2>3, <2>4
    <3>3. c \in listed(q) /\ (c \in p.entered[a] => c \in q.entered[a])  BY <1>2
    <3> HIDE DEF v
    <3> QED BY <1>2, <1>5, <1>7, <3>1, <3>2, <3>3, MarketFalls
  <2>6. /\ Falls(p, q, t, a, i + j) /\ HealthRoundings(p, t, a) \in Nat
        /\ Health(p, t, a) \in Int /\ Health(q, t, a) \in Int
    <3>1. \A k \in listed(p) \ {c, d} :
             /\ q.markets[k] = p.markets[k]
             /\ k \in q.entered[a] <=> k \in p.entered[a]
      BY <1>2
    <3>2. i \in Int /\ j \in Int  BY <1>6
    <3> HIDE DEF i, j
    <3> QED BY <1>2, <1>8, <2>5, <3>1, <3>2, TwoMarketsFall
  <2>7. i + j <= 0 \/ i + j <= h
    <3>1. CASE a # b
      <4>1. v = 0 /\ w = 0  BY <3>1
      <4> HIDE DEF v, w, pc, rc, pd, i, j
      <4>2. Line(0, pc, rc) = 0 /\ MulInt(0, pd) = 0  BY <1>4, NothingIs
      <4>3. Line(v, pc, rc) = 0 /\ MulInt(w, pd) = 0  BY <4>1, <4>2
      <4> QED BY <1>6, <4>3
    <3>2. CASE a = b
      <4>1. v = estimate /\ w = amount  BY <3>2
      <4>2. estimate <= max_collateral  BY <3>2
      <4>3. RepaySimulated(p, t, a, c, max_collateral, d, amount)  BY <1>9, <3>2
      <4>4. rc = p.markets[c].collateral_ratio /\ h = Health(p, t, a)  OBVIOUS
      <4> HIDE DEF v, w, pc, rc, pd, i, j, h
      <4>5. /\ Line(estimate, pc, rc) \in Nat /\ Line(max_collateral, pc, rc) \in Nat
            /\ Line(estimate, pc, rc) <= Line(max_collateral, pc, rc)
        BY <1>4, <4>2, LineMonotone
      <4>6. i = Line(estimate, pc, rc) /\ j = -MulInt(amount, pd) /\ MulInt(amount, pd) \in Nat
        BY <1>6, <4>1
      <4> DEFINE x == Line(max_collateral, pc, rc)
                 y == MulInt(amount, pd)
      <4>7. /\ x \in Int /\ x = Line(max_collateral, Price(p, c), p.markets[c].collateral_ratio)
            /\ y \in Int /\ y = MulInt(amount, Price(p, d))
        BY <1>9, <4>4, <4>5, <4>6
      <4>8. x = Line(max_collateral, pc, rc) /\ y = MulInt(amount, pd)  OBVIOUS
      <4> HIDE DEF x, y
      <4>9. h \in Int /\ x - y <= h
        <5> DEFINE credit == total_credit_line(p, t, a)
        <5>1. credit = total_credit_line(p, t, a)  OBVIOUS
        <5>2. credit.debt - y <= credit.credit_line - x
          BY <4>3, <4>7 DEF RepaySimulated, SellLimit, Line
        <5> HIDE DEF credit
        <5>3. x \in Int /\ y \in Int  BY <4>7
        <5>4. Health(p, t, a) \in Int /\ x - y <= Health(p, t, a)
          BY <5>1, <5>2, <5>3, SimulatedLoss
        <5> QED BY <4>4, <5>4
      <4>10. i + j <= h
        BY <4>5, <4>6, <4>7, <4>8, <4>9
      <4> QED BY <4>10
    <3> QED BY <3>1, <3>2
  <2>8. i + j \in Int  BY <1>6
  <2> HIDE DEF i, j
  <2> QED BY <2>6, <2>7, <2>8, FallsKeeps
<1> QED BY <1>10, <1>11

\* A repayment with collateral, of any account.
LEMMA RepayWithCollateralKeepsHealth ==
  ASSUME BorrowLimitRatio <= One,
         NEW p, NEW q, NEW t \in Nat, NEW a \in Accounts, Observed(p, q, t, a),
         NEW b \in Accounts, NEW c, NEW max_collateral \in Nat, NEW d,
         NEW amount \in Nat, NEW estimate \in Nat,
         RepayWithCollateralOK(p, t, b, c, max_collateral, d, amount, estimate),
         q = repay_with_collateral(p, t, b, c, max_collateral, d, amount, estimate),
         a = b /\ c # d => estimate <= max_collateral
  PROVE  KeepsHealth(p, q, t, a)
<1>1. CASE c = d
  <2>1. /\ RepayWithCollateralOK(p, t, b, d, max_collateral, d, amount, estimate)
        /\ q = repay_with_collateral(p, t, b, d, max_collateral, d, amount, estimate)
    BY <1>1
  <2> QED BY <2>1, RepayWithSameKeepsHealth
<1>2. CASE c # d
  <2> DEFINE limit == SellLimit(p, c, max_collateral)
             n == swap_withdraw_from(p.markets[c], b, estimate, limit)
             o == repay_to(p.markets[d], t, b, amount)
  <2>1. Sale(p, q, t, b, c, max_collateral, limit, d, amount, estimate, n, o)  BY DEF Sale
  <2>2. limit \in Nat  BY RepaymentAsks
  <2> HIDE DEF limit, n, o
  <2> QED BY <1>2, <2>1, <2>2, RepayWithOtherKeepsHealth
<1> QED BY <1>1, <1>2

-----------------------------------------------------------------------------
(***************************************************************************)
(* Transactions that book nothing.                                         *)
(***************************************************************************)
\* The books of a market, which tell what an account has and owes in it.
SameBooks(m, n) ==
    /\ n.ctoken = m.ctoken /\ n.debt = m.debt /\ n.debt_multiplier = m.debt_multiplier
    /\ n.total_points = m.total_points /\ n.rates = m.rates
    /\ n.reserve_factor = m.reserve_factor /\ n.last_charged = m.last_charged
    /\ n.charge_period = m.charge_period

\* Where nothing is booked an account's health is what it was.
LEMMA SameWorth ==
  ASSUME NEW p, NEW q, NEW t \in Nat, NEW a \in Accounts, NEW ds,
         \A d \in ds : /\ SameBooks(p.markets[d], q.markets[d])
                       /\ PriceOf(q, d) = PriceOf(p, d)
                       /\ q.markets[d].collateral_ratio = p.markets[d].collateral_ratio
  PROVE  WorthIn(q, t, ds, a) = WorthIn(p, t, ds, a)
<1>1. ASSUME NEW d \in ds
      PROVE  Claim(q, t, d, a) = Claim(p, t, d, a) /\ Owed(q, t, d, a) = Owed(p, t, d, a)
  <2> DEFINE m == p.markets[d]
             n == q.markets[d]
  <2>1. SameBooks(m, n)  OBVIOUS
  <2> HIDE DEF m, n
  <2>2. /\ n.ctoken = m.ctoken /\ n.debt = m.debt /\ n.debt_multiplier = m.debt_multiplier
        /\ n.total_points = m.total_points /\ n.rates = m.rates
        /\ n.reserve_factor = m.reserve_factor /\ n.last_charged = m.last_charged
        /\ n.charge_period = m.charge_period
    BY <2>1 DEF SameBooks
  <2>3. /\ collateral_balance(n, t, a) = collateral_balance(m, t, a)
        /\ debt_balance(n, t, a) = debt_balance(m, t, a)
    BY <2>2, SameQueries
  <2> QED BY <2>3 DEF Claim, Owed, m, n
<1> QED BY <1>1 DEF WorthIn

\* A transaction that books nothing in the markets of the account.
LEMMA QuietKeepsHealth ==
  ASSUME NEW p, NEW q, NEW t \in Nat, NEW a \in Accounts, Observed(p, q, t, a),
         q.entered[a] = p.entered[a],
         \A d \in p.entered[a] : SameBooks(p.markets[d], q.markets[d])
  PROVE  KeepsHealth(p, q, t, a)
<1>1. /\ PlatformSound(p, t) /\ Lent(p) /\ TotalCreditLineOK(p, t, a)
      /\ PlatformSound(q, t) /\ Lent(q) /\ TotalCreditLineOK(q, t, a)
  BY DEF Observed
<1>2. \A d \in p.entered[a] : /\ SameBooks(p.markets[d], q.markets[d])
                              /\ PriceOf(q, d) = PriceOf(p, d)
                              /\ q.markets[d].collateral_ratio = p.markets[d].collateral_ratio
  BY DEF Observed
<1> DEFINE ds == p.entered[a]
<1>3. \A d \in ds : /\ SameBooks(p.markets[d], q.markets[d])
                    /\ PriceOf(q, d) = PriceOf(p, d)
                    /\ q.markets[d].collateral_ratio = p.markets[d].collateral_ratio
  BY <1>2
<1>4. Worth(p, t, a) = WorthIn(p, t, ds, a) /\ Worth(q, t, a) = WorthIn(q, t, ds, a)
  BY DEF Worth
<1> HIDE DEF ds
<1>5. Worth(q, t, a) = Worth(p, t, a)
  BY <1>3, <1>4, SameWorth
<1>6. /\ Health(p, t, a) = SumFunction(Worth(p, t, a)) /\ Health(p, t, a) \in Int
      /\ Health(q, t, a) = SumFunction(Worth(q, t, a))
  BY <1>1, HealthIs
<1>7. HealthRoundings(p, t, a) \in Nat
  BY <1>1, RoundingsNat DEF HealthRoundings
<1>8. Health(q, t, a) = Health(p, t, a)  BY <1>5, <1>6
<1>9. Health(q, t, a) >= Health(p, t, a) - HealthRoundings(p, t, a)
  BY <1>6, <1>7, <1>8
<1> QED BY <1>9 DEF KeepsHealth

\* An account that leaves a market stays afloat: the agency looks at what is
\* left.
LEMMA ExitMarketKeepsHealth ==
  ASSUME NEW p, NEW q, NEW t \in Nat, NEW a \in Accounts, Observed(p, q, t, a),
         NEW b \in Accounts, NEW d, ExitMarketOK(p, t, b, d), q = exit_market(p, b, d)
  PROVE  KeepsHealth(p, q, t, a)
<1>1. /\ PlatformSound(p, t) /\ Lent(p) /\ TotalCreditLineOK(p, t, a)
      /\ PlatformSound(q, t) /\ Lent(q) /\ TotalCreditLineOK(q, t, a)
  BY DEF Observed
<1>2. p \in PlatformState /\ p.entered \in [Accounts -> SUBSET Denoms]
  BY <1>1 DEF PlatformSound, PlatformState
<1>3. /\ q.markets = p.markets /\ q.entered = [p.entered EXCEPT ![b] = @ \ {d}]
  BY <1>2 DEF exit_market, PlatformState
<1>4. CASE a # b
  <2>1. q.entered[a] = p.entered[a]  BY <1>2, <1>3, <1>4
  <2>2. \A k \in p.entered[a] : SameBooks(p.markets[k], q.markets[k])
    BY <1>3 DEF SameBooks
  <2> QED BY <2>1, <2>2, QuietKeepsHealth
<1>5. CASE a = b
  <2> DEFINE ds == p.entered[a] \ {d}
             c == CreditLineOver(p, t, ds, a)
  <2>1. q.entered[a] = ds  BY <1>2, <1>3, <1>5
  <2>2. CreditLineOK(p, t, ds, a) /\ c.credit_line >= c.debt
    BY <1>5 DEF ExitMarketOK
  <2>3. ds \subseteq listed(p)  BY <1>1 DEF PlatformSound
  <2>4. \A k \in ds : /\ SameBooks(p.markets[k], q.markets[k])
                      /\ PriceOf(q, k) = PriceOf(p, k)
                      /\ q.markets[k].collateral_ratio = p.markets[k].collateral_ratio
    BY <1>3 DEF Observed, SameBooks
  <2>5. c = CreditLineOver(p, t, ds, a)  OBVIOUS
  <2> HIDE DEF ds, c
  <2>6. WorthIn(q, t, ds, a) = WorthIn(p, t, ds, a)
    BY <2>4, SameWorth
  <2>7. /\ c.credit_line \in Nat /\ c.debt \in Nat
        /\ c.credit_line - c.debt = SumFunction(WorthIn(p, t, ds, a))
    BY <1>1, <2>2, <2>3, <2>5, CreditIs
  <2>8. Health(q, t, a) = SumFunction(Worth(q, t, a))  BY <1>1, HealthIs
  <2>9. Worth(q, t, a) = WorthIn(q, t, ds, a)  BY <2>1 DEF Worth
  <2>10. HealthRoundings(p, t, a) \in Nat
    BY <1>1, RoundingsNat DEF HealthRoundings
  <2>11. Health(q, t, a) = c.credit_line - c.debt  BY <2>6, <2>7, <2>8, <2>9
  <2>12. Health(q, t, a) >= -HealthRoundings(p, t, a)  BY <2>2, <2>7, <2>10, <2>11
  <2> QED BY <2>12 DEF KeepsHealth
<1> QED BY <1>4, <1>5

-----------------------------------------------------------------------------
(***************************************************************************)
(* The steps of the platform, and the theorems.                            *)
(***************************************************************************)
\* What roundings can take from an account, as the proofs name it.
LEMMA RoundingIs == \A a : Rounding(a) = HealthRoundings(platform, now, a)
<1> SUFFICES ASSUME NEW a PROVE Rounding(a) = HealthRoundings(platform, now, a)
  OBVIOUS
<1>1. ASSUME NEW m
      PROVE  /\ PendingOnDebts(m) = DebtRatio(m, now)
             /\ PendingOnTokens(m) = TokenRatio(m, now)
  BY DEF PendingOnDebts, PendingOnTokens, DebtRatio, TokenRatio
<1>2. ASSUME NEW d PROVE RoundingIn(d, a) = RoundingOf(platform, now, d, a)
  <2>1. PendingOnTokens(markets[d]) = TokenRatio(markets[d], now)
        /\ PendingOnDebts(markets[d]) = DebtRatio(markets[d], now)
    BY <1>1
  <2> QED BY <2>1 DEF RoundingIn, RoundingOf, HeldSlack, OwedSlack, Outside, markets, entered
<1>3. [d \in Denoms |->
         IF d \in listed(platform) /\ QueryOK(markets[d], now) THEN RoundingIn(d, a) ELSE 0]
        = RoundingsOf(platform, now, a)
  BY <1>2 DEF RoundingsOf, markets
<1> QED BY <1>3 DEF Rounding, HealthRoundings

\* Nothing that is worth a C token is nothing.
LEMMA BurntIsSomething ==
  ASSUME NEW K, NEW m, NEW t \in Nat, Sound(K, m, t), Rated(m), NEW a \in Accounts,
         NEW amount \in Nat, WithdrawBaseOK(m, t, a, amount)
  PROVE  amount \in Nat \ {0}
<1> DEFINE c == charge_interest(m, t)
           M == c.ctoken.multiplier
<1>1. /\ ChargeOK(m, t) /\ FromBaseOK(c.ctoken, amount)
      /\ BurnOK(c.ctoken, a, FromBase(c.ctoken, amount))
  BY DEF WithdrawBaseOK, BurnBaseOK
<1>2. c.ctoken \in TokenState
  <2>1. Sound(K, c, t)  BY <1>1, ChargeSound
  <2> QED BY <2>1, StoredNat DEF Sound
<1>3. M \in Nat \ {0} /\ FromBase(c.ctoken, amount) = base_to_token(amount, M)
      /\ base_to_token(amount, M) > 0
  BY <1>1, <1>2 DEF FromBaseOK, FromBase, BurnOK, TokenState
<1> HIDE DEF M
<1>4. base_to_token(0, M) = 0
  <2>1. DecimalFractional \in Nat /\ 0 * DecimalFractional = 0
    BY FractionAssumption
  <2>2. 0 \div M = 0
    BY <1>3, DivBounds
  <2> QED BY <2>1, <2>2 DEF base_to_token
<1> QED BY <1>3, <1>4

\* The health of an account whose credit is known is a number.
LEMMA KnownHealth ==
  ASSUME PlatformDebts, PlatformDebts', NEW a \in Users, SameValues(a), CreditKnown(a)
  PROVE  /\ Health(platform, now, a) \in Int /\ Health(platform', now, a) \in Int
         /\ HealthRoundings(platform, now, a) \in Nat
<1>1. /\ now \in Nat /\ PlatformSound(platform, now) /\ Lent(platform)
      /\ PlatformSound(platform', now) /\ Lent(platform') /\ a \in Accounts
  BY PlatformAssumption DEF PlatformDebts, PlatformInv, Counted, SameValues
<1>2. TotalCreditLineOK(platform, now, a) /\ TotalCreditLineOK(platform', now, a)
  BY DEF CreditKnown, SameValues
<1>3. Health(platform, now, a) \in Int  BY <1>1, <1>2, HealthIs
<1>4. Health(platform', now, a) \in Int  BY <1>1, <1>2, HealthIs
<1>5. HealthRoundings(platform, now, a) \in Nat  BY <1>1, RoundingsNat DEF HealthRoundings
<1> QED BY <1>3, <1>4, <1>5

\* What a transaction that leaves values alone does to an account's health.
LEMMA StepKeepsHealth ==
  ASSUME BorrowLimitRatio <= One, PlatformDebts, PlatformDebts', [Next]_vars,
         NEW e \in Users, SameValues(e), CreditKnown(e),
         ~ SellsMore(e), Health(platform, now, e) >= 0 => ~ TransfersAbovePar(e),
         Health(platform, now, e) < 0 => Discounted
  PROVE  KeepsHealth(platform, platform', now, e)
<1> DEFINE Kept == KeepsHealth(platform, platform', now, e)
<1> SUFFICES Kept  OBVIOUS
<1> USE DEF Commit
<1>a. /\ now \in Nat /\ PlatformSound(platform, now)
      /\ now' = now /\ PlatformSound(platform', now)
      /\ Lent(platform) /\ Lent(platform') /\ platform' # platform
      /\ Users \subseteq Accounts /\ e \in Accounts
      /\ DepositAmounts \subseteq Nat /\ WithdrawAmounts \subseteq Nat
      /\ LoanAmounts \subseteq Nat /\ RepaidAmounts \subseteq Nat
      /\ TransferAmounts \subseteq Nat /\ SellLimits \subseteq Nat
  BY PlatformAssumption DEF PlatformDebts, PlatformInv, Counted, SameValues
<1>b. Observed(platform, platform', now, e)
  BY <1>a DEF Observed, SameValues, CreditKnown, markets, entered
<1> HIDE DEF Kept
<1>c. now \in Nat /\ e \in Accounts  BY <1>a
<1>1. CASE MarketNext
  <2> SUFFICES ASSUME NEW a \in Users, NEW d \in Denoms,
                      \/ \E amount \in DepositAmounts : Deposit(a, d, amount)
                      \/ \E amount \in WithdrawAmounts : Withdraw(a, d, amount)
                      \/ \E amount \in LoanAmounts : Borrow(a, d, amount)
                      \/ \E amount \in RepaidAmounts : Repay(a, d, amount)
                      \/ \E b \in Users, amount \in TransferAmounts :
                            Transfer(a, b, d, amount)
               PROVE  Kept
    BY <1>1 DEF MarketNext
  <2>a. a \in Accounts  BY <1>a
  <2>1. ASSUME NEW amount \in DepositAmounts, Deposit(a, d, amount) PROVE Kept
    <3>1. amount \in Nat  BY <1>a
    <3>2. /\ MarketDepositOK(platform, now, a, d, amount)
          /\ platform' = market_deposit(platform, now, a, d, amount)
      BY <2>1 DEF Deposit
    <3> QED BY <1>b, <1>c, <2>a, <3>1, <3>2, DepositKeepsHealth DEF Kept
  <2>2. ASSUME NEW amount \in WithdrawAmounts, Withdraw(a, d, amount) PROVE Kept
    <3>1. /\ MarketWithdrawOK(platform, now, a, d, amount, total_credit_line(platform, now, a))
          /\ platform' = market_withdraw(platform, now, a, d, amount)
      BY <2>2 DEF Withdraw
    <3>2. amount \in Nat \ {0}
      <4>1. d \in listed(platform) /\ WithdrawBaseOK(platform.markets[d], now, a, amount)
        BY <3>1 DEF MarketWithdrawOK
      <4>2. /\ Sound(Configs({platform.common_token}), platform.markets[d], now)
            /\ Rated(platform.markets[d])
        BY <1>a, <4>1, ListedRated
      <4>3. amount \in Nat  BY <1>a
      <4> QED BY <1>c, <2>a, <4>1, <4>2, <4>3, BurntIsSomething
    <3> QED BY <1>b, <1>c, <2>a, <3>1, <3>2, WithdrawKeepsHealth DEF Kept
  <2>3. ASSUME NEW amount \in LoanAmounts, Borrow(a, d, amount) PROVE Kept
    <3>1. amount \in Nat  BY <1>a
    <3>2. /\ MarketBorrowOK(platform, now, a, d, amount, total_credit_line(platform, now, a))
          /\ platform' = market_borrow(platform, now, a, d, amount)
      BY <2>3 DEF Borrow
    <3> QED BY <1>b, <1>c, <2>a, <3>1, <3>2, BorrowKeepsHealth DEF Kept
  <2>4. ASSUME NEW amount \in RepaidAmounts, Repay(a, d, amount) PROVE Kept
    <3>1. amount \in Nat  BY <1>a
    <3>2. /\ MarketRepayOK(platform, now, a, d, amount)
          /\ base_to_token(amount, charge_interest(platform.markets[d], now).debt_multiplier)
               <= platform.markets[d].debt[a]
          /\ platform' = market_repay(platform, now, a, d, amount)
      BY <2>4 DEF Repay, markets
    <3> QED BY <1>b, <1>c, <2>a, <3>1, <3>2, RepayKeepsHealth DEF Kept
  <2>5. ASSUME NEW b \in Users, NEW amount \in TransferAmounts, Transfer(a, b, d, amount)
        PROVE  Kept
    <3>1. b \in Accounts  BY <1>a
    <3>2. /\ TotalCreditLineOK(platform, now, a)
          /\ CTokenTransferOK(platform, a, b, d, amount, total_credit_line(platform, now, a))
          /\ platform' = ctoken_transfer(platform, a, b, d, amount)
      BY <2>5 DEF Transfer
    <3>3. d \in listed(platform) /\ TransferOK(platform.markets[d].ctoken, a, b, amount)
      BY <3>2 DEF CTokenTransferOK
    <3>4. amount \in Nat \ {0}  BY <1>a, <3>3 DEF TransferOK
    <3>5. e = a /\ QueryOK(platform.markets[d], now) /\ Health(platform, now, e) >= 0
            => BelowPar(platform.markets[d], now)
      <4> SUFFICES ASSUME e = a, QueryOK(platform.markets[d], now),
                          Health(platform, now, e) >= 0
                   PROVE  BelowPar(platform.markets[d], now)
        OBVIOUS
      <4> DEFINE m == platform.markets[d]
                 worth == m.ctoken.multiplier * (One + TokenRatio(m, now))
      <4>1. worth \in Int /\ One * One \in Int
        <5>1. Sound(Configs({platform.common_token}), m, now) /\ Rated(m)
          BY <1>a, <3>3, ListedRated
        <5>2. m.ctoken.multiplier \in Nat /\ TokenRatio(m, now) \in Nat
          BY <1>c, <5>1, StoredNat, QueriedNat DEF Sound
        <5> QED BY <5>2, FractionAssumption DEF One
      <4>2. ~ (m.ctoken.multiplier * (One + PendingOnTokens(m)) > One * One)
        BY <2>5 DEF TransfersAbovePar, markets
      <4>3. PendingOnTokens(m) = TokenRatio(m, now)
        BY DEF TokenRatio, PendingOnTokens
      <4>4. ~ (worth > One * One)  BY <4>2, <4>3
      <4> HIDE DEF worth
      <4>5. worth <= One * One  BY <4>1, <4>4
      <4> QED BY <4>5 DEF BelowPar, worth
    <3> QED BY <1>b, <1>c, <2>a, <3>1, <3>2, <3>4, <3>5, TransferKeepsHealth DEF Kept
  <2> QED BY <2>1, <2>2, <2>3, <2>4, <2>5
<1>2. CASE AgencyNext
  <2>1. ASSUME NEW a \in Users, NEW d \in Denoms, ExitMarket(a, d) PROVE Kept
    <3>1. a \in Accounts  BY <1>a
    <3>2. ExitMarketOK(platform, now, a, d) /\ platform' = exit_market(platform, a, d)
      BY <2>1 DEF ExitMarket
    <3> QED BY <1>b, <1>c, <3>1, <3>2, ExitMarketKeepsHealth DEF Kept
  <2>2. ASSUME NEW a \in Users, NEW c \in Denoms, NEW d \in Denoms, NEW b \in Users,
               NEW amount \in RepaidAmounts, Liquidate(b, a, d, amount, c)
        PROVE  Kept
    <3>1. a \in Accounts /\ b \in Accounts /\ amount \in Nat  BY <1>a
    <3>2. /\ LiquidateOK(platform, now, b, a, d, amount, c)
          /\ platform' = liquidate(platform, now, b, a, d, amount, c)
      BY <2>2 DEF Liquidate
    <3>3. e = a => Discounted
      <4> DEFINE credit == total_credit_line(platform, now, e)
      <4>1. e = a => credit.debt > credit.credit_line  BY <3>2 DEF LiquidateOK
      <4>2. credit = total_credit_line(platform, now, e)  OBVIOUS
      <4> HIDE DEF credit
      <4>3. /\ PlatformSound(platform, now) /\ Lent(platform) /\ TotalCreditLineOK(platform, now, e)
        BY <1>b DEF Observed
      <4>4. credit = CreditLineOver(platform, now, entered[e], e)
            /\ CreditLineOK(platform, now, entered[e], e)
            /\ entered[e] \subseteq listed(platform)
        BY <1>a, <4>2, <4>3 DEF total_credit_line, TotalCreditLineOK, PlatformSound, entered
      <4>5. credit.credit_line \in Nat /\ credit.debt \in Nat
        BY <1>c, <4>3, <4>4, CreditIs
      <4>6. Health(platform, now, e) = credit.credit_line - credit.debt
        BY <4>2 DEF Health
      <4>7. e = a => Health(platform, now, e) < 0
        BY <4>1, <4>5, <4>6
      <4> QED BY <4>7
    <3> QED BY <1>b, <1>c, <3>1, <3>2, <3>3, LiquidateKeepsHealth DEF Kept
  <2>3. ASSUME NEW a \in Users, NEW c \in Denoms, NEW d \in Denoms,
               NEW amount \in RepaidAmounts, NEW estimate \in SellLimits,
               NEW max_collateral \in SellLimits,
               RepayWithCollateral(a, c, max_collateral, d, amount, estimate)
        PROVE  Kept
    <3>1. a \in Accounts /\ amount \in Nat /\ estimate \in Nat /\ max_collateral \in Nat
      BY <1>a
    <3>2. /\ RepayWithCollateralOK(platform, now, a, c, max_collateral, d, amount, estimate)
          /\ platform' = repay_with_collateral(platform, now, a, c, max_collateral, d, amount,
                                               estimate)
      BY <2>3 DEF RepayWithCollateral
    <3>3. e = a /\ c # d => estimate <= max_collateral
      <4>1. e = a /\ c # d => ~ (estimate > max_collateral)
        BY <2>3 DEF SellsMore
      <4> QED BY <3>1, <4>1
    <3> QED BY <1>b, <1>c, <3>1, <3>2, <3>3, RepayWithCollateralKeepsHealth DEF Kept
  <2> QED BY <1>2, <2>1, <2>2, <2>3 DEF AgencyNext
<1>d. /\ platform \in PlatformState
      /\ platform.entered[e] \subseteq listed(platform)
      /\ \A d \in listed(platform) : platform.markets[d] \in StoredMarket(Configs(CommonTokens))
  BY <1>a, ListedRated DEF PlatformSound, MarketState
<1>e. ASSUME platform'.entered = platform.entered,
             \A d \in listed(platform) : SameBooks(platform.markets[d], platform'.markets[d])
      PROVE  Kept
  <2>1. \A d \in platform.entered[e] : SameBooks(platform.markets[d], platform'.markets[d])
    BY <1>d, <1>e
  <2> QED BY <1>b, <1>c, <1>e, <2>1, QuietKeepsHealth DEF Kept
<1>f. ASSUME platform'.entered = platform.entered,
             \A d \in listed(platform) : platform'.markets[d] = platform.markets[d]
      PROVE  Kept
  BY <1>e, <1>f DEF SameBooks
<1>3. CASE GovernanceNext
  <2>1. ASSUME NEW d \in Denoms, NEW ratio \in CollateralRatios, CreateMarket(d, ratio)
        PROVE  Kept
    <3>1. d \notin listed(platform)
      BY <2>1 DEF CreateMarket, CreateMarketOK
    <3> DEFINE m == instantiate(now, market_msg(platform, MarketConfig(ratio)))
    <3>2. /\ platform'.entered = platform.entered
          /\ platform'.markets = Saved(platform.markets, d, m)
      BY <1>d, <2>1 DEF CreateMarket, create_market, PlatformState
    <3> HIDE DEF m
    <3>3. \A k \in listed(platform) : platform'.markets[k] = platform.markets[k]
      BY <3>1, <3>2 DEF Saved, listed
    <3> QED BY <1>f, <3>2, <3>3
  <2>2. ASSUME NEW d \in Denoms, NEW ratio \in CollateralRatios,
               AdjustCollateralRatio(d, ratio)
        PROVE  Kept
    <3>1. d \in listed(platform)
          /\ platform' = [platform EXCEPT !.markets[d].collateral_ratio = ratio]
      BY <2>2 DEF AdjustCollateralRatio
    <3>2. /\ platform'.entered = platform.entered
          /\ platform'.markets = [platform.markets EXCEPT ![d].collateral_ratio = ratio]
      BY <1>d, <3>1 DEF PlatformState
    <3>3. \A k \in listed(platform) : SameBooks(platform.markets[k], platform'.markets[k])
      BY <1>d, <3>1, <3>2 DEF SameBooks, StoredMarket, listed
    <3> QED BY <1>e, <3>2, <3>3
  <2>3. ASSUME NEW new \in CommonTokens, AdjustCommonToken(new) PROVE Kept
    <3>1. /\ platform'.markets = [d \in listed(platform) |->
                                    adjust_common_token(platform.markets[d], new)]
          /\ platform'.entered = platform.entered
      BY <1>d, <2>3 DEF AdjustCommonToken, adjust_agency_common_token, PlatformState
    <3>2. \A k \in listed(platform) : SameBooks(platform.markets[k], platform'.markets[k])
      BY <1>d, <3>1 DEF SameBooks, StoredMarket, adjust_common_token
    <3> QED BY <1>e, <3>1, <3>2
  <2> QED BY <1>3, <2>1, <2>2, <2>3 DEF GovernanceNext
<1>4. CASE OracleNext
  <2>1. ASSUME NEW pair \in Pairs, RegisterPool(pair) PROVE Kept
    <3>1. platform'.entered = platform.entered /\ platform'.markets = platform.markets
      BY <1>d, <2>1 DEF RegisterPool, PlatformState
    <3> QED BY <1>f, <3>1
  <2>2. ASSUME NEW pair \in Pairs, NEW price \in Prices, ChangePrice(pair, price) PROVE Kept
    <3>1. platform'.entered = platform.entered /\ platform'.markets = platform.markets
      BY <1>d, <2>2 DEF ChangePrice, PlatformState
    <3> QED BY <1>f, <3>1
  <2> QED BY <1>4, <2>1, <2>2 DEF OracleNext
<1>5. ~ (Tick \/ UNCHANGED vars)
  BY <1>a DEF Tick, vars
<1>6. [Next]_vars  OBVIOUS
<1> QED BY <1>1, <1>2, <1>3, <1>4, <1>5, <1>6 DEF Next

\* No transaction brings an account that is afloat to where it can be
\* liquidated, but for two of its own: one that repays with more collateral
\* than it allowed, and a transfer of C tokens that are worth more than a base
\* token each.
THEOREM SafetyKept ==
  ASSUME BorrowLimitRatio <= One
  PROVE  Spec => SafeStaysSafe
<1> DEFINE Kept(a) == Health(platform', now', a) >= -Rounding(a)
           Afloat(a) == SameValues(a) /\ CreditKnown(a) /\ Health(platform, now, a) >= 0
                          => \/ Kept(a)
                             \/ SellsMore(a)
                             \/ TransfersAbovePar(a)
<1>1. ASSUME PlatformDebts, PlatformDebts', [Next]_vars, NEW a \in Users,
             SameValues(a), CreditKnown(a), Health(platform, now, a) >= 0,
             ~ SellsMore(a), ~ TransfersAbovePar(a)
      PROVE  Kept(a)
  <2>1. Health(platform, now, a) \in Int /\ Health(platform', now, a) \in Int
        /\ HealthRoundings(platform, now, a) \in Nat
    BY <1>1, KnownHealth
  <2>2. ~ (Health(platform, now, a) < 0)  BY <1>1, <2>1
  <2>3. KeepsHealth(platform, platform', now, a)
    BY <1>1, <2>2, StepKeepsHealth
  <2>4. Rounding(a) = HealthRoundings(platform, now, a)  BY RoundingIs
  <2>5. now' = now  BY <1>1 DEF SameValues
  <2> QED BY <1>1, <2>1, <2>3, <2>4, <2>5 DEF KeepsHealth
<1>2. PlatformDebts /\ PlatformDebts' /\ [Next]_vars => [\A a \in Users : Afloat(a)]_vars
  <2> HIDE DEF Kept
  <2> QED BY <1>1
<1> QED BY <1>2, PlatformDebtsHold, PTL DEF Spec, SafeStaysSafe

\* A liquidation pays off an account, rather than sinks it: no transaction
\* deepens the shortfall of an account that can be liquidated, but one in which
\* it repays with more collateral than it allowed, if collateral counts for
\* less in a credit line than the liquidator pays for it, as the check in
\* create_market makes sure.
THEOREM ShortfallKept ==
  ASSUME BorrowLimitRatio <= One, Discounted
  PROVE  Spec => ShortfallNotDeepened
<1> DEFINE Kept(a) == Health(platform', now', a) >= Health(platform, now, a) - Rounding(a)
           Sunk(a) == SameValues(a) /\ CreditKnown(a) /\ Health(platform, now, a) < 0
                        => \/ Kept(a)
                           \/ SellsMore(a)
<1>1. ASSUME PlatformDebts, PlatformDebts', [Next]_vars, NEW a \in Users,
             SameValues(a), CreditKnown(a), Health(platform, now, a) < 0, ~ SellsMore(a)
      PROVE  Kept(a)
  <2>1. Health(platform, now, a) \in Int /\ Health(platform', now, a) \in Int
        /\ HealthRoundings(platform, now, a) \in Nat
    BY <1>1, KnownHealth
  <2>2. ~ (Health(platform, now, a) >= 0)  BY <1>1, <2>1
  <2>3. KeepsHealth(platform, platform', now, a)
    BY <1>1, <2>2, StepKeepsHealth
  <2>4. Rounding(a) = HealthRoundings(platform, now, a)  BY RoundingIs
  <2>5. now' = now  BY <1>1 DEF SameValues
  <2> QED BY <1>1, <2>1, <2>3, <2>4, <2>5 DEF KeepsHealth
<1>2. PlatformDebts /\ PlatformDebts' /\ [Next]_vars => [\A a \in Users : Sunk(a)]_vars
  <2> HIDE DEF Kept
  <2> QED BY <1>1
<1> QED BY <1>2, PlatformDebtsHold, PTL DEF Spec, ShortfallNotDeepened
=============================================================================
