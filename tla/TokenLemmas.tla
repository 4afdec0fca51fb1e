----------------------------- MODULE TokenLemmas -----------------------------
(***************************************************************************)
(* What the handlers of the C token do to its type and to the sum of its   *)
(* balances, for every set of accounts and every width of the integers.    *)
(* TokenProofs uses them for the token alone, MarketProofs for the token   *)
(* inside a market's transactions.                                         *)
(***************************************************************************)
EXTENDS TokenHandlers, SumTheorems

-----------------------------------------------------------------------------
(***************************************************************************)
(* The wrapping arithmetic.                                                *)
(***************************************************************************)
\* The remainder of an integer is below the divisor.
LEMMA ModType ==
  ASSUME NEW x \in Int, NEW n \in Nat \ {0}
  PROVE  x % n \in 0 .. n - 1
OBVIOUS

\* The quotient of natural numbers is a natural number.
LEMMA DivType ==
  ASSUME NEW x \in Nat, NEW n \in Nat \ {0}
  PROVE  x \div n \in Nat
OBVIOUS

\* Quotient and remainder make up the number.
LEMMA DivMod ==
  ASSUME NEW x \in Int, NEW n \in Nat \ {0}
  PROVE  x \div n \in Int /\ x = n * (x \div n) + (x % n) /\ x % n \in 0 .. n - 1
OBVIOUS

\* Quotients grow with the dividend.
LEMMA DivMonotone ==
  ASSUME NEW x \in Nat, NEW y \in Nat, x <= y, NEW n \in Nat \ {0}
  PROVE  x \div n <= y \div n
<1> DEFINE p == x \div n
           q == y \div n
<1>1. /\ p \in Int /\ q \in Int
      /\ x = n * p + (x % n) /\ x % n \in 0 .. n - 1
      /\ y = n * q + (y % n) /\ y % n \in 0 .. n - 1
  BY DivMod
<1> HIDE DEF p, q
<1>2. n * p < n * (q + 1)
  BY <1>1
<1>3. p < q + 1
  BY <1>1, <1>2
<1> QED BY <1>1, <1>3 DEF p, q

\* Reading a number as a u128 gives a number of that width.
LEMMA U128Type ==
  ASSUME NEW x \in Int
  PROVE  U128(x) \in 0 .. Modulus - 1
BY ModType, ModulusAssumption DEF U128

\* Reading a number as an i128 gives a number of that width.
LEMMA I128Type ==
  ASSUME NEW x \in Int
  PROVE  I128(x) \in -(Modulus \div 2) .. (Modulus \div 2) - 1
<1> DEFINE h == Modulus \div 2
<1>1. h \in Nat /\ Modulus = 2 * h
  BY ModulusAssumption
<1>2. x + h \in Int  BY <1>1
<1>3. (x + h) % Modulus \in 0 .. Modulus - 1
  BY <1>2, ModType, ModulusAssumption
<1> QED BY <1>1, <1>3 DEF I128

\* Division with remainder is unique.
LEMMA Euclid ==
  ASSUME NEW x \in Int, NEW n \in Nat \ {0}, NEW q \in Int, NEW r \in 0 .. n - 1,
         x = n * q + r
  PROVE  x \div n = q /\ x % n = r
OBVIOUS

\* A number below the divisor is its own remainder.
LEMMA ModSmall ==
  ASSUME NEW n \in Nat \ {0}, NEW x \in 0 .. n - 1
  PROVE  x % n = x
<1>1. x = n * 0 + x  OBVIOUS
<1> QED BY <1>1, Euclid

\* Adding a multiple of the divisor does not change the remainder.
LEMMA ModShift ==
  ASSUME NEW x \in Int, NEW n \in Nat \ {0}, NEW k \in Int
  PROVE  (x + n * k) % n = x % n
<1> DEFINE q == x \div n
           r == x % n
<1>1. q \in Int /\ r \in 0 .. n - 1 /\ x = n * q + r
  BY ModType
<1> HIDE DEF q, r
<1>2. x + n * k = n * (q + k) + r /\ q + k \in Int /\ x + n * k \in Int
  BY <1>1
<1>3. (x + n * k) % n = r
  BY <1>1, <1>2, Euclid
<1> QED BY <1>3 DEF r

\* A sum that is read as a u128 may have wrapped as an i128 before.
LEMMA U128OfI128 ==
  ASSUME NEW x \in Int, NEW y \in Int
  PROVE  U128(x + I128(y)) = U128(x + y)
<1> DEFINE h == Modulus \div 2
           q == (y + h) \div Modulus
           r == (y + h) % Modulus
<1>1. h \in Nat /\ Modulus \in Nat \ {0}
  BY ModulusAssumption
<1>2. y + h \in Int  BY <1>1
<1>3. q \in Int /\ r \in Int /\ y + h = Modulus * q + r
  BY <1>1, <1>2
<1>4. I128(y) = r - h
  BY DEF I128
<1> HIDE DEF q, r, h
<1>5. x + I128(y) = (x + y) + Modulus * (- q)
  BY <1>1, <1>3, <1>4
<1>6. ((x + y) + Modulus * (- q)) % Modulus = (x + y) % Modulus
  <2>1. x + y \in Int /\ - q \in Int  BY <1>3
  <2> QED BY <1>1, <2>1, ModShift
<1> QED BY <1>5, <1>6 DEF U128
-----------------------------------------------------------------------------
(***************************************************************************)
(* Type correctness: each handler keeps the storage in its type.           *)
(***************************************************************************)
\* Changing a balance, with its correction, keeps the storage in its type if
\* the new balance fits.
LEMMA ChangeBalanceType ==
  ASSUME NEW t \in TokenState, NEW a \in Accounts, NEW diff \in Int,
         Fits(t.balances[a] + diff)
  PROVE  ChangeBalance(t, a, diff) \in TokenState
<1>1. I128(t.points_correction[a] - t.points_per_token * diff)
        \in -(Modulus \div 2) .. (Modulus \div 2) - 1
  <2>1. t.points_correction[a] \in Int /\ t.points_per_token \in Int
    BY ModulusAssumption DEF TokenState
  <2> QED BY <2>1, I128Type
<1> QED BY <1>1 DEF ChangeBalance, TokenState, Fits

\* transfer_tokens keeps the storage in its type, also to the sender itself.
LEMMA TransferType ==
  ASSUME NEW t \in TokenState, NEW s \in Accounts, NEW r \in Accounts,
         NEW amount \in Nat, TransferOK(t, s, r, amount)
  PROVE  transfer_tokens(t, s, r, amount) \in TokenState
<1> DEFINE u == ChangeBalance(t, s, -amount)
<1>1. Fits(t.balances[s] + (-amount))
  BY ModulusAssumption DEF TransferOK, Fits, TokenState
<1>2. u \in TokenState
  BY <1>1, ChangeBalanceType
<1>3. Fits(u.balances[r] + amount)
  BY DEF TransferOK
<1> HIDE DEF u
<1>4. ChangeBalance(u, r, amount) \in TokenState
  BY <1>2, <1>3, ChangeBalanceType
<1> QED BY <1>4 DEF transfer_tokens, u

\* mint keeps the storage in its type.
LEMMA MintType ==
  ASSUME NEW t \in TokenState, NEW r \in Accounts, NEW amount \in Nat,
         MintOK(t, r, amount)
  PROVE  mint(t, r, amount) \in TokenState
<1>1. ChangeBalance(t, r, amount) \in TokenState
  BY ChangeBalanceType DEF MintOK
<1>2. ChangeBalance(t, r, amount).total_supply = t.total_supply
  BY DEF ChangeBalance, TokenState
<1> QED BY <1>1, <1>2 DEF mint, MintOK, Fits, TokenState

\* burn_from keeps the storage in its type.
LEMMA BurnType ==
  ASSUME NEW t \in TokenState, NEW o \in Accounts, NEW amount \in Nat,
         BurnOK(t, o, amount)
  PROVE  burn_from(t, o, amount) \in TokenState
<1>1. Fits(t.balances[o] + (-amount))
  BY ModulusAssumption DEF BurnOK, Fits, TokenState
<1>2. ChangeBalance(t, o, -amount) \in TokenState
  BY <1>1, ChangeBalanceType
<1>3. ChangeBalance(t, o, -amount).total_supply = t.total_supply
  BY DEF ChangeBalance, TokenState
<1>4. t.total_supply - amount \in 0 .. Modulus - 1
  BY ModulusAssumption DEF BurnOK, TokenState
<1> QED BY <1>2, <1>3, <1>4 DEF burn_from, TokenState

\* distribute keeps the storage in its type, although its points wrap.
LEMMA DistributeType ==
  ASSUME NEW t \in TokenState, NEW held \in Nat, DistributeOK(t, held)
  PROVE  distribute(t, held) \in TokenState
<1>1. CASE Undistributed(t, held) = 0
  BY <1>1 DEF distribute
<1>2. CASE Undistributed(t, held) # 0
  <2> DEFINE p == DistributedPoints(t, held)
             s == t.total_supply
  <2>1. s \in Nat \ {0} /\ s \in 0 .. Modulus - 1
    BY DEF DistributeOK, TokenState
  <2>2. Undistributed(t, held) \in Int
    <3>1. held - t.withdrawable_total \in Int  BY DEF TokenState
    <3> QED BY <3>1, U128Type DEF Undistributed
  <2>3. p \in Nat
    <3>1. Undistributed(t, held) * PointsScale + t.points_leftover \in Int
      BY <2>2, TokenAssumption DEF TokenState
    <3> QED BY <3>1, U128Type DEF DistributedPoints
  <2> HIDE DEF p
  <2>4. p % s \in 0 .. Modulus - 1
    <3>1. p % s \in 0 .. s - 1  BY <2>1, <2>3, ModType
    <3> QED BY <3>1, <2>1, ModulusAssumption
  <2>5. distribute(t, held) =
          [t EXCEPT !.points_leftover = p % s,
                    !.points_per_token = @ + (p \div s),
                    !.distributed_total = @ + Undistributed(t, held),
                    !.withdrawable_total = @ + Undistributed(t, held)]
    BY <1>2 DEF distribute, p
  <2>6. /\ Fits(t.points_per_token + (p \div s))
        /\ Fits(t.distributed_total + Undistributed(t, held))
        /\ Fits(t.withdrawable_total + Undistributed(t, held))
    BY <1>2 DEF DistributeOK, p
  <2> HIDE DEF s
  <2> QED BY <2>4, <2>5, <2>6 DEF Fits, TokenState
<1> QED BY <1>1, <1>2

\* withdraw_funds keeps the storage in its type and pays no negative amount.
LEMMA WithdrawType ==
  ASSUME NEW t \in TokenState, NEW o \in Accounts, NEW held \in Nat,
         WithdrawOK(t, o, held)
  PROVE  /\ withdraw_funds(t, o) \in TokenState
         /\ withdrawable_funds(t, o) \in Nat
<1>1. withdrawable_funds(t, o) \in Nat
  <2>1. t.points_per_token * t.balances[o] + t.points_correction[o] \in Int
    BY ModulusAssumption DEF TokenState
  <2>2. Points(t, o) \in Nat
    BY <2>1, U128Type DEF Points
  <2>3. Points(t, o) \div PointsScale \in Nat
    BY <2>2, DivType, TokenAssumption
  <2>4. (Points(t, o) \div PointsScale) - t.withdrawn_funds[o] \in Int
    BY <2>3 DEF TokenState
  <2> QED BY <2>4, U128Type DEF withdrawable_funds
<1>2. t.withdrawable_total - withdrawable_funds(t, o) \in 0 .. Modulus - 1
  BY <1>1, ModulusAssumption DEF WithdrawOK, TokenState
<1> QED BY <1>1, <1>2 DEF withdraw_funds, WithdrawOK, Fits, TokenState

\* rebase keeps the storage in its type.
LEMMA RebaseType ==
  ASSUME NEW t \in TokenState, NEW ratio, RebaseOK(t, ratio)
  PROVE  rebase(t, ratio) \in TokenState
BY DEF RebaseOK, rebase, Fits, TokenState

-----------------------------------------------------------------------------
(***************************************************************************)
(* What the handlers do to the sum of the balances.                        *)
(***************************************************************************)
\* Changing one balance changes the sum of the balances by as much, and not the
\* stored supply.
LEMMA ChangeBalanceSum ==
  ASSUME NEW t \in TokenState, NEW a \in Accounts, NEW diff \in Int
  PROVE  /\ SumFunction(ChangeBalance(t, a, diff).balances)
              = SumFunction(t.balances) + diff
         /\ ChangeBalance(t, a, diff).total_supply = t.total_supply
<1>1. t.balances \in [Accounts -> Int] /\ t.balances[a] + diff \in Int
  BY ModulusAssumption DEF TokenState
<1>2. ChangeBalance(t, a, diff).balances
        = [t.balances EXCEPT ![a] = t.balances[a] + diff]
  BY DEF ChangeBalance, TokenState
<1>3. SumFunction(ChangeBalance(t, a, diff).balances)
        = SumFunction(t.balances) - t.balances[a] + (t.balances[a] + diff)
  BY <1>1, <1>2, SumExcept, TokenAssumption
<1>4. SumFunction(t.balances) \in Int /\ t.balances[a] \in Int
  BY <1>1, SumInt, TokenAssumption
<1>5. ChangeBalance(t, a, diff).total_supply = t.total_supply
  BY DEF ChangeBalance, TokenState
<1> QED BY <1>3, <1>4, <1>5

\* The supply of the storage t is the sum of its balances.
Backed(t) == t.total_supply = SumFunction(t.balances)

\* transfer_tokens leaves the sum of the balances alone.
LEMMA TransferSum ==
  ASSUME NEW t \in TokenState, NEW s \in Accounts, NEW r \in Accounts,
         NEW amount \in Nat, TransferOK(t, s, r, amount), Backed(t)
  PROVE  Backed(transfer_tokens(t, s, r, amount))
<1> DEFINE u == ChangeBalance(t, s, -amount)
<1>1. u \in TokenState
  <2>1. Fits(t.balances[s] + (-amount))
    BY ModulusAssumption DEF TransferOK, Fits, TokenState
  <2> QED BY <2>1, ChangeBalanceType
<1>2. /\ SumFunction(u.balances) = SumFunction(t.balances) + (-amount)
      /\ u.total_supply = t.total_supply
  BY ChangeBalanceSum
<1> HIDE DEF u
<1>3. /\ SumFunction(ChangeBalance(u, r, amount).balances)
           = SumFunction(u.balances) + amount
      /\ ChangeBalance(u, r, amount).total_supply = u.total_supply
  BY <1>1, ChangeBalanceSum
<1>4. t.total_supply \in Int  BY DEF TokenState
<1> QED BY <1>2, <1>3, <1>4 DEF Backed, transfer_tokens, u

\* mint adds the same to the supply as to the sum of the balances.
LEMMA MintSum ==
  ASSUME NEW t \in TokenState, NEW r \in Accounts, NEW amount \in Nat,
         MintOK(t, r, amount), Backed(t)
  PROVE  Backed(mint(t, r, amount))
<1> DEFINE u == ChangeBalance(t, r, amount)
<1>1. u \in TokenState
  BY ChangeBalanceType DEF MintOK
<1>2. /\ SumFunction(u.balances) = SumFunction(t.balances) + amount
      /\ u.total_supply = t.total_supply
  BY ChangeBalanceSum
<1>3. /\ mint(t, r, amount).balances = u.balances
      /\ mint(t, r, amount).total_supply = u.total_supply + amount
  BY <1>1 DEF mint, TokenState
<1> HIDE DEF u
<1>4. t.total_supply \in Int  BY DEF TokenState
<1> QED BY <1>2, <1>3, <1>4 DEF Backed

\* burn_from takes the same from the supply as from the sum of the balances.
LEMMA BurnSum ==
  ASSUME NEW t \in TokenState, NEW o \in Accounts, NEW amount \in Nat,
         BurnOK(t, o, amount), Backed(t)
  PROVE  Backed(burn_from(t, o, amount))
<1> DEFINE u == ChangeBalance(t, o, -amount)
<1>1. u \in TokenState
  <2>1. Fits(t.balances[o] + (-amount))
    BY ModulusAssumption DEF BurnOK, Fits, TokenState
  <2> QED BY <2>1, ChangeBalanceType
<1>2. /\ SumFunction(u.balances) = SumFunction(t.balances) + (-amount)
      /\ u.total_supply = t.total_supply
  BY ChangeBalanceSum
<1>3. /\ burn_from(t, o, amount).balances = u.balances
      /\ burn_from(t, o, amount).total_supply = u.total_supply - amount
  BY <1>1 DEF burn_from, TokenState
<1> HIDE DEF u
<1>4. t.total_supply \in Int  BY DEF TokenState
<1> QED BY <1>2, <1>3, <1>4 DEF Backed

\* Rewards and rebases leave the balances and the supply alone.
LEMMA SameSupply ==
  ASSUME NEW t \in TokenState, Backed(t)
  PROVE  /\ \A held : Backed(distribute(t, held))
         /\ \A o : Backed(withdraw_funds(t, o))
         /\ \A ratio : Backed(rebase(t, ratio))
BY DEF Backed, distribute, withdraw_funds, rebase, TokenState

-----------------------------------------------------------------------------
\* The storage of a new token has its type.
LEMMA EmptyTokenType == EmptyToken \in TokenState
<1>1. 0 \in 0 .. Modulus - 1 /\ 0 \in -(Modulus \div 2) .. (Modulus \div 2) - 1
  BY ModulusAssumption
<1> QED BY <1>1, TokenAssumption, ModulusAssumption DEF EmptyToken, TokenState

\* The amount of a message in base tokens is converted to a natural number.
LEMMA FromBaseNat ==
  ASSUME NEW t, NEW amount, FromBaseOK(t, amount)
  PROVE  FromBase(t, amount) \in Nat
BY ModulusAssumption DEF FromBaseOK, Fits

=============================================================================
