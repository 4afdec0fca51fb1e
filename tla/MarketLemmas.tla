----------------------------- MODULE MarketLemmas ----------------------------
(***************************************************************************)
(* Lemmas about the handlers of MarketHandlers: each keeps a market sound, *)
(* for any configuration, time and amounts.                                *)
(***************************************************************************)
EXTENDS MarketHandlers, InterestLemmas

\* What every handler keeps of a market's storage at the time t: its type, the
\* charging clock, the supply of C tokens and the bound on the total debt.
Sound(K, m, t) ==
    /\ m \in StoredMarket(K)
    /\ m.charge_period \in Nat \ {0}
    /\ m.last_charged % m.charge_period = 0
    /\ m.last_charged <= t
    /\ Backed(m.ctoken)
    /\ m.total_points <= SumFunction(m.debt)

-----------------------------------------------------------------------------
(***************************************************************************)
(* Charging interest.                                                      *)
(***************************************************************************)
\* The whole periods since an aligned time end at an aligned time, which is
\* not later than now.
LEMMA WholePeriods ==
  ASSUME NEW p \in Nat \ {0}, NEW last \in Nat, NEW t \in Nat,
         last % p = 0, last <= t
  PROVE  /\ (t - last) \div p \in Nat
         /\ last + ((t - last) \div p) * p \in Nat
         /\ last + ((t - last) \div p) * p <= t
         /\ (last + ((t - last) \div p) * p) % p = 0
<1> DEFINE e == (t - last) \div p
           k == last \div p
<1>1. e \in Nat /\ k \in Nat
  BY DivType
<1>2. e * p <= t - last /\ e * p \in Nat
  <2>1. t - last \in Nat  OBVIOUS
  <2>2. t - last = p * e + ((t - last) % p) /\ (t - last) % p >= 0
    BY <2>1
  <2> HIDE DEF e
  <2>3. p * e = e * p /\ e * p \in Nat  BY <1>1
  <2>4. (t - last) % p \in Nat BY <2>1
  <2> QED BY <2>2, <2>3, <2>4
<1>3. last = p * k
  BY <1>1
<1> HIDE DEF e, k
<1>4. last + e * p = p * (k + e)
  BY <1>1, <1>3
<1>5. (p * (k + e)) % p = 0
  <2>1. k + e \in Nat  BY <1>1
  <2> QED BY <2>1
<1> QED BY <1>1, <1>2, <1>4, <1>5 DEF e

\* The reserve is minted on the rebased C tokens: they keep their type, and
\* their supply stays the sum of the balances.
LEMMA ReserveSound ==
  ASSUME NEW K, NEW m \in StoredMarket(K), NEW epochs, Backed(m.ctoken),
         InterestOK(m, epochs), ReserveOK(m, epochs)
  PROVE  with_reserve(m, epochs) \in TokenState /\ Backed(with_reserve(m, epochs))
<1> DEFINE r == rebased(m, epochs)
           tokens == FromBase(r, reserve(m, epochs))
<1>1. m.ctoken \in TokenState  BY DEF StoredMarket
<1>2. r \in TokenState /\ Backed(r)
  BY <1>1, RebaseType, SameSupply DEF InterestOK, rebased
<1>3. CASE reserve(m, epochs) > 0
  <2>1. FromBaseOK(r, reserve(m, epochs)) /\ MintOK(r, Governance, tokens)
    BY <1>3 DEF ReserveOK
  <2> HIDE DEF r
  <2>2. tokens \in Nat  BY <2>1, FromBaseNat
  <2>3. Governance \in Accounts  BY MarketAssumption
  <2> HIDE DEF tokens
  <2>4. mint(r, Governance, tokens) \in TokenState /\ Backed(mint(r, Governance, tokens))
    BY <1>2, <2>1, <2>2, <2>3, MintType, MintSum
  <2> QED BY <1>3, <2>4 DEF with_reserve, r, tokens
<1>4. CASE ~ (reserve(m, epochs) > 0)
  BY <1>2, <1>4 DEF with_reserve
<1> QED BY <1>3, <1>4

\* Amounts of C tokens and points of debt are worth natural numbers.
LEMMA WorthNat ==
  ASSUME NEW points \in Nat, NEW multiplier \in Nat
  PROVE  token_to_base(points, multiplier) \in Nat
<1>1. points * multiplier \in Nat  OBVIOUS
<1> QED BY <1>1, DivType, FractionAssumption DEF token_to_base, MulInt

\* Charging interest keeps a market sound and the debts in points as they are.
LEMMA ChargeSound ==
  ASSUME NEW K, NEW m, NEW t \in Nat, Sound(K, m, t), ChargeOK(m, t)
  PROVE  /\ Sound(K, charge_interest(m, t), t)
         /\ charge_interest(m, t).debt = m.debt
         /\ charge_interest(m, t).total_points = m.total_points
         /\ charge_interest(m, t).cash = m.cash
         /\ charge_interest(m, t).charge_period = m.charge_period
<1> DEFINE e == epochs_passed(m, t)
           clocked == [m EXCEPT !.last_charged = @ + e * m.charge_period]
<1>1. /\ m \in StoredMarket(K) /\ m.last_charged \in Nat
      /\ m.charge_period \in Nat \ {0}
  BY DEF Sound, StoredMarket
<1>2. /\ e \in Nat
      /\ m.last_charged + e * m.charge_period \in Nat
      /\ m.last_charged + e * m.charge_period <= t
      /\ (m.last_charged + e * m.charge_period) % m.charge_period = 0
  BY <1>1, WholePeriods DEF epochs_passed, Sound
<1> HIDE DEF e
<1>3. /\ clocked \in StoredMarket(K)
      /\ clocked.last_charged = m.last_charged + e * m.charge_period
      /\ clocked.charge_period = m.charge_period
      /\ clocked.debt = m.debt /\ clocked.total_points = m.total_points
      /\ clocked.cash = m.cash /\ clocked.ctoken = m.ctoken
  BY <1>1, <1>2 DEF StoredMarket
<1>4. CASE e = 0 \/ supplied(m) = 0
  <2>1. charge_interest(m, t) = clocked
    BY <1>4 DEF charge_interest, e
  <2> HIDE DEF clocked
  <2> QED BY <1>2, <1>3, <2>1 DEF Sound
<1>5. CASE ~ (e = 0 \/ supplied(m) = 0)
  <2> DEFINE multiplier == MulDec(m.debt_multiplier, One + debt_ratio(m, e))
  <2>1. supplied(m) \in Nat
    <3>1. m.ctoken.total_supply \in Nat /\ m.ctoken.multiplier \in Nat
      BY <1>1, ModulusAssumption DEF StoredMarket, TokenState
    <3> QED BY <3>1, WorthNat DEF supplied
  <2>2. InterestOK(m, e) /\ ReserveOK(m, e)
    BY <1>2, <1>5, <2>1 DEF ChargeOK, e
  <2>3. multiplier \in 0 .. Modulus - 1
    BY <2>2 DEF InterestOK, Fits
  <2>4. with_reserve(m, e) \in TokenState /\ Backed(with_reserve(m, e))
    BY <1>1, <2>2, ReserveSound DEF Sound
  <2>5. charge_interest(m, t) =
          [clocked EXCEPT !.debt_multiplier = MulDec(@, One + debt_ratio(m, e)),
                          !.ctoken = with_reserve(m, e)]
    BY <1>5 DEF charge_interest, e
  <2>6. clocked.debt_multiplier = m.debt_multiplier
    BY <1>1 DEF StoredMarket
  <2> HIDE DEF clocked
  <2>7. charge_interest(m, t) =
          [clocked EXCEPT !.debt_multiplier = multiplier, !.ctoken = with_reserve(m, e)]
    BY <2>5, <2>6
  <2> HIDE DEF multiplier
  <2>8. /\ charge_interest(m, t) \in StoredMarket(K)
        /\ charge_interest(m, t).last_charged = clocked.last_charged
        /\ charge_interest(m, t).charge_period = clocked.charge_period
        /\ charge_interest(m, t).debt = clocked.debt
        /\ charge_interest(m, t).total_points = clocked.total_points
        /\ charge_interest(m, t).cash = clocked.cash
        /\ charge_interest(m, t).ctoken = with_reserve(m, e)
    BY <1>3, <2>3, <2>4, <2>7 DEF StoredMarket
  <2> QED BY <1>2, <1>3, <2>4, <2>8 DEF Sound
<1> QED BY <1>4, <1>5

-----------------------------------------------------------------------------
(***************************************************************************)
(* The steps that the handlers are made of, on a market whose interest is  *)
(* charged.                                                                *)
(***************************************************************************)
\* Another C token storage of its type, with its supply backed, and another
\* amount of cash keep a market sound.
LEMMA TokenStepSound ==
  ASSUME NEW K, NEW m, NEW t, Sound(K, m, t), NEW ctoken \in TokenState, Backed(ctoken),
         NEW cash \in Nat
  PROVE  Sound(K, [m EXCEPT !.ctoken = ctoken, !.cash = cash], t)
BY DEF Sound, StoredMarket

\* Minting C tokens for an amount of base tokens keeps a market sound.
LEMMA MintBaseSound ==
  ASSUME NEW K, NEW m, NEW t, Sound(K, m, t), NEW a \in Accounts, NEW amount,
         MintBaseOK(m, a, amount)
  PROVE  Sound(K, mint_base(m, a, amount), t) /\ mint_base(m, a, amount).cash = m.cash
<1> DEFINE tokens == FromBase(m.ctoken, amount)
<1>1. m \in StoredMarket(K) /\ m.ctoken \in TokenState /\ Backed(m.ctoken) /\ m.cash \in Nat
  BY DEF Sound, StoredMarket
<1>2. tokens \in Nat /\ MintOK(m.ctoken, a, tokens)
  BY FromBaseNat DEF MintBaseOK
<1> HIDE DEF tokens
<1>3. mint(m.ctoken, a, tokens) \in TokenState /\ Backed(mint(m.ctoken, a, tokens))
  BY <1>1, <1>2, MintType, MintSum
<1>4. mint_base(m, a, amount)
        = [m EXCEPT !.ctoken = mint(m.ctoken, a, tokens), !.cash = m.cash]
  BY <1>1 DEF mint_base, tokens, StoredMarket
<1>5. mint_base(m, a, amount).cash = m.cash
  BY <1>1, <1>4 DEF StoredMarket
<1>6. Sound(K, [m EXCEPT !.ctoken = mint(m.ctoken, a, tokens), !.cash = m.cash], t)
  BY <1>1, <1>3, TokenStepSound
<1> QED BY <1>4, <1>5, <1>6

\* Burning C tokens for an amount of base tokens keeps a market sound.
LEMMA BurnBaseSound ==
  ASSUME NEW K, NEW m, NEW t, Sound(K, m, t), NEW a \in Accounts, NEW amount,
         BurnBaseOK(m, a, amount)
  PROVE  Sound(K, burn_base_from(m, a, amount), t) /\ burn_base_from(m, a, amount).cash = m.cash
<1> DEFINE tokens == FromBase(m.ctoken, amount)
<1>1. m \in StoredMarket(K) /\ m.ctoken \in TokenState /\ Backed(m.ctoken) /\ m.cash \in Nat
  BY DEF Sound, StoredMarket
<1>2. tokens \in Nat /\ BurnOK(m.ctoken, a, tokens)
  BY FromBaseNat DEF BurnBaseOK
<1> HIDE DEF tokens
<1>3. burn_from(m.ctoken, a, tokens) \in TokenState /\ Backed(burn_from(m.ctoken, a, tokens))
  BY <1>1, <1>2, BurnType, BurnSum
<1>4. burn_base_from(m, a, amount)
        = [m EXCEPT !.ctoken = burn_from(m.ctoken, a, tokens), !.cash = m.cash]
  BY <1>1 DEF burn_base_from, tokens, StoredMarket
<1>5. burn_base_from(m, a, amount).cash = m.cash
  BY <1>1, <1>4 DEF StoredMarket
<1>6. Sound(K, [m EXCEPT !.ctoken = burn_from(m.ctoken, a, tokens), !.cash = m.cash], t)
  BY <1>1, <1>3, TokenStepSound
<1> QED BY <1>4, <1>5, <1>6

\* Moving C tokens keeps a market sound.
LEMMA MoveSound ==
  ASSUME NEW K, NEW m, NEW t, Sound(K, m, t), NEW a \in Accounts, NEW b \in Accounts,
         NEW tokens \in Nat, TransferOK(m.ctoken, a, b, tokens)
  PROVE  Sound(K, [m EXCEPT !.ctoken = transfer_tokens(@, a, b, tokens)], t)
<1>1. m \in StoredMarket(K) /\ m.ctoken \in TokenState /\ Backed(m.ctoken) /\ m.cash \in Nat
  BY DEF Sound, StoredMarket
<1>2. /\ transfer_tokens(m.ctoken, a, b, tokens) \in TokenState
      /\ Backed(transfer_tokens(m.ctoken, a, b, tokens))
  BY <1>1, TransferType, TransferSum
<1>3. [m EXCEPT !.ctoken = transfer_tokens(@, a, b, tokens)]
        = [m EXCEPT !.ctoken = transfer_tokens(m.ctoken, a, b, tokens), !.cash = m.cash]
  BY <1>1 DEF StoredMarket
<1> DEFINE ctoken == transfer_tokens(m.ctoken, a, b, tokens)
<1>4. ctoken \in TokenState /\ Backed(ctoken)  BY <1>2
<1> HIDE DEF ctoken
<1>5. Sound(K, [m EXCEPT !.ctoken = ctoken, !.cash = m.cash], t)
  BY <1>1, <1>4, TokenStepSound
<1> QED BY <1>3, <1>5 DEF ctoken

\* Paying what the market has keeps it sound.
LEMMA PaySound ==
  ASSUME NEW K, NEW m, NEW t, Sound(K, m, t), NEW amount \in Nat, amount <= m.cash
  PROVE  Sound(K, pay(m, amount), t)
<1>1. m \in StoredMarket(K) /\ m.cash - amount \in Nat
  BY DEF Sound, StoredMarket
<1> QED BY <1>1 DEF Sound, StoredMarket, pay

\* Receiving tokens keeps a market sound.
LEMMA ReceiveSound ==
  ASSUME NEW K, NEW m, NEW t, Sound(K, m, t), NEW amount \in Nat
  PROVE  Sound(K, receive(m, amount), t) /\ receive(m, amount).cash = m.cash + amount
<1>1. m \in StoredMarket(K) /\ m.cash + amount \in Nat
  BY DEF Sound, StoredMarket
<1> QED BY <1>1 DEF Sound, StoredMarket, receive

\* A market's debts are natural numbers, and so is their sum.
LEMMA DebtSum ==
  ASSUME NEW K, NEW m \in StoredMarket(K), NEW a \in Accounts, NEW v \in 0 .. Modulus - 1
  PROVE  /\ m.debt[a] \in Nat /\ m.total_points \in Nat
         /\ SumFunction(m.debt) \in Int
         /\ [m.debt EXCEPT ![a] = v] \in [Accounts -> 0 .. Modulus - 1]
         /\ SumFunction([m.debt EXCEPT ![a] = v]) = SumFunction(m.debt) - m.debt[a] + v
<1>1. /\ m.debt \in [Accounts -> 0 .. Modulus - 1]
      /\ m.total_points \in 0 .. Modulus - 1
  BY DEF StoredMarket
<1>2. m.debt \in [Accounts -> Int] /\ v \in Int
  BY <1>1, ModulusAssumption
<1>3. /\ SumFunction(m.debt) \in Int
      /\ SumFunction([m.debt EXCEPT ![a] = v]) = SumFunction(m.debt) - m.debt[a] + v
  BY <1>2, SumInt, SumExcept, TokenAssumption
<1> QED BY <1>1, <1>3, ModulusAssumption

\* A market with another total, and another debt of one account, is sound if
\* the debt does not fall by more than the total.
LEMMA DebtStepSound ==
  ASSUME NEW K, NEW m, NEW t, Sound(K, m, t), NEW a \in Accounts,
         NEW total_points \in 0 .. Modulus - 1, NEW v \in 0 .. Modulus - 1,
         \/ total_points <= m.total_points - m.debt[a] + v
         \/ total_points = 0
  PROVE  Sound(K, [m EXCEPT !.total_points = total_points, !.debt[a] = v], t)
<1> DEFINE n == [m EXCEPT !.total_points = total_points, !.debt[a] = v]
           debts == [m.debt EXCEPT ![a] = v]
<1>1. m \in StoredMarket(K)  BY DEF Sound
<1>2. /\ m.debt[a] \in Nat /\ m.total_points \in Nat /\ SumFunction(m.debt) \in Int
      /\ debts \in [Accounts -> 0 .. Modulus - 1]
      /\ SumFunction(debts) = SumFunction(m.debt) - m.debt[a] + v
  BY <1>1, DebtSum
<1> HIDE DEF debts
<1>3. n = [m EXCEPT !.total_points = total_points, !.debt = debts]
  BY <1>1 DEF StoredMarket, debts
<1> HIDE DEF n
<1>4. /\ n \in StoredMarket(K) /\ n.last_charged = m.last_charged
      /\ n.ctoken = m.ctoken /\ n.total_points = total_points /\ n.debt = debts
  BY <1>1, <1>2, <1>3 DEF StoredMarket
<1>5. SumFunction(debts) >= 0
  <2>1. debts \in [Accounts -> Int] /\ \A x \in Accounts : debts[x] >= 0
    BY <1>2, ModulusAssumption
  <2> QED BY <2>1, SumNonNegative, TokenAssumption
<1>6. v \in Nat /\ total_points \in Nat  BY ModulusAssumption
<1>7. total_points <= SumFunction(debts)
  BY <1>2, <1>5, <1>6 DEF Sound
<1> QED BY <1>4, <1>7 DEF Sound, n

\* A loan adds the same points to the total and to the account.
LEMMA IncreaseSound ==
  ASSUME NEW K, NEW m, NEW t, Sound(K, m, t), NEW a \in Accounts, NEW amount,
         IncreaseOK(m, a, amount)
  PROVE  Sound(K, increase(m, a, amount), t) /\ increase(m, a, amount).cash = m.cash
<1> DEFINE points == base_to_token(amount, m.debt_multiplier)
<1>1. points \in Nat
  BY ModulusAssumption DEF IncreaseOK, PointsOK, Fits
<1>2. /\ m.total_points + points \in 0 .. Modulus - 1
      /\ m.debt[a] + points \in 0 .. Modulus - 1
  BY DEF IncreaseOK, Fits
<1>3. m \in StoredMarket(K)  BY DEF Sound
<1>4. m.debt[a] \in Nat /\ m.total_points \in Nat
  BY <1>3, ModulusAssumption DEF StoredMarket
<1>5. increase(m, a, amount)
        = [m EXCEPT !.total_points = m.total_points + points,
                    !.debt[a] = m.debt[a] + points]
  BY <1>3 DEF increase, StoredMarket
<1> HIDE DEF points
<1>6. m.total_points + points <= m.total_points - m.debt[a] + (m.debt[a] + points)
  BY <1>1, <1>4
<1>7. increase(m, a, amount).cash = m.cash
  BY <1>3, <1>5 DEF StoredMarket
<1>8. Sound(K, [m EXCEPT !.total_points = m.total_points + points,
                      !.debt[a] = m.debt[a] + points], t)
  BY <1>2, <1>6, DebtStepSound
<1> QED BY <1>5, <1>7, <1>8

\* A repayment takes as many points off the total as off the account, or all
\* that there are: what an account owes beyond the total may remain.
LEMMA DecreaseSound ==
  ASSUME NEW K, NEW m, NEW t, Sound(K, m, t), NEW a \in Accounts, NEW amount, PointsOK(m, amount)
  PROVE  Sound(K, decrease(m, a, amount), t) /\ decrease(m, a, amount).cash = m.cash
<1> DEFINE points == base_to_token(amount, m.debt_multiplier)
           total_points == Less(m.total_points, points)
           v == Less(m.debt[a], points)
<1>1. points \in Nat
  BY ModulusAssumption DEF PointsOK, Fits
<1>3. m \in StoredMarket(K)  BY DEF Sound
<1>4. m.debt[a] \in 0 .. Modulus - 1 /\ m.total_points \in 0 .. Modulus - 1
  BY <1>3 DEF StoredMarket
<1>5. decrease(m, a, amount) = [m EXCEPT !.total_points = total_points, !.debt[a] = v]
  BY <1>3 DEF decrease, StoredMarket
<1> HIDE DEF points
<1>6. total_points \in 0 .. Modulus - 1 /\ v \in 0 .. Modulus - 1
  BY <1>1, <1>4, ModulusAssumption DEF Less
<1>7. total_points <= m.total_points - m.debt[a] + v \/ total_points = 0
  BY <1>1, <1>4, ModulusAssumption DEF Less
<1> HIDE DEF total_points, v
<1>8. decrease(m, a, amount).cash = m.cash
  BY <1>3, <1>5 DEF StoredMarket
<1>9. Sound(K, [m EXCEPT !.total_points = total_points, !.debt[a] = v], t)
  BY <1>6, <1>7, DebtStepSound
<1> QED BY <1>5, <1>8, <1>9

-----------------------------------------------------------------------------
(***************************************************************************)
(* Creating a market.                                                      *)
(***************************************************************************)
\* A configuration within a set of configurations.
Within(msg, K) ==
    /\ msg.charge_period \in K.charge_period
    /\ msg.rates \in K.rates
    /\ msg.reserve_factor \in K.reserve_factor
    /\ msg.collateral_ratio \in K.collateral_ratio
    /\ msg.market_cap \in K.market_cap
    /\ msg.common_token \in K.common_token
    /\ msg.borrow_limit_ratio \in K.borrow_limit_ratio

\* A time rounded down to a whole period is aligned and not later.
LEMMA Aligned ==
  ASSUME NEW p \in Nat \ {0}, NEW t \in Nat
  PROVE  t - (t % p) \in Nat /\ t - (t % p) <= t /\ (t - (t % p)) % p = 0
<1> DEFINE k == t \div p
<1>1. k \in Nat  BY DivType
<1>2. t % p \in 0 .. p - 1  BY ModType
<1>3. t = p * k + (t % p)  OBVIOUS
<1> HIDE DEF k
<1>4. t - (t % p) = p * k /\ p * k \in Nat  BY <1>1, <1>2, <1>3
<1>5. (p * k) % p = 0  BY <1>1
<1> QED BY <1>2, <1>4, <1>5

\* A new market is sound.
LEMMA NewMarketSound ==
  ASSUME NEW K, NEW msg, NEW t \in Nat, Within(msg, K), msg.charge_period \in Nat \ {0}
  PROVE  Sound(K, instantiate(t, msg), t)
<1> DEFINE m == instantiate(t, msg)
<1>1. /\ m.last_charged \in Nat /\ m.last_charged <= t
      /\ m.last_charged % msg.charge_period = 0
  BY Aligned DEF instantiate
<1>2. EmptyToken \in TokenState /\ Backed(EmptyToken)
  BY EmptyTokenType, SumConstZero, TokenAssumption DEF EmptyToken, Backed
<1>3. SumFunction(m.debt) = 0 /\ m.total_points = 0
  BY SumConstZero, TokenAssumption DEF instantiate
<1>4. m \in StoredMarket(K)
  <2>1. 0 \in 0 .. Modulus - 1 /\ InitialMultiplier \in 0 .. Modulus - 1
    BY ModulusAssumption, TokenAssumption
  <2> QED BY <1>1, <1>2, <2>1 DEF instantiate, StoredMarket, Within
<1>5. m.charge_period = msg.charge_period /\ m.ctoken = EmptyToken
  BY DEF instantiate
<1> QED BY <1>1, <1>2, <1>3, <1>4, <1>5 DEF Sound

-----------------------------------------------------------------------------
(***************************************************************************)
(* The handlers.                                                           *)
(***************************************************************************)
\* deposit keeps a market sound.
LEMMA DepositSound ==
  ASSUME NEW K, NEW m, NEW t \in Nat, Sound(K, m, t), NEW a \in Accounts, NEW amount \in Nat,
         DepositOK(m, t, a, amount)
  PROVE  Sound(K, deposit(m, t, a, amount), t)
<1> DEFINE c == charge_interest(m, t)
<1>1. Sound(K, c, t) /\ MintBaseOK(c, a, amount)
  BY ChargeSound DEF DepositOK
<1> HIDE DEF c
<1>2. Sound(K, receive(mint_base(c, a, amount), amount), t)
  BY <1>1, MintBaseSound, ReceiveSound
<1> QED BY <1>2 DEF deposit, c

\* withdraw keeps a market sound.
LEMMA WithdrawSound ==
  ASSUME NEW K, NEW m, NEW t \in Nat, Sound(K, m, t), NEW a \in Accounts, NEW amount \in Nat,
         WithdrawBaseOK(m, t, a, amount)
  PROVE  Sound(K, withdraw(m, t, a, amount), t)
<1> DEFINE c == charge_interest(m, t)
<1>1. Sound(K, c, t) /\ BurnBaseOK(c, a, amount) /\ amount <= c.cash
  BY ChargeSound DEF WithdrawBaseOK
<1> HIDE DEF c
<1>2. Sound(K, pay(burn_base_from(c, a, amount), amount), t)
  BY <1>1, BurnBaseSound, PaySound
<1> QED BY <1>2 DEF withdraw, c

\* borrow keeps a market sound.
LEMMA BorrowSound ==
  ASSUME NEW K, NEW m, NEW t \in Nat, Sound(K, m, t), NEW a \in Accounts, NEW amount \in Nat,
         BorrowOK(m, t, a, amount)
  PROVE  Sound(K, borrow(m, t, a, amount), t)
<1> DEFINE c == charge_interest(m, t)
<1>1. Sound(K, c, t) /\ IncreaseOK(c, a, amount) /\ amount <= c.cash
  BY ChargeSound DEF BorrowOK
<1> HIDE DEF c
<1>2. Sound(K, pay(increase(c, a, amount), amount), t)
  BY <1>1, IncreaseSound, PaySound
<1> QED BY <1>2 DEF borrow, c

\* What decrease returns is a natural number.
LEMMA SurplusNat ==
  ASSUME NEW K, NEW m \in StoredMarket(K), NEW a \in Accounts, NEW amount, PointsOK(m, amount)
  PROVE  Surplus(m, a, amount) \in Nat
<1> DEFINE points == base_to_token(amount, m.debt_multiplier)
<1>1. points \in Nat
  BY ModulusAssumption DEF PointsOK, Fits
<1>2. m.debt[a] \in Nat /\ m.total_points \in Nat /\ m.debt_multiplier \in Nat
  BY ModulusAssumption DEF StoredMarket
<1> HIDE DEF points
<1>3. ASSUME NEW old \in Nat, points >= old
      PROVE  token_to_base(points - old, m.debt_multiplier) \in Nat
  <2>1. points - old \in Nat  BY <1>1, <1>3
  <2> QED BY <1>2, <2>1, WorthNat
<1> QED BY <1>2, <1>3 DEF Surplus, points

\* repay keeps a market sound, also when it sends tokens back.
LEMMA RepaySound ==
  ASSUME NEW K, NEW m, NEW t \in Nat, Sound(K, m, t), NEW a \in Accounts, NEW amount \in Nat,
         RepayOK(m, t, a, amount)
  PROVE  Sound(K, repay(m, t, a, amount), t)
<1> DEFINE c == charge_interest(m, t)
           surplus == Surplus(c, a, amount)
<1>1. Sound(K, c, t) /\ c.cash = m.cash /\ PointsOK(c, amount) /\ surplus <= m.cash + amount
  BY ChargeSound DEF RepayOK
<1> HIDE DEF c
<1>2. surplus \in Nat
  BY <1>1, SurplusNat DEF Sound
<1> HIDE DEF surplus
<1>3. Sound(K, pay(receive(decrease(c, a, amount), amount), surplus), t)
  <2> DEFINE i == decrease(c, a, amount)
             n == receive(i, amount)
  <2>1. Sound(K, i, t) /\ i.cash = c.cash
    BY <1>1, DecreaseSound
  <2> HIDE DEF i
  <2>2. Sound(K, n, t) /\ n.cash = i.cash + amount
    BY <2>1, ReceiveSound
  <2>3. surplus <= n.cash
    BY <1>1, <2>1, <2>2
  <2> HIDE DEF n
  <2>4. Sound(K, pay(n, surplus), t)
    BY <1>2, <2>2, <2>3, PaySound
  <2> QED BY <2>4 DEF n, i
<1> QED BY <1>3 DEF repay, c, surplus

\* repay_to keeps a market sound.
LEMMA RepayToSound ==
  ASSUME NEW K, NEW m, NEW t \in Nat, Sound(K, m, t), NEW a \in Accounts, NEW amount \in Nat,
         RepayToOK(m, t, a, amount)
  PROVE  Sound(K, repay_to(m, t, a, amount), t)
<1> DEFINE c == charge_interest(m, t)
<1>1. Sound(K, c, t) /\ PointsOK(c, amount)
  BY ChargeSound DEF RepayToOK
<1> HIDE DEF c
<1>2. Sound(K, receive(decrease(c, a, amount), amount), t)
  BY <1>1, DecreaseSound, ReceiveSound
<1> QED BY <1>2 DEF repay_to, c

\* transfer_from keeps a market sound.
LEMMA TransferFromSound ==
  ASSUME NEW K, NEW m, NEW t \in Nat, Sound(K, m, t), NEW a \in Accounts, NEW b \in Accounts,
         NEW amount, NEW price, NEW discount,
         TransferFromOK(m, t, a, b, amount, price, discount)
  PROVE  Sound(K, transfer_from(m, t, a, b, amount, price, discount), t)
<1> DEFINE c == charge_interest(m, t)
           tokens == FromBase(c.ctoken, RepaidValue(amount, price, discount))
<1>1. Sound(K, c, t) /\ tokens \in Nat /\ TransferOK(c.ctoken, a, b, tokens)
  BY ChargeSound, FromBaseNat DEF TransferFromOK
<1>2. transfer_from(m, t, a, b, amount, price, discount)
        = [c EXCEPT !.ctoken = transfer_tokens(@, a, b, tokens)]
  BY DEF transfer_from
<1> HIDE DEF c, tokens
<1>3. Sound(K, [c EXCEPT !.ctoken = transfer_tokens(@, a, b, tokens)], t)
  BY <1>1, MoveSound
<1> QED BY <1>2, <1>3

\* swap_withdraw_from keeps a market sound, although it charges no interest.
LEMMA SwapSound ==
  ASSUME NEW K, NEW m, NEW t, Sound(K, m, t), NEW a \in Accounts, NEW estimate,
         NEW sell_limit \in Nat, SwapWithdrawOK(m, a, estimate, sell_limit)
  PROVE  Sound(K, swap_withdraw_from(m, a, estimate, sell_limit), t)
<1>1. BurnBaseOK(m, a, estimate) /\ sell_limit <= m.cash
  BY DEF SwapWithdrawOK
<1>2. Sound(K, pay(burn_base_from(m, a, estimate), sell_limit), t)
  BY <1>1, BurnBaseSound, PaySound
<1> QED BY <1>2 DEF swap_withdraw_from, burn_base_from

\* adjust_interest_rates keeps a market sound: the charging time that it
\* restores is an old one.
LEMMA AdjustRatesSound ==
  ASSUME NEW K, NEW m, NEW t \in Nat, Sound(K, m, t), NEW rates \in K.rates,
         AdjustRatesOK(m, t, rates)
  PROVE  Sound(K, adjust_interest_rates(m, t, rates), t)
<1> DEFINE c == charge_interest(m, t)
<1>1. Sound(K, c, t)
  BY ChargeSound DEF AdjustRatesOK
<1>2. adjust_interest_rates(m, t, rates)
        = [c EXCEPT !.rates = rates, !.last_charged = m.last_charged]
  BY DEF adjust_interest_rates
<1> HIDE DEF c
<1>3. m.last_charged \in Nat  BY DEF Sound, StoredMarket
<1> DEFINE n == [c EXCEPT !.rates = rates, !.last_charged = m.last_charged]
<1>4. c \in StoredMarket(K)  BY <1>1 DEF Sound
<1>5. /\ n \in StoredMarket(K) /\ n.last_charged = m.last_charged
      /\ n.charge_period = c.charge_period /\ n.ctoken = c.ctoken
      /\ n.debt = c.debt /\ n.total_points = c.total_points
  BY <1>3, <1>4 DEF StoredMarket
<1>6. m.charge_period = c.charge_period
  BY ChargeSound DEF AdjustRatesOK, c
<1> HIDE DEF n
<1>7. Sound(K, n, t)
  BY <1>1, <1>5, <1>6 DEF Sound
<1> QED BY <1>2, <1>7 DEF n

-----------------------------------------------------------------------------
(***************************************************************************)
(* What charging interest does to the multipliers, the debts and the       *)
(* balances, for a market whose curve was validated.                       *)
(***************************************************************************)
\* A market with the rates and the reserve factor of a valid configuration.
Rated(m) == IsCurve(m.rates) /\ Valid(m.rates) /\ m.reserve_factor \in Nat

\* The amounts in a market's storage are natural numbers.
LEMMA StoredNat ==
  ASSUME NEW K, NEW m \in StoredMarket(K)
  PROVE  /\ m.debt_multiplier \in Nat /\ m.total_points \in Nat /\ m.cash \in Nat
         /\ m.last_charged \in Nat
         /\ m.ctoken \in TokenState /\ m.ctoken.multiplier \in Nat
         /\ m.ctoken.total_supply \in Nat
         /\ \A a \in Accounts : m.debt[a] \in Nat /\ m.ctoken.balances[a] \in Nat
         /\ supplied(m) \in Nat /\ total(m) \in Nat
<1>1. /\ m.debt_multiplier \in Nat /\ m.total_points \in Nat /\ m.cash \in Nat
      /\ m.ctoken \in TokenState /\ m.last_charged \in Nat
      /\ \A a \in Accounts : m.debt[a] \in Nat
  BY ModulusAssumption DEF StoredMarket
<1>2. /\ m.ctoken.multiplier \in Nat /\ m.ctoken.total_supply \in Nat
      /\ \A a \in Accounts : m.ctoken.balances[a] \in Nat
  BY <1>1, ModulusAssumption DEF TokenState
<1>3. supplied(m) \in Nat /\ total(m) \in Nat
  BY <1>1, <1>2, WorthNat DEF supplied, total
<1> QED BY <1>1, <1>2, <1>3

\* The ratio of interest on a market's debts is a natural number, at every
\* utilisation.
LEMMA DebtRatioNat ==
  ASSUME NEW K, NEW m \in StoredMarket(K), Rated(m), m.charge_period \in Nat,
         NEW epochs \in Nat
  PROVE  debt_ratio(m, epochs) \in Nat
<1>1. supplied(m) \in Nat /\ total(m) \in Nat  BY StoredNat
<1>2. utilisation(m) \in Nat
  BY <1>1, DivDecNat DEF utilisation
<1>3. calculate_interest_rate(m.rates, utilisation(m)) \in Nat
  BY <1>2, RateNat DEF Rated
<1> QED BY <1>3, CompoundedNat, MarketAssumption DEF debt_ratio

\* Interest, its reserve and the ratio on the C tokens are natural numbers
\* when none of their computations panics.
LEMMA InterestNat ==
  ASSUME NEW K, NEW m \in StoredMarket(K), Rated(m), m.charge_period \in Nat,
         NEW epochs \in Nat, InterestOK(m, epochs)
  PROVE  /\ charged_interest(m, epochs) \in Nat /\ reserve(m, epochs) \in Nat
         /\ ctoken_ratio(m, epochs) \in Nat
<1>1. supplied(m) \in Nat /\ total(m) \in Nat  BY StoredNat
<1>2. debt_ratio(m, epochs) \in Nat  BY DebtRatioNat
<1>3. \A x, y \in Nat : MulInt(x, y) \in Nat
  BY MulDecNat DEF MulInt, MulDec
<1>4. charged_interest(m, epochs) \in Nat
  BY <1>1, <1>2, <1>3 DEF charged_interest
<1>5. reserve(m, epochs) \in Nat
  BY <1>3, <1>4 DEF reserve, Rated
<1>6. supplied(m) - reserve(m, epochs) \in Nat \ {0}
  BY <1>1, <1>5 DEF InterestOK
<1>7. ctoken_ratio(m, epochs) \in Nat
  BY <1>4, <1>6, DivDecNat DEF ctoken_ratio
<1> QED BY <1>4, <1>5, <1>7

\* What a charge leaves alone, and what it leaves of the multipliers and of
\* the C tokens when interest is pending and when it is not.
LEMMA ChargeFields ==
  ASSUME NEW K, NEW m, NEW t \in Nat, Sound(K, m, t), Rated(m), ChargeOK(m, t),
         NEW c, c = charge_interest(m, t), NEW e, e = epochs_passed(m, t)
  PROVE  /\ c \in StoredMarket(K) /\ c.debt = m.debt /\ c.total_points = m.total_points
         /\ c.cash = m.cash /\ c.rates = m.rates /\ c.reserve_factor = m.reserve_factor
         /\ c.charge_period = m.charge_period /\ Rated(c)
         /\ c.last_charged = m.last_charged + e * m.charge_period
         /\ e \in Nat
         /\ pending(m, t) =>
              /\ InterestOK(m, e)
              /\ c.debt_multiplier = MulDec(m.debt_multiplier, One + debt_ratio(m, e))
              /\ c.ctoken.multiplier
                   = MulDec(m.ctoken.multiplier, One + ctoken_ratio(m, e))
              /\ \A a \in Accounts \ {Governance} :
                    c.ctoken.balances[a] = m.ctoken.balances[a]
              /\ reserve(m, e) = 0 =>
                    c.ctoken.total_supply = m.ctoken.total_supply
         /\ ~ pending(m, t) =>
              c.debt_multiplier = m.debt_multiplier /\ c.ctoken = m.ctoken
<1> DEFINE clocked == [m EXCEPT !.last_charged = @ + e * m.charge_period]
<1>1. /\ m \in StoredMarket(K) /\ m.charge_period \in Nat \ {0}
      /\ m.last_charged \in Nat /\ supplied(m) \in Nat
      /\ m.ctoken \in TokenState /\ m.last_charged <= t
  BY StoredNat DEF Sound
<1>2. e \in Nat
  <2>1. t - m.last_charged \in Nat  BY <1>1
  <2> QED BY <1>1, <2>1, DivType DEF epochs_passed
<1>3. /\ c \in StoredMarket(K) /\ c.debt = m.debt /\ c.total_points = m.total_points
      /\ c.cash = m.cash /\ c.charge_period = m.charge_period
  BY ChargeSound DEF Sound
<1>4. CASE ~ pending(m, t)
  <2>1. e = 0 \/ supplied(m) = 0
    BY <1>1, <1>2, <1>4 DEF pending
  <2>2. c = clocked
    BY <2>1 DEF charge_interest
  <2>3. /\ c.rates = m.rates /\ c.reserve_factor = m.reserve_factor
        /\ c.last_charged = m.last_charged + e * m.charge_period
        /\ c.debt_multiplier = m.debt_multiplier /\ c.ctoken = m.ctoken
    BY <1>1, <2>2 DEF StoredMarket
  <2> QED BY <1>2, <1>3, <1>4, <2>3 DEF Rated
<1>5. CASE pending(m, t)
  <2> DEFINE multiplier == MulDec(m.debt_multiplier, One + debt_ratio(m, e))
             tokens == with_reserve(m, e)
  <2>1. e # 0 /\ supplied(m) # 0 /\ e > 0 /\ supplied(m) > 0
    BY <1>1, <1>2, <1>5 DEF pending
  <2>2. InterestOK(m, e) /\ ReserveOK(m, e)
    BY <2>1 DEF ChargeOK
  <2>3. c = [clocked EXCEPT !.debt_multiplier = MulDec(@, One + debt_ratio(m, e)),
                            !.ctoken = with_reserve(m, e)]
    BY <2>1 DEF charge_interest
  <2>4. /\ c.rates = m.rates /\ c.reserve_factor = m.reserve_factor
        /\ c.last_charged = m.last_charged + e * m.charge_period
        /\ c.debt_multiplier = multiplier /\ c.ctoken = tokens
    <3> HIDE DEF tokens
    <3>1. c = [clocked EXCEPT !.debt_multiplier = MulDec(@, One + debt_ratio(m, e)),
                              !.ctoken = tokens]
      BY <2>3 DEF tokens
    <3> QED BY <1>1, <3>1 DEF StoredMarket
  <2> HIDE DEF multiplier
  <2>5. /\ tokens.multiplier = MulDec(m.ctoken.multiplier, One + ctoken_ratio(m, e))
        /\ \A a \in Accounts \ {Governance} :
              tokens.balances[a] = m.ctoken.balances[a]
        /\ reserve(m, e) = 0 => tokens.total_supply = m.ctoken.total_supply
    <3> DEFINE r == rebased(m, e)
               minted == FromBase(r, reserve(m, e))
    <3>1. /\ r \in TokenState /\ r.balances = m.ctoken.balances
          /\ r.total_supply = m.ctoken.total_supply
          /\ r.multiplier = MulDec(m.ctoken.multiplier, One + ctoken_ratio(m, e))
      <4>1. RebaseOK(m.ctoken, One + ctoken_ratio(m, e))  BY <2>2 DEF InterestOK
      <4>2. r \in TokenState  BY <1>1, <4>1, RebaseType DEF rebased
      <4> QED BY <1>1, <4>2 DEF rebased, rebase, TokenState
    <3>2. tokens = IF reserve(m, e) > 0 THEN mint(r, Governance, minted) ELSE r
      BY DEF with_reserve
    <3> HIDE DEF r, minted
    <3>3. /\ mint(r, Governance, minted).multiplier = r.multiplier
          /\ \A a \in Accounts \ {Governance} :
                mint(r, Governance, minted).balances[a] = r.balances[a]
      BY <3>1 DEF mint, ChangeBalance, TokenState
    <3>4. reserve(m, e) \in Nat
      BY <1>1, <1>2, <2>2, InterestNat
    <3> HIDE DEF tokens
    <3>5. CASE reserve(m, e) > 0
      <4>1. tokens = mint(r, Governance, minted)  BY <3>2, <3>5
      <4>2. reserve(m, e) # 0  BY <3>4, <3>5
      <4> QED BY <3>1, <3>3, <4>1, <4>2
    <3>6. CASE ~ (reserve(m, e) > 0)
      <4>1. tokens = r  BY <3>2, <3>6
      <4> QED BY <3>1, <4>1
    <3> QED BY <3>5, <3>6
  <2> QED BY <1>2, <1>3, <1>5, <2>2, <2>4, <2>5 DEF Rated, multiplier
<1> QED BY <1>4, <1>5

\* Charging interest lowers neither what a point of debt nor what a C token is
\* worth.
LEMMA ChargeGrows ==
  ASSUME NEW K, NEW m, NEW t \in Nat, Sound(K, m, t), Rated(m), ChargeOK(m, t)
  PROVE  /\ charge_interest(m, t).debt_multiplier >= m.debt_multiplier
         /\ charge_interest(m, t).ctoken.multiplier >= m.ctoken.multiplier
<1> DEFINE c == charge_interest(m, t)
           e == epochs_passed(m, t)
<1>1. /\ m \in StoredMarket(K) /\ m.debt_multiplier \in Nat
      /\ m.ctoken.multiplier \in Nat /\ m.charge_period \in Nat
  BY StoredNat DEF Sound
<1>2. /\ e \in Nat
      /\ pending(m, t) =>
           /\ InterestOK(m, e)
           /\ c.debt_multiplier = MulDec(m.debt_multiplier, One + debt_ratio(m, e))
           /\ c.ctoken.multiplier = MulDec(m.ctoken.multiplier, One + ctoken_ratio(m, e))
      /\ ~ pending(m, t) =>
           c.debt_multiplier = m.debt_multiplier /\ c.ctoken = m.ctoken
  BY ChargeFields
<1> HIDE DEF c, e
<1>3. CASE pending(m, t)
  <2>1. debt_ratio(m, e) \in Nat /\ ctoken_ratio(m, e) \in Nat
    BY <1>1, <1>2, <1>3, DebtRatioNat, InterestNat
  <2>2. /\ One + debt_ratio(m, e) \in Nat /\ One + debt_ratio(m, e) >= One
        /\ One + ctoken_ratio(m, e) \in Nat /\ One + ctoken_ratio(m, e) >= One
    BY <2>1, FractionAssumption DEF One
  <2> QED BY <1>1, <1>2, <1>3, <2>2, MulDecGrows DEF c
<1>4. CASE ~ pending(m, t)
  BY <1>1, <1>2, <1>4 DEF c
<1> QED BY <1>3, <1>4

\* A market that was just charged has no interest pending.
LEMMA ChargedNotPending ==
  ASSUME NEW K, NEW m, NEW t \in Nat, Sound(K, m, t), ChargeOK(m, t), NEW n,
         n.last_charged = charge_interest(m, t).last_charged,
         n.charge_period = m.charge_period, Rated(m)
  PROVE  epochs_passed(n, t) = 0 /\ ~ pending(n, t)
<1> DEFINE p == m.charge_period
           x == t - m.last_charged
           q == x \div p
<1>1. p \in Nat \ {0} /\ x \in Nat
  BY StoredNat DEF Sound
<1>2. n.last_charged = m.last_charged + q * p
  BY ChargeFields DEF epochs_passed
<1>3. x = p * q + (x % p) /\ x % p \in 0 .. p - 1 /\ q \in Nat
  <2> HIDE DEF x, p
  <2>1. q \in Nat  BY <1>1, DivType
  <2>2. x = p * q + (x % p) /\ x % p \in 0 .. p - 1
    <3>1. x \in Int  BY <1>1
    <3> QED BY <1>1, <3>1, DivMod
  <2> QED BY <2>1, <2>2
<1>4. m.last_charged \in Nat  BY StoredNat DEF Sound
<1>5. t - n.last_charged = x % p
  <2> DEFINE y == x % p
  <2>1. y \in Nat /\ x = q * p + y  BY <1>1, <1>3
  <2>2. q * p \in Nat  BY <1>1, <1>3
  <2> HIDE DEF y, q
  <2> QED BY <1>2, <1>4, <2>1, <2>2 DEF y
<1>6. (x % p) \div p = 0
  <2> DEFINE y == x % p
  <2>1. y \in 0 .. p - 1  BY <1>3
  <2> HIDE DEF y, p, x
  <2>2. y = p * 0 + y  BY <1>1, <2>1
  <2> QED BY <1>1, <2>1, <2>2, Euclid DEF y
<1> HIDE DEF x, p
<1>7. epochs_passed(n, t) = 0
  BY <1>5, <1>6 DEF epochs_passed, p
<1> QED BY <1>7 DEF pending

\* The most that roundings make of a balance of so many points, with interest
\* at the given ratio.
Roundings(points, ratio) == 3 + (points \div One) + (ratio \div One)

\* The queries say of a debt, and of C tokens, what charging makes of them.
LEMMA ChargePreviewed ==
  ASSUME NEW K, NEW m, NEW t \in Nat, Sound(K, m, t), Rated(m), ChargeOK(m, t),
         NEW c, c = charge_interest(m, t), NEW e, e = epochs_passed(m, t),
         NEW a \in Accounts,
         NEW dr, dr = (IF pending(m, t) THEN debt_ratio(m, e) ELSE 0),
         NEW cr, cr = (IF pending(m, t) THEN ctoken_ratio(m, e) ELSE 0)
  PROVE  /\ dr \in Nat /\ cr \in Nat
         /\ debt_of(c, a) \in Nat /\ debt_balance(m, t, a) \in Nat
         /\ debt_of(c, a) - debt_balance(m, t, a)
              \in -Roundings(m.debt[a], dr) .. Roundings(m.debt[a], dr)
         /\ a # Governance =>
              /\ BaseBalance(c.ctoken, a) \in Nat /\ collateral_balance(m, t, a) \in Nat
              /\ BaseBalance(c.ctoken, a) - collateral_balance(m, t, a)
                   \in -Roundings(m.ctoken.balances[a], cr)
                         .. Roundings(m.ctoken.balances[a], cr)
<1> DEFINE P == m.debt[a]
           M == m.debt_multiplier
           T == m.ctoken.balances[a]
           L == m.ctoken.multiplier
<1>0. One \in Nat \ {0}  BY FractionAssumption DEF One
<1>1. /\ m \in StoredMarket(K) /\ P \in Nat /\ M \in Nat /\ T \in Nat /\ L \in Nat
      /\ m.charge_period \in Nat /\ m.ctoken \in TokenState
  BY StoredNat DEF Sound
<1>2. /\ e \in Nat /\ c.debt = m.debt
      /\ pending(m, t) =>
           /\ InterestOK(m, e)
           /\ c.debt_multiplier = MulDec(M, One + debt_ratio(m, e))
           /\ c.ctoken.multiplier = MulDec(L, One + ctoken_ratio(m, e))
           /\ a # Governance => c.ctoken.balances[a] = T
      /\ ~ pending(m, t) => c.debt_multiplier = M /\ c.ctoken = m.ctoken
  BY ChargeFields
<1>3. dr \in Nat /\ cr \in Nat
  BY <1>1, <1>2, DebtRatioNat, InterestNat
<1>4. /\ P \div One \in Nat /\ T \div One \in Nat /\ dr \div One \in Nat
      /\ cr \div One \in Nat
  BY <1>0, <1>1, <1>3, DivType
<1>5. CASE ~ pending(m, t)
  <2>1. debt_of(c, a) = token_to_base(P, M) /\ debt_balance(m, t, a) = token_to_base(P, M)
    BY <1>2, <1>5 DEF debt_of, debt_balance
  <2>2. /\ BaseBalance(c.ctoken, a) = token_to_base(T, L)
        /\ collateral_balance(m, t, a) = token_to_base(T, L)
    BY <1>2, <1>5 DEF BaseBalance, collateral_balance
  <2>3. token_to_base(P, M) \in Nat /\ token_to_base(T, L) \in Nat
    BY <1>1, WorthNat
  <2>4. 0 \in -Roundings(P, dr) .. Roundings(P, dr)
        /\ 0 \in -Roundings(T, cr) .. Roundings(T, cr)
    BY <1>4 DEF Roundings
  <2> HIDE DEF P, M, T, L
  <2> QED BY <1>3, <2>1, <2>2, <2>3, <2>4 DEF P, T
<1>6. CASE pending(m, t)
  <2>1. /\ debt_of(c, a) = token_to_base(P, MulDec(M, One + dr))
        /\ debt_balance(m, t, a) = token_to_base(P, M) + MulInt(token_to_base(P, M), dr)
    BY <1>2, <1>6 DEF debt_of, debt_balance
  <2>2. /\ a # Governance =>
              BaseBalance(c.ctoken, a) = token_to_base(T, MulDec(L, One + cr))
        /\ collateral_balance(m, t, a)
             = token_to_base(T, L) + MulInt(token_to_base(T, L), cr)
    BY <1>2, <1>6 DEF BaseBalance, collateral_balance
  <2>a. ASSUME NEW points \in Nat, NEW multiplier \in Nat, NEW ratio \in Nat,
               NEW charged, charged = token_to_base(points, MulDec(multiplier, One + ratio)),
               NEW preview, preview = token_to_base(points, multiplier)
                                        + MulInt(token_to_base(points, multiplier), ratio)
        PROVE  /\ charged \in Nat /\ preview \in Nat
               /\ charged - preview <= 2 + (ratio \div One)
               /\ preview - charged <= 1 + (points \div One)
    BY <2>a, PreviewRounds
  <2> HIDE DEF P, M, T, L
  <2>3. /\ debt_of(c, a) \in Nat /\ debt_balance(m, t, a) \in Nat
        /\ debt_of(c, a) - debt_balance(m, t, a) <= 2 + (dr \div One)
        /\ debt_balance(m, t, a) - debt_of(c, a) <= 1 + (P \div One)
    BY <1>1, <1>3, <2>1, <2>a
  <2>4. a # Governance =>
        /\ BaseBalance(c.ctoken, a) \in Nat /\ collateral_balance(m, t, a) \in Nat
        /\ BaseBalance(c.ctoken, a) - collateral_balance(m, t, a) <= 2 + (cr \div One)
        /\ collateral_balance(m, t, a) - BaseBalance(c.ctoken, a) <= 1 + (T \div One)
    BY <1>1, <1>3, <2>2, <2>a
  <2>5. ASSUME NEW x \in Nat, NEW y \in Nat, NEW points, points \div One \in Nat,
               NEW ratio, ratio \div One \in Nat, x - y <= 2 + (ratio \div One),
               y - x <= 1 + (points \div One)
        PROVE  x - y \in -Roundings(points, ratio) .. Roundings(points, ratio)
    <3> DEFINE u == points \div One
               v == ratio \div One
    <3>1. u \in Nat /\ v \in Nat /\ x - y <= 2 + v /\ y - x <= 1 + u  BY <2>5
    <3> HIDE DEF u, v
    <3>2. x - y \in -(3 + u + v) .. 3 + u + v  BY <3>1
    <3> QED BY <3>2 DEF Roundings, u, v
  <2>6. debt_of(c, a) - debt_balance(m, t, a) \in -Roundings(P, dr) .. Roundings(P, dr)
    BY <1>4, <2>3, <2>5
  <2>7. a # Governance =>
          BaseBalance(c.ctoken, a) - collateral_balance(m, t, a)
            \in -Roundings(T, cr) .. Roundings(T, cr)
    BY <1>4, <2>4, <2>5
  <2> QED BY <1>3, <2>3, <2>4, <2>6, <2>7 DEF P, T
<1> QED BY <1>5, <1>6

-----------------------------------------------------------------------------
(***************************************************************************)
(* The total of the debts, while repayments stay within what is owed.      *)
(***************************************************************************)
\* The total is the sum of the debts of the accounts.
Exact(m) == m.total_points = SumFunction(m.debt)

\* A loan keeps the total the sum of the debts.
LEMMA IncreaseExact ==
  ASSUME NEW K, NEW m \in StoredMarket(K), Exact(m), NEW a \in Accounts, NEW amount,
         IncreaseOK(m, a, amount)
  PROVE  Exact(increase(m, a, amount))
<1> DEFINE points == base_to_token(amount, m.debt_multiplier)
           v == m.debt[a] + points
<1>1. points \in Nat /\ v \in 0 .. Modulus - 1
  BY ModulusAssumption DEF IncreaseOK, PointsOK, Fits
<1>2. increase(m, a, amount)
        = [m EXCEPT !.total_points = m.total_points + points,
                    !.debt = [m.debt EXCEPT ![a] = v]]
  BY DEF increase, StoredMarket
<1>3. m.debt[a] \in Nat  BY StoredNat
<1> HIDE DEF points, v
<1>4. SumFunction([m.debt EXCEPT ![a] = v]) = SumFunction(m.debt) - m.debt[a] + v
      /\ SumFunction(m.debt) \in Int
  BY <1>1, DebtSum
<1>5. SumFunction([m.debt EXCEPT ![a] = v]) = m.total_points + points
  BY <1>1, <1>3, <1>4 DEF v, Exact
<1> QED BY <1>2, <1>5 DEF Exact, StoredMarket

\* A repayment of no more points than the account owes takes them off the
\* account and the total, and none are left over.
LEMMA DecreaseExact ==
  ASSUME NEW K, NEW m \in StoredMarket(K), Exact(m), NEW a \in Accounts, NEW amount,
         PointsOK(m, amount), NEW points, points = base_to_token(amount, m.debt_multiplier),
         points <= m.debt[a], NEW n, n = decrease(m, a, amount)
  PROVE  /\ points \in Nat
         /\ n.debt = [m.debt EXCEPT ![a] = m.debt[a] - points]
         /\ SumFunction(n.debt) = SumFunction(m.debt) - points
         /\ Exact(n)
         /\ Surplus(m, a, amount) = 0
<1> DEFINE v == m.debt[a] - points
           debts == [m.debt EXCEPT ![a] = v]
<1>1. points \in Nat
  BY ModulusAssumption DEF PointsOK, Fits
<1>2. m.debt[a] \in Nat /\ m.total_points \in Nat /\ m.debt_multiplier \in Nat
      /\ m.debt[a] \in 0 .. Modulus - 1
  BY StoredNat DEF StoredMarket
<1>3. m.debt[a] <= m.total_points
  <2>1. m.debt \in [Accounts -> Int] /\ \A x \in Accounts : m.debt[x] >= 0
    BY StoredNat, ModulusAssumption DEF StoredMarket
  <2> QED BY <2>1, SumMember, TokenAssumption DEF Exact
<1>4. Less(m.debt[a], points) = v /\ Less(m.total_points, points) = m.total_points - points
  BY <1>1, <1>2, <1>3 DEF Less
<1>5. v \in 0 .. Modulus - 1
  BY <1>1, <1>2, ModulusAssumption
<1>6. n = [m EXCEPT !.total_points = m.total_points - points, !.debt = debts]
  BY <1>4 DEF decrease, StoredMarket
<1> HIDE DEF v
<1>7. SumFunction(debts) = SumFunction(m.debt) - m.debt[a] + v /\ SumFunction(m.debt) \in Int
  BY <1>5, DebtSum
<1>8. SumFunction(debts) = SumFunction(m.debt) - points
  BY <1>1, <1>2, <1>7 DEF v
<1> HIDE DEF debts
<1>9. n.debt = debts /\ n.total_points = m.total_points - points
  BY <1>6 DEF StoredMarket
<1>10. Surplus(m, a, amount) = 0
  <2>1. points >= m.debt[a] => points - m.debt[a] = 0
    BY <1>1, <1>2
  <2>2. token_to_base(0, m.debt_multiplier) = 0
    <3>1. 0 * m.debt_multiplier = 0 /\ DecimalFractional \in Nat \ {0}
      BY <1>2, FractionAssumption
    <3> QED BY <3>1 DEF token_to_base, MulInt
  <2>3. points >= m.total_points => points >= m.debt[a]
    BY <1>1, <1>2, <1>3
  <2> QED BY <2>1, <2>2, <2>3 DEF Surplus
<1> QED BY <1>1, <1>8, <1>9, <1>10 DEF Exact, debts, v

\* An amount within a debt before interest is charged is no more points than
\* the account owes, after it is charged too.
LEMMA RepaidWithinDebt ==
  ASSUME NEW K, NEW m, NEW t \in Nat, Sound(K, m, t), Rated(m), NEW a \in Accounts,
         NEW amount \in Nat, RepayToOK(m, t, a, amount)
  PROVE  base_to_token(amount, charge_interest(m, t).debt_multiplier) <= m.debt[a]
<1> DEFINE d == DecimalFractional
           P == m.debt[a]
           M == m.debt_multiplier
           N == charge_interest(m, t).debt_multiplier
           x == (P * M) \div d
           n == (amount * d) \div N
<1>1. /\ P \in Nat /\ M \in Nat /\ N \in Nat \ {0} /\ M <= N /\ d \in Nat \ {0}
  <2>1. m \in StoredMarket(K) /\ charge_interest(m, t) \in StoredMarket(K)
    BY ChargeSound DEF Sound, RepayToOK
  <2>2. N \in Nat  BY <2>1, StoredNat
  <2>3. N > 0  BY DEF RepayToOK, PointsOK
  <2> QED BY <2>1, <2>2, <2>3, StoredNat, ChargeGrows, FractionAssumption DEF RepayToOK
<1>2. amount <= x
  BY DEF RepayToOK, debt_of, token_to_base, MulInt
<1>3. base_to_token(amount, N) = n
  BY DEF base_to_token
<1> HIDE DEF d, P, M, N
<1>4. x \in Nat /\ d * x <= P * M
  <2>1. P * M \in Nat  BY <1>1
  <2> QED BY <1>1, <2>1, DivBounds
<1> HIDE DEF x
<1>5. n \in Nat /\ N * n <= amount * d
  <2>1. amount * d \in Nat  BY <1>1
  <2> QED BY <1>1, <2>1, DivBounds
<1> HIDE DEF n
<1>6. amount * d <= P * N
  <2>1. amount * d <= x * d /\ P * M <= P * N  BY <1>1, <1>2, <1>4, TimesMonotone
  <2>2. x * d = d * x /\ x * d \in Int /\ amount * d \in Int /\ P * M \in Int /\ P * N \in Int
    BY <1>1, <1>4
  <2> QED BY <1>4, <2>1, <2>2
<1>7. N * n <= N * P
  <2>1. P * N = N * P /\ P * N \in Int /\ N * n \in Int /\ amount * d \in Int
    BY <1>1, <1>5
  <2> QED BY <1>5, <1>6, <2>1
<1>8. n <= P
  BY <1>1, <1>5, <1>7, CancelFactor
<1> QED BY <1>3, <1>8 DEF N, P

-----------------------------------------------------------------------------
(***************************************************************************)
(* Claims and what backs them, in fractions of a base token.               *)
(***************************************************************************)
\* What the C tokens are worth beyond the cash and the debts.
Shortfall(m) ==
    m.ctoken.total_supply * m.ctoken.multiplier - m.cash * One
      - SumFunction(m.debt) * m.debt_multiplier

\* The sum of a market's debts is a natural number.
LEMMA DebtSumNat ==
  ASSUME NEW K, NEW m \in StoredMarket(K)
  PROVE  SumFunction(m.debt) \in Nat
<1>1. m.debt \in [Accounts -> Int] /\ \A x \in Accounts : m.debt[x] >= 0
  BY StoredNat, ModulusAssumption DEF StoredMarket
<1>2. SumFunction(m.debt) \in Int /\ SumFunction(m.debt) >= 0
  BY <1>1, SumInt, SumNonNegative, TokenAssumption
<1> QED BY <1>2

\* The shortfall is an integer.
LEMMA ShortfallInt ==
  ASSUME NEW K, NEW m \in StoredMarket(K)
  PROVE  Shortfall(m) \in Int
<1> DEFINE S == m.ctoken.total_supply
           L == m.ctoken.multiplier
           C == m.cash
           P == SumFunction(m.debt)
           M == m.debt_multiplier
<1>1. S \in Int /\ L \in Int /\ C \in Int /\ P \in Int /\ M \in Int /\ One \in Int
  BY StoredNat, DebtSumNat, FractionAssumption DEF One
<1>2. Shortfall(m) = S * L - C * One - P * M  BY DEF Shortfall
<1> HIDE DEF S, L, C, P, M
<1>3. S * L \in Int /\ C * One \in Int /\ P * M \in Int  BY <1>1
<1> QED BY <1>2, <1>3

\* C tokens or points for an amount are worth the amount, but for a rounding.
LEMMA ConvertedWorth ==
  ASSUME NEW amount \in Nat, NEW multiplier \in Nat \ {0}, NEW tokens,
         tokens = base_to_token(amount, multiplier)
  PROVE  /\ tokens \in Nat /\ tokens * multiplier <= amount * One
         /\ amount * One <= tokens * multiplier + multiplier
<1>1. One \in Nat /\ tokens = (amount * One) \div multiplier
  BY FractionAssumption DEF One, base_to_token
<1>2. amount * One \in Nat  BY <1>1
<1>3. /\ tokens \in Nat /\ multiplier * tokens <= amount * One
      /\ amount * One <= multiplier * tokens + (multiplier - 1)
  BY <1>1, <1>2, DivBounds
<1>4. multiplier * tokens = tokens * multiplier /\ multiplier * tokens \in Int
  BY <1>3
<1> QED BY <1>2, <1>3, <1>4

\* The shortfall after a step that changes the C tokens by x, the cash by y and
\* the points by z.
LEMMA ShortfallShift ==
  ASSUME NEW K, NEW m \in StoredMarket(K), NEW n,
         NEW x \in Int, n.ctoken.total_supply = m.ctoken.total_supply + x,
         NEW y \in Int, n.cash = m.cash + y,
         NEW z \in Int, SumFunction(n.debt) = SumFunction(m.debt) + z,
         n.ctoken.multiplier = m.ctoken.multiplier,
         n.debt_multiplier = m.debt_multiplier
  PROVE  /\ Shortfall(m) \in Int
         /\ Shortfall(n) = Shortfall(m) + x * m.ctoken.multiplier - y * One
                             - z * m.debt_multiplier
<1> DEFINE S == m.ctoken.total_supply
           L == m.ctoken.multiplier
           C == m.cash
           P == SumFunction(m.debt)
           M == m.debt_multiplier
<1>1. S \in Int /\ L \in Int /\ C \in Int /\ P \in Int /\ M \in Int /\ One \in Int
  BY StoredNat, DebtSumNat, FractionAssumption DEF One
<1>2. /\ Shortfall(m) = S * L - C * One - P * M
      /\ Shortfall(n) = (S + x) * L - (C + y) * One - (P + z) * M
  BY DEF Shortfall
<1> HIDE DEF S, L, C, P, M
<1>3. /\ (S + x) * L = S * L + x * L /\ (C + y) * One = C * One + y * One
      /\ (P + z) * M = P * M + z * M
  BY <1>1, Distribute
<1>4. /\ S * L \in Int /\ C * One \in Int /\ P * M \in Int
      /\ x * L \in Int /\ y * One \in Int /\ z * M \in Int
  BY <1>1
<1> QED BY <1>2, <1>3, <1>4 DEF L, M

\* Charging interest, with nothing for the reserve, creates no claim without
\* debt behind it, but for the last digit of the multiplier on each point and
\* the ratio.
LEMMA ChargeBacked ==
  ASSUME NEW K, NEW m, NEW t \in Nat, Sound(K, m, t), Rated(m), ChargeOK(m, t),
         m.reserve_factor = 0, NEW c, c = charge_interest(m, t)
  PROVE  /\ Shortfall(m) \in Int /\ Shortfall(c) \in Int
         /\ debt_ratio(m, epochs_passed(m, t)) \in Nat
         /\ Shortfall(c) <= Shortfall(m) + debt_ratio(m, epochs_passed(m, t))
                              + SumFunction(m.debt)
<1> DEFINE e == epochs_passed(m, t)
           d == DecimalFractional
           S == m.ctoken.total_supply
           L == m.ctoken.multiplier
           C == m.cash
           D == SumFunction(m.debt)
           M == m.debt_multiplier
           r == debt_ratio(m, e)
<1>1. /\ m \in StoredMarket(K) /\ S \in Nat /\ L \in Nat /\ C \in Nat /\ D \in Nat /\ M \in Nat
      /\ m.charge_period \in Nat /\ m.total_points \in Nat /\ m.total_points <= D
      /\ d \in Nat \ {0} /\ One = d
  BY StoredNat, DebtSumNat, FractionAssumption DEF Sound, One
<1>2. /\ c \in StoredMarket(K) /\ c.debt = m.debt /\ c.cash = m.cash /\ e \in Nat
      /\ pending(m, t) =>
           /\ InterestOK(m, e)
           /\ c.debt_multiplier = MulDec(M, One + r)
           /\ c.ctoken.multiplier = MulDec(L, One + ctoken_ratio(m, e))
           /\ reserve(m, e) = 0 => c.ctoken.total_supply = S
      /\ ~ pending(m, t) => c.debt_multiplier = M /\ c.ctoken = m.ctoken
  BY ChargeFields
<1>3. r \in Nat  BY <1>1, <1>2, DebtRatioNat
<1> HIDE DEF d
<1>4. Shortfall(m) = S * L - C * d - D * M
  BY <1>1 DEF Shortfall
<1>5. /\ S * L \in Int /\ C * d \in Int /\ D * M \in Int
  BY <1>1
<1>6. CASE ~ pending(m, t)
  <2>1. Shortfall(c) = Shortfall(m)
    BY <1>2, <1>6 DEF Shortfall
  <2> HIDE DEF S, L, C, D, M, r
  <2> QED BY <1>1, <1>3, <1>4, <1>5, <2>1 DEF r, D
<1>7. CASE pending(m, t)
  <2> DEFINE I == charged_interest(m, e)
             rc == ctoken_ratio(m, e)
             L1 == c.ctoken.multiplier
             M1 == c.debt_multiplier
             s == supplied(m)
             owed == total(m)
  <2>1. InterestOK(m, e)  BY <1>2, <1>7
  <2>2. I \in Nat /\ rc \in Nat
    BY <1>1, <1>2, <2>1, InterestNat
  <2>3. reserve(m, e) = 0
    <3> HIDE DEF I
    <3>1. I * 0 = 0  BY <2>2
    <3> QED BY <1>1, <3>1 DEF reserve, MulInt, I, d
  <2>4. s \in Nat \ {0} /\ owed \in Nat /\ owed <= s
    BY <1>1, <1>7, <2>1, StoredNat DEF pending, InterestOK
  <2>5. /\ s = (S * L) \div d /\ owed = (m.total_points * M) \div d
        /\ I = (owed * r) \div d /\ rc = (I * d) \div s
        /\ L1 = (L * (d + rc)) \div d /\ M1 = (M * (d + r)) \div d
    <3>1. s - 0 = s  BY <2>4
    <3> HIDE DEF L1, M1
    <3> QED BY <1>1, <1>2, <1>7, <2>3, <3>1
        DEF supplied, total, token_to_base, MulInt, charged_interest, ctoken_ratio,
            DivDec, MulDec, L1, M1, d
  <2>6. Shortfall(c) = S * L1 - C * d - D * M1
    BY <1>1, <1>2, <1>7, <2>3 DEF Shortfall
  <2> HIDE DEF S, L, C, D, M, r, I, rc, L1, M1, s, owed
  <2>7. /\ S * L <= d * s + (d - 1) /\ d * I <= owed * r /\ s * rc <= I * d
        /\ L1 \in Nat /\ d * L1 <= L * (d + rc)
    <3>1. S * L \in Nat /\ owed * r \in Nat /\ I * d \in Nat /\ L * (d + rc) \in Nat
      BY <1>1, <1>3, <2>2, <2>4
    <3> QED BY <1>1, <2>4, <2>5, <3>1, DivBounds
  <2>8. /\ d * owed <= D * M /\ M1 \in Nat /\ M * (d + r) <= d * M1 + (d - 1)
    <3>1. m.total_points * M \in Nat /\ M * (d + r) \in Nat  BY <1>1, <1>3
    <3>2. d * owed <= m.total_points * M /\ M1 \in Nat /\ M * (d + r) <= d * M1 + (d - 1)
      BY <1>1, <2>5, <3>1, DivBounds
    <3>3. m.total_points * M <= D * M  BY <1>1, TimesMonotone
    <3>4. d * owed \in Int /\ D * M \in Int  BY <1>1, <2>4
    <3> QED BY <3>1, <3>2, <3>3, <3>4
  <2>9. S * L1 <= S * L + owed * r + r
    BY <1>1, <1>3, <2>2, <2>4, <2>7, ClaimsGrow
  <2>10. D * M + owed * r <= D * M1 + D
    BY <1>1, <1>3, <2>4, <2>8, DebtsGrow
  <2>11. S * L1 \in Int /\ D * M1 \in Int /\ owed * r \in Int
    BY <1>1, <1>3, <2>4, <2>7, <2>8
  <2>12. Shortfall(c) <= Shortfall(m) + r + D
    BY <1>1, <1>3, <1>4, <1>5, <2>6, <2>9, <2>10, <2>11
  <2>13. Shortfall(c) \in Int  BY <1>5, <2>6, <2>11
  <2> QED BY <1>3, <1>4, <1>5, <2>12, <2>13 DEF r, D
<1> QED BY <1>6, <1>7

-----------------------------------------------------------------------------
(***************************************************************************)
(* What each handler changes of a market whose interest is charged.        *)
(***************************************************************************)
\* n has the rates, the charging clock and the multipliers of m.
SameCharge(m, n) ==
    /\ n.rates = m.rates /\ n.reserve_factor = m.reserve_factor
    /\ n.last_charged = m.last_charged /\ n.charge_period = m.charge_period
    /\ n.debt_multiplier = m.debt_multiplier
    /\ n.ctoken.multiplier = m.ctoken.multiplier

\* n has the debts of m.
SameDebts(m, n) == n.debt = m.debt /\ n.total_points = m.total_points

\* A step creates no claim without the asset behind it, but for one C token
\* and one point.
Backs(m, n) ==
    /\ Shortfall(m) \in Int /\ Shortfall(n) \in Int
    /\ Shortfall(n) <= Shortfall(m) + n.ctoken.multiplier + n.debt_multiplier

\* An amount is exchanged for C tokens that are worth no more.
LEMMA MintEffect ==
  ASSUME NEW K, NEW m \in StoredMarket(K), NEW a \in Accounts, NEW amount \in Nat,
         MintBaseOK(m, a, amount), NEW n, n = receive(mint_base(m, a, amount), amount)
  PROVE  SameCharge(m, n) /\ SameDebts(m, n) /\ Backs(m, n)
<1> DEFINE tokens == FromBase(m.ctoken, amount)
           L == m.ctoken.multiplier
<1>1. /\ m.ctoken \in TokenState /\ m.cash \in Nat /\ m.debt_multiplier \in Nat
      /\ L \in Nat \ {0}
  BY StoredNat DEF MintBaseOK, FromBaseOK
<1>2. tokens \in Nat /\ tokens * L <= amount * One
  BY <1>1, ConvertedWorth DEF FromBase
<1>3. n = [m EXCEPT !.ctoken = mint(m.ctoken, a, tokens), !.cash = m.cash + amount]
  BY DEF receive, mint_base, StoredMarket
<1> HIDE DEF tokens
<1>4. /\ mint(m.ctoken, a, tokens).total_supply = m.ctoken.total_supply + tokens
      /\ mint(m.ctoken, a, tokens).multiplier = L
  BY <1>1 DEF mint, ChangeBalance, TokenState
<1>5. SameCharge(m, n) /\ SameDebts(m, n)
      /\ n.ctoken.total_supply = m.ctoken.total_supply + tokens
      /\ n.cash = m.cash + amount
  BY <1>3, <1>4 DEF SameCharge, SameDebts, StoredMarket
<1>6. /\ Shortfall(m) \in Int
      /\ Shortfall(n) = Shortfall(m) + tokens * L - amount * One - 0 * m.debt_multiplier
  <2>1. SumFunction(n.debt) = SumFunction(m.debt) + 0 /\ 0 \in Int
    BY <1>5, DebtSumNat DEF SameDebts
  <2> QED BY <1>2, <1>5, <2>1, ShortfallShift DEF SameCharge
<1>7. tokens * L \in Int /\ amount * One \in Int /\ 0 * m.debt_multiplier = 0
  BY <1>1, <1>2, FractionAssumption DEF One
<1> QED BY <1>1, <1>2, <1>5, <1>6, <1>7 DEF Backs, SameCharge

\* The C tokens that are burnt for an amount are worth it, but for a rounding.
LEMMA BurnEffect ==
  ASSUME NEW K, NEW m \in StoredMarket(K), NEW a \in Accounts, NEW amount \in Nat,
         BurnBaseOK(m, a, amount), NEW n, n = pay(burn_base_from(m, a, amount), amount)
  PROVE  SameCharge(m, n) /\ SameDebts(m, n) /\ Backs(m, n)
<1> DEFINE tokens == FromBase(m.ctoken, amount)
           L == m.ctoken.multiplier
<1>1. /\ m.ctoken \in TokenState /\ m.cash \in Nat /\ m.debt_multiplier \in Nat
      /\ L \in Nat \ {0} /\ m.ctoken.total_supply \in Nat
  BY StoredNat DEF BurnBaseOK, FromBaseOK
<1>2. tokens \in Nat /\ amount * One <= tokens * L + L
  BY <1>1, ConvertedWorth DEF FromBase
<1>3. n = [m EXCEPT !.ctoken = burn_from(m.ctoken, a, tokens), !.cash = m.cash - amount]
  BY DEF pay, burn_base_from, StoredMarket
<1> HIDE DEF tokens
<1>4. /\ burn_from(m.ctoken, a, tokens).total_supply = m.ctoken.total_supply - tokens
      /\ burn_from(m.ctoken, a, tokens).multiplier = L
  BY <1>1 DEF burn_from, ChangeBalance, TokenState
<1>5. SameCharge(m, n) /\ SameDebts(m, n)
      /\ n.ctoken.total_supply = m.ctoken.total_supply - tokens
      /\ n.cash = m.cash - amount
  BY <1>3, <1>4 DEF SameCharge, SameDebts, StoredMarket
<1>6. /\ Shortfall(m) \in Int
      /\ Shortfall(n) = Shortfall(m) + (-tokens) * L - (-amount) * One
                          - 0 * m.debt_multiplier
  <2>1. SumFunction(n.debt) = SumFunction(m.debt) + 0 /\ 0 \in Int
    BY <1>5, DebtSumNat DEF SameDebts
  <2>2. /\ n.ctoken.total_supply = m.ctoken.total_supply + (-tokens) /\ -tokens \in Int
        /\ n.cash = m.cash + (-amount) /\ -amount \in Int
    BY <1>1, <1>2, <1>5
  <2> QED BY <1>5, <2>1, <2>2, ShortfallShift DEF SameCharge
<1>7. /\ tokens * L \in Int /\ amount * One \in Int /\ 0 * m.debt_multiplier = 0
      /\ (-tokens) * L = -(tokens * L) /\ (-amount) * One = -(amount * One)
  BY <1>1, <1>2, FractionAssumption DEF One
<1> QED BY <1>1, <1>2, <1>5, <1>6, <1>7 DEF Backs, SameCharge

\* The points of a loan are worth what is paid out, but for a rounding.
LEMMA LoanEffect ==
  ASSUME NEW K, NEW m \in StoredMarket(K), NEW a \in Accounts, NEW amount \in Nat,
         IncreaseOK(m, a, amount), NEW n, n = pay(increase(m, a, amount), amount)
  PROVE  /\ SameCharge(m, n) /\ Backs(m, n)
         /\ Exact(m) => Exact(n)
         /\ \A b \in Accounts : n.debt[b] >= m.debt[b]
<1> DEFINE points == base_to_token(amount, m.debt_multiplier)
           M == m.debt_multiplier
           i == increase(m, a, amount)
           v == m.debt[a] + points
<1>1. /\ m.ctoken \in TokenState /\ m.ctoken.multiplier \in Nat /\ m.cash \in Nat
      /\ M \in Nat \ {0} /\ m.ctoken.total_supply \in Nat
      /\ \A b \in Accounts : m.debt[b] \in Nat
  BY StoredNat DEF IncreaseOK, PointsOK
<1>2. points \in Nat /\ amount * One <= points * M + M
  BY <1>1, ConvertedWorth
<1>3. v \in 0 .. Modulus - 1
  BY DEF IncreaseOK, Fits
<1>4. i = [m EXCEPT !.total_points = m.total_points + points,
                    !.debt = [m.debt EXCEPT ![a] = v]]
  BY DEF increase, StoredMarket
<1>5. SumFunction([m.debt EXCEPT ![a] = v]) = SumFunction(m.debt) - m.debt[a] + v
  BY <1>3, DebtSum
<1>6. Exact(m) => Exact(i)  BY IncreaseExact
<1> HIDE DEF points
<1>7. /\ SameCharge(m, n) /\ n.ctoken = m.ctoken /\ n.cash = m.cash - amount
      /\ n.debt = [m.debt EXCEPT ![a] = v] /\ n.debt = i.debt
      /\ n.total_points = i.total_points
  BY <1>4 DEF SameCharge, StoredMarket, pay
<1>8. SumFunction(n.debt) = SumFunction(m.debt) + points
  BY <1>1, <1>2, <1>5, <1>7, DebtSumNat
<1>9. /\ Shortfall(m) \in Int
      /\ Shortfall(n) = Shortfall(m) + 0 * m.ctoken.multiplier - (-amount) * One - points * M
  <2> DEFINE x == 0
             y == -amount
  <2>1. /\ n.ctoken.total_supply = m.ctoken.total_supply + x /\ x \in Int
        /\ n.cash = m.cash + y /\ y \in Int /\ points \in Int
    BY <1>1, <1>2, <1>7
  <2>2. n.ctoken.multiplier = m.ctoken.multiplier /\ n.debt_multiplier = m.debt_multiplier
    BY <1>7 DEF SameCharge
  <2> HIDE DEF x, y
  <2>3. /\ Shortfall(m) \in Int
        /\ Shortfall(n) = Shortfall(m) + x * m.ctoken.multiplier - y * One - points * M
    BY <1>8, <2>1, <2>2, ShortfallShift
  <2> QED BY <2>3 DEF x, y
<1>10. /\ points * M \in Int /\ amount * One \in Int /\ 0 * m.ctoken.multiplier = 0
       /\ (-amount) * One = -(amount * One)
  BY <1>1, <1>2, FractionAssumption DEF One
<1>11. Backs(m, n)
  BY <1>1, <1>2, <1>7, <1>9, <1>10 DEF Backs, SameCharge
<1>12. \A b \in Accounts : n.debt[b] >= m.debt[b]
  <2>1. m.debt \in [Accounts -> 0 .. Modulus - 1]  BY DEF StoredMarket
  <2> QED BY <1>1, <1>2, <1>7, <2>1
<1>13. Exact(m) => Exact(n)
  BY <1>6, <1>7 DEF Exact
<1> QED BY <1>7, <1>11, <1>12, <1>13

\* The points that a repayment within the debt takes off are worth no more than
\* what was paid, and the market keeps all of it.
LEMMA RepaymentEffect ==
  ASSUME NEW K, NEW m \in StoredMarket(K), NEW a \in Accounts, NEW amount \in Nat,
         PointsOK(m, amount), base_to_token(amount, m.debt_multiplier) <= m.debt[a],
         Exact(m), NEW n, n = receive(decrease(m, a, amount), amount)
  PROVE  /\ SameCharge(m, n) /\ Backs(m, n) /\ Exact(n)
         /\ Surplus(m, a, amount) = 0
         /\ n.cash = m.cash + amount
         /\ (m.debt[a] - n.debt[a]) * m.debt_multiplier <= amount * One
         /\ \A b \in Accounts \ {a} : n.debt[b] = m.debt[b]
<1> DEFINE points == base_to_token(amount, m.debt_multiplier)
           M == m.debt_multiplier
           i == decrease(m, a, amount)
<1>1. /\ m.ctoken \in TokenState /\ m.ctoken.multiplier \in Nat /\ m.cash \in Nat
      /\ M \in Nat \ {0} /\ m.ctoken.total_supply \in Nat
      /\ \A b \in Accounts : m.debt[b] \in Nat
  BY StoredNat DEF PointsOK
<1>2. points \in Nat /\ points * M <= amount * One
  BY <1>1, ConvertedWorth
<1>3. /\ i.debt = [m.debt EXCEPT ![a] = m.debt[a] - points]
      /\ SumFunction(i.debt) = SumFunction(m.debt) - points
      /\ Exact(i) /\ Surplus(m, a, amount) = 0
  BY DecreaseExact
<1> DEFINE rest == Less(m.total_points, points)
           debts == [m.debt EXCEPT ![a] = Less(m.debt[a], points)]
<1>4. /\ i = [m EXCEPT !.total_points = rest, !.debt = debts]
      /\ n = [m EXCEPT !.total_points = rest, !.debt = debts, !.cash = m.cash + amount]
  BY DEF receive, decrease, StoredMarket
<1> HIDE DEF points, rest, debts
<1>5. /\ SameCharge(m, n) /\ n.ctoken = m.ctoken /\ n.cash = m.cash + amount
      /\ n.debt = i.debt /\ n.total_points = i.total_points
  <2> HIDE DEF i
  <2>1. n.ctoken = m.ctoken /\ n.cash = m.cash + amount
    BY <1>4 DEF StoredMarket
  <2>2. n.debt = i.debt /\ n.total_points = i.total_points
    BY <1>4 DEF StoredMarket
  <2>3. SameCharge(m, n)
    BY <1>4 DEF SameCharge, StoredMarket
  <2> QED BY <2>1, <2>2, <2>3
<1> HIDE DEF i
<1>6. SumFunction(n.debt) = SumFunction(m.debt) + (-points)
  BY <1>2, <1>3, <1>5, DebtSumNat
<1>7. /\ Shortfall(m) \in Int
       /\ Shortfall(n) = Shortfall(m) + 0 * m.ctoken.multiplier - amount * One
                           - (-points) * M
  <2> DEFINE x == 0
             z == -points
  <2>1. /\ n.ctoken.total_supply = m.ctoken.total_supply + x /\ x \in Int
        /\ n.cash = m.cash + amount /\ amount \in Int
        /\ SumFunction(n.debt) = SumFunction(m.debt) + z /\ z \in Int
    BY <1>1, <1>2, <1>5, <1>6
  <2>2. n.ctoken.multiplier = m.ctoken.multiplier /\ n.debt_multiplier = m.debt_multiplier
    BY <1>5 DEF SameCharge
  <2> HIDE DEF x, z, M
  <2>3. /\ Shortfall(m) \in Int
        /\ Shortfall(n) = Shortfall(m) + x * m.ctoken.multiplier - amount * One
                            - z * m.debt_multiplier
    BY ONLY <2>1, <2>2, ShortfallShift, m \in StoredMarket(K)
  <2> QED BY <2>3 DEF x, z, M
<1>8. /\ points * M \in Int /\ amount * One \in Int /\ 0 * m.ctoken.multiplier = 0
       /\ (-points) * M = -(points * M)
  BY <1>1, <1>2, FractionAssumption DEF One
<1>9. Backs(m, n)
  BY <1>1, <1>2, <1>5, <1>7, <1>8 DEF Backs, SameCharge
<1>10. Exact(n)  BY <1>3, <1>5 DEF Exact
<1>11. /\ m.debt[a] - n.debt[a] = points
       /\ \A b \in Accounts \ {a} : n.debt[b] = m.debt[b]
  <2>1. m.debt \in [Accounts -> 0 .. Modulus - 1]  BY DEF StoredMarket
  <2> QED BY <1>1, <1>2, <1>3, <1>5, <2>1
<1> QED BY <1>2, <1>3, <1>5, <1>9, <1>10, <1>11

\* C tokens that change hands change nothing else.
LEMMA MoveEffect ==
  ASSUME NEW K, NEW m \in StoredMarket(K), NEW a \in Accounts, NEW b \in Accounts,
         NEW tokens \in Nat, NEW n,
         n = [m EXCEPT !.ctoken = transfer_tokens(@, a, b, tokens)]
  PROVE  SameCharge(m, n) /\ SameDebts(m, n) /\ Backs(m, n) /\ n.cash = m.cash
<1> DEFINE c == transfer_tokens(m.ctoken, a, b, tokens)
<1>1. /\ m.ctoken \in TokenState /\ m.ctoken.multiplier \in Nat /\ m.cash \in Nat
      /\ m.debt_multiplier \in Nat /\ m.ctoken.total_supply \in Nat
  BY StoredNat
<1>2. c.total_supply = m.ctoken.total_supply /\ c.multiplier = m.ctoken.multiplier
  BY <1>1 DEF transfer_tokens, ChangeBalance, TokenState
<1>3. n = [m EXCEPT !.ctoken = c]  BY DEF StoredMarket
<1> HIDE DEF c
<1>4. /\ SameCharge(m, n) /\ SameDebts(m, n) /\ n.cash = m.cash
      /\ n.ctoken.total_supply = m.ctoken.total_supply
  BY <1>2, <1>3 DEF SameCharge, SameDebts, StoredMarket
<1>5. Shortfall(n) = Shortfall(m)
  BY <1>4 DEF Shortfall, SameCharge, SameDebts
<1>6. Shortfall(m) \in Int  BY ShortfallInt
<1> QED BY <1>1, <1>4, <1>5, <1>6 DEF Backs, SameCharge

-----------------------------------------------------------------------------
(***************************************************************************)
(* What each message that charges interest makes of the charged market.    *)
(***************************************************************************)
\* Changing debts, C tokens of the same multiplier or cash keeps the charge.
LEMMA FieldsKeepCharge ==
  ASSUME NEW K, NEW m \in StoredMarket(K), NEW amount
  PROVE  /\ SameCharge(m, pay(m, amount)) /\ SameCharge(m, receive(m, amount))
         /\ \A a \in Accounts : SameCharge(m, increase(m, a, amount))
         /\ \A a \in Accounts : SameCharge(m, decrease(m, a, amount))
BY DEF SameCharge, StoredMarket, pay, receive, increase, decrease

\* Keeping the charge, twice.
LEMMA ChargeKeptTwice ==
  ASSUME NEW m, NEW n, NEW o, SameCharge(m, n), SameCharge(n, o)
  PROVE  SameCharge(m, o)
BY DEF SameCharge

\* A deposit.
LEMMA DepositEffect ==
  ASSUME NEW K, NEW m, NEW t \in Nat, Sound(K, m, t), NEW a \in Accounts,
         NEW amount \in Nat, DepositOK(m, t, a, amount),
         NEW c, c = charge_interest(m, t), NEW n, n = deposit(m, t, a, amount)
  PROVE  ChargeOK(m, t) /\ SameCharge(c, n) /\ SameDebts(c, n) /\ Backs(c, n)
<1>1. ChargeOK(m, t) /\ MintBaseOK(c, a, amount)
  BY DEF DepositOK
<1>2. c \in StoredMarket(K)
  BY <1>1, ChargeSound DEF Sound
<1>3. n = receive(mint_base(c, a, amount), amount)
  BY DEF deposit
<1> QED BY <1>1, <1>2, <1>3, MintEffect

\* A withdrawal.
LEMMA WithdrawEffect ==
  ASSUME NEW K, NEW m, NEW t \in Nat, Sound(K, m, t), NEW a \in Accounts,
         NEW amount \in Nat, WithdrawBaseOK(m, t, a, amount),
         NEW c, c = charge_interest(m, t), NEW n, n = withdraw(m, t, a, amount)
  PROVE  ChargeOK(m, t) /\ SameCharge(c, n) /\ SameDebts(c, n) /\ Backs(c, n)
<1>1. ChargeOK(m, t) /\ BurnBaseOK(c, a, amount)
  BY DEF WithdrawBaseOK
<1>2. c \in StoredMarket(K)
  BY <1>1, ChargeSound DEF Sound
<1>3. n = pay(burn_base_from(c, a, amount), amount)
  BY DEF withdraw
<1> QED BY <1>1, <1>2, <1>3, BurnEffect

\* A loan.
LEMMA BorrowEffect ==
  ASSUME NEW K, NEW m, NEW t \in Nat, Sound(K, m, t), NEW a \in Accounts,
         NEW amount \in Nat, BorrowOK(m, t, a, amount),
         NEW c, c = charge_interest(m, t), NEW n, n = borrow(m, t, a, amount)
  PROVE  /\ ChargeOK(m, t) /\ SameCharge(c, n) /\ Backs(c, n)
         /\ Exact(c) => Exact(n)
         /\ \A b \in Accounts : n.debt[b] >= c.debt[b]
<1>1. ChargeOK(m, t) /\ IncreaseOK(c, a, amount)
  BY DEF BorrowOK
<1>2. c \in StoredMarket(K)
  BY <1>1, ChargeSound DEF Sound
<1>3. n = pay(increase(c, a, amount), amount)
  BY DEF borrow
<1> QED BY <1>1, <1>2, <1>3, LoanEffect

\* C tokens moved by a liquidation.
LEMMA TransferFromEffect ==
  ASSUME NEW K, NEW m, NEW t \in Nat, Sound(K, m, t), NEW a \in Accounts, NEW b \in Accounts,
         NEW amount, NEW price, NEW discount,
         TransferFromOK(m, t, a, b, amount, price, discount),
         NEW c, c = charge_interest(m, t),
         NEW n, n = transfer_from(m, t, a, b, amount, price, discount)
  PROVE  ChargeOK(m, t) /\ SameCharge(c, n) /\ SameDebts(c, n) /\ Backs(c, n)
<1> DEFINE tokens == FromBase(c.ctoken, RepaidValue(amount, price, discount))
<1>1. ChargeOK(m, t) /\ tokens \in Nat
  BY FromBaseNat DEF TransferFromOK
<1>2. c \in StoredMarket(K)
  BY <1>1, ChargeSound DEF Sound
<1>3. n = [c EXCEPT !.ctoken = transfer_tokens(@, a, b, tokens)]
  BY DEF transfer_from
<1> HIDE DEF tokens
<1> QED BY <1>1, <1>2, <1>3, MoveEffect

\* A repayment keeps the charge, also when tokens are sent back.
LEMMA RepayKeepsCharge ==
  ASSUME NEW K, NEW m, NEW t \in Nat, Sound(K, m, t), NEW a \in Accounts, NEW amount,
         ChargeOK(m, t), NEW c, c = charge_interest(m, t)
  PROVE  SameCharge(c, repay(m, t, a, amount)) /\ SameCharge(c, repay_to(m, t, a, amount))
<1>1. c \in StoredMarket(K)
  BY ChargeSound DEF Sound
<1> DEFINE surplus == Surplus(c, a, amount)
<1>2. /\ repay(m, t, a, amount) = pay(receive(decrease(c, a, amount), amount), surplus)
      /\ repay_to(m, t, a, amount) = receive(decrease(c, a, amount), amount)
  BY DEF repay, repay_to
<1> HIDE DEF surplus
<1> QED BY <1>1, <1>2 DEF SameCharge, StoredMarket, pay, receive, decrease

\* A repayment of no more points than the account owes.
LEMMA RepayEffect ==
  ASSUME NEW K, NEW m, NEW t \in Nat, Sound(K, m, t), Exact(m), NEW a \in Accounts,
         NEW amount \in Nat, ChargeOK(m, t), NEW c, c = charge_interest(m, t),
         PointsOK(c, amount), base_to_token(amount, c.debt_multiplier) <= m.debt[a],
         NEW n, n \in {repay(m, t, a, amount), repay_to(m, t, a, amount)}
  PROVE  /\ SameCharge(c, n) /\ Backs(c, n) /\ Exact(n)
         /\ n.cash = m.cash + amount
         /\ (m.debt[a] - n.debt[a]) * n.debt_multiplier <= amount * One
         /\ \A b \in Accounts \ {a} : n.debt[b] = m.debt[b]
<1> DEFINE r == receive(decrease(c, a, amount), amount)
<1>1. /\ c \in StoredMarket(K) /\ c.debt = m.debt /\ c.total_points = m.total_points
      /\ c.cash = m.cash
  BY ChargeSound DEF Sound
<1>2. Exact(c)  BY <1>1 DEF Exact
<1>3. /\ SameCharge(c, r) /\ Backs(c, r) /\ Exact(r)
      /\ Surplus(c, a, amount) = 0
      /\ r.cash = c.cash + amount
      /\ (c.debt[a] - r.debt[a]) * c.debt_multiplier <= amount * One
      /\ \A b \in Accounts \ {a} : r.debt[b] = c.debt[b]
  BY <1>1, <1>2, RepaymentEffect
<1>4. /\ n.debt = r.debt /\ n.total_points = r.total_points /\ n.cash = r.cash
      /\ n.ctoken = r.ctoken /\ n.debt_multiplier = r.debt_multiplier
      /\ SameCharge(c, n)
  <2>1. CASE n = repay_to(m, t, a, amount)
    BY <1>3, <2>1 DEF repay_to
  <2>2. CASE n = repay(m, t, a, amount)
    <3>1. n = pay(r, 0)
      BY <1>3, <2>2 DEF repay
    <3>2. n = [r EXCEPT !.cash = r.cash - 0] /\ r.cash \in Int
      BY <1>1, <1>3, <3>1, StoredNat DEF pay
    <3>3. SameCharge(c, n)
      BY <2>2, RepayKeepsCharge
    <3>4. /\ n.debt = r.debt /\ n.total_points = r.total_points
          /\ n.ctoken = r.ctoken /\ n.debt_multiplier = r.debt_multiplier
      BY <1>1, <3>1 DEF pay, receive, decrease, StoredMarket
    <3>5. n.cash = r.cash - 0
      BY <1>1, <3>1 DEF pay, receive, decrease, StoredMarket
    <3> HIDE DEF r
    <3> QED BY <3>2, <3>3, <3>4, <3>5
  <2> QED BY <2>1, <2>2
<1> HIDE DEF r
<1>5. Backs(c, n) /\ Exact(n)
  BY <1>3, <1>4 DEF Backs, Exact, Shortfall
<1>6. n.debt_multiplier = c.debt_multiplier  BY <1>4 DEF SameCharge
<1> QED BY <1>1, <1>3, <1>4, <1>5, <1>6

\* What an amount leaves over, after its conversion, is less than a point.
LEMMA ConvertedRest ==
  ASSUME NEW amount \in Nat, NEW multiplier \in Nat \ {0}, NEW tokens,
         tokens = base_to_token(amount, multiplier)
  PROVE  tokens \in Nat /\ amount * One - tokens * multiplier \in 0 .. multiplier - 1
<1>1. One \in Nat /\ tokens = (amount * One) \div multiplier
  BY FractionAssumption DEF One, base_to_token
<1>2. amount * One \in Nat  BY <1>1
<1>3. /\ tokens \in Nat /\ multiplier * tokens <= amount * One
      /\ amount * One <= multiplier * tokens + (multiplier - 1)
  BY <1>1, <1>2, DivBounds
<1>4. multiplier * tokens = tokens * multiplier /\ multiplier * tokens \in Int
  BY <1>3
<1> QED BY <1>2, <1>3, <1>4

\* The points of a loan are what is paid out, but for a part of a point.
LEMMA LoanPaid ==
  ASSUME NEW K, NEW m \in StoredMarket(K), NEW a \in Accounts, NEW amount \in Nat,
         IncreaseOK(m, a, amount)
  PROVE  \E points \in Nat :
            /\ increase(m, a, amount).debt = [m.debt EXCEPT ![a] = m.debt[a] + points]
            /\ amount * One - points * m.debt_multiplier \in 0 .. m.debt_multiplier - 1
<1> DEFINE points == base_to_token(amount, m.debt_multiplier)
<1>1. m.debt_multiplier \in Nat \ {0}
  BY StoredNat DEF IncreaseOK, PointsOK
<1>2. /\ points \in Nat
      /\ amount * One - points * m.debt_multiplier \in 0 .. m.debt_multiplier - 1
  BY <1>1, ConvertedRest
<1>3. increase(m, a, amount)
        = [m EXCEPT !.total_points = m.total_points + points,
                    !.debt = [m.debt EXCEPT ![a] = m.debt[a] + points]]
  BY DEF increase, StoredMarket
<1> HIDE DEF points
<1>4. increase(m, a, amount).debt = [m.debt EXCEPT ![a] = m.debt[a] + points]
  BY <1>3 DEF StoredMarket
<1> QED BY <1>2, <1>4

\* The points that a repayment takes off are what is kept of it, but for a part
\* of a point and of a token: Repay sends back the surplus, and RepayTo keeps
\* everything, but has none.
LEMMA RepaymentPaid ==
  ASSUME NEW K, NEW m \in StoredMarket(K), Exact(m), NEW a \in Accounts,
         NEW amount \in Nat, PointsOK(m, amount),
         NEW sent_back \in Nat, sent_back = Surplus(m, a, amount),
         NEW n, n.debt = decrease(m, a, amount).debt, n.cash = m.cash + amount - sent_back
  PROVE  \E points \in Nat, kept \in Int :
            /\ n.debt = [m.debt EXCEPT ![a] = m.debt[a] - points]
            /\ n.cash = m.cash + kept
            /\ kept * One - points * m.debt_multiplier
                 \in 0 .. m.debt_multiplier + One - 2
<1> DEFINE sent == base_to_token(amount, m.debt_multiplier)
           M == m.debt_multiplier
           debts == [m.debt EXCEPT ![a] = Less(m.debt[a], sent)]
           D == m.debt[a]
           kept == amount - sent_back
<1>1. /\ M \in Nat \ {0} /\ D \in Nat /\ m.total_points \in Nat /\ m.cash \in Nat
      /\ One \in Nat \ {0}
  BY StoredNat, FractionAssumption DEF PointsOK, One
<1>2. sent \in Nat /\ amount * One - sent * M \in 0 .. M - 1
  BY <1>1, ConvertedRest
<1>3. D <= m.total_points
  <2>1. m.debt \in [Accounts -> Int] /\ \A x \in Accounts : m.debt[x] >= 0
    BY StoredNat, ModulusAssumption DEF StoredMarket
  <2> QED BY <2>1, SumMember, TokenAssumption DEF Exact
<1>4. n.debt = debts /\ n.cash = m.cash + kept
  <2>1. decrease(m, a, amount)
          = [m EXCEPT !.total_points = Less(m.total_points, sent), !.debt = debts]
    BY DEF decrease, StoredMarket
  <2> HIDE DEF sent, debts
  <2>2. n.debt = debts
    BY <2>1 DEF StoredMarket
  <2> QED BY <1>1, <2>2
<1>5. sent_back = IF sent >= D THEN ((sent - D) * M) \div One ELSE 0
  BY <1>1, <1>2, <1>3 DEF Surplus, token_to_base, MulInt, One
<1>6. amount * One \in Nat /\ sent * M \in Nat /\ sent_back * One \in Nat
  BY <1>1, <1>2
<1> HIDE DEF sent, M, D
<1>7. kept * One = amount * One - sent_back * One /\ kept \in Int
  BY <1>1, Distribute
<1> HIDE DEF kept
<1>8. CASE sent >= D
  <2>1. Less(m.debt[a], sent) = m.debt[a] - D
    BY <1>1, <1>8 DEF Less, D
  <2>2. (sent - D) * M \in Nat /\ (sent - D) * M = sent * M - D * M /\ D * M \in Nat
    BY <1>1, <1>2, <1>8, Distribute
  <2>3. One * sent_back <= (sent - D) * M /\ (sent - D) * M <= One * sent_back + (One - 1)
    BY <1>1, <1>5, <1>8, <2>2, DivBounds
  <2>4. One * sent_back = sent_back * One  BY <1>1
  <2>5. kept * One - D * M \in 0 .. M + One - 2
    BY <1>1, <1>2, <1>6, <1>7, <2>2, <2>3, <2>4
  <2> QED BY <1>1, <1>4, <1>7, <2>1, <2>5 DEF M
<1>9. CASE ~ (sent >= D)
  <2>1. Less(m.debt[a], sent) = m.debt[a] - sent
    BY <1>1, <1>2, <1>9 DEF Less, D
  <2>2. kept * One = amount * One
    <3>1. sent_back = 0  BY <1>5, <1>9
    <3>2. sent_back * One = 0  BY <1>1, <3>1
    <3> QED BY <1>6, <1>7, <3>2
  <2>3. kept * One - sent * M \in 0 .. M + One - 2
    BY <1>1, <1>2, <1>6, <2>2
  <2> QED BY <1>2, <1>4, <1>7, <2>1, <2>3 DEF M
<1> QED BY <1>8, <1>9

-----------------------------------------------------------------------------
(***************************************************************************)
(* What a market keeps through every handler, whether it charges interest  *)
(* or not.                                                                 *)
(***************************************************************************)
\* From m to n at the time t: the multipliers do not fall, and the total stays exact.
Advances(m, n, t) ==
    /\ n.rates = m.rates /\ n.reserve_factor = m.reserve_factor
    /\ n.charge_period = m.charge_period
    /\ n.debt_multiplier >= m.debt_multiplier
    /\ n.ctoken.multiplier >= m.ctoken.multiplier
    /\ Exact(m) => Exact(n)

\* No account owes more points in n than in m.
Unlent(m, n) == \A a \in Accounts : n.debt[a] <= m.debt[a]

\* A market that does not change advances, and one that advances twice.
LEMMA AdvancesTwice ==
  ASSUME NEW K, NEW m \in StoredMarket(K), NEW n \in StoredMarket(K),
         NEW o \in StoredMarket(K), NEW t
  PROVE  /\ Advances(m, m, t)
         /\ Advances(m, n, t) /\ Advances(n, o, t) => Advances(m, o, t)
<1>1. /\ m.debt_multiplier \in Nat /\ m.ctoken.multiplier \in Nat
      /\ n.debt_multiplier \in Nat /\ n.ctoken.multiplier \in Nat
      /\ o.debt_multiplier \in Nat /\ o.ctoken.multiplier \in Nat
  BY StoredNat
<1> QED BY <1>1 DEF Advances

\* A handler that keeps the charge of a charged market.
LEMMA SettledAdvances ==
  ASSUME NEW K, NEW m, NEW t \in Nat, Sound(K, m, t), Rated(m), ChargeOK(m, t),
         NEW c, c = charge_interest(m, t), NEW n, SameCharge(c, n),
         Exact(m) => Exact(n)
  PROVE  Advances(m, n, t)
<1>1. /\ c.rates = m.rates /\ c.reserve_factor = m.reserve_factor
      /\ c.charge_period = m.charge_period
  BY ChargeFields
<1>2. /\ c.debt_multiplier >= m.debt_multiplier
      /\ c.ctoken.multiplier >= m.ctoken.multiplier
  BY ChargeGrows
<1> QED BY <1>1, <1>2 DEF Advances, SameCharge

\* One that keeps the debts too.
LEMMA TradeAdvances ==
  ASSUME NEW K, NEW m, NEW t \in Nat, Sound(K, m, t), Rated(m), ChargeOK(m, t),
         NEW c, c = charge_interest(m, t), NEW n, SameCharge(c, n), SameDebts(c, n)
  PROVE  Advances(m, n, t) /\ Unlent(m, n)
<1>1. c.debt = m.debt /\ c.total_points = m.total_points
  BY ChargeSound
<1>2. Exact(m) => Exact(n)
  BY <1>1 DEF Exact, SameDebts
<1>3. \A a \in Accounts : m.debt[a] \in Nat  BY StoredNat DEF Sound
<1> QED BY <1>1, <1>2, <1>3, SettledAdvances DEF Unlent, SameDebts

\* Loans: only the borrower owes more.
LEMMA BorrowAdvances ==
  ASSUME NEW K, NEW m, NEW t \in Nat, Sound(K, m, t), Rated(m), NEW a \in Accounts,
         NEW amount \in Nat, BorrowOK(m, t, a, amount), NEW n, n = borrow(m, t, a, amount)
  PROVE  Advances(m, n, t) /\ \A b \in Accounts \ {a} : n.debt[b] <= m.debt[b]
<1> DEFINE c == charge_interest(m, t)
<1>1. /\ ChargeOK(m, t) /\ SameCharge(c, n) /\ (Exact(c) => Exact(n))
  BY BorrowEffect
<1>2. /\ c.debt = m.debt /\ c.total_points = m.total_points /\ c \in StoredMarket(K)
  BY <1>1, ChargeSound DEF Sound
<1>3. Exact(m) => Exact(n)  BY <1>1, <1>2 DEF Exact
<1>4. n = pay(increase(c, a, amount), amount)  BY DEF borrow
<1> HIDE DEF c
<1>5. \A b \in Accounts \ {a} : n.debt[b] = c.debt[b]
  BY <1>2, <1>4 DEF pay, increase, StoredMarket
<1>6. \A b \in Accounts : m.debt[b] \in Nat  BY StoredNat DEF Sound
<1> QED BY <1>1, <1>2, <1>3, <1>5, <1>6, SettledAdvances DEF c

\* Repayments of no more points than the account owes, by whichever message.
LEMMA RepayAdvances ==
  ASSUME NEW K, NEW m, NEW t \in Nat, Sound(K, m, t), Rated(m), Exact(m),
         NEW a \in Accounts, NEW amount \in Nat, ChargeOK(m, t),
         PointsOK(charge_interest(m, t), amount),
         base_to_token(amount, charge_interest(m, t).debt_multiplier) <= m.debt[a],
         NEW n, n \in {repay(m, t, a, amount), repay_to(m, t, a, amount)}
  PROVE  Advances(m, n, t) /\ Unlent(m, n)
<1> DEFINE c == charge_interest(m, t)
           r == decrease(c, a, amount)
<1>1. SameCharge(c, n) /\ Exact(n)
  BY RepayEffect
<1>2. c.debt = m.debt /\ c \in StoredMarket(K)
  BY ChargeSound DEF Sound
<1>3. r.debt = [c.debt EXCEPT ![a] = Less(@, base_to_token(amount, c.debt_multiplier))]
  BY <1>2 DEF decrease, StoredMarket
<1>4. n.debt = r.debt
  <2>1. CASE n = repay_to(m, t, a, amount)
    BY <1>2, <2>1 DEF repay_to, receive, decrease, StoredMarket
  <2>2. CASE n = repay(m, t, a, amount)
    BY <1>2, <2>2 DEF repay, pay, receive, decrease, StoredMarket
  <2> QED BY <2>1, <2>2
<1>5. Unlent(m, n)
  <2> DEFINE points == base_to_token(amount, c.debt_multiplier)
  <2>1. points \in Nat  BY ModulusAssumption DEF PointsOK, Fits
  <2>2. \A b \in Accounts : m.debt[b] \in Nat  BY StoredNat DEF Sound
  <2>3. m.debt \in [Accounts -> 0 .. Modulus - 1]  BY DEF Sound, StoredMarket
  <2> HIDE DEF points
  <2>4. n.debt = [m.debt EXCEPT ![a] = Less(m.debt[a], points)]
    BY <1>2, <1>3, <1>4, <2>3 DEF points
  <2> QED BY <2>1, <2>2, <2>3, <2>4 DEF Unlent, Less
<1> QED BY <1>1, <1>5, SettledAdvances

\* RepayTo needs no more than its guard.
LEMMA RepayToAdvances ==
  ASSUME NEW K, NEW m, NEW t \in Nat, Sound(K, m, t), Rated(m), Exact(m),
         NEW a \in Accounts, NEW amount \in Nat, RepayToOK(m, t, a, amount),
         NEW n, n = repay_to(m, t, a, amount)
  PROVE  Advances(m, n, t) /\ Unlent(m, n)
<1>1. /\ ChargeOK(m, t) /\ PointsOK(charge_interest(m, t), amount)
      /\ base_to_token(amount, charge_interest(m, t).debt_multiplier) <= m.debt[a]
  BY RepaidWithinDebt DEF RepayToOK
<1> QED BY <1>1, RepayAdvances

\* Handlers that do not charge.
LEMMA UnchargedAdvances ==
  ASSUME NEW K, NEW m \in StoredMarket(K), NEW t,
         NEW n, SameCharge(m, n), SameDebts(m, n)
  PROVE  Advances(m, n, t) /\ Unlent(m, n)
<1>1. /\ m.debt_multiplier \in Nat /\ m.ctoken.multiplier \in Nat
      /\ \A a \in Accounts : m.debt[a] \in Nat
  BY StoredNat
<1> QED BY <1>1 DEF Advances, Unlent, SameCharge, SameDebts, Exact

\* Swaps, and handing over the market's own token.
LEMMA SaleAdvances ==
  ASSUME NEW K, NEW m \in StoredMarket(K), NEW t, NEW a \in Accounts, NEW estimate,
         NEW amount
  PROVE  /\ LET n == swap_withdraw_from(m, a, estimate, amount)
            IN  Advances(m, n, t) /\ Unlent(m, n)
         /\ LET n == withdraw_same_token(m, amount)
            IN  Advances(m, n, t) /\ Unlent(m, n)
<1> DEFINE s == swap_withdraw_from(m, a, estimate, amount)
           w == withdraw_same_token(m, amount)
           c == burn_from(m.ctoken, a, FromBase(m.ctoken, estimate))
<1>1. s = [m EXCEPT !.ctoken = c, !.cash = m.cash - amount]
  BY DEF swap_withdraw_from, pay, StoredMarket
<1>2. c.multiplier = m.ctoken.multiplier
  BY DEF burn_from, ChangeBalance, StoredMarket, TokenState
<1> HIDE DEF c
<1>3. SameCharge(m, s) /\ SameDebts(m, s)
  BY <1>1, <1>2 DEF SameCharge, SameDebts, StoredMarket
<1>4. SameCharge(m, w) /\ SameDebts(m, w)
  BY DEF withdraw_same_token, pay, SameCharge, SameDebts, StoredMarket
<1> HIDE DEF s, w
<1>5. Advances(m, s, t) /\ Unlent(m, s) /\ Advances(m, w, t) /\ Unlent(m, w)
  BY <1>3, <1>4, UnchargedAdvances
<1> QED BY <1>5 DEF s, w

\* Charging interest takes C tokens from nobody.
LEMMA ChargeTokens ==
  ASSUME NEW K, NEW m, NEW t \in Nat, Sound(K, m, t), Rated(m), ChargeOK(m, t),
         NEW c, c = charge_interest(m, t), NEW a \in Accounts
  PROVE  c.ctoken.balances[a] >= m.ctoken.balances[a]
<1> DEFINE e == epochs_passed(m, t)
           clocked == [m EXCEPT !.last_charged = @ + e * m.charge_period]
           r == rebased(m, e)
           minted == FromBase(r, reserve(m, e))
<1>1. /\ m \in StoredMarket(K) /\ m.ctoken \in TokenState /\ m.charge_period \in Nat
      /\ m.ctoken.balances[a] \in Nat
  BY StoredNat DEF Sound
<1>2. CASE c.ctoken = m.ctoken
  BY <1>1, <1>2
<1>3. CASE c.ctoken # m.ctoken
  <2>1. ~ (e = 0 \/ supplied(m) = 0) /\ e \in Nat /\ pending(m, t) /\ InterestOK(m, e)
    <3>1. pending(m, t)  BY <1>3, ChargeFields
    <3>2. InterestOK(m, e) /\ e \in Nat  BY <3>1, ChargeFields
    <3>3. e > 0 /\ supplied(m) > 0  BY <3>1 DEF pending
    <3> QED BY <3>1, <3>2, <3>3
  <2>2. c = [clocked EXCEPT !.debt_multiplier = MulDec(@, One + debt_ratio(m, e)),
                            !.ctoken = with_reserve(m, e)]
    BY <2>1 DEF charge_interest
  <2>3. c.ctoken = with_reserve(m, e)
    <3> DEFINE tokens == with_reserve(m, e)
    <3> HIDE DEF tokens
    <3>1. c = [clocked EXCEPT !.debt_multiplier = MulDec(@, One + debt_ratio(m, e)),
                              !.ctoken = tokens]
      BY <2>2 DEF tokens
    <3>2. c.ctoken = tokens  BY <1>1, <3>1 DEF StoredMarket
    <3> QED BY <3>2 DEF tokens
  <2>4. reserve(m, e) > 0 => FromBaseOK(r, reserve(m, e))
    BY <2>1 DEF ChargeOK, ReserveOK, pending
  <2>5. r \in TokenState /\ r.balances = m.ctoken.balances
    <3>1. RebaseOK(m.ctoken, One + ctoken_ratio(m, e))  BY <2>1 DEF InterestOK
    <3>2. r \in TokenState  BY <1>1, <3>1, RebaseType DEF rebased
    <3> QED BY <1>1, <3>2 DEF rebased, rebase, TokenState
  <2>6. with_reserve(m, e) = IF reserve(m, e) > 0 THEN mint(r, Governance, minted) ELSE r
    BY DEF with_reserve
  <2>7. CASE reserve(m, e) > 0
    <3>1. minted \in Nat  BY <2>4, <2>7, FromBaseNat
    <3>2. c.ctoken = mint(r, Governance, minted)  BY <2>3, <2>6, <2>7
    <3> HIDE DEF r, minted
    <3>3. mint(r, Governance, minted).balances[a] \in {r.balances[a], r.balances[a] + minted}
      BY <2>5 DEF mint, ChangeBalance, TokenState
    <3> QED BY <1>1, <2>5, <3>1, <3>2, <3>3
  <2>8. CASE ~ (reserve(m, e) > 0)
    <3>1. c.ctoken = r  BY <2>3, <2>6, <2>8
    <3> HIDE DEF r
    <3> QED BY <1>1, <2>5, <3>1
  <2> QED BY <2>7, <2>8
<1> QED BY <1>2, <1>3

-----------------------------------------------------------------------------
(***************************************************************************)
(* How fast interest can grow.                                             *)
(***************************************************************************)
\* The most that a period can add to a multiplier at the given curve.
Fastest(rates, charge_period) ==
    (charge_period * calculate_interest_rate(rates, One)) \div SecondsInYear

\* The bound on a multiplier that starts at the given value.
Ceiling(start, rates, charge_period) ==
    GrowthFunction(start, One + Fastest(rates, charge_period))

\* The bound is at least as great after more periods.
LEMMA CeilingRises ==
  ASSUME NEW start \in Nat, NEW rates, IsCurve(rates), Valid(rates),
         NEW charge_period \in Nat, NEW U, U = Ceiling(start, rates, charge_period)
  PROVE  /\ U \in [Nat -> Nat] /\ U[0] = start
         /\ \A k \in Nat, e \in Nat, v \in Nat : v <= U[k] => v <= U[k + e]
<1> DEFINE rate == calculate_interest_rate(rates, One)
           top == Fastest(rates, charge_period)
<1>1. One \in Nat /\ SecondsInYear \in Nat \ {0}
  BY FractionAssumption, MarketAssumption DEF One
<1>2. rate \in Nat  BY <1>1, RateNat
<1>3. top \in Nat /\ (charge_period * rate) \div SecondsInYear = top
  <2>1. charge_period * rate \in Nat  BY <1>2
  <2> QED BY <1>1, <2>1, DivType DEF Fastest
<1>4. U = GrowthFunction(start, One + top)  BY DEF Ceiling
<1> HIDE DEF top, rate
<1>5. One + top \in Nat  BY <1>1, <1>3
<1>6. Grows(U, start, One + top)
  BY <1>4, <1>5, GrowthEquation
<1>7. ASSUME NEW k \in Nat, NEW e \in Nat, NEW v \in Nat, v <= U[k]
      PROVE  v <= U[k + e]
  <2>1. compounded_interest_rate(rate, charge_period, e) \in Nat
    BY <1>1, <1>2, CompoundedNat
  <2>2. 0 \in Nat /\ 0 <= compounded_interest_rate(rate, charge_period, e) /\ top <= top
    BY <1>3, <2>1
  <2>3. MulDec(v, One + 0) <= U[k + e]
    <3>1. (charge_period * rate) \div SecondsInYear <= top  BY <1>3, <2>2
    <3> QED BY <1>1, <1>2, <1>3, <1>4, <1>7, <2>2, <3>1, CompoundedWithin
  <2>4. One + 0 \in Nat /\ One + 0 >= One  BY <1>1
  <2>5. MulDec(v, One + 0) >= v  BY <2>4, MulDecGrows
  <2>6. MulDec(v, One + 0) \in Nat /\ U[k + e] \in Nat
    <3>1. U \in [Nat -> Nat] /\ k + e \in Nat  BY <1>6 DEF Grows
    <3>2. MulDec(v, One + 0) \in Nat  BY <2>4, MulDecNat
    <3> QED BY <3>1, <3>2
  <2> QED BY <2>3, <2>5, <2>6
<1> QED BY <1>6, <1>7 DEF Grows

\* Charging interest stays within the bound, whatever the utilisation; on the
\* C tokens as well while nothing goes to the reserve.
LEMMA ChargeWithin ==
  ASSUME NEW K, NEW m, NEW t \in Nat, Sound(K, m, t), Rated(m), ChargeOK(m, t),
         NEW c, c = charge_interest(m, t), NEW e, e = epochs_passed(m, t),
         NEW start \in Nat, NEW U, U = Ceiling(start, m.rates, m.charge_period),
         NEW k \in Nat
  PROVE  /\ e \in Nat
         /\ m.debt_multiplier <= U[k] => c.debt_multiplier <= U[k + e]
         /\ m.reserve_factor = 0 /\ m.ctoken.multiplier <= U[k]
              => c.ctoken.multiplier <= U[k + e]
<1> DEFINE u == utilisation(m)
           rate == calculate_interest_rate(m.rates, u)
           highest == calculate_interest_rate(m.rates, One)
           top == Fastest(m.rates, m.charge_period)
<1>1. /\ m \in StoredMarket(K) /\ m.charge_period \in Nat \ {0}
      /\ m.debt_multiplier \in Nat /\ m.ctoken.multiplier \in Nat
      /\ supplied(m) \in Nat /\ total(m) \in Nat
  BY StoredNat DEF Sound
<1>2. One \in Nat \ {0} /\ SecondsInYear \in Nat \ {0}
  BY FractionAssumption, MarketAssumption DEF One
<1>3. /\ e \in Nat
      /\ pending(m, t) =>
           /\ InterestOK(m, e)
           /\ c.debt_multiplier = MulDec(m.debt_multiplier, One + debt_ratio(m, e))
           /\ c.ctoken.multiplier = MulDec(m.ctoken.multiplier, One + ctoken_ratio(m, e))
      /\ ~ pending(m, t) =>
           c.debt_multiplier = m.debt_multiplier /\ c.ctoken = m.ctoken
  BY ChargeFields
<1>4. IsCurve(m.rates) /\ Valid(m.rates) /\ m.reserve_factor \in Nat  BY DEF Rated
<1>5. CASE ~ pending(m, t)
  BY <1>1, <1>3, <1>4, <1>5, CeilingRises
<1>6. CASE pending(m, t)
  <2>1. InterestOK(m, e) /\ total(m) <= supplied(m) /\ supplied(m) \in Nat \ {0}
    BY <1>1, <1>3, <1>6 DEF InterestOK, pending
  <2>2. u \in Nat /\ u <= One
    <3> DEFINE s == supplied(m)
               n == total(m)
               d == DecimalFractional
               q == (n * d) \div s
    <3>1. u = q
      BY <2>1 DEF utilisation, DivDec
    <3>2. s \in Nat \ {0} /\ n \in Nat /\ n <= s /\ d \in Nat /\ d = One
      BY <1>1, <2>1, FractionAssumption DEF One
    <3> HIDE DEF s, n, d, u
    <3>3. n * d \in Nat /\ n * d <= s * d  BY <3>2, TimesMonotone
    <3>4. q \in Nat /\ s * q <= n * d  BY <3>2, <3>3, DivBounds
    <3> HIDE DEF q
    <3>5. s * q <= s * d
      <4>1. s * q \in Int /\ s * d \in Int  BY <3>2, <3>4
      <4> QED BY <3>3, <3>4, <4>1
    <3>6. q <= d  BY <3>2, <3>4, <3>5, CancelFactor
    <3> QED BY <3>1, <3>2, <3>4, <3>6
  <2> HIDE DEF u
  <2>3. rate \in Nat /\ highest \in Nat /\ rate <= highest
    BY <1>2, <1>4, <2>2, RateNat, RateHighest
  <2>4. debt_ratio(m, e) = compounded_interest_rate(rate, m.charge_period, e)
    BY DEF debt_ratio, u
  <2> HIDE DEF rate, highest
  <2>5. /\ (m.charge_period * rate) \div SecondsInYear <= top /\ top \in Nat
        /\ top = (m.charge_period * highest) \div SecondsInYear
    <3> DEFINE p == m.charge_period
    <3>1. p \in Nat  BY <1>1
    <3> HIDE DEF p
    <3>2. p * rate \in Nat /\ p * highest \in Nat /\ p * rate <= p * highest
      BY <2>3, <3>1, TimesMonotone
    <3>3. (p * rate) \div SecondsInYear <= (p * highest) \div SecondsInYear
      BY <1>2, <3>2, DivMonotone
    <3>4. (p * highest) \div SecondsInYear \in Nat  BY <1>2, <3>2, DivType
    <3> QED BY <3>3, <3>4 DEF p, Fastest, highest
  <2>6. U = GrowthFunction(start, One + top)  BY DEF Ceiling
  <2> HIDE DEF top
  <2>7. debt_ratio(m, e) \in Nat /\ ctoken_ratio(m, e) \in Nat
    BY <1>1, <1>3, <2>1, DebtRatioNat, InterestNat
  <2>8. ASSUME NEW v \in Nat, v <= U[k], NEW r \in Nat, r <= debt_ratio(m, e)
        PROVE  MulDec(v, One + r) <= U[k + e]
    <3> DEFINE p == m.charge_period
    <3>1. r <= compounded_interest_rate(rate, p, e)  BY <2>4, <2>8
    <3>2. p \in Nat /\ (p * rate) \div SecondsInYear <= top /\ top \in Nat
      BY <1>1, <2>5
    <3>3. rate \in Nat  BY <2>3
    <3>4. v \in Nat /\ r \in Nat /\ v <= U[k]  BY <2>8
    <3> HIDE DEF p
    <3> QED
      BY <1>2, <1>3, <2>6, <3>1, <3>2, <3>3, <3>4, CompoundedWithin
  <2>9. m.debt_multiplier <= U[k] => c.debt_multiplier <= U[k + e]
    <3>1. debt_ratio(m, e) <= debt_ratio(m, e)  BY <2>7
    <3> QED BY <1>1, <1>3, <1>6, <2>7, <2>8, <3>1
  <2>10. m.reserve_factor = 0 => ctoken_ratio(m, e) <= debt_ratio(m, e)
    <3> SUFFICES ASSUME m.reserve_factor = 0 PROVE ctoken_ratio(m, e) <= debt_ratio(m, e)
      OBVIOUS
    <3> DEFINE s == supplied(m)
               n == total(m)
               d == DecimalFractional
               r == debt_ratio(m, e)
               i == (n * r) \div d
               q == (i * d) \div s
    <3>1. s \in Nat \ {0} /\ n \in Nat /\ n <= s /\ d \in Nat \ {0} /\ r \in Nat
      BY <1>1, <2>1, <2>7, FractionAssumption
    <3>2. charged_interest(m, e) = i  BY DEF charged_interest, MulInt
    <3> HIDE DEF s, n, d, r
    <3>3. n * r \in Nat /\ n * r <= s * r  BY <3>1, TimesMonotone
    <3>4. i \in Nat /\ d * i <= n * r  BY <3>1, <3>3, DivBounds
    <3> HIDE DEF i
    <3>5. i * d \in Nat /\ i * d = d * i  BY <3>1, <3>4
    <3>6. q \in Nat /\ s * q <= i * d  BY <3>1, <3>5, DivBounds
    <3>7. reserve(m, e) = 0
      <4>1. reserve(m, e) = (i * 0) \div d  BY <3>2 DEF reserve, MulInt, d
      <4>2. i * 0 = 0 /\ 0 = d * 0 + 0 /\ 0 \in 0 .. d - 1  BY <3>1, <3>4
      <4>3. 0 \div d = 0  BY <3>1, <4>2, Euclid
      <4> QED BY <4>1, <4>2, <4>3
    <3>8. ctoken_ratio(m, e) = q
      <4>1. s - 0 = s  BY <3>1
      <4>2. ctoken_ratio(m, e) = DivDec(i, s - 0)  BY <3>2, <3>7 DEF ctoken_ratio, s
      <4> QED BY <4>1, <4>2 DEF DivDec, d
    <3> HIDE DEF q
    <3>9. s * q <= s * r
      <4>1. s * q \in Int /\ s * r \in Int /\ d * i \in Int /\ n * r \in Int
        BY <3>1, <3>4, <3>6
      <4> QED BY <3>3, <3>4, <3>5, <3>6, <4>1
    <3>10. q <= r  BY <3>1, <3>6, <3>9, CancelFactor
    <3> QED BY <3>8, <3>10 DEF r
  <2>11. m.reserve_factor = 0 /\ m.ctoken.multiplier <= U[k]
           => c.ctoken.multiplier <= U[k + e]
    BY <1>1, <1>3, <1>6, <2>7, <2>8, <2>10
  <2> QED BY <1>3, <2>9, <2>11
<1> QED BY <1>5, <1>6
=============================================================================
