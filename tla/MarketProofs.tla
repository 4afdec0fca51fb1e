----------------------------- MODULE MarketProofs ----------------------------
(***************************************************************************)
(* Theorems about the isotonic market under every message of its           *)
(* interface, for every set of accounts, curves, ratios, amounts and       *)
(* bounds, and every width of the integers.  The hypotheses of a theorem   *)
(* exclude the messages that break the property, as a run shows.           *)
(***************************************************************************)
EXTENDS IsotonicMarket, MarketLemmas

-----------------------------------------------------------------------------
(***************************************************************************)
(* The inductive invariant of the market.                                  *)
(***************************************************************************)
\* The storage is sound at every time.
IInv == now \in Nat /\ Sound(Configs, market, now)

\* A new market is sound.
LEMMA IInvInit == Init => IInv
<1> SUFFICES ASSUME Init PROVE IInv  OBVIOUS
<1>1. now \in Nat /\ market = NewMarket /\ now = StartTime
  BY InputAssumption DEF Init
<1> DEFINE msg == InstantiateMsg(ChargePeriod, Curve, ReserveFactor, CollateralRatio,
                                 Cap, CommonToken, BorrowLimitRatio)
<1>2. Within(msg, Configs) /\ msg.charge_period \in Nat \ {0}
  BY InputAssumption DEF Within, InstantiateMsg, Configs
<1> HIDE DEF msg
<1>3. Sound(Configs, instantiate(StartTime, msg), StartTime)
  BY <1>1, <1>2, NewMarketSound
<1> QED BY <1>1, <1>3 DEF IInv, NewMarket, msg

\* Every step of the market preserves the invariant.
LEMMA IInvStep == IInv /\ [Next]_vars => IInv'
<1> SUFFICES ASSUME IInv, [Next]_vars PROVE IInv'  OBVIOUS
<1>a. /\ Users \subseteq Accounts /\ Amounts \subseteq Nat
      /\ TransferAmounts \subseteq Nat /\ SellLimits \subseteq Nat
  BY InputAssumption
<1>b. now \in Nat /\ Sound(Configs, market, now)  BY DEF IInv
<1>1. CASE Tick
  BY <1>1, <1>b DEF Tick, IInv, Sound, StoredMarket, Configs, InstantiateMsg
<1>2. ASSUME NEW a \in Users, NEW amount \in Amounts, Deposit(a, amount) PROVE IInv'
  BY <1>2, <1>a, <1>b, DepositSound DEF Deposit, IInv
<1>3. ASSUME NEW a \in Users, NEW amount \in Amounts, Withdraw(a, amount) PROVE IInv'
  BY <1>3, <1>a, <1>b, WithdrawSound DEF Withdraw, IInv
<1>4. ASSUME NEW a \in Users, NEW amount \in Amounts, Borrow(a, amount) PROVE IInv'
  BY <1>4, <1>a, <1>b, BorrowSound DEF Borrow, IInv
<1>5. ASSUME NEW a \in Users, NEW amount \in Amounts, Repay(a, amount) PROVE IInv'
  BY <1>5, <1>a, <1>b, RepaySound DEF Repay, IInv
<1>6. ASSUME NEW a \in Users, NEW b \in Users, NEW amount \in TransferAmounts,
             TransferCTokens(a, b, amount)
      PROVE  IInv'
  BY <1>6, <1>a, <1>b, MoveSound DEF TransferCTokens, IInv
<1>7. ASSUME NEW a \in Users, NEW amount \in Amounts, RepayTo(a, amount) PROVE IInv'
  BY <1>7, <1>a, <1>b, RepayToSound DEF RepayTo, IInv
<1>8. ASSUME NEW a \in Users, NEW amount \in Amounts, NEW b \in Users,
             NEW price \in Prices, TransferFrom(a, b, amount, price)
      PROVE  IInv'
  BY <1>8, <1>a, <1>b, TransferFromSound DEF TransferFrom, IInv
<1>9. ASSUME NEW sell_limit \in SellLimits, NEW a \in Users, NEW estimate \in Amounts,
             SwapWithdrawFrom(a, estimate, sell_limit)
      PROVE  IInv'
  BY <1>9, <1>a, <1>b, SwapSound DEF SwapWithdrawFrom, IInv
<1>10. ASSUME NEW sell_limit \in SellLimits, WithdrawSameToken(sell_limit) PROVE IInv'
  BY <1>10, <1>a, <1>b, PaySound DEF WithdrawSameToken, withdraw_same_token, IInv
<1>11. CASE GovernanceNext
  <2>1. ASSUME NEW factor \in ReserveFactors, AdjustReserveFactor(factor) PROVE IInv'
    BY <2>1, <1>b
        DEF AdjustReserveFactor, IInv, Sound, StoredMarket, Configs, InstantiateMsg
  <2>2. ASSUME NEW ratio \in CollateralRatios, AdjustCollateralRatio(ratio) PROVE IInv'
    BY <2>2, <1>b
        DEF AdjustCollateralRatio, IInv, Sound, StoredMarket, Configs, InstantiateMsg
  <2>3. ASSUME NEW cap \in Caps, AdjustMarketCap(cap) PROVE IInv'
    BY <2>3, <1>b DEF AdjustMarketCap, IInv, Sound, StoredMarket, Configs, InstantiateMsg
  <2>4. ASSUME NEW rates \in Curves, AdjustInterestRates(rates) PROVE IInv'
    BY <2>4, <1>b, AdjustRatesSound DEF AdjustInterestRates, IInv, Configs, InstantiateMsg
  <2> QED BY <1>11, <2>1, <2>2, <2>3, <2>4 DEF GovernanceNext
<1>12. CASE UNCHANGED vars
  BY <1>12 DEF vars, IInv
<1> QED BY <1>1, <1>2, <1>3, <1>4, <1>5, <1>6, <1>7, <1>8, <1>9, <1>10, <1>11, <1>12
    DEF Next, UserNext, HolderNext, AgencyNext, SwapNext

\* The invariant holds in every reachable state of a market.
THEOREM IInvHolds == Spec => []IInv
<1>1. Init => IInv  BY IInvInit
<1>2. IInv /\ [Next]_vars => IInv'  BY IInvStep
<1> QED BY <1>1, <1>2, PTL DEF Spec

\* No message, in any order, makes the cash, a debt, a balance or a multiplier
\* of a market negative or too wide for its integers.
THEOREM MarketTypeCorrect == Spec => []TypeOK
<1>1. IInv => TypeOK  BY DEF IInv, Sound, TypeOK, MarketState
<1> QED BY <1>1, IInvHolds, PTL

\* The charging clock is always aligned and never ahead of the block time.
THEOREM ClockCorrect == Spec => []ClockAligned
<1>1. IInv => ClockAligned
  BY DEF IInv, Sound, StoredMarket, Configs, InstantiateMsg, ClockAligned
<1> QED BY <1>1, IInvHolds, PTL

\* The supply of C tokens is the sum of their balances after every transaction
\* of the market, with the reserve that it mints.
THEOREM CTokenSupplyCorrect == Spec => []CTokenSupply
<1>1. IInv => CTokenSupply  BY DEF IInv, Sound, Backed, CTokenSupply
<1> QED BY <1>1, IInvHolds, PTL

\* The total that utilisation and interest are computed from never exceeds
\* what the accounts owe, also when users repay more than they owe.
THEOREM TotalNeverExceedsDebts == Spec => []TotalWithinDebts
<1>1. IInv => TotalWithinDebts  BY DEF IInv, Sound, TotalWithinDebts, DebtPoints
<1> QED BY <1>1, IInvHolds, PTL

-----------------------------------------------------------------------------
(***************************************************************************)
(* The kinds of steps.  A message that charges interest is one of three    *)
(* kinds; the others leave the multipliers as they are, but for the one    *)
(* with which governance sets another curve.                               *)
(***************************************************************************)
Charged == charge_interest(market, now)

\* Interest is charged first, and the rest of the handler keeps the charge.
Settles == now' = now /\ ChargeOK(market, now) /\ SameCharge(Charged, market')

\* Deposits, withdrawals and liquidations.
Trades == Settles /\ SameDebts(Charged, market') /\ Backs(Charged, market')

Lends ==
    /\ Settles /\ Backs(Charged, market')
    /\ Exact(Charged) => Exact(market')
    /\ \A a \in Accounts : market'.debt[a] >= market.debt[a]
    /\ \E a \in Users, amount \in Amounts : Borrow(a, amount)

Repays ==
    /\ Settles
    /\ \E a \in Users, amount \in Amounts : Repay(a, amount) \/ RepayTo(a, amount)

\* The clock, the transfers of C tokens, the swaps, and governance.
Idles ==
    /\ SameDebts(market, market') /\ market'.rates = market.rates
    /\ market'.last_charged = market.last_charged
    /\ market'.charge_period = market.charge_period
    /\ market'.debt_multiplier = market.debt_multiplier
    /\ market'.ctoken.multiplier = market.ctoken.multiplier
    /\ \/ SellLimits # {}
       \/ /\ market'.ctoken.total_supply = market.ctoken.total_supply
          /\ market'.cash = market.cash
    /\ ReserveFactors # {ReserveFactor} \/ market'.reserve_factor = market.reserve_factor

Recurves == \E rates \in Curves \ {Curve} : AdjustInterestRates(rates)

\* The invariant, with rates that were validated.
RInv == IInv /\ Valid(market.rates)

\* The rates and the reserve factor are those of a valid configuration.
LEMMA MarketRated == RInv => Rated(market)
BY InputAssumption DEF RInv, IInv, Sound, StoredMarket, Configs, InstantiateMsg, Rated

\* Every step is of one of these kinds.
LEMMA StepKinds == RInv /\ [Next]_vars => Trades \/ Lends \/ Repays \/ Idles \/ Recurves
<1> SUFFICES ASSUME RInv, [Next]_vars PROVE Trades \/ Lends \/ Repays \/ Idles \/ Recurves
  OBVIOUS
<1>a. /\ Users \subseteq Accounts /\ Amounts \subseteq Nat
      /\ TransferAmounts \subseteq Nat /\ SellLimits \subseteq Nat
  BY InputAssumption
<1>b. /\ now \in Nat /\ Sound(Configs, market, now) /\ Rated(market)
      /\ market \in StoredMarket(Configs)
  BY MarketRated DEF RInv, IInv, Sound
<1>1. CASE Tick
  BY <1>1 DEF Tick, Idles, SameDebts
<1>2. ASSUME NEW a \in Users, NEW amount \in Amounts, Deposit(a, amount) PROVE Trades
  BY <1>2, <1>a, <1>b, DepositEffect DEF Deposit, Trades, Settles, Charged
<1>3. ASSUME NEW a \in Users, NEW amount \in Amounts, Withdraw(a, amount) PROVE Trades
  BY <1>3, <1>a, <1>b, WithdrawEffect DEF Withdraw, Trades, Settles, Charged
<1>4. ASSUME NEW a \in Users, NEW amount \in Amounts, Borrow(a, amount) PROVE Lends
  <2>1. /\ ChargeOK(market, now) /\ SameCharge(Charged, market')
        /\ Backs(Charged, market') /\ (Exact(Charged) => Exact(market'))
        /\ \A b \in Accounts : market'.debt[b] >= Charged.debt[b]
    BY <1>4, <1>a, <1>b, BorrowEffect DEF Borrow, Charged
  <2>2. Charged.debt = market.debt
    BY <1>b, <2>1, ChargeSound DEF Charged
  <2> QED BY <1>4, <2>1, <2>2 DEF Borrow, Lends, Settles
<1>5. ASSUME NEW a \in Users, NEW amount \in Amounts, Repay(a, amount) PROVE Repays
  BY <1>5, <1>a, <1>b, RepayKeepsCharge DEF Repay, RepayOK, Repays, Settles, Charged
<1>6. ASSUME NEW a \in Users, NEW amount \in Amounts, RepayTo(a, amount) PROVE Repays
  BY <1>6, <1>a, <1>b, RepayKeepsCharge DEF RepayTo, RepayToOK, Repays, Settles, Charged
<1>7. ASSUME NEW a \in Users, NEW b \in Users, NEW amount \in TransferAmounts,
             TransferCTokens(a, b, amount)
      PROVE  Idles
  <2> DEFINE t == transfer_tokens(market.ctoken, a, b, amount)
  <2>1. /\ market' = [market EXCEPT !.ctoken = t]
        /\ t.total_supply = market.ctoken.total_supply
        /\ t.multiplier = market.ctoken.multiplier
    BY <1>7, <1>b
        DEF TransferCTokens, transfer_tokens, ChangeBalance, StoredMarket, TokenState
  <2> HIDE DEF t
  <2> QED BY <1>b, <2>1 DEF Idles, SameDebts, StoredMarket
<1>8. ASSUME NEW a \in Users, NEW amount \in Amounts, NEW b \in Users,
             NEW price \in Prices, TransferFrom(a, b, amount, price)
      PROVE  Trades
  BY <1>8, <1>a, <1>b, TransferFromEffect DEF TransferFrom, Trades, Settles, Charged
<1>9. ASSUME NEW sell_limit \in SellLimits, NEW a \in Users, NEW estimate \in Amounts,
             SwapWithdrawFrom(a, estimate, sell_limit)
      PROVE  Idles
  <2> DEFINE t == burn_from(market.ctoken, a, FromBase(market.ctoken, estimate))
             cash == market.cash - sell_limit
  <2>1. market' = [market EXCEPT !.ctoken = t, !.cash = cash]
    BY <1>9, <1>b DEF SwapWithdrawFrom, swap_withdraw_from, pay, StoredMarket
  <2>2. t.multiplier = market.ctoken.multiplier
    BY <1>b DEF burn_from, ChangeBalance, StoredMarket, TokenState
  <2> HIDE DEF t, cash
  <2> QED BY <1>b, <2>1, <2>2 DEF Idles, SameDebts, StoredMarket
<1>10. ASSUME NEW sell_limit \in SellLimits, WithdrawSameToken(sell_limit) PROVE Idles
  BY <1>10, <1>b
      DEF WithdrawSameToken, withdraw_same_token, pay, Idles, SameDebts, StoredMarket
<1>11. CASE GovernanceNext
  <2>1. ASSUME NEW factor \in ReserveFactors \ {market.reserve_factor},
               AdjustReserveFactor(factor)
        PROVE  Idles
    <3>1. ReserveFactors # {ReserveFactor}
      BY <1>b DEF StoredMarket, Configs, InstantiateMsg
    <3> QED BY <2>1, <3>1, <1>b DEF AdjustReserveFactor, Idles, SameDebts, StoredMarket
  <2>2. ASSUME NEW ratio \in CollateralRatios, AdjustCollateralRatio(ratio) PROVE Idles
    BY <2>2, <1>b DEF AdjustCollateralRatio, Idles, SameDebts, StoredMarket
  <2>3. ASSUME NEW cap \in Caps, AdjustMarketCap(cap) PROVE Idles
    BY <2>3, <1>b DEF AdjustMarketCap, Idles, SameDebts, StoredMarket
  <2>4. ASSUME NEW rates \in Curves \ {Curve}, AdjustInterestRates(rates) PROVE Recurves
    BY <2>4 DEF Recurves
  <2> QED BY <1>11, <2>1, <2>2, <2>3, <2>4 DEF GovernanceNext
<1>12. CASE UNCHANGED vars
  BY <1>12 DEF vars, Idles, SameDebts
<1> QED BY <1>1, <1>2, <1>3, <1>4, <1>5, <1>6, <1>7, <1>8, <1>9, <1>10, <1>11, <1>12
    DEF Next, UserNext, HolderNext, AgencyNext, SwapNext

\* What is not charged by a change of the curve, but the multipliers that it charges.
LEMMA RecurveEffect ==
  ASSUME RInv, Recurves
  PROVE  /\ now' = now /\ ChargeOK(market, now) /\ SameDebts(Charged, market')
         /\ market'.ctoken = Charged.ctoken /\ market'.cash = Charged.cash
         /\ market'.debt_multiplier = Charged.debt_multiplier
         /\ market'.reserve_factor = market.reserve_factor
         /\ Valid(market.rates)'
<1>1. Sound(Configs, market, now) /\ now \in Nat /\ Rated(market)
  BY MarketRated DEF RInv, IInv
<1>2. PICK rates \in Curves \ {Curve} : AdjustInterestRates(rates)
  BY DEF Recurves
<1>3. ChargeOK(market, now) /\ Valid(rates) /\ now' = now
  BY <1>2 DEF AdjustInterestRates, AdjustRatesOK
<1>4. market' = [Charged EXCEPT !.rates = rates, !.last_charged = market.last_charged]
  BY <1>2 DEF AdjustInterestRates, adjust_interest_rates, Charged
<1>5. Charged \in StoredMarket(Configs) /\ Charged.reserve_factor = market.reserve_factor
  BY <1>1, <1>3, ChargeFields DEF Charged
<1> QED BY <1>3, <1>4, <1>5 DEF SameDebts, StoredMarket

\* What a market is charged with.
LEMMA ChargedEffect ==
  ASSUME RInv, ChargeOK(market, now)
  PROVE  /\ SameDebts(market, Charged) /\ Charged.cash = market.cash
         /\ Charged.rates = market.rates
         /\ Charged.reserve_factor = market.reserve_factor
         /\ Charged.charge_period = market.charge_period
         /\ Charged \in StoredMarket(Configs)
<1>1. Sound(Configs, market, now) /\ now \in Nat /\ Rated(market)
  BY MarketRated DEF RInv, IInv
<1> QED BY <1>1, ChargeFields DEF Charged, SameDebts

\* The rates are those of a validated curve, also after governance adjusts them.
LEMMA RInvStep == RInv /\ [Next]_vars => RInv'
<1> SUFFICES ASSUME RInv, [Next]_vars PROVE RInv'  OBVIOUS
<1>1. IInv'  BY IInvStep DEF RInv
<1>2. Valid(market.rates)  BY DEF RInv
<1>3. CASE Settles
  <2>1. market'.rates = market.rates
    BY <1>3, ChargedEffect DEF Settles, SameCharge
  <2> QED BY <1>1, <1>2, <2>1 DEF RInv
<1>4. CASE Idles  BY <1>1, <1>2, <1>4 DEF Idles, RInv
<1>5. CASE Recurves  BY <1>1, <1>5, RecurveEffect DEF RInv
<1> QED BY <1>3, <1>4, <1>5, StepKinds DEF Trades, Lends, Repays

\* Only validated rates are ever charged.
THEOREM RInvHolds == Spec => []RInv
<1>1. Init => RInv
  BY IInvInit, InputAssumption DEF Init, RInv, NewMarket, instantiate, InstantiateMsg
<1>2. RInv /\ [Next]_vars => RInv'  BY RInvStep
<1> QED BY <1>1, <1>2, PTL DEF Spec

-----------------------------------------------------------------------------
(***************************************************************************)
(* The multipliers, and the queries.                                       *)
(***************************************************************************)
\* No step, of whatever interface, makes a point of debt or a C token worth
\* less.
MultipliersNeverFall ==
    [][/\ market'.debt_multiplier >= market.debt_multiplier
       /\ market'.ctoken.multiplier >= market.ctoken.multiplier]_vars

\* Interest only accrues, also when governance changes what is charged.
THEOREM WorthNeverFalls == Spec => MultipliersNeverFall
<1>1. ASSUME RInv, [Next]_vars
      PROVE  /\ market'.debt_multiplier >= market.debt_multiplier
             /\ market'.ctoken.multiplier >= market.ctoken.multiplier
  <2>1. Sound(Configs, market, now) /\ now \in Nat /\ Rated(market)
    BY <1>1, MarketRated DEF RInv, IInv
  <2>2. CASE Settles
    BY <2>1, <2>2, ChargeGrows DEF Settles, SameCharge, Charged
  <2>3. CASE Idles
    <3>1. market.debt_multiplier \in Nat /\ market.ctoken.multiplier \in Nat
      BY <2>1, StoredNat DEF Sound
    <3> QED BY <2>3, <3>1 DEF Idles
  <2>4. CASE Recurves
    BY <1>1, <2>1, <2>4, RecurveEffect, ChargeGrows DEF Charged
  <2> QED BY <1>1, <2>2, <2>3, <2>4, StepKinds DEF Trades, Lends, Repays
<1> QED BY <1>1, RInvHolds, PTL DEF MultipliersNeverFall, Spec

-----------------------------------------------------------------------------
(***************************************************************************)
(* The total of the debts, while nobody repays more than they owe: the     *)
(* guard of RepayTo implies it, and users that send Repay comply.          *)
(***************************************************************************)
LentInv == RInv /\ Exact(market)

\* A repayment within the debt is backed, and takes the same points off the
\* account and off the total.
LEMMA RepaysEffect ==
  ASSUME LentInv, Repays, SurplusRepayments = FALSE
  PROVE  Backs(Charged, market') /\ Exact(market')
<1>1. Sound(Configs, market, now) /\ now \in Nat /\ Rated(market) /\ Exact(market)
  BY MarketRated DEF LentInv, RInv, IInv
<1>2. PICK a \in Users, amount \in Amounts : Repay(a, amount) \/ RepayTo(a, amount)
  BY DEF Repays
<1>3. a \in Accounts /\ amount \in Nat
  BY InputAssumption
<1>4. /\ ChargeOK(market, now) /\ PointsOK(Charged, amount)
      /\ base_to_token(amount, Charged.debt_multiplier) <= market.debt[a]
      /\ market' \in {repay(market, now, a, amount), repay_to(market, now, a, amount)}
  <2>1. CASE Repay(a, amount)
    BY <2>1 DEF Repay, RepayOK, Charged
  <2>2. CASE RepayTo(a, amount)
    <3>1. RepayToOK(market, now, a, amount)  BY <2>2 DEF RepayTo
    <3>2. base_to_token(amount, Charged.debt_multiplier) <= market.debt[a]
      BY <1>1, <1>3, <3>1, RepaidWithinDebt DEF Charged
    <3> QED BY <2>2, <3>1, <3>2 DEF RepayTo, RepayToOK, Charged
  <2> QED BY <1>2, <2>1, <2>2
<1> QED BY <1>1, <1>3, <1>4, RepayEffect DEF Charged

\* No step makes the total differ from the sum of the debts.
LEMMA LentInvStep ==
  ASSUME SurplusRepayments = FALSE
  PROVE  LentInv /\ [Next]_vars => LentInv'
<1> SUFFICES ASSUME LentInv, [Next]_vars PROVE LentInv'  OBVIOUS
<1>1. RInv /\ RInv' /\ Exact(market)  BY RInvStep DEF LentInv
<1>2. Settles => Exact(Charged)
  BY <1>1, ChargedEffect DEF Settles, SameDebts, Exact
<1>3. CASE Trades
  BY <1>1, <1>2, <1>3 DEF Trades, SameDebts, Exact, LentInv
<1>4. CASE Lends
  BY <1>1, <1>2, <1>4 DEF Lends, LentInv, Exact
<1>5. CASE Repays
  BY <1>1, <1>5, RepaysEffect DEF LentInv, Exact
<1>6. CASE Idles
  BY <1>1, <1>6 DEF Idles, SameDebts, Exact, LentInv
<1>7. CASE Recurves
  <2>1. SameDebts(market, Charged) /\ SameDebts(Charged, market')
    BY <1>1, <1>7, RecurveEffect, ChargedEffect
  <2> QED BY <1>1, <2>1 DEF SameDebts, Exact, LentInv
<1> QED BY <1>1, <1>3, <1>4, <1>5, <1>6, <1>7, StepKinds

LEMMA LentInvHolds ==
  ASSUME SurplusRepayments = FALSE
  PROVE  Spec => []LentInv
<1>1. Init => LentInv
  <2>1. Init => RInv
    BY IInvInit, InputAssumption DEF Init, RInv, NewMarket, instantiate, InstantiateMsg
  <2>2. Init => Exact(market)
    BY SumConstZero, TokenAssumption DEF Init, NewMarket, instantiate, Exact
  <2> QED BY <2>1, <2>2 DEF LentInv
<1>2. LentInv /\ [Next]_vars => LentInv'  BY LentInvStep
<1> QED BY <1>1, <1>2, PTL DEF Spec

\* While nobody repays more than they owe, the total that interest is computed
\* from is exactly the debts of the accounts.
THEOREM TotalIsExact ==
  ASSUME SurplusRepayments = FALSE
  PROVE  Spec => []TotalIsSumOfDebts
<1>1. LentInv => TotalIsSumOfDebts
  BY DEF LentInv, Exact, TotalIsSumOfDebts, DebtPoints
<1> QED BY <1>1, LentInvHolds, PTL

-----------------------------------------------------------------------------
(***************************************************************************)
(* Debts move with the cash.                                               *)
(***************************************************************************)
\* What the debt of one account moves by: points that are borrowed for cash
\* that is paid out, or points that are repaid by cash that is kept.
Moves(a) ==
    \/ \E points \in Nat, amount \in Nat :
          /\ market'.debt = [market.debt EXCEPT ![a] = market.debt[a] + points]
          /\ market'.cash = market.cash - amount
          /\ amount * One - points * market'.debt_multiplier
               \in 0 .. market'.debt_multiplier - 1
    \/ \E points \in Nat, kept \in Int :
          /\ market'.debt = [market.debt EXCEPT ![a] = market.debt[a] - points]
          /\ market'.cash = market.cash + kept
          /\ kept * One - points * market'.debt_multiplier
               \in 0 .. market'.debt_multiplier + One - 2

\* Charging interest moves no debt and no cash, and the rest of the handler
\* keeps the multiplier.
Lent ==
    /\ market'.debt_multiplier = Charged.debt_multiplier
    /\ Charged.debt = market.debt /\ Charged.total_points = market.total_points
    /\ Charged.cash = market.cash /\ Charged \in StoredMarket(Configs)
    /\ market'.debt_multiplier \in Nat

\* A loan moves the debt of its borrower.
LEMMA BorrowMoves ==
  ASSUME RInv, Lent, NEW a \in Users, NEW amount \in Amounts, Borrow(a, amount)
  PROVE  Moves(a)
<1>1. a \in Accounts /\ amount \in Nat  BY InputAssumption
<1>2. Charged \in StoredMarket(Configs)  BY DEF Lent
<1>3. /\ IncreaseOK(Charged, a, amount)
      /\ market'.debt = increase(Charged, a, amount).debt
      /\ market'.cash = Charged.cash - amount
  <2> DEFINE i == increase(Charged, a, amount)
  <2>1. IncreaseOK(Charged, a, amount) /\ market' = pay(i, amount)
    BY DEF Borrow, BorrowOK, borrow, Charged
  <2>2. i.cash = Charged.cash /\ DOMAIN i = DOMAIN Charged /\ "cash" \in DOMAIN i
        /\ "debt" \in DOMAIN i
    BY <1>2 DEF increase, StoredMarket
  <2> HIDE DEF i
  <2> QED BY <2>1, <2>2 DEF pay, i
<1>4. \E points \in Nat :
         /\ market'.debt = [Charged.debt EXCEPT ![a] = Charged.debt[a] + points]
         /\ market'.cash = Charged.cash - amount
         /\ amount * One - points * Charged.debt_multiplier
              \in 0 .. Charged.debt_multiplier - 1
  <2>1. PICK points \in Nat :
           /\ increase(Charged, a, amount).debt
                = [Charged.debt EXCEPT ![a] = Charged.debt[a] + points]
           /\ amount * One - points * Charged.debt_multiplier
                \in 0 .. Charged.debt_multiplier - 1
    BY <1>1, <1>2, <1>3, LoanPaid
  <2> QED BY <2>1, <1>3
<1> QED BY <1>1, <1>4 DEF Lent, Moves

\* So does a repayment, also one that sends back a surplus.
LEMMA RepaymentMoves ==
  ASSUME RInv, Lent, Exact(market), NEW a \in Users, NEW amount \in Amounts,
         Repay(a, amount) \/ RepayTo(a, amount)
  PROVE  Moves(a)
<1> DEFINE sent_back == Surplus(Charged, a, amount)
           d == decrease(Charged, a, amount)
<1>1. a \in Accounts /\ amount \in Nat  BY InputAssumption
<1>2. PointsOK(Charged, amount)
  BY DEF Repay, RepayOK, RepayTo, RepayToOK, Charged
<1>3. Exact(Charged)  BY DEF Exact, Lent
<1>4. sent_back \in Nat  BY <1>1, <1>2, SurplusNat DEF Lent
<1>5. market'.debt = d.debt /\ market'.cash = Charged.cash + amount - sent_back
  <2>1. CASE Repay(a, amount)
    <3>1. market' = pay(receive(d, amount), sent_back)
      BY <2>1 DEF Repay, repay, Charged
    <3>2. Charged \in StoredMarket(Configs)  BY DEF Lent
    <3> DEFINE e == receive(d, amount)
    <3>3. /\ e.cash = Charged.cash + amount /\ e.debt = d.debt
          /\ "cash" \in DOMAIN e /\ "debt" \in DOMAIN e
      BY <3>2 DEF receive, decrease, StoredMarket
    <3>4. market' = [e EXCEPT !.cash = e.cash - sent_back]
      BY <3>1 DEF pay
    <3> HIDE DEF sent_back, d, e
    <3>5. market'.debt = d.debt /\ market'.cash = e.cash - sent_back
      BY <3>3, <3>4
    <3> QED BY <1>1, <1>4, <3>2, <3>3, <3>5, StoredNat
  <2>2. CASE RepayTo(a, amount)
    <3>1. market' = receive(d, amount)
      BY <2>2 DEF RepayTo, repay_to, Charged
    <3>2. market'.debt = d.debt /\ market'.cash = Charged.cash + amount
      BY <3>1 DEF Lent, receive, decrease, StoredMarket
    <3>3. sent_back = 0
      <4>1. base_to_token(amount, Charged.debt_multiplier) <= Charged.debt[a]
        BY <1>1, <2>2, MarketRated, RepaidWithinDebt
            DEF RepayTo, Charged, Lent, RInv, IInv
      <4> QED BY <1>1, <1>2, <1>3, <4>1, DecreaseExact DEF Lent
    <3> QED BY <1>1, <3>2, <3>3, StoredNat DEF Lent
  <2> QED BY <2>1, <2>2
<1> HIDE DEF sent_back, d
<1>6. \E points \in Nat, kept \in Int :
         /\ market'.debt = [Charged.debt EXCEPT ![a] = Charged.debt[a] - points]
         /\ market'.cash = Charged.cash + kept
         /\ kept * One - points * Charged.debt_multiplier
              \in 0 .. Charged.debt_multiplier + One - 2
  BY <1>1, <1>2, <1>3, <1>4, <1>5, RepaymentPaid DEF Lent, sent_back, d
<1> QED BY <1>6 DEF Lent, Moves

\* Debts change hands with the money, also under surplus repayments, as long as
\* the total is the sum of the debts.
THEOREM DebtsMoveOnlyWithCash == Spec => DebtsMoveWithCash
<1> DEFINE Changed(a) == market'.debt[a] # market.debt[a] /\ market.total_points = DebtPoints
           point == market'.debt_multiplier
           owed(a) == (market'.debt[a] - market.debt[a]) * point
           paid == (market.cash - market'.cash) * One
           Paid(a) == /\ owed(a) > 0 => paid - owed(a) \in 0 .. point - 1
                      /\ owed(a) <= 0 => owed(a) - paid \in 0 .. point + One - 2
                      /\ \A b \in Accounts \ {a} : market'.debt[b] = market.debt[b]
<1>1. ASSUME RInv, [Next]_vars
      PROVE  \A a \in Accounts : Changed(a) => Paid(a)
  <2> SUFFICES ASSUME NEW a \in Accounts, Changed(a) PROVE Paid(a)  OBVIOUS
  <2>1. /\ RInv' /\ market \in StoredMarket(Configs) /\ market' \in StoredMarket(Configs)
        /\ Exact(market)
    BY <1>1, RInvStep DEF RInv, IInv, Sound, Exact, DebtPoints
  <2>2. ~ Trades /\ ~ Idles /\ ~ Recurves
    BY <1>1, <2>1, RecurveEffect, ChargedEffect DEF Trades, Settles, Idles, SameDebts
  <2>3. Lends \/ Repays  BY <1>1, <2>2, StepKinds
  <2>4. Lent
    BY <1>1, <2>1, <2>3, ChargedEffect, StoredNat
        DEF Lends, Repays, Settles, SameCharge, SameDebts, Lent
  <2>5. PICK p \in Users : Moves(p)
    BY <1>1, <2>1, <2>3, <2>4, BorrowMoves, RepaymentMoves DEF Lends, Repays
  <2>6. /\ market.debt \in [Accounts -> Nat] /\ market.cash \in Nat
        /\ market'.debt_multiplier \in Nat /\ One \in Nat
        /\ market'.debt[a] \in Nat /\ market'.cash \in Nat
    <3>1. market.debt \in [Accounts -> Nat]
      BY <2>1, ModulusAssumption DEF StoredMarket
    <3> QED BY <2>1, <3>1, StoredNat, FractionAssumption DEF One
  <2>7. p = a /\ \A b \in Accounts \ {a} : market'.debt[b] = market.debt[b]
    BY <1>1, <2>5, <2>6, InputAssumption DEF Moves
  <2> DEFINE M == market'.debt_multiplier
  <2>8. CASE \E points \in Nat, amount \in Nat :
               /\ market'.debt = [market.debt EXCEPT ![a] = market.debt[a] + points]
               /\ market'.cash = market.cash - amount
               /\ amount * One - points * M \in 0 .. M - 1
    <3>1. PICK points \in Nat, amount \in Nat :
               /\ market'.debt = [market.debt EXCEPT ![a] = market.debt[a] + points]
               /\ market'.cash = market.cash - amount
               /\ amount * One - points * M \in 0 .. M - 1
      BY <2>8
    <3>2. market'.debt[a] - market.debt[a] = points /\ market.cash - market'.cash = amount
      BY <2>6, <3>1
    <3>3. points # 0  BY <1>1, <2>6, <3>2
    <3>4. owed(a) = points * M /\ paid = amount * One  BY <3>2
    <3>5. M > 0 /\ points * M > 0
      BY <2>6, <3>1, <3>3
    <3> QED BY <2>6, <2>7, <3>1, <3>4, <3>5
  <2>9. CASE \E points \in Nat, kept \in Int :
               /\ market'.debt = [market.debt EXCEPT ![a] = market.debt[a] - points]
               /\ market'.cash = market.cash + kept
               /\ kept * One - points * M \in 0 .. M + One - 2
    <3>1. PICK points \in Nat, kept \in Int :
               /\ market'.debt = [market.debt EXCEPT ![a] = market.debt[a] - points]
               /\ market'.cash = market.cash + kept
               /\ kept * One - points * M \in 0 .. M + One - 2
      BY <2>9
    <3>2. market'.debt[a] - market.debt[a] = -points /\ market.cash - market'.cash = -kept
      BY <2>6, <3>1
    <3>3. owed(a) = (-points) * M /\ paid = (-kept) * One
      BY <3>2
    <3>4. (-points) * M = -(points * M) /\ (-kept) * One = -(kept * One)
          /\ points * M \in Nat
      BY <2>6
    <3> QED BY <2>6, <2>7, <3>1, <3>3, <3>4
  <2> QED BY <2>5, <2>7, <2>8, <2>9 DEF Moves
<1> QED BY <1>1, RInvHolds, PTL DEF DebtsMoveWithCash, Spec

-----------------------------------------------------------------------------
(***************************************************************************)
(* Claims are backed, while no interest is put aside for the reserve and   *)
(* nothing is sold.                                                        *)
(***************************************************************************)
\* The deficit is the shortfall of the lemmas, and the parts of the rounding
\* are natural numbers.
RoundingParts ==
    /\ Deficit = Shortfall(market)
    /\ SumFunction(market.debt) \in Nat
    /\ debt_ratio(market, epochs_passed(market, now)) \in Nat
    /\ market.ctoken.multiplier \in Nat /\ market.debt_multiplier \in Nat
    /\ Rounding = market.ctoken.multiplier + market.debt_multiplier
                    + SumFunction(market.debt)
                    + debt_ratio(market, epochs_passed(market, now))

\* They are in every state that satisfies the invariant.
LEMMA RoundingNat == RInv => RoundingParts
<1> SUFFICES ASSUME RInv PROVE RoundingParts  OBVIOUS
<1>1. /\ now \in Nat /\ Sound(Configs, market, now) /\ Rated(market)
      /\ market \in StoredMarket(Configs) /\ market.charge_period \in Nat \ {0}
      /\ market.last_charged <= now
  BY MarketRated DEF RInv, IInv, Sound
<1>2. epochs_passed(market, now) \in Nat
  <2>1. now - market.last_charged \in Nat
    BY <1>1, StoredNat
  <2> QED BY <1>1, <2>1, DivType DEF epochs_passed
<1>3. /\ debt_ratio(market, epochs_passed(market, now)) \in Nat
      /\ SumFunction(market.debt) \in Nat
      /\ market.ctoken.multiplier \in Nat /\ market.debt_multiplier \in Nat
  BY <1>1, <1>2, DebtRatioNat, DebtSumNat, StoredNat
<1>4. Deficit = Shortfall(market)
  BY DEF Deficit, Shortfall, DebtPoints
<1> QED BY <1>3, <1>4 DEF Rounding, DebtPoints, RoundingParts

\* In the state after a step too.
LEMMA RoundingNatNext == RInv' => RoundingParts'
BY RoundingNat, PTL

\* No step creates a claim without the asset behind it, but for roundings.
THEOREM ClaimsAreBacked ==
  ASSUME SurplusRepayments = FALSE, ReserveFactors = {0}, SellLimits = {}
  PROVE  Spec => NoUnbackedClaims
<1>1. ASSUME LentInv, LentInv', [Next]_vars
      PROVE  Deficit' - Deficit <= Rounding + Rounding'
  <2>1. /\ RInv /\ RInv' /\ now \in Nat /\ Sound(Configs, market, now)
        /\ Rated(market) /\ market.reserve_factor = 0
    BY <1>1, MarketRated
        DEF LentInv, RInv, IInv, Sound, StoredMarket, Configs, InstantiateMsg
  <2> DEFINE r == debt_ratio(market, epochs_passed(market, now))
             D == SumFunction(market.debt)
             L == market.ctoken.multiplier
             M == market.debt_multiplier
             r1 == debt_ratio(market', epochs_passed(market', now'))
             D1 == SumFunction(market'.debt)
             L1 == market'.ctoken.multiplier
             M1 == market'.debt_multiplier
             S == Shortfall(market)
             S1 == Shortfall(market')
             SC == Shortfall(Charged)
  <2>2. /\ Deficit = S /\ D \in Nat /\ r \in Nat /\ L \in Nat /\ M \in Nat
        /\ Rounding = L + M + D + r
    BY <2>1, RoundingNat DEF RoundingParts
  <2>3. /\ Deficit' = S1 /\ D1 \in Nat /\ r1 \in Nat /\ L1 \in Nat /\ M1 \in Nat
        /\ Rounding' = L1 + M1 + D1 + r1
    BY <2>1, RoundingNatNext DEF RoundingParts
  <2>4. S \in Int /\ (ChargeOK(market, now) => SC \in Int /\ SC <= S + r + D)
    <3>1. S \in Int
      BY <2>1, ShortfallInt DEF Sound
    <3>2. ASSUME ChargeOK(market, now) PROVE SC \in Int /\ SC <= S + r + D
      BY <2>1, <3>2, ChargeBacked DEF Charged
    <3> QED BY <3>1, <3>2
  <2>5. (Trades \/ Lends \/ Repays) => Settles /\ Backs(Charged, market')
    BY <1>1, RepaysEffect DEF Trades, Lends, Repays
  <2>6. Backs(Charged, market') => S1 \in Int /\ S1 <= SC + L1 + M1
    BY DEF Backs
  <2>7. Settles => ChargeOK(market, now)  BY DEF Settles
  <2>8. Idles => S1 = S
    BY DEF Idles, SameDebts, Shortfall
  <2>9. Recurves => ChargeOK(market, now) /\ S1 = SC
    BY <2>1, RecurveEffect DEF SameDebts, Shortfall
  <2>10. Trades \/ Lends \/ Repays \/ Idles \/ Recurves
    BY <1>1, <2>1, StepKinds
  <2> HIDE DEF r, D, L, M, r1, D1, L1, M1, S, S1, SC
  <2>11. S1 - S <= (L + M + D + r) + (L1 + M1 + D1 + r1)
    <3>1. CASE Settles /\ Backs(Charged, market')
      BY <2>2, <2>3, <2>4, <2>6, <2>7, <3>1
    <3>2. CASE Idles
      BY <2>2, <2>3, <2>4, <2>8, <3>2
    <3>3. CASE Recurves
      BY <2>2, <2>3, <2>4, <2>9, <3>3
    <3> QED BY <2>5, <2>10, <3>1, <3>2, <3>3
  <2> QED BY <2>2, <2>3, <2>11
<1> QED BY <1>1, LentInvHolds, PTL DEF NoUnbackedClaims, Spec

-----------------------------------------------------------------------------
(***************************************************************************)
(* What the queries say before a charge and after it.                      *)
(***************************************************************************)
PendingDebtRatio ==
    IF pending(market, now) THEN debt_ratio(market, epochs_passed(market, now)) ELSE 0

PendingCTokenRatio ==
    IF pending(market, now) THEN ctoken_ratio(market, epochs_passed(market, now)) ELSE 0

\* The ratios and the balances are natural numbers when no query panics.
LEMMA QueriedNat ==
  ASSUME RInv, QueryOK(market, now)
  PROVE  /\ PendingDebtRatio \in Nat /\ PendingCTokenRatio \in Nat
         /\ PendingRatios = PendingDebtRatio + PendingCTokenRatio
         /\ \A a \in Accounts : debt_balance(market, now, a) \in Nat
         /\ \A a \in Accounts : collateral_balance(market, now, a) \in Nat
         /\ \A points \in Nat : Slack(points) \in Nat
<1> DEFINE e == epochs_passed(market, now)
<1>1. /\ now \in Nat /\ Sound(Configs, market, now) /\ Rated(market)
      /\ market \in StoredMarket(Configs) /\ market.charge_period \in Nat \ {0}
      /\ market.last_charged \in Nat /\ market.last_charged <= now
  BY MarketRated, StoredNat DEF RInv, IInv, Sound
<1>2. e \in Nat
  <2>1. now - market.last_charged \in Nat  BY <1>1
  <2> QED BY <1>1, <2>1, DivType DEF epochs_passed
<1>3. debt_ratio(market, e) \in Nat
  BY <1>1, <1>2, DebtRatioNat
<1>4. pending(market, now) => ctoken_ratio(market, e) \in Nat
  BY <1>1, <1>2, InterestNat DEF QueryOK
<1> HIDE DEF e
<1>5. /\ PendingDebtRatio \in Nat /\ PendingCTokenRatio \in Nat
      /\ PendingRatios = PendingDebtRatio + PendingCTokenRatio
  BY <1>3, <1>4 DEF PendingDebtRatio, PendingCTokenRatio, PendingRatios, e
<1>6. \A x, y \in Nat : MulInt(x, y) \in Nat
  BY MulDecNat DEF MulInt, MulDec
<1>7. ASSUME NEW a \in Accounts
      PROVE  debt_balance(market, now, a) \in Nat /\ collateral_balance(market, now, a) \in Nat
  <2>1. debt_of(market, a) \in Nat /\ BaseBalance(market.ctoken, a) \in Nat
    BY <1>1, StoredNat, WorthNat DEF debt_of, BaseBalance
  <2> DEFINE x == debt_of(market, a)
             y == BaseBalance(market.ctoken, a)
             dr == debt_ratio(market, e)
             cr == ctoken_ratio(market, e)
  <2>2. /\ debt_balance(market, now, a)
             = IF pending(market, now) THEN x + MulInt(x, dr) ELSE x
        /\ collateral_balance(market, now, a)
             = IF pending(market, now) THEN y + MulInt(y, cr) ELSE y
    BY DEF debt_balance, collateral_balance, e
  <2> HIDE DEF x, y, dr, cr
  <2>3. MulInt(x, dr) \in Nat /\ (pending(market, now) => MulInt(y, cr) \in Nat)
    BY <1>3, <1>4, <1>6, <2>1 DEF x, y, dr, cr
  <2> QED BY <2>1, <2>2, <2>3 DEF x, y
<1>8. One \in Nat \ {0}  BY FractionAssumption DEF One
<1>9. PendingRatios \in Nat  BY <1>5
<1>10. ASSUME NEW points \in Nat PROVE Slack(points) \in Nat
  <2>1. points \div One \in Nat /\ PendingRatios \div One \in Nat
    BY <1>8, <1>9, DivType
  <2> QED BY <2>1 DEF Slack
<1> QED BY <1>5, <1>7, <1>10

\* The slack of the properties covers the roundings of the lemmas.
LEMMA SlackCovers ==
  ASSUME RInv, QueryOK(market, now), NEW points \in Nat,
         NEW ratio \in {PendingDebtRatio, PendingCTokenRatio}
  PROVE  Roundings(points, ratio) \in Nat /\ Roundings(points, ratio) <= Slack(points)
<1>1. One \in Nat \ {0}  BY FractionAssumption DEF One
<1>2. PendingRatios \in Nat /\ ratio \in Nat /\ ratio <= PendingRatios
  BY QueriedNat
<1>3. /\ ratio \div One \in Nat /\ PendingRatios \div One \in Nat
      /\ points \div One \in Nat
  BY <1>1, <1>2, DivType
<1>4. ratio \div One <= PendingRatios \div One
  BY <1>1, <1>2, DivMonotone
<1> QED BY <1>3, <1>4 DEF Roundings, Slack

\* The queries of a market whose interest can be charged say what charging
\* makes of each balance, but for the slack.
LEMMA Previewed ==
  ASSUME RInv, ChargeOK(market, now), NEW a \in Accounts
  PROVE  /\ QueryOK(market, now)
         /\ debt_of(Charged, a) - debt_balance(market, now, a)
              \in -Slack(market.debt[a]) .. Slack(market.debt[a])
         /\ a # Governance =>
              BaseBalance(Charged.ctoken, a) - collateral_balance(market, now, a)
                \in -Slack(market.ctoken.balances[a]) .. Slack(market.ctoken.balances[a])
<1> DEFINE P == market.debt[a]
           T == market.ctoken.balances[a]
           dr == PendingDebtRatio
           cr == PendingCTokenRatio
           x == debt_of(Charged, a) - debt_balance(market, now, a)
           y == BaseBalance(Charged.ctoken, a) - collateral_balance(market, now, a)
<1>1. /\ now \in Nat /\ Sound(Configs, market, now) /\ Rated(market)
      /\ market \in StoredMarket(Configs)
  BY MarketRated DEF RInv, IInv, Sound
<1>2. QueryOK(market, now)
  BY <1>1, ChargeFields DEF QueryOK
<1>3. P \in Nat /\ T \in Nat  BY <1>1, StoredNat
<1>4. /\ Roundings(P, dr) \in Nat /\ Roundings(P, dr) <= Slack(P)
      /\ Roundings(T, cr) \in Nat /\ Roundings(T, cr) <= Slack(T)
      /\ Slack(P) \in Nat /\ Slack(T) \in Nat
  BY <1>2, <1>3, SlackCovers, QueriedNat
<1>5. /\ x \in -Roundings(P, dr) .. Roundings(P, dr)
      /\ a # Governance => y \in -Roundings(T, cr) .. Roundings(T, cr)
  BY <1>1, ChargePreviewed DEF Charged, PendingDebtRatio, PendingCTokenRatio
<1> HIDE DEF P, T, dr, cr, x, y
<1>6. x \in -Slack(P) .. Slack(P)
  BY <1>4, <1>5
<1>7. a # Governance => y \in -Slack(T) .. Slack(T)
  BY <1>4, <1>5
<1> QED BY <1>2, <1>6, <1>7 DEF P, T, x, y

\* What the credit agency is told about an account is what charging at this
\* moment makes of it, at every time and utilisation.
THEOREM PreviewsAreCharged == Spec => []PreviewMatchesCharge
<1>1. RInv => PreviewMatchesCharge
  BY Previewed DEF PreviewMatchesCharge, Charged
<1> QED BY <1>1, RInvHolds, PTL

\* A market that a message charged has no interest pending.
LEMMA Settled ==
  ASSUME RInv, Settles
  PROVE  ~ pending(market', now')
<1>1. /\ now \in Nat /\ Sound(Configs, market, now) /\ Rated(market)
  BY MarketRated DEF RInv, IInv
<1>2. /\ ChargeOK(market, now) /\ now' = now
      /\ market'.last_charged = Charged.last_charged
      /\ market'.charge_period = market.charge_period
  BY ChargedEffect DEF Settles, SameCharge
<1> QED BY <1>1, <1>2, ChargedNotPending DEF Charged

\* What idles leaves the rates of the interest that is pending.
LEMMA IdlesKeepsRatios ==
  ASSUME Idles, now' = now, SellLimits = {}
  PROVE  /\ epochs_passed(market', now') = epochs_passed(market, now)
         /\ pending(market', now') = pending(market, now)
         /\ supplied(market') = supplied(market) /\ total(market') = total(market)
         /\ \A e : debt_ratio(market', e) = debt_ratio(market, e)
         /\ \A e : ReserveFactors = {ReserveFactor} =>
                     ctoken_ratio(market', e) = ctoken_ratio(market, e)
<1>1. epochs_passed(market', now') = epochs_passed(market, now)
  BY DEF Idles, epochs_passed
<1>2. supplied(market') = supplied(market) /\ total(market') = total(market)
  BY DEF Idles, SameDebts, supplied, total
<1>3. utilisation(market') = utilisation(market)
  BY <1>2 DEF utilisation
<1>4. \A e : debt_ratio(market', e) = debt_ratio(market, e)
  BY <1>3 DEF Idles, debt_ratio
<1>5. \A e : charged_interest(market', e) = charged_interest(market, e)
  BY <1>2, <1>4 DEF charged_interest
<1>6. \A e : ReserveFactors = {ReserveFactor} => reserve(market', e) = reserve(market, e)
  BY <1>5 DEF reserve, Idles
<1>7. \A e : ReserveFactors = {ReserveFactor} =>
               ctoken_ratio(market', e) = ctoken_ratio(market, e)
  BY <1>2, <1>5, <1>6 DEF ctoken_ratio
<1> QED BY <1>1, <1>2, <1>4, <1>7 DEF pending

\* A transaction changes what an account owes, with interest that is not
\* charged yet, only by a loan or a repayment of that account.
THEOREM DebtsAreTheirOwn ==
  ASSUME SellLimits = {}, Curves = {Curve}
  PROVE  Spec => OthersMoveNoDebt
<1>1. ASSUME RInv, [Next]_vars, NEW a \in Accounts,
             now' = now, market'.debt[a] = market.debt[a],
             QueryOK(market, now)
      PROVE  debt_balance(market', now', a) - debt_balance(market, now, a)
               \in -Slack(market.debt[a]) .. Slack(market.debt[a])
  <2>1. market \in StoredMarket(Configs)  BY <1>1 DEF RInv, IInv, Sound
  <2>2. CASE Settles
    <3>1. debt_balance(market', now', a) = debt_of(market', a)
      BY <1>1, <2>2, Settled DEF debt_balance
    <3>2. Charged.debt = market.debt /\ market'.debt_multiplier = Charged.debt_multiplier
      BY <1>1, <2>2, ChargedEffect DEF Settles, SameCharge, SameDebts
    <3>3. debt_of(market', a) = debt_of(Charged, a)
      BY <1>1, <3>2 DEF debt_of
    <3> QED BY <1>1, <2>2, <3>1, <3>3, Previewed DEF Settles
  <2>3. CASE Idles
    <3>1. debt_of(market', a) = debt_of(market, a)
      BY <1>1, <2>3 DEF debt_of, Idles
    <3>2. debt_balance(market', now', a) = debt_balance(market, now, a)
      BY <1>1, <2>3, <3>1, IdlesKeepsRatios DEF debt_balance
    <3>3. debt_balance(market, now, a) \in Nat /\ Slack(market.debt[a]) \in Nat
      BY <1>1, <2>1, QueriedNat, StoredNat
    <3> QED BY <3>2, <3>3
  <2>4. ~ Recurves  BY DEF Recurves
  <2> QED BY <1>1, <2>2, <2>3, <2>4, StepKinds DEF Trades, Lends, Repays
<1>2. ASSUME RInv, [Next]_vars
      PROVE  \A a \in Accounts :
                now' = now /\ market'.debt[a] = market.debt[a]
                  /\ QueryOK(market, now) /\ QueryOK(market, now)'
                => debt_balance(market, now, a)' - debt_balance(market, now, a)
                     \in -Slack(market.debt[a]) .. Slack(market.debt[a])
  BY <1>1, <1>2
<1> QED BY <1>2, RInvHolds, PTL DEF OthersMoveNoDebt, Spec

\* The C tokens that an account keeps are worth, with interest that is not
\* charged yet, what they were before another's transaction.
THEOREM ClaimsAreTheirOwn ==
  ASSUME SellLimits = {}, Curves = {Curve}, ReserveFactors = {ReserveFactor}
  PROVE  Spec => OthersMoveNoClaim
<1>1. ASSUME RInv, [Next]_vars, NEW a \in Accounts \ {Governance},
             now' = now, market'.ctoken.balances[a] = market.ctoken.balances[a],
             QueryOK(market, now)
      PROVE  collateral_balance(market', now', a) - collateral_balance(market, now, a)
               \in -Slack(market.ctoken.balances[a]) .. Slack(market.ctoken.balances[a])
  <2>1. market \in StoredMarket(Configs) /\ a \in Accounts
    BY <1>1 DEF RInv, IInv, Sound
  <2>2. CASE Settles
    <3>1. collateral_balance(market', now', a) = BaseBalance(market'.ctoken, a)
      BY <1>1, <2>2, Settled DEF collateral_balance
    <3>2. /\ market'.ctoken.multiplier = Charged.ctoken.multiplier
          /\ Charged.ctoken.balances[a] = market.ctoken.balances[a]
      <4>1. Sound(Configs, market, now) /\ now \in Nat /\ Rated(market) /\ ChargeOK(market, now)
        BY <1>1, <2>2, MarketRated DEF RInv, IInv, Settles
      <4>2. Charged.ctoken.balances[a] = market.ctoken.balances[a]
        BY <1>1, <4>1, ChargeFields DEF Charged
      <4> QED BY <2>2, <4>2 DEF Settles, SameCharge
    <3>3. BaseBalance(market'.ctoken, a) = BaseBalance(Charged.ctoken, a)
      BY <1>1, <3>2 DEF BaseBalance
    <3> QED BY <1>1, <2>1, <2>2, <3>1, <3>3, Previewed DEF Settles
  <2>3. CASE Idles
    <3>1. BaseBalance(market'.ctoken, a) = BaseBalance(market.ctoken, a)
      BY <1>1, <2>3 DEF BaseBalance, Idles
    <3>2. collateral_balance(market', now', a) = collateral_balance(market, now, a)
      BY <1>1, <2>3, <3>1, IdlesKeepsRatios DEF collateral_balance
    <3>3. /\ collateral_balance(market, now, a) \in Nat
          /\ Slack(market.ctoken.balances[a]) \in Nat
      BY <1>1, <2>1, QueriedNat, StoredNat
    <3> QED BY <3>2, <3>3
  <2>4. ~ Recurves  BY DEF Recurves
  <2> QED BY <1>1, <2>2, <2>3, <2>4, StepKinds DEF Trades, Lends, Repays
<1>2. ASSUME RInv, [Next]_vars
      PROVE  \A a \in Accounts \ {Governance} :
                LET tokens == market.ctoken.balances[a]
                IN  now' = now /\ market'.ctoken.balances[a] = tokens
                      /\ QueryOK(market, now) /\ QueryOK(market, now)'
                    => collateral_balance(market, now, a)' - collateral_balance(market, now, a)
                         \in -Slack(tokens) .. Slack(tokens)
  BY <1>1, <1>2
<1> QED BY <1>2, RInvHolds, PTL DEF OthersMoveNoClaim, Spec

-----------------------------------------------------------------------------
(***************************************************************************)
(* How fast interest grows, while the curve stays the same: setting        *)
(* another one charges the periods that passed and then lets them pass     *)
(* again.                                                                  *)
(***************************************************************************)
\* After k periods that were charged, no multiplier is above what the highest
\* rate makes of it in k periods.
ChargedFor(k) ==
    /\ market.last_charged = NewMarket.last_charged + k * ChargePeriod
    /\ market.debt_multiplier <= MaxMultiplier[k]
    /\ ReserveFactors = {0} => market.ctoken.multiplier <= MaxMultiplier[k]

BoundInv == RInv /\ \E k \in Nat : ChargedFor(k)

\* MaxMultiplier is the bound of the market's curve.
LEMMA MaxMultiplierIs ==
  ASSUME Curves = {Curve}
  PROVE  MaxMultiplier = Ceiling(InitialMultiplier, Curve, ChargePeriod)
<1>1. MaxRate = calculate_interest_rate(Curve, One)
  <2> DEFINE rates == {calculate_interest_rate(c, One) : c \in Curves}
             r == calculate_interest_rate(Curve, One)
  <2>1. r \in Nat
    <3>1. One \in Nat  BY FractionAssumption DEF One
    <3> QED BY <3>1, RateNat, InputAssumption
  <2>2. rates = {r}  OBVIOUS
  <2>3. MaxRate = CHOOSE v \in rates : \A w \in rates : w <= v  BY DEF MaxRate
  <2> HIDE DEF r, rates
  <2>4. \A v : v \in rates /\ (\A w \in rates : w <= v) <=> v = r  BY <2>1, <2>2
  <2>5. (CHOOSE v \in rates : \A w \in rates : w <= v) \in rates
    BY <2>2, <2>4
  <2> QED BY <2>2, <2>3, <2>5 DEF r
<1> QED BY <1>1 DEF MaxMultiplier, Ceiling, Fastest, GrowthFunction

\* The curve of the market is the only one.
LEMMA OnlyCurve ==
  ASSUME RInv, Curves = {Curve}
  PROVE  /\ market.rates = Curve /\ market.charge_period = ChargePeriod
         /\ IsCurve(Curve) /\ Valid(Curve) /\ ChargePeriod \in Nat \ {0}
         /\ ReserveFactors = {0} => market.reserve_factor = 0
         /\ ~ Recurves
<1>1. market \in StoredMarket(Configs)  BY DEF RInv, IInv, Sound
<1>2. market.rates = Curve /\ market.charge_period = ChargePeriod
  BY <1>1 DEF StoredMarket, Configs, InstantiateMsg
<1>3. ReserveFactors = {0} => market.reserve_factor = 0
  BY <1>1 DEF StoredMarket, Configs, InstantiateMsg
<1>4. ~ Recurves  BY DEF Recurves
<1> QED BY <1>2, <1>3, <1>4, InputAssumption

\* A new market is at the bound.
LEMMA BoundInit == Init /\ Curves = {Curve} => BoundInv
<1> SUFFICES ASSUME Init, Curves = {Curve} PROVE BoundInv  OBVIOUS
<1>1. RInv
  <2>1. market.rates = Curve  BY DEF Init, NewMarket, instantiate, InstantiateMsg
  <2> QED BY <2>1, IInvInit, InputAssumption DEF RInv
<1>2. InitialMultiplier \in Nat  BY TokenAssumption, ModulusAssumption
<1>3. MaxMultiplier[0] = InitialMultiplier
  BY <1>2, InputAssumption, MaxMultiplierIs, CeilingRises
<1>4. market = NewMarket /\ market.debt_multiplier = InitialMultiplier
      /\ market.ctoken.multiplier = InitialMultiplier
  BY DEF Init, NewMarket, instantiate, InstantiateMsg, EmptyToken
<1>5. NewMarket.last_charged \in Nat /\ ChargePeriod \in Nat
  BY <1>1, <1>4, InputAssumption DEF RInv, IInv, Sound, StoredMarket
<1>6. market.last_charged = NewMarket.last_charged + 0 * ChargePeriod
  BY <1>4, <1>5
<1>7. InitialMultiplier <= MaxMultiplier[0]  BY <1>2, <1>3
<1>8. ChargedFor(0)  BY <1>4, <1>6, <1>7 DEF ChargedFor
<1> QED BY <1>1, <1>8 DEF BoundInv

\* Every step keeps to the bound.
LEMMA BoundStep == BoundInv /\ [Next]_vars /\ Curves = {Curve} => BoundInv'
<1> SUFFICES ASSUME BoundInv, [Next]_vars, Curves = {Curve} PROVE BoundInv'  OBVIOUS
<1>1. RInv  BY DEF BoundInv
<1>2. PICK k \in Nat : ChargedFor(k)  BY DEF BoundInv
<1>3. RInv'  BY <1>1, RInvStep
<1>4. ~ Recurves  BY <1>1, OnlyCurve
<1>5. CASE Settles
  <2> DEFINE e == epochs_passed(market, now)
             start == NewMarket.last_charged
  <2>1. Sound(Configs, market, now) /\ now \in Nat /\ Rated(market)
    BY <1>1, MarketRated DEF RInv, IInv
  <2>2. ChargeOK(market, now)  BY <1>5 DEF Settles
  <2>3. /\ MaxMultiplier = Ceiling(InitialMultiplier, market.rates, market.charge_period)
        /\ market.charge_period = ChargePeriod
        /\ ReserveFactors = {0} => market.reserve_factor = 0
    BY <1>1, MaxMultiplierIs, OnlyCurve
  <2>4. InitialMultiplier \in Nat  BY TokenAssumption, ModulusAssumption
  <2>5. /\ e \in Nat
        /\ market.debt_multiplier <= MaxMultiplier[k]
             => Charged.debt_multiplier <= MaxMultiplier[k + e]
        /\ market.reserve_factor = 0 /\ market.ctoken.multiplier <= MaxMultiplier[k]
             => Charged.ctoken.multiplier <= MaxMultiplier[k + e]
    BY <2>1, <2>2, <2>3, <2>4, ChargeWithin DEF Charged
  <2>6. Charged.last_charged = market.last_charged + e * ChargePeriod
    BY <2>1, <2>2, <2>3, ChargeFields DEF Charged
  <2> HIDE DEF e
  <2>7. /\ market'.last_charged = Charged.last_charged
        /\ market'.debt_multiplier = Charged.debt_multiplier
        /\ market'.ctoken.multiplier = Charged.ctoken.multiplier
    BY <1>5 DEF Settles, SameCharge
  <2>8. market'.last_charged = start + (k + e) * ChargePeriod
    <3>1. market.last_charged = start + k * ChargePeriod  BY <1>2 DEF ChargedFor
    <3>2. start \in Nat /\ ChargePeriod \in Nat
      <4>1. start = StartTime - (StartTime % ChargePeriod)
        BY DEF NewMarket, instantiate, InstantiateMsg
      <4> QED BY <4>1, Aligned, InputAssumption
    <3> HIDE DEF start
    <3>3. (k + e) * ChargePeriod = k * ChargePeriod + e * ChargePeriod
      BY <2>5, <3>2, Distribute
    <3>4. k * ChargePeriod \in Nat /\ e * ChargePeriod \in Nat  BY <2>5, <3>2
    <3> QED BY <2>6, <2>7, <3>1, <3>2, <3>3, <3>4
  <2>9. PICK n \in Nat : n = k + e
    <3>1. k + e \in Nat  BY <2>5
    <3> QED BY <3>1
  <2>10. ChargedFor(n)'
    BY <1>2, <2>3, <2>5, <2>7, <2>8, <2>9 DEF ChargedFor
  <2> QED BY <1>3, <2>10 DEF BoundInv
<1>6. CASE Idles
  <2>1. ChargedFor(k)'  BY <1>2, <1>6 DEF ChargedFor, Idles
  <2> QED BY <1>3, <2>1 DEF BoundInv
<1> QED BY <1>1, <1>4, <1>5, <1>6, StepKinds DEF Trades, Lends, Repays

\* The part of InterestBounded about the debts.
DebtsBounded ==
    market.debt_multiplier <= MaxMultiplier[(now - NewMarket.last_charged) \div ChargePeriod]

\* No more periods were charged than ended, and the bound rises with them.
LEMMA BoundReached ==
  ASSUME BoundInv, Curves = {Curve}
  PROVE  DebtsBounded /\ (ReserveFactors = {0} => InterestBounded)
<1> DEFINE start == NewMarket.last_charged
           periods == (now - start) \div ChargePeriod
<1>1. RInv  BY DEF BoundInv
<1>2. PICK k \in Nat : ChargedFor(k)  BY DEF BoundInv
<1>3. /\ now \in Nat /\ market.last_charged \in Nat /\ market.last_charged <= now
      /\ market.debt_multiplier \in Nat /\ market.ctoken.multiplier \in Nat
  BY <1>1, StoredNat DEF RInv, IInv, Sound
<1>4. start \in Nat /\ ChargePeriod \in Nat \ {0} /\ InitialMultiplier \in Nat
  <2>1. start = StartTime - (StartTime % ChargePeriod)
    BY DEF NewMarket, instantiate, InstantiateMsg
  <2> QED BY <2>1, Aligned, InputAssumption, TokenAssumption, ModulusAssumption
<1>5. market.last_charged = start + k * ChargePeriod  BY <1>2 DEF ChargedFor
<1> HIDE DEF start
<1>6. periods \in Nat /\ k <= periods
  <2>1. k * ChargePeriod \in Nat /\ k * ChargePeriod = ChargePeriod * k  BY <1>4
  <2>2. now - start \in Nat /\ ChargePeriod * k <= now - start
    BY <1>3, <1>4, <1>5, <2>1
  <2>3. k \in Int  OBVIOUS
  <2> QED BY <1>4, <2>2, <2>3, DivType, BelowQuotient
<1> HIDE DEF periods
<1> DEFINE j == periods - k
<1>7. j \in Nat /\ k + j = periods  BY <1>6
<1> HIDE DEF j
<1>8. \A v \in Nat : v <= MaxMultiplier[k] => v <= MaxMultiplier[k + j]
  <2> DEFINE U == MaxMultiplier
  <2>1. U = Ceiling(InitialMultiplier, Curve, ChargePeriod)  BY MaxMultiplierIs
  <2>2. IsCurve(Curve) /\ Valid(Curve)  BY InputAssumption
  <2> HIDE DEF U
  <2>3. ChargePeriod \in Nat  BY <1>4
  <2>4. \A i \in Nat, e \in Nat, v \in Nat : v <= U[i] => v <= U[i + e]
    BY <1>4, <2>1, <2>2, <2>3, CeilingRises
  <2>5. k \in Nat /\ j \in Nat  BY <1>7
  <2> QED BY <2>4, <2>5 DEF U
<1>9. /\ market.debt_multiplier <= MaxMultiplier[periods]
      /\ ReserveFactors = {0} => market.ctoken.multiplier <= MaxMultiplier[periods]
  BY <1>2, <1>3, <1>7, <1>8 DEF ChargedFor
<1> QED BY <1>9 DEF DebtsBounded, InterestBounded, periods, start

\* However the calls fall within the periods and whatever the utilisation that
\* each finds, no debt grows by more than the curve's highest rate over the
\* time elapsed.
THEOREM DebtsGrowAtMost ==
  ASSUME Curves = {Curve}
  PROVE  Spec => []DebtsBounded
<1>1. Init => BoundInv  BY BoundInit
<1>2. BoundInv /\ [Next]_vars => BoundInv'  BY BoundStep
<1>3. BoundInv => DebtsBounded  BY BoundReached
<1> QED BY <1>1, <1>2, <1>3, PTL DEF Spec

\* While nothing goes to the reserve, neither do the C tokens.
THEOREM InterestIsBounded ==
  ASSUME Curves = {Curve}, ReserveFactors = {0}
  PROVE  Spec => []InterestBounded
<1>1. Init => BoundInv  BY BoundInit
<1>2. BoundInv /\ [Next]_vars => BoundInv'  BY BoundStep
<1>3. BoundInv => InterestBounded  BY BoundReached
<1> QED BY <1>1, <1>2, <1>3, PTL DEF Spec
=============================================================================
