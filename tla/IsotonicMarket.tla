--------------------------- MODULE IsotonicMarket ---------------------------
(***************************************************************************)
(* One isotonic-market contract with its C token, open to its environment: *)
(* the users, the credit agency and the governance contract send it any    *)
(* message, and the queries it makes of the credit agency and the price    *)
(* oracle have any answer.  What holds here holds whatever they do.        *)
(***************************************************************************)
EXTENDS MarketHandlers, Functions

CONSTANTS ChargePeriod,       \* interest_charge_period, in seconds
          BorrowLimitRatio,   \* borrow_limit_ratio
          CommonToken,        \* common_token
          Users,              \* the accounts that send messages
          Amounts,            \* amounts that messages carry
          TransferAmounts,    \* amounts of C tokens that their holders transfer
          SellLimits,         \* amounts that the credit agency has swapped
          Prices,             \* TWAP prices, in common tokens per market token
          LiquidationPrice,   \* of the credit agency
          Curves,             \* interest rate curves; Curve is the first one
          Curve,
          ReserveFactors,     \* reserve factors; ReserveFactor is the first one
          ReserveFactor,
          CollateralRatios,   \* collateral ratios; CollateralRatio is the first one
          CollateralRatio,
          Caps,               \* values of market_cap; Cap is the first one
          Cap,
          SurplusRepayments,  \* whether users send Repay more than they owe
          StartTime,          \* time of the instantiation
          MaxTime,            \* bound of the model on the time
          MaxDeposits,        \* bound of the model on the deposited tokens
          MaxDebt             \* bound of the model on the points of a borrower

ASSUME InputAssumption ==
    /\ ChargePeriod \in Nat \ {0}
    /\ Users \subseteq Accounts
    /\ Amounts \subseteq Nat \ {0}
    /\ TransferAmounts \subseteq Nat /\ SellLimits \subseteq Nat
    /\ Prices \subseteq Nat /\ LiquidationPrice \in Nat
    /\ Curve \in Curves /\ Valid(Curve) /\ \A rates \in Curves : IsCurve(rates)
    /\ ReserveFactor \in ReserveFactors /\ ReserveFactors \subseteq Nat /\ Cap \in Caps
    /\ CollateralRatio \in CollateralRatios /\ CollateralRatios \subseteq Nat
    /\ SurplusRepayments \in BOOLEAN
    /\ StartTime \in Nat /\ MaxTime \in Nat /\ MaxDeposits \in Nat /\ MaxDebt \in Nat

VARIABLES market, \* the storage of the market, of its C token and its bank account
          now     \* the block time, in seconds

vars == <<market, now>>

NewMarket ==
    instantiate(StartTime,
                InstantiateMsg(ChargePeriod, Curve, ReserveFactor, CollateralRatio,
                               Cap, CommonToken, BorrowLimitRatio))

Init == market = NewMarket /\ now = StartTime

Tick == now < MaxTime /\ now' = now + 1 /\ UNCHANGED market

-----------------------------------------------------------------------------
(***************************************************************************)
(* Messages of the users.  What the credit line allows them is any amount: *)
(* the checks against it are in WyndLend.                                  *)
(***************************************************************************)
Deposit(a, amount) ==
    /\ supplied(market) + amount <= MaxDeposits
    /\ DepositOK(market, now, a, amount)
    /\ market' = deposit(market, now, a, amount)
    /\ UNCHANGED now

Withdraw(a, amount) ==
    /\ WithdrawBaseOK(market, now, a, amount)
    /\ market' = withdraw(market, now, a, amount)
    /\ UNCHANGED now

Borrow(a, amount) ==
    /\ market.debt[a] < MaxDebt
    /\ BorrowOK(market, now, a, amount)
    /\ market' = borrow(market, now, a, amount)
    /\ UNCHANGED now

Repay(a, amount) ==
    /\ RepayOK(market, now, a, amount)
    /\ \/ base_to_token(amount, charge_interest(market, now).debt_multiplier)
            <= market.debt[a]
       \/ SurplusRepayments /\ market.cash + amount <= MaxDeposits
    /\ market' = repay(market, now, a, amount)
    /\ UNCHANGED now

\* Transfer or Send, sent to the C token.
TransferCTokens(a, b, amount) ==
    /\ TransferOK(market.ctoken, a, b, amount)
    /\ market' = [market EXCEPT !.ctoken = transfer_tokens(@, a, b, amount)]
    /\ UNCHANGED now

-----------------------------------------------------------------------------
(***************************************************************************)
(* Messages that the market accepts only from the credit agency.           *)
(***************************************************************************)
RepayTo(a, amount) ==
    /\ RepayToOK(market, now, a, amount)
    /\ market' = repay_to(market, now, a, amount)
    /\ UNCHANGED now

TransferFrom(source, destination, amount, price) ==
    /\ TransferFromOK(market, now, source, destination, amount, price, LiquidationPrice)
    /\ market' = transfer_from(market, now, source, destination, amount, price,
                               LiquidationPrice)
    /\ UNCHANGED now

SwapWithdrawFrom(a, estimate, sell_limit) ==
    /\ SwapWithdrawOK(market, a, estimate, sell_limit)
    /\ market' = swap_withdraw_from(market, a, estimate, sell_limit)
    /\ UNCHANGED now

WithdrawSameToken(amount) ==
    /\ amount <= market.cash
    /\ market' = withdraw_same_token(market, amount)
    /\ UNCHANGED now

-----------------------------------------------------------------------------
(***************************************************************************)
(* Messages that the market accepts only from the governance contract.     *)
(***************************************************************************)
AdjustReserveFactor(new_factor) ==
    /\ market' = [market EXCEPT !.reserve_factor = new_factor]
    /\ UNCHANGED now

AdjustCollateralRatio(new_ratio) ==
    /\ market' = [market EXCEPT !.collateral_ratio = new_ratio]
    /\ UNCHANGED now

AdjustMarketCap(new_cap) ==
    /\ market' = [market EXCEPT !.market_cap = new_cap]
    /\ UNCHANGED now

AdjustInterestRates(rates) ==
    /\ AdjustRatesOK(market, now, rates)
    /\ market' = adjust_interest_rates(market, now, rates)
    /\ UNCHANGED now

-----------------------------------------------------------------------------
UserNext ==
    \E a \in Users, amount \in Amounts :
       \/ Deposit(a, amount)
       \/ Withdraw(a, amount)
       \/ Borrow(a, amount)
       \/ Repay(a, amount)

HolderNext ==
    \E a, b \in Users, amount \in TransferAmounts : TransferCTokens(a, b, amount)

AgencyNext ==
    \E a \in Users, amount \in Amounts :
       \/ RepayTo(a, amount)
       \/ \E b \in Users, price \in Prices : TransferFrom(a, b, amount, price)

SwapNext ==
    \E sell_limit \in SellLimits :
       \/ \E a \in Users, estimate \in Amounts :
             SwapWithdrawFrom(a, estimate, sell_limit)
       \/ WithdrawSameToken(sell_limit)

GovernanceNext ==
    \/ \E factor \in ReserveFactors \ {market.reserve_factor} :
          AdjustReserveFactor(factor)
    \/ \E ratio \in CollateralRatios \ {market.collateral_ratio} :
          AdjustCollateralRatio(ratio)
    \/ \E cap \in Caps \ {market.market_cap} : AdjustMarketCap(cap)
    \/ \E rates \in Curves \ {Curve} : AdjustInterestRates(rates)

Next == Tick \/ UserNext \/ HolderNext \/ AgencyNext \/ SwapNext \/ GovernanceNext

Spec == Init /\ [][Next]_vars

-----------------------------------------------------------------------------
(***************************************************************************)
(* Correctness properties.                                                 *)
(***************************************************************************)
\* What instantiation and the messages of governance set.
Configs ==
    InstantiateMsg({ChargePeriod}, Curves, ReserveFactors, CollateralRatios, Caps,
                   {CommonToken}, {BorrowLimitRatio})

MarketState == StoredMarket(Configs)

\* The storage of the market has its type.
TypeOK == market \in MarketState /\ now \in Nat

DebtPoints == SumFunction(market.debt)

\* The supply of C tokens is the sum of the balances after any handler of
\* the market, with the reserve that charging interest mints.
CTokenSupply == market.ctoken.total_supply = SumFunction(market.ctoken.balances)

\* The total of debt.rs never exceeds the debts of the accounts, so that
\* interest is never paid to the lenders on debt that nobody owes.
TotalWithinDebts == market.total_points <= DebtPoints

\* While nobody repays more than they owe, the total is exactly the debts.
TotalIsSumOfDebts == market.total_points = DebtPoints

\* Interest is charged for whole periods, at most up to the block time: the
\* charging clock stays aligned and never runs ahead.
ClockAligned ==
    /\ market.last_charged % ChargePeriod = 0
    /\ market.last_charged <= now

\* The most that can have been charged: the highest rate of the curves, in
\* every period that ended since the instantiation.
MaxRate == LET rates == {calculate_interest_rate(c, One) : c \in Curves}
           IN  CHOOSE r \in rates : \A q \in rates : q <= r

\* A multiplier that grew at that rate from the start, each period's product
\* rounded up: charging rounds down, whatever it compounds in one step.
MaxMultiplier[periods \in Nat] ==
    IF periods = 0
    THEN InitialMultiplier
    ELSE (MaxMultiplier[periods - 1] * (One + (ChargePeriod * MaxRate) \div SecondsInYear)
            + One - 1) \div One

\* No path of charges, however the calls fall within the periods, raises a
\* debt or the C tokens by more than the highest rate over the time elapsed.
InterestBounded ==
    LET periods == (now - NewMarket.last_charged) \div ChargePeriod
    IN  /\ market.debt_multiplier <= MaxMultiplier[periods]
        /\ market.ctoken.multiplier <= MaxMultiplier[periods]

\* The C tokens are a claim on the cash and on the debts: what they are worth
\* beyond that, in fractions of a base token.
Deficit ==
    market.ctoken.total_supply * market.ctoken.multiplier
      - market.cash * One - DebtPoints * market.debt_multiplier

\* What the roundings of one transaction can add to the deficit: one C token
\* or one point of debt, and in charging interest a digit of each point.
Rounding ==
    market.ctoken.multiplier + market.debt_multiplier + DebtPoints
      + debt_ratio(market, epochs_passed(market, now))

\* The lenders' claims are backed: no step, whatever it charges, mints, burns,
\* lends or takes back, creates a claim without the asset behind it, but for
\* roundings.  (Checked without swaps: see PaidByBurntTokens.)
NoUnbackedClaims == [][Deficit' - Deficit <= Rounding + Rounding']_vars

\* What the market pays for C tokens that are burnt is what they are worth,
\* also when it goes to a swap.
PaidByBurntTokens ==
    [][market'.ctoken.total_supply < market.ctoken.total_supply =>
          (market.cash - market'.cash) * One
            <= (market.ctoken.total_supply - market'.ctoken.total_supply + 1)
                 * market'.ctoken.multiplier]_vars

\* Interest can always be charged, so that no message of the users fails
\* before it is looked at: the comment on `supplied` in calculate_interest
\* takes care of the one case in which it "would panic later".
InterestCanBeCharged == ChargeOK(market, now)

\* The ratios of the interest that is pending, on debts and on C tokens.
PendingRatios ==
    LET epochs == epochs_passed(market, now)
    IN  IF pending(market, now)
        THEN debt_ratio(market, epochs) + ctoken_ratio(market, epochs)
        ELSE 0

\* What roundings make of a balance of so many points: a unit for each product,
\* the last digit of the multiplier for each point, and the interest on the
\* fraction that the balance leaves out.
Slack(points) == 3 + (points \div One) + (PendingRatios \div One)

\* What the queries tell the credit agency about an account is what charging
\* at this moment makes of it, but for roundings.
PreviewMatchesCharge ==
    LET c == charge_interest(market, now)
    IN  ChargeOK(market, now) =>
          \A a \in Accounts \ {Governance} :
             /\ debt_of(c, a) - debt_balance(market, now, a)
                  \in -Slack(market.debt[a]) .. Slack(market.debt[a])
             /\ BaseBalance(c.ctoken, a) - collateral_balance(market, now, a)
                  \in -Slack(market.ctoken.balances[a]) .. Slack(market.ctoken.balances[a])

\* Past interest is settled: a transaction changes what an account owes, with
\* the interest that is not charged yet, only by a loan or a repayment of that
\* account, but for roundings; interest that is pending is charged before
\* deposits, withdrawals or loans of others change the utilisation.
OthersMoveNoDebt ==
    [][\A a \in Accounts :
          now' = now /\ market'.debt[a] = market.debt[a]
            /\ QueryOK(market, now) /\ QueryOK(market, now)'
            => debt_balance(market, now, a)' - debt_balance(market, now, a)
                 \in -Slack(market.debt[a]) .. Slack(market.debt[a])]_vars

\* The lenders' side of the same promise: the C tokens that an account keeps
\* are worth, with the interest that is not charged yet, what they were worth
\* before the loan, repayment, deposit or withdrawal of another.
OthersMoveNoClaim ==
    [][\A a \in Accounts \ {Governance} :
          LET tokens == market.ctoken.balances[a]
          IN  now' = now /\ market'.ctoken.balances[a] = tokens
                /\ QueryOK(market, now) /\ QueryOK(market, now)'
              => collateral_balance(market, now, a)' - collateral_balance(market, now, a)
                   \in -Slack(tokens) .. Slack(tokens)]_vars

\* Debts change hands with the money: a step that changes the points of an
\* account's debt is a loan that the market pays out, or a repayment of which
\* it keeps what the debt loses and sends back the rest, for that account
\* alone.  Of a repayment, roundings leave the market less than a point and a
\* token; of a loan they leave out less than a point.  (While the total is the
\* sum of the debts: where a surplus repayment has lowered it, repay sends
\* tokens back although a debt remains.)
DebtsMoveWithCash ==
    [][\A a \in Accounts :
          market'.debt[a] # market.debt[a] /\ market.total_points = DebtPoints =>
             LET point == market'.debt_multiplier
                 owed == (market'.debt[a] - market.debt[a]) * point
                 paid == (market.cash - market'.cash) * One
             IN  /\ owed > 0 => paid - owed \in 0 .. point - 1
                 /\ owed <= 0 => owed - paid \in 0 .. point + One - 2
                 /\ \A b \in Accounts \ {a} : market'.debt[b] = market.debt[b]]_vars
=============================================================================
