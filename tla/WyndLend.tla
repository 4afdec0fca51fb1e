------------------------------ MODULE WyndLend ------------------------------
(***************************************************************************)
(* The whole lending platform: the credit agency, the markets it creates   *)
(* with their C tokens, the oracle and the pairs it asks, and the users of *)
(* them all.  Each action is one transaction: the handlers it runs, in all *)
(* the contracts it reaches, are in AgencyHandlers.                        *)
(***************************************************************************)
EXTENDS AgencyHandlers

CONSTANTS Users,             \* the accounts that send messages
          Denoms,            \* tokens that can have a market
          CommonTokens,      \* tokens in which credit may be counted
          FirstCommonToken,  \* common_token at instantiation
          Oracle,            \* address of the oracle
          Pairs,             \* pair contracts that the exchange has
          ChargePeriod,      \* interest_charge_period, in seconds
          LiquidationPrice,  \* liquidation_price, a discount
          BorrowLimitRatio,  \* borrow_limit_ratio
          CollateralRatios,  \* of new markets and of AdjustCollateralRatio
          Curve,             \* interest rate curve of the markets
          ReserveFactor,     \* reserve_factor of the markets
          Prices,            \* TWAP prices, in the pair's first token
          DepositAmounts,    \* amounts that are deposited
          WithdrawAmounts,   \* amounts that are withdrawn
          LoanAmounts,       \* amounts that are borrowed
          RepaidAmounts,     \* amounts that are repaid, by whomever
          TransferAmounts,   \* amounts of C tokens that are transferred
          SellLimits,        \* collateral that RepayWithCollateral may sell
          MaxTime,           \* bound of the model on the time
          MaxDeposits,       \* bound of the model on the deposits of a market
          MaxDebt            \* bound of the model on the debt of an account

ASSUME PlatformAssumption ==
    /\ Users \subseteq Accounts
    /\ IsFiniteSet(Denoms)
    /\ FirstCommonToken \in CommonTokens
    /\ Pairs \subseteq Denoms \X Denoms
    /\ ChargePeriod \in Nat \ {0}
    /\ LiquidationPrice \in Nat \ {0} /\ BorrowLimitRatio \in Nat
    /\ IsCurve(Curve) /\ ReserveFactor \in 0 .. One
    /\ CollateralRatios \subseteq Nat \ {0}
    /\ Prices \subseteq Nat \ {0} /\ One \in Prices
    /\ DepositAmounts \cup WithdrawAmounts \subseteq Nat \ {0}
    /\ LoanAmounts \cup RepaidAmounts \cup TransferAmounts \subseteq Nat \ {0}
    /\ SellLimits \subseteq Nat
    /\ MaxTime \in Nat /\ MaxDeposits \in Nat /\ MaxDebt \in Nat

VARIABLES platform,  \* the storage of the contracts, as in AgencyHandlers
          now        \* the block time, in seconds

vars == <<platform, now>>

markets == platform.markets

entered == platform.entered

\* What a market is created with; the agency adds what is its own.
MarketConfig(ratio) ==
    InstantiateMsg(ChargePeriod, Curve, ReserveFactor, ratio, {}, FirstCommonToken,
                   BorrowLimitRatio)

\* The contracts are deployed on an exchange whose pairs have been in use.
Init == /\ platform = NewPlatform(FirstCommonToken, LiquidationPrice, BorrowLimitRatio,
                                  1, 1,
                                  [o \in {Oracle} |->
                                     instantiate_oracle(Governance,
                                                        [pair \in Pairs |-> One])])
        /\ now = 0

\* A transaction leaves the storage `after`.
Commit(after) == platform' = after /\ now' = now

-----------------------------------------------------------------------------
(***************************************************************************)
(* Messages of the users to the markets and to the C tokens.               *)
(***************************************************************************)
Deposit(a, d, amount) ==
    /\ MarketDepositOK(platform, now, a, d, amount)
    /\ supplied(markets[d]) + amount <= MaxDeposits
    /\ Commit(market_deposit(platform, now, a, d, amount))

Withdraw(a, d, amount) ==
    /\ TotalCreditLineOK(platform, now, a)
    /\ MarketWithdrawOK(platform, now, a, d, amount, total_credit_line(platform, now, a))
    /\ Commit(market_withdraw(platform, now, a, d, amount))

Borrow(a, d, amount) ==
    /\ d \in listed(platform)
    /\ debt_of(markets[d], a) + amount <= MaxDebt
    /\ TotalCreditLineOK(platform, now, a)
    /\ MarketBorrowOK(platform, now, a, d, amount, total_credit_line(platform, now, a))
    /\ Commit(market_borrow(platform, now, a, d, amount))

\* The model leaves out repayments that exceed the debt: see IsotonicMarket.
Repay(a, d, amount) ==
    /\ MarketRepayOK(platform, now, a, d, amount)
    /\ base_to_token(amount, charge_interest(markets[d], now).debt_multiplier)
         <= markets[d].debt[a]
    /\ Commit(market_repay(platform, now, a, d, amount))

Transfer(a, b, d, amount) ==
    /\ TotalCreditLineOK(platform, now, a)
    /\ CTokenTransferOK(platform, a, b, d, amount, total_credit_line(platform, now, a))
    /\ Commit(ctoken_transfer(platform, a, b, d, amount))

-----------------------------------------------------------------------------
(***************************************************************************)
(* Messages to the credit agency.                                          *)
(***************************************************************************)
Liquidate(sender, account, d, amount, c) ==
    /\ LiquidateOK(platform, now, sender, account, d, amount, c)
    /\ Commit(liquidate(platform, now, sender, account, d, amount, c))

ExitMarket(a, d) ==
    /\ ExitMarketOK(platform, now, a, d)
    /\ Commit(exit_market(platform, a, d))

RepayWithCollateral(a, c, max_collateral, d, amount, estimate) ==
    /\ RepayWithCollateralOK(platform, now, a, c, max_collateral, d, amount, estimate)
    /\ Commit(repay_with_collateral(platform, now, a, c, max_collateral, d, amount,
                                    estimate))

-----------------------------------------------------------------------------
(***************************************************************************)
(* Governance, the oracle and the time.                                    *)
(***************************************************************************)
CreateMarket(d, ratio) ==
    /\ CreateMarketOK(platform, Governance, d, MarketConfig(ratio))
    /\ Commit(create_market(platform, now, d, MarketConfig(ratio), Oracle))

AdjustCollateralRatio(d, new_ratio) ==
    /\ d \in listed(platform)
    /\ Commit([platform EXCEPT !.markets[d].collateral_ratio = new_ratio])

AdjustCommonToken(new_common_token) ==
    Commit(adjust_agency_common_token(platform, new_common_token))

\* The controller registers a pair under the names of its assets.
RegisterPool(pair) ==
    Commit([platform EXCEPT !.oracles[Oracle] =
              register_pool(@, pair, pair[1], pair[2])])

\* The exchange: trades in a pair move its TWAP.
ChangePrice(pair, price) ==
    Commit([platform EXCEPT !.oracles[Oracle].twaps[pair] = price])

Tick == now < MaxTime /\ now' = now + 1 /\ platform' = platform

-----------------------------------------------------------------------------
MarketNext ==
    \E a \in Users, d \in Denoms :
       \/ \E amount \in DepositAmounts : Deposit(a, d, amount)
       \/ \E amount \in WithdrawAmounts : Withdraw(a, d, amount)
       \/ \E amount \in LoanAmounts : Borrow(a, d, amount)
       \/ \E amount \in RepaidAmounts : Repay(a, d, amount)
       \/ \E b \in Users, amount \in TransferAmounts : Transfer(a, b, d, amount)

AgencyNext ==
    \E a \in Users, c, d \in Denoms :
       \/ ExitMarket(a, d)
       \/ \E b \in Users, amount \in RepaidAmounts : Liquidate(b, a, d, amount, c)
       \/ \E amount \in RepaidAmounts, estimate, max_collateral \in SellLimits :
             RepayWithCollateral(a, c, max_collateral, d, amount, estimate)

GovernanceNext ==
    \/ \E d \in Denoms, ratio \in CollateralRatios :
          CreateMarket(d, ratio) \/ AdjustCollateralRatio(d, ratio)
    \/ \E new_common_token \in CommonTokens : AdjustCommonToken(new_common_token)

OracleNext ==
    \E pair \in Pairs :
       RegisterPool(pair) \/ \E price \in Prices : ChangePrice(pair, price)

Next == MarketNext \/ AgencyNext \/ GovernanceNext \/ OracleNext \/ Tick

Spec == Init /\ [][Next]_vars

-----------------------------------------------------------------------------
(***************************************************************************)
(* Correctness properties.                                                 *)
(***************************************************************************)
\* What the credit agency and governance set in a market.
Configs(common_tokens) ==
    InstantiateMsg({ChargePeriod}, {Curve}, {ReserveFactor}, CollateralRatios, {{}},
                   common_tokens, {BorrowLimitRatio})

MarketState == StoredMarket(Configs(CommonTokens))

\* The storage of the contracts has its type, and accounts are only in
\* markets that exist.
TypeOK == /\ listed(platform) \subseteq Denoms
          /\ markets \in [listed(platform) -> MarketState]
          /\ entered \in [Accounts -> SUBSET listed(platform)]
          /\ platform.oracles[Oracle].twaps \in [Pairs -> Prices]
          /\ now \in 0 .. MaxTime

\* Every market counts credit in the agency's common token, whenever it was
\* created and whatever governance adjusted since: an answer in another
\* token fails every query of the accounts in that market.
CommonTokenAgrees ==
    \A d \in listed(platform) : markets[d].common_token = platform.common_token

\* What the queries Withdrawable and Borrowable answer, the next transaction
\* grants: the limit on credit, the C tokens and the market's cash are all
\* taken into account, with the interest that the transaction charges first.
\* It refuses only base tokens that are worth no C token once interest is
\* charged, and a debt in points that is too wide for the market's total.
QueriesAreGranted ==
    \A a \in Users, d \in listed(platform) :
       LET m == markets[d]
           charged == charge_interest(m, now)
           credit == total_credit_line(platform, now, a)
           out == withdrawable(m, a, credit, Price(platform, d))
           loan == borrowable(m, credit, Price(platform, d))
           points == base_to_token(loan, charged.debt_multiplier)
       IN  TotalCreditLineOK(platform, now, a) /\ PriceOK(platform, d) /\ ChargeOK(m, now)
             => /\ (TransferableOK(m, credit, Price(platform, d))
                     /\ FromBase(charged.ctoken, out) > 0)
                   => MarketWithdrawOK(platform, now, a, d, out, credit)
                /\ (BorrowableOK(credit, Price(platform, d)) /\ loan > 0
                     /\ Fits(charged.total_points + points))
                   => MarketBorrowOK(platform, now, a, d, loan, credit)

\* No price is lower.
LowestPrice == CHOOSE low \in Prices : \A price \in Prices : low <= price

\* Points of a debt that count for nothing at the lowest price when they are
\* left, however much interest they bear afterwards.
Small(points) == MulInt(points, InitialMultiplier) * LowestPrice < One

\* What an account owes counts in its total credit line, because it stays in
\* the market: it may leave one only with a debt too small for a price.
DebtsAreCounted ==
    \A a \in Users, d \in listed(platform) :
       d \in entered[a] \/ Small(markets[d].debt[a])

\* The price at which the market of d values its token, if it has one.
PriceOf(p, d) == IF PriceOK(p, d) THEN Price(p, d) ELSE 0

\* Transactions that leave the value of the account's tokens alone, and charge
\* the interest of a market whose supply of C tokens they change.  (The swap of
\* RepayWithCollateral does not: see OthersMoveNoDebt in IsotonicMarket.)
SameValues(a) ==
    /\ platform' # platform /\ now' = now
    /\ \A d \in entered[a] : PriceOf(platform', d) = PriceOf(platform, d)
    /\ \A d \in entered[a] \cup entered'[a] :
          /\ markets'[d].collateral_ratio = markets[d].collateral_ratio
          /\ markets'[d].ctoken.total_supply # markets[d].ctoken.total_supply
               => epochs_passed(markets'[d], now) = 0

\* The ratios of the interest that is pending in a market, on debts and on C
\* tokens.
PendingOnDebts(m) ==
    IF pending(m, now) THEN debt_ratio(m, epochs_passed(m, now)) ELSE 0

PendingOnTokens(m) ==
    IF pending(m, now) THEN ctoken_ratio(m, epochs_passed(m, now)) ELSE 0

\* What roundings make of a balance of so many points on which a ratio is
\* pending: see IsotonicMarket.
Slack(points, ratio) == 3 + (points \div One) + (ratio \div One)

\* What roundings can take from an account in the market of d, in common
\* tokens: the slack of its C tokens and of its debt, the last point of a
\* repayment, and what it owes in a market that it is not in, which counts
\* once it enters.
RoundingIn(d, a) ==
    LET m == markets[d]
        price == PriceOf(platform, d)
        claim == Slack(m.ctoken.balances[a], PendingOnTokens(m))
        point == MulDec(m.debt_multiplier, One + PendingOnDebts(m)) \div One
        outside == IF d \in entered[a] THEN 0 ELSE debt_balance(m, now, a)
        owed == Slack(m.debt[a], PendingOnDebts(m)) + point + 1 + outside
    IN  MulInt(MulInt(claim, price) + 2, m.collateral_ratio) + MulInt(owed, price) + 4

\* A market that cannot charge its interest rejects what would move a balance.
Rounding(a) ==
    SumFunction([d \in Denoms |->
                   IF d \in listed(platform) /\ QueryOK(markets[d], now)
                   THEN RoundingIn(d, a) ELSE 0])

\* What the total credit line of an account leaves above its debt.
Health(p, time, a) ==
    LET credit == total_credit_line(p, time, a)
    IN  credit.credit_line - credit.debt

\* Both before and after the transaction, the markets answer.
CreditKnown(a) ==
    TotalCreditLineOK(platform, now, a) /\ TotalCreditLineOK(platform', now', a)

\* The account repays with more collateral than it allowed, and than the
\* agency counted on: the estimate of the swap, in collateral, was held
\* against what the collateral is worth in common tokens.
SellsMore(a) ==
    \E c, d \in Denoms, amount \in RepaidAmounts, estimate, max_collateral \in SellLimits :
       /\ c # d /\ estimate > max_collateral
       /\ RepayWithCollateral(a, c, max_collateral, d, amount, estimate)

\* The account transfers C tokens that are worth more than a base token, with
\* the interest that is pending on them.  Of an account with a debt,
\* transferable_amount answers in base tokens, and the C token compares it
\* with C tokens: it lets go of more than the account can spare.
TransfersAbovePar(a) ==
    \E b \in Users, d \in Denoms, amount \in TransferAmounts :
       /\ Transfer(a, b, d, amount)
       /\ markets[d].ctoken.multiplier * (One + PendingOnTokens(markets[d])) > One * One

\* Only prices, the passing of time and governance make an account fit for
\* liquidation: no transaction, its own or anybody else's, does, but for the
\* two of its own in which the code compares amounts of different tokens.
SafeStaysSafe ==
    [][\A a \in Users :
          SameValues(a) /\ CreditKnown(a) /\ Health(platform, now, a) >= 0
            => \/ Health(platform', now', a) >= -Rounding(a)
               \/ SellsMore(a)
               \/ TransfersAbovePar(a)]_vars

\* Of an account that can be liquidated, no transaction deepens the
\* shortfall: with the collateral ratios below the liquidation price, a
\* liquidation takes more off its debt than off its credit line.  (For the
\* exception see SellsMore.)
ShortfallNotDeepened ==
    [][\A a \in Users :
          SameValues(a) /\ CreditKnown(a) /\ Health(platform, now, a) < 0
            => \/ Health(platform', now', a) >= Health(platform, now, a) - Rounding(a)
               \/ SellsMore(a)]_vars

\* A debt is paid with tokens that come into its market or with the
\* account's collateral.
DebtIsPaid ==
    [][\A a \in Users, d \in Denoms :
          d \in listed(platform) /\ markets'[d].debt[a] < markets[d].debt[a]
            => \/ markets'[d].cash > markets[d].cash
               \/ \E c \in listed(platform) :
                     markets'[c].ctoken.balances[a] < markets[c].ctoken.balances[a]]_vars
=============================================================================
