--------------------------- MODULE MarketHandlers ---------------------------
(***************************************************************************)
(* The message handlers of an isotonic market as operators on its storage. *)
(* A market m is a record: the fields of its Config that the handlers read *)
(* and the market's own denomination does not fix, the debt module of      *)
(* state.rs (the debt points of each account, their total and the          *)
(* multiplier that turns points into base tokens), the storage of its C    *)
(* token, and the base tokens in its bank account (cash).                  *)
(*                                                                         *)
(* A handler H with the condition HOK is the whole transaction: the charge *)
(* of interest comes first, then the C token messages that the handler     *)
(* queues, in their order.  Checks that the code makes before charging     *)
(* read the market as it was before.                                       *)
(***************************************************************************)
EXTENDS TokenHandlers, InterestCurve

CONSTANT Governance  \* governance_contract

ASSUME MarketAssumption == SecondsInYear \in Nat \ {0} /\ Governance \in Accounts

\* InstantiateMsg: what the creator of a market chooses.
InstantiateMsg(period, rates, factor, ratio, cap, common_token, limit_ratio) ==
    [charge_period |-> period,
     rates |-> rates,
     reserve_factor |-> factor,
     collateral_ratio |-> ratio,
     market_cap |-> cap,
     common_token |-> common_token,
     borrow_limit_ratio |-> limit_ratio]

\* instantiate, with the reply that records the C token.
instantiate(now, msg) ==
    [debt |-> [a \in Accounts |-> 0],
     total_points |-> 0,
     debt_multiplier |-> InitialMultiplier,
     last_charged |-> now - (now % msg.charge_period),
     charge_period |-> msg.charge_period,
     rates |-> msg.rates,
     reserve_factor |-> msg.reserve_factor,
     collateral_ratio |-> msg.collateral_ratio,
     market_cap |-> msg.market_cap,
     common_token |-> msg.common_token,
     borrow_limit_ratio |-> msg.borrow_limit_ratio,
     cash |-> 0,
     ctoken |-> EmptyToken]

\* The curve is validated, and the time is divided by the period.
InstantiateOK(msg) == msg.charge_period > 0 /\ Valid(msg.rates)

\* The storage of a market, whatever it went through, whose configuration is
\* within K: an InstantiateMsg with a set of values in each field.
StoredMarket(K) == [debt : [Accounts -> 0 .. Modulus - 1],
                    total_points : 0 .. Modulus - 1,
                    debt_multiplier : 0 .. Modulus - 1,
                    last_charged : Nat,
                    charge_period : K.charge_period,
                    rates : K.rates,
                    reserve_factor : K.reserve_factor,
                    collateral_ratio : K.collateral_ratio,
                    market_cap : K.market_cap,
                    common_token : K.common_token,
                    borrow_limit_ratio : K.borrow_limit_ratio,
                    cash : Nat,
                    ctoken : TokenState]

-----------------------------------------------------------------------------
(***************************************************************************)
(* The debt module of state.rs.                                            *)
(***************************************************************************)
total(m) == token_to_base(m.total_points, m.debt_multiplier)

debt_of(m, a) == token_to_base(m.debt[a], m.debt_multiplier)

increase(m, a, amount) ==
    LET points == base_to_token(amount, m.debt_multiplier)
    IN  [m EXCEPT !.total_points = @ + points, !.debt[a] = @ + points]

\* The conversion to points does not panic.
PointsOK(m, amount) ==
    m.debt_multiplier > 0 /\ Fits(base_to_token(amount, m.debt_multiplier))

IncreaseOK(m, a, amount) ==
    LET points == base_to_token(amount, m.debt_multiplier)
    IN  PointsOK(m, amount) /\ Fits(m.total_points + points) /\ Fits(m.debt[a] + points)

\* The closure of decrease: points cannot go below zero.
Less(old, points) == IF points >= old THEN 0 ELSE old - points

\* Mutant: the total is forgotten.
AccountOnlyDecrease(m, a, amount) ==
    [m EXCEPT !.debt[a] = Less(@, base_to_token(amount, m.debt_multiplier))]

\* change_amount runs the closure on the total and then on the account.
decrease(m, a, amount) ==
    LET points == base_to_token(amount, m.debt_multiplier)
    IN  [m EXCEPT !.total_points = Less(@, points), !.debt[a] = Less(@, points)]

\* Mutant: the leftover of the total is not overwritten by the account's.
SurplusOfTotal(m, a, amount) ==
    LET points == base_to_token(amount, m.debt_multiplier)
    IN  IF points >= m.total_points
        THEN token_to_base(points - m.total_points, m.debt_multiplier)
        ELSE 0

\* The leftover that decrease returns: each run of the closure that finds
\* no more than `points` overwrites it, so the account's wins over the total's.
Surplus(m, a, amount) ==
    LET points == base_to_token(amount, m.debt_multiplier)
    IN  IF points >= m.debt[a]
        THEN token_to_base(points - m.debt[a], m.debt_multiplier)
        ELSE IF points >= m.total_points
        THEN token_to_base(points - m.total_points, m.debt_multiplier)
        ELSE 0

-----------------------------------------------------------------------------
(***************************************************************************)
(* Charging interest.                                                      *)
(***************************************************************************)
\* Mutant: a period counts as soon as it begins.
EpochsBegun(m, now) == (now - m.last_charged + m.charge_period - 1) \div m.charge_period

epochs_passed(m, now) == (now - m.last_charged) \div m.charge_period

supplied(m) == token_to_base(m.ctoken.total_supply, m.ctoken.multiplier)

utilisation(m) == IF supplied(m) = 0 THEN 0 ELSE DivDec(total(m), supplied(m))

debt_ratio(m, epochs) ==
    compounded_interest_rate(calculate_interest_rate(m.rates, utilisation(m)),
                             m.charge_period, epochs)

\* Mutant: interest on everything supplied.
InterestOnSupply(m, epochs) == MulInt(supplied(m), debt_ratio(m, epochs))

charged_interest(m, epochs) == MulInt(total(m), debt_ratio(m, epochs))

reserve(m, epochs) == MulInt(charged_interest(m, epochs), m.reserve_factor)

ctoken_ratio(m, epochs) ==
    DivDec(charged_interest(m, epochs), supplied(m) - reserve(m, epochs))

\* calculate_interest subtracts the debt from the supply, the reserve from
\* that, and divides by what is left: each panics if it cannot.
InterestOK(m, epochs) ==
    /\ total(m) <= supplied(m)
    /\ reserve(m, epochs) < supplied(m)
    /\ Fits(One + debt_ratio(m, epochs)) /\ Fits(charged_interest(m, epochs))
    /\ Fits(MulDec(m.debt_multiplier, One + debt_ratio(m, epochs)))
    /\ RebaseOK(m.ctoken, One + ctoken_ratio(m, epochs))

\* The C token after the Rebase message, then after the MintBase message
\* that gives the reserve to the governance contract.
rebased(m, epochs) == rebase(m.ctoken, One + ctoken_ratio(m, epochs))

ReserveOK(m, epochs) ==
    reserve(m, epochs) > 0 =>
       /\ FromBaseOK(rebased(m, epochs), reserve(m, epochs))
       /\ MintOK(rebased(m, epochs), Governance,
                 FromBase(rebased(m, epochs), reserve(m, epochs)))

with_reserve(m, epochs) ==
    IF reserve(m, epochs) > 0
    THEN mint(rebased(m, epochs), Governance,
              FromBase(rebased(m, epochs), reserve(m, epochs)))
    ELSE rebased(m, epochs)

ChargeOK(m, now) ==
    LET epochs == epochs_passed(m, now)
    IN  epochs > 0 /\ supplied(m) > 0
          => InterestOK(m, epochs) /\ ReserveOK(m, epochs)

\* Mutant: the time of the charge is not saved.
UnclockedCharge(m, now) ==
    LET epochs == epochs_passed(m, now)
    IN  IF epochs = 0 \/ supplied(m) = 0
        THEN m
        ELSE [m EXCEPT !.debt_multiplier = MulDec(@, One + debt_ratio(m, epochs)),
                       !.ctoken = with_reserve(m, epochs)]

charge_interest(m, now) ==
    LET epochs == epochs_passed(m, now)
        clocked == [m EXCEPT !.last_charged = @ + epochs * m.charge_period]
    IN  IF epochs = 0 \/ supplied(m) = 0
        THEN clocked
        ELSE [clocked EXCEPT
                !.debt_multiplier = MulDec(@, One + debt_ratio(m, epochs)),
                !.ctoken = with_reserve(m, epochs)]

-----------------------------------------------------------------------------
(***************************************************************************)
(* The handlers.  Amounts are positive: the bank carries no empty coins.   *)
(***************************************************************************)

\* The messages MintBase, BurnBaseFrom and TransferBaseFrom to the C token.
mint_base(m, a, amount) ==
    [m EXCEPT !.ctoken = mint(@, a, FromBase(@, amount))]

MintBaseOK(m, a, amount) ==
    /\ FromBaseOK(m.ctoken, amount)
    /\ MintOK(m.ctoken, a, FromBase(m.ctoken, amount))

burn_base_from(m, a, amount) ==
    [m EXCEPT !.ctoken = burn_from(@, a, FromBase(@, amount))]

BurnBaseOK(m, a, amount) ==
    /\ FromBaseOK(m.ctoken, amount)
    /\ BurnOK(m.ctoken, a, FromBase(m.ctoken, amount))

pay(m, amount) == [m EXCEPT !.cash = @ - amount]

receive(m, amount) == [m EXCEPT !.cash = @ + amount]

\* market_cap is an Option: a set of at most one amount.
UnderCap(m, amount) == \A cap \in m.market_cap : supplied(m) + amount <= cap

\* Mutant: interest is not charged first.
UnchargedDeposit(m, now, a, amount) == receive(mint_base(m, a, amount), amount)

deposit(m, now, a, amount) ==
    receive(mint_base(charge_interest(m, now), a, amount), amount)

DepositOK(m, now, a, amount) ==
    /\ UnderCap(m, amount)
    /\ ChargeOK(m, now)
    /\ MintBaseOK(charge_interest(m, now), a, amount)

\* The amount is within transferable_amount: see CanTransfer.
withdraw(m, now, a, amount) ==
    pay(burn_base_from(charge_interest(m, now), a, amount), amount)

WithdrawBaseOK(m, now, a, amount) ==
    /\ ChargeOK(m, now)
    /\ BurnBaseOK(charge_interest(m, now), a, amount)
    /\ amount <= m.cash

\* Mutant: interest is charged only when the next message comes.
UnchargedLoan(m, now, a, amount) == pay(increase(m, a, amount), amount)

\* The amount is within query_borrowable_tokens: see CanBorrow.
borrow(m, now, a, amount) ==
    pay(increase(charge_interest(m, now), a, amount), amount)

BorrowOK(m, now, a, amount) ==
    /\ ChargeOK(m, now)
    /\ IncreaseOK(charge_interest(m, now), a, amount)
    /\ amount <= m.cash

\* Mutant: the debt is decreased before interest is charged.
RepayBeforeCharge(m, now, a, amount) ==
    pay(receive(charge_interest(decrease(m, a, amount), now), amount),
        Surplus(m, a, amount))

\* Repay sends back what the debt did not need.
repay(m, now, a, amount) ==
    LET c == charge_interest(m, now)
    IN  pay(receive(decrease(c, a, amount), amount), Surplus(c, a, amount))

RepayOK(m, now, a, amount) ==
    /\ ChargeOK(m, now)
    /\ PointsOK(charge_interest(m, now), amount)
    /\ Surplus(charge_interest(m, now), a, amount) <= m.cash + amount

\* RepayTo compares the amount with the debt before interest is charged, and
\* keeps whatever decrease returns.
repay_to(m, now, a, amount) ==
    receive(decrease(charge_interest(m, now), a, amount), amount)

RepayToOK(m, now, a, amount) ==
    /\ amount <= debt_of(m, a)
    /\ ChargeOK(m, now)
    /\ PointsOK(charge_interest(m, now), amount)

\* The market's own division by a decimal: the product is not widened.
divide(top, bottom) == (top * One) \div bottom

DivideOK(top, bottom) == bottom > 0 /\ Fits(top * One)

\* Mutant: the discount is given twice.
TwiceDiscounted(amount, price, liquidation_price) ==
    divide(amount, MulDec(price, MulDec(liquidation_price, liquidation_price)))

\* C tokens worth `amount` common tokens at the price, with the discount of
\* the liquidation price.
RepaidValue(amount, price, liquidation_price) ==
    divide(amount, MulDec(price, liquidation_price))

transfer_from(m, now, source, destination, amount, price, liquidation_price) ==
    LET c == charge_interest(m, now)
        tokens == FromBase(c.ctoken, RepaidValue(amount, price, liquidation_price))
    IN  [c EXCEPT !.ctoken = transfer_tokens(@, source, destination, tokens)]

TransferFromOK(m, now, source, destination, amount, price, liquidation_price) ==
    /\ ChargeOK(m, now)
    /\ DivideOK(amount, MulDec(price, liquidation_price))
    /\ LET t == charge_interest(m, now).ctoken
           value == RepaidValue(amount, price, liquidation_price)
       IN  /\ FromBaseOK(t, value)
           /\ TransferOK(t, source, destination, FromBase(t, value))

\* SwapWithdrawFrom, when the token to buy is the market's own token: the
\* handler only sends it.
withdraw_same_token(m, amount) == pay(m, amount)

\* SwapWithdrawFrom of another token: C tokens worth the oracle's estimate
\* are burnt, and sell_limit tokens go to the swap.  The market's token is a
\* native one: a message that swaps a cw20 token is not implemented.
swap_withdraw_from(m, a, estimate, sell_limit) ==
    pay([m EXCEPT !.ctoken = burn_from(@, a, FromBase(@, estimate))], sell_limit)

SwapWithdrawOK(m, a, estimate, sell_limit) ==
    /\ estimate <= sell_limit
    /\ BurnBaseOK(m, a, estimate)
    /\ sell_limit <= m.cash

-----------------------------------------------------------------------------
(***************************************************************************)
(* Governance.                                                             *)
(***************************************************************************)

\* adjust_interest_rates loads the Config before charge_interest saves the
\* new last_charged, and saves that copy afterwards.
adjust_interest_rates(m, now, rates) ==
    [charge_interest(m, now) EXCEPT !.rates = rates, !.last_charged = m.last_charged]

AdjustRatesOK(m, now, rates) == ChargeOK(m, now) /\ Valid(rates)

\* From the credit agency, when it changes its own.
adjust_common_token(m, new_token) == [m EXCEPT !.common_token = new_token]

-----------------------------------------------------------------------------
(***************************************************************************)
(* The queries that the credit agency and the C token make.                *)
(***************************************************************************)
pending(m, now) == epochs_passed(m, now) > 0 /\ supplied(m) > 0

\* The queries calculate interest as charge_interest would and fail with it.
QueryOK(m, now) == pending(m, now) => InterestOK(m, epochs_passed(m, now))

\* tokens_balance: balances with the interest that is not charged yet.
collateral_balance(m, now, a) ==
    LET b == BaseBalance(m.ctoken, a)
    IN  IF pending(m, now)
        THEN b + MulInt(b, ctoken_ratio(m, epochs_passed(m, now)))
        ELSE b

\* Mutant: the debt without the interest that is not charged yet.
ChargedDebt(m, now, a) == debt_of(m, a)

debt_balance(m, now, a) ==
    LET b == debt_of(m, a)
    IN  IF pending(m, now)
        THEN b + MulInt(b, debt_ratio(m, epochs_passed(m, now)))
        ELSE b

\* credit_line, at a price of the market token in common tokens.
credit_line(m, now, a, price) ==
    LET collateral == MulInt(collateral_balance(m, now, a), price)
        line == MulInt(collateral, m.collateral_ratio)
    IN  [collateral |-> collateral,
         credit_line |-> line,
         borrow_limit |-> MulInt(line, m.borrow_limit_ratio),
         debt |-> MulInt(debt_balance(m, now, a), price)]

Least(amounts) == CHOOSE least \in amounts : \A other \in amounts : least <= other

\* The credit that an account has left, in common tokens.
available(credit) ==
    IF credit.debt >= credit.borrow_limit THEN 0 ELSE credit.borrow_limit - credit.debt

\* How many market tokens an account with the given credit may borrow.
borrowable_tokens(credit, price) == divide(available(credit), price)

BorrowableOK(credit, price) == DivideOK(available(credit), price)

\* The answer to TransferableAmount, which withdraw uses too.  Without debt
\* it is an amount of C tokens, with debt one of base tokens.
transferable_amount(m, a, credit, price) ==
    LET base == divide(borrowable_tokens(credit, price), m.collateral_ratio)
        tokens == FromBase(m.ctoken, base)
    IN  IF credit.debt # 0 THEN base
        ELSE IF tokens >= m.ctoken.balances[a] THEN tokens ELSE m.ctoken.balances[a]

TransferableOK(m, credit, price) ==
    /\ BorrowableOK(credit, price)
    /\ DivideOK(borrowable_tokens(credit, price), m.collateral_ratio)
    /\ credit.debt = 0
         => FromBaseOK(m.ctoken, divide(borrowable_tokens(credit, price),
                                        m.collateral_ratio))

\* can_borrow, for an account with the given credit.
CanBorrow(credit, price, amount) ==
    BorrowableOK(credit, price) /\ amount <= borrowable_tokens(credit, price)

\* What the market asks before a withdrawal and the C token before a transfer.
CanTransfer(m, a, credit, price, amount) ==
    /\ TransferableOK(m, credit, price)
    /\ amount <= transferable_amount(m, a, credit, price)

\* Mutant: the market answers more than its bank account holds.
WithdrawableBeyondCash(m, a, credit, price) ==
    Least({transferable_amount(m, a, credit, price), BaseBalance(m.ctoken, a)})

withdrawable(m, a, credit, price) ==
    Least({transferable_amount(m, a, credit, price), BaseBalance(m.ctoken, a), m.cash})

borrowable(m, credit, price) == Least({borrowable_tokens(credit, price), m.cash})

\* The interest query, of a market whose interest may still be pending.
interest(m) == calculate_interest_rate(m.rates, utilisation(m))

\* The yearly yields: the periods of a year compounded.
borrower_apy(m) ==
    LET charge_periods == SecondsInYear \div m.charge_period
    IN  Pow(One + interest(m) \div charge_periods, charge_periods) - One

lender_apy(m) ==
    MulDec(MulDec(borrower_apy(m), utilisation(m)), One - m.reserve_factor)

\* The reserve that the next charge would mint.
pending_reserve(m, now) ==
    IF pending(m, now) THEN reserve(m, epochs_passed(m, now)) ELSE 0

\* last_charged in the answer to Configuration.
last_charged(m, now) == m.last_charged + epochs_passed(m, now) * m.charge_period
=============================================================================
