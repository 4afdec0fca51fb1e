----------------------------- MODULE MarketTests -----------------------------
(***************************************************************************)
(* The tests of the market (isotonic-market/src/multitest) as scripts.     *)
(* Large amounts, and the years of some tests, are scaled down.            *)
(***************************************************************************)
EXTENDS PlatformSuites

\* set_pool of the market's token at the given price in common tokens.
Pool(price) == SetPool("common", "market", price)

\* Funds in the market's token.
Has(a, amount) == <<a, "market">> :> amount

Cash(amount) == Is(<<"cash", "market">>, amount)

CTokens(a, amount) == Is(<<"ctokens", "market", a>>, amount)

Debt(a, amount) == Is(<<"debt", "market", a>>, amount)

InWallet(a, amount) == Is(<<"wallet", "market", a>>, amount)

Supply(amount, margin) == About(<<"supply", "market">>, amount, margin)

Withdrawable(a, amount) == Is(<<"withdrawable", "market", a>>, amount)

Borrowable(a, amount) == Is(<<"borrowable", "market", a>>, amount)

\* The lender lends and the borrower may borrow at a price of 1.
Lending(msg, lender_funds, borrower_funds) ==
    MarketSuite(msg, Has("lender", lender_funds) @@ Has("borrower", borrower_funds), 0)

HighCredit == <<Pool(One), SetHighCreditLine("lender"), SetHighCreditLine("borrower")>>

Lent(supplied_amount, borrowed) ==
    HighCredit \o <<Deposit("lender", "market", supplied_amount),
                    Borrow("borrower", "market", borrowed)>>

-----------------------------------------------------------------------------
(***************************************************************************)
(* deposit.rs                                                              *)
(***************************************************************************)
deposit_works ==
    Script(Lending(Default, 100, 0),
           <<Cash(0), CTokens("lender", 0), Deposit("lender", "market", 100),
             Cash(100), CTokens("lender", 100)>>)

deposit_wrong_denom_fails ==
    Script(MarketSuite(Default, <<"lender", "common">> :> 100, 0),
           <<Refused(Deposit("lender", "common", 100))>>)

\* Without debt the answer is in C tokens, of which there are two to a base
\* token in this model.
query_transferable_amount ==
    Script(Lending([Default EXCEPT !.collateral_ratio = Percent(80)], 100, 0),
           <<Pool(One), SetCreditLine("lender", zero),
             Is(<<"transferable", "market", "lender">>, 0),
             Deposit("lender", "market", 100),
             SetCreditLine("lender", CreditLine(100, 80, 80, 0)),
             Is(<<"transferable", "market", "lender">>, 200),
             SetCreditLine("lender", CreditLine(100, 80, 80, 50)),
             Is(<<"transferable", "market", "lender">>, 37),
             Refused(Ask(<<"transferable", "xtoken">>))>>)

cannot_deposit_over_cap ==
    Script(Lending([Default EXCEPT !.market_cap = {90}], 100, 0),
           <<Deposit("lender", "market", 80),
             Refused(Deposit("lender", "market", 20))>>)

-----------------------------------------------------------------------------
(***************************************************************************)
(* withdraw.rs                                                             *)
(***************************************************************************)
Seventy == [Default EXCEPT !.collateral_ratio = Percent(70)]

withdraw_works ==
    Script(Lending(Default, 100, 0),
           HighCredit \o <<Deposit("lender", "market", 100),
                           Withdraw("lender", "market", 40),
                           InWallet("lender", 40), Cash(60), CTokens("lender", 60)>>)

withdraw_overflow_is_handled ==
    Script(Lending(Default, 100, 0),
           HighCredit \o <<Deposit("lender", "market", 100),
                           Refused(Withdraw("lender", "market", 150)),
                           InWallet("lender", 0), Cash(100), CTokens("lender", 100)>>)

cant_withdraw_with_debt_higher_then_credit_line ==
    Script(Lending(Seventy, 100, 0),
           <<Pool(One), Deposit("lender", "market", 100),
             SetCreditLine("lender", CreditLine(100, 70, 70, 200)),
             Refused(Withdraw("lender", "market", 1))>>)

\* 2000 C tokens stand for the two millions of the test.
can_withdraw_up_to_credit_line ==
    Script(Lending(Seventy, 100, 0),
           <<Pool(One), Deposit("lender", "market", 100),
             SetCreditLine("lender", CreditLine(100, 70, 70, 0)),
             Withdraw("lender", "market", 90), InWallet("lender", 90),
             SetCreditLine("lender", CreditLine(10, 7, 7, 0)),
             Refused(Withdraw("lender", "market", 2000))>>)

\* attempt_withdraw_max: `left` is the credit line that the mock is given
\* once the withdrawable amount is withdrawn.
WithdrawMax(a, amount, left) ==
    <<Withdrawable(a, amount), Withdraw(a, "market", amount), SetCreditLine(a, left),
      Withdrawable(a, 0), Refused(Withdraw(a, "market", 1))>>

query_withdrawable_when_only_lending ==
    Script(Lending(Default, 100, 0),
           HighCredit \o <<Deposit("lender", "market", 100)>>
             \o WithdrawMax("lender", 100, CreditLine(49900, 49950, 49950, 0)))

query_withdrawable_up_to_borrow_limit ==
    Script(Lending(Default, 100, 0),
           <<Pool(One), Deposit("lender", "market", 100),
             SetCreditLine("lender", CreditLine(100, 50, 50, 40))>>
             \o WithdrawMax("lender", 20, CreditLine(80, 40, 40, 40)))

query_withdrawable_not_enough_liquid ==
    Script(Lending(Default, 100, 0),
           Lent(100, 40) \o WithdrawMax("lender", 60, CreditLine(49940, 49970, 49970, 0)))

-----------------------------------------------------------------------------
(***************************************************************************)
(* borrow_repay.rs                                                         *)
(***************************************************************************)
borrow_works ==
    Script(MarketSuite(Default, <<>>, 150),
           HighCredit \o <<Cash(150), Debt("borrower", 0),
                           Borrow("borrower", "market", 100),
                           Cash(50), Debt("borrower", 100)>>)

borrow_and_repay ==
    Script(MarketSuite(Default, <<>>, 150),
           HighCredit \o <<Borrow("borrower", "market", 100), Cash(50),
                           Repay("borrower", "market", 100),
                           Cash(150), Debt("borrower", 0)>>)

cant_borrow_with_debt_higher_then_credit_line ==
    Script(Lending(Seventy, 0, 100),
           <<Pool(One), Deposit("borrower", "market", 100),
             SetCreditLine("borrower", CreditLine(100, 70, 70, 200)),
             Refused(Borrow("borrower", "market", 1))>>)

cant_borrow_more_then_credit_line ==
    Script(Lending(Seventy, 0, 100),
           <<Pool(One), Deposit("borrower", "market", 100),
             SetCreditLine("borrower", CreditLine(100, 70, 70, 0)),
             Refused(Borrow("borrower", "market", 80)),
             Borrow("borrower", "market", 60), Debt("borrower", 60)>>)

cant_borrow_more_than_borrow_limit ==
    Script(Lending([Seventy EXCEPT !.borrow_limit_ratio = Percent(90)], 0, 100),
           <<Pool(One), Deposit("borrower", "market", 100),
             SetCreditLine("borrower", CreditLine(100, 70, 63, 0)),
             Refused(Borrow("borrower", "market", 70)),
             Borrowable("borrower", 63),
             Borrow("borrower", "market", 63), Debt("borrower", 63)>>)

repay_small_amounts ==
    Script(MarketSuite(Default, <<>>, 100),
           HighCredit \o <<Borrow("borrower", "market", 100),
                           Repay("borrower", "market", 33),
                           Cash(33), Debt("borrower", 67),
                           Repay("borrower", "market", 67),
                           Cash(100), Debt("borrower", 0)>>)

overpay_repay ==
    Script(MarketSuite(Default, Has("borrower", 50), 100),
           HighCredit \o <<Borrow("borrower", "market", 100),
                           Repay("borrower", "market", 120),
                           Cash(100), Debt("borrower", 0), InWallet("borrower", 50)>>)

repay_to_no_agency ==
    Script(Lending(Default, 100, 0),
           HighCredit \o <<Refused(RepayTo("lender", "user", "market", 1))>>)

repay_to_invalid_denom ==
    Script(MarketSuite(Default, <<"agency", "common">> :> 100, 0),
           HighCredit \o <<Refused(RepayTo("agency", "user", "common", 1))>>)

repay_to_works ==
    Script(MarketSuite(Default, Has("agency", 100), 150),
           HighCredit \o <<Borrow("borrower", "market", 100), Cash(50),
                           RepayTo("agency", "borrower", "market", 100),
                           Cash(150), Debt("borrower", 0)>>)

\* attempt_borrow_max
BorrowMax(a, amount, left) ==
    <<Borrowable(a, amount), Borrow(a, "market", amount), SetCreditLine(a, left),
      Borrowable(a, 0), Refused(Borrow(a, "market", 1))>>

query_borrowable ==
    Script(Lending(Default, 100, 0),
           <<Pool(One), SetHighCreditLine("lender"),
             SetCreditLine("borrower", CreditLine(100, 50, 50, 10)),
             Deposit("lender", "market", 100)>>
             \o BorrowMax("borrower", 40, CreditLine(100, 50, 50, 50)))

query_borrowable_with_limited_liquidity ==
    Script(Lending(Default, 20, 0),
           HighCredit \o <<Deposit("lender", "market", 20)>>
             \o BorrowMax("borrower", 20, CreditLine(50000, 50000, 50000, 20)))

-----------------------------------------------------------------------------
(***************************************************************************)
(* credit_line.rs                                                          *)
(***************************************************************************)
Line(a, collateral, line, debt) ==
    CreditLineIs(<<"credit_line", "market", a>>,
                 CreditLine(collateral, line, line, debt), 0)

oracle_price_not_set ==
    Script(Lending(Default, 1000, 0),
           <<Deposit("lender", "market", 1000),
             Refused(Ask(<<"credit_line", "market", "lender">>))>>)

\* The pool has recorded no price, which an account without tokens needs not.
zero_credit_line ==
    Script(Lending(Default, 1, 0),
           <<Pool(0), Ask(<<"credit_line", "market", "lender">>)>>
             \o Line("lender", 0, 0, 0))

borrower_borrows_tokens ==
    Script(Lending(Seventy, 1000, 0),
           <<Pool(Percent(200)), SetHighCreditLine("borrower"),
             Deposit("lender", "market", 1000), Borrow("borrower", "market", 1000),
             Debt("borrower", 1000)>>
             \o Line("borrower", 0, 0, 2000))

lender_deposits_tokens ==
    Script(Lending(Seventy, 1000, 0),
           <<Pool(Percent(200)), Deposit("lender", "market", 1000), CTokens("lender", 1000)>>
             \o Line("lender", 2000, 1400, 0))

deposits_and_borrows_tokens ==
    Script(Lending(Seventy, 1000, 1000),
           <<Pool(Percent(200)), SetHighCreditLine("borrower"),
             Deposit("lender", "market", 1000), Borrow("borrower", "market", 1000),
             Deposit("borrower", "market", 1100),
             Debt("borrower", 1000), CTokens("borrower", 1100)>>
             \o Line("lender", 2000, 1400, 0) \o Line("borrower", 2200, 1540, 2000))

deposits_and_borrows_tokens_market_common_matches_denoms ==
    Script(Lending(Seventy, 1000, 100),
           <<Pool(One), SetHighCreditLine("borrower"),
             Deposit("lender", "market", 1000), Borrow("borrower", "market", 1000),
             Deposit("borrower", "market", 1100)>>
             \o Line("lender", 1000, 700, 0) \o Line("borrower", 1100, 770, 1000))

Yearly(base, slope) ==
    [Default EXCEPT !.charge_period = YEAR, !.rates = Rates(base, slope)]

query_credit_line_with_uncharged_interest ==
    Script(Lending(Yearly(10, 0), 5000, 500),
           Lent(2000, 1000)
             \o <<Debt("borrower", 1000), Is(<<"collateral", "market", "lender">>, 2000),
                  Advance(YEAR),
                  Debt("borrower", 1100), Is(<<"collateral", "market", "lender">>, 2100)>>)

-----------------------------------------------------------------------------
(***************************************************************************)
(* interest.rs                                                             *)
(***************************************************************************)
Interest(utilisation_rate, interest_rate) ==
    <<Is(<<"utilisation", "market">>, utilisation_rate),
      About(<<"interest", "market">>, interest_rate, 1)>>

query_interest ==
    Script(Lending(Seventy, 150, 0),
           HighCredit \o <<CTokens("lender", 0), Cash(0)>> \o Interest(0, Percent(3))
             \o <<Deposit("lender", "market", 100), CTokens("lender", 100), Cash(100)>>
             \o Interest(0, Percent(3))
             \o <<Borrow("borrower", "market", 10)>> \o Interest(Percent(10), Percent(5))
             \o <<Repay("borrower", "market", 5)>> \o Interest(Percent(5), Percent(4))
             \o <<Deposit("lender", "market", 50)>>
             \o Interest(One \div 30, Percent(3) + One \div 150))

TotalDebt(amount, margin) == About(<<"total_debt", "market">>, amount, margin)

charge_interest_borrow ==
    Script(Lending(Yearly(4, 20), 2000, 500),
           Lent(2000, 1600) \o Interest(Percent(80), Percent(20))
             \o <<Advance(YEAR), Repay("borrower", "market", 800), TotalDebt(1120, 1),
                  Advance(YEAR), Repay("borrower", "market", 800), TotalDebt(472, 1),
                  Repay("borrower", "market", 474), TotalDebt(0, 0)>>)

charge_interest_deposit ==
    Script(Lending(Yearly(4, 20), 4000, 2300),
           Lent(2000, 1600)
             \o <<Advance(YEAR), Deposit("lender", "market", 1000), Supply(3319, 1),
                  Advance(YEAR), Deposit("lender", "market", 1000), Supply(4618, 2),
                  Repay("borrower", "market", 2219), TotalDebt(0, 0),
                  Withdraw("lender", "market", 4616), InWallet("lender", 4616),
                  Supply(2, 2)>>)

query_balance_with_uncharged_interest ==
    Script(Lending(Yearly(10, 20), 2000, 500),
           Lent(2000, 500) \o Interest(Percent(25), Percent(15))
             \o <<Is(<<"collateral", "market", "lender">>, 2000), Debt("borrower", 500),
                  Advance(YEAR),
                  Is(<<"collateral", "market", "lender">>, 2075), Debt("borrower", 575)>>)

Quarterly == [Default EXCEPT !.rates = Rates(40, 0), !.reserve_factor = Percent(15)]

compounding_interest ==
    Script(Lending(Quarterly, 5000, 500),
           Lent(2000, 1000)
             \o <<Debt("borrower", 1000), Advance(3 * QUARTER), Debt("borrower", 1331)>>)

compounding_interest_charge_triggered_every_epoch ==
    Script(Lending(Quarterly, 5000, 500),
           Lent(2000, 1000)
             \o <<Debt("borrower", 1000),
                  Advance(QUARTER), Deposit("lender", "market", 2),
                  Advance(QUARTER), Deposit("lender", "market", 2),
                  Advance(QUARTER), Deposit("lender", "market", 2),
                  About(<<"debt", "market", "borrower">>, 1331, 1)>>)

query_last_charged_with_uncharged_interest ==
    Script(Lending(Quarterly, 5000, 500),
           Lent(2000, 1000) \o <<Advance(YEAR), Is(<<"last_charged", "market">>, YEAR)>>)

-----------------------------------------------------------------------------
(***************************************************************************)
(* reserve.rs                                                              *)
(***************************************************************************)
Reserve(amount) == Is(<<"reserve", "market">>, amount)

Gov(amount) == About(<<"ctokens", "market", Governance>>, amount, 1)

Reserving(msg, factor) == [msg EXCEPT !.reserve_factor = Percent(factor)]

after_full_year ==
    Script(Lending(Reserving(Yearly(4, 20), 10), 4000, 2300),
           Lent(2000, 1600)
             \o <<Advance(YEAR), Deposit("lender", "market", 1000),
                  Supply(3357, 2), Reserve(0), Gov(31)>>)

after_half_year ==
    Script(Lending([Reserving(Yearly(4, 20), 20) EXCEPT !.charge_period = YEAR \div 2],
                   5000, 500),
           Lent(4000, 3000)
             \o <<Advance(YEAR \div 2), Deposit("lender", "market", 1000),
                  Supply(5346, 5), Reserve(0), Gov(56)>>)

charged_couple_times ==
    Script(Lending([Reserving(Yearly(4, 20), 15) EXCEPT !.charge_period = QUARTER],
                   5000, 500),
           Lent(2000, 1200)
             \o <<Advance(QUARTER), Deposit("lender", "market", 1000),
                  Supply(3055, 2), Reserve(0), Gov(6),
                  Borrow("borrower", "market", 800),
                  Advance(QUARTER), Deposit("lender", "market", 1000),
                  Supply(4156, 4), Reserve(0), Gov(20)>>)

query_reserve_with_uncharged_interest ==
    Script(Lending(Reserving(Yearly(10, 0), 15), 5000, 500),
           Lent(2000, 1000) \o <<Reserve(0), Advance(YEAR), Reserve(15)>>)

-----------------------------------------------------------------------------
(***************************************************************************)
(* apy.rs.  The yields of the tests compound 105120 times a year, and four *)
(* times here: they agree to within one percent of the year's capital.     *)
(***************************************************************************)
Apy(borrower_yield, lender_yield) ==
    <<About(<<"borrower_apy", "market">>, borrower_yield, Percent(1)),
      About(<<"lender_apy", "market">>, lender_yield, Percent(1))>>

nothing_on_market == Script(Lending(Default, 0, 0), Apy((305 * One) \div 10000, 0))

nothing_borrowed ==
    Script(Lending(Default, 1000, 0),
           <<Deposit("lender", "market", 1000)>> \o Apy((305 * One) \div 10000, 0))

half_borrowed ==
    Script(Lending(Default, 1000, 0),
           Lent(1000, 500) \o Apy((1388 * One) \div 10000, (694 * One) \div 10000))

whole_borrowed ==
    Script(Lending(Default, 1000, 0),
           Lent(1000, 1000) \o Apy((2586 * One) \div 10000, (2586 * One) \div 10000))

with_reserve_factor ==
    Script(Lending(Reserving(Default, 20), 1000, 0),
           Lent(1000, 500) \o Apy((1388 * One) \div 10000, (555 * One) \div 10000))

-----------------------------------------------------------------------------
(***************************************************************************)
(* restricted.rs, common.rs, migration.rs and swap_withdraw_from.rs        *)
(***************************************************************************)
Config(field, value) == Is(<<"configuration", "market", field>>, value)

adjust_collateral_ratio ==
    Script(Lending([Default EXCEPT !.collateral_ratio = Percent(15)], 0, 0),
           <<AdjustMarket("collateral_ratio", "market", Percent(30)),
             Config("collateral_ratio", Percent(30))>>)

adjust_reserve_factor ==
    Script(Lending(Reserving(Yearly(4, 20), 10), 4000, 2300),
           Lent(2000, 1600)
             \o <<AdjustMarket("reserve_factor", "market", Percent(30)), Advance(YEAR),
                  Reserve(96), Deposit("lender", "market", 1000),
                  Config("reserve_factor", Percent(30)), Reserve(0), Supply(3432, 4)>>)

adjust_market_oracle ==
    Script(Lending(Default, 0, 0),
           <<AdjustMarket("price_oracle", "market", "new oracle"),
             Is(<<"price_oracle", "market">>, "new oracle")>>)

adjust_market_cap ==
    Script(Lending([Default EXCEPT !.market_cap = {100}], 0, 0),
           <<AdjustMarket("market_cap", "market", {333}), Config("market_cap", {333}),
             AdjustMarket("market_cap", "market", {}), Config("market_cap", {})>>)

adjusted_interest_rates ==
    Script(Lending(Yearly(4, 20), 4000, 2300),
           Lent(2000, 1000)
             \o <<AdjustMarket("interest_rates", "market", Rates(5, 50)), Advance(YEAR),
                  Deposit("lender", "market", 1000), Config("rates", Rates(5, 50)),
                  Supply(3299, 2)>>)

adjust_common ==
    Script(Lending(Default, 0, 0),
           <<AdjustMarketCommonToken("agency", "market", "new"),
             Config("common_token", "new"),
             Refused(AdjustMarketCommonToken("user", "market", "common"))>>)

migration ==
    Script(Lending(Default, 0, 0),
           <<MigrateMarket("market", {5}), Is(<<"token_id", "market">>, 5),
             MigrateMarket("market", {}), Is(<<"token_id", "market">>, 5)>>)

\* The exchange asks more than 4500 tokens for 4500 tokens.  A mock has no
\* other market: the test's account sells tokens of its only one.
sender_not_credit_agency ==
    Script(Lending(Default, 0, 0),
           <<Refused(SwapWithdrawFrom("user", "lender", 0, "common", 100, 100))>>)

sell_limit_lesser_then_required ==
    Script(Lending(Default, 5000, 0),
           <<Pool(One), Deposit("lender", "market", 5000), Cash(5000),
             Refused(SwapWithdrawFrom("agency", "lender", 4500, "usdc", 4500, 4514))>>)

same_denom ==
    Script(Lending(Default, 5000, 0),
           <<Deposit("lender", "market", 5000), Cash(5000),
             SwapWithdrawFrom("agency", "lender", 4500, "market", 4500, 4500), Cash(500)>>)

-----------------------------------------------------------------------------
MarketScripts ==
    <<deposit_works, deposit_wrong_denom_fails, query_transferable_amount,
      cannot_deposit_over_cap, withdraw_works, withdraw_overflow_is_handled,
      cant_withdraw_with_debt_higher_then_credit_line, can_withdraw_up_to_credit_line,
      query_withdrawable_when_only_lending, query_withdrawable_up_to_borrow_limit,
      query_withdrawable_not_enough_liquid, borrow_works, borrow_and_repay,
      cant_borrow_with_debt_higher_then_credit_line, cant_borrow_more_then_credit_line,
      cant_borrow_more_than_borrow_limit, repay_small_amounts, overpay_repay,
      repay_to_no_agency, repay_to_invalid_denom, repay_to_works, query_borrowable,
      query_borrowable_with_limited_liquidity, oracle_price_not_set, zero_credit_line,
      borrower_borrows_tokens, lender_deposits_tokens, deposits_and_borrows_tokens,
      deposits_and_borrows_tokens_market_common_matches_denoms,
      query_credit_line_with_uncharged_interest, query_interest, charge_interest_borrow,
      charge_interest_deposit, query_balance_with_uncharged_interest,
      compounding_interest, compounding_interest_charge_triggered_every_epoch,
      query_last_charged_with_uncharged_interest, after_full_year, after_half_year,
      charged_couple_times, query_reserve_with_uncharged_interest, nothing_on_market,
      nothing_borrowed, half_borrowed, whole_borrowed, with_reserve_factor,
      adjust_collateral_ratio, adjust_reserve_factor, adjust_market_oracle,
      adjust_market_cap, adjusted_interest_rates, adjust_common, migration, sender_not_credit_agency,
      sell_limit_lesser_then_required, same_denom>>
=============================================================================
