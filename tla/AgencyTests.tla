----------------------------- MODULE AgencyTests -----------------------------
(***************************************************************************)
(* The tests of the credit agency (isotonic-credit-agency/src/multitest)   *)
(* and of the oracle (wyndex-oracle/src/multitest) as scripts.  Millions   *)
(* are scaled down.                                                        *)
(***************************************************************************)
EXTENDS PlatformSuites

\* create_market_quick without options.
Quick == InstantiateMsg(YEAR, Rates(3, 20), 0, Percent(50), {}, "common", One)

QuickRatio(percentage) == [Quick EXCEPT !.collateral_ratio = Percent(percentage)]

NoInterest == [Quick EXCEPT !.rates = Rates(0, 0)]

Create(d, msg) == CreateMarket(Governance, d, msg)

\* A market and its pool, at the given price in common tokens.
Trading(d, price, msg) == <<SetPool("common", d, price), Create(d, msg)>>

Holds(a, d, amount) == <<a, d>> :> amount

Suite(funds) == AgencySuite("common", One, funds)

\* query_total_credit_line without a borrow limit of its own.
Total(a, collateral, line, debt, margin) ==
    CreditLineIs(<<"total_credit_line", a>>,
                 CreditLine(collateral, line, line, debt), margin)

Entered(a, markets) == Is(<<"entered_markets", a, {}, {}>>, markets)

OnMarketIs(a, d, answer) == Is(<<"is_on_market", a, d>>, answer)

Listed(start_after, limit, markets) == Is(<<"list_markets", start_after, limit>>, markets)

AssertMarket(d) == Ask(<<"market", d>>)

-----------------------------------------------------------------------------
(***************************************************************************)
(* instantiate.rs, restricted.rs                                           *)
(***************************************************************************)
AgencyConfig(field, value) == Is(<<"config", field>>, value)

market_instantiate ==
    Script(Suite(<<>>),
           <<AgencyConfig("isotonic_market_id", 3), AgencyConfig("isotonic_token_id", 4),
             AgencyConfig("common_token", "common"),
             AgencyConfig("liquidation_price", Percent(92)),
             AgencyConfig("borrow_limit_ratio", One)>>)

adjust_ids ==
    Script(Suite(<<>>),
           <<Adjust("market_id", 30), AgencyConfig("isotonic_market_id", 30),
             Adjust("token_id", 30), AgencyConfig("isotonic_token_id", 30)>>)

adjust_common_token_of_markets ==
    Script(Suite(<<>>),
           <<Create("juno", Quick), Create("wynd", Quick),
             Adjust("agency_common_token", "market"),
             AgencyConfig("common_token", "market"),
             Is(<<"configuration", "juno", "common_token">>, "market"),
             Is(<<"configuration", "wynd", "common_token">>, "market")>>)

migrate_works ==
    Script(Suite(<<>>),
           <<Create("juno", Quick), Is(<<"code_id", "juno">>, 3), Is(<<"token_id", "juno">>, 4),
             Adjust("market_id", 5), Is(<<"code_id", "juno">>, 3),
             MigrateMarket("juno", {50}),
             Is(<<"code_id", "juno">>, 5), Is(<<"token_id", "juno">>, 50)>>)

migrate_non_existing_market ==
    Script(Suite(<<>>), <<Refused(MigrateMarket("wynd", {}))>>)

-----------------------------------------------------------------------------
(***************************************************************************)
(* market_create.rs, queries.rs                                            *)
(***************************************************************************)
market_create_multiple ==
    Script(Suite(<<>>),
           <<Create("juno", Quick), Create("wynd", Quick), Create("daodao", Quick),
             AssertMarket("juno"), AssertMarket("wynd"), AssertMarket("daodao")>>)

market_create_unauthorized ==
    Script(Suite(<<>>), <<Refused(CreateMarket("user", "market", Quick))>>)

market_create_already_exists ==
    Script(Suite(<<>>),
           <<Create("juno", Quick), Refused(Create("juno", Quick)),
             Create("wynd", Quick), Refused(Create("wynd", Quick))>>)

collateral_ratio_higher_then_liquidation_price ==
    Script(Suite(<<>>),
           <<Refused(Create("market", QuickRatio(92))),
             Refused(Create("market", QuickRatio(93)))>>)

query_market ==
    Script(Suite(<<>>),
           <<Create("juno", Quick), AssertMarket("juno"),
             Create("wynd", Quick), AssertMarket("wynd")>>)

query_market_does_not_exist ==
    Script(Suite(<<>>), <<Refused(AssertMarket("market"))>>)

list_markets_works ==
    Script(Suite(<<>>),
           <<Create("juno", Quick), Create("atom", Quick), Create("wynd", Quick),
             Listed({}, {}, <<"atom", "juno", "wynd">>)>>)

list_markets_empty_list == Script(Suite(<<>>), <<Listed({}, {}, <<>>)>>)

\* The tokens of generate_denoms.
Token(i) == "token" \o ToString(i + 100)

generate_denoms(first, end) == [i \in 1 .. end - first |-> Token(first + i - 1)]

CreateAll(denoms) == [i \in DOMAIN denoms |-> Create(denoms[i], Quick)]

list_markets_default_pagination ==
    Script(Suite(<<>>),
           CreateAll(generate_denoms(0, 15))
             \o <<Listed({}, {}, generate_denoms(0, 10)),
                  Listed({Token(9)}, {}, generate_denoms(10, 15))>>)

list_markets_custom_pagination ==
    Script(Suite(<<>>),
           CreateAll(generate_denoms(0, 5))
             \o <<Listed({}, {3}, generate_denoms(0, 3)),
                  Listed({Token(2)}, {3}, generate_denoms(3, 5))>>)

-----------------------------------------------------------------------------
(***************************************************************************)
(* market_participation.rs                                                 *)
(***************************************************************************)
enter_market_works ==
    Script(Suite(<<>>),
           <<Create("juno", Quick), OnMarketIs("actor", "juno", FALSE), Entered("actor", <<>>),
             EnterMarket("juno", "actor"),
             OnMarketIs("actor", "juno", TRUE), Entered("actor", <<"juno">>),
             Create("wynd", Quick), OnMarketIs("actor", "wynd", FALSE),
             EnterMarket("wynd", "actor"),
             OnMarketIs("actor", "wynd", TRUE), Entered("actor", <<"juno", "wynd">>)>>)

enter_market_by_deposit ==
    Script(Suite(Holds("actor", "juno", 500) @@ Holds("actor", "wynd", 1000)),
           <<Create("juno", Quick), Deposit("actor", "juno", 500),
             OnMarketIs("actor", "juno", TRUE), Entered("actor", <<"juno">>),
             Create("wynd", Quick), Deposit("actor", "wynd", 500),
             OnMarketIs("actor", "wynd", TRUE), Entered("actor", <<"juno", "wynd">>)>>)

\* Two tokens of each of two actors.
FourTokens ==
    Suite(Holds("actor", "juno", 500) @@ Holds("actor", "wynd", 500)
            @@ Holds("actor2", "osmo", 500) @@ Holds("actor2", "daodao", 500))

FourMarkets ==
    Trading("juno", One, Quick) \o Trading("osmo", One, Quick)
      \o Trading("wynd", One, Quick) \o Trading("daodao", One, Quick)
      \o <<Deposit("actor", "juno", 500), Deposit("actor", "wynd", 500),
           Deposit("actor2", "osmo", 500), Deposit("actor2", "daodao", 500),
           Borrow("actor", "osmo", 200)>>

enter_market_by_borrow ==
    Script(FourTokens,
           FourMarkets
             \o <<OnMarketIs("actor", "osmo", TRUE),
                  Entered("actor", <<"juno", "osmo", "wynd">>),
                  Borrow("actor", "daodao", 200),
                  OnMarketIs("actor", "daodao", TRUE),
                  Entered("actor", <<"daodao", "juno", "osmo", "wynd">>)>>)

exit_market_works ==
    Script(Suite(<<>>),
           <<Create("juno", Quick), EnterMarket("juno", "actor"), ExitMarket("actor", "juno"),
             OnMarketIs("actor", "juno", FALSE), Entered("actor", <<>>),
             Create("wynd", Quick), EnterMarket("wynd", "actor"), ExitMarket("actor", "wynd"),
             OnMarketIs("actor", "wynd", FALSE), Entered("actor", <<>>)>>)

cant_exit_market_not_being_part_of ==
    Script(Suite(<<>>),
           <<Create("juno", Quick), Refused(ExitMarket("actor", "juno")),
             OnMarketIs("actor", "juno", FALSE), Entered("actor", <<>>)>>)

cant_exit_market_with_borrowed_tokens ==
    Script(FourTokens,
           FourMarkets
             \o <<Refused(ExitMarket("actor", "osmo")),
                  Entered("actor", <<"juno", "osmo", "wynd">>),
                  Borrow("actor", "daodao", 200),
                  Refused(ExitMarket("actor", "daodao")),
                  OnMarketIs("actor", "daodao", TRUE),
                  Entered("actor", <<"daodao", "juno", "osmo", "wynd">>)>>)

cant_exit_market_with_not_enough_liquidity ==
    Script(FourTokens,
           Trading("juno", One, Quick) \o Trading("osmo", One, Quick)
             \o Trading("wynd", One, Quick)
             \o <<Deposit("actor", "juno", 500), Deposit("actor2", "osmo", 500),
                  Borrow("actor", "osmo", 200), Refused(ExitMarket("actor", "juno")),
                  Deposit("actor", "wynd", 500),
                  Entered("actor", <<"juno", "osmo", "wynd">>)>>)

exit_market_with_ctokens ==
    Script(Suite(Holds("actor", "juno", 500) @@ Holds("actor2", "osmo", 500)
                   @@ Holds("actor", "atom", 500)),
           Trading("juno", One, Quick) \o Trading("osmo", One, Quick)
             \o Trading("atom", One, Quick)
             \o <<Deposit("actor", "juno", 500), Deposit("actor", "atom", 200),
                  Deposit("actor2", "osmo", 500), Borrow("actor", "osmo", 200),
                  ExitMarket("actor", "atom"), Entered("actor", <<"juno", "osmo">>)>>)

-----------------------------------------------------------------------------
(***************************************************************************)
(* total_credit_line.rs                                                    *)
(***************************************************************************)
lender_on_one_market ==
    Script(Suite(Holds("lender", "market", 1000)),
           Trading("market", Percent(200), Quick)
             \o <<Deposit("lender", "market", 1000)>> \o Total("lender", 2000, 1000, 0, 0))

lender_on_three_markets ==
    Script(Suite(Holds("lender", "juno", 1000) @@ Holds("lender", "osmo", 500)
                   @@ Holds("lender", "wynd", 7)),
           Trading("juno", Percent(200), Quick) \o Trading("osmo", Percent(50), Quick)
             \o Trading("wynd", Percent(100000), Quick)
             \o <<Deposit("lender", "juno", 1000), Deposit("lender", "osmo", 500),
                  Deposit("lender", "wynd", 7)>>
             \o Total("lender", 9250, 4625, 0, 0))

lender_on_two_markets_with_two_borrowers ==
    Script(Suite(Holds("lender", "juno", 100) @@ Holds("lender", "wynd", 500)
                   @@ Holds("borrower", "juno", 3000) @@ Holds("borrower2", "wynd", 2000)),
           Trading("juno", Percent(200), Quick) \o Trading("wynd", Percent(50), Quick)
             \o <<Deposit("lender", "juno", 100), Deposit("lender", "wynd", 500),
                  Deposit("borrower", "juno", 1000), Borrow("borrower", "wynd", 500),
                  Deposit("borrower2", "wynd", 1500), Borrow("borrower2", "juno", 100)>>
             \o Total("lender", 450, 225, 0, 0) \o Total("borrower", 2000, 1000, 250, 0)
             \o Total("borrower2", 750, 375, 200, 0))

two_lenders_with_borrower_on_two_markets ==
    Script(Suite(Holds("lender", "juno", 500) @@ Holds("lender2", "wynd", 300)
                   @@ Holds("borrower", "juno", 3000)),
           Trading("juno", Percent(150), Quick) \o Trading("wynd", Percent(50), Quick)
             \o <<Deposit("lender", "juno", 500), Deposit("lender2", "wynd", 300),
                  Deposit("borrower", "juno", 3000),
                  Borrow("borrower", "juno", 500), Borrow("borrower", "wynd", 300)>>
             \o Total("lender", 750, 375, 0, 0) \o Total("lender2", 150, 75, 0, 0)
             \o Total("borrower", 4500, 2250, 900, 0))

-----------------------------------------------------------------------------
(***************************************************************************)
(* liquidate.rs.  The reward of a liquidation is worth the repaid tokens   *)
(* divided by 0.92.                                                        *)
(***************************************************************************)

\* The debtor borrows as much of its own token as its deposit allows.
OwnLoan(msg) ==
    Trading("juno", One, msg)
      \o <<Deposit("debtor", "juno", 500), Borrow("debtor", "juno", 400)>>

Liquidator(amount) == Holds("liquidator", "juno", amount) @@ Holds("debtor", "juno", 600)

account_doesnt_have_debt_bigger_then_credit_line ==
    Script(Suite(Liquidator(5000)),
           Trading("juno", One, QuickRatio(80)) \o <<Deposit("debtor", "juno", 500)>>
             \o Total("debtor", 500, 400, 0, 0)
             \o <<Borrow("debtor", "juno", 400),
                  Is(<<"total_credit_line", "debtor", "debt">>, 400),
                  Refused(Liquidate("liquidator", "debtor", "juno", 400, "juno"))>>)

liquidating_whole_debt ==
    Script(Suite(Liquidator(5000)),
           OwnLoan(QuickRatio(80))
             \o <<Advance(YEAR), Repay("debtor", "juno", 2)>>
             \o Total("debtor", 576, 460, 474, 1)
             \o <<Liquidate("liquidator", "debtor", "juno", 474, "juno")>>
             \o Total("debtor", 61, 48, 0, 1) \o Total("liquidator", 514, 411, 0, 1))

receive_reward_in_different_denom_fails_if_theres_no_reward_market ==
    Script(Suite(Liquidator(5000)),
           OwnLoan(QuickRatio(80))
             \o <<SetPool("common", "atom", Percent(67)),
                  Advance(YEAR), Repay("debtor", "juno", 2),
                  Refused(Liquidate("liquidator", "debtor", "juno", 474, "atom"))>>)

receive_reward_different_denom_fails_if_debtor_has_not_enough_reward_tokens ==
    Script(Suite(Liquidator(5000) @@ Holds("debtor", "atom", 500)),
           OwnLoan([QuickRatio(80) EXCEPT !.rates = Rates(80, 45)])
             \o Trading("atom", Percent(25), QuickRatio(80))
             \o <<Advance(YEAR), SetPool("common", "atom", Percent(150)),
                  Repay("debtor", "juno", 10), Deposit("debtor", "atom", 50)>>
             \o Total("debtor", 1039, 831, 854, 1)
             \o <<Refused(Liquidate("liquidator", "debtor", "juno", 100, "atom"))>>)

\* The debtor's collateral is atom at 4.0, its debt osmo at 0.1.
OtherLoan == <<Deposit("debtor", "atom", 4000), Borrow("debtor", "osmo", 75000)>>

receive_reward_in_different_denoms_no_interest_rates ==
    Script(Suite(Holds("liquidator", "osmo", 160000) @@ Holds("debtor", "atom", 5000)),
           Trading("atom", Percent(400), Quick) \o Trading("osmo", Percent(10), QuickRatio(60))
             \o <<Deposit("liquidator", "osmo", 100000)>> \o OtherLoan
             \o Total("debtor", 16000, 8000, 7500, 0)
             \o <<SetPool("common", "atom", Percent(300))>>
             \o Total("debtor", 12000, 6000, 7500, 0)
             \o <<Is(<<"liquidation", "debtor", "can_liquidate">>, TRUE),
                  Is(<<"liquidation", "debtor", "collateral">>, "atom" :> 4000),
                  Is(<<"liquidation", "debtor", "debt">>, "osmo" :> 75000),
                  Liquidate("liquidator", "debtor", "osmo", 60000, "atom")>>
             \o Total("debtor", 5481, 2740, 1500, 3)
             \o <<Is(<<"debt", "osmo", "debtor">>, 15000),
                  About(<<"collateral", "atom", "debtor">>, 1827, 1),
                  About(<<"total_credit_line", "liquidator", "collateral">>, 16519, 3),
                  About(<<"collateral", "atom", "liquidator">>, 2173, 1)>>)

SixMonths(percentage) == [QuickRatio(percentage) EXCEPT !.charge_period = YEAR \div 2]

receive_reward_in_different_denoms_with_six_months_interests ==
    Script(Suite(Holds("liquidator", "osmo", 100000) @@ Holds("debtor", "atom", 5000)
                   @@ Holds("actor", "osmo", 100000) @@ Holds("actor", "atom", 10000)),
           Trading("atom", Percent(400), SixMonths(50))
             \o Trading("osmo", Percent(10), SixMonths(60))
             \o <<Deposit("actor", "atom", 10000), Deposit("actor", "osmo", 100000),
                  Borrow("actor", "atom", 2000), Borrow("actor", "osmo", 20000)>>
             \o OtherLoan \o Total("debtor", 16000, 8000, 7500, 0)
             \o <<Advance(YEAR \div 2), SetPool("common", "atom", Percent(300)),
                  Liquidate("liquidator", "debtor", "osmo", 60000, "atom"),
                  Is(<<"debt", "osmo", "debtor">>, 23250),
                  About(<<"collateral", "atom", "debtor">>, 1843, 2),
                  About(<<"collateral", "atom", "liquidator">>, 2172, 1)>>
             \o Total("debtor", 5529, 2764, 2325, 6))

liquidate_with_query_amounts ==
    Script(Suite(Holds("liquidator", "osmo", 100000) @@ Holds("debtor", "atom", 5000)
                   @@ Holds("actor", "osmo", 100000) @@ Holds("actor", "atom", 10000)
                   @@ Holds("actor", "juno", 100000)),
           Trading("osmo", Percent(10), Quick) \o Trading("atom", Percent(1000), Quick)
             \o Trading("juno", One, Quick)
             \o <<Deposit("actor", "atom", 10000), Deposit("actor", "osmo", 100000),
                  Deposit("actor", "juno", 100000), Deposit("debtor", "atom", 1000),
                  Borrow("debtor", "osmo", 25000), Borrow("debtor", "juno", 2500),
                  Is(<<"liquidation", "debtor", "can_liquidate">>, FALSE),
                  Is(<<"liquidation", "debtor", "debt">>, "osmo" :> 25000 @@ "juno" :> 2500),
                  Is(<<"liquidation", "debtor", "collateral">>, "atom" :> 1000),
                  SetPool("common", "atom", Percent(800)),
                  Is(<<"liquidation", "debtor", "can_liquidate">>, TRUE),
                  Liquidate("liquidator", "debtor", "osmo", 25000, "atom"),
                  Is(<<"liquidation", "debtor", "can_liquidate">>, FALSE),
                  Is(<<"liquidation", "debtor", "debt">>, "juno" :> 2500)>>)

-----------------------------------------------------------------------------
(***************************************************************************)
(* repay_with_collateral.rs, in thousands or in hundreds.                  *)
(***************************************************************************)
not_on_market ==
    Script(Suite(<<>>),
           <<Create("juno", NoInterest), Create("osmo", NoInterest),
             Refused(RepayWithCollateral("actor", "juno", 1000, "osmo", 1000, 1000)),
             EnterMarket("juno", "actor"),
             Refused(RepayWithCollateral("actor", "juno", 1000, "osmo", 1000, 1000))>>)

\* Two markets, of which the actor's collateral is juno and its debt atom.
TwoDeposits(amount) ==
    Suite(Holds("lender", "juno", 10 * amount) @@ Holds("lender2", "atom", 10 * amount)
            @@ Holds("actor", "juno", 5 * amount))

TwoMarkets(amount, price) ==
    Trading("juno", price, NoInterest) \o Trading("atom", Percent(50), NoInterest)
      \o <<Deposit("lender", "juno", 10 * amount), Deposit("lender2", "atom", 10 * amount),
           Deposit("actor", "juno", amount), Borrow("actor", "atom", amount)>>

simulated_debt_bigger_then_credit_line ==
    Script(TwoDeposits(1000),
           TwoMarkets(1000, One)
             \o <<Refused(RepayWithCollateral("actor", "juno", 1000, "atom", 800, 450))>>)

\* The exchange asks 3267 juno for 10000 atom.
on_two_markets ==
    Script(TwoDeposits(10000),
           TwoMarkets(10000, Percent(200))
             \o <<Is(<<"cash", "atom">>, 90000)>> \o Total("actor", 20000, 10000, 5000, 0)
             \o <<RepayWithCollateral("actor", "juno", 10000, "atom", 10000, 3267),
                  Is(<<"cash", "atom">>, 100000)>>
             \o Total("actor", 13466, 6733, 0, 1))

borrow_limit ==
    Script(AgencySuite("common", Percent(90),
                       Holds("liquidator", "juno", 10000) @@ Holds("lender", "juno", 10000)),
           Trading("juno", One, [NoInterest EXCEPT !.collateral_ratio = Percent(80)])
             \o <<Deposit("lender", "juno", 10000), Refused(Borrow("lender", "juno", 8000)),
                  Borrow("lender", "juno", 7000), Borrow("lender", "juno", 200),
                  Refused(Borrow("lender", "juno", 100)), Refused(Withdraw("lender", "juno", 1)),
                  Refused(Liquidate("liquidator", "lender", "juno", 100, "juno"))>>)

-----------------------------------------------------------------------------
(***************************************************************************)
(* oracle.rs                                                               *)
(***************************************************************************)
PoolAddressIs(denom1, denom2, pair) == Is(<<"pool_address", denom1, denom2>>, pair)

unauthorized_register_pool ==
    Script(Suite(<<>>), <<Refused(RegisterPool("user", "juno", "atom", 0))>>)

query_unregistered_pool ==
    Script(Suite(<<>>), <<Refused(Ask(<<"pool_address", "juno", "atom">>))>>)

register_pool_works ==
    Script(Suite(<<>>),
           <<SetPool("juno", "atom", 0),
             PoolAddressIs("juno", "atom", <<"juno", "atom">>),
             PoolAddressIs("atom", "juno", <<"juno", "atom">>)>>)

query_price_empty_pool ==
    Script(Suite(<<>>),
           <<SetPool("juno", "atom", 0), Refused(Ask(<<"twap", "juno", "atom">>))>>)

query_twap_price ==
    Script(Suite(<<>>),
           <<SetPool("juno", "atom", Percent(300)), Ask(<<"twap", "juno", "atom">>),
             Is(<<"twap", "juno", "atom", "a">>, "juno"),
             Is(<<"twap", "juno", "atom", "b">>, "atom"),
             Is(<<"twap", "juno", "atom", "a_per_b">>, Percent(300)),
             Is(<<"twap", "juno", "atom", "b_per_a">>, One \div 3)>>)

-----------------------------------------------------------------------------
AgencyScripts ==
    <<market_instantiate, adjust_ids, adjust_common_token_of_markets, migrate_works,
      migrate_non_existing_market, market_create_multiple, market_create_unauthorized,
      market_create_already_exists, collateral_ratio_higher_then_liquidation_price,
      query_market, query_market_does_not_exist, list_markets_works,
      list_markets_empty_list, list_markets_default_pagination,
      list_markets_custom_pagination, enter_market_works, enter_market_by_deposit,
      enter_market_by_borrow, exit_market_works, cant_exit_market_not_being_part_of,
      cant_exit_market_with_borrowed_tokens, cant_exit_market_with_not_enough_liquidity,
      exit_market_with_ctokens, lender_on_one_market, lender_on_three_markets,
      lender_on_two_markets_with_two_borrowers, two_lenders_with_borrower_on_two_markets,
      account_doesnt_have_debt_bigger_then_credit_line, liquidating_whole_debt,
      receive_reward_in_different_denom_fails_if_theres_no_reward_market,
      receive_reward_different_denom_fails_if_debtor_has_not_enough_reward_tokens,
      receive_reward_in_different_denoms_no_interest_rates,
      receive_reward_in_different_denoms_with_six_months_interests,
      liquidate_with_query_amounts, not_on_market, simulated_debt_bigger_then_credit_line,
      on_two_markets, borrow_limit, unauthorized_register_pool, query_unregistered_pool,
      register_pool_works, query_price_empty_pool, query_twap_price>>
=============================================================================
