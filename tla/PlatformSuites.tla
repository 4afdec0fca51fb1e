--------------------------- MODULE PlatformSuites ---------------------------
(***************************************************************************)
(* The Suite structs of the market's tests and of the credit agency's      *)
(* tests: the worlds that their builders set up and their methods as       *)
(* statements of a script.                                                 *)
(*                                                                         *)
(* A world w holds the platform of AgencyHandlers, the block time, and the *)
(* wallets of the users.  The tests of the market replace the credit       *)
(* agency with a mock that answers the credit lines the test has set.      *)
(* A native and a cw20 token differ in how a message carries them, and the *)
(* models abstract from that: the two versions of a test are one script.   *)
(***************************************************************************)
EXTENDS AgencyHandlers, Scripts

YEAR == SecondsInYear

QUARTER == SecondsInYear \div 4

\* An account has nothing of a token that its wallet does not list.
InWalletOf(w, account, d) ==
    IF <<account, d>> \in DOMAIN w.wallet THEN w.wallet[<<account, d>>] ELSE 0

-----------------------------------------------------------------------------
(***************************************************************************)
(* The builder of the market's tests: one market, of the token "market".   *)
(***************************************************************************)

\* SuiteBuilder::new.  Its charge period of 300 seconds is a quarter here:
\* no time passes in the tests that keep it.
Default ==
    InstantiateMsg(QUARTER, Linear(Percent(3), Percent(20)), 0, Percent(50), {},
                   "common", One)

Rates(base, slope) == Linear(Percent(base), Percent(slope))

MarketSuite(msg, funds, contract_funds) ==
    [suite |-> "market",
     platform |->
        [NewPlatform("common", One, One, 1, 2,
                     "oracle" :> instantiate_oracle("owner", <<>>))
           EXCEPT !.markets = "market" :> receive(instantiate(0, msg), contract_funds),
                  !.code_id = "market" :> 1,
                  !.token_id = "market" :> 2,
                  !.price_oracle = "market" :> "oracle"],
     now |-> 0,
     wallet |-> funds,
     lines |-> <<>>]

-----------------------------------------------------------------------------
(***************************************************************************)
(* The builder of the credit agency's tests, which has no market yet.      *)
(***************************************************************************)
AgencySuite(common_token, borrow_limit_ratio, funds) ==
    [suite |-> "agency",
     platform |-> NewPlatform(common_token, Percent(92), borrow_limit_ratio, 3, 4,
                              "oracle" :> instantiate_oracle("owner", <<>>)),
     now |-> 0,
     wallet |-> funds]

-----------------------------------------------------------------------------
(***************************************************************************)
(* The methods that send messages.                                         *)
(***************************************************************************)
Message(op, sender, denom, amount) ==
    [op |-> op, sender |-> sender, denom |-> denom, amount |-> amount, granted |-> TRUE]

Deposit(sender, d, amount) == Message("deposit", sender, d, amount)

Withdraw(sender, d, amount) == Message("withdraw", sender, d, amount)

Borrow(sender, d, amount) == Message("borrow", sender, d, amount)

Repay(sender, d, amount) == Message("repay", sender, d, amount)

RepayTo(sender, account, d, amount) ==
    [op |-> "repay_to", sender |-> sender, account |-> account, denom |-> d,
     amount |-> amount, granted |-> TRUE]

Liquidate(sender, account, d, amount, collateral_denom) ==
    [op |-> "liquidate", sender |-> sender, account |-> account, denom |-> d,
     amount |-> amount, collateral |-> collateral_denom, granted |-> TRUE]

\* Sent by the market of d.
EnterMarket(d, account) ==
    [op |-> "enter_market", sender |-> d, account |-> account, granted |-> TRUE]

ExitMarket(account, d) ==
    [op |-> "exit_market", sender |-> account, denom |-> d, granted |-> TRUE]

\* `estimate` is what the exchange asks for `amount`.
RepayWithCollateral(sender, c, max_collateral, d, amount, estimate) ==
    [op |-> "repay_with_collateral", sender |-> sender, collateral |-> c,
     max_collateral |-> max_collateral, denom |-> d, amount |-> amount,
     estimate |-> estimate, granted |-> TRUE]

CreateMarket(sender, d, msg) ==
    [op |-> "create_market", sender |-> sender, denom |-> d, msg |-> msg,
     granted |-> TRUE]

MigrateMarket(d, token_id) ==
    [op |-> "migrate_market", sender |-> Governance, denom |-> d, token_id |-> token_id,
     granted |-> TRUE]

\* The sudo_ methods, of the agency and of a market: they send the message
\* from the governance contract.
Adjust(what, value) ==
    [op |-> "adjust_" \o what, sender |-> Governance, value |-> value, granted |-> TRUE]

AdjustMarket(what, d, value) ==
    [op |-> "adjust_" \o what, sender |-> Governance, denom |-> d, value |-> value,
     granted |-> TRUE]

\* AdjustCommonToken of a market, from any sender.
AdjustMarketCommonToken(sender, d, new_token) ==
    [op |-> "adjust_market_common_token", sender |-> sender, denom |-> d,
     value |-> new_token, granted |-> TRUE]

\* SwapWithdrawFrom from any sender; `estimate` is as in RepayWithCollateral.
SwapWithdrawFrom(sender, account, sell_limit, d, amount, estimate) ==
    [op |-> "swap_withdraw_from", sender |-> sender, account |-> account,
     sell_limit |-> sell_limit, denom |-> d, amount |-> amount, estimate |-> estimate,
     granted |-> TRUE]

\* A pair of the exchange with a TWAP of `price`, or without one if that is
\* 0, registered with the oracle.
RegisterPool(sender, first, second, price) ==
    [op |-> "register_pool", sender |-> sender, pair |-> <<first, second>>,
     price |-> price, granted |-> TRUE]

SetPool(first, second, price) == RegisterPool("owner", first, second, price)

Advance(seconds) == [op |-> "advance", seconds |-> seconds, granted |-> TRUE]

\* The mock's answer about an account.
CreditLine(collateral, line, limit, debt) ==
    [collateral |-> collateral, credit_line |-> line, borrow_limit |-> limit,
     debt |-> debt]

SetCreditLine(account, credit) ==
    [op |-> "set_credit_line", sender |-> account, credit |-> credit, granted |-> TRUE]

SetHighCreditLine(account) ==
    SetCreditLine(account, CreditLine(50000, 50000, 50000, 0))

\* A query that may fail.
Ask(query) == [op |-> "ask", query |-> query, granted |-> TRUE]

\* assert_eq of a whole credit line.
CreditLineIs(query, credit, margin) ==
    <<About(Append(query, "collateral"), credit.collateral, margin),
      About(Append(query, "credit_line"), credit.credit_line, margin),
      About(Append(query, "borrow_limit"), credit.borrow_limit, margin),
      About(Append(query, "debt"), credit.debt, margin)>>

-----------------------------------------------------------------------------
(***************************************************************************)
(* The answers to the queries, and the conditions under which they do not  *)
(* fail.  A message is a tuple: its name, the token of the market that is  *)
(* asked, and what it asks about.                                          *)
(***************************************************************************)

\* TotalCreditLine, of the mock or of the credit agency.
CreditOK(w, a) ==
    IF w.suite = "market" THEN a \in DOMAIN w.lines
    ELSE TotalCreditLineOK(w.platform, w.now, a)

credit_of(w, a) ==
    IF w.suite = "market" THEN w.lines[a] ELSE total_credit_line(w.platform, w.now, a)

\* query of the market.
MarketQuery(w, msg) ==
    LET d == msg[2]
        m == w.platform.markets[d]
        a == msg[3]
        price == Price(w.platform, d)
    IN  CASE msg[1] = "configuration" -> m[msg[3]]
          [] msg[1] = "last_charged" -> last_charged(m, w.now)
          [] msg[1] = "debt" -> debt_balance(m, w.now, a)
          [] msg[1] = "collateral" -> collateral_balance(m, w.now, a)
          [] msg[1] = "transferable" -> transferable_amount(m, a, credit_of(w, a), price)
          [] msg[1] = "withdrawable" -> withdrawable(m, a, credit_of(w, a), price)
          [] msg[1] = "borrowable" -> borrowable(m, credit_of(w, a), price)
          [] msg[1] = "interest" -> interest(m)
          [] msg[1] = "utilisation" -> utilisation(m)
          [] msg[1] = "price" -> price
          [] msg[1] = "credit_line" ->
                market_credit_line(w.platform, w.now, d, a)[msg[4]]
          [] msg[1] = "reserve" -> pending_reserve(m, w.now)
          [] msg[1] = "borrower_apy" -> borrower_apy(m)
          [] msg[1] = "lender_apy" -> lender_apy(m)
          [] msg[1] = "total_debt" -> total(m)

\* query of the credit agency.
AgencyQuery(w, order, msg) ==
    LET p == w.platform
    IN  CASE msg[1] = "config" -> p[msg[2]]
          [] msg[1] = "total_credit_line" -> total_credit_line(p, w.now, msg[2])[msg[3]]
          [] msg[1] = "list_markets" -> list_markets(p, order, msg[2], msg[3])
          [] msg[1] = "entered_markets" -> entered_markets(p, order, msg[2], msg[3], msg[4])
          [] msg[1] = "is_on_market" -> is_on_market(p, msg[2], msg[3])
          [] msg[1] = "liquidation" -> liquidation(p, w.now, msg[2])[msg[3]]

\* The balances in base tokens, and what the test knows of the chain.
BalanceQuery(w, msg) ==
    LET m == w.platform.markets[msg[2]]
    IN  CASE msg[1] = "ctokens" -> BaseBalance(m.ctoken, msg[3])
          [] msg[1] = "supply" -> supplied(m)
          [] msg[1] = "cash" -> m.cash
          [] msg[1] = "wallet" -> InWalletOf(w, msg[3], msg[2])
          [] msg[1] = "code_id" -> w.platform.code_id[msg[2]]
          [] msg[1] = "token_id" -> w.platform.token_id[msg[2]]
          [] msg[1] = "price_oracle" -> w.platform.price_oracle[msg[2]]

\* query of the oracle.
OracleQuery(w, msg) ==
    LET o == w.platform.oracles["oracle"]
    IN  CASE msg[1] = "controller" -> o.controller
          [] msg[1] = "pool_address" -> pool_address(o, msg[2], msg[3])
          [] msg[1] = "twap" -> twap(o, msg[2], msg[3])[msg[4]]

MarketQueries == {"configuration", "last_charged", "debt", "collateral", "transferable",
                  "withdrawable", "borrowable", "interest", "utilisation", "price",
                  "credit_line", "reserve", "borrower_apy", "lender_apy", "total_debt"}

AgencyQueries == {"config", "total_credit_line", "list_markets", "entered_markets",
                  "is_on_market", "liquidation"}

OracleQueries == {"controller", "pool_address", "twap"}

PlatformQuery(w, order, msg) ==
    IF msg[1] \in MarketQueries THEN MarketQuery(w, msg)
    ELSE IF msg[1] \in AgencyQueries THEN AgencyQuery(w, order, msg)
    ELSE IF msg[1] \in OracleQueries THEN OracleQuery(w, msg)
    ELSE BalanceQuery(w, msg)

\* The C token that asks what is transferable has to be the market's own.
AskOK(w, msg) ==
    CASE msg[1] = "credit_line" -> MarketLineOK(w.platform, w.now, msg[2], msg[3])
      [] msg[1] = "transferable" -> msg[2] \in listed(w.platform)
      [] msg[1] = "market" -> msg[2] \in listed(w.platform)
      [] msg[1] = "pool_address" ->
            PoolAddressOK(w.platform.oracles["oracle"], msg[2], msg[3])
      [] msg[1] = "twap" -> TwapOK(w.platform.oracles["oracle"], msg[2], msg[3])
=============================================================================
