------------------------------ MODULE TestBench ------------------------------
(***************************************************************************)
(* The tests of the repository, run on the handlers of this project.  The  *)
(* bench takes one script and executes its statements in their order: a    *)
(* transaction that the script expects to be granted has to be granted,    *)
(* one that it expects to be refused has to be refused, and the answer to  *)
(* a query has to be the one that the test asserts.  A bench that meets a  *)
(* transaction with the other outcome cannot continue.                     *)
(***************************************************************************)
EXTENDS TokenTests, MarketTests, AgencyTests, UtilsTests

CONSTANT Order  \* the tokens in the order of their keys in storage

Scripts == TokenScripts \o MarketScripts \o AgencyScripts \o UtilsScripts

VARIABLES test,        \* the number of the script
          statements,  \* those of the script that are still to be executed
          world        \* the contracts and accounts of the test

vars == <<test, statements, world>>

Init == \E i \in DOMAIN Scripts : /\ test = i
                                 /\ statements = Scripts[i].statements
                                 /\ world = Scripts[i].world

Running == statements # <<>>

s == Head(statements)  \* the next statement

\* The transaction `op` succeeds if `ok`, and leaves the world `after`.
Transaction(op, ok, after) ==
    /\ Running /\ s.op = op
    /\ ok = s.granted
    /\ world' = IF s.granted THEN after ELSE world
    /\ statements' = Tail(statements)
    /\ UNCHANGED test

-----------------------------------------------------------------------------
(***************************************************************************)
(* Transactions of the token's tests.                                      *)
(***************************************************************************)
t == world.token

\* The controller stub is asked before tokens move.
MayMove == s.amount <= world.transferable[s.sender]

TransferTokens ==
    Transaction("transfer",
                MayMove /\ TransferOK(t, s.sender, s.recipient, s.amount),
                [world EXCEPT !.token = transfer_tokens(@, s.sender, s.recipient, s.amount)])

\* The receiver stub counts the valid messages and fails on the others.
SendTokens ==
    Transaction("send",
                MayMove /\ TransferOK(t, s.sender, s.recipient, s.amount) /\ s.valid,
                [world EXCEPT !.token = transfer_tokens(@, s.sender, s.recipient, s.amount),
                              !.counter = @ + 1])

MintTokens ==
    Transaction("mint",
                s.sender = Controller /\ MintOK(t, s.recipient, s.amount),
                [world EXCEPT !.token = mint(@, s.recipient, s.amount)])

MintBaseTokens ==
    Transaction("mint_base",
                /\ s.sender = Controller /\ FromBaseOK(t, s.amount)
                /\ MintOK(t, s.recipient, FromBase(t, s.amount)),
                [world EXCEPT !.token = mint(@, s.recipient, FromBase(@, s.amount))])

BurnTokens ==
    Transaction("burn",
                s.sender = Controller /\ BurnOK(t, s.account, s.amount),
                [world EXCEPT !.token = burn_from(@, s.account, s.amount)])

BurnBaseTokens ==
    Transaction("burn_base",
                /\ s.sender = Controller /\ FromBaseOK(t, s.amount)
                /\ BurnOK(t, s.account, FromBase(t, s.amount)),
                [world EXCEPT !.token = burn_from(@, s.account, FromBase(@, s.amount))])

TransferBaseTokens ==
    Transaction("transfer_base",
                /\ FromBaseOK(t, s.amount)
                /\ TransferOK(t, s.sender, s.recipient, FromBase(t, s.amount)),
                [world EXCEPT !.token = transfer_tokens(@, s.sender, s.recipient,
                                                        FromBase(@, s.amount))])

RebaseTokens ==
    Transaction("rebase",
                s.sender = Controller /\ RebaseOK(t, s.ratio),
                [world EXCEPT !.token = rebase(@, s.ratio)])

\* The message carries `amount` reward tokens.
DistributeRewards ==
    Transaction("distribute",
                s.amount <= world.funds[s.sender] /\ DistributeOK(t, world.held + s.amount),
                [world EXCEPT !.token = distribute(@, world.held + s.amount),
                              !.held = @ + s.amount,
                              !.funds[s.sender] = @ - s.amount])

WithdrawRewards ==
    LET paid == withdrawable_funds(t, s.sender)
    IN  Transaction("withdraw_funds",
                    WithdrawOK(t, s.sender, world.held),
                    [world EXCEPT !.token = withdraw_funds(@, s.sender),
                                  !.held = @ - paid,
                                  !.funds[s.sender] = @ + paid])

SendCw20Rewards ==
    Transaction("cw20_send",
                s.amount <= world.funds[s.sender],
                [world EXCEPT !.held = @ + s.amount, !.funds[s.sender] = @ - s.amount])

TokenStep ==
    \/ TransferTokens \/ SendTokens \/ TransferBaseTokens
    \/ MintTokens \/ MintBaseTokens \/ BurnTokens \/ BurnBaseTokens
    \/ RebaseTokens \/ DistributeRewards \/ WithdrawRewards \/ SendCw20Rewards

-----------------------------------------------------------------------------
(***************************************************************************)
(* Transactions of the platform's tests: the users and the markets.        *)
(***************************************************************************)
p == world.platform
now == world.now

After(platform) == [world EXCEPT !.platform = platform]

\* The sender pays `paid` tokens with the message, less what comes back.
Debited(paid, platform) ==
    [After(platform) EXCEPT !.wallet =
        (<<s.sender, s.denom>> :> InWalletOf(world, s.sender, s.denom) - paid) @@ @]

Funded == s.amount <= InWalletOf(world, s.sender, s.denom)

\* Markets take native coins of their own token only.
OnMarket == s.denom \in listed(p)

DepositTokens ==
    Transaction("deposit",
                Funded /\ MarketDepositOK(p, now, s.sender, s.denom, s.amount),
                Debited(s.amount, market_deposit(p, now, s.sender, s.denom, s.amount)))

WithdrawTokens ==
    Transaction("withdraw",
                /\ CreditOK(world, s.sender)
                /\ MarketWithdrawOK(p, now, s.sender, s.denom, s.amount,
                                    credit_of(world, s.sender)),
                Debited(-s.amount, market_withdraw(p, now, s.sender, s.denom, s.amount)))

BorrowTokens ==
    Transaction("borrow",
                /\ CreditOK(world, s.sender)
                /\ MarketBorrowOK(p, now, s.sender, s.denom, s.amount,
                                  credit_of(world, s.sender)),
                Debited(-s.amount, market_borrow(p, now, s.sender, s.denom, s.amount)))

RepayTokens ==
    Transaction("repay",
                Funded /\ MarketRepayOK(p, now, s.sender, s.denom, s.amount),
                Debited(s.amount - Surplus(charge_interest(p.markets[s.denom], now),
                                          s.sender, s.amount),
                       market_repay(p, now, s.sender, s.denom, s.amount)))

RepayDebtOf ==
    Transaction("repay_to",
                /\ s.sender = "agency" /\ Funded /\ OnMarket
                /\ RepayToOK(p.markets[s.denom], now, s.account, s.amount),
                Debited(s.amount, repaid(p, now, s.account, s.denom, s.amount)))

AdjustMarketCommon ==
    Transaction("adjust_market_common_token",
                s.sender = "agency",
                After([p EXCEPT !.markets[s.denom] = adjust_common_token(@, s.value)]))

\* The market of the tests of SwapWithdrawFrom is that of "market".
SwapWithdraw ==
    Transaction("swap_withdraw_from",
                /\ s.sender = "agency"
                /\ IF s.denom = "market" THEN s.amount <= p.markets["market"].cash
                   ELSE SwapWithdrawOK(p.markets["market"], s.account, s.estimate,
                                       s.sell_limit),
                After(withdrawn(p, s.account, "market", s.sell_limit, s.denom, s.amount,
                                s.estimate)))

MarketStep ==
    \/ DepositTokens \/ WithdrawTokens \/ BorrowTokens \/ RepayTokens \/ RepayDebtOf
    \/ AdjustMarketCommon \/ SwapWithdraw

-----------------------------------------------------------------------------
(***************************************************************************)
(* Transactions of the platform's tests: the credit agency.                *)
(***************************************************************************)
CreateNewMarket ==
    Transaction("create_market",
                CreateMarketOK(p, s.sender, s.denom, s.msg),
                After(create_market(p, now, s.denom, s.msg, "oracle")))

\* Only a market may send it.
Enter ==
    Transaction("enter_market", s.sender \in listed(p),
                After(enter_market(p, s.sender, s.account)))

Exit ==
    Transaction("exit_market", ExitMarketOK(p, now, s.sender, s.denom),
                After(exit_market(p, s.sender, s.denom)))

LiquidateAccount ==
    Transaction("liquidate",
                Funded /\ LiquidateOK(p, now, s.sender, s.account, s.denom, s.amount,
                                      s.collateral),
                Debited(s.amount, liquidate(p, now, s.sender, s.account, s.denom, s.amount,
                                            s.collateral)))

RepayFromCollateral ==
    Transaction("repay_with_collateral",
                RepayWithCollateralOK(p, now, s.sender, s.collateral, s.max_collateral,
                                      s.denom, s.amount, s.estimate),
                After(repay_with_collateral(p, now, s.sender, s.collateral,
                                            s.max_collateral, s.denom, s.amount,
                                            s.estimate)))

AgencyStep ==
    CreateNewMarket \/ Enter \/ Exit \/ LiquidateAccount \/ RepayFromCollateral

-----------------------------------------------------------------------------
(***************************************************************************)
(* Governance, the oracle, the mock and the time.                          *)
(***************************************************************************)
Adjusts(field) ==
    Transaction("adjust_" \o field,
                s.sender = Governance,
                After([p EXCEPT !.markets[s.denom][field] = s.value]))

AdjustRates ==
    Transaction("adjust_interest_rates",
                s.sender = Governance /\ AdjustRatesOK(p.markets[s.denom], now, s.value),
                After([p EXCEPT !.markets[s.denom] =
                         adjust_interest_rates(@, now, s.value)]))

AdjustOracle ==
    Transaction("adjust_price_oracle",
                s.sender = Governance,
                After(adjust_price_oracle(p, s.denom, s.value)))

AdjustCommon ==
    Transaction("adjust_agency_common_token", s.sender = Governance,
                After(adjust_agency_common_token(p, s.value)))

AdjustMarketId ==
    Transaction("adjust_market_id", s.sender = Governance,
                After(adjust_market_id(p, s.value)))

AdjustTokenId ==
    Transaction("adjust_token_id", s.sender = Governance,
                After(adjust_token_id(p, s.value)))

Migrate ==
    Transaction("migrate_market",
                MigrateMarketOK(p, s.sender, s.denom),
                After(migrate_market(p, s.denom, s.token_id)))

\* The pair is created, traded in, and registered.
Register ==
    Transaction("register_pool",
                RegisterPoolOK(p.oracles["oracle"], s.sender),
                After([p EXCEPT !.oracles["oracle"] =
                         [register_pool(@, s.pair, s.pair[1], s.pair[2])
                            EXCEPT !.twaps = (s.pair :> s.price) @@ @]]))

SetCredit ==
    Transaction("set_credit_line", TRUE,
                [world EXCEPT !.lines = (s.sender :> s.credit) @@ @])

AdvanceTime ==
    Transaction("advance", TRUE, [world EXCEPT !.now = @ + s.seconds])

Query == Transaction("ask", AskOK(world, s.query), world)

GovernanceStep ==
    \/ \E field \in {"collateral_ratio", "reserve_factor", "market_cap"} : Adjusts(field)
    \/ AdjustRates \/ AdjustOracle \/ AdjustCommon \/ AdjustMarketId \/ AdjustTokenId \/ Migrate

SetupStep == Register \/ SetCredit \/ AdvanceTime \/ Query

-----------------------------------------------------------------------------
CheckAnswer ==
    /\ Running /\ s.op = "assert"
    /\ statements' = Tail(statements)
    /\ UNCHANGED <<test, world>>

Next ==
    TokenStep \/ MarketStep \/ AgencyStep \/ GovernanceStep \/ SetupStep \/ CheckAnswer

\* The harness executes a test to its end.
Spec == Init /\ [][Next]_vars /\ WF_vars(Next)

-----------------------------------------------------------------------------
Answer(msg) ==
    CASE world.suite = "token" -> TokenQuery(world, msg)
      [] world.suite = "utils" -> UtilsQuery(msg)
      [] world.suite \in {"market", "agency"} -> PlatformQuery(world, Order, msg)

\* The answer to every query of every test is the one that the test asserts.
AssertionsHold ==
    Running /\ s.op = "assert" =>
       IF s.margin = 0 THEN Answer(s.query) = s.answer
       ELSE Answer(s.query) - s.answer \in -s.margin .. s.margin

\* Every test comes to its end: the transactions that it expects to succeed
\* are granted, and those that it expects to fail are refused.
TestsComplete == <>(~Running)
=============================================================================
