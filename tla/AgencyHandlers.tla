--------------------------- MODULE AgencyHandlers ---------------------------
(***************************************************************************)
(* The message handlers and queries of the credit agency, and those of the *)
(* markets that call it, as operators on the storage of the platform p:    *)
(* the agency's Config and maps, its markets with their C tokens, and the  *)
(* oracles that price them.  A market is named by its token; the markets   *)
(* that are Ready are the domain of p.markets.                             *)
(*                                                                         *)
(* A transaction is one step.  The contracts call each other in it: a      *)
(* market asks the credit agency for an account's total credit line, which *)
(* asks every market that the account has entered; the credit agency sends *)
(* RepayTo and TransferFrom or SwapWithdrawFrom to two markets, and what   *)
(* the first leaves is what the second finds.  If any of it fails the      *)
(* whole transaction is reverted, so that its condition is all of theirs.  *)
(***************************************************************************)
EXTENDS MarketHandlers, WyndexOracle, SequencesExt

\* instantiate of the credit agency, beside the oracles that exist.
NewPlatform(common_token, price, limit_ratio, market_id, token_id, oracles) ==
    [common_token |-> common_token,
     liquidation_price |-> price,
     borrow_limit_ratio |-> limit_ratio,
     isotonic_market_id |-> market_id,
     isotonic_token_id |-> token_id,
     markets |-> <<>>,
     code_id |-> <<>>,       \* the code that each market runs
     token_id |-> <<>>,      \* token_id of each market's Config
     price_oracle |-> <<>>,  \* price_oracle of each market's Config
     entered |-> [a \in Accounts |-> {}],
     oracles |-> oracles]

\* query::market: the tokens whose market is ready.
listed(p) == DOMAIN p.markets

-----------------------------------------------------------------------------
(***************************************************************************)
(* Prices and credit.                                                      *)
(***************************************************************************)

\* The market of the common token answers 1 without asking its oracle.
IsCommon(p, d) == d = p.markets[d].common_token

oracle_of(p, d) == p.oracles[p.price_oracle[d]]

PriceOK(p, d) ==
    \/ IsCommon(p, d)
    \/ /\ p.price_oracle[d] \in DOMAIN p.oracles
       /\ TwapOK(oracle_of(p, d), d, p.markets[d].common_token)

price_market_local_per_common(p, d) ==
    IF IsCommon(p, d)
    THEN One
    ELSE twap(oracle_of(p, d), d, p.markets[d].common_token).a_per_b

Price(p, d) == price_market_local_per_common(p, d)

zero == [collateral |-> 0, credit_line |-> 0, borrow_limit |-> 0, debt |-> 0]

\* Interest that is not charged yet makes no balance zero, or nonzero.
HasBalance(p, d, a) ==
    BaseBalance(p.markets[d].ctoken, a) # 0 \/ debt_of(p.markets[d], a) # 0

\* A market in which the account has nothing needs no price.
MarketLineOK(p, now, d, a) ==
    /\ QueryOK(p.markets[d], now)
    /\ HasBalance(p, d, a) => PriceOK(p, d)

market_credit_line(p, now, d, a) ==
    IF HasBalance(p, d, a)
    THEN credit_line(p.markets[d], now, a, Price(p, d))
    ELSE zero

\* Each market answers, in the agency's common token.
CreditLineOK(p, now, ds, a) ==
    \A d \in ds : /\ MarketLineOK(p, now, d, a)
                  /\ p.markets[d].common_token = p.common_token

Plus(l1, l2) == [collateral |-> l1.collateral + l2.collateral,
                 credit_line |-> l1.credit_line + l2.credit_line,
                 borrow_limit |-> l1.borrow_limit + l2.borrow_limit,
                 debt |-> l1.debt + l2.debt]

\* The sum of an account's credit lines over the given markets.
CreditLineOver(p, now, ds, a) ==
    MapThenFoldSet(Plus, zero, LAMBDA d : market_credit_line(p, now, d, a),
                   LAMBDA rest : CHOOSE d \in rest : TRUE, ds)

TotalCreditLineOK(p, now, a) == CreditLineOK(p, now, p.entered[a], a)

total_credit_line(p, now, a) == CreditLineOver(p, now, p.entered[a], a)

-----------------------------------------------------------------------------
(***************************************************************************)
(* Messages to the markets and to the C tokens.  `credit` is the answer of *)
(* the credit agency about the sender.                                     *)
(***************************************************************************)
enter_market(p, d, a) == [p EXCEPT !.entered[a] = @ \cup {d}]

market_deposit(p, now, a, d, amount) ==
    enter_market([p EXCEPT !.markets[d] = deposit(@, now, a, amount)], d, a)

MarketDepositOK(p, now, a, d, amount) ==
    d \in listed(p) /\ DepositOK(p.markets[d], now, a, amount)

market_withdraw(p, now, a, d, amount) ==
    [p EXCEPT !.markets[d] = withdraw(@, now, a, amount)]

MarketWithdrawOK(p, now, a, d, amount, credit) ==
    /\ d \in listed(p) /\ PriceOK(p, d)
    /\ CanTransfer(p.markets[d], a, credit, Price(p, d), amount)
    /\ WithdrawBaseOK(p.markets[d], now, a, amount)

market_borrow(p, now, a, d, amount) ==
    enter_market([p EXCEPT !.markets[d] = borrow(@, now, a, amount)], d, a)

MarketBorrowOK(p, now, a, d, amount, credit) ==
    /\ d \in listed(p) /\ PriceOK(p, d)
    /\ CanBorrow(credit, Price(p, d), amount)
    /\ BorrowOK(p.markets[d], now, a, amount)

market_repay(p, now, a, d, amount) ==
    [p EXCEPT !.markets[d] = repay(@, now, a, amount)]

MarketRepayOK(p, now, a, d, amount) ==
    d \in listed(p) /\ RepayOK(p.markets[d], now, a, amount)

\* The C token asks its market how much the sender may transfer.  The
\* recipient does not enter the market.
ctoken_transfer(p, a, b, d, amount) ==
    [p EXCEPT !.markets[d].ctoken = transfer_tokens(@, a, b, amount)]

CTokenTransferOK(p, a, b, d, amount, credit) ==
    /\ d \in listed(p) /\ PriceOK(p, d)
    /\ CanTransfer(p.markets[d], a, credit, Price(p, d), amount)
    /\ TransferOK(p.markets[d].ctoken, a, b, amount)

-----------------------------------------------------------------------------
(***************************************************************************)
(* Messages to the credit agency.                                          *)
(***************************************************************************)

\* The agency gives its own common token and borrow limit to a new market.
market_msg(p, market_cfg) ==
    [market_cfg EXCEPT !.common_token = p.common_token,
                       !.borrow_limit_ratio = p.borrow_limit_ratio]

\* With the reply that makes the market ready.
create_market(p, now, d, market_cfg, oracle) ==
    [p EXCEPT !.markets = Saved(@, d, instantiate(now, market_msg(p, market_cfg))),
              !.code_id = Saved(@, d, p.isotonic_market_id),
              !.token_id = Saved(@, d, p.isotonic_token_id),
              !.price_oracle = Saved(@, d, oracle)]

\* Mutant: a collateral ratio as high as the liquidation price is accepted.
RatioUpToPrice(p, sender, d, market_cfg) ==
    /\ sender = Governance
    /\ market_cfg.collateral_ratio <= p.liquidation_price
    /\ d \notin listed(p)
    /\ InstantiateOK(market_cfg)

CreateMarketOK(p, sender, d, market_cfg) ==
    /\ sender = Governance
    /\ market_cfg.collateral_ratio < p.liquidation_price
    /\ d \notin listed(p)
    /\ InstantiateOK(market_cfg)

repaid(p, now, account, d, amount) ==
    [p EXCEPT !.markets[d] = repay_to(@, now, account, amount)]

\* `sender` pays `amount` of the token d for the account and takes its C
\* tokens in the market of c.
liquidate(p, now, sender, account, d, amount, c) ==
    LET value == MulInt(amount, Price(p, d))
    IN  enter_market([repaid(p, now, account, d, amount) EXCEPT !.markets[c] =
                        transfer_from(@, now, account, sender, value, Price(p, c),
                                      p.liquidation_price)],
                     c, sender)

LiquidateOK(p, now, sender, account, d, amount, c) ==
    LET credit == total_credit_line(p, now, account)
    IN  /\ TotalCreditLineOK(p, now, account)
        /\ credit.debt > credit.credit_line
        /\ {c, d} \subseteq listed(p) /\ PriceOK(p, c) /\ PriceOK(p, d)
        /\ RepayToOK(p.markets[d], now, account, amount)
        /\ TransferFromOK(repaid(p, now, account, d, amount).markets[c], now,
                          account, sender, MulInt(amount, Price(p, d)), Price(p, c),
                          p.liquidation_price)

exit_market(p, a, d) == [p EXCEPT !.entered[a] = @ \ {d}]

\* Mutant: the debt in the market that is left is not looked at.
ExitWithDebtOK(p, now, a, d) ==
    LET rest == p.entered[a] \ {d}
        reduced == CreditLineOver(p, now, rest, a)
    IN  /\ d \in p.entered[a]
        /\ CreditLineOK(p, now, rest, a)
        /\ reduced.credit_line >= reduced.debt

ExitMarketOK(p, now, a, d) ==
    LET rest == p.entered[a] \ {d}
        reduced == CreditLineOver(p, now, rest, a)
    IN  /\ d \in p.entered[a]
        /\ MarketLineOK(p, now, d, a)
        /\ market_credit_line(p, now, d, a).debt = 0
        /\ CreditLineOK(p, now, rest, a)
        /\ reduced.credit_line >= reduced.debt

\* What max_collateral is worth in common tokens.  The name stands for this
\* value when the message to the collateral market is built, and the limit of
\* what may be sold is taken from it.
SellLimit(p, c, max_collateral) == MulInt(max_collateral, Price(p, c))

\* The collateral market of c hands over `amount` of the token d, for at most
\* `limit` of its own.
withdrawn(p, a, c, limit, d, amount, estimate) ==
    [p EXCEPT !.markets[c] =
        IF c = d THEN withdraw_same_token(@, amount)
        ELSE swap_withdraw_from(@, a, estimate, limit)]

\* The debt market of d takes it.  `estimate` is what the oracle says that
\* the swap will cost.
repay_with_collateral(p, now, a, c, max_collateral, d, amount, estimate) ==
    repaid(withdrawn(p, a, c, SellLimit(p, c, max_collateral), d, amount, estimate),
           now, a, d, amount)

\* Mutant: the collateral is counted at a price of one.
SimulatedUnpriced(p, now, a, c, max_collateral, d, amount) ==
    LET credit == total_credit_line(p, now, a)
        collateral == MulInt(max_collateral, p.markets[c].collateral_ratio)
        value == MulInt(amount, Price(p, d))
    IN  /\ collateral <= credit.credit_line
        /\ value <= credit.debt
        /\ credit.debt - value <= credit.credit_line - collateral

\* The credit line and the debt that the agency expects to be left.
RepaySimulated(p, now, a, c, max_collateral, d, amount) ==
    LET credit == total_credit_line(p, now, a)
        collateral == MulInt(SellLimit(p, c, max_collateral),
                             p.markets[c].collateral_ratio)
        value == MulInt(amount, Price(p, d))
    IN  /\ collateral <= credit.credit_line
        /\ value <= credit.debt
        /\ credit.debt - value <= credit.credit_line - collateral

RepayWithCollateralOK(p, now, a, c, max_collateral, d, amount, estimate) ==
    LET limit == SellLimit(p, c, max_collateral)
    IN  /\ {c, d} \subseteq listed(p) /\ {c, d} \subseteq p.entered[a]
        /\ TotalCreditLineOK(p, now, a) /\ PriceOK(p, c) /\ PriceOK(p, d)
        /\ Fits(limit) /\ RepaySimulated(p, now, a, c, max_collateral, d, amount)
        /\ IF c = d THEN amount <= p.markets[c].cash
                    ELSE SwapWithdrawOK(p.markets[c], a, estimate, limit)
        /\ RepayToOK(withdrawn(p, a, c, limit, d, amount, estimate).markets[d],
                     now, a, amount)

-----------------------------------------------------------------------------
(***************************************************************************)
(* Governance.                                                             *)
(***************************************************************************)

\* Mutant: the markets are not told.
AdjustAgencyOnly(p, new_common_token) == [p EXCEPT !.common_token = new_common_token]

\* The new common token goes to every market that is ready.
adjust_agency_common_token(p, new_common_token) ==
    [p EXCEPT !.common_token = new_common_token,
              !.markets = [d \in listed(p) |->
                             adjust_common_token(p.markets[d], new_common_token)]]

adjust_market_id(p, new_market_id) == [p EXCEPT !.isotonic_market_id = new_market_id]

adjust_token_id(p, new_token_id) == [p EXCEPT !.isotonic_token_id = new_token_id]

\* MigrateMarket runs the agency's market code from now on, and migrate of
\* the market saves the token_id of the message if it has one.
migrate_market(p, d, msg_token_id) ==
    [p EXCEPT !.code_id[d] = p.isotonic_market_id,
              !.token_id[d] = IF msg_token_id = {} THEN @
                              ELSE CHOOSE id \in msg_token_id : TRUE]

MigrateMarketOK(p, sender, d) == sender = Governance /\ d \in listed(p)

adjust_price_oracle(p, d, new_oracle) == [p EXCEPT !.price_oracle[d] = new_oracle]

-----------------------------------------------------------------------------
(***************************************************************************)
(* The queries of the credit agency.                                       *)
(***************************************************************************)

\* Who may be liquidated, and the tokens at stake in each of its markets.
liquidation(p, now, a) ==
    LET credit == total_credit_line(p, now, a)
        Nonzero(balance(_, _, _)) ==
            LET ds == {d \in p.entered[a] : balance(p.markets[d], now, a) # 0}
            IN  [d \in ds |-> balance(p.markets[d], now, a)]
    IN  [can_liquidate |-> credit.debt > credit.credit_line,
         debt |-> Nonzero(debt_balance),
         collateral |-> Nonzero(collateral_balance)]

is_on_market(p, a, d) == d \in p.entered[a]

\* The members of a set, in the order of the storage.
Sorted(order, set) == SelectSeq(order, LAMBDA d : d \in set)

AtMost(sequence, limit) ==
    SubSeq(sequence, 1, IF limit < Len(sequence) THEN limit ELSE Len(sequence))

DEFAULT_LIMIT == 10

MAX_LIMIT == 30

\* Mutant: the next page begins with the last key of this one.
InclusiveCursor(p, order, start_after, limit) ==
    LET from(i) == \A start \in start_after : \E j \in 1 .. i : order[j] = start
        keys == {order[i] : i \in {i \in DOMAIN order : from(i)}}
    IN  AtMost(Sorted(order, listed(p) \cap keys),
               Least({MAX_LIMIT} \cup IF limit = {} THEN {DEFAULT_LIMIT} ELSE limit))

\* The ready markets whose key comes after start_after.  start_after and
\* limit are Options: sets of at most one value.
list_markets(p, order, start_after, limit) ==
    LET after(i) == \A start \in start_after : \E j \in 1 .. i - 1 : order[j] = start
        keys == {order[i] : i \in {i \in DOMAIN order : after(i)}}
    IN  AtMost(Sorted(order, listed(p) \cap keys),
               Least({MAX_LIMIT} \cup IF limit = {} THEN {DEFAULT_LIMIT} ELSE limit))

\* The markets of an account that follow start_after.  The cursor itself is
\* looked for: if the account has left that market, nothing follows.
entered_markets(p, order, a, start_after, limit) ==
    LET markets == Sorted(order, p.entered[a])
        after(i) == \A start \in start_after : \E j \in 1 .. i - 1 : markets[j] = start
        rest == Sorted(markets, {markets[i] : i \in {i \in DOMAIN markets : after(i)}})
    IN  AtMost(rest, Least({Len(rest)} \cup limit))
=============================================================================
