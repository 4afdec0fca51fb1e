--------------------------- MODULE PlatformProofs ---------------------------
(***************************************************************************)
(* Theorems about the whole platform: what every market keeps of its own   *)
(* storage it keeps among the others, and the credit agency's maps agree   *)
(* with the markets, through every transaction that runs in several        *)
(* contracts, for every set of tokens, accounts, prices and amounts.       *)
(***************************************************************************)
EXTENDS WyndLend, MarketLemmas

\* Maps of which some of the keys are saved.
Partial(keys, values) == UNION {[saved -> values] : saved \in SUBSET keys}

OracleState == [controller : {Governance},
                pools : Partial({PoolKey(pair[1], pair[2]) : pair \in Pairs}, Pairs),
                twaps : [Pairs -> Prices]]

PlatformState == [common_token : CommonTokens,
                  liquidation_price : {LiquidationPrice},
                  borrow_limit_ratio : {BorrowLimitRatio},
                  isotonic_market_id : {1},
                  isotonic_token_id : {1},
                  markets : Partial(Denoms, MarketState),
                  code_id : Partial(Denoms, {1}),
                  token_id : Partial(Denoms, {1}),
                  price_oracle : Partial(Denoms, {Oracle}),
                  entered : [Accounts -> SUBSET Denoms],
                  oracles : [{Oracle} -> OracleState]]

\* The storage of the contracts at the time t: each has its type, every market
\* is sound and has the agency's common token, what the agency keeps of the
\* markets it keeps of all of them, and accounts are in markets that exist.
PlatformSound(p, t) ==
    /\ p \in PlatformState
    /\ \A d \in listed(p) : Sound(Configs({p.common_token}), p.markets[d], t)
    /\ DOMAIN p.code_id = listed(p) /\ DOMAIN p.token_id = listed(p)
    /\ DOMAIN p.price_oracle = listed(p)
    /\ \A a \in Accounts : p.entered[a] \subseteq listed(p)

-----------------------------------------------------------------------------
(***************************************************************************)
(* Maps and configurations.                                                *)
(***************************************************************************)
\* A map with one more key is a map.
LEMMA SavedType ==
  ASSUME NEW keys, NEW values, NEW map \in Partial(keys, values), NEW key \in keys,
         NEW value \in values
  PROVE  /\ Saved(map, key, value) \in Partial(keys, values)
         /\ DOMAIN Saved(map, key, value) = {key} \cup DOMAIN map
         /\ Saved(map, key, value)[key] = value
         /\ \A k \in DOMAIN map \ {key} : Saved(map, key, value)[k] = map[k]
<1> DEFINE saved == {key} \cup DOMAIN map
           new == [k \in saved |-> IF k = key THEN value ELSE map[k]]
<1>1. PICK old \in SUBSET keys : map \in [old -> values]
  BY DEF Partial
<1>2. saved \in SUBSET keys /\ DOMAIN map = old  BY <1>1
<1>3. new \in [saved -> values]  BY <1>1, <1>2
<1>4. new \in Partial(keys, values)  BY <1>2, <1>3 DEF Partial
<1> QED BY <1>4 DEF Saved

\* A map with another value for a key that it has is a map with the same keys.
LEMMA UpdatedType ==
  ASSUME NEW keys, NEW values, NEW map \in Partial(keys, values), NEW key \in DOMAIN map,
         NEW value \in values
  PROVE  /\ [map EXCEPT ![key] = value] \in Partial(keys, values)
         /\ DOMAIN [map EXCEPT ![key] = value] = DOMAIN map
         /\ [map EXCEPT ![key] = value][key] = value
         /\ \A k \in DOMAIN map \ {key} : [map EXCEPT ![key] = value][k] = map[k]
<1>1. PICK old \in SUBSET keys : map \in [old -> values]
  BY DEF Partial
<1>2. [map EXCEPT ![key] = value] \in [old -> values]  BY <1>1
<1>3. [map EXCEPT ![key] = value] \in Partial(keys, values)  BY <1>2 DEF Partial
<1> QED BY <1>1, <1>3

\* A market that is sound in the agency's common token has the type of markets.
LEMMA MarketStateOfSound ==
  ASSUME NEW c \in CommonTokens, NEW m, NEW t, Sound(Configs({c}), m, t)
  PROVE  m \in MarketState
BY DEF Sound, StoredMarket, MarketState, Configs, InstantiateMsg

-----------------------------------------------------------------------------
(***************************************************************************)
(* The changes that transactions consist of.                               *)
(***************************************************************************)
\* A market that the platform lists is sound.
LEMMA ListedSound ==
  ASSUME NEW p, NEW t, PlatformSound(p, t), NEW d \in listed(p)
  PROVE  Sound(Configs({p.common_token}), p.markets[d], t)
BY DEF PlatformSound

\* Another sound storage of one market keeps the platform sound.
LEMMA MarketStepSound ==
  ASSUME NEW p, NEW t, PlatformSound(p, t), NEW d \in listed(p), NEW m,
         Sound(Configs({p.common_token}), m, t)
  PROVE  /\ PlatformSound([p EXCEPT !.markets[d] = m], t)
         /\ listed([p EXCEPT !.markets[d] = m]) = listed(p)
         /\ [p EXCEPT !.markets[d] = m].common_token = p.common_token
<1> DEFINE new == [p.markets EXCEPT ![d] = m]
           q == [p EXCEPT !.markets = new]
<1>1. p \in PlatformState /\ p.common_token \in CommonTokens
  BY DEF PlatformSound, PlatformState
<1>2. p.markets \in Partial(Denoms, MarketState) /\ d \in DOMAIN p.markets
  BY <1>1 DEF PlatformState, listed
<1>3. m \in MarketState  BY <1>1, MarketStateOfSound
<1>4. /\ new \in Partial(Denoms, MarketState) /\ DOMAIN new = DOMAIN p.markets
      /\ new[d] = m /\ \A k \in DOMAIN p.markets \ {d} : new[k] = p.markets[k]
  BY <1>2, <1>3, UpdatedType
<1>5. [p EXCEPT !.markets[d] = m] = q  BY <1>1 DEF PlatformState
<1> HIDE DEF new
<1>6. /\ q \in PlatformState /\ q.markets = new /\ q.common_token = p.common_token
      /\ q.code_id = p.code_id /\ q.token_id = p.token_id
      /\ q.price_oracle = p.price_oracle /\ q.entered = p.entered
  BY <1>1, <1>4 DEF PlatformState
<1> HIDE DEF q
<1>7. listed(q) = listed(p)  BY <1>4, <1>6 DEF listed
<1>8. \A k \in listed(q) : Sound(Configs({q.common_token}), q.markets[k], t)
  BY <1>4, <1>6, <1>7 DEF PlatformSound, listed
<1> QED BY <1>5, <1>6, <1>7, <1>8 DEF PlatformSound

\* Other sets of markets that an account is in keep the platform sound.
LEMMA EnteredSound ==
  ASSUME NEW p, NEW t, PlatformSound(p, t), NEW a \in Accounts, NEW ds,
         ds \subseteq listed(p)
  PROVE  PlatformSound([p EXCEPT !.entered[a] = ds], t)
<1> DEFINE new == [p.entered EXCEPT ![a] = ds]
           q == [p EXCEPT !.entered = new]
<1>1. p \in PlatformState  BY DEF PlatformSound
<1>2. p.entered \in [Accounts -> SUBSET Denoms] /\ listed(p) \subseteq Denoms
  BY <1>1 DEF PlatformState, Partial, listed
<1>3. new \in [Accounts -> SUBSET Denoms] /\ \A b \in Accounts : new[b] \subseteq listed(p)
  BY <1>2 DEF PlatformSound
<1>4. [p EXCEPT !.entered[a] = ds] = q  BY <1>1 DEF PlatformState
<1> HIDE DEF new
<1>5. /\ q \in PlatformState /\ q.markets = p.markets /\ q.common_token = p.common_token
      /\ q.code_id = p.code_id /\ q.token_id = p.token_id
      /\ q.price_oracle = p.price_oracle /\ q.entered = new
  BY <1>1, <1>3 DEF PlatformState
<1> HIDE DEF q
<1>6. listed(q) = listed(p)  BY <1>5 DEF listed
<1> QED BY <1>3, <1>4, <1>5, <1>6 DEF PlatformSound

\* Entering a market keeps the platform sound.
LEMMA EnterMarketSound ==
  ASSUME NEW p, NEW t, PlatformSound(p, t), NEW a \in Accounts, NEW d \in listed(p)
  PROVE  PlatformSound(enter_market(p, d, a), t)
<1>1. p \in PlatformState /\ p.entered[a] \cup {d} \subseteq listed(p)
  BY DEF PlatformSound
<1>2. enter_market(p, d, a) = [p EXCEPT !.entered[a] = p.entered[a] \cup {d}]
  BY <1>1 DEF enter_market, PlatformState
<1> QED BY <1>1, <1>2, EnteredSound

-----------------------------------------------------------------------------
(***************************************************************************)
(* The transactions, each for any sender and any answers of the queries.   *)
(***************************************************************************)
\* A deposit keeps the platform sound.
LEMMA MarketDepositSound ==
  ASSUME NEW p, NEW t \in Nat, PlatformSound(p, t), NEW a \in Accounts, NEW d,
         NEW amount \in Nat, MarketDepositOK(p, t, a, d, amount)
  PROVE  PlatformSound(market_deposit(p, t, a, d, amount), t)
<1> DEFINE m == deposit(p.markets[d], t, a, amount)
           q == [p EXCEPT !.markets[d] = m]
<1>1. d \in listed(p) /\ DepositOK(p.markets[d], t, a, amount)
  BY DEF MarketDepositOK
<1>2. Sound(Configs({p.common_token}), m, t)
  BY <1>1, ListedSound, DepositSound
<1>3. market_deposit(p, t, a, d, amount) = enter_market(q, d, a)
  BY DEF market_deposit
<1> HIDE DEF m
<1>4. PlatformSound(q, t) /\ d \in listed(q)
  BY <1>1, <1>2, MarketStepSound
<1> HIDE DEF q
<1> QED BY <1>3, <1>4, EnterMarketSound

\* A withdrawal keeps the platform sound.
LEMMA MarketWithdrawSound ==
  ASSUME NEW p, NEW t \in Nat, PlatformSound(p, t), NEW a \in Accounts, NEW d,
         NEW amount \in Nat, NEW credit, MarketWithdrawOK(p, t, a, d, amount, credit)
  PROVE  PlatformSound(market_withdraw(p, t, a, d, amount), t)
<1>1. d \in listed(p) /\ WithdrawBaseOK(p.markets[d], t, a, amount)
  BY DEF MarketWithdrawOK
<1>2. Sound(Configs({p.common_token}), withdraw(p.markets[d], t, a, amount), t)
  BY <1>1, ListedSound, WithdrawSound
<1> QED BY <1>1, <1>2, MarketStepSound DEF market_withdraw

\* A loan keeps the platform sound.
LEMMA MarketBorrowSound ==
  ASSUME NEW p, NEW t \in Nat, PlatformSound(p, t), NEW a \in Accounts, NEW d,
         NEW amount \in Nat, NEW credit, MarketBorrowOK(p, t, a, d, amount, credit)
  PROVE  PlatformSound(market_borrow(p, t, a, d, amount), t)
<1> DEFINE m == borrow(p.markets[d], t, a, amount)
           q == [p EXCEPT !.markets[d] = m]
<1>1. d \in listed(p) /\ BorrowOK(p.markets[d], t, a, amount)
  BY DEF MarketBorrowOK
<1>2. Sound(Configs({p.common_token}), m, t)
  BY <1>1, ListedSound, BorrowSound
<1>3. market_borrow(p, t, a, d, amount) = enter_market(q, d, a)
  BY DEF market_borrow
<1> HIDE DEF m
<1>4. PlatformSound(q, t) /\ d \in listed(q)
  BY <1>1, <1>2, MarketStepSound
<1> HIDE DEF q
<1> QED BY <1>3, <1>4, EnterMarketSound

\* A repayment keeps the platform sound.
LEMMA MarketRepaySound ==
  ASSUME NEW p, NEW t \in Nat, PlatformSound(p, t), NEW a \in Accounts, NEW d,
         NEW amount \in Nat, MarketRepayOK(p, t, a, d, amount)
  PROVE  PlatformSound(market_repay(p, t, a, d, amount), t)
<1>1. d \in listed(p) /\ RepayOK(p.markets[d], t, a, amount)
  BY DEF MarketRepayOK
<1>2. Sound(Configs({p.common_token}), repay(p.markets[d], t, a, amount), t)
  BY <1>1, ListedSound, RepaySound
<1> QED BY <1>1, <1>2, MarketStepSound DEF market_repay

\* A transfer of C tokens keeps the platform sound.
LEMMA CTokenTransferSound ==
  ASSUME NEW p, NEW t \in Nat, PlatformSound(p, t), NEW a \in Accounts, NEW b \in Accounts,
         NEW d, NEW amount \in Nat, NEW credit,
         CTokenTransferOK(p, a, b, d, amount, credit)
  PROVE  PlatformSound(ctoken_transfer(p, a, b, d, amount), t)
<1> DEFINE m == [p.markets[d] EXCEPT !.ctoken = transfer_tokens(@, a, b, amount)]
<1>1. d \in listed(p) /\ TransferOK(p.markets[d].ctoken, a, b, amount)
  BY DEF CTokenTransferOK
<1>2. Sound(Configs({p.common_token}), m, t)
  BY <1>1, ListedSound, MoveSound
<1>3. ctoken_transfer(p, a, b, d, amount) = [p EXCEPT !.markets[d] = m]
  <2>1. p \in PlatformState /\ p.markets \in Partial(Denoms, MarketState)
    BY DEF PlatformSound, PlatformState
  <2> QED BY <1>1, <2>1 DEF ctoken_transfer, Partial, PlatformState, listed
<1> HIDE DEF m
<1> QED BY <1>1, <1>2, <1>3, MarketStepSound

\* RepayTo, as a part of a transaction, keeps the platform sound.
LEMMA RepaidSound ==
  ASSUME NEW p, NEW t \in Nat, PlatformSound(p, t), NEW a \in Accounts,
         NEW d \in listed(p), NEW amount \in Nat, RepayToOK(p.markets[d], t, a, amount)
  PROVE  PlatformSound(repaid(p, t, a, d, amount), t)
         /\ listed(repaid(p, t, a, d, amount)) = listed(p)
         /\ repaid(p, t, a, d, amount).common_token = p.common_token
<1>1. Sound(Configs({p.common_token}), repay_to(p.markets[d], t, a, amount), t)
  BY ListedSound, RepayToSound
<1> QED BY <1>1, MarketStepSound DEF repaid

\* A liquidation, in which two markets or one market twice take part, keeps
\* the platform sound.
LEMMA LiquidateSound ==
  ASSUME NEW p, NEW t \in Nat, PlatformSound(p, t), NEW sender \in Accounts,
         NEW account \in Accounts, NEW d, NEW amount \in Nat, NEW c,
         LiquidateOK(p, t, sender, account, d, amount, c)
  PROVE  PlatformSound(liquidate(p, t, sender, account, d, amount, c), t)
<1> DEFINE r == repaid(p, t, account, d, amount)
           value == MulInt(amount, Price(p, d))
           price == Price(p, c)
           m == transfer_from(r.markets[c], t, account, sender, value, price,
                              p.liquidation_price)
           q == [r EXCEPT !.markets[c] = m]
<1>1. /\ c \in listed(p) /\ d \in listed(p)
      /\ RepayToOK(p.markets[d], t, account, amount)
      /\ TransferFromOK(r.markets[c], t, account, sender, value, price,
                        p.liquidation_price)
  BY DEF LiquidateOK
<1>2. liquidate(p, t, sender, account, d, amount, c) = enter_market(q, c, sender)
  BY DEF liquidate
<1>3. PlatformSound(r, t) /\ c \in listed(r)
  BY <1>1, RepaidSound
<1> HIDE DEF r, value, price
<1>4. Sound(Configs({r.common_token}), m, t)
  BY <1>1, <1>3, ListedSound, TransferFromSound
<1> HIDE DEF m
<1>5. PlatformSound(q, t) /\ c \in listed(q)
  BY <1>3, <1>4, MarketStepSound
<1> HIDE DEF q
<1> QED BY <1>2, <1>5, EnterMarketSound

\* Leaving a market keeps the platform sound.
LEMMA ExitMarketSound ==
  ASSUME NEW p, NEW t, PlatformSound(p, t), NEW a \in Accounts, NEW d
  PROVE  PlatformSound(exit_market(p, a, d), t)
<1>1. p \in PlatformState /\ p.entered[a] \ {d} \subseteq listed(p)
  BY DEF PlatformSound
<1>2. exit_market(p, a, d) = [p EXCEPT !.entered[a] = p.entered[a] \ {d}]
  BY <1>1 DEF exit_market, PlatformState
<1> QED BY <1>1, <1>2, EnteredSound

\* What the two markets are asked of a repayment with collateral that succeeds.
LEMMA RepaymentAsks ==
  ASSUME NEW p, NEW t, NEW a, NEW c, NEW max_collateral, NEW d, NEW amount, NEW estimate,
         RepayWithCollateralOK(p, t, a, c, max_collateral, d, amount, estimate),
         NEW limit, limit = SellLimit(p, c, max_collateral)
  PROVE  /\ limit \in Nat
         /\ c \in listed(p) /\ d \in listed(p)
         /\ IF c = d THEN amount <= p.markets[c].cash
                     ELSE SwapWithdrawOK(p.markets[c], a, estimate, limit)
         /\ RepayToOK(withdrawn(p, a, c, limit, d, amount, estimate).markets[d], t, a, amount)
<1>1. Fits(limit) /\ c \in listed(p) /\ d \in listed(p)
  BY DEF RepayWithCollateralOK
<1>2. limit \in Nat
  BY <1>1, ModulusAssumption DEF Fits
<1>3. /\ IF c = d THEN amount <= p.markets[c].cash
                  ELSE SwapWithdrawOK(p.markets[c], a, estimate, limit)
      /\ RepayToOK(withdrawn(p, a, c, limit, d, amount, estimate).markets[d], t, a, amount)
  BY DEF RepayWithCollateralOK
<1> QED BY <1>1, <1>2, <1>3

\* What the market of the collateral hands over keeps the platform sound, when
\* it is sold and when it is the token that is owed.
LEMMA WithdrawnSound ==
  ASSUME NEW p, NEW t \in Nat, PlatformSound(p, t), NEW a \in Accounts, NEW c,
         NEW max_collateral, NEW d, NEW amount \in Nat, NEW estimate,
         RepayWithCollateralOK(p, t, a, c, max_collateral, d, amount, estimate),
         NEW limit, limit = SellLimit(p, c, max_collateral),
         NEW w, w = withdrawn(p, a, c, limit, d, amount, estimate)
  PROVE  PlatformSound(w, t) /\ d \in listed(w)
<1> DEFINE m == IF c = d THEN withdraw_same_token(p.markets[c], amount)
                ELSE swap_withdraw_from(p.markets[c], a, estimate, limit)
<1>1. /\ c \in listed(p) /\ d \in listed(p) /\ limit \in Nat
      /\ IF c = d THEN amount <= p.markets[c].cash
                  ELSE SwapWithdrawOK(p.markets[c], a, estimate, limit)
  BY RepaymentAsks
<1>2. Sound(Configs({p.common_token}), m, t)
  <2>1. Sound(Configs({p.common_token}), p.markets[c], t)
    BY <1>1, ListedSound
  <2>2. CASE c = d
    BY <1>1, <2>1, <2>2, PaySound DEF withdraw_same_token
  <2>3. CASE c # d
    BY <1>1, <2>1, <2>3, SwapSound
  <2> QED BY <2>2, <2>3
<1>3. w = [p EXCEPT !.markets[c] = m]
  <2>1. p \in PlatformState /\ p.markets \in Partial(Denoms, MarketState)
    BY DEF PlatformSound, PlatformState
  <2> QED BY <1>1, <2>1 DEF withdrawn, Partial, PlatformState, listed
<1> HIDE DEF m
<1> QED BY <1>1, <1>2, <1>3, MarketStepSound

\* A repayment with collateral keeps the platform sound.
LEMMA RepayWithCollateralSound ==
  ASSUME NEW p, NEW t \in Nat, PlatformSound(p, t), NEW a \in Accounts, NEW c,
         NEW max_collateral \in Nat, NEW d, NEW amount \in Nat, NEW estimate,
         RepayWithCollateralOK(p, t, a, c, max_collateral, d, amount, estimate)
  PROVE  PlatformSound(repay_with_collateral(p, t, a, c, max_collateral, d, amount,
                                             estimate), t)
<1> DEFINE limit == SellLimit(p, c, max_collateral)
           w == withdrawn(p, a, c, limit, d, amount, estimate)
<1>1. RepayToOK(w.markets[d], t, a, amount)
  BY RepaymentAsks
<1>2. PlatformSound(w, t) /\ d \in listed(w)
  BY WithdrawnSound
<1>3. repay_with_collateral(p, t, a, c, max_collateral, d, amount, estimate)
        = repaid(w, t, a, d, amount)
  BY DEF repay_with_collateral
<1> HIDE DEF w
<1> QED BY <1>1, <1>2, <1>3, RepaidSound

-----------------------------------------------------------------------------
(***************************************************************************)
(* Governance, the oracle and the time.                                    *)
(***************************************************************************)
\* Time passing keeps the platform sound.
LEMMA LaterSound ==
  ASSUME NEW p, NEW t \in Nat, PlatformSound(p, t)
  PROVE  PlatformSound(p, t + 1)
<1>1. ASSUME NEW d \in listed(p)
      PROVE  Sound(Configs({p.common_token}), p.markets[d], t + 1)
  <2>1. Sound(Configs({p.common_token}), p.markets[d], t)  BY ListedSound
  <2>2. p.markets[d].last_charged \in Nat  BY <2>1 DEF Sound, StoredMarket
  <2> QED BY <2>1, <2>2 DEF Sound
<1> QED BY <1>1 DEF PlatformSound

\* A market that governance creates is sound, and gets the agency's common
\* token, whatever its creator's message says.
LEMMA CreateMarketSound ==
  ASSUME NEW p, NEW t \in Nat, PlatformSound(p, t), NEW d \in Denoms,
         NEW ratio \in CollateralRatios
  PROVE  PlatformSound(create_market(p, t, d, MarketConfig(ratio), Oracle), t)
<1> DEFINE msg == market_msg(p, MarketConfig(ratio))
           m == instantiate(t, msg)
           markets1 == Saved(p.markets, d, m)
           codes == Saved(p.code_id, d, 1)
           tokens == Saved(p.token_id, d, 1)
           prices == Saved(p.price_oracle, d, Oracle)
           q == [p EXCEPT !.markets = markets1, !.code_id = codes, !.token_id = tokens,
                          !.price_oracle = prices]
           K == Configs({p.common_token})
<1>1. /\ p \in PlatformState /\ p.common_token \in CommonTokens
      /\ p.borrow_limit_ratio = BorrowLimitRatio
      /\ p.isotonic_market_id = 1 /\ p.isotonic_token_id = 1
      /\ p.markets \in Partial(Denoms, MarketState)
      /\ p.code_id \in Partial(Denoms, {1}) /\ p.token_id \in Partial(Denoms, {1})
      /\ p.price_oracle \in Partial(Denoms, {Oracle})
  BY DEF PlatformSound, PlatformState
<1>2. Within(msg, K) /\ msg.charge_period \in Nat \ {0}
  BY <1>1, PlatformAssumption
     DEF Within, Configs, MarketConfig, InstantiateMsg, market_msg
<1> HIDE DEF msg
<1>3. Sound(K, m, t)
  BY <1>2, NewMarketSound
<1>4. m \in MarketState
  BY <1>1, <1>3, MarketStateOfSound
<1>b. ASSUME NEW value, NEW map \in Partial(Denoms, {value})
      PROVE  /\ Saved(map, d, value) \in Partial(Denoms, {value})
             /\ DOMAIN Saved(map, d, value) = {d} \cup DOMAIN map
  BY value \in {value}, SavedType
<1>5. create_market(p, t, d, MarketConfig(ratio), Oracle) = q
  BY <1>1 DEF create_market, msg
<1> HIDE DEF m
<1>6. /\ markets1 \in Partial(Denoms, MarketState)
      /\ DOMAIN markets1 = {d} \cup DOMAIN p.markets /\ markets1[d] = m
      /\ \A k \in DOMAIN p.markets \ {d} : markets1[k] = p.markets[k]
  <2> DEFINE map == p.markets
  <2>1. map \in Partial(Denoms, MarketState)  BY <1>1
  <2> HIDE DEF map
  <2>2. /\ Saved(map, d, m) \in Partial(Denoms, MarketState)
        /\ DOMAIN Saved(map, d, m) = {d} \cup DOMAIN map /\ Saved(map, d, m)[d] = m
        /\ \A k \in DOMAIN map \ {d} : Saved(map, d, m)[k] = map[k]
    BY <1>4, <2>1, SavedType
  <2> QED BY <2>2 DEF map
<1>7. /\ codes \in Partial(Denoms, {1}) /\ DOMAIN codes = {d} \cup DOMAIN p.code_id
      /\ tokens \in Partial(Denoms, {1}) /\ DOMAIN tokens = {d} \cup DOMAIN p.token_id
  BY <1>1, <1>b
<1>8. /\ prices \in Partial(Denoms, {Oracle})
      /\ DOMAIN prices = {d} \cup DOMAIN p.price_oracle
  BY <1>1, <1>b
<1> HIDE DEF markets1, codes, tokens, prices
<1>9. /\ q \in PlatformState /\ q.markets = markets1 /\ q.common_token = p.common_token
      /\ q.code_id = codes /\ q.token_id = tokens
      /\ q.price_oracle = prices /\ q.entered = p.entered
  BY <1>1, <1>6, <1>7, <1>8 DEF PlatformState
<1> HIDE DEF q
<1>10. listed(q) = {d} \cup listed(p)
  BY <1>6, <1>9 DEF listed
<1>11. \A k \in listed(q) : Sound(K, q.markets[k], t)
  BY <1>3, <1>6, <1>9, <1>10 DEF PlatformSound, listed
<1> HIDE DEF K
<1> QED BY <1>5, <1>7, <1>8, <1>9, <1>10, <1>11 DEF PlatformSound, K

\* Another collateral ratio of a market keeps the platform sound.
LEMMA AdjustRatioSound ==
  ASSUME NEW p, NEW t, PlatformSound(p, t), NEW d \in listed(p),
         NEW ratio \in CollateralRatios
  PROVE  PlatformSound([p EXCEPT !.markets[d].collateral_ratio = ratio], t)
<1> DEFINE m == [p.markets[d] EXCEPT !.collateral_ratio = ratio]
           K == Configs({p.common_token})
<1>1. Sound(K, p.markets[d], t)  BY ListedSound
<1>2. Sound(K, m, t)
  BY <1>1 DEF Sound, StoredMarket, Configs, InstantiateMsg
<1>3. [p EXCEPT !.markets[d].collateral_ratio = ratio] = [p EXCEPT !.markets[d] = m]
  <2>1. p \in PlatformState /\ p.markets \in Partial(Denoms, MarketState)
    BY DEF PlatformSound, PlatformState
  <2> QED BY <2>1 DEF Partial, PlatformState, listed
<1> HIDE DEF m
<1> QED BY <1>2, <1>3, MarketStepSound

\* The agency's new common token reaches every market.
LEMMA AdjustCommonTokenSound ==
  ASSUME NEW p, NEW t, PlatformSound(p, t), NEW new \in CommonTokens
  PROVE  PlatformSound(adjust_agency_common_token(p, new), t)
<1> DEFINE markets1 == [d \in listed(p) |-> adjust_common_token(p.markets[d], new)]
           q == [p EXCEPT !.common_token = new, !.markets = markets1]
<1>1. p \in PlatformState /\ p.markets \in Partial(Denoms, MarketState)
  BY DEF PlatformSound, PlatformState
<1>2. ASSUME NEW d \in listed(p)
      PROVE  Sound(Configs({new}), adjust_common_token(p.markets[d], new), t)
  <2>1. Sound(Configs({p.common_token}), p.markets[d], t)  BY ListedSound
  <2> QED BY <2>1
      DEF Sound, StoredMarket, Configs, InstantiateMsg, adjust_common_token
<1>3. \A d \in listed(p) : adjust_common_token(p.markets[d], new) \in MarketState
  BY <1>2, MarketStateOfSound
<1>4. markets1 \in Partial(Denoms, MarketState)
  <2>1. listed(p) \in SUBSET Denoms  BY <1>1 DEF Partial, listed
  <2>2. markets1 \in [listed(p) -> MarketState]  BY <1>3
  <2> QED BY <2>1, <2>2 DEF Partial
<1>5. \A d \in listed(p) : Sound(Configs({new}), markets1[d], t)  BY <1>2
<1>6. DOMAIN markets1 = listed(p)  OBVIOUS
<1>7. adjust_agency_common_token(p, new) = q
  BY DEF adjust_agency_common_token
<1> HIDE DEF markets1
<1>8. /\ q \in PlatformState /\ q.markets = markets1 /\ q.common_token = new
      /\ q.code_id = p.code_id /\ q.token_id = p.token_id
      /\ q.price_oracle = p.price_oracle /\ q.entered = p.entered
  BY <1>1, <1>4 DEF PlatformState
<1> HIDE DEF q
<1>9. listed(q) = listed(p)  BY <1>6, <1>8 DEF listed
<1> QED BY <1>5, <1>7, <1>8, <1>9 DEF PlatformSound

\* Another storage of the oracle keeps the platform sound.
LEMMA OracleStepSound ==
  ASSUME NEW p, NEW t, PlatformSound(p, t), NEW o \in OracleState
  PROVE  PlatformSound([p EXCEPT !.oracles[Oracle] = o], t)
<1> DEFINE oracles == [p.oracles EXCEPT ![Oracle] = o]
           q == [p EXCEPT !.oracles = oracles]
<1>1. p \in PlatformState /\ p.oracles \in [{Oracle} -> OracleState]
  BY DEF PlatformSound, PlatformState
<1>2. oracles \in [{Oracle} -> OracleState]  BY <1>1
<1>3. [p EXCEPT !.oracles[Oracle] = o] = q  BY <1>1 DEF PlatformState
<1> HIDE DEF oracles
<1>4. /\ q \in PlatformState /\ q.markets = p.markets /\ q.common_token = p.common_token
      /\ q.code_id = p.code_id /\ q.token_id = p.token_id
      /\ q.price_oracle = p.price_oracle /\ q.entered = p.entered
  BY <1>1, <1>2 DEF PlatformState
<1> HIDE DEF q
<1>5. listed(q) = listed(p)  BY <1>4 DEF listed
<1> QED BY <1>3, <1>4, <1>5 DEF PlatformSound

\* Registering a pair, or trading in it, keeps the platform sound.
LEMMA OracleNextSound ==
  ASSUME NEW p, NEW t, PlatformSound(p, t), NEW pair \in Pairs, NEW price \in Prices
  PROVE  /\ PlatformSound([p EXCEPT !.oracles[Oracle] =
                              register_pool(@, pair, pair[1], pair[2])], t)
         /\ PlatformSound([p EXCEPT !.oracles[Oracle].twaps[pair] = price], t)
<1> DEFINE o == p.oracles[Oracle]
           key == PoolKey(pair[1], pair[2])
           registered == [o EXCEPT !.pools = Saved(o.pools, key, pair)]
           traded == [o EXCEPT !.twaps = [o.twaps EXCEPT ![pair] = price]]
<1>1. p \in PlatformState /\ p.oracles \in [{Oracle} -> OracleState] /\ o \in OracleState
  BY DEF PlatformSound, PlatformState
<1>2. registered \in OracleState
  <2> DEFINE keys == {PoolKey(q[1], q[2]) : q \in Pairs}
  <2>1. o.pools \in Partial(keys, Pairs) /\ key \in keys
    BY <1>1 DEF OracleState
  <2> HIDE DEF keys, key
  <2>2. Saved(o.pools, key, pair) \in Partial(keys, Pairs)
    BY <2>1, SavedType
  <2> HIDE DEF o
  <2> QED BY <1>1, <2>2 DEF OracleState, keys
<1>3. traded \in OracleState
  <2>1. [o.twaps EXCEPT ![pair] = price] \in [Pairs -> Prices]
    BY <1>1 DEF OracleState
  <2> HIDE DEF o
  <2> QED BY <1>1, <2>1 DEF OracleState
<1>4. /\ [p EXCEPT !.oracles[Oracle] = register_pool(@, pair, pair[1], pair[2])]
            = [p EXCEPT !.oracles[Oracle] = registered]
      /\ [p EXCEPT !.oracles[Oracle].twaps[pair] = price]
            = [p EXCEPT !.oracles[Oracle] = traded]
  BY <1>1 DEF register_pool, PlatformState, OracleState
<1> HIDE DEF registered, traded
<1> QED BY <1>2, <1>3, <1>4, OracleStepSound

-----------------------------------------------------------------------------
(***************************************************************************)
(* The inductive invariant of the platform and what follows from it.       *)
(***************************************************************************)
PlatformInv == now \in 0 .. MaxTime /\ PlatformSound(platform, now)

\* The platform is sound when it is deployed: no market exists yet.
LEMMA PlatformInvInit == Init => PlatformInv
<1> SUFFICES ASSUME Init PROVE PlatformInv  OBVIOUS
<1> DEFINE o == instantiate_oracle(Governance, [pair \in Pairs |-> One])
<1>1. now = 0 /\ now \in 0 .. MaxTime
  BY PlatformAssumption DEF Init
<1>2. \A keys, values : <<>> \in Partial(keys, values)
  <2>1. \A values : <<>> \in [{} -> values]  OBVIOUS
  <2> QED BY <2>1 DEF Partial
<1>3. o \in OracleState
  BY <1>2, PlatformAssumption DEF instantiate_oracle, OracleState
<1> HIDE DEF o
<1>4. /\ platform = NewPlatform(FirstCommonToken, LiquidationPrice, BorrowLimitRatio, 1, 1,
                                [x \in {Oracle} |-> o])
  BY DEF Init, o
<1>5. platform \in PlatformState /\ listed(platform) = {}
      /\ platform.markets = <<>> /\ platform.code_id = <<>>
      /\ platform.token_id = <<>> /\ platform.price_oracle = <<>>
      /\ \A a \in Accounts : platform.entered[a] = {}
  BY <1>2, <1>3, <1>4, PlatformAssumption DEF NewPlatform, PlatformState, listed
<1> QED BY <1>1, <1>5 DEF PlatformInv, PlatformSound, listed

\* Every transaction on the platform preserves the invariant.
LEMMA PlatformInvStep == PlatformInv /\ [Next]_vars => PlatformInv'
<1> SUFFICES ASSUME PlatformInv, [Next]_vars PROVE PlatformInv'  OBVIOUS
<1>a. /\ now \in 0 .. MaxTime /\ now \in Nat /\ PlatformSound(platform, now)
      /\ Users \subseteq Accounts /\ MaxTime \in Nat
      /\ DepositAmounts \subseteq Nat /\ WithdrawAmounts \subseteq Nat
      /\ LoanAmounts \subseteq Nat /\ RepaidAmounts \subseteq Nat
      /\ TransferAmounts \subseteq Nat /\ SellLimits \subseteq Nat
      /\ CollateralRatios \subseteq Nat
  BY PlatformAssumption DEF PlatformInv
<1>1. CASE MarketNext
  <2> SUFFICES ASSUME NEW a \in Users, NEW d \in Denoms,
                      \/ \E amount \in DepositAmounts : Deposit(a, d, amount)
                      \/ \E amount \in WithdrawAmounts : Withdraw(a, d, amount)
                      \/ \E amount \in LoanAmounts : Borrow(a, d, amount)
                      \/ \E amount \in RepaidAmounts : Repay(a, d, amount)
                      \/ \E b \in Users, amount \in TransferAmounts :
                            Transfer(a, b, d, amount)
               PROVE  PlatformInv'
    BY <1>1 DEF MarketNext
  <2>1. ASSUME NEW amount \in DepositAmounts, Deposit(a, d, amount) PROVE PlatformInv'
    BY <2>1, <1>a, MarketDepositSound DEF Deposit, Commit, PlatformInv
  <2>2. ASSUME NEW amount \in WithdrawAmounts, Withdraw(a, d, amount) PROVE PlatformInv'
    BY <2>2, <1>a, MarketWithdrawSound DEF Withdraw, Commit, PlatformInv
  <2>3. ASSUME NEW amount \in LoanAmounts, Borrow(a, d, amount) PROVE PlatformInv'
    BY <2>3, <1>a, MarketBorrowSound DEF Borrow, Commit, PlatformInv
  <2>4. ASSUME NEW amount \in RepaidAmounts, Repay(a, d, amount) PROVE PlatformInv'
    BY <2>4, <1>a, MarketRepaySound DEF Repay, Commit, PlatformInv
  <2>5. ASSUME NEW b \in Users, NEW amount \in TransferAmounts, Transfer(a, b, d, amount)
        PROVE  PlatformInv'
    BY <2>5, <1>a, CTokenTransferSound DEF Transfer, Commit, PlatformInv
  <2> QED BY <2>1, <2>2, <2>3, <2>4, <2>5
<1>2. CASE AgencyNext
  <2>1. ASSUME NEW a \in Users, NEW d \in Denoms, ExitMarket(a, d) PROVE PlatformInv'
    BY <2>1, <1>a, ExitMarketSound DEF ExitMarket, Commit, PlatformInv
  <2>2. ASSUME NEW a \in Users, NEW c \in Denoms, NEW d \in Denoms, NEW b \in Users,
               NEW amount \in RepaidAmounts, Liquidate(b, a, d, amount, c)
        PROVE  PlatformInv'
    BY <2>2, <1>a, LiquidateSound DEF Liquidate, Commit, PlatformInv
  <2>3. ASSUME NEW a \in Users, NEW c \in Denoms, NEW d \in Denoms,
               NEW amount \in RepaidAmounts, NEW estimate \in SellLimits,
               NEW sell_limit \in SellLimits,
               RepayWithCollateral(a, c, sell_limit, d, amount, estimate)
        PROVE  PlatformInv'
    BY <2>3, <1>a, RepayWithCollateralSound DEF RepayWithCollateral, Commit, PlatformInv
  <2> QED BY <1>2, <2>1, <2>2, <2>3 DEF AgencyNext
<1>3. CASE GovernanceNext
  <2>1. ASSUME NEW d \in Denoms, NEW ratio \in CollateralRatios, CreateMarket(d, ratio)
        PROVE  PlatformInv'
    BY <2>1, <1>a, CreateMarketSound DEF CreateMarket, Commit, PlatformInv
  <2>2. ASSUME NEW d \in Denoms, NEW ratio \in CollateralRatios,
               AdjustCollateralRatio(d, ratio)
        PROVE  PlatformInv'
    BY <2>2, <1>a, AdjustRatioSound DEF AdjustCollateralRatio, Commit, PlatformInv
  <2>3. ASSUME NEW new \in CommonTokens, AdjustCommonToken(new) PROVE PlatformInv'
    BY <2>3, <1>a, AdjustCommonTokenSound DEF AdjustCommonToken, Commit, PlatformInv
  <2> QED BY <1>3, <2>1, <2>2, <2>3 DEF GovernanceNext
<1>4. CASE OracleNext
  <2>1. One \in Prices  BY PlatformAssumption
  <2>2. ASSUME NEW pair \in Pairs, RegisterPool(pair) PROVE PlatformInv'
    BY <2>1, <2>2, <1>a, OracleNextSound DEF RegisterPool, Commit, PlatformInv
  <2>3. ASSUME NEW pair \in Pairs, NEW price \in Prices, ChangePrice(pair, price)
        PROVE  PlatformInv'
    BY <2>3, <1>a, OracleNextSound DEF ChangePrice, Commit, PlatformInv
  <2> QED BY <1>4, <2>2, <2>3 DEF OracleNext
<1>5. CASE Tick
  <2>1. now + 1 \in 0 .. MaxTime /\ PlatformSound(platform, now + 1)
    BY <1>5, <1>a, LaterSound DEF Tick
  <2> QED BY <1>5, <2>1 DEF Tick, PlatformInv
<1>6. CASE UNCHANGED vars
  BY <1>6, <1>a DEF vars, PlatformInv
<1> QED BY <1>1, <1>2, <1>3, <1>4, <1>5, <1>6 DEF Next

\* The platform is sound in every reachable state.
THEOREM PlatformInvHolds == Spec => []PlatformInv
<1>1. Init => PlatformInv  BY PlatformInvInit
<1>2. PlatformInv /\ [Next]_vars => PlatformInv'  BY PlatformInvStep
<1> QED BY <1>1, <1>2, PTL DEF Spec

\* No transaction leaves a number that is negative or too wide in any of the
\* contracts, nor an account in a market that does not exist.
THEOREM PlatformTypeCorrect == Spec => []TypeOK
<1>1. PlatformInv => TypeOK
  <2> SUFFICES ASSUME PlatformInv PROVE TypeOK  OBVIOUS
  <2>1. PlatformSound(platform, now) /\ platform \in PlatformState /\ now \in 0 .. MaxTime
    BY DEF PlatformInv, PlatformSound
  <2>2. listed(platform) \subseteq Denoms /\ markets \in [listed(platform) -> MarketState]
    BY <2>1 DEF PlatformState, Partial, listed, markets
  <2>3. entered \in [Accounts -> SUBSET listed(platform)]
    <3>1. entered \in [Accounts -> SUBSET Denoms]  BY <2>1 DEF PlatformState, entered
    <3>2. \A a \in Accounts : entered[a] \subseteq listed(platform)
      BY <2>1 DEF PlatformSound, entered
    <3> QED BY <3>1, <3>2
  <2>4. platform.oracles[Oracle].twaps \in [Pairs -> Prices]
    BY <2>1 DEF PlatformState, OracleState
  <2> QED BY <2>1, <2>2, <2>3, <2>4 DEF TypeOK
<1> QED BY <1>1, PlatformInvHolds, PTL

\* Every market counts credit in the agency's common token, whenever it was
\* created and whatever governance adjusted since.
THEOREM CommonTokenCorrect == Spec => []CommonTokenAgrees
<1>1. PlatformInv => CommonTokenAgrees
  BY DEF PlatformInv, PlatformSound, Sound, StoredMarket, Configs, InstantiateMsg,
         CommonTokenAgrees, markets
<1> QED BY <1>1, PlatformInvHolds, PTL

\* In every market of the platform the supply of C tokens is the sum of the
\* balances, the total debt does not exceed the debts of the accounts, and the
\* charging clock is aligned and not ahead, although the transactions of the
\* credit agency run handlers of two markets, or of one market twice.
MarketsSound ==
    \A d \in listed(platform) :
       /\ markets[d].ctoken.total_supply = SumFunction(markets[d].ctoken.balances)
       /\ markets[d].total_points <= SumFunction(markets[d].debt)
       /\ markets[d].last_charged % ChargePeriod = 0 /\ markets[d].last_charged <= now

\* Whatever reaches a market through the other contracts keeps it sound.
THEOREM MarketsSoundOnPlatform == Spec => []MarketsSound
<1>1. PlatformInv => MarketsSound
  <2> SUFFICES ASSUME PlatformInv, NEW d \in listed(platform)
               PROVE  /\ markets[d].ctoken.total_supply
                           = SumFunction(markets[d].ctoken.balances)
                      /\ markets[d].total_points <= SumFunction(markets[d].debt)
                      /\ markets[d].last_charged % ChargePeriod = 0
                      /\ markets[d].last_charged <= now
    BY DEF MarketsSound
  <2>1. Sound(Configs({platform.common_token}), markets[d], now)
    BY ListedSound DEF PlatformInv, markets
  <2>2. markets[d].charge_period = ChargePeriod
    BY <2>1 DEF Sound, StoredMarket, Configs, InstantiateMsg
  <2> QED BY <2>1, <2>2 DEF Sound, Backed
<1> QED BY <1>1, PlatformInvHolds, PTL

-----------------------------------------------------------------------------
(***************************************************************************)
(* What transactions change of the markets and of the accounts' places in  *)
(* them.                                                                   *)
(***************************************************************************)
\* Every market is one whose interest can be computed, with an exact total.
Lent(p) == \A d \in listed(p) : Valid(p.markets[d].rates) /\ Exact(p.markets[d])

\* From p to q: the markets advance, and only accounts that are in a market owe
\* more to it.
Proceeds(p, q, t) ==
    /\ listed(q) = listed(p)
    /\ \A d \in listed(p) : Advances(p.markets[d], q.markets[d], t)
    /\ \A d \in listed(p), a \in Accounts :
          d \in q.entered[a] \/ q.markets[d].debt[a] <= p.markets[d].debt[a]
    /\ \A a \in Accounts : p.entered[a] \subseteq q.entered[a]

\* A listed market, its numbers and its rates.
LEMMA ListedRated ==
  ASSUME NEW p, NEW t, PlatformSound(p, t), Lent(p), NEW d \in listed(p)
  PROVE  /\ Sound(Configs({p.common_token}), p.markets[d], t)
         /\ Rated(p.markets[d]) /\ Exact(p.markets[d])
         /\ p.markets[d] \in MarketState /\ p.markets[d].charge_period = ChargePeriod
         /\ \A a \in Accounts : p.markets[d].debt[a] \in Nat
<1>1. /\ Sound(Configs({p.common_token}), p.markets[d], t)
      /\ p.common_token \in CommonTokens
      /\ Valid(p.markets[d].rates) /\ Exact(p.markets[d])
  BY ListedSound DEF Lent, PlatformSound, PlatformState
<1>2. p.markets[d] \in MarketState  BY <1>1, MarketStateOfSound
<1>3. One \in Nat  BY FractionAssumption DEF One
<1>4. /\ p.markets[d].rates = Curve /\ p.markets[d].reserve_factor = ReserveFactor
      /\ p.markets[d].charge_period = ChargePeriod
  BY <1>2 DEF MarketState, StoredMarket, Configs, InstantiateMsg
<1>5. Rated(p.markets[d])
  BY <1>1, <1>3, <1>4, PlatformAssumption DEF Rated
<1>6. \A a \in Accounts : p.markets[d].debt[a] \in Nat
  BY <1>2, StoredNat DEF MarketState
<1> QED BY <1>1, <1>2, <1>4, <1>5, <1>6

\* A transaction that changes one market, and lends only to accounts in it.
LEMMA OneMarketProceeds ==
  ASSUME NEW p, NEW t \in Nat, PlatformSound(p, t), Lent(p), NEW d \in listed(p), NEW m,
         Advances(p.markets[d], m, t), NEW q,
         q.markets = [p.markets EXCEPT ![d] = m],
         \A a \in Accounts : p.entered[a] \subseteq q.entered[a],
         \A a \in Accounts : d \in q.entered[a] \/ m.debt[a] <= p.markets[d].debt[a]
  PROVE  Proceeds(p, q, t) /\ Lent(q)
<1>1. ASSUME NEW k \in listed(p)
      PROVE  /\ Advances(p.markets[k], p.markets[k], t)
             /\ \A a \in Accounts : p.markets[k].debt[a] <= p.markets[k].debt[a]
             /\ Valid(p.markets[k].rates) /\ Exact(p.markets[k])
  <2>1. p.markets[k] \in MarketState /\ Valid(p.markets[k].rates) /\ Exact(p.markets[k])
        /\ \A a \in Accounts : p.markets[k].debt[a] \in Nat
    BY ListedRated DEF Rated
  <2>2. p.markets[k] \in StoredMarket(Configs(CommonTokens))
    BY <2>1 DEF MarketState
  <2>3. Advances(p.markets[k], p.markets[k], t)
    BY <2>2, AdvancesTwice
  <2> QED BY <2>1, <2>3
<1>2. listed(q) = listed(p)  BY DEF listed
<1>3. q.markets[d] = m /\ \A k \in listed(p) \ {d} : q.markets[k] = p.markets[k]
  BY DEF listed
<1>4. Valid(m.rates) /\ Exact(m)
  BY <1>1 DEF Advances
<1>5. \A k \in listed(p) : Advances(p.markets[k], q.markets[k], t)
  BY <1>1, <1>3
<1>6. \A k \in listed(p), a \in Accounts :
         k \in q.entered[a] \/ q.markets[k].debt[a] <= p.markets[k].debt[a]
  BY <1>1, <1>3
<1>7. Lent(q)
  BY <1>1, <1>2, <1>3, <1>4 DEF Lent
<1> QED BY <1>2, <1>5, <1>6, <1>7 DEF Proceeds

\* Two such parts of a transaction.
LEMMA ProceedsTwice ==
  ASSUME NEW p, NEW q, NEW r, NEW t \in Nat, PlatformSound(p, t), PlatformSound(q, t),
         PlatformSound(r, t), Lent(p), Lent(q), Lent(r),
         Proceeds(p, q, t), Proceeds(q, r, t)
  PROVE  Proceeds(p, r, t)
<1>1. listed(r) = listed(p) /\ listed(q) = listed(p)  BY DEF Proceeds
<1>2. ASSUME NEW d \in listed(p) PROVE Advances(p.markets[d], r.markets[d], t)
  <2>1. /\ p.markets[d] \in MarketState /\ q.markets[d] \in MarketState
        /\ r.markets[d] \in MarketState
    BY <1>1, ListedRated
  <2>2. Advances(p.markets[d], q.markets[d], t) /\ Advances(q.markets[d], r.markets[d], t)
    BY <1>1 DEF Proceeds
  <2> QED BY <2>1, <2>2, AdvancesTwice DEF MarketState
<1>3. ASSUME NEW d \in listed(p), NEW a \in Accounts
      PROVE  d \in r.entered[a] \/ r.markets[d].debt[a] <= p.markets[d].debt[a]
  <2>1. /\ p.markets[d].debt[a] \in Nat /\ q.markets[d].debt[a] \in Nat
        /\ r.markets[d].debt[a] \in Nat
    BY <1>1, ListedRated
  <2>2. /\ d \in q.entered[a] \/ q.markets[d].debt[a] <= p.markets[d].debt[a]
        /\ d \in r.entered[a] \/ r.markets[d].debt[a] <= q.markets[d].debt[a]
        /\ q.entered[a] \subseteq r.entered[a]
    BY <1>1 DEF Proceeds
  <2> QED BY <2>1, <2>2
<1>4. \A a \in Accounts : p.entered[a] \subseteq r.entered[a]
  BY DEF Proceeds
<1> QED BY <1>1, <1>2, <1>3, <1>4 DEF Proceeds

\* The fields of the storage after a part of a transaction.
LEMMA PlatformFields ==
  ASSUME NEW p, NEW t, PlatformSound(p, t), NEW d \in listed(p), NEW m, NEW a \in Accounts,
         NEW c
  PROVE  /\ [p EXCEPT !.markets[d] = m].markets = [p.markets EXCEPT ![d] = m]
         /\ [p EXCEPT !.markets[d] = m].entered = p.entered
         /\ enter_market([p EXCEPT !.markets[d] = m], c, a).markets
              = [p.markets EXCEPT ![d] = m]
         /\ \A b \in Accounts :
               p.entered[b] \subseteq enter_market([p EXCEPT !.markets[d] = m], c, a).entered[b]
         /\ c \in enter_market([p EXCEPT !.markets[d] = m], c, a).entered[a]
<1>1. p \in PlatformState /\ p.entered \in [Accounts -> SUBSET Denoms]
  BY DEF PlatformSound, PlatformState
<1> DEFINE q == [p EXCEPT !.markets[d] = m]
           r == enter_market(q, c, a)
<1>2. q.markets = [p.markets EXCEPT ![d] = m] /\ q.entered = p.entered
  BY <1>1 DEF PlatformState
<1>3. r = [q EXCEPT !.entered[a] = @ \cup {c}]  BY DEF enter_market
<1>4. r.markets = q.markets /\ r.entered = [q.entered EXCEPT ![a] = @ \cup {c}]
  BY <1>1, <1>3 DEF PlatformState
<1> HIDE DEF q, r
<1>5. \A b \in Accounts : p.entered[b] \subseteq r.entered[b]
  BY <1>1, <1>2, <1>4
<1>6. c \in r.entered[a]
  BY <1>1, <1>2, <1>4
<1> QED BY <1>2, <1>4, <1>5, <1>6 DEF q, r

\* A deposit.
LEMMA DepositProceeds ==
  ASSUME NEW p, NEW t \in Nat, PlatformSound(p, t), Lent(p), NEW a \in Accounts, NEW d,
         NEW amount \in Nat, MarketDepositOK(p, t, a, d, amount),
         NEW q, q = market_deposit(p, t, a, d, amount)
  PROVE  Proceeds(p, q, t) /\ Lent(q)
<1> DEFINE m == deposit(p.markets[d], t, a, amount)
<1>1. d \in listed(p) /\ DepositOK(p.markets[d], t, a, amount)
  BY DEF MarketDepositOK
<1>2. Advances(p.markets[d], m, t) /\ Unlent(p.markets[d], m)
  BY <1>1, ListedRated, DepositEffect, TradeAdvances
<1>3. q = enter_market([p EXCEPT !.markets[d] = m], d, a)
  BY DEF market_deposit
<1> HIDE DEF m
<1>4. /\ q.markets = [p.markets EXCEPT ![d] = m]
      /\ \A b \in Accounts : p.entered[b] \subseteq q.entered[b]
  BY <1>1, <1>3, PlatformFields
<1> QED BY <1>1, <1>2, <1>4, OneMarketProceeds DEF Unlent

\* A withdrawal.
LEMMA WithdrawProceeds ==
  ASSUME NEW p, NEW t \in Nat, PlatformSound(p, t), Lent(p), NEW a \in Accounts, NEW d,
         NEW amount \in Nat, NEW credit, MarketWithdrawOK(p, t, a, d, amount, credit),
         NEW q, q = market_withdraw(p, t, a, d, amount)
  PROVE  Proceeds(p, q, t) /\ Lent(q)
<1> DEFINE m == withdraw(p.markets[d], t, a, amount)
<1>1. d \in listed(p) /\ WithdrawBaseOK(p.markets[d], t, a, amount)
  BY DEF MarketWithdrawOK
<1>2. Advances(p.markets[d], m, t) /\ Unlent(p.markets[d], m)
  BY <1>1, ListedRated, WithdrawEffect, TradeAdvances
<1>3. q = [p EXCEPT !.markets[d] = m]
  BY DEF market_withdraw
<1> HIDE DEF m
<1>4. q.markets = [p.markets EXCEPT ![d] = m] /\ q.entered = p.entered
  BY <1>1, <1>3, PlatformFields
<1> QED BY <1>1, <1>2, <1>4, OneMarketProceeds DEF Unlent

\* A loan: the borrower enters the market.
LEMMA BorrowProceeds ==
  ASSUME NEW p, NEW t \in Nat, PlatformSound(p, t), Lent(p), NEW a \in Accounts, NEW d,
         NEW amount \in Nat, NEW credit, MarketBorrowOK(p, t, a, d, amount, credit),
         NEW q, q = market_borrow(p, t, a, d, amount)
  PROVE  Proceeds(p, q, t) /\ Lent(q)
<1> DEFINE m == borrow(p.markets[d], t, a, amount)
<1>1. d \in listed(p) /\ BorrowOK(p.markets[d], t, a, amount)
  BY DEF MarketBorrowOK
<1>2. /\ Advances(p.markets[d], m, t)
      /\ \A b \in Accounts \ {a} : m.debt[b] <= p.markets[d].debt[b]
  <2> DEFINE old == p.markets[d]
             K == Configs({p.common_token})
  <2>1. Sound(K, old, t) /\ Rated(old) /\ BorrowOK(old, t, a, amount)
    BY <1>1, ListedRated
  <2>2. m = borrow(old, t, a, amount)  OBVIOUS
  <2> HIDE DEF old, m, K
  <2>3. Advances(old, m, t) /\ \A b \in Accounts \ {a} : m.debt[b] <= old.debt[b]
    BY <2>1, <2>2, BorrowAdvances
  <2> QED BY <2>3 DEF old
<1>3. q = enter_market([p EXCEPT !.markets[d] = m], d, a)
  BY DEF market_borrow
<1> HIDE DEF m
<1>4. /\ q.markets = [p.markets EXCEPT ![d] = m]
      /\ \A b \in Accounts : p.entered[b] \subseteq q.entered[b]
      /\ d \in q.entered[a]
  BY <1>1, <1>3, PlatformFields
<1>5. \A b \in Accounts : d \in q.entered[b] \/ m.debt[b] <= p.markets[d].debt[b]
  BY <1>2, <1>4
<1> QED BY <1>1, <1>2, <1>4, <1>5, OneMarketProceeds

\* A repayment that does not exceed the debt.
LEMMA RepayProceeds ==
  ASSUME NEW p, NEW t \in Nat, PlatformSound(p, t), Lent(p), NEW a \in Accounts, NEW d,
         NEW amount \in Nat, MarketRepayOK(p, t, a, d, amount),
         base_to_token(amount, charge_interest(p.markets[d], t).debt_multiplier)
           <= p.markets[d].debt[a],
         NEW q, q = market_repay(p, t, a, d, amount)
  PROVE  Proceeds(p, q, t) /\ Lent(q)
<1> DEFINE m == repay(p.markets[d], t, a, amount)
<1>1. d \in listed(p) /\ RepayOK(p.markets[d], t, a, amount)
  BY DEF MarketRepayOK
<1>2. Advances(p.markets[d], m, t) /\ Unlent(p.markets[d], m)
  BY <1>1, ListedRated, RepayAdvances DEF RepayOK
<1>3. q = [p EXCEPT !.markets[d] = m]
  BY DEF market_repay
<1> HIDE DEF m
<1>4. q.markets = [p.markets EXCEPT ![d] = m] /\ q.entered = p.entered
  BY <1>1, <1>3, PlatformFields
<1> QED BY <1>1, <1>2, <1>4, OneMarketProceeds DEF Unlent

\* A transfer of C tokens.
LEMMA TransferProceeds ==
  ASSUME NEW p, NEW t \in Nat, PlatformSound(p, t), Lent(p), NEW a \in Accounts,
         NEW b \in Accounts, NEW d, NEW amount \in Nat, NEW credit,
         CTokenTransferOK(p, a, b, d, amount, credit),
         NEW q, q = ctoken_transfer(p, a, b, d, amount)
  PROVE  Proceeds(p, q, t) /\ Lent(q)
<1> DEFINE m == [p.markets[d] EXCEPT !.ctoken = transfer_tokens(@, a, b, amount)]
<1>1. d \in listed(p)  BY DEF CTokenTransferOK
<1>2. p.markets[d] \in StoredMarket(Configs(CommonTokens))
  BY <1>1, ListedRated DEF MarketState
<1>3. SameCharge(p.markets[d], m) /\ SameDebts(p.markets[d], m)
  BY <1>2, MoveEffect
<1>4. Advances(p.markets[d], m, t) /\ Unlent(p.markets[d], m)
  BY <1>2, <1>3, UnchargedAdvances
<1>5. q.markets = [p.markets EXCEPT ![d] = m] /\ q.entered = p.entered
  <2>1. p \in PlatformState /\ p.markets \in Partial(Denoms, MarketState)
    BY DEF PlatformSound, PlatformState
  <2> QED BY <1>1, <2>1 DEF ctoken_transfer, Partial, PlatformState, listed
<1> HIDE DEF m
<1> QED BY <1>1, <1>4, <1>5, OneMarketProceeds DEF Unlent

\* RepayTo, as a part of a transaction.
LEMMA RepaidProceeds ==
  ASSUME NEW p, NEW t \in Nat, PlatformSound(p, t), Lent(p), NEW a \in Accounts,
         NEW d \in listed(p), NEW amount \in Nat, RepayToOK(p.markets[d], t, a, amount),
         NEW q, q = repaid(p, t, a, d, amount)
  PROVE  Proceeds(p, q, t) /\ Lent(q)
<1> DEFINE m == repay_to(p.markets[d], t, a, amount)
<1>1. Advances(p.markets[d], m, t) /\ Unlent(p.markets[d], m)
  BY ListedRated, RepayToAdvances
<1>2. q = [p EXCEPT !.markets[d] = m]
  BY DEF repaid
<1> HIDE DEF m
<1>3. q.markets = [p.markets EXCEPT ![d] = m] /\ q.entered = p.entered
  BY <1>2, PlatformFields
<1> QED BY <1>1, <1>3, OneMarketProceeds DEF Unlent

\* A liquidation: the liquidator enters the market of the collateral.
LEMMA LiquidateProceeds ==
  ASSUME NEW p, NEW t \in Nat, PlatformSound(p, t), Lent(p), NEW sender \in Accounts,
         NEW account \in Accounts, NEW d, NEW amount \in Nat, NEW c,
         LiquidateOK(p, t, sender, account, d, amount, c),
         NEW q, q = liquidate(p, t, sender, account, d, amount, c)
  PROVE  Proceeds(p, q, t) /\ Lent(q)
<1> DEFINE r == repaid(p, t, account, d, amount)
           value == MulInt(amount, Price(p, d))
           price == Price(p, c)
           m == transfer_from(r.markets[c], t, account, sender, value, price,
                              p.liquidation_price)
<1>1. /\ c \in listed(p) /\ d \in listed(p)
      /\ RepayToOK(p.markets[d], t, account, amount)
      /\ TransferFromOK(r.markets[c], t, account, sender, value, price,
                        p.liquidation_price)
  BY DEF LiquidateOK
<1>2. q = enter_market([r EXCEPT !.markets[c] = m], c, sender)
  BY DEF liquidate
<1>3. PlatformSound(r, t) /\ c \in listed(r) /\ Proceeds(p, r, t) /\ Lent(r)
  BY <1>1, RepaidSound, RepaidProceeds
<1>4. PlatformSound(q, t)
  BY LiquidateSound
<1> HIDE DEF r, value, price
<1>5. Advances(r.markets[c], m, t) /\ Unlent(r.markets[c], m)
  <2>1. /\ ChargeOK(r.markets[c], t)
        /\ SameCharge(charge_interest(r.markets[c], t), m)
        /\ SameDebts(charge_interest(r.markets[c], t), m)
    BY <1>1, <1>3, ListedRated, TransferFromEffect
  <2>2. /\ Sound(Configs({r.common_token}), r.markets[c], t) /\ Rated(r.markets[c])
    BY <1>3, ListedRated
  <2> HIDE DEF m
  <2> QED BY <2>1, <2>2, TradeAdvances
<1> HIDE DEF m
<1>6. /\ q.markets = [r.markets EXCEPT ![c] = m]
      /\ \A b \in Accounts : r.entered[b] \subseteq q.entered[b]
  BY <1>2, <1>3, PlatformFields
<1>7. Proceeds(r, q, t) /\ Lent(q)
  BY <1>3, <1>5, <1>6, OneMarketProceeds DEF Unlent
<1> QED BY <1>3, <1>4, <1>7, ProceedsTwice

\* A repayment with collateral.
LEMMA RepayWithCollateralProceeds ==
  ASSUME NEW p, NEW t \in Nat, PlatformSound(p, t), Lent(p), NEW a \in Accounts, NEW c,
         NEW max_collateral \in Nat, NEW d, NEW amount \in Nat, NEW estimate,
         RepayWithCollateralOK(p, t, a, c, max_collateral, d, amount, estimate),
         NEW q, q = repay_with_collateral(p, t, a, c, max_collateral, d, amount, estimate)
  PROVE  Proceeds(p, q, t) /\ Lent(q)
<1> DEFINE limit == SellLimit(p, c, max_collateral)
           w == withdrawn(p, a, c, limit, d, amount, estimate)
           m == IF c = d THEN withdraw_same_token(p.markets[c], amount)
                ELSE swap_withdraw_from(p.markets[c], a, estimate, limit)
<1>1. /\ c \in listed(p) /\ d \in listed(p) /\ RepayToOK(w.markets[d], t, a, amount)
      /\ limit \in Nat
  BY RepaymentAsks
<1>2. PlatformSound(w, t) /\ PlatformSound(q, t) /\ d \in listed(w)
  BY WithdrawnSound, RepayWithCollateralSound
<1>3. w = [p EXCEPT !.markets[c] = m]
  <2>1. p \in PlatformState /\ p.markets \in Partial(Denoms, MarketState)
    BY DEF PlatformSound, PlatformState
  <2> QED BY <1>1, <2>1 DEF withdrawn, Partial, PlatformState, listed
<1>4. Advances(p.markets[c], m, t) /\ Unlent(p.markets[c], m)
  <2>1. p.markets[c] \in StoredMarket(Configs(CommonTokens))
    BY <1>1, ListedRated DEF MarketState
  <2> QED BY <2>1, SaleAdvances
<1> HIDE DEF m
<1>5. w.markets = [p.markets EXCEPT ![c] = m] /\ w.entered = p.entered
  BY <1>1, <1>3, PlatformFields
<1>6. q = repaid(w, t, a, d, amount)
  BY DEF repay_with_collateral
<1> HIDE DEF w
<1>7. Proceeds(p, w, t) /\ Lent(w)
  BY <1>1, <1>4, <1>5, OneMarketProceeds DEF Unlent
<1>8. Proceeds(w, q, t) /\ Lent(q)
  BY <1>1, <1>2, <1>6, <1>7, RepaidProceeds
<1> QED BY <1>2, <1>7, <1>8, ProceedsTwice

\* Transactions of governance and of the oracle that leave the charge and the
\* debts of every market alone.
LEMMA SameMarketsProceed ==
  ASSUME NEW p, NEW t \in Nat, PlatformSound(p, t), Lent(p), NEW q,
         listed(q) = listed(p), q.entered = p.entered,
         \A d \in listed(p) : /\ SameCharge(p.markets[d], q.markets[d])
                              /\ SameDebts(p.markets[d], q.markets[d])
  PROVE  Proceeds(p, q, t) /\ Lent(q)
<1>1. ASSUME NEW d \in listed(p)
      PROVE  /\ Advances(p.markets[d], q.markets[d], t)
             /\ Unlent(p.markets[d], q.markets[d])
             /\ Valid(q.markets[d].rates) /\ Exact(q.markets[d])
  <2>1. p.markets[d] \in StoredMarket(Configs(CommonTokens))
    BY ListedRated DEF MarketState
  <2>2. Advances(p.markets[d], q.markets[d], t) /\ Unlent(p.markets[d], q.markets[d])
    BY <2>1, UnchargedAdvances
  <2> QED BY <2>2 DEF Advances, Lent
<1> QED BY <1>1 DEF Proceeds, Lent, Unlent

\* Another collateral ratio.
LEMMA AdjustRatioProceeds ==
  ASSUME NEW p, NEW t \in Nat, PlatformSound(p, t), Lent(p), NEW d \in listed(p),
         NEW ratio, NEW q, q = [p EXCEPT !.markets[d].collateral_ratio = ratio]
  PROVE  Proceeds(p, q, t) /\ Lent(q)
<1> DEFINE m == [p.markets[d] EXCEPT !.collateral_ratio = ratio]
<1>1. q.markets = [p.markets EXCEPT ![d] = m] /\ q.entered = p.entered
  <2>1. p \in PlatformState /\ p.markets \in Partial(Denoms, MarketState)
    BY DEF PlatformSound, PlatformState
  <2> QED BY <2>1 DEF Partial, PlatformState, listed
<1>2. \A k \in listed(p) : p.markets[k] \in StoredMarket(Configs(CommonTokens))
  BY ListedRated DEF MarketState
<1>3. SameCharge(p.markets[d], m) /\ SameDebts(p.markets[d], m)
  BY <1>2 DEF SameCharge, SameDebts, StoredMarket
<1> HIDE DEF m
<1>4. \A k \in listed(p) : /\ SameCharge(p.markets[k], q.markets[k])
                           /\ SameDebts(p.markets[k], q.markets[k])
  BY <1>1, <1>2, <1>3 DEF listed, SameCharge, SameDebts
<1> QED BY <1>1, <1>4, SameMarketsProceed DEF listed

\* Another common token.
LEMMA AdjustCommonTokenProceeds ==
  ASSUME NEW p, NEW t \in Nat, PlatformSound(p, t), Lent(p), NEW new,
         NEW q, q = adjust_agency_common_token(p, new)
  PROVE  Proceeds(p, q, t) /\ Lent(q)
<1>1. p \in PlatformState  BY DEF PlatformSound
<1>2. /\ q.markets = [d \in listed(p) |-> adjust_common_token(p.markets[d], new)]
      /\ q.entered = p.entered
  BY <1>1 DEF adjust_agency_common_token, PlatformState
<1>3. listed(q) = listed(p)  BY <1>2 DEF listed
<1>4. \A d \in listed(p) : p.markets[d] \in StoredMarket(Configs(CommonTokens))
  BY ListedRated DEF MarketState
<1>5. \A d \in listed(p) : q.markets[d] = [p.markets[d] EXCEPT !.common_token = new]
  BY <1>2 DEF adjust_common_token
<1>6. \A d \in listed(p) : /\ SameCharge(p.markets[d], q.markets[d])
                           /\ SameDebts(p.markets[d], q.markets[d])
  BY <1>4, <1>5 DEF SameCharge, SameDebts, StoredMarket
<1> QED BY <1>2, <1>3, <1>6, SameMarketsProceed

\* Another storage of the oracle.
LEMMA OracleProceeds ==
  ASSUME NEW p, NEW t \in Nat, PlatformSound(p, t), Lent(p), NEW oracles,
         NEW q, q = [p EXCEPT !.oracles = oracles]
  PROVE  Proceeds(p, q, t) /\ Lent(q)
<1>1. p \in PlatformState  BY DEF PlatformSound
<1>2. q.markets = p.markets /\ q.entered = p.entered /\ listed(q) = listed(p)
  BY <1>1 DEF PlatformState, listed
<1>3. \A d \in listed(p) : /\ SameCharge(p.markets[d], q.markets[d])
                           /\ SameDebts(p.markets[d], q.markets[d])
  BY <1>2 DEF SameCharge, SameDebts
<1> QED BY <1>2, <1>3, SameMarketsProceed

-----------------------------------------------------------------------------
(***************************************************************************)
(* What accounts owe in the markets that they are not in.                  *)
(***************************************************************************)
\* What the platform keeps of the debts, beside that it is sound.
Counted(p) ==
    /\ Lent(p)
    /\ \A d \in listed(p) :
          /\ p.markets[d].debt_multiplier >= InitialMultiplier
          /\ p.markets[d].ctoken.multiplier >= InitialMultiplier
    /\ \A d \in listed(p), a \in Accounts :
          d \in p.entered[a] \/ Small(p.markets[d].debt[a])

\* The lowest price is a price.
LEMMA LowestPriceIs ==
  LowestPrice \in Prices /\ LowestPrice \in Nat \ {0} /\ \A price \in Prices : LowestPrice <= price
<1>1. Prices \subseteq Nat \ {0} /\ Prices # {}  BY PlatformAssumption
<1>2. \E lowest \in Prices : \A price \in Prices : lowest <= price
  BY <1>1, LeastNat
<1>3. LowestPrice \in Prices /\ \A price \in Prices : LowestPrice <= price
  BY <1>2 DEF LowestPrice
<1> QED BY <1>1, <1>3

\* Fewer points are worth no more.
LEMMA SmallMonotone ==
  ASSUME NEW x \in Nat, NEW y \in Nat, x <= y, Small(y)
  PROVE  Small(x)
<1>1. InitialMultiplier \in Nat /\ LowestPrice \in Nat /\ One \in Nat
  BY TokenAssumption, ModulusAssumption, LowestPriceIs, FractionAssumption DEF One
<1> DEFINE v == MulInt(x, InitialMultiplier)
           w == MulInt(y, InitialMultiplier)
<1>2. v \in Nat /\ w \in Nat /\ v <= w
  BY <1>1, MulIntMonotone
<1> HIDE DEF v, w
<1>3. v * LowestPrice <= w * LowestPrice
  BY <1>1, <1>2, TimesMonotone
<1>4. v * LowestPrice \in Int /\ w * LowestPrice \in Int
  BY <1>1, <1>2
<1>5. w * LowestPrice < One  BY DEF Small, w
<1> QED BY <1>1, <1>3, <1>4, <1>5 DEF Small, v

\* A part of a transaction keeps the debts counted.
LEMMA ProceedsCounted ==
  ASSUME NEW p, NEW t \in 0 .. MaxTime, NEW q, PlatformSound(p, t), PlatformSound(q, t),
         Counted(p), Proceeds(p, q, t), Lent(q)
  PROVE  Counted(q)
<1>1. MaxTime \in Nat /\ t \in Nat /\ ChargePeriod \in Nat /\ InitialMultiplier \in Nat
  BY PlatformAssumption, TokenAssumption, ModulusAssumption
<1>2. listed(q) = listed(p) /\ Lent(p)  BY DEF Proceeds, Counted
<1>3. ASSUME NEW d \in listed(p)
      PROVE  /\ q.markets[d].debt_multiplier >= InitialMultiplier
             /\ q.markets[d].ctoken.multiplier >= InitialMultiplier
  <2> DEFINE m == p.markets[d]
             n == q.markets[d]
  <2>1. /\ m.charge_period = ChargePeriod
        /\ m \in StoredMarket(Configs(CommonTokens)) /\ n \in StoredMarket(Configs(CommonTokens))
    BY <1>1, <1>2, ListedRated DEF MarketState
  <2>2. Advances(m, n, t)  BY DEF Proceeds
  <2>3. /\ m.debt_multiplier >= InitialMultiplier
        /\ m.ctoken.multiplier >= InitialMultiplier
    BY DEF Counted
  <2> HIDE DEF m, n
  <2>4. /\ m.debt_multiplier \in Nat /\ n.debt_multiplier \in Nat
        /\ m.ctoken.multiplier \in Nat /\ n.ctoken.multiplier \in Nat
    BY <2>1, StoredNat
  <2>5. /\ n.debt_multiplier >= InitialMultiplier
        /\ n.ctoken.multiplier >= InitialMultiplier
    BY <1>1, <2>1, <2>2, <2>3, <2>4 DEF Advances
  <2> QED BY <2>5 DEF n
<1>4. ASSUME NEW d \in listed(p), NEW a \in Accounts
      PROVE  d \in q.entered[a] \/ Small(q.markets[d].debt[a])
  <2>1. p.markets[d].debt[a] \in Nat /\ q.markets[d].debt[a] \in Nat
    BY <1>1, <1>2, ListedRated
  <2>2. /\ d \in q.entered[a] \/ q.markets[d].debt[a] <= p.markets[d].debt[a]
        /\ p.entered[a] \subseteq q.entered[a]
        /\ d \in p.entered[a] \/ Small(p.markets[d].debt[a])
    BY DEF Proceeds, Counted
  <2> QED BY <2>1, <2>2, SmallMonotone
<1> QED BY <1>2, <1>3, <1>4 DEF Counted

\* A price that is known is one of the prices.
LEMMA PriceIs ==
  ASSUME NEW p, NEW t, PlatformSound(p, t), NEW d, PriceOK(p, d)
  PROVE  Price(p, d) \in Prices
<1>1. CASE IsCommon(p, d)
  BY <1>1, PlatformAssumption DEF Price, price_market_local_per_common
<1>2. CASE ~ IsCommon(p, d)
  <2> DEFINE c == p.markets[d].common_token
             key == PoolKey(d, c)
             o == oracle_of(p, d)
  <2>1. p.price_oracle[d] \in DOMAIN p.oracles /\ TwapOK(o, d, c)
    BY <1>2 DEF PriceOK
  <2>2. p.oracles \in [{Oracle} -> OracleState]
    BY DEF PlatformSound, PlatformState
  <2>3. o \in OracleState  BY <2>1, <2>2 DEF oracle_of
  <2>4. key \in DOMAIN o.pools
    BY <2>1 DEF TwapOK, PoolAddressOK
  <2>5. o.pools[key] \in Pairs /\ o.twaps \in [Pairs -> Prices]
    BY <2>3, <2>4 DEF OracleState, Partial
  <2>6. Price(p, d) = o.twaps[o.pools[key]]
    BY <1>2 DEF Price, price_market_local_per_common, twap, pool_address
  <2> QED BY <2>5, <2>6
<1> QED BY <1>1, <1>2

\* An account leaves a market only with a small debt.
LEMMA LeftWithSmallDebt ==
  ASSUME NEW p, NEW t \in Nat, PlatformSound(p, t), Counted(p), NEW a \in Accounts, NEW d,
         ExitMarketOK(p, t, a, d)
  PROVE  d \in listed(p) /\ Small(p.markets[d].debt[a])
<1> DEFINE m == p.markets[d]
           owed == debt_of(m, a)
           balance == debt_balance(m, t, a)
           first == MulInt(m.debt[a], InitialMultiplier)
           price == Price(p, d)
<1>1. /\ d \in listed(p) /\ MarketLineOK(p, t, d, a) /\ Lent(p)
      /\ market_credit_line(p, t, d, a).debt = 0
  BY DEF ExitMarketOK, PlatformSound, Counted
<1>2. /\ m \in MarketState /\ m.debt[a] \in Nat /\ m.debt_multiplier \in Nat
      /\ m.debt_multiplier >= InitialMultiplier /\ InitialMultiplier \in Nat
      /\ Rated(m) /\ Sound(Configs({p.common_token}), m, t)
  <2>1. /\ m \in MarketState /\ m.debt[a] \in Nat
        /\ Rated(m) /\ Sound(Configs({p.common_token}), m, t)
    BY <1>1, ListedRated
  <2>2. m.debt_multiplier >= InitialMultiplier
    BY <1>1 DEF Counted
  <2>3. InitialMultiplier \in Nat
    BY TokenAssumption, ModulusAssumption
  <2> HIDE DEF m
  <2>4. m \in StoredMarket(Configs(CommonTokens))  BY <2>1 DEF MarketState
  <2>5. m.debt_multiplier \in Nat  BY <2>4, StoredNat
  <2> QED BY <2>1, <2>2, <2>3, <2>5
<1>3. LowestPrice \in Nat \ {0} /\ One \in Nat \ {0}
  BY LowestPriceIs, FractionAssumption DEF One
<1>4. first \in Nat /\ owed \in Nat /\ first <= owed
  <2> DEFINE x == m.debt[a]
             v == InitialMultiplier
             w == m.debt_multiplier
  <2>1. x \in Nat /\ v \in Nat /\ w \in Nat /\ v <= w /\ x <= x  BY <1>2
  <2>2. first = MulInt(x, v) /\ owed = MulInt(x, w)
    BY DEF debt_of, token_to_base
  <2> HIDE DEF x, v, w
  <2>3. MulInt(x, v) \in Nat /\ MulInt(x, w) \in Nat /\ MulInt(x, v) <= MulInt(x, w)
    BY <2>1, MulIntMonotone
  <2> QED BY <2>2, <2>3
<1>5. owed * LowestPrice < One
  <2>1. CASE ~ HasBalance(p, d, a)
    <3>1. owed = 0  BY <2>1 DEF HasBalance
    <3>2. 0 * LowestPrice = 0  BY <1>3
    <3> HIDE DEF owed
    <3> QED BY <1>3, <3>1, <3>2
  <2>2. CASE HasBalance(p, d, a)
    <3>1. price \in Prices
      BY <1>1, <2>2, PriceIs DEF MarketLineOK
    <3>2. price \in Nat /\ LowestPrice <= price
      BY <3>1, LowestPriceIs, PlatformAssumption
    <3>3. MulInt(balance, price) = 0
      BY <1>1, <2>2 DEF market_credit_line, credit_line
    <3>4. balance \in Nat /\ owed <= balance
      <4> DEFINE e == epochs_passed(m, t)
                 r == debt_ratio(m, e)
      <4>1. balance = IF pending(m, t) THEN owed + MulInt(owed, r) ELSE owed
        BY DEF debt_balance
      <4>2. r \in Nat
        <5>1. m.charge_period \in Nat \ {0} /\ m.last_charged \in Nat /\ m.last_charged <= t
          BY <1>2, StoredNat DEF Sound
        <5>2. t - m.last_charged \in Nat  BY <5>1
        <5>3. e \in Nat  BY <5>1, <5>2, DivType DEF epochs_passed
        <5>4. m \in StoredMarket(Configs({p.common_token}))  BY <1>2 DEF Sound
        <5> HIDE DEF e
        <5> QED BY <1>2, <5>1, <5>3, <5>4, DebtRatioNat
      <4> HIDE DEF r, owed, balance
      <4>3. MulInt(owed, r) \in Nat
        <5>1. owed \in Nat /\ owed <= owed /\ r <= r  BY <1>4, <4>2
        <5> QED BY <4>2, <5>1, MulIntMonotone
      <4> QED BY <1>4, <4>1, <4>3
    <3> HIDE DEF price, owed, balance
    <3>5. balance * price < One
      <4> DEFINE x == balance * price
      <4>1. x \in Nat /\ x \div DecimalFractional = 0 /\ One = DecimalFractional
        BY <3>2, <3>3, <3>4 DEF MulInt, One
      <4> HIDE DEF x
      <4>2. x <= One * 0 + (One - 1)
        BY <1>3, <4>1, DivBounds
      <4> QED BY <1>3, <4>1, <4>2 DEF x
    <3>6. owed * LowestPrice <= balance * LowestPrice
      BY <1>3, <1>4, <3>4, TimesMonotone
    <3>7. LowestPrice * balance <= price * balance
      BY <1>3, <3>2, <3>4, TimesMonotone
    <3>8. /\ LowestPrice * balance = balance * LowestPrice /\ price * balance = balance * price
          /\ owed * LowestPrice \in Int /\ balance * LowestPrice \in Int
          /\ balance * price \in Int
      BY <1>3, <1>4, <3>2, <3>4
    <3> QED BY <1>3, <3>5, <3>6, <3>7, <3>8
  <2> QED BY <2>1, <2>2
<1> HIDE DEF owed, first
<1>6. first * LowestPrice <= owed * LowestPrice
  BY <1>3, <1>4, TimesMonotone
<1>7. first * LowestPrice \in Int /\ owed * LowestPrice \in Int  BY <1>3, <1>4
<1>8. first * LowestPrice < One  BY <1>3, <1>5, <1>6, <1>7
<1> QED BY <1>1, <1>8 DEF Small, first

-----------------------------------------------------------------------------
(***************************************************************************)
(* Every step counts the debts, and no market's multipliers fall.          *)
(***************************************************************************)
\* The markets of p are still there in q, and neither a debt nor a deposit is
\* worth less to its owner than it was.
Grown(p, q) ==
    \A d \in listed(p) :
       /\ d \in listed(q)
       /\ q.markets[d].debt_multiplier >= p.markets[d].debt_multiplier
       /\ q.markets[d].ctoken.multiplier >= p.markets[d].ctoken.multiplier

\* Markets that are as they were are worth what they were.
LEMMA SameGrown ==
  ASSUME NEW p, NEW t, PlatformSound(p, t), Lent(p), NEW q, listed(p) \subseteq listed(q),
         \A d \in listed(p) : q.markets[d] = p.markets[d]
  PROVE  Grown(p, q)
<1> SUFFICES ASSUME NEW d \in listed(p)
             PROVE  /\ q.markets[d].debt_multiplier >= p.markets[d].debt_multiplier
                    /\ q.markets[d].ctoken.multiplier >= p.markets[d].ctoken.multiplier
  BY DEF Grown
<1> DEFINE m == p.markets[d]
<1>1. m \in StoredMarket(Configs(CommonTokens))
  BY ListedRated DEF MarketState
<1>2. q.markets[d] = m  OBVIOUS
<1> HIDE DEF m
<1>3. m.debt_multiplier \in Nat /\ m.ctoken.multiplier \in Nat
  BY <1>1, StoredNat
<1> QED BY <1>2, <1>3 DEF m

\* A part of a transaction keeps the debts counted and the markets' worth.
LEMMA ProceedsKeeps ==
  ASSUME NEW p, NEW t \in 0 .. MaxTime, NEW q, PlatformSound(p, t), PlatformSound(q, t),
         Counted(p), Proceeds(p, q, t) /\ Lent(q)
  PROVE  Counted(q) /\ Grown(p, q)
<1>1. Counted(q)  BY ProceedsCounted
<1>2. Grown(p, q)  BY DEF Proceeds, Advances, Grown
<1> QED BY <1>1, <1>2

\* An account that leaves a market owes it little, and nothing else changes.
LEMMA ExitMarketKeeps ==
  ASSUME NEW p, NEW t \in Nat, PlatformSound(p, t), Counted(p), NEW a \in Accounts, NEW d,
         ExitMarketOK(p, t, a, d), NEW q, q = exit_market(p, a, d)
  PROVE  Counted(q) /\ Grown(p, q)
<1>1. p \in PlatformState /\ p.entered \in [Accounts -> SUBSET Denoms] /\ Lent(p)
  BY DEF PlatformSound, PlatformState, Counted
<1>2. /\ q.markets = p.markets /\ q.entered = [p.entered EXCEPT ![a] = @ \ {d}]
      /\ listed(q) = listed(p)
  BY <1>1 DEF exit_market, PlatformState, listed
<1>3. Small(p.markets[d].debt[a])
  BY LeftWithSmallDebt
<1>4. \A k \in listed(q), b \in Accounts : k \in q.entered[b] \/ Small(q.markets[k].debt[b])
  BY <1>1, <1>2, <1>3 DEF Counted
<1>5. Lent(q) /\ Counted(q)
  BY <1>2, <1>4 DEF Counted, Lent
<1>6. Grown(p, q)
  BY <1>1, <1>2, SameGrown
<1> QED BY <1>5, <1>6

\* Nobody owes anything to a new market.
LEMMA CreateMarketKeeps ==
  ASSUME NEW p, NEW t \in Nat, PlatformSound(p, t), Counted(p), NEW d \in Denoms,
         NEW ratio \in CollateralRatios,
         CreateMarketOK(p, Governance, d, MarketConfig(ratio)),
         NEW q, q = create_market(p, t, d, MarketConfig(ratio), Oracle)
  PROVE  Counted(q) /\ Grown(p, q)
<1> DEFINE msg == market_msg(p, MarketConfig(ratio))
           m == instantiate(t, msg)
<1>1. /\ p \in PlatformState /\ Lent(p) /\ d \notin listed(p)
      /\ Valid(MarketConfig(ratio).rates)
      /\ p.markets \in Partial(Denoms, MarketState)
  BY DEF PlatformSound, PlatformState, Counted, CreateMarketOK, InstantiateOK
<1>2. q.markets = Saved(p.markets, d, m) /\ q.entered = p.entered
  BY <1>1 DEF create_market, PlatformState
<1>3. Valid(m.rates)
  BY <1>1 DEF instantiate, market_msg, MarketConfig, InstantiateMsg
<1>4. /\ m.debt = [a \in Accounts |-> 0] /\ m.total_points = 0
      /\ m.debt_multiplier = InitialMultiplier
      /\ m.ctoken.multiplier = InitialMultiplier
  BY DEF instantiate, EmptyToken
<1> HIDE DEF m
<1>5. Exact(m)
  BY <1>4, SumConstZero, TokenAssumption DEF Exact
<1>6. Small(0)
  <2>1. InitialMultiplier \in Nat /\ LowestPrice \in Nat /\ One \in Nat \ {0}
        /\ DecimalFractional \in Nat \ {0}
    BY TokenAssumption, ModulusAssumption, LowestPriceIs, FractionAssumption DEF One
  <2>2. 0 * InitialMultiplier = 0 /\ 0 * LowestPrice = 0  BY <2>1
  <2>3. 0 \div DecimalFractional = 0
    <3> DEFINE f == DecimalFractional
    <3>1. f \in Nat \ {0}  BY <2>1
    <3> HIDE DEF f
    <3>2. 0 \div f = 0  BY <3>1
    <3> QED BY <3>2 DEF f
  <2> QED BY <2>1, <2>2, <2>3 DEF Small, MulInt
<1>7. /\ listed(q) = {d} \cup listed(p) /\ q.markets[d] = m
      /\ \A k \in listed(p) : q.markets[k] = p.markets[k]
  BY <1>1, <1>2 DEF Saved, listed
<1>8. Lent(q)
  BY <1>1, <1>3, <1>5, <1>7 DEF Lent
<1>9. InitialMultiplier \in Nat  BY TokenAssumption, ModulusAssumption
<1>10. \A k \in listed(q) :
          /\ q.markets[k].debt_multiplier >= InitialMultiplier
          /\ q.markets[k].ctoken.multiplier >= InitialMultiplier
  BY <1>4, <1>7, <1>9 DEF Counted
<1>11. \A k \in listed(q), a \in Accounts :
          k \in q.entered[a] \/ Small(q.markets[k].debt[a])
  BY <1>2, <1>4, <1>6, <1>7 DEF Counted
<1>12. Counted(q)  BY <1>8, <1>10, <1>11 DEF Counted
<1>13. Grown(p, q)
  BY <1>1, <1>7, SameGrown
<1> QED BY <1>12, <1>13

\* No market exists when the platform is deployed.
LEMMA CountedInit == Init => Counted(platform)
BY DEF Init, NewPlatform, Counted, Lent, listed

\* Every step keeps the debts counted and the markets' worth.
LEMMA CountedStep ==
  PlatformInv /\ PlatformInv' /\ Counted(platform) /\ [Next]_vars
    => Counted(platform') /\ Grown(platform, platform')
<1> DEFINE Kept == Counted(platform') /\ Grown(platform, platform')
<1> SUFFICES ASSUME PlatformInv, PlatformInv', Counted(platform), [Next]_vars PROVE Kept
  OBVIOUS
<1> USE DEF Commit
<1>a. /\ now \in 0 .. MaxTime /\ now \in Nat /\ PlatformSound(platform, now)
      /\ now' = now => PlatformSound(platform', now)
      /\ Lent(platform) /\ MaxTime \in Nat
      /\ Users \subseteq Accounts
      /\ DepositAmounts \subseteq Nat /\ WithdrawAmounts \subseteq Nat
      /\ LoanAmounts \subseteq Nat /\ RepaidAmounts \subseteq Nat
      /\ TransferAmounts \subseteq Nat /\ SellLimits \subseteq Nat
  BY PlatformAssumption DEF PlatformInv, Counted
<1>b. ASSUME now' = now, Proceeds(platform, platform', now) /\ Lent(platform') PROVE Kept
  BY <1>a, <1>b, ProceedsKeeps
<1> HIDE DEF Kept
<1>1. CASE MarketNext
  <2> SUFFICES ASSUME NEW a \in Users, NEW d \in Denoms,
                      \/ \E amount \in DepositAmounts : Deposit(a, d, amount)
                      \/ \E amount \in WithdrawAmounts : Withdraw(a, d, amount)
                      \/ \E amount \in LoanAmounts : Borrow(a, d, amount)
                      \/ \E amount \in RepaidAmounts : Repay(a, d, amount)
                      \/ \E b \in Users, amount \in TransferAmounts :
                            Transfer(a, b, d, amount)
               PROVE  Kept
    BY <1>1 DEF MarketNext
  <2>1. ASSUME NEW amount \in DepositAmounts, Deposit(a, d, amount) PROVE Kept
    BY <2>1, <1>a, <1>b, DepositProceeds DEF Deposit
  <2>2. ASSUME NEW amount \in WithdrawAmounts, Withdraw(a, d, amount) PROVE Kept
    BY <2>2, <1>a, <1>b, WithdrawProceeds DEF Withdraw
  <2>3. ASSUME NEW amount \in LoanAmounts, Borrow(a, d, amount) PROVE Kept
    BY <2>3, <1>a, <1>b, BorrowProceeds DEF Borrow
  <2>4. ASSUME NEW amount \in RepaidAmounts, Repay(a, d, amount) PROVE Kept
    BY <2>4, <1>a, <1>b, RepayProceeds DEF Repay, markets
  <2>5. ASSUME NEW b \in Users, NEW amount \in TransferAmounts, Transfer(a, b, d, amount)
        PROVE  Kept
    BY <2>5, <1>a, <1>b, TransferProceeds DEF Transfer
  <2> QED BY <2>1, <2>2, <2>3, <2>4, <2>5
<1>2. CASE AgencyNext
  <2>1. ASSUME NEW a \in Users, NEW d \in Denoms, ExitMarket(a, d) PROVE Kept
    BY <2>1, <1>a, ExitMarketKeeps DEF ExitMarket, Kept
  <2>2. ASSUME NEW a \in Users, NEW c \in Denoms, NEW d \in Denoms, NEW b \in Users,
               NEW amount \in RepaidAmounts, Liquidate(b, a, d, amount, c)
        PROVE  Kept
    BY <2>2, <1>a, <1>b, LiquidateProceeds DEF Liquidate
  <2>3. ASSUME NEW a \in Users, NEW c \in Denoms, NEW d \in Denoms,
               NEW amount \in RepaidAmounts, NEW estimate \in SellLimits,
               NEW sell_limit \in SellLimits,
               RepayWithCollateral(a, c, sell_limit, d, amount, estimate)
        PROVE  Kept
    BY <2>3, <1>a, <1>b, RepayWithCollateralProceeds DEF RepayWithCollateral
  <2> QED BY <1>2, <2>1, <2>2, <2>3 DEF AgencyNext
<1>3. CASE GovernanceNext
  <2>1. ASSUME NEW d \in Denoms, NEW ratio \in CollateralRatios, CreateMarket(d, ratio)
        PROVE  Kept
    BY <2>1, <1>a, CreateMarketKeeps DEF CreateMarket, Kept
  <2>2. ASSUME NEW d \in Denoms, NEW ratio \in CollateralRatios,
               AdjustCollateralRatio(d, ratio)
        PROVE  Kept
    BY <2>2, <1>a, <1>b, AdjustRatioProceeds DEF AdjustCollateralRatio
  <2>3. ASSUME NEW new \in CommonTokens, AdjustCommonToken(new) PROVE Kept
    BY <2>3, <1>a, <1>b, AdjustCommonTokenProceeds DEF AdjustCommonToken
  <2> QED BY <1>3, <2>1, <2>2, <2>3 DEF GovernanceNext
<1>4. CASE OracleNext
  <2>1. ASSUME NEW pair \in Pairs, RegisterPool(pair) \/ \E price \in Prices : ChangePrice(pair, price)
        PROVE  now' = now /\ \E oracles : platform' = [platform EXCEPT !.oracles = oracles]
    <3>1. platform \in PlatformState  BY <1>a DEF PlatformSound
    <3>2. CASE RegisterPool(pair)
      <4> DEFINE o == [platform.oracles EXCEPT ![Oracle] = register_pool(@, pair, pair[1], pair[2])]
      <4>1. platform' = [platform EXCEPT !.oracles = o] /\ now' = now
        BY <3>1, <3>2 DEF RegisterPool, PlatformState
      <4> QED BY <4>1
    <3>3. ASSUME NEW price \in Prices, ChangePrice(pair, price)
          PROVE  now' = now /\ \E oracles : platform' = [platform EXCEPT !.oracles = oracles]
      <4> DEFINE o == [platform.oracles EXCEPT ![Oracle].twaps[pair] = price]
      <4>1. platform' = [platform EXCEPT !.oracles = o] /\ now' = now
        BY <3>1, <3>3 DEF ChangePrice, PlatformState
      <4> QED BY <4>1
    <3> QED BY <2>1, <3>2, <3>3
  <2>2. PICK oracles : platform' = [platform EXCEPT !.oracles = oracles]
    BY <1>4, <2>1 DEF OracleNext
  <2>3. now' = now  BY <1>4, <2>1 DEF OracleNext
  <2> QED BY <1>a, <1>b, <2>2, <2>3, OracleProceeds
<1>5. ASSUME platform' = platform PROVE Kept
  BY <1>5, <1>a, SameGrown DEF Kept
<1>6. CASE Tick \/ UNCHANGED vars
  BY <1>5, <1>6 DEF Tick, vars
<1> QED BY <1>1, <1>2, <1>3, <1>4, <1>6 DEF Next, Kept

\* In every reachable state the platform is sound and the debts are counted.
PlatformDebts == PlatformInv /\ Counted(platform)

LEMMA PlatformDebtsHold == Spec => []PlatformDebts
<1>1. Init => PlatformDebts
  BY PlatformInvInit, CountedInit DEF PlatformDebts
<1>2. PlatformDebts /\ [Next]_vars => PlatformDebts'
  BY PlatformInvStep, CountedStep DEF PlatformDebts
<1> QED BY <1>1, <1>2, PTL DEF Spec

-----------------------------------------------------------------------------
(***************************************************************************)
(* What follows about the debts.                                           *)
(***************************************************************************)
\* The total debt of every market is the sum of what the accounts owe to it.
MarketsExact == \A d \in listed(platform) : markets[d].total_points = SumFunction(markets[d].debt)

\* Liquidations and repayments with collateral, which run handlers of two
\* markets, keep the totals exact, like everything else that may reach a market.
THEOREM TotalsAreExactOnPlatform == Spec => []MarketsExact
<1>1. PlatformDebts => MarketsExact
  BY DEF PlatformDebts, Counted, Lent, Exact, MarketsExact, markets
<1> QED BY <1>1, PlatformDebtsHold, PTL

\* Nobody gets out of sight of the credit agency with a debt: every way into a
\* debt enters the market, and the way out is closed while the debt has a
\* value at the lowest price, with the interest that was charged or is pending.
THEOREM DebtorsStayInside == Spec => []DebtsAreCounted
<1>1. PlatformDebts => DebtsAreCounted
  BY PlatformAssumption DEF PlatformDebts, Counted, DebtsAreCounted, markets, entered
<1> QED BY <1>1, PlatformDebtsHold, PTL

\* In no market of the platform a debt, or a C token, loses value to interest
\* or to a transaction, and no market disappears.
WorthOnPlatform == [][Grown(platform, platform')]_vars

\* Interest only accrues, whatever governance adjusts and whoever is
\* liquidated.
THEOREM WorthNeverFallsOnPlatform == Spec => WorthOnPlatform
<1>1. PlatformDebts /\ PlatformDebts' /\ [Next]_vars => [Grown(platform, platform')]_vars
  BY CountedStep DEF PlatformDebts
<1> QED BY <1>1, PlatformDebtsHold, PTL DEF Spec, WorthOnPlatform

-----------------------------------------------------------------------------
(***************************************************************************)
(* Debts are paid.                                                         *)
(***************************************************************************)
\* Debts that fall from p to q fall in markets whose cash rises.
Paid(p, q) ==
    \A d \in listed(p), a \in Accounts :
       q.markets[d].debt[a] < p.markets[d].debt[a] => q.markets[d].cash > p.markets[d].cash

\* A transaction that changes one market.
LEMMA OneMarketPaid ==
  ASSUME NEW p, NEW t, PlatformSound(p, t), Lent(p), NEW d \in listed(p), NEW m, NEW q,
         q.markets = [p.markets EXCEPT ![d] = m],
         \A a \in Accounts :
            m.debt[a] < p.markets[d].debt[a] => m.cash > p.markets[d].cash
  PROVE  Paid(p, q)
<1>1. ASSUME NEW k \in listed(p), NEW a \in Accounts
      PROVE  q.markets[k].debt[a] < p.markets[k].debt[a]
               => q.markets[k].cash > p.markets[k].cash
  <2>1. p.markets[k].debt[a] \in Nat  BY ListedRated
  <2>2. CASE k = d  BY <2>2 DEF listed
  <2>3. CASE k # d
    <3>1. q.markets[k] = p.markets[k]  BY <2>3 DEF listed
    <3> QED BY <2>1, <3>1
  <2> QED BY <2>2, <2>3
<1> QED BY <1>1 DEF Paid

\* Markets whose debts stay as they are.
LEMMA SameDebtsPaid ==
  ASSUME NEW p, NEW t, PlatformSound(p, t), Lent(p), NEW q,
         \A d \in listed(p) : q.markets[d].debt = p.markets[d].debt
  PROVE  Paid(p, q)
<1>1. \A d \in listed(p), a \in Accounts : p.markets[d].debt[a] \in Nat
  BY ListedRated
<1> QED BY <1>1 DEF Paid

\* The messages to a market.
LEMMA MarketPaid ==
  ASSUME NEW p, NEW t \in Nat, PlatformSound(p, t), Lent(p), NEW a \in Accounts,
         NEW b \in Accounts, NEW d, NEW amount \in Nat \ {0}, NEW credit, NEW q,
         \/ MarketDepositOK(p, t, a, d, amount) /\ q = market_deposit(p, t, a, d, amount)
         \/ /\ MarketWithdrawOK(p, t, a, d, amount, credit)
            /\ q = market_withdraw(p, t, a, d, amount)
         \/ /\ MarketBorrowOK(p, t, a, d, amount, credit)
            /\ q = market_borrow(p, t, a, d, amount)
         \/ /\ MarketRepayOK(p, t, a, d, amount)
            /\ base_to_token(amount, charge_interest(p.markets[d], t).debt_multiplier)
                 <= p.markets[d].debt[a]
            /\ q = market_repay(p, t, a, d, amount)
         \/ /\ CTokenTransferOK(p, a, b, d, amount, credit)
            /\ q = ctoken_transfer(p, a, b, d, amount)
  PROVE  Paid(p, q)
<1> DEFINE m == p.markets[d]
           K == Configs({p.common_token})
           charged == charge_interest(m, t)
<1>1. d \in listed(p)
  BY DEF MarketDepositOK, MarketWithdrawOK, MarketBorrowOK, MarketRepayOK, CTokenTransferOK
<1>2. Sound(K, m, t) /\ Exact(m) /\ (\A x \in Accounts : m.debt[x] \in Nat) /\ m \in StoredMarket(K)
  <2>1. Sound(K, m, t) /\ Exact(m) /\ \A x \in Accounts : m.debt[x] \in Nat
    BY <1>1, ListedRated
  <2> HIDE DEF m, K
  <2> QED BY <2>1 DEF Sound
<1>3. ASSUME NEW n, q.markets = [p.markets EXCEPT ![d] = n],
             \A x \in Accounts : n.debt[x] < m.debt[x] => n.cash > m.cash
      PROVE  Paid(p, q)
  BY <1>1, <1>3, OneMarketPaid
<1>4. ASSUME NEW n, q.markets = [p.markets EXCEPT ![d] = n], n.debt = m.debt
      PROVE  Paid(p, q)
  <2> HIDE DEF m
  <2>1. \A x \in Accounts : ~ (n.debt[x] < m.debt[x])  BY <1>2, <1>4
  <2> QED BY <1>3, <1>4, <2>1
<1>5. ChargeOK(m, t) => charged.debt = m.debt
  <2> HIDE DEF m, K
  <2> QED BY <1>2, ChargeSound
<1>6. CASE MarketDepositOK(p, t, a, d, amount) /\ q = market_deposit(p, t, a, d, amount)
  <2> DEFINE n == deposit(m, t, a, amount)
  <2>1. DepositOK(m, t, a, amount)  BY <1>6 DEF MarketDepositOK
  <2>2. q.markets = [p.markets EXCEPT ![d] = n]
    BY <1>1, <1>6, PlatformFields DEF market_deposit
  <2>3. n.debt = m.debt
    <3> HIDE DEF m, K
    <3> QED BY <1>2, <1>5, <2>1, DepositEffect DEF SameDebts
  <2> HIDE DEF n
  <2> QED BY <1>4, <2>2, <2>3
<1>7. CASE /\ MarketWithdrawOK(p, t, a, d, amount, credit)
           /\ q = market_withdraw(p, t, a, d, amount)
  <2> DEFINE n == withdraw(m, t, a, amount)
  <2>1. WithdrawBaseOK(m, t, a, amount)  BY <1>7 DEF MarketWithdrawOK
  <2>2. q.markets = [p.markets EXCEPT ![d] = n]
    BY <1>1, <1>7, PlatformFields DEF market_withdraw
  <2>3. n.debt = m.debt
    <3> HIDE DEF m, K
    <3> QED BY <1>2, <1>5, <2>1, WithdrawEffect DEF SameDebts
  <2> HIDE DEF n
  <2> QED BY <1>4, <2>2, <2>3
<1>8. CASE MarketBorrowOK(p, t, a, d, amount, credit) /\ q = market_borrow(p, t, a, d, amount)
  <2> DEFINE n == borrow(m, t, a, amount)
  <2>1. BorrowOK(m, t, a, amount)  BY <1>8 DEF MarketBorrowOK
  <2>2. q.markets = [p.markets EXCEPT ![d] = n]
    BY <1>1, <1>8, PlatformFields DEF market_borrow
  <2>3. n \in StoredMarket(K) /\ \A x \in Accounts : n.debt[x] >= m.debt[x]
    <3> HIDE DEF m, K
    <3>1. \A x \in Accounts : n.debt[x] >= m.debt[x]
      BY <1>2, <1>5, <2>1, BorrowEffect
    <3>2. n \in StoredMarket(K)  BY <1>2, <2>1, BorrowSound DEF Sound
    <3> QED BY <3>1, <3>2
  <2> HIDE DEF n
  <2>4. \A x \in Accounts : n.debt[x] \in Nat  BY <2>3, StoredNat
  <2> HIDE DEF m
  <2>5. \A x \in Accounts : ~ (n.debt[x] < m.debt[x])  BY <1>2, <2>3, <2>4
  <2> QED BY <1>3, <2>2, <2>5
<1>9. CASE /\ MarketRepayOK(p, t, a, d, amount)
           /\ base_to_token(amount, charge_interest(p.markets[d], t).debt_multiplier)
                <= p.markets[d].debt[a]
           /\ q = market_repay(p, t, a, d, amount)
  <2> DEFINE n == repay(m, t, a, amount)
  <2>1. /\ RepayOK(m, t, a, amount)
        /\ base_to_token(amount, charged.debt_multiplier) <= m.debt[a]
    BY <1>9 DEF MarketRepayOK
  <2>2. q.markets = [p.markets EXCEPT ![d] = n]
    BY <1>1, <1>9, PlatformFields DEF market_repay
  <2>3. n.cash > m.cash
    <3> HIDE DEF m, K
    <3>1. n.cash = m.cash + amount
      BY <1>2, <2>1, RepayEffect DEF RepayOK
    <3>2. m.cash \in Nat  BY <1>2, StoredNat
    <3> QED BY <3>1, <3>2
  <2> HIDE DEF n
  <2> QED BY <1>3, <2>2, <2>3
<1>10. CASE CTokenTransferOK(p, a, b, d, amount, credit) /\ q = ctoken_transfer(p, a, b, d, amount)
  <2> DEFINE n == [m EXCEPT !.ctoken = transfer_tokens(@, a, b, amount)]
  <2>1. q.markets = [p.markets EXCEPT ![d] = n]
    <3>1. p \in PlatformState /\ p.markets \in Partial(Denoms, MarketState)
      BY DEF PlatformSound, PlatformState
    <3> QED BY <1>1, <1>10, <3>1 DEF ctoken_transfer, Partial, PlatformState, listed
  <2>2. n.debt = m.debt
    <3> HIDE DEF m, K
    <3> QED BY <1>2 DEF StoredMarket
  <2> HIDE DEF n
  <2> QED BY <1>4, <2>1, <2>2
<1> QED BY <1>6, <1>7, <1>8, <1>9, <1>10

\* RepayTo, as a part of a transaction, brings its amount into the market.
LEMMA RepaidPaid ==
  ASSUME NEW p, NEW t \in Nat, PlatformSound(p, t), Lent(p), NEW a \in Accounts,
         NEW d \in listed(p), NEW amount \in Nat \ {0}, RepayToOK(p.markets[d], t, a, amount),
         NEW q, q = repaid(p, t, a, d, amount)
  PROVE  /\ q.markets[d].cash > p.markets[d].cash
         /\ \A k \in listed(p) \ {d} : q.markets[k] = p.markets[k]
<1> DEFINE m == p.markets[d]
           K == Configs({p.common_token})
           n == repay_to(m, t, a, amount)
<1>1. q.markets = [p.markets EXCEPT ![d] = n]
  BY PlatformFields DEF repaid
<1>2. Sound(K, m, t) /\ Exact(m) /\ Rated(m) /\ RepayToOK(m, t, a, amount)
  BY ListedRated
<1>3. n.cash > m.cash
  <2> HIDE DEF m, K
  <2>1. base_to_token(amount, charge_interest(m, t).debt_multiplier) <= m.debt[a]
    BY <1>2, RepaidWithinDebt
  <2>2. n.cash = m.cash + amount
    BY <1>2, <2>1, RepayEffect DEF RepayToOK
  <2>3. m.cash \in Nat  BY <1>2, StoredNat DEF Sound
  <2> QED BY <2>2, <2>3
<1> HIDE DEF n
<1> QED BY <1>1, <1>3 DEF listed

\* A liquidation pays the debt with the liquidator's tokens.
LEMMA LiquidatePaid ==
  ASSUME NEW p, NEW t \in Nat, PlatformSound(p, t), Lent(p), NEW sender \in Accounts,
         NEW account \in Accounts, NEW d, NEW amount \in Nat \ {0}, NEW c,
         LiquidateOK(p, t, sender, account, d, amount, c),
         NEW q, q = liquidate(p, t, sender, account, d, amount, c)
  PROVE  Paid(p, q)
<1> DEFINE r == repaid(p, t, account, d, amount)
           value == MulInt(amount, Price(p, d))
           price == Price(p, c)
           m == transfer_from(r.markets[c], t, account, sender, value, price,
                              p.liquidation_price)
<1>1. /\ c \in listed(p) /\ d \in listed(p)
      /\ RepayToOK(p.markets[d], t, account, amount)
      /\ TransferFromOK(r.markets[c], t, account, sender, value, price,
                        p.liquidation_price)
  BY DEF LiquidateOK
<1>2. q = enter_market([r EXCEPT !.markets[c] = m], c, sender)
  BY DEF liquidate
<1>3. /\ PlatformSound(r, t) /\ listed(r) = listed(p) /\ Lent(r)
      /\ r.markets[d].cash > p.markets[d].cash
      /\ \A k \in listed(p) \ {d} : r.markets[k] = p.markets[k]
  BY <1>1, RepaidSound, RepaidProceeds, RepaidPaid
<1> HIDE DEF r, value, price
<1>4. m.debt = r.markets[c].debt /\ m.cash = r.markets[c].cash
  <2> DEFINE n == r.markets[c]
             K == Configs({r.common_token})
             e == charge_interest(n, t)
             tokens == FromBase(e.ctoken, RepaidValue(value, price, p.liquidation_price))
  <2>1. Sound(K, n, t) /\ TransferFromOK(n, t, account, sender, value, price,
                                         p.liquidation_price)
    BY <1>1, <1>3, ListedRated
  <2>2. m = [e EXCEPT !.ctoken = transfer_tokens(@, account, sender, tokens)]
    BY DEF transfer_from
  <2> HIDE DEF n, K, m, tokens
  <2>3. e.debt = n.debt /\ e.cash = n.cash /\ e \in StoredMarket(K)
    BY <2>1, ChargeSound DEF TransferFromOK, Sound
  <2> HIDE DEF e
  <2>4. m.debt = e.debt /\ m.cash = e.cash
    BY <2>2, <2>3 DEF StoredMarket
  <2> QED BY <2>3, <2>4 DEF n
<1> HIDE DEF m
<1>5. q.markets = [r.markets EXCEPT ![c] = m]
  BY <1>1, <1>2, <1>3, PlatformFields
<1>6. \A k \in listed(p) : /\ q.markets[k].debt = r.markets[k].debt
                           /\ q.markets[k].cash = r.markets[k].cash
  BY <1>3, <1>4, <1>5 DEF listed
<1>7. \A k \in listed(p), b \in Accounts : p.markets[k].debt[b] \in Nat
  BY ListedRated
<1> QED BY <1>3, <1>6, <1>7 DEF Paid

\* A repayment with collateral that is sold pays the debt with the tokens that
\* the swap buys.
LEMMA SoldCollateralPaid ==
  ASSUME NEW p, NEW t \in Nat, PlatformSound(p, t), Lent(p), NEW a \in Accounts, NEW c,
         NEW max_collateral \in Nat, NEW d, NEW amount \in Nat \ {0}, NEW estimate, c # d,
         RepayWithCollateralOK(p, t, a, c, max_collateral, d, amount, estimate),
         NEW q, q = repay_with_collateral(p, t, a, c, max_collateral, d, amount, estimate)
  PROVE  Paid(p, q)
<1> DEFINE limit == SellLimit(p, c, max_collateral)
           w == withdrawn(p, a, c, limit, d, amount, estimate)
           m == swap_withdraw_from(p.markets[c], a, estimate, limit)
<1>1. /\ c \in listed(p) /\ d \in listed(p) /\ RepayToOK(w.markets[d], t, a, amount)
      /\ limit \in Nat
  BY RepaymentAsks
<1>2. PlatformSound(w, t) /\ d \in listed(w)
  BY WithdrawnSound
<1>3. w = [p EXCEPT !.markets[c] = m]
  <2>1. p \in PlatformState /\ p.markets \in Partial(Denoms, MarketState)
    BY DEF PlatformSound, PlatformState
  <2> QED BY <1>1, <2>1 DEF withdrawn, Partial, PlatformState, listed
<1>4. Advances(p.markets[c], m, t) /\ Unlent(p.markets[c], m) /\ m.debt = p.markets[c].debt
  <2> DEFINE n == p.markets[c]
  <2>1. n \in StoredMarket(Configs(CommonTokens))
    BY <1>1, ListedRated DEF MarketState
  <2> HIDE DEF n
  <2>2. /\ Advances(n, swap_withdraw_from(n, a, estimate, limit), t)
        /\ Unlent(n, swap_withdraw_from(n, a, estimate, limit))
    BY <2>1, <1>1, SaleAdvances
  <2>3. swap_withdraw_from(n, a, estimate, limit).debt = n.debt
    BY <2>1 DEF swap_withdraw_from, pay, StoredMarket
  <2> QED BY <2>2, <2>3 DEF n
<1> HIDE DEF m
<1>5. w.markets = [p.markets EXCEPT ![c] = m] /\ w.entered = p.entered
  BY <1>1, <1>3, PlatformFields
<1>6. q = repaid(w, t, a, d, amount)
  BY DEF repay_with_collateral
<1> HIDE DEF w
<1>7. Lent(w) /\ listed(w) = listed(p)
  BY <1>1, <1>4, <1>5, OneMarketProceeds DEF Unlent, Proceeds
<1>8. /\ q.markets[d].cash > w.markets[d].cash
      /\ \A k \in listed(w) \ {d} : q.markets[k] = w.markets[k]
  BY <1>1, <1>2, <1>6, <1>7, RepaidPaid
<1>9. w.markets[d] = p.markets[d] /\ \A k \in listed(p) : w.markets[k].debt = p.markets[k].debt
  BY <1>1, <1>4, <1>5 DEF listed
<1>10. \A k \in listed(p), b \in Accounts : p.markets[k].debt[b] \in Nat
  BY ListedRated
<1> QED BY <1>7, <1>8, <1>9, <1>10 DEF Paid

\* A repayment with collateral in the token that is owed.
SameTokenRepayment ==
    \E a \in Users, d \in Denoms, amount \in RepaidAmounts,
       estimate \in SellLimits, max_collateral \in SellLimits :
       RepayWithCollateral(a, d, max_collateral, d, amount, estimate)

\* Every other step that takes off a debt brings tokens into its market.
LEMMA PaidStep ==
  PlatformInv /\ Counted(platform) /\ [Next]_vars
    => SameTokenRepayment \/ Paid(platform, platform')
<1> SUFFICES ASSUME PlatformInv, Counted(platform), [Next]_vars, ~ SameTokenRepayment
             PROVE  Paid(platform, platform')
  OBVIOUS
<1> USE DEF Commit
<1>a. /\ now \in Nat /\ PlatformSound(platform, now) /\ Lent(platform)
      /\ Users \subseteq Accounts
      /\ DepositAmounts \subseteq Nat \ {0} /\ WithdrawAmounts \subseteq Nat \ {0}
      /\ LoanAmounts \subseteq Nat \ {0} /\ RepaidAmounts \subseteq Nat \ {0}
      /\ TransferAmounts \subseteq Nat \ {0} /\ SellLimits \subseteq Nat
  BY PlatformAssumption DEF PlatformInv, Counted
<1>b. ASSUME \A d \in listed(platform) : platform'.markets[d].debt = platform.markets[d].debt
      PROVE  Paid(platform, platform')
  BY <1>a, <1>b, SameDebtsPaid
<1>p. platform \in PlatformState /\ platform.markets \in Partial(Denoms, MarketState)
      /\ platform.markets \in [listed(platform) -> MarketState]
  BY <1>a DEF PlatformSound, PlatformState, Partial, listed
<1>1. CASE MarketNext
  <2> SUFFICES ASSUME NEW a \in Users, NEW d \in Denoms,
                      \/ \E amount \in DepositAmounts : Deposit(a, d, amount)
                      \/ \E amount \in WithdrawAmounts : Withdraw(a, d, amount)
                      \/ \E amount \in LoanAmounts : Borrow(a, d, amount)
                      \/ \E amount \in RepaidAmounts : Repay(a, d, amount)
                      \/ \E b \in Users, amount \in TransferAmounts :
                            Transfer(a, b, d, amount)
               PROVE  Paid(platform, platform')
    BY <1>1 DEF MarketNext
  <2>1. ASSUME NEW amount \in DepositAmounts, Deposit(a, d, amount)
        PROVE  Paid(platform, platform')
    BY <2>1, <1>a, MarketPaid DEF Deposit
  <2>2. ASSUME NEW amount \in WithdrawAmounts, Withdraw(a, d, amount)
        PROVE  Paid(platform, platform')
    BY <2>2, <1>a, MarketPaid DEF Withdraw
  <2>3. ASSUME NEW amount \in LoanAmounts, Borrow(a, d, amount)
        PROVE  Paid(platform, platform')
    BY <2>3, <1>a, MarketPaid DEF Borrow
  <2>4. ASSUME NEW amount \in RepaidAmounts, Repay(a, d, amount)
        PROVE  Paid(platform, platform')
    BY <2>4, <1>a, MarketPaid DEF Repay, markets
  <2>5. ASSUME NEW b \in Users, NEW amount \in TransferAmounts, Transfer(a, b, d, amount)
        PROVE  Paid(platform, platform')
    BY <2>5, <1>a, MarketPaid DEF Transfer
  <2> QED BY <2>1, <2>2, <2>3, <2>4, <2>5
<1>2. CASE AgencyNext
  <2>1. ASSUME NEW a \in Users, NEW d \in Denoms, ExitMarket(a, d)
        PROVE  Paid(platform, platform')
    <3>1. platform'.markets = platform.markets
      BY <2>1, <1>p DEF ExitMarket, exit_market, PlatformState
    <3> QED BY <3>1, <1>b
  <2>2. ASSUME NEW a \in Users, NEW c \in Denoms, NEW d \in Denoms, NEW b \in Users,
               NEW amount \in RepaidAmounts, Liquidate(b, a, d, amount, c)
        PROVE  Paid(platform, platform')
    BY <2>2, <1>a, LiquidatePaid DEF Liquidate
  <2>3. ASSUME NEW a \in Users, NEW c \in Denoms, NEW d \in Denoms,
               NEW amount \in RepaidAmounts, NEW estimate \in SellLimits,
               NEW sell_limit \in SellLimits,
               RepayWithCollateral(a, c, sell_limit, d, amount, estimate)
        PROVE  Paid(platform, platform')
    <3>1. c # d  BY <2>3 DEF SameTokenRepayment
    <3> QED BY <2>3, <3>1, <1>a, SoldCollateralPaid DEF RepayWithCollateral
  <2> QED BY <1>2, <2>1, <2>2, <2>3 DEF AgencyNext
<1>3. CASE GovernanceNext
  <2>1. ASSUME NEW d \in Denoms, NEW ratio \in CollateralRatios, CreateMarket(d, ratio)
        PROVE  Paid(platform, platform')
    <3> DEFINE m == instantiate(now, market_msg(platform, MarketConfig(ratio)))
    <3>1. d \notin listed(platform) /\ platform'.markets = Saved(platform.markets, d, m)
      BY <2>1, <1>p DEF CreateMarket, CreateMarketOK, create_market, PlatformState
    <3> HIDE DEF m
    <3>2. \A k \in listed(platform) : platform'.markets[k] = platform.markets[k]
      BY <3>1 DEF Saved, listed
    <3> QED BY <3>2, <1>b
  <2>2. ASSUME NEW d \in Denoms, NEW ratio \in CollateralRatios,
               AdjustCollateralRatio(d, ratio)
        PROVE  Paid(platform, platform')
    <3> DEFINE m == [platform.markets[d] EXCEPT !.collateral_ratio = ratio]
    <3>1. platform'.markets = [platform.markets EXCEPT ![d] = m] /\ d \in listed(platform)
      BY <2>2, <1>p DEF AdjustCollateralRatio, PlatformState, listed
    <3>2. m.debt = platform.markets[d].debt
      <4>1. platform.markets[d] \in MarketState  BY <1>p, <3>1
      <4> QED BY <4>1 DEF MarketState, StoredMarket
    <3> HIDE DEF m
    <3>3. \A k \in listed(platform) : platform'.markets[k].debt = platform.markets[k].debt
      BY <3>1, <3>2 DEF listed
    <3> QED BY <3>3, <1>b
  <2>3. ASSUME NEW new \in CommonTokens, AdjustCommonToken(new)
        PROVE  Paid(platform, platform')
    <3>1. platform'.markets = [d \in listed(platform) |->
                                 adjust_common_token(platform.markets[d], new)]
      BY <2>3, <1>p DEF AdjustCommonToken, adjust_agency_common_token, PlatformState
    <3>2. \A d \in listed(platform) :
             adjust_common_token(platform.markets[d], new).debt = platform.markets[d].debt
      BY <1>p DEF adjust_common_token, MarketState, StoredMarket
    <3>3. \A d \in listed(platform) : platform'.markets[d].debt = platform.markets[d].debt
      BY <3>1, <3>2
    <3> QED BY <3>3, <1>b
  <2> QED BY <1>3, <2>1, <2>2, <2>3 DEF GovernanceNext
<1>4. CASE OracleNext \/ Tick \/ UNCHANGED vars
  <2>1. platform'.markets = platform.markets
    BY <1>4, <1>p DEF OracleNext, RegisterPool, ChangePrice, Tick, vars, PlatformState
  <2> QED BY <2>1, <1>b
<1> QED BY <1>1, <1>2, <1>3, <1>4 DEF Next

\* Debts that fall are paid, but for one message.
PaidUnlessSameToken ==
    [][SameTokenRepayment
         \/ \A a \in Users, d \in Denoms :
               d \in listed(platform) /\ markets'[d].debt[a] < markets[d].debt[a]
                 => markets'[d].cash > markets[d].cash]_vars

\* Whoever's debt falls, tokens came into the market to which it was owed.
\* The one exception is RepayWithCollateral of the token that is owed itself,
\* where the market pays the debt with its own cash and burns no C tokens.
THEOREM SameTokenIsTheOnlyGift == Spec => PaidUnlessSameToken
<1>1. PlatformDebts /\ [Next]_vars
        => [SameTokenRepayment
              \/ \A a \in Users, d \in Denoms :
                    d \in listed(platform) /\ markets'[d].debt[a] < markets[d].debt[a]
                      => markets'[d].cash > markets[d].cash]_vars
  <2>1. Users \subseteq Accounts  BY PlatformAssumption
  <2> QED BY <2>1, PaidStep DEF PlatformDebts, Paid, markets
<1> QED BY <1>1, PlatformDebtsHold, PTL DEF Spec, PaidUnlessSameToken

\* Where nobody repays with collateral, every debt is paid: DebtIsPaid, which
\* the message breaks for equal tokens.
THEOREM DebtsArePaid ==
  ASSUME SellLimits = {}
  PROVE  Spec => DebtIsPaid
<1>1. PlatformDebts /\ [Next]_vars
        => [\A a \in Users, d \in Denoms :
              d \in listed(platform) /\ markets'[d].debt[a] < markets[d].debt[a]
                => \/ markets'[d].cash > markets[d].cash
                   \/ \E c \in listed(platform) :
                         markets'[c].ctoken.balances[a] < markets[c].ctoken.balances[a]]_vars
  <2>1. Users \subseteq Accounts  BY PlatformAssumption
  <2>2. ~ SameTokenRepayment  BY DEF SameTokenRepayment
  <2> QED BY <2>1, <2>2, PaidStep DEF PlatformDebts, Paid, markets
<1> QED BY <1>1, PlatformDebtsHold, PTL DEF Spec, DebtIsPaid

-----------------------------------------------------------------------------
(***************************************************************************)
(* What the queries answer is granted.                                     *)
(***************************************************************************)
\* The least of a nonempty set of natural numbers.
LEMMA LeastIs ==
  ASSUME NEW amounts, amounts \subseteq Nat, amounts # {}
  PROVE  Least(amounts) \in amounts /\ \A other \in amounts : Least(amounts) <= other
<1>1. \E least \in amounts : \A other \in amounts : least <= other
  BY LeastNat
<1> QED BY <1>1 DEF Least

\* Base tokens within a balance are, once interest is charged, worth no more C
\* tokens than the balance.
LEMMA WithinBalance ==
  ASSUME NEW tokens \in Nat, NEW multiplier \in Nat, NEW held \in Nat,
         NEW charged \in Nat \ {0}, tokens <= held, multiplier <= charged,
         NEW out \in Nat, out <= token_to_base(tokens, multiplier)
  PROVE  base_to_token(out, charged) \in Nat /\ base_to_token(out, charged) <= held
<1> DEFINE f == DecimalFractional
           x == tokens * multiplier
           q == x \div f
           n == base_to_token(out, charged)
<1>1. f \in Nat \ {0} /\ One = f  BY FractionAssumption DEF One
<1>2. x \in Nat /\ x <= held * charged /\ held * charged \in Nat
  <2>1. tokens * multiplier <= held * multiplier  BY TimesMonotone
  <2>2. held * multiplier <= held * charged  BY TimesMonotone
  <2> QED BY <2>1, <2>2
<1>3. out <= q
  BY DEF token_to_base, MulInt
<1>4. q \in Nat /\ f * q <= x
  <2> HIDE DEF f, x
  <2> QED BY <1>1, <1>2, DivBounds
<1> HIDE DEF q, x
<1>5. f * out <= f * q  BY <1>1, <1>3, <1>4, TimesMonotone
<1>6. n \in Nat /\ n * charged <= out * One
  BY ConvertedWorth
<1> HIDE DEF n
<1>7. out * One = f * out /\ f * out \in Int /\ f * q \in Int /\ n * charged \in Int
  BY <1>1, <1>4, <1>6
<1>8. n * charged <= held * charged
  BY <1>1, <1>2, <1>4, <1>5, <1>6, <1>7
<1>9. n <= held
  <2> SUFFICES ASSUME held + 1 <= n PROVE FALSE  BY <1>6
  <2>1. (held + 1) * charged <= n * charged  BY <1>6, TimesMonotone
  <2>2. (held + 1) * charged = held * charged + charged  OBVIOUS
  <2> QED BY <1>2, <1>7, <1>8, <2>1, <2>2
<1> QED BY <1>6, <1>9 DEF n

\* The answer to Withdrawable can be burnt and paid, once interest is charged.
LEMMA WithdrawableGranted ==
  ASSUME NEW K, NEW m, NEW t \in Nat, Sound(K, m, t), Rated(m), ChargeOK(m, t),
         m.ctoken.multiplier > 0, NEW a \in Accounts, NEW credit, NEW price \in Nat \ {0},
         m.collateral_ratio \in Nat, TransferableOK(m, credit, price),
         NEW out, out = withdrawable(m, a, credit, price),
         FromBase(charge_interest(m, t).ctoken, out) > 0
  PROVE  /\ CanTransfer(m, a, credit, price, out)
         /\ WithdrawBaseOK(m, t, a, out)
<1> DEFINE c == charge_interest(m, t)
           able == borrowable_tokens(credit, price)
           base == divide(able, m.collateral_ratio)
           all == transferable_amount(m, a, credit, price)
           balance == BaseBalance(m.ctoken, a)
           n == FromBase(c.ctoken, out)
<1>1. /\ m \in StoredMarket(K) /\ m.ctoken.multiplier \in Nat \ {0} /\ m.cash \in Nat
      /\ m.ctoken.balances[a] \in Nat
  BY StoredNat DEF Sound
<1>2. /\ Sound(K, c, t) /\ c \in StoredMarket(K) /\ c.ctoken \in TokenState
      /\ c.ctoken.balances[a] \in 0 .. Modulus - 1
      /\ c.ctoken.multiplier \in Nat /\ c.ctoken.total_supply \in Nat
  <2>1. Sound(K, c, t)  BY ChargeSound
  <2> HIDE DEF c
  <2>2. c \in StoredMarket(K)  BY <2>1 DEF Sound
  <2>3. c.ctoken \in TokenState /\ c.ctoken.multiplier \in Nat /\ c.ctoken.total_supply \in Nat
    BY <2>2, StoredNat
  <2> QED BY <2>1, <2>2, <2>3 DEF TokenState
<1>3. /\ c.ctoken.multiplier >= m.ctoken.multiplier
      /\ c.ctoken.balances[a] >= m.ctoken.balances[a]
  BY ChargeGrows, ChargeTokens
<1>4. all \in Nat /\ balance \in Nat
  <2>1. able \in Nat
    <3>1. price > 0 /\ available(credit) * One \in Nat
      BY ModulusAssumption DEF TransferableOK, BorrowableOK, DivideOK, Fits
    <3> QED BY <3>1, DivType DEF borrowable_tokens, divide
  <2>2. base \in Nat
    <3>1. m.collateral_ratio > 0 /\ able * One \in Nat
      BY ModulusAssumption DEF TransferableOK, DivideOK, Fits
    <3> HIDE DEF able
    <3> QED BY <3>1, DivType DEF divide
  <2> DEFINE tokens == FromBase(m.ctoken, base)
  <2>3. all = IF credit.debt # 0 THEN base
              ELSE IF tokens >= m.ctoken.balances[a] THEN tokens ELSE m.ctoken.balances[a]
    BY DEF transferable_amount
  <2> HIDE DEF base
  <2>4. tokens \in Nat
    BY <1>1, <2>2, ConvertedWorth DEF FromBase
  <2> HIDE DEF tokens, all
  <2>5. all \in Nat  BY <1>1, <2>2, <2>3, <2>4
  <2>6. balance \in Nat  BY <1>1, WorthNat DEF BaseBalance
  <2> QED BY <2>5, <2>6
<1>5. out = Least({all, balance, m.cash})
  BY DEF withdrawable
<1> HIDE DEF all
<1>6. out \in Nat /\ out <= all /\ out <= balance /\ out <= m.cash
  <2>1. {all, balance, m.cash} \subseteq Nat /\ {all, balance, m.cash} # {}
    BY <1>1, <1>4
  <2> HIDE DEF balance
  <2>2. out \in {all, balance, m.cash} /\ \A other \in {all, balance, m.cash} : out <= other
    BY <1>5, <2>1, LeastIs
  <2> QED BY <2>1, <2>2
<1>7. CanTransfer(m, a, credit, price, out)
  BY <1>6 DEF CanTransfer, all
<1>8. n \in Nat /\ n <= c.ctoken.balances[a] /\ c.ctoken.multiplier > 0
  <2> HIDE DEF c
  <2>1. c.ctoken.multiplier \in Nat \ {0} /\ c.ctoken.balances[a] \in Nat
    BY <1>1, <1>2, <1>3, ModulusAssumption
  <2>2. out <= token_to_base(m.ctoken.balances[a], m.ctoken.multiplier)
    BY <1>6 DEF BaseBalance
  <2>3. m.ctoken.multiplier \in Nat /\ m.ctoken.multiplier <= c.ctoken.multiplier
        /\ m.ctoken.balances[a] <= c.ctoken.balances[a] /\ m.ctoken.balances[a] \in Nat
        /\ out \in Nat
    BY <1>1, <1>2, <1>3, <1>6, <2>1
  <2>4. /\ base_to_token(out, c.ctoken.multiplier) \in Nat
        /\ base_to_token(out, c.ctoken.multiplier) <= c.ctoken.balances[a]
    BY <2>1, <2>2, <2>3, WithinBalance
  <2> QED BY <2>1, <2>4 DEF FromBase
<1>9. c.ctoken.balances[a] <= c.ctoken.total_supply
  <2> DEFINE f == c.ctoken.balances
  <2>1. f \in [Accounts -> Int] /\ \A x \in Accounts : f[x] >= 0
    <3> HIDE DEF c
    <3>1. f \in [Accounts -> 0 .. Modulus - 1]  BY <1>2 DEF TokenState
    <3> QED BY <3>1, ModulusAssumption
  <2>2. c.ctoken.total_supply = SumFunction(f)
    BY <1>2 DEF Sound, Backed
  <2> HIDE DEF f, c
  <2>3. f[a] <= SumFunction(f)
    BY <2>1, SumMember, TokenAssumption
  <2> QED BY <2>2, <2>3 DEF f
<1>10. Fits(n)
  <2>1. Modulus \in Nat  BY ModulusAssumption
  <2> HIDE DEF n, c
  <2> QED BY <1>2, <1>8, <2>1 DEF Fits
<1>11. FromBaseOK(c.ctoken, out) /\ BurnOK(c.ctoken, a, n)
  <2>1. n > 0  OBVIOUS
  <2>2. FromBaseOK(c.ctoken, out)  BY <1>8, <1>10 DEF FromBaseOK
  <2> HIDE DEF n, c
  <2>3. n <= c.ctoken.total_supply  BY <1>2, <1>8, <1>9
  <2> QED BY <1>8, <2>1, <2>2, <2>3 DEF BurnOK
<1> QED BY <1>6, <1>7, <1>11 DEF WithdrawBaseOK, BurnBaseOK

\* The answer to Borrowable can be lent, once interest is charged.
LEMMA BorrowableGranted ==
  ASSUME NEW K, NEW m, NEW t \in Nat, Sound(K, m, t), Rated(m), Exact(m), ChargeOK(m, t),
         m.debt_multiplier > 0, NEW a \in Accounts, NEW credit, NEW price \in Nat \ {0},
         BorrowableOK(credit, price), NEW loan, loan = borrowable(m, credit, price),
         NEW c, c = charge_interest(m, t),
         Fits(c.total_points + base_to_token(loan, c.debt_multiplier))
  PROVE  CanBorrow(credit, price, loan) /\ BorrowOK(m, t, a, loan)
<1> DEFINE able == borrowable_tokens(credit, price)
           points == base_to_token(loan, c.debt_multiplier)
<1>1. m \in StoredMarket(K) /\ m.debt_multiplier \in Nat \ {0} /\ m.cash \in Nat
  BY StoredNat DEF Sound
<1>2. /\ c \in StoredMarket(K) /\ c.debt = m.debt /\ c.total_points = m.total_points
      /\ c.debt_multiplier >= m.debt_multiplier
  BY ChargeSound, ChargeGrows DEF Sound
<1>3. c.debt_multiplier \in Nat /\ c.total_points \in Nat /\ c.debt[a] \in Nat
  BY <1>2, StoredNat
<1>4. able \in Nat
  <2>1. price > 0 /\ available(credit) * One \in Nat
    BY ModulusAssumption DEF BorrowableOK, DivideOK, Fits
  <2> QED BY <2>1, DivType DEF borrowable_tokens, divide
<1> HIDE DEF able
<1>5. loan \in Nat /\ loan <= able /\ loan <= m.cash
  <2>1. loan = Least({able, m.cash})  BY DEF borrowable, able
  <2>2. {able, m.cash} \subseteq Nat /\ {able, m.cash} # {}  BY <1>1, <1>4
  <2>3. loan \in {able, m.cash} /\ \A other \in {able, m.cash} : loan <= other
    BY <2>1, <2>2, LeastIs
  <2> QED BY <2>2, <2>3
<1>6. CanBorrow(credit, price, loan)
  BY <1>5 DEF CanBorrow, able
<1>7. points \in Nat /\ c.debt_multiplier > 0
  <2> DEFINE M == c.debt_multiplier
  <2>1. M \in Nat \ {0} /\ M > 0  BY <1>1, <1>2, <1>3
  <2> HIDE DEF M
  <2>2. base_to_token(loan, M) \in Nat  BY <1>5, <2>1, ConvertedWorth
  <2> QED BY <2>1, <2>2 DEF M
<1>8. c.debt[a] <= c.total_points
  <2> DEFINE f == m.debt
  <2>1. f \in [Accounts -> Int] /\ \A x \in Accounts : f[x] >= 0
    <3>1. f \in [Accounts -> 0 .. Modulus - 1]  BY <1>1 DEF StoredMarket
    <3> QED BY <3>1, ModulusAssumption
  <2>2. m.total_points = SumFunction(f)
    BY DEF Exact
  <2> HIDE DEF f
  <2>3. f[a] <= SumFunction(f)
    BY <2>1, SumMember, TokenAssumption
  <2> QED BY <1>2, <2>2, <2>3 DEF f
<1>9. Fits(c.total_points + points)  OBVIOUS
<1> HIDE DEF points
<1>10. Fits(points) /\ Fits(c.debt[a] + points)
  <2>1. Modulus \in Nat  BY ModulusAssumption
  <2> QED BY <1>3, <1>7, <1>8, <1>9, <2>1 DEF Fits
<1>11. IncreaseOK(c, a, loan)
  BY <1>7, <1>9, <1>10 DEF IncreaseOK, PointsOK, points
<1> QED BY <1>5, <1>6, <1>11 DEF BorrowOK

\* What the queries promise, the transactions keep, with any interest pending
\* and for any prices, ratios and amounts.
THEOREM QueriesGranted == Spec => []QueriesAreGranted
<1>1. PlatformDebts => QueriesAreGranted
  <2> SUFFICES ASSUME PlatformDebts, NEW a \in Users, NEW d \in listed(platform),
                      NEW credit, credit = total_credit_line(platform, now, a),
                      PriceOK(platform, d), ChargeOK(markets[d], now),
                      NEW c, c = charge_interest(markets[d], now),
                      NEW out, out = withdrawable(markets[d], a, credit, Price(platform, d)),
                      NEW loan, loan = borrowable(markets[d], credit, Price(platform, d))
               PROVE  /\ (TransferableOK(markets[d], credit, Price(platform, d))
                           /\ FromBase(c.ctoken, out) > 0)
                         => MarketWithdrawOK(platform, now, a, d, out, credit)
                      /\ (BorrowableOK(credit, Price(platform, d)) /\ loan > 0
                           /\ Fits(c.total_points + base_to_token(loan, c.debt_multiplier)))
                         => MarketBorrowOK(platform, now, a, d, loan, credit)
    BY DEF QueriesAreGranted
  <2> DEFINE m == platform.markets[d]
             K == Configs({platform.common_token})
             price == Price(platform, d)
  <2>1. /\ PlatformSound(platform, now) /\ Lent(platform) /\ a \in Accounts /\ now \in Nat
        /\ m.debt_multiplier >= InitialMultiplier
        /\ m.ctoken.multiplier >= InitialMultiplier
    BY PlatformAssumption DEF PlatformDebts, PlatformInv, Counted
  <2>2. Sound(K, m, now) /\ Rated(m) /\ Exact(m) /\ m \in MarketState
    BY <2>1, ListedRated
  <2>3. price \in Nat \ {0}
    <3>1. price \in Prices  BY <2>1, PriceIs
    <3> QED BY <3>1, PlatformAssumption
  <2>4. markets[d] = m  BY DEF markets
  <2>5. m.debt_multiplier >= InitialMultiplier /\ m.ctoken.multiplier >= InitialMultiplier
    BY <2>1
  <2>6. MarketWithdrawOK(platform, now, a, d, out, credit)
          <=> CanTransfer(m, a, credit, price, out) /\ WithdrawBaseOK(m, now, a, out)
    BY DEF MarketWithdrawOK
  <2>7. MarketBorrowOK(platform, now, a, d, loan, credit)
          <=> CanBorrow(credit, price, loan) /\ BorrowOK(m, now, a, loan)
    BY DEF MarketBorrowOK
  <2>a. /\ ChargeOK(m, now) /\ c = charge_interest(m, now)
        /\ out = withdrawable(m, a, credit, price) /\ loan = borrowable(m, credit, price)
    BY <2>4
  <2> HIDE DEF m, price, K
  <2>8. /\ m.debt_multiplier > 0 /\ m.ctoken.multiplier > 0 /\ m.collateral_ratio \in Nat
    <3>1. m \in StoredMarket(Configs(CommonTokens))  BY <2>2 DEF MarketState
    <3>2. m.debt_multiplier \in Nat /\ m.ctoken.multiplier \in Nat  BY <3>1, StoredNat
    <3>3. InitialMultiplier \in Nat \ {0}  BY TokenAssumption, ModulusAssumption
    <3>4. m.collateral_ratio \in CollateralRatios
      BY <3>1 DEF StoredMarket, Configs, InstantiateMsg
    <3>5. CollateralRatios \subseteq Nat  BY PlatformAssumption
    <3>6. m.debt_multiplier > 0 /\ m.ctoken.multiplier > 0  BY <2>5, <3>2, <3>3
    <3>7. m.collateral_ratio \in Nat  BY <3>4, <3>5
    <3> QED BY <3>6, <3>7
  <2>9. (TransferableOK(m, credit, price) /\ FromBase(c.ctoken, out) > 0)
          => MarketWithdrawOK(platform, now, a, d, out, credit)
    BY <2>1, <2>2, <2>3, <2>6, <2>8, <2>a, WithdrawableGranted
  <2>10. (BorrowableOK(credit, price)
           /\ Fits(c.total_points + base_to_token(loan, c.debt_multiplier)))
         => MarketBorrowOK(platform, now, a, d, loan, credit)
    BY <2>1, <2>2, <2>3, <2>7, <2>8, <2>a, BorrowableGranted
  <2> QED BY <2>4, <2>9, <2>10 DEF price
<1> QED BY <1>1, PlatformDebtsHold, PTL
=============================================================================
