# A TLA+ model of Wynd Lend

Wynd Lend is a lending platform of CosmWasm contracts: users deposit a token
in its *market* and get *C tokens* for it, borrow other tokens against what
they deposited, and are liquidated when their debts outgrow their credit. This
directory models the contracts of `src/contracts`, checks the models with TLC
on small instances and proves theorems about them with TLAPS.

## The system

| Component | State | Operations | Interacts with |
|---|---|---|---|
| isotonic-token (the C token) | balances, supply, multiplier, reward points and their corrections | transfer, send, mint, burn, rebase, distribute, withdraw funds | asks its market before a transfer; mint, burn, rebase and transfer-from only by its market |
| isotonic-market | debt points per account, their total and multiplier, charging time, curve, reserve factor, collateral ratio, cap | deposit, withdraw, borrow, repay; from the credit agency: repay-to, transfer-from, swap-withdraw-from; from governance: adjustments | sends messages to its C token, asks the credit agency for credit and the oracle for prices |
| interest (`interest.rs` of market and utils) | none | utilisation, curve, compounding, ratios of a charge | called by every handler and by the credit queries |
| isotonic-credit-agency | configuration, the markets, the markets each account entered | create market, liquidate, enter and exit market, repay with collateral, adjust common token and code ids, migrate market; paged queries | queries all markets of an account, sends messages to two of them |
| wyndex-oracle | pool addresses, by the two tokens in either order | register pool, TWAP, swap simulation | asks the pair contracts of wynddex |
| utils | none | conversions, prices, credit lines | used by all |

A transaction runs to its end before the next one starts, its submessages in
order, and any failure reverts all of it. There is no concurrency inside a
transaction, no message is lost, and nothing has to happen eventually: the
contracts act only when somebody calls them. The hard parts are the order of
transactions of different accounts, the order of charging interest and moving
tokens inside one transaction, what one contract reads of another before it
changes, and roundings and widths of numbers. `PROJECT.json` lists them as
hazards with their lines.

Correctness, by component:

- token: the supply is the sum of the balances; rewards are shared by the
  balances of the moment of distribution, none is lost, paid twice or moved by
  a transfer, and the contract can always pay them;
- market: the total debt is the sum of the debts; claims of lenders are backed
  by cash and debt; interest is charged once, for whole periods, at a rate that
  was in force, and an account's interest is not changed by others; the credit
  queries agree with the next charge; interest can always be charged; what
  `Withdrawable` and `Borrowable` answer is granted;
- credit agency: no transaction makes an account unsafe; liquidation does not
  deepen a shortfall; every debt is counted; all markets answer in one token; a
  debt is paid with something;
- oracle: a pool is found under its two tokens, in whichever order.

## Modules

| Module | What it is |
|---|---|
| `Arithmetic` | 128-bit integers and fixed-point decimals: what rounds, what panics, what wraps |
| `TokenHandlers` | the token's handlers as operators on its storage, a record |
| `IsotonicToken` | state machine of one token contract with its bank account |
| `EagerRewards` | abstract specification of the rewards: every distribution credits at once |
| `InterestCurve` | interest curves and compounding |
| `MarketHandlers` | the market's handlers as operators on its storage, with its C token inside |
| `IsotonicMarket` | one market open to any message its interface accepts |
| `WyndexOracle` | the oracle: registered pools and the TWAPs of their pairs |
| `AgencyHandlers` | the credit agency's handlers and queries, and those of the markets that ask it back, as operators on the storage of the whole platform |
| `WyndLend` | state machine of the platform: one action per transaction of users, governance and exchange |
| `Scripts`, `PlatformSuites` | statements of a test, and the builders and methods of the test suites |
| `TokenTests`, `MarketTests`, `AgencyTests`, `UtilsTests` | the repository's tests as scripts |
| `TestBench` | executes a script on the handlers, statement after statement |
| `MCIsotonicToken`, `MCIsotonicMarket`, `MCWyndLend`, `MCTestBench` | curves, sets, names and symmetry for TLC |
| `SumTheorems` | lemmas about `SumFunction` |
| `TokenLemmas`, `InterestLemmas`, `MarketLemmas` | lemmas about the token's handlers, about rates and compounding, and about the market's handlers |
| `TokenProofs` | theorems about the token and its rewards |
| `MarketProofs` | theorems about one market open to any message |
| `PlatformProofs`, `CreditProofs` | theorems about the platform, and about the credit of its accounts |

A handler `h` of the code is an operator `h(m, ...)` from storage to storage,
and `hOK(m, ...)` is the condition under which the code returns `Ok`: its
`ensure`s, checked subtractions, and panics. Both `IsotonicMarket` and
`WyndLend` apply the same operators: the first lets the environment do
anything, so that what holds of it holds whatever credit agency, oracle and
users do; the second has the actual credit agency, which asks all markets of an
account. A third user of the operators is the test bench. A C token message sent by a market is executed inside the action that
sends it, in the order of the submessages: rebase, mint of the reserve, then
the handler's own message.

What is abstracted: addresses are model values; who may call what is the
structure of `Next` (for the token, whose controller check is explicit, any
account calls); amounts come from small sets; events and attributes are left
out. Native and cw20 tokens behave alike except in a swap of a market's token,
which the code implements for native tokens only (utils `token.rs:167` panics
for a cw20 token): there the models' tokens are native. Overflow of a product
that only bounds another result is not always a guard of its own. The platform's storage maps a token
to its market once `CreateMarket` has run with its reply; the market that is
pending in between belongs to one transaction, and nothing sees it. Who may
send a message of the credit agency or the governance contract is the structure
of `Next` in `WyndLend`, and a guard in `TestBench`, whose tests also send them
from others.

**Numbers.** `DecimalFractional` is 10^18 in the code and 1000 or less here,
`Modulus` is 2^128 and a small power of two here, so that roundings and
overflows occur in small instances. Operations on `Uint128` and `Decimal` panic
on overflow and the transaction reverts: `Fits` in the guards. The reward
points are plain `u128`/`i128`; the workspace's release profile sets no
`overflow-checks`, so that they wrap: `U128`, `I128`.

**Prices** are TWAPs of pairs in `WyndexOracle`, which change arbitrarily. A
market answers 1 for the common token and otherwise the oracle's `a_per_b`,
which is the pair's and does not depend on what is offered. The models create
pairs with the common token first, as the suites do; with the other order the
code reads the price upside down.
**Swaps**: the market checks that the oracle's estimate is within `sell_limit`
and then sends `sell_limit` to the exchange. The message that the credit agency
builds for `RepayWithCollateral` (credit agency `contract.rs:450`) does not
match the market's: it has two referral fields that market `msg.rs:79` does not
know, and it lacks the required `sell_limit`, whose line is commented out
(`contract.rs:452`), so that the market as committed would not accept it. The
model completes it with the value that the commented-out line names. That is
not the message's `max_collateral`: `contract.rs:425` shadows the name by its
value in common tokens (`SellLimit`), which the market compares with an
estimate in its own tokens. At a price above 1 it lets more collateral be sold
than the sender allowed, below 1 less (`SellsMore` in `WyndLend`).

## Runs

The properties of the contracts are invariants, action properties or a
refinement of a safety specification and need no fairness: the contracts never
act by themselves, so that nothing in the code makes an event happen. The test
bench is different: a test harness executes the next statement as long as there
is one, which is weak fairness of the bench's `Next`.

| Run | Question | Result |
|---|---|---|
| `token` | do rewards survive transfers, mints, burns and wrapping? | holds, refines `EagerRewards` |
| `market_lending` | is one market's bookkeeping right, with interest; does a transaction change the interest that others already owe or have earned? | it is; it does not |
| `market_open` | what holds under every message? | types, supply, total within debts, debts change with the money paid out or kept; no deadlock |
| `platform_steps` | can a transaction make an account unsafe, can liquidation deepen a shortfall, can a debt escape the credit line? | no, but for one too small to count at any price |
| `platform_interest` | the same with interest pending and the common token adjusted; do the markets agree on it; is what the queries promise granted? | no; they do; it is |
| `test_bench` | do the handlers of these models grant, refuse and answer what the repository's tests expect? | they do, in 139 tests |
| `market_overpaid` | total debt after a surplus repayment | violated |
| `market_rates` | interest around `AdjustInterestRates` | violated: charged twice |
| `market_reserve` | claims with a reserve factor | violated |
| `market_stuck` | can interest always be charged? | violated |
| `market_sale` | what a swap pays for burnt C tokens | violated |
| `platform_same_token` | `RepayWithCollateral` within one market | violated |

The violated properties state what a comment, a document or a test says; the
findings in `PROJECT.json` quote it. The passing runs exclude what the findings
are about, by their constants: `market_lending` has no
reserve, no swaps, no change of curve and no surplus repayment
(`SurplusRepayments = FALSE`); in `WyndLend` repayments stay within the debt,
the ratios of the passing runs are below the liquidation price, and
`SafeStaysSafe` and `ShortfallNotDeepened` except steps that change a supply
without charging interest, and `SellsMore` and `TransfersAbovePar` (see
`SafetyKept`), of which the constants of the runs allow neither.
`DebtsMoveWithCash` speaks of steps that start with an exact total, which a
surplus repayment may take away (`market_overpaid`).

The bench stops when a test is over, and its run has the deadlock check off.
`market_lending` turns it off as well: a market
whose interest cannot be charged (`market_stuck`) accepts no message, and when
the time bound is reached nothing is left. The other passing runs check it.

**Bounds.** `MaxTime` bounds the block time, `MaxDeposits` the tokens deposited
in a market, `MaxDebt` the debt of one account, `MaxSupply` and `MaxFunds` the
token's supply and rewards. Two users suffice for one to act on the other; two
tokens for collateral and debt in different markets, one being the common
token. Two or more charging periods with calls at every second let periods
pass charged, uncharged and half elapsed. The amounts are chosen where the
limits are: in `platform_steps` a loan of 901 on 1000 of collateral at a ratio
of 0.8 is granted at price 1.3 and unsafe at 1, or granted in the other token
at 0.7; a liquidation of 450 leaves part of it, and two repayments of 450 leave
a debt of 1, which is no debt at price 0.7. A `max_collateral` of 600 is worth
420 or 780, so that the limit of the swap is below or above the amount that the
agency counts on, and a transfer of 1000 C tokens, half of a deposit, is
granted to an account that has repaid half of its loan. In `platform_interest`
a loan of 700 becomes unsafe by one period's interest at the rates of `Steep`.
In `market_open` a repayment of 3 leaves
what interest added to a loan of 3, so that the next repayment has a surplus.
`platform_steps` has no time (interest is `platform_interest`'s question),
which leaves room for price changes, transfers and swaps. The markets of
`platform_interest` keep a reserve of 20% of what debtors pay, those of
`platform_steps` none, as there is no interest to share.

The common token changes between the two tokens in `platform_interest`, where
their price is 1, so that both are valued alike before and after.

`Rounding` in the properties is what the roundings of one transaction amount
to; every property is violated by a mutant of the code well beyond it. In
`WyndLend` it is computed from the state, for any instance: in each market of
the platform the slack of the account's C tokens and of its debt at the ratios
that are pending, the last point of a repayment, and what the account owes in a
market that it has not entered, at the market's price and collateral ratio.

## The test bench

A test of the repository is a *script*: the world that its builder sets up and
a sequence of statements, each a transaction with the outcome that the test
expects or a query with the answer that it asserts. `AssertionsHold` says that
every answer is the asserted one; `TestsComplete` that every script comes to its
end, which a transaction with another outcome than the expected one prevents.
The bench ties the handlers to the code: the state machines and the theorems
are about the same operators, and a handler that is translated wrongly fails a
test here as it would in Rust.

- Decimals have four digits here, so that answers which the tests compare after
  years of interest may differ in the last digits; `About` says by how much. A
  year has four units of time: the tests charge at most quarterly, and those
  with a shorter charging period let no time pass.
- A native and a cw20 version of a test are one script, because the models do
  not tell the tokens apart. Amounts beyond `Modulus` are scaled down.
- The tests of the market run with the mock of the credit agency, those of the
  agency with the agency. A rejected transaction leaves the world as it was.
- The modules of the credit agency's tests are commented out in its
  `src/multitest.rs`, so that the repository does not run them; the bench does.
- Left out: texts of errors, metadata, deposits of several denominations in one
  message, the simulations that forward to wynddex, cw20 swaps (the market's
  suite answers `unimplemented!()`), and what contradicts `market_sale`: the
  test at `swap_withdraw_from.rs:32` of the market, and the cash left after a
  `repay_with_collateral` with a cw20 market.

## Proofs

A theorem holds for all accounts, tokens, amounts, prices, curves, ratios,
bounds and widths that the named assumptions of the modules admit; TLC
evaluates those assumptions in every run. Where a theorem has a hypothesis of
its own, it excludes messages that break the property, and the run that shows
them break it is named below. `PROJECT.json` lists the theorems.

### The token (`TokenProofs`)

The storage keeps its type and the supply is the sum of the balances. The
invariant is the conjunction of the two: the supply needs the types, because
the sum of balances is only defined for numbers.

All properties of the rewards are proved. The invariant, `RewardInv`, adds the
books: the points of all accounts and the leftover are what was distributed,
nobody was paid more than their points are worth, what can be withdrawn is what
was distributed and not paid, and the bank account covers it. The step that
needs care is a change of balance, where products of 128 bits wrap:
`ChangeBalanceRewards` shows that the correction, wrapped as well, leaves
`Points` of everybody as they were, by congruence modulo the width, and so that
a distribution adds to each account its share times its balance. The books then
balance as long as the points of everything sent to the contract fit 128 bits
(`MaxFunds * PointsScale < Modulus` in the assumption of `IsotonicToken`, where
`ReceiveFunds` keeps to `MaxFunds`); beyond it the code mixes the rewards up,
and 2^128 points are 85 * 10^27 reward tokens of one smallest unit.
`RefinesEagerRewards` maps every step to a step of `EagerRewards` or a stutter.

### The market (`MarketLemmas`, `MarketProofs`)

`Sound(K, m, t)` is stated of a storage, a set of configurations and a time, so
that each handler has a lemma "sound before, and the handler returns `Ok`, then
sound after", which composes: charging interest is a lemma of its own, and a
handler is a charge followed by minting, burning, lending or taking back. Its
conjuncts (types, charging clock, C token supply, total within the debts) need
each other: a charge advances the clock by a natural number of periods only
because the clock is not ahead, and the total stays within the debts because a
repayment takes at least as many points off the total as off the account, or
all of the total.

On top of it every step of the market is shown to be of one of five kinds
(`StepKinds`): it charges and then *trades* C tokens, *lends* or takes a
*repayment*; it *idles*, leaving multipliers, clock and curve alone; or it sets
another curve. The other theorems are proofs by these kinds:

| Theorem | Property | Hypothesis | Why |
|---|---|---|---|
| `TotalIsExact` | `TotalIsSumOfDebts` | no surplus repayments | `market_overpaid` |
| `DebtsMoveOnlyWithCash` | `DebtsMoveWithCash` | none (the step starts with an exact total) | `market_overpaid` |
| `ClaimsAreBacked` | `NoUnbackedClaims` | no surplus repayments, no reserve, no swaps | `market_overpaid`, `market_reserve`, `market_sale` |
| `PreviewsAreCharged` | `PreviewMatchesCharge` | none | |
| `DebtsAreTheirOwn` | `OthersMoveNoDebt` | no swaps, one curve | see below; `market_rates` |
| `ClaimsAreTheirOwn` | `OthersMoveNoClaim` | likewise, one reserve factor | pending interest is shared by the new factor |
| `DebtsGrowAtMost` | the half of `InterestBounded` about debts | one curve | `market_rates` |
| `InterestIsBounded` | `InterestBounded` | one curve, no reserve | `market_rates`, `market_reserve` |
| `WorthNeverFalls` | multipliers never fall | none | |

A swap burns C tokens without charging, so that the periods that have elapsed
are charged at the utilisation it leaves.

*Roundings.* `PreviewMatchesCharge` and `OthersMoveNo...` hold for every
instance with the bound `Slack(points)`: one unit for each product, the last
digit of the multiplier for each point (`points \div One`), and the interest on
the fraction that a balance leaves out. With the 18 digits of the code the last
two vanish for any realistic balance; with the three digits of the runs they do
not. `DebtsMoveWithCash` allows a loan less than a point, and a repayment less
than a point and a token: points are rounded down, and so is what is
sent back. `NoUnbackedClaims` allows one C token, one point of debt, and a digit of
each point per transaction. Claims grow by no more than the interest on the
debts because the utilisation is at most one, which `calculate_interest` checks
by panicking, and because the ratio on C tokens is rounded down.

*Compounding.* `checked_pow` squares and rounds, and different splits of the
same periods among charges round differently. `InterestLemmas` proves of the
recursive function that it satisfies its equation (`PowEquation`), and
(`GrowsPow`) that whatever is compounded from factors which each take no value
of a sequence further than `i` steps takes none further than the sum of the
steps. The sequence `MaxMultiplier` grows by the highest rate in each period,
rounded up; `RateHighest` shows that a valid curve is highest when everything
is lent. The invariant `BoundInv` says that the clock has advanced `k` periods
since the market was created, and that no multiplier is above
`MaxMultiplier[k]`.

### The platform (`PlatformProofs`)

`PlatformInv` says that every contract's storage has its type, that every market
is sound and counts in the agency's common token, and that the maps of the
agency agree on which markets there are. That gives `PlatformTypeCorrect`,
`CommonTokenCorrect` and `MarketsSoundOnPlatform`: the guards of the agency
only restrict what reaches a market, so that the lemmas about handlers apply,
also twice in one transaction (`Liquidate`, `RepayWithCollateral`).

`PlatformDebts` adds that totals are exact (in `WyndLend` repayments stay within
the debt), that no multiplier is below the first one, and that what an account
owes in a market that it is not in is `Small`: worth less than a common token
at the lowest price. Every transaction `Proceeds`: markets advance, and only
accounts that are in a market come to owe more to it. The one step that takes
an account out of a market is `ExitMarket`, whose test makes the debt small.

| Theorem | What | Hypothesis |
|---|---|---|
| `TotalsAreExactOnPlatform` | totals are the sums of the debts | none |
| `DebtorsStayInside` | `DebtsAreCounted` | none |
| `WorthNeverFallsOnPlatform` | multipliers never fall | none |
| `SameTokenIsTheOnlyGift` | a debt falls where tokens come in, but for `RepayWithCollateral` of equal tokens | none |
| `DebtsArePaid` | `DebtIsPaid` | no repayments with collateral: `platform_same_token` |
| `QueriesGranted` | `QueriesAreGranted` | none |

A small debt that was left behind grows with interest like any other, and its
account may not be in the market for as long as it likes. The property counts
its points at the first multiplier, which is the lowest, so that it holds for
ever: it bounds what was left behind, not what becomes of it.

`QueriesGranted` holds with any interest pending because what the queries
compute before the charge is at most what the transaction finds after it:
charging takes C tokens from nobody and lowers no multiplier. It shows which
exceptions the promise has: a transaction that would mint or burn no C token
or lend nothing reverts, and so does a loan whose points do not fit 128 bits.

### Credit (`CreditProofs`)

The health of an account, its credit line less its debt, is a sum over the
markets that it is in of what it has there, at a price and a collateral ratio,
less what it owes (`HealthIs`). The proof has three layers:

1. *Balances.* `Moved(m, n, t, a, v, u, w)` says what a handler does to one
   account in one market: it takes at most `v` base tokens of C tokens, adds at
   most `u` to the debt and takes at least `w` off it, but for `Slack`. Charging
   interest moves nothing (`ChargedMoves`), as credit lines count it before, and
   each handler moves at most the amount of its message.
2. *Health.* A move in one market lowers the health by at most its value and
   `RoundingIn` (`MarketFalls`), moves in two markets by the sum
   (`TwoMarketsFall`), and no other market matters (`ChangedFalls`), because
   only the balances of these change.
3. *Checks.* What the market or the agency tested in the transaction bounds
   the loss: `CanBorrow` and `CanTransfer` that it is within the borrow limit,
   hence the health, if the limit is within the credit line; the simulation of
   `RepayWithCollateral` that the account is left with a line above its debt;
   `ExitMarket` the line without the market; for liquidations the discount,
   which makes what is seized count for less than what is paid.

`KeepsHealth` is the conclusion of each transaction: an account that was afloat
stays so, and a shortfall is not deepened. The theorems hold for any number of
markets, users and amounts, any curve, reserve and pending interest, also where
debt and collateral of an account are in the same market.

| Theorem | Property | Hypotheses |
|---|---|---|
| `SafetyKept` | `SafeStaysSafe` | the borrow limit is within the credit line |
| `ShortfallKept` | `ShortfallNotDeepened` | the borrow limit is within the credit line; `Discounted` |

- *Borrow limit.* `BorrowLimitRatio <= One`: with a limit above the line a loan
  makes its own borrower unsafe. The tests use 1 and 0.9.
- *`SellsMore`*, which both properties except: `RepayWithCollateral` with an
  estimate above `max_collateral`, which the limit admits at a price above 1.
  With `SellLimits = {500, 600}` in `platform_steps`, TLC finds an account that
  becomes unsafe by it, if the property does not except it. With an estimate
  within `max_collateral` the simulation bounds what is burnt, at any price.
- *`TransfersAbovePar`*, which `SafeStaysSafe` excepts: for an account with a
  debt `transferable_amount` (market `contract.rs:295`) answers in base tokens,
  and the C token compares the amount of C tokens with it. If a C token is worth
  two base tokens (`InitialMultiplier = 2000` and `TransferAmounts = {140}` in
  `platform_interest`), TLC finds an account that becomes unsafe by the
  transfer of its own C tokens, if the property does not except it. The code
  starts the multiplier at 1/100000, so that it takes interest of a factor of
  100000, some 63 years at 20%, to get there.
- *`Discounted`*: the price times a collateral ratio is within the discounted
  price, rounded as the code rounds it. A ratio below the liquidation price
  gives that, unless a price has so few digits that the rounding takes up the
  difference; `create_market` requires such a ratio, `AdjustCollateralRatio`
  does not (see below). The constants of the runs satisfy it.

Both properties speak of transactions that leave the values of the account's
tokens alone (`SameValues`): the price, the collateral ratio, and no change of
a supply of C tokens while interest is pending, which excludes the swap of
`RepayWithCollateral` in a market that it does not charge.

### Induction and recursion

The library's induction rules take an operator as a parameter and cannot be
instantiated, so that every induction is by a minimal counterexample: strict
inclusion is well founded on the subsets of a finite set (`SumTheorems`, where
`SumExcept` says that changing one value changes the sum by the difference),
and a nonempty set of natural numbers has a least member (`LeastNat`, for
`Pow` and `MaxMultiplier`).

### What is only model-checked

- `AssertionsHold` and `TestsComplete`, which are about 139 given scripts; the
  latter is liveness, which the prover does not handle;
- the properties that runs show violated.

## Not modelled

wynddex is external: a pair is its TWAP and a swap an amount sold. The oracle's
two swap simulations forward to it; their answer is the `estimate` of a message.
The cw20 hooks lead to the same handlers as native coins; the swap of a cw20
market's token, which panics, is left out. `AdjustMarketId`,
`AdjustTokenId`, `MigrateMarket`, `migrate` and `AdjustPriceOracle` replace ids
and addresses that no property of `WyndLend` reads: only the bench executes
them. `EnterMarket` is sent by markets, inside `Deposit`, `Borrow` and the
transfer of a liquidation; the bench also sends it by itself, as a test does.
`time.rs` of utils is used by no contract. The end-to-end tests of `src/tests`
(removed from the workspace by a comment in its `Cargo.toml`), the wyndex
builder and the schema binaries are no part of the platform.

Where code and documents disagree and no run shows it:

- the leftover of `debt::decrease` that the closure found for the total
  survives when the account still owes more than was sent, so that `Repay`
  sends tokens back while debt remains; market `state.rs:130` says "If there
  are more tokens sent then there are to repay, burn only desired amount and
  return the difference". It takes a total below the debts (`market_overpaid`);
- `RepayWithCollateral` limits the swap by the value of `max_collateral` in
  common tokens (credit agency `contract.rs:425`), so that at a price above 1
  it may sell more than the agency simulated and leave its sender unsafe;
  `msg.rs:54` says "The maximum amount of collateral to use" and
  `contract.rs:384` "The function checks also that the required repay action
  didn't put **sender** into an unsafe collateral position.";
- `swap_withdraw_from` burns C tokens without charging interest, so that the
  periods that have elapsed are charged at the utilisation it leaves; market
  `contract.rs:348` calls `charge_interest` the "Function that is supposed to
  be called before every mint/burn operation.";
- `AdjustCollateralRatio` accepts a ratio above the liquidation price;
  credit agency `contract.rs:138` says "Collateral ratio must be lower then
  liquidation price" and checks it only when a market is created;
- `ExitMarket` tests a debt in common tokens, rounded down, so that an account
  leaves a market in which it owes less than one; credit agency `msg.rs:44`
  says "Sender have no debt in the market" (`DebtsAreCounted` bounds what
  escapes);
- `TransferFrom` of the token is documented to check that the transfer is
  possible (`isotonic-token/src/msg.rs:29`) and does not;
- `market_cap` is compared before pending interest is charged;
- `transferable_amount` answers in C tokens or in base tokens depending on the
  account's debt, and both are compared with C tokens: an account with a debt
  may transfer less than it can spare below par, and more above
  (`TransfersAbovePar`);
- `divide` (market `contract.rs:223`) overflows for amounts that its 128-bit
  product cannot hold, which is modelled as a guard.

## Plan

1. Done: token with rewards, market, interest; the credit agency, the oracle
   and the markets that call back; the queries as promises about the next
   transaction; the repository's tests on the models; the runs above.
2. Done: the rewards and their refinement; every property of one market and
   of the platform, those about credit for any number of markets.
3. Prove: a bound on the years in which no C token is worth more than a base
   token, so that `TransfersAbovePar` cannot happen, from the argument of
   `InterestIsBounded` in every market of the platform.
4. Model more: rewards of C tokens inside the platform; the market cap in
   `WyndLend`; pairs created in the other order.
