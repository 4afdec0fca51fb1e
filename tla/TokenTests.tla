----------------------------- MODULE TokenTests -----------------------------
(***************************************************************************)
(* The tests of the isotonic token (src/multitest.rs and the modules under *)
(* multitest/) as scripts for the handlers of TokenHandlers.               *)
(*                                                                         *)
(* The world of a test is the token with the reward tokens it holds, the   *)
(* controller and receiver stubs of the tests, and the reward tokens of    *)
(* everybody else.                                                         *)
(***************************************************************************)
EXTENDS TokenHandlers, Scripts

CONSTANT Controller  \* the address of the controller stub

ASSUME ControllerAssumption == Controller \in Accounts

-----------------------------------------------------------------------------
(***************************************************************************)
(* The builder and the methods of Suite.                                   *)
(***************************************************************************)
OrZero(amounts) == amounts @@ [a \in Accounts |-> 0]

\* What the controller stub answers to TransferableAmount, and the funds
\* that accounts start with.
TokenSuite(transferable, funds) ==
    [suite |-> "token",
     token |-> EmptyToken,
     held |-> 0,
     transferable |-> OrZero(transferable),
     funds |-> OrZero(funds),
     counter |-> 0]

Transfer(sender, recipient, amount) ==
    [op |-> "transfer", sender |-> sender, recipient |-> recipient, amount |-> amount,
     granted |-> TRUE]

Send(sender, recipient, amount, valid) ==
    [op |-> "send", sender |-> sender, recipient |-> recipient, amount |-> amount,
     valid |-> valid, granted |-> TRUE]

Mint(sender, recipient, amount) ==
    [op |-> "mint", sender |-> sender, recipient |-> recipient, amount |-> amount,
     granted |-> TRUE]

MintBase(sender, recipient, amount) ==
    [Mint(sender, recipient, amount) EXCEPT !.op = "mint_base"]

Burn(sender, account, amount) ==
    [op |-> "burn", sender |-> sender, account |-> account, amount |-> amount,
     granted |-> TRUE]

BurnBase(sender, account, amount) ==
    [Burn(sender, account, amount) EXCEPT !.op = "burn_base"]

\* Always sent by the controller.
TransferBase(sender, recipient, amount) ==
    [Transfer(sender, recipient, amount) EXCEPT !.op = "transfer_base"]

Rebase(executor, ratio) ==
    [op |-> "rebase", sender |-> executor, ratio |-> ratio, granted |-> TRUE]

Distribute(executor, amount) ==
    [op |-> "distribute", sender |-> executor, amount |-> amount, granted |-> TRUE]

WithdrawFunds(executor) ==
    [op |-> "withdraw_funds", sender |-> executor, granted |-> TRUE]

\* A cw20 reward token is sent ahead of the Distribute message.
SendToTokenContract(sender, amount) ==
    [op |-> "cw20_send", sender |-> sender, amount |-> amount, granted |-> TRUE]

\* The answers of the query entry point; the funds of an account and the
\* counter of the receiver stub are asked of others.
TokenQuery(w, msg) ==
    CASE msg[1] = "balance" -> w.token.balances[msg[2]]
      [] msg[1] = "base_balance" -> BaseBalance(w.token, msg[2])
      [] msg[1] = "total_supply" -> w.token.total_supply
      [] msg[1] = "base_supply" -> token_to_base(w.token.total_supply, w.token.multiplier)
      [] msg[1] = "multiplier" -> w.token.multiplier
      [] msg[1] = "distributed_funds" -> w.token.distributed_total
      [] msg[1] = "undistributed_funds" -> Undistributed(w.token, w.held)
      [] msg[1] = "withdrawable_funds" -> withdrawable_funds(w.token, msg[2])
      [] msg[1] = "held" -> w.held
      [] msg[1] = "funds" -> w.funds[msg[2]]
      [] msg[1] = "counter" -> w.counter

-----------------------------------------------------------------------------
(***************************************************************************)
(* Minting, burning, transferring and sending.                             *)
(***************************************************************************)
Balances(lender, other, controller) ==
    <<Is(<<"balance", "lender">>, lender),
      Is(<<"balance", "receiver">>, other),
      Is(<<"balance", Controller>>, controller)>>

fresh_queries ==
    Script(TokenSuite(<<>>, <<>>),
           <<Is(<<"total_supply">>, 0),
             Is(<<"multiplier">>, InitialMultiplier),
             Is(<<"balance", "lender">>, 0),
             Is(<<"balance", Controller>>, 0),
             Is(<<"distributed_funds">>, 0),
             Is(<<"undistributed_funds">>, 0)>>)

minting ==
    <<Script(TokenSuite(<<>>, <<>>),
              <<Mint(Controller, "lender", 100)>> \o Balances(100, 0, 0)),
      Script(TokenSuite(<<>>, <<>>),
             <<Refused(Mint(Controller, "lender", 0))>> \o Balances(0, 0, 0)),
      Script(TokenSuite(<<>>, <<>>),
             <<Refused(Mint("receiver", "lender", 100))>> \o Balances(0, 0, 0))>>

burnt(burn, left) ==
    Script(TokenSuite(<<>>, <<>>),
           <<Mint(Controller, "lender", 100), burn>> \o Balances(left, 0, 0))

burning ==
    <<burnt(Burn(Controller, "lender", 50), 50),
      burnt(Refused(Burn(Controller, "lender", 0)), 100),
      burnt(Refused(Burn(Controller, "lender", 150)), 100),
      burnt(Refused(Burn("lender", "lender", 150)), 100)>>

\* Of tokens minted to the lender, of which the controller lets some go.
moving(minted, allowance, statement, moved, counter) ==
    Script(TokenSuite("lender" :> allowance, <<>>),
           <<Mint(Controller, "lender", minted), statement, Is(<<"counter">>, counter)>>
              \o Balances(minted - moved, moved, 0))

transfer ==
    <<moving(100, 100, Transfer("lender", "receiver", 40), 40, 0),
      moving(100, 100, Refused(Transfer("lender", "receiver", 0)), 0, 0),
      moving(100, 200, Refused(Transfer("lender", "receiver", 140)), 0, 0),
      moving(200, 100, Refused(Transfer("lender", "receiver", 140)), 0, 0),
      moving(200, 0, Refused(Transfer("lender", "receiver", 140)), 0, 0)>>

send ==
    <<moving(100, 100, Send("lender", "receiver", 40, TRUE), 40, 1),
      moving(100, 100, Refused(Send("lender", "receiver", 0, TRUE)), 0, 0),
      moving(100, 100, Refused(Send("lender", "receiver", 40, FALSE)), 0, 0),
      moving(100, 200, Refused(Send("lender", "receiver", 140, TRUE)), 0, 0),
      moving(200, 100, Refused(Send("lender", "receiver", 140, TRUE)), 0, 0),
      moving(200, 0, Refused(Send("lender", "receiver", 140, TRUE)), 0, 0)>>

-----------------------------------------------------------------------------
(***************************************************************************)
(* Distribution.  members[3], who pays, is called the payer.               *)
(***************************************************************************)
members == <<"member1", "member2", "member3">>

Weights(w1, w2, w3) ==
    <<Mint(Controller, "member1", w1), Mint(Controller, "member2", w2),
      Mint(Controller, "member3", w3)>>

Withdrawals == [i \in 1 .. 3 |-> WithdrawFunds(members[i])]

Wallets(held, f1, f2, f3, payer) ==
    <<Is(<<"held">>, held), Is(<<"funds", "member1">>, f1),
      Is(<<"funds", "member2">>, f2), Is(<<"funds", "member3">>, f3),
      Is(<<"funds", "payer">>, payer)>>

Funds(distributed) ==
    <<Is(<<"distributed_funds">>, distributed), Is(<<"undistributed_funds">>, 0)>>

Paying(amount) == TokenSuite("member2" :> 1, "payer" :> amount)

divisible_amount_distributed ==
    Script(Paying(400),
           Weights(1, 2, 5) \o <<Distribute("payer", 400)>> \o Wallets(400, 0, 0, 0, 0)
             \o <<Is(<<"withdrawable_funds", "member1">>, 50),
                  Is(<<"withdrawable_funds", "member2">>, 100),
                  Is(<<"withdrawable_funds", "member3">>, 250)>>
             \o Funds(400) \o Withdrawals \o Wallets(0, 50, 100, 250, 0))

divisible_amount_distributed_twice ==
    Script(Paying(1000),
           Weights(1, 2, 5) \o <<Distribute("payer", 400)>> \o Funds(400)
             \o Withdrawals \o Wallets(0, 50, 100, 250, 600)
             \o <<Distribute("payer", 600)>> \o Funds(1000)
             \o Withdrawals \o Wallets(0, 125, 250, 625, 0))

divisible_amount_distributed_twice_accumulated ==
    Script(Paying(1000),
           Weights(1, 2, 5) \o <<Distribute("payer", 400)>> \o Funds(400)
             \o <<Distribute("payer", 600)>> \o Funds(1000)
             \o Withdrawals \o Wallets(0, 125, 250, 625, 0))

\* The weights become 6, 0 and 5.
ChangeWeights ==
    <<Transfer("member2", "member1", 1), Mint(Controller, "member1", 4),
      Burn(Controller, "member2", 1)>>

weight_changed_after_distribution ==
    Script(Paying(1500),
           Weights(1, 2, 5) \o <<Distribute("payer", 400)>> \o ChangeWeights
             \o Withdrawals \o Wallets(0, 50, 100, 250, 1100)
             \o <<Distribute("payer", 1100)>>
             \o Withdrawals \o Wallets(0, 650, 100, 750, 0))

weight_changed_after_distribution_accumulated ==
    Script(Paying(1500),
           Weights(1, 2, 5) \o <<Distribute("payer", 400)>> \o ChangeWeights
             \o <<Distribute("payer", 1100)>>
             \o Withdrawals \o Wallets(0, 650, 100, 750, 0))

distribution_with_leftover ==
    Script(Paying(3100),
           Weights(7, 11, 13) \o <<Distribute("payer", 100)>>
             \o Withdrawals \o Wallets(2, 22, 35, 41, 3000)
             \o <<Distribute("payer", 3000)>>
             \o Withdrawals \o Wallets(0, 700, 1100, 1300, 0))

distribution_with_leftover_accumulated ==
    Script(Paying(3100),
           Weights(7, 11, 13) \o <<Distribute("payer", 100), Distribute("payer", 3000)>>
             \o Withdrawals \o Wallets(0, 700, 1100, 1300, 0))

cw20_distributed ==
    Script(TokenSuite(<<>>, "member1" :> 1500),
           <<Mint(Controller, "member1", 5), Mint(Controller, "member2", 10),
             SendToTokenContract("member1", 1500), Distribute("member1", 0),
             WithdrawFunds("member1"), WithdrawFunds("member2")>>
             \o Wallets(0, 500, 1000, 0, 0))

-----------------------------------------------------------------------------
(***************************************************************************)
(* Rebasing (multitest/rebasing.rs, and the unit tests of contract.rs).    *)
(***************************************************************************)
Rebased(percentage) == Is(<<"multiplier">>, MulDec(InitialMultiplier, Percent(percentage)))

queries ==
    Script(TokenSuite(<<>>, <<>>),
           <<MintBase(Controller, "lender", 100),
             Is(<<"base_balance", "lender">>, 100), Is(<<"base_supply">>, 100),
             Rebase(Controller, Percent(120)), Rebased(120),
             Is(<<"base_balance", "lender">>, 120), Is(<<"base_supply">>, 120),
             Rebase(Controller, Percent(120)), Rebased(144),
             Is(<<"base_balance", "lender">>, 144), Is(<<"base_supply">>, 144)>>)

rebase_works ==
    Script(TokenSuite(<<>>, <<>>),
           <<Rebased(100), Rebase(Controller, Percent(120)), Rebased(120),
             Rebase(Controller, Percent(120)), Rebased(144)>>)

rebase_query_works ==
    Script(TokenSuite(<<>>, <<>>), <<Rebase(Controller, Percent(120)), Rebased(120)>>)

rebased_mint ==
    Script(TokenSuite(<<>>, <<>>),
           <<MintBase(Controller, "lender", 100),
             Rebase(Controller, Percent(125)), Rebased(125),
             Is(<<"base_balance", "lender">>, 125),
             MintBase(Controller, "lender", 20),
             Rebase(Controller, Percent(80)), Rebased(100),
             Is(<<"base_balance", "lender">>, 116)>>)

rebased_transfer ==
    Script(TokenSuite("lender" :> 100, <<>>),
           <<MintBase(Controller, "lender", 100), Rebase(Controller, Percent(120)),
             TransferBase("lender", "receiver", 24),
             Is(<<"base_balance", "lender">>, 96), Is(<<"base_balance", "receiver">>, 24),
             Is(<<"base_balance", Controller>>, 0)>>)

rebased_burn ==
    Script(TokenSuite(<<>>, <<>>),
           <<MintBase(Controller, Controller, 100), Rebase(Controller, Percent(125)),
             BurnBase(Controller, Controller, 25), Is(<<"base_balance", Controller>>, 100),
             Rebase(Controller, Percent(80)), Is(<<"base_balance", Controller>>, 80),
             Rebased(100)>>)

rebased_multiplier ==
    Script(TokenSuite(<<>>, <<>>),
           <<Mint(Controller, Controller, 100), Rebase(Controller, Percent(125)),
             Is(<<"balance", Controller>>, 100), Rebased(125)>>)

-----------------------------------------------------------------------------
TokenScripts ==
    minting \o burning \o transfer \o send
      \o <<fresh_queries, divisible_amount_distributed,
           divisible_amount_distributed_twice,
           divisible_amount_distributed_twice_accumulated,
           weight_changed_after_distribution,
           weight_changed_after_distribution_accumulated,
           distribution_with_leftover, distribution_with_leftover_accumulated,
           cw20_distributed, queries, rebase_works, rebase_query_works, rebased_mint,
           rebased_transfer, rebased_burn, rebased_multiplier>>
=============================================================================
