----------------------------- MODULE MCTestBench -----------------------------
(***************************************************************************)
(* The accounts and tokens of the tests.                                   *)
(***************************************************************************)
EXTENDS TestBench

People == {"lender", "lender2", "borrower", "borrower2", "actor", "actor2", "user",
           "debtor", "liquidator", "member1", "member2", "member3", "payer"}

Contracts == {"controller", "receiver", "governance", "agency", "owner"}

AccountNames == People \cup Contracts

TokenOrder ==
    <<"atom", "common", "daodao", "juno", "market", "osmo">> \o generate_denoms(0, 15)
      \o <<"usdc", "wynd">>
=============================================================================
