---------------------------- MODULE EagerRewards ----------------------------
(***************************************************************************)
(* What the isotonic token promises its holders about rewards, with no     *)
(* bookkeeping: a distribution credits every holder at once in proportion  *)
(* to the balances of that moment, later changes of balance concern only   *)
(* later distributions, and a withdrawal pays out whole tokens.  Points    *)
(* are fractions of a token: PointsScale of them make one.                 *)
(***************************************************************************)
EXTENDS Integers, Functions

CONSTANTS Accounts, PointsScale

VARIABLES balances,    \* tokens of each account
          owed,        \* points credited so far to each account
          paid,        \* rewards paid so far to each account
          leftover,    \* points that did not divide among the tokens
          distributed  \* rewards distributed so far

vars == <<balances, owed, paid, leftover, distributed>>

Zero == [a \in Accounts |-> 0]

Init == /\ balances = Zero
        /\ owed = Zero
        /\ paid = Zero
        /\ leftover = 0
        /\ distributed = 0

ChangeBalances ==
    /\ balances' \in [Accounts -> Nat]
    /\ UNCHANGED <<owed, paid, leftover, distributed>>

Supply == SumFunction(balances)

Distribute ==
    LET points == (distributed' - distributed) * PointsScale + leftover IN
    /\ Supply > 0
    /\ distributed' \in Nat /\ distributed' > distributed
    /\ owed' = [a \in Accounts |-> owed[a] + (points \div Supply) * balances[a]]
    /\ leftover' = points % Supply
    /\ UNCHANGED <<balances, paid>>

Withdraw(a) ==
    /\ paid' = [paid EXCEPT ![a] = owed[a] \div PointsScale]
    /\ UNCHANGED <<balances, owed, leftover, distributed>>

Next == ChangeBalances \/ Distribute \/ \E a \in Accounts : Withdraw(a)

Spec == Init /\ [][Next]_vars
=============================================================================
