---------------------------- MODULE TokenHandlers ----------------------------
(***************************************************************************)
(* The message handlers of the isotonic token, the C token of a market, as *)
(* operators on the contract's storage.  A storage t is a record with one  *)
(* field per item of state.rs; the maps BALANCES and WITHDRAW_ADJUSTMENT   *)
(* are functions whose default is 0.  For each handler H there is the      *)
(* condition under which it returns Ok, HOK, and the storage it leaves.    *)
(* The state machine of the token alone is IsotonicToken; the market       *)
(* applies the same operators inside its own transactions.                 *)
(***************************************************************************)
EXTENDS Arithmetic, FiniteSets

CONSTANTS Accounts,          \* every address that can hold C tokens
          PointsScale,       \* POINTS_SCALE, 4 * 10^9 in the code
          InitialMultiplier  \* 1 / 100000 in the code

ASSUME TokenAssumption == /\ IsFiniteSet(Accounts)
                          /\ PointsScale \in Nat \ {0}
                          /\ InitialMultiplier \in 1 .. Modulus - 1

TokenState == [balances : [Accounts -> 0 .. Modulus - 1],
               total_supply : 0 .. Modulus - 1,
               multiplier : 0 .. Modulus - 1,
               points_per_token : 0 .. Modulus - 1,
               points_leftover : 0 .. Modulus - 1,
               distributed_total : 0 .. Modulus - 1,
               withdrawable_total : 0 .. Modulus - 1,
               points_correction : [Accounts -> -(Modulus \div 2) .. (Modulus \div 2) - 1],
               withdrawn_funds : [Accounts -> 0 .. Modulus - 1]]

\* instantiate
EmptyToken == [balances |-> [a \in Accounts |-> 0],
               total_supply |-> 0,
               multiplier |-> InitialMultiplier,
               points_per_token |-> 0,
               points_leftover |-> 0,
               distributed_total |-> 0,
               withdrawable_total |-> 0,
               points_correction |-> [a \in Accounts |-> 0],
               withdrawn_funds |-> [a \in Accounts |-> 0]]

-----------------------------------------------------------------------------
(***************************************************************************)
(* Balances.  Every change of a balance by diff is paired with a           *)
(* correction of -points_per_token * diff, so that past distributions are  *)
(* not paid on tokens that came later.  The intermediate i128 products     *)
(* wrap, which modulo 2^128 is the same as wrapping the result once.       *)
(***************************************************************************)
\* Mutant: a holder keeps or loses the rewards of the tokens that move.
UncorrectedChange(t, a, diff) == [t EXCEPT !.balances[a] = @ + diff]

\* Mutant: the correction has the sign of the change.
WrongSignChange(t, a, diff) ==
    [t EXCEPT !.balances[a] = @ + diff,
              !.points_correction[a] = I128(@ + t.points_per_token * diff)]

ChangeBalance(t, a, diff) ==
    [t EXCEPT !.balances[a] = @ + diff,
              !.points_correction[a] = I128(@ - t.points_per_token * diff)]

\* Mutant: the balance of the recipient is read before the sender's is saved.
StaleTransfer(t, sender, recipient, amount) ==
    [ChangeBalance(ChangeBalance(t, sender, -amount), recipient, amount)
       EXCEPT !.balances[recipient] = t.balances[recipient] + amount]

transfer_tokens(t, sender, recipient, amount) ==
    ChangeBalance(ChangeBalance(t, sender, -amount), recipient, amount)

TransferOK(t, sender, recipient, amount) ==
    /\ amount > 0
    /\ amount <= t.balances[sender]
    /\ Fits(ChangeBalance(t, sender, -amount).balances[recipient] + amount)

mint(t, recipient, amount) ==
    [ChangeBalance(t, recipient, amount) EXCEPT !.total_supply = @ + amount]

MintOK(t, recipient, amount) ==
    /\ amount > 0
    /\ Fits(t.balances[recipient] + amount)
    /\ Fits(t.total_supply + amount)

burn_from(t, owner, amount) ==
    [ChangeBalance(t, owner, -amount) EXCEPT !.total_supply = @ - amount]

\* Mutant: the supply is checked and the balance is not.
UncheckedBurnOK(t, owner, amount) == amount > 0 /\ amount <= t.total_supply

BurnOK(t, owner, amount) ==
    /\ amount > 0
    /\ amount <= t.balances[owner]
    /\ amount <= t.total_supply

\* The amount of tokens that a message in base tokens is about, with the
\* condition under which the conversion does not panic.
FromBase(t, amount) == base_to_token(amount, t.multiplier)

FromBaseOK(t, amount) == t.multiplier > 0 /\ Fits(FromBase(t, amount))

rebase(t, ratio) == [t EXCEPT !.multiplier = MulDec(@, ratio)]

RebaseOK(t, ratio) == Fits(MulDec(t.multiplier, ratio))

BaseBalance(t, a) == token_to_base(t.balances[a], t.multiplier)

-----------------------------------------------------------------------------
(***************************************************************************)
(* The distribution of rewards to the holders, after ERC-2222.             *)
(***************************************************************************)

\* The points of an account: the i128 sum wraps and is read back as u128.
Points(t, a) ==
    U128(t.points_per_token * t.balances[a] + t.points_correction[a])

withdrawable_funds(t, a) ==
    U128((Points(t, a) \div PointsScale) - t.withdrawn_funds[a])

\* What the contract holds and has not yet handed out, out of `held` tokens.
Undistributed(t, held) == U128(held - t.withdrawable_total)

\* Mutant: the leftover of the last distribution is forgotten.
PointsWithoutLeftover(t, held) == U128(Undistributed(t, held) * PointsScale)

DistributedPoints(t, held) ==
    U128(Undistributed(t, held) * PointsScale + t.points_leftover)

distribute(t, held) ==
    IF Undistributed(t, held) = 0
    THEN t
    ELSE [t EXCEPT
            !.points_leftover = DistributedPoints(t, held) % t.total_supply,
            !.points_per_token = @ + (DistributedPoints(t, held) \div t.total_supply),
            !.distributed_total = @ + Undistributed(t, held),
            !.withdrawable_total = @ + Undistributed(t, held)]

DistributeOK(t, held) ==
    /\ t.total_supply # 0
    /\ \/ Undistributed(t, held) = 0
       \/ /\ Fits(t.points_per_token + (DistributedPoints(t, held) \div t.total_supply))
          /\ Fits(t.distributed_total + Undistributed(t, held))
          /\ Fits(t.withdrawable_total + Undistributed(t, held))

\* Mutant: withdrawable_total keeps counting what was paid.
WithdrawKeepingTotal(t, a) ==
    [t EXCEPT !.withdrawn_funds[a] = @ + withdrawable_funds(t, a)]

withdraw_funds(t, a) ==
    [t EXCEPT !.withdrawn_funds[a] = @ + withdrawable_funds(t, a),
              !.withdrawable_total = @ - withdrawable_funds(t, a)]

\* A withdrawal of more than the contract holds fails in the bank.
WithdrawOK(t, a, held) ==
    /\ Fits(t.withdrawn_funds[a] + withdrawable_funds(t, a))
    /\ withdrawable_funds(t, a) <= t.withdrawable_total
    /\ withdrawable_funds(t, a) <= held
=============================================================================
