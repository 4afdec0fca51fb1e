---------------------------- MODULE IsotonicToken ----------------------------
(***************************************************************************)
(* One isotonic-token contract: a rebasing cw20 token whose minting,       *)
(* burning and rebasing are reserved for its controller (a market), and    *)
(* whose holders share the rewards sent to the contract.  Each transaction *)
(* is one action: it either applies its whole handler or reverts.          *)
(***************************************************************************)
EXTENDS TokenHandlers, Functions

CONSTANTS Controller,  \* the address of the controller
          Amounts,     \* amounts that messages carry
          Ratios,      \* ratios of Rebase messages
          MaxSupply,   \* bound of the model on the supply
          MaxFunds     \* bound of the model on all the rewards ever sent

ASSUME ControllerAssumption == Controller \in Accounts
ASSUME InputAssumption == /\ Amounts \subseteq 0 .. Modulus - 1
                          /\ Ratios \subseteq 0 .. Modulus - 1
                          /\ MaxSupply \in Nat
\* state.rs says that POINTS_SCALE leaves room for about 96-bit amounts.
ASSUME CapacityAssumption == MaxFunds \in Nat /\ MaxFunds * PointsScale < Modulus

VARIABLES token,        \* the storage of the contract
          bank_balance  \* the distributed token that the contract holds

vars == <<token, bank_balance>>

Init == token = EmptyToken /\ bank_balance = 0

-----------------------------------------------------------------------------
(***************************************************************************)
(* Messages of the holders.  The controller answers the TransferableAmount *)
(* query of can_transfer with any limit: what a market answers is modelled *)
(* with the market.                                                        *)
(***************************************************************************)
Transfer(sender, recipient, amount, limit) ==
    /\ amount <= limit
    /\ TransferOK(token, sender, recipient, amount)
    /\ token' = transfer_tokens(token, sender, recipient, amount)
    /\ UNCHANGED bank_balance

\* Send also calls the recipient back, once the tokens have moved: what the
\* recipient does then is a later transaction of this model.
Send(sender, contract, amount, limit) ==
    /\ amount <= limit
    /\ TransferOK(token, sender, contract, amount)
    /\ token' = transfer_tokens(token, sender, contract, amount)
    /\ UNCHANGED bank_balance

Distribute ==
    /\ DistributeOK(token, bank_balance)
    /\ token' = distribute(token, bank_balance)
    /\ UNCHANGED bank_balance

WithdrawFunds(owner) ==
    /\ WithdrawOK(token, owner, bank_balance)
    /\ token' = withdraw_funds(token, owner)
    /\ bank_balance' = bank_balance - withdrawable_funds(token, owner)

\* Anybody sends the distributed token to the contract.
ReceiveFunds(amount) ==
    /\ token.distributed_total + (bank_balance - token.withdrawable_total) + amount
         <= MaxFunds
    /\ bank_balance' = bank_balance + amount
    /\ UNCHANGED token

-----------------------------------------------------------------------------
(***************************************************************************)
(* Messages reserved for the controller.                                   *)
(***************************************************************************)
TransferFrom(caller, sender, recipient, amount) ==
    /\ caller = Controller
    /\ TransferOK(token, sender, recipient, amount)
    /\ token' = transfer_tokens(token, sender, recipient, amount)
    /\ UNCHANGED bank_balance

TransferBaseFrom(caller, sender, recipient, amount) ==
    /\ FromBaseOK(token, amount)
    /\ TransferFrom(caller, sender, recipient, FromBase(token, amount))

Mint(caller, recipient, amount) ==
    /\ caller = Controller
    /\ MintOK(token, recipient, amount)
    /\ token.total_supply + amount <= MaxSupply
    /\ token' = mint(token, recipient, amount)
    /\ UNCHANGED bank_balance

MintBase(caller, recipient, amount) ==
    /\ FromBaseOK(token, amount)
    /\ Mint(caller, recipient, FromBase(token, amount))

BurnFrom(caller, owner, amount) ==
    /\ caller = Controller
    /\ BurnOK(token, owner, amount)
    /\ token' = burn_from(token, owner, amount)
    /\ UNCHANGED bank_balance

BurnBaseFrom(caller, owner, amount) ==
    /\ FromBaseOK(token, amount)
    /\ BurnFrom(caller, owner, FromBase(token, amount))

Rebase(caller, ratio) ==
    /\ caller = Controller
    /\ RebaseOK(token, ratio)
    /\ token' = rebase(token, ratio)
    /\ UNCHANGED bank_balance

-----------------------------------------------------------------------------
HolderNext ==
    \/ \E sender, recipient \in Accounts, amount, limit \in Amounts :
          \/ Transfer(sender, recipient, amount, limit)
          \/ Send(sender, recipient, amount, limit)
    \/ Distribute
    \/ \E owner \in Accounts : WithdrawFunds(owner)
    \/ \E amount \in Amounts : ReceiveFunds(amount)

ControllerNext ==
    \E caller, owner \in Accounts, amount \in Amounts :
       \/ \E recipient \in Accounts :
             \/ TransferFrom(caller, owner, recipient, amount)
             \/ TransferBaseFrom(caller, owner, recipient, amount)
       \/ Mint(caller, owner, amount)
       \/ MintBase(caller, owner, amount)
       \/ BurnFrom(caller, owner, amount)
       \/ BurnBaseFrom(caller, owner, amount)

RebaseNext == \E caller \in Accounts, ratio \in Ratios : Rebase(caller, ratio)

Next == HolderNext \/ ControllerNext \/ RebaseNext

Spec == Init /\ [][Next]_vars

-----------------------------------------------------------------------------
(***************************************************************************)
(* Correctness properties.                                                 *)
(***************************************************************************)

\* The storage of the contract has its type.
TypeOK == token \in TokenState /\ bank_balance \in Nat

\* The stored total supply is the sum of the balances, whatever transfers
\* (also of an account to itself), mints and burns happened.
SupplyIsSum == token.total_supply = SumFunction(token.balances)

\* No point of a distribution is lost or paid twice: what the holders have
\* earned and the leftover of the divisions add up to everything that was
\* distributed, although points_per_token * balance and the corrections may
\* wrap around, and whatever moved between the distributions.
PointsConserved ==
    SumFunction([a \in Accounts |-> Points(token, a)]) + token.points_leftover
       = token.distributed_total * PointsScale

\* The subtraction of withdrawable_funds never wraps: nobody was paid more
\* than the whole tokens that the points of the account are worth.
NeverOverpaid ==
    \A a \in Accounts :
       token.withdrawn_funds[a] <= Points(token, a) \div PointsScale

\* The contract can pay everybody at once: what the holders may withdraw is
\* within withdrawable_total, and that is within what the contract holds.
RewardsSolvent ==
    /\ SumFunction([a \in Accounts |-> withdrawable_funds(token, a)])
         <= token.withdrawable_total
    /\ token.withdrawable_total <= bank_balance

\* Only a withdrawal by the account itself lowers what the account may
\* withdraw, and only a distribution raises it: transferring, minting and
\* burning tokens moves no reward from one account to another.
RewardsStayWithEarner ==
    [][\A a \in Accounts :
          \/ withdrawable_funds(token', a) = withdrawable_funds(token, a)
          \/ /\ withdrawable_funds(token', a) > withdrawable_funds(token, a)
             /\ token'.distributed_total > token.distributed_total
          \/ /\ withdrawable_funds(token', a) = 0
             /\ bank_balance' = bank_balance - withdrawable_funds(token, a)
             /\ \A b \in Accounts \ {a} :
                   token'.withdrawn_funds[b] = token.withdrawn_funds[b]]_vars

\* The lazy bookkeeping by points per token implements an eager distribution,
\* in which every Distribute credits each holder's share there and then.
Eager == INSTANCE EagerRewards
           WITH balances <- token.balances,
                owed <- [a \in Accounts |-> Points(token, a)],
                paid <- token.withdrawn_funds,
                leftover <- token.points_leftover,
                distributed <- token.distributed_total

EagerSpec == Eager!Spec
=============================================================================
