----------------------------- MODULE TokenProofs -----------------------------
(***************************************************************************)
(* Theorems about the isotonic token, for every set of accounts and every  *)
(* width of the integers: its supply, and its rewards.  The points that    *)
(* holders have earned are never lost or paid twice although they are kept *)
(* in numbers that wrap around, and the contract refines an eager          *)
(* distribution.                                                           *)
(***************************************************************************)
EXTENDS IsotonicToken, TokenLemmas

-----------------------------------------------------------------------------
(***************************************************************************)
(* The invariant: the type and the supply.                                 *)
(***************************************************************************)
\* The inductive invariant: the supply needs the types, for the arithmetic.
Inv == TypeOK /\ SupplyIsSum

\* A new token satisfies the invariant.
LEMMA InvInit == Init => Inv
<1> SUFFICES ASSUME Init PROVE Inv  OBVIOUS
<1>1. EmptyToken \in TokenState  BY EmptyTokenType
<1>2. SumFunction(EmptyToken.balances) = 0
  BY SumConstZero, TokenAssumption DEF EmptyToken
<1>3. EmptyToken.total_supply = 0  BY DEF EmptyToken
<1> QED BY <1>1, <1>2, <1>3 DEF Init, Inv, TypeOK, SupplyIsSum

\* TransferFrom, whoever calls it, preserves the invariant.
LEMMA TransferFromInv ==
  ASSUME Inv, NEW c, NEW s \in Accounts, NEW r \in Accounts, NEW amount \in Nat,
         TransferFrom(c, s, r, amount)
  PROVE  Inv'
BY TransferType, TransferSum DEF TransferFrom, Inv, TypeOK, SupplyIsSum, Backed

\* Mint preserves the invariant.
LEMMA MintInv ==
  ASSUME Inv, NEW c, NEW r \in Accounts, NEW amount \in Nat, Mint(c, r, amount)
  PROVE  Inv'
BY MintType, MintSum DEF Mint, Inv, TypeOK, SupplyIsSum, Backed

\* BurnFrom preserves the invariant.
LEMMA BurnInv ==
  ASSUME Inv, NEW c, NEW o \in Accounts, NEW amount \in Nat, BurnFrom(c, o, amount)
  PROVE  Inv'
BY BurnType, BurnSum DEF BurnFrom, Inv, TypeOK, SupplyIsSum, Backed

\* Every message preserves the invariant.
LEMMA InvStep == Inv /\ [Next]_vars => Inv'
<1> SUFFICES ASSUME Inv, [Next]_vars PROVE Inv'  OBVIOUS
<1>a. Amounts \subseteq Nat  BY InputAssumption
<1>1. ASSUME NEW s \in Accounts, NEW r \in Accounts, NEW amount \in Amounts,
             NEW limit \in Amounts, Transfer(s, r, amount, limit)
      PROVE  Inv'
  BY <1>1, <1>a, TransferType, TransferSum
  DEF Transfer, Inv, TypeOK, SupplyIsSum, Backed
<1>2. ASSUME NEW s \in Accounts, NEW r \in Accounts, NEW amount \in Amounts,
             NEW limit \in Amounts, Send(s, r, amount, limit)
      PROVE  Inv'
  BY <1>2, <1>a, TransferType, TransferSum
  DEF Send, Inv, TypeOK, SupplyIsSum, Backed
<1>3. CASE Distribute
  BY <1>3, DistributeType, SameSupply
  DEF Distribute, Inv, TypeOK, SupplyIsSum, Backed
<1>4. ASSUME NEW o \in Accounts, WithdrawFunds(o) PROVE Inv'
  <2>1. withdrawable_funds(token, o) \in Nat /\ token' \in TokenState
    BY <1>4, WithdrawType DEF WithdrawFunds, Inv, TypeOK
  <2>2. bank_balance' \in Nat
    BY <1>4, <2>1 DEF WithdrawFunds, WithdrawOK, Inv, TypeOK
  <2> QED BY <1>4, <2>1, <2>2, SameSupply
      DEF WithdrawFunds, Inv, TypeOK, SupplyIsSum, Backed
<1>5. ASSUME NEW amount \in Amounts, ReceiveFunds(amount) PROVE Inv'
  BY <1>5, <1>a DEF ReceiveFunds, Inv, TypeOK, SupplyIsSum
<1>6. ASSUME NEW c \in Accounts, NEW s \in Accounts, NEW amount \in Amounts,
             NEW r \in Accounts, TransferFrom(c, s, r, amount)
      PROVE  Inv'
  BY <1>6, <1>a, TransferFromInv
<1>7. ASSUME NEW c \in Accounts, NEW s \in Accounts, NEW amount \in Amounts,
             NEW r \in Accounts, TransferBaseFrom(c, s, r, amount)
      PROVE  Inv'
  BY <1>7, FromBaseNat, TransferFromInv DEF TransferBaseFrom
<1>8. ASSUME NEW c \in Accounts, NEW o \in Accounts, NEW amount \in Amounts,
             Mint(c, o, amount) \/ MintBase(c, o, amount)
      PROVE  Inv'
  BY <1>8, <1>a, FromBaseNat, MintInv DEF MintBase
<1>9. ASSUME NEW c \in Accounts, NEW o \in Accounts, NEW amount \in Amounts,
             BurnFrom(c, o, amount) \/ BurnBaseFrom(c, o, amount)
      PROVE  Inv'
  BY <1>9, <1>a, FromBaseNat, BurnInv DEF BurnBaseFrom
<1>10. ASSUME NEW c \in Accounts, NEW ratio \in Ratios, Rebase(c, ratio)
       PROVE  Inv'
  BY <1>10, RebaseType, SameSupply DEF Rebase, Inv, TypeOK, SupplyIsSum, Backed
<1>11. CASE UNCHANGED vars
  BY <1>11 DEF vars, Inv, TypeOK, SupplyIsSum
<1> QED BY <1>1, <1>2, <1>3, <1>4, <1>5, <1>6, <1>7, <1>8, <1>9, <1>10, <1>11
    DEF Next, HolderNext, ControllerNext, RebaseNext

\* The invariant holds in every reachable state of the token contract.
THEOREM InvHolds == Spec => []Inv
<1>1. Init => Inv  BY InvInit
<1>2. Inv /\ [Next]_vars => Inv'  BY InvStep
<1> QED BY <1>1, <1>2, PTL DEF Spec

\* Every reachable storage of the token contract has its type: no handler
\* leaves a balance, a supply or a reward total that is negative or too wide.
THEOREM TypeCorrect == Spec => []TypeOK
BY InvHolds, PTL DEF Inv

\* The stored supply is always the sum of the balances.
THEOREM SupplyCorrect == Spec => []SupplyIsSum
BY InvHolds, PTL DEF Inv

-----------------------------------------------------------------------------
(***************************************************************************)
(* The rewards.                                                            *)
(***************************************************************************)
\* The points that each account has earned.
Earned(t) == [a \in Accounts |-> Points(t, a)]

\* The books of the rewards balance: all points are somebody's or left over,
\* nobody was paid more than the points are worth, and what was distributed
\* and not paid is what can be withdrawn.
Accounted(t) ==
    /\ SumFunction(Earned(t)) + t.points_leftover = t.distributed_total * PointsScale
    /\ \A a \in Accounts : t.withdrawn_funds[a] <= Points(t, a) \div PointsScale
    /\ t.withdrawable_total + SumFunction(t.withdrawn_funds) = t.distributed_total

\* The contract holds what can be withdrawn, and everything ever sent to it
\* is within the capacity of the points.
Funded(t, held) ==
    /\ t.withdrawable_total <= held
    /\ t.distributed_total + (held - t.withdrawable_total) <= MaxFunds

\* u has the same rewards as t, for the accounts and in the totals.
SameRewards(t, u) ==
    /\ \A a \in Accounts : Points(u, a) = Points(t, a)
    /\ u.withdrawn_funds = t.withdrawn_funds
    /\ u.points_leftover = t.points_leftover
    /\ u.distributed_total = t.distributed_total
    /\ u.withdrawable_total = t.withdrawable_total

-----------------------------------------------------------------------------
(***************************************************************************)
(* Changes of balance.                                                     *)
(***************************************************************************)
\* The points of an account are a number of 128 bits.
LEMMA PointsType ==
  ASSUME NEW t \in TokenState, NEW a \in Accounts
  PROVE  /\ Points(t, a) \in 0 .. Modulus - 1
         /\ t.points_per_token \in Nat /\ t.balances[a] \in Nat
         /\ t.points_correction[a] \in Int
         /\ t.points_per_token * t.balances[a] + t.points_correction[a] \in Int
<1>1. /\ t.points_per_token \in Nat /\ t.balances[a] \in Nat
      /\ t.points_correction[a] \in Int
  BY ModulusAssumption DEF TokenState
<1>2. t.points_per_token * t.balances[a] + t.points_correction[a] \in Int
  BY <1>1
<1> QED BY <1>1, <1>2, U128Type DEF Points

\* A change of balance with its correction leaves the rewards of everybody
\* alone, however its products and corrections wrap.
LEMMA ChangeBalanceRewards ==
  ASSUME NEW t \in TokenState, NEW a \in Accounts, NEW diff \in Int
  PROVE  SameRewards(t, ChangeBalance(t, a, diff))
<1> DEFINE u == ChangeBalance(t, a, diff)
<1>1. /\ u.points_per_token = t.points_per_token
      /\ u.withdrawn_funds = t.withdrawn_funds
      /\ u.points_leftover = t.points_leftover
      /\ u.distributed_total = t.distributed_total
      /\ u.withdrawable_total = t.withdrawable_total
  BY DEF ChangeBalance, TokenState
<1>2. /\ u.balances[a] = t.balances[a] + diff
      /\ u.points_correction[a]
           = I128(t.points_correction[a] - t.points_per_token * diff)
      /\ \A x \in Accounts \ {a} : /\ u.balances[x] = t.balances[x]
                                   /\ u.points_correction[x] = t.points_correction[x]
  BY DEF ChangeBalance, TokenState
<1> HIDE DEF u
<1>3. Points(u, a) = Points(t, a)
  <2> DEFINE ppt == t.points_per_token
             b == t.balances[a]
             c == t.points_correction[a]
  <2>1. ppt \in Int /\ b \in Int /\ c \in Int
    BY PointsType
  <2>2. Points(u, a) = U128(ppt * (b + diff) + I128(c - ppt * diff))
    BY <1>1, <1>2 DEF Points
  <2>3. Points(t, a) = U128(ppt * b + c)
    BY DEF Points
  <2> HIDE DEF ppt, b, c
  <2>4. ppt * (b + diff) = ppt * b + ppt * diff /\ ppt * b \in Int /\ ppt * diff \in Int
    BY <2>1
  <2>5. U128(ppt * (b + diff) + I128(c - ppt * diff))
          = U128(ppt * (b + diff) + (c - ppt * diff))
    <3>1. ppt * (b + diff) \in Int /\ c - ppt * diff \in Int  BY <2>1, <2>4
    <3> QED BY <3>1, U128OfI128
  <2>6. ppt * (b + diff) + (c - ppt * diff) = ppt * b + c
    BY <2>1, <2>4
  <2> QED BY <2>2, <2>3, <2>5, <2>6
<1>4. \A x \in Accounts \ {a} : Points(u, x) = Points(t, x)
  BY <1>1, <1>2 DEF Points
<1> QED BY <1>1, <1>3, <1>4 DEF SameRewards, u

\* transfer_tokens leaves the rewards of both accounts alone.
LEMMA TransferRewards ==
  ASSUME NEW t \in TokenState, NEW s \in Accounts, NEW r \in Accounts,
         NEW amount \in Nat, TransferOK(t, s, r, amount)
  PROVE  SameRewards(t, transfer_tokens(t, s, r, amount))
<1> DEFINE u == ChangeBalance(t, s, -amount)
<1>1. u \in TokenState
  <2>1. Fits(t.balances[s] + (-amount))
    BY ModulusAssumption DEF TransferOK, Fits, TokenState
  <2> QED BY <2>1, ChangeBalanceType
<1>2. SameRewards(t, u)
  BY ChangeBalanceRewards
<1> HIDE DEF u
<1>3. SameRewards(u, ChangeBalance(u, r, amount))
  BY <1>1, ChangeBalanceRewards
<1> QED BY <1>2, <1>3 DEF SameRewards, transfer_tokens, u

\* Changing the supply of a storage changes no reward.
LEMMA SupplyRewards ==
  ASSUME NEW t \in TokenState, NEW supply
  PROVE  SameRewards(t, [t EXCEPT !.total_supply = supply])
BY DEF SameRewards, Points, TokenState

\* mint pays no reward on the new tokens.
LEMMA MintRewards ==
  ASSUME NEW t \in TokenState, NEW r \in Accounts, NEW amount \in Nat,
         MintOK(t, r, amount)
  PROVE  SameRewards(t, mint(t, r, amount))
<1> DEFINE u == ChangeBalance(t, r, amount)
<1>1. u \in TokenState
  BY ChangeBalanceType DEF MintOK
<1>2. SameRewards(t, u)
  BY ChangeBalanceRewards
<1>3. mint(t, r, amount) = [u EXCEPT !.total_supply = u.total_supply + amount]
  BY DEF mint
<1> HIDE DEF u
<1>4. SameRewards(u, [u EXCEPT !.total_supply = u.total_supply + amount])
  BY <1>1, SupplyRewards
<1> QED BY <1>2, <1>3, <1>4 DEF SameRewards

\* burn_from takes no reward that the burnt tokens earned.
LEMMA BurnRewards ==
  ASSUME NEW t \in TokenState, NEW o \in Accounts, NEW amount \in Nat,
         BurnOK(t, o, amount)
  PROVE  SameRewards(t, burn_from(t, o, amount))
<1> DEFINE u == ChangeBalance(t, o, -amount)
<1>1. u \in TokenState
  <2>1. Fits(t.balances[o] + (-amount))
    BY ModulusAssumption DEF BurnOK, Fits, TokenState
  <2> QED BY <2>1, ChangeBalanceType
<1>2. SameRewards(t, u)
  BY ChangeBalanceRewards
<1>3. burn_from(t, o, amount) = [u EXCEPT !.total_supply = u.total_supply - amount]
  BY DEF burn_from
<1> HIDE DEF u
<1>4. SameRewards(u, [u EXCEPT !.total_supply = u.total_supply - amount])
  BY <1>1, SupplyRewards
<1> QED BY <1>2, <1>3, <1>4 DEF SameRewards

\* rebase changes no reward.
LEMMA RebaseRewards ==
  ASSUME NEW t \in TokenState, NEW ratio
  PROVE  SameRewards(t, rebase(t, ratio))
BY DEF SameRewards, Points, rebase, TokenState

\* The books balance if nothing in them changed.
LEMMA SameRewardsAccounted ==
  ASSUME NEW t, NEW u, NEW held, SameRewards(t, u), Accounted(t), Funded(t, held)
  PROVE  Accounted(u) /\ Funded(u, held)
<1>1. Earned(u) = Earned(t)
  BY DEF Earned, SameRewards
<1> QED BY <1>1 DEF Accounted, Funded, SameRewards

-----------------------------------------------------------------------------
(***************************************************************************)
(* Distributions and withdrawals.                                          *)
(***************************************************************************)
\* Everything that was ever distributed is a number of points of 128 bits.
LEMMA Capacity ==
  ASSUME NEW n \in Nat, n <= MaxFunds
  PROVE  n * PointsScale \in Nat /\ n * PointsScale < Modulus /\ n < Modulus
<1>1. PointsScale \in Nat \ {0} /\ MaxFunds \in Nat /\ MaxFunds * PointsScale < Modulus
  BY TokenAssumption, CapacityAssumption
<1>2. n * PointsScale <= MaxFunds * PointsScale /\ n <= n * PointsScale
  BY <1>1
<1>3. n * PointsScale \in Nat /\ MaxFunds * PointsScale \in Nat /\ Modulus \in Nat
  BY <1>1, ModulusAssumption
<1> QED BY <1>1, <1>2, <1>3

\* The totals of a storage whose books balance are natural numbers, and the
\* leftover is part of what was distributed.
LEMMA AccountedTypes ==
  ASSUME NEW t \in TokenState, Accounted(t)
  PROVE  /\ Earned(t) \in [Accounts -> Int]
         /\ \A a \in Accounts : Earned(t)[a] >= 0
         /\ SumFunction(Earned(t)) \in Nat
         /\ t.points_leftover \in Nat /\ t.distributed_total \in Nat
         /\ t.withdrawable_total \in Nat
         /\ t.points_leftover <= t.distributed_total * PointsScale
<1>1. Earned(t) \in [Accounts -> Int] /\ \A a \in Accounts : Earned(t)[a] >= 0
  BY PointsType, ModulusAssumption DEF Earned
<1>2. SumFunction(Earned(t)) >= 0 /\ SumFunction(Earned(t)) \in Int
  BY <1>1, SumInt, SumNonNegative, TokenAssumption
<1>3. /\ t.points_leftover \in Nat /\ t.distributed_total \in Nat
      /\ t.withdrawable_total \in Nat
  BY ModulusAssumption DEF TokenState
<1>4. t.distributed_total * PointsScale \in Nat
  BY <1>3, TokenAssumption
<1> QED BY <1>1, <1>2, <1>3, <1>4 DEF Accounted

\* What distribute hands out: every holder gets the same points on each token,
\* nothing wraps, and what does not divide is left over.
LEMMA DistributeShares ==
  ASSUME NEW t \in TokenState, NEW held \in Nat, Accounted(t), Funded(t, held),
         Backed(t), DistributeOK(t, held), Undistributed(t, held) # 0
  PROVE  LET funds == held - t.withdrawable_total
             points == funds * PointsScale + t.points_leftover
             share == points \div t.total_supply
             u == distribute(t, held)
         IN  /\ funds \in Nat \ {0} /\ points \in Nat /\ share \in Nat
             /\ t.total_supply \in Nat \ {0}
             /\ u.balances = t.balances /\ u.withdrawn_funds = t.withdrawn_funds
             /\ u.points_leftover = points % t.total_supply
             /\ u.distributed_total = t.distributed_total + funds
             /\ u.withdrawable_total = t.withdrawable_total + funds
             /\ \A a \in Accounts :
                   /\ share * t.balances[a] \in Nat
                   /\ Points(u, a) = Points(t, a) + share * t.balances[a]
<1> DEFINE funds == held - t.withdrawable_total
           points == funds * PointsScale + t.points_leftover
           supply == t.total_supply
           share == points \div supply
           u == distribute(t, held)
           total == t.distributed_total + funds
<1>a. PointsScale \in Nat \ {0} /\ Modulus \in Nat \ {0}
  BY TokenAssumption, ModulusAssumption
<1>1. funds \in Nat /\ total \in Nat /\ funds < Modulus
      /\ total * PointsScale \in Nat /\ total * PointsScale < Modulus
  <2>1. funds \in Nat /\ total \in Nat /\ total <= MaxFunds /\ funds <= MaxFunds
    BY AccountedTypes, CapacityAssumption DEF Funded
  <2> QED BY <2>1, Capacity
<1>2. Undistributed(t, held) = funds
  <2>1. funds \in 0 .. Modulus - 1  BY <1>1, <1>a
  <2> HIDE DEF funds
  <2>2. funds % Modulus = funds  BY <2>1, <1>a, ModSmall
  <2> QED BY <2>2 DEF funds, Undistributed, U128
<1>3. /\ points \in Nat /\ points <= total * PointsScale
      /\ total * PointsScale = t.distributed_total * PointsScale + funds * PointsScale
      /\ funds * PointsScale \in Nat /\ t.distributed_total * PointsScale \in Nat
  <2>1. t.points_leftover \in Nat /\ t.distributed_total \in Nat
        /\ t.points_leftover <= t.distributed_total * PointsScale
    BY AccountedTypes
  <2>2. total * PointsScale = t.distributed_total * PointsScale + funds * PointsScale
    BY <1>1, <1>a, <2>1
  <2>3. funds * PointsScale \in Nat /\ t.distributed_total * PointsScale \in Nat
    BY <1>1, <1>a, <2>1
  <2> QED BY <2>1, <2>2, <2>3
<1>4. DistributedPoints(t, held) = points
  <2>1. points \in 0 .. Modulus - 1  BY <1>1, <1>3, <1>a
  <2> HIDE DEF points
  <2>2. points % Modulus = points  BY <2>1, <1>a, ModSmall
  <2> QED BY <1>2, <2>2 DEF points, DistributedPoints, U128
<1>5. supply \in Nat \ {0} /\ supply = SumFunction(t.balances)
  BY ModulusAssumption DEF DistributeOK, TokenState, Backed
<1>6. share \in Nat /\ points = supply * share + (points % supply)
      /\ points % supply \in 0 .. supply - 1
  <2>1. points \in Nat /\ supply \in Nat \ {0}  BY <1>3, <1>5
  <2> HIDE DEF points, supply
  <2>2. points \in Int  BY <2>1
  <2>3. /\ points = supply * (points \div supply) + (points % supply)
        /\ points % supply \in 0 .. supply - 1
    BY <2>1, <2>2, DivMod
  <2>4. points \div supply \in Nat
    BY <2>1, DivType
  <2> QED BY <2>3, <2>4
<1>7. /\ u.balances = t.balances /\ u.withdrawn_funds = t.withdrawn_funds
      /\ u.points_correction = t.points_correction
      /\ u.points_leftover = points % supply
      /\ u.points_per_token = t.points_per_token + share
      /\ u.distributed_total = t.distributed_total + funds
      /\ u.withdrawable_total = t.withdrawable_total + funds
  <2>1. u = [t EXCEPT !.points_leftover = points % supply,
                      !.points_per_token = @ + share,
                      !.distributed_total = @ + funds,
                      !.withdrawable_total = @ + funds]
    BY <1>2, <1>4 DEF distribute
  <2> HIDE DEF u, points, share, funds, supply
  <2> QED BY <2>1 DEF TokenState
<1> HIDE DEF u, share, points, supply
<1>8. ASSUME NEW a \in Accounts
      PROVE  share * t.balances[a] \in Nat /\ Points(t, a) + share * t.balances[a] < Modulus
  <2> DEFINE f == [x \in Accounts |-> share * t.balances[x] + Earned(t)[x]]
  <2>1. /\ t.balances \in [Accounts -> Int]
        /\ \A x \in Accounts : t.balances[x] \in Nat /\ share * t.balances[x] \in Nat
    BY <1>6, ModulusAssumption DEF TokenState
  <2>2. /\ f \in [Accounts -> Int]
        /\ \A x \in Accounts : f[x] >= 0 /\ f[x] = share * t.balances[x] + Earned(t)[x]
    BY <2>1, AccountedTypes
  <2> HIDE DEF f
  <2>3. f[a] <= SumFunction(f)
    BY <2>2, SumMember, TokenAssumption
  <2>4. SumFunction(f) = share * supply + SumFunction(Earned(t))
    <3>1. share \in Int /\ Earned(t) \in [Accounts -> Int]
      BY <1>6, AccountedTypes
    <3>2. IsFiniteSet(Accounts)  BY TokenAssumption
    <3>3. SumFunction(f) = share * SumFunction(t.balances) + SumFunction(Earned(t))
      BY <2>1, <2>2, <3>1, <3>2, SumLinear
    <3> QED BY <3>3, <1>5
  <2>5. SumFunction(f) <= total * PointsScale
    <3>1. share * supply = supply * share /\ supply * share \in Nat
      BY <1>5, <1>6
    <3>2. SumFunction(Earned(t)) + t.points_leftover = t.distributed_total * PointsScale
      BY DEF Accounted
    <3>3. supply * share <= funds * PointsScale + t.points_leftover
      <4>1. points >= supply * share
        BY <1>3, <1>5, <1>6, <3>1
      <4> QED BY <4>1, <3>1 DEF points
    <3>4. SumFunction(Earned(t)) \in Nat /\ t.points_leftover \in Nat
      BY AccountedTypes
    <3> HIDE DEF funds, total
    <3> QED BY <2>4, <3>1, <3>2, <3>3, <3>4, <1>1, <1>3
  <2>6. f[a] = share * t.balances[a] + Points(t, a) /\ Points(t, a) \in Nat
    BY <2>2, PointsType, ModulusAssumption DEF Earned
  <2>7. SumFunction(f) \in Int
    BY <2>2, SumInt, TokenAssumption
  <2> HIDE DEF total
  <2> QED BY <1>1, <1>a, <2>1, <2>2, <2>3, <2>5, <2>6, <2>7
<1>9. ASSUME NEW a \in Accounts
      PROVE  Points(u, a) = Points(t, a) + share * t.balances[a]
  <2> DEFINE x == t.points_per_token * t.balances[a] + t.points_correction[a]
             y == (t.points_per_token + share) * t.balances[a] + t.points_correction[a]
             q == x \div Modulus
             z == Points(t, a) + share * t.balances[a]
  <2>1. /\ x \in Int /\ t.points_per_token \in Nat /\ t.balances[a] \in Nat
        /\ t.points_correction[a] \in Int /\ Points(t, a) \in Nat
    BY PointsType, ModulusAssumption
  <2>2. q \in Int /\ x = Modulus * q + Points(t, a)
    <3> HIDE DEF x
    <3>1. Points(t, a) = x % Modulus  BY DEF Points, U128, x
    <3> QED BY <2>1, <3>1, <1>a
  <2>3. y = x + share * t.balances[a] /\ y \in Int
    BY <2>1, <1>6
  <2>4. z \in 0 .. Modulus - 1
    BY <2>1, <1>8, <1>a
  <2> HIDE DEF q, x
  <2>5. y = Modulus * q + z
    BY <2>2, <2>3, <2>1, <1>8, <1>a
  <2> HIDE DEF y, z
  <2>6. y % Modulus = z
    BY <2>2, <2>3, <2>4, <2>5, <1>a, Euclid
  <2>7. Points(u, a) = y % Modulus
    BY <1>7 DEF Points, U128, y
  <2> QED BY <2>6, <2>7 DEF z
<1>10. funds # 0  BY <1>2
<1> QED BY <1>1, <1>3, <1>5, <1>6, <1>7, <1>8, <1>9, <1>10
        DEF u, share, points, supply

\* The books still balance after a distribution.
LEMMA DistributeAccounted ==
  ASSUME NEW t \in TokenState, NEW held \in Nat, Accounted(t), Funded(t, held),
         Backed(t), DistributeOK(t, held)
  PROVE  Accounted(distribute(t, held)) /\ Funded(distribute(t, held), held)
<1>1. CASE Undistributed(t, held) = 0
  BY <1>1 DEF distribute
<1>2. CASE Undistributed(t, held) # 0
  <2> DEFINE funds == held - t.withdrawable_total
             points == funds * PointsScale + t.points_leftover
             supply == t.total_supply
             share == points \div supply
             u == distribute(t, held)
             dist == t.distributed_total
  <2>1. /\ funds \in Nat \ {0} /\ points \in Nat /\ share \in Nat
        /\ supply \in Nat \ {0}
        /\ u.withdrawn_funds = t.withdrawn_funds
        /\ u.points_leftover = points % supply
        /\ u.distributed_total = dist + funds
        /\ u.withdrawable_total = t.withdrawable_total + funds
    BY <1>2, DistributeShares
  <2>2. \A a \in Accounts :
          /\ share * t.balances[a] \in Nat
          /\ Points(u, a) = Points(t, a) + share * t.balances[a]
    BY <1>2, DistributeShares
  <2> HIDE DEF u
  <2>3. points = supply * share + (points % supply) /\ points % supply \in Nat
    <3> HIDE DEF points, supply
    <3>1. points \in Int  BY <2>1
    <3> QED BY <2>1, <3>1, DivMod
  <2>4. /\ dist \in Nat /\ t.points_leftover \in Nat /\ t.withdrawable_total \in Nat
        /\ SumFunction(Earned(t)) \in Nat /\ PointsScale \in Nat
    BY AccountedTypes, TokenAssumption
  <2> HIDE DEF share
  <2>5. SumFunction(Earned(u)) = share * SumFunction(t.balances) + SumFunction(Earned(t))
    <3>1. /\ t.balances \in [Accounts -> Int] /\ Earned(t) \in [Accounts -> Int]
          /\ share \in Int /\ IsFiniteSet(Accounts)
      BY <2>1, AccountedTypes, TokenAssumption, ModulusAssumption DEF TokenState
    <3>2. \A a \in Accounts : Points(t, a) \in Nat
      BY PointsType, ModulusAssumption
    <3>3. /\ Earned(u) \in [Accounts -> Int]
          /\ \A a \in Accounts : Earned(u)[a] = share * t.balances[a] + Earned(t)[a]
      BY <2>2, <3>2 DEF Earned
    <3> QED BY <3>1, <3>3, SumLinear
  <2>6. SumFunction(Earned(u)) + (points % supply) = (dist + funds) * PointsScale
    <3>1. SumFunction(t.balances) = supply  BY DEF Backed
    <3>2. share * supply = supply * share /\ supply * share \in Nat  BY <2>1
    <3>3. SumFunction(Earned(t)) + t.points_leftover = dist * PointsScale
      BY DEF Accounted
    <3>4. /\ (dist + funds) * PointsScale = dist * PointsScale + funds * PointsScale
          /\ dist * PointsScale \in Nat /\ funds * PointsScale \in Nat
      BY <2>1, <2>4
    <3>5. supply * share + (points % supply) = funds * PointsScale + t.points_leftover
      BY <2>3
    <3> HIDE DEF points, dist, funds, supply
    <3> QED BY <2>3, <2>4, <2>5, <3>1, <3>2, <3>3, <3>4, <3>5
  <2>7. \A a \in Accounts : u.withdrawn_funds[a] <= Points(u, a) \div PointsScale
    <3> SUFFICES ASSUME NEW a \in Accounts
                 PROVE  t.withdrawn_funds[a] <= Points(u, a) \div PointsScale
      BY <2>1
    <3>1. Points(t, a) \in Nat /\ Points(u, a) \in Nat /\ Points(t, a) <= Points(u, a)
      BY <2>2, PointsType, ModulusAssumption
    <3>2. Points(t, a) \div PointsScale <= Points(u, a) \div PointsScale
      BY <3>1, DivMonotone, TokenAssumption
    <3>3. /\ t.withdrawn_funds[a] <= Points(t, a) \div PointsScale
          /\ t.withdrawn_funds[a] \in Nat
      BY ModulusAssumption DEF Accounted, TokenState
    <3>4. Points(t, a) \div PointsScale \in Nat /\ Points(u, a) \div PointsScale \in Nat
      BY <3>1, DivType, TokenAssumption
    <3> QED BY <3>2, <3>3, <3>4
  <2>8. u.withdrawable_total + SumFunction(u.withdrawn_funds) = dist + funds
    <3>1. t.withdrawable_total + SumFunction(t.withdrawn_funds) = dist
      BY DEF Accounted
    <3>2. t.withdrawn_funds \in [Accounts -> Int]
      BY ModulusAssumption DEF TokenState
    <3>3. SumFunction(t.withdrawn_funds) \in Int
      BY <3>2, SumInt, TokenAssumption
    <3> QED BY <2>1, <2>4, <3>1, <3>3
  <2>9. Accounted(u)
    BY <2>1, <2>6, <2>7, <2>8 DEF Accounted
  <2>10. Funded(u, held)
    BY <2>1, <2>4 DEF Funded
  <2> QED BY <2>9, <2>10 DEF u
<1> QED BY <1>1, <1>2

\* While the books balance, the subtractions of withdrawable_funds are exact.
LEMMA WithdrawableExact ==
  ASSUME NEW t \in TokenState, NEW a \in Accounts, Accounted(t)
  PROVE  /\ withdrawable_funds(t, a) = (Points(t, a) \div PointsScale) - t.withdrawn_funds[a]
         /\ withdrawable_funds(t, a) \in Nat
         /\ Points(t, a) \div PointsScale \in Nat
         /\ t.withdrawn_funds[a] \in Nat
<1> DEFINE whole == Points(t, a) \div PointsScale
           w == whole - t.withdrawn_funds[a]
<1>1. Points(t, a) \in 0 .. Modulus - 1 /\ PointsScale \in Nat \ {0}
  BY PointsType, TokenAssumption
<1>2. whole \in Nat /\ whole <= Points(t, a)
  <2> DEFINE x == Points(t, a)
  <2> HIDE DEF x
  <2>1. x \in Nat /\ x \in Int  BY <1>1, ModulusAssumption DEF x
  <2>2. /\ x \div PointsScale \in Nat
        /\ x = PointsScale * (x \div PointsScale) + (x % PointsScale)
        /\ x % PointsScale \in 0 .. PointsScale - 1
    BY <2>1, <1>1, DivMod, DivType
  <2> DEFINE q == x \div PointsScale
  <2> HIDE DEF q
  <2>3. q \in Nat /\ PointsScale * q <= x  BY <2>1, <2>2, <1>1 DEF q
  <2>4. q <= PointsScale * q  BY <2>3, <1>1
  <2>5. PointsScale * q \in Nat  BY <2>3, <1>1
  <2>6. q <= x  BY <2>1, <2>3, <2>4, <2>5
  <2> QED BY <2>3, <2>6 DEF q, x
<1>3. t.withdrawn_funds[a] \in Nat /\ t.withdrawn_funds[a] <= whole
  BY ModulusAssumption DEF Accounted, TokenState
<1> HIDE DEF whole
<1>4. w \in 0 .. Modulus - 1
  BY <1>1, <1>2, <1>3, ModulusAssumption
<1> HIDE DEF w
<1>5. w % Modulus = w
  BY <1>4, ModSmall, ModulusAssumption
<1>6. withdrawable_funds(t, a) = w % Modulus
  BY DEF withdrawable_funds, U128, w, whole
<1> QED BY <1>2, <1>3, <1>4, <1>5, <1>6, ModulusAssumption DEF w, whole

\* The books still balance after a withdrawal, which pays exactly the whole
\* tokens that the account had earned and not been paid.
LEMMA WithdrawAccounted ==
  ASSUME NEW t \in TokenState, NEW o \in Accounts, NEW held \in Nat,
         Accounted(t), Funded(t, held), WithdrawOK(t, o, held)
  PROVE  LET u == withdraw_funds(t, o)
         IN  /\ Accounted(u) /\ Funded(u, held - withdrawable_funds(t, o))
             /\ \A a \in Accounts : Points(u, a) = Points(t, a)
             /\ u.withdrawn_funds
                  = [t.withdrawn_funds EXCEPT ![o] = Points(t, o) \div PointsScale]
             /\ u.balances = t.balances /\ u.points_leftover = t.points_leftover
             /\ u.distributed_total = t.distributed_total
<1> DEFINE u == withdraw_funds(t, o)
           w == withdrawable_funds(t, o)
           whole == Points(t, o) \div PointsScale
<1>1. /\ w \in Nat /\ whole \in Nat /\ t.withdrawn_funds[o] \in Nat
      /\ t.withdrawn_funds[o] + w = whole
  BY WithdrawableExact
<1> HIDE DEF whole, w
<1>2. /\ u.withdrawn_funds = [t.withdrawn_funds EXCEPT ![o] = whole]
      /\ u.withdrawable_total = t.withdrawable_total - w
      /\ u.distributed_total = t.distributed_total
      /\ u.points_leftover = t.points_leftover
      /\ u.balances = t.balances /\ u.points_per_token = t.points_per_token
      /\ u.points_correction = t.points_correction
  BY <1>1 DEF withdraw_funds, TokenState, w
<1> HIDE DEF u
<1>3. \A a \in Accounts : Points(u, a) = Points(t, a)
  BY <1>2 DEF Points
<1>4. Earned(u) = Earned(t)
  BY <1>3 DEF Earned
<1>5. /\ t.withdrawable_total \in Nat /\ t.distributed_total \in Nat
      /\ t.withdrawn_funds \in [Accounts -> Int]
  BY ModulusAssumption DEF TokenState
<1>6. SumFunction(u.withdrawn_funds) = SumFunction(t.withdrawn_funds) + w
  <2>1. SumFunction(u.withdrawn_funds)
          = SumFunction(t.withdrawn_funds) - t.withdrawn_funds[o] + whole
    <3>1. whole \in Int /\ IsFiniteSet(Accounts)  BY <1>1, TokenAssumption
    <3> QED BY <1>2, <1>5, <3>1, SumExcept
  <2>2. SumFunction(t.withdrawn_funds) \in Int
    BY <1>5, SumInt, TokenAssumption
  <2> QED BY <1>1, <2>1, <2>2
<1>7. u.withdrawable_total + SumFunction(u.withdrawn_funds) = u.distributed_total
  <2>1. SumFunction(t.withdrawn_funds) \in Int
    BY <1>5, SumInt, TokenAssumption
  <2> QED BY <1>1, <1>2, <1>5, <1>6, <2>1 DEF Accounted
<1>8. \A a \in Accounts : u.withdrawn_funds[a] <= Points(u, a) \div PointsScale
  <2> SUFFICES ASSUME NEW a \in Accounts
               PROVE  u.withdrawn_funds[a] <= Points(t, a) \div PointsScale
    BY <1>3
  <2>1. CASE a = o
    BY <2>1, <1>1, <1>2, <1>5 DEF whole
  <2>2. CASE a # o
    BY <2>2, <1>2, <1>5 DEF Accounted
  <2> QED BY <2>1, <2>2
<1>9. Accounted(u)
  BY <1>2, <1>4, <1>7, <1>8 DEF Accounted
<1>10. Funded(u, held - w)
  BY <1>1, <1>2, <1>5 DEF Funded
<1> QED BY <1>2, <1>3, <1>9, <1>10 DEF u, w, whole

-----------------------------------------------------------------------------
(***************************************************************************)
(* The inductive invariant of the rewards.  PointsConserved alone is not   *)
(* inductive: that a share does not wrap follows from the capacity, that a *)
(* withdrawal does not from what was paid before, and both need the types  *)
(* and the sum of the balances.                                            *)
(***************************************************************************)
RewardInv == Inv /\ Accounted(token) /\ Funded(token, bank_balance)

\* The books of a new token balance.
LEMMA RewardInit == Init => RewardInv
<1> SUFFICES ASSUME Init PROVE RewardInv  OBVIOUS
<1>1. Inv  BY InvInit
<1>2. token = EmptyToken /\ bank_balance = 0  BY DEF Init
<1>3. \A a \in Accounts : Points(token, a) = 0
  <2>1. 0 * 0 + 0 = 0 /\ 0 \in 0 .. Modulus - 1  BY ModulusAssumption
  <2>2. 0 % Modulus = 0  BY <2>1, ModSmall, ModulusAssumption
  <2> QED BY <1>2, <2>1, <2>2 DEF EmptyToken, Points, U128
<1>4. Earned(token) = [a \in Accounts |-> 0]
  BY <1>3 DEF Earned
<1>5. token.withdrawn_funds = [a \in Accounts |-> 0]
  BY <1>2 DEF EmptyToken
<1>6. /\ token.points_leftover = 0 /\ token.distributed_total = 0
      /\ token.withdrawable_total = 0
  BY <1>2 DEF EmptyToken
<1>7. SumFunction([a \in Accounts |-> 0]) = 0
  BY SumConstZero, TokenAssumption
<1>8. 0 \div PointsScale = 0 /\ 0 * PointsScale = 0
  BY TokenAssumption
<1>9. Accounted(token)
  BY <1>3, <1>4, <1>5, <1>6, <1>7, <1>8 DEF Accounted
<1>10. Funded(token, bank_balance)
  BY <1>2, <1>6, CapacityAssumption DEF Funded
<1> QED BY <1>1, <1>9, <1>10 DEF RewardInv

\* What each step of the contract does to the rewards: a distribution, a
\* withdrawal, more rewards to distribute, or nothing.
LEMMA RewardSteps ==
  ASSUME RewardInv, [Next]_vars
  PROVE  \/ /\ SameRewards(token, token')
            /\ bank_balance' = bank_balance
         \/ /\ DistributeOK(token, bank_balance)
            /\ token' = distribute(token, bank_balance)
            /\ bank_balance' = bank_balance
         \/ \E o \in Accounts : WithdrawFunds(o)
         \/ \E amount \in Amounts : ReceiveFunds(amount)
<1>a. Amounts \subseteq Nat /\ token \in TokenState
  BY InputAssumption, ModulusAssumption DEF RewardInv, Inv, TypeOK
<1> DEFINE Same == SameRewards(token, token') /\ bank_balance' = bank_balance
<1>1. ASSUME NEW s \in Accounts, NEW r \in Accounts, NEW amount \in Amounts,
             NEW limit \in Amounts, Transfer(s, r, amount, limit) \/ Send(s, r, amount, limit)
      PROVE  Same
  BY <1>1, <1>a, TransferRewards DEF Transfer, Send
<1>2. ASSUME NEW c \in Accounts, NEW s \in Accounts, NEW amount \in Nat,
             NEW r \in Accounts, TransferFrom(c, s, r, amount)
      PROVE  Same
  BY <1>2, <1>a, TransferRewards DEF TransferFrom
<1>3. ASSUME NEW c \in Accounts, NEW s \in Accounts, NEW amount \in Amounts,
             NEW r \in Accounts, TransferBaseFrom(c, s, r, amount)
      PROVE  Same
  BY <1>2, <1>3, FromBaseNat DEF TransferBaseFrom
<1>4. ASSUME NEW c \in Accounts, NEW o \in Accounts, NEW amount \in Nat,
             Mint(c, o, amount)
      PROVE  Same
  BY <1>4, <1>a, MintRewards DEF Mint
<1>5. ASSUME NEW c \in Accounts, NEW o \in Accounts, NEW amount \in Amounts,
             MintBase(c, o, amount)
      PROVE  Same
  BY <1>4, <1>5, FromBaseNat DEF MintBase
<1>6. ASSUME NEW c \in Accounts, NEW o \in Accounts, NEW amount \in Nat,
             BurnFrom(c, o, amount)
      PROVE  Same
  BY <1>6, <1>a, BurnRewards DEF BurnFrom
<1>7. ASSUME NEW c \in Accounts, NEW o \in Accounts, NEW amount \in Amounts,
             BurnBaseFrom(c, o, amount)
      PROVE  Same
  BY <1>6, <1>7, FromBaseNat DEF BurnBaseFrom
<1>8. ASSUME NEW c \in Accounts, NEW ratio \in Ratios, Rebase(c, ratio)
      PROVE  Same
  BY <1>8, <1>a, RebaseRewards DEF Rebase
<1>9. CASE UNCHANGED vars
  BY <1>9 DEF vars, SameRewards
<1> QED BY <1>1, <1>2, <1>3, <1>4, <1>5, <1>6, <1>7, <1>8, <1>9, <1>a
        DEF Next, HolderNext, ControllerNext, RebaseNext, Distribute

\* Every message preserves the invariant of the rewards.
LEMMA RewardStep == RewardInv /\ [Next]_vars => RewardInv'
<1> SUFFICES ASSUME RewardInv, [Next]_vars PROVE RewardInv'  OBVIOUS
<1>1. Inv /\ Inv'  BY InvStep DEF RewardInv
<1>2. /\ token \in TokenState /\ bank_balance \in Nat /\ Backed(token)
      /\ Accounted(token) /\ Funded(token, bank_balance)
  BY DEF RewardInv, Inv, TypeOK, SupplyIsSum, Backed
<1>3. CASE SameRewards(token, token') /\ bank_balance' = bank_balance
  BY <1>1, <1>2, <1>3, SameRewardsAccounted DEF RewardInv
<1>4. CASE /\ DistributeOK(token, bank_balance)
           /\ token' = distribute(token, bank_balance)
           /\ bank_balance' = bank_balance
  BY <1>1, <1>2, <1>4, DistributeAccounted DEF RewardInv
<1>5. ASSUME NEW o \in Accounts, WithdrawFunds(o) PROVE RewardInv'
  BY <1>1, <1>2, <1>5, WithdrawAccounted DEF RewardInv, WithdrawFunds
<1>6. ASSUME NEW amount \in Amounts, ReceiveFunds(amount) PROVE RewardInv'
  <2>1. amount \in Nat  BY InputAssumption, ModulusAssumption
  <2>2. token.withdrawable_total \in Nat /\ token.distributed_total \in Nat
    BY <1>2, AccountedTypes
  <2>3. Funded(token, bank_balance + amount)
    BY <1>2, <1>6, <2>1, <2>2, CapacityAssumption DEF ReceiveFunds, Funded
  <2> QED BY <1>1, <1>2, <1>6, <2>3 DEF ReceiveFunds, RewardInv
<1> QED BY <1>3, <1>4, <1>5, <1>6, RewardSteps

\* The books balance in every reachable state.
THEOREM RewardInvHolds == Spec => []RewardInv
<1>1. Init => RewardInv  BY RewardInit
<1>2. RewardInv /\ [Next]_vars => RewardInv'  BY RewardStep
<1> QED BY <1>1, <1>2, PTL DEF Spec

\* No point of a distribution is lost or created by the transfers, mints, burns
\* and withdrawals around it, although points and corrections wrap.
THEOREM PointsAreConserved == Spec => []PointsConserved
<1>1. RewardInv => PointsConserved
  BY DEF RewardInv, Accounted, Earned, PointsConserved
<1> QED BY <1>1, RewardInvHolds, PTL

\* No account is ever paid more than its points are worth.
THEOREM NobodyIsOverpaid == Spec => []NeverOverpaid
<1>1. RewardInv => NeverOverpaid
  BY DEF RewardInv, Accounted, NeverOverpaid
<1> QED BY <1>1, RewardInvHolds, PTL

\* The whole tokens that the points of all accounts are worth are within what
\* was distributed.
LEMMA WholeWithinDistributed ==
  ASSUME NEW t \in TokenState, Accounted(t)
  PROVE  SumFunction([a \in Accounts |-> withdrawable_funds(t, a)]) <= t.withdrawable_total
<1> DEFINE f == [a \in Accounts |-> withdrawable_funds(t, a)]
           d == [a \in Accounts |-> Points(t, a) \div PointsScale]
           paid == t.withdrawn_funds
           owed == Earned(t)
<1>1. /\ f \in [Accounts -> Int] /\ d \in [Accounts -> Int]
      /\ paid \in [Accounts -> Int]
      /\ \A a \in Accounts : d[a] = f[a] + paid[a]
  <2>1. \A a \in Accounts :
          /\ withdrawable_funds(t, a) = (Points(t, a) \div PointsScale) - paid[a]
          /\ withdrawable_funds(t, a) \in Nat
          /\ Points(t, a) \div PointsScale \in Nat
          /\ paid[a] \in Nat
    BY WithdrawableExact
  <2>2. paid \in [Accounts -> Int]
    BY ModulusAssumption DEF TokenState
  <2> QED BY <2>1, <2>2
<1>2. owed \in [Accounts -> Int] /\ \A a \in Accounts : PointsScale * d[a] <= owed[a]
  <2>1. owed \in [Accounts -> Int]
    BY AccountedTypes
  <2>2. ASSUME NEW a \in Accounts PROVE PointsScale * d[a] <= owed[a]
    <3> DEFINE x == Points(t, a)
    <3>1. x \in Nat  BY PointsType, ModulusAssumption
    <3>2. d[a] = x \div PointsScale /\ owed[a] = x  BY DEF Earned
    <3> HIDE DEF x, d, owed
    <3>3. PointsScale \in Nat \ {0}
      BY TokenAssumption
    <3>4. /\ x = PointsScale * (x \div PointsScale) + (x % PointsScale)
          /\ x % PointsScale \in 0 .. PointsScale - 1
          /\ x \div PointsScale \in Int
      <4> DEFINE p == PointsScale
      <4> HIDE DEF p
      <4>1. p \in Nat \ {0}  BY <3>3 DEF p
      <4>2. x = p * (x \div p) + (x % p) /\ x % p \in 0 .. p - 1 /\ x \div p \in Int
        BY <3>1, <4>1, DivMod
      <4> QED BY <4>2 DEF p
    <3> DEFINE q == x \div PointsScale
               r == x % PointsScale
    <3> HIDE DEF q, r
    <3>5. x = PointsScale * q + r /\ r \in Nat /\ q \in Int
      BY <3>3, <3>4 DEF q, r
    <3>6. PointsScale * q \in Int  BY <3>3, <3>5
    <3>7. PointsScale * q <= x
      BY <3>1, <3>5, <3>6
    <3> QED BY <3>2, <3>7 DEF q
  <2> QED BY <2>1, <2>2
<1> HIDE DEF f, d, owed
<1>a. IsFiniteSet(Accounts) /\ PointsScale \in Nat \ {0}
  BY TokenAssumption
<1>3. SumFunction(d) = SumFunction(f) + SumFunction(paid)
  BY <1>1, <1>a, SumPlus
<1>4. PointsScale * SumFunction(d) <= SumFunction(owed)
  BY <1>1, <1>2, <1>a, SumScaledWithin
<1>5. SumFunction(d) \in Int /\ SumFunction(f) \in Int /\ SumFunction(paid) \in Int
  BY <1>1, <1>a, SumInt
<1>6. /\ SumFunction(owed) \in Nat /\ t.points_leftover \in Nat
      /\ t.distributed_total \in Nat /\ t.withdrawable_total \in Nat
  BY AccountedTypes DEF owed
<1>7. /\ SumFunction(owed) + t.points_leftover = t.distributed_total * PointsScale
      /\ t.withdrawable_total + SumFunction(paid) = t.distributed_total
  BY DEF Accounted, owed
<1>8. SumFunction(d) <= t.distributed_total
  <2> DEFINE s == SumFunction(d)
             n == t.distributed_total
  <2>1. PointsScale * s <= n * PointsScale /\ s \in Int /\ n \in Nat
    BY <1>4, <1>5, <1>6, <1>7, <1>a
  <2> HIDE DEF s, n
  <2> QED BY <2>1, <1>a DEF s, n
<1> HIDE DEF paid
<1>9. SumFunction(f) <= t.withdrawable_total
  BY <1>3, <1>5, <1>6, <1>7, <1>8
<1> QED BY <1>9 DEF f

\* The contract can pay every holder at once.
THEOREM RewardsAreSolvent == Spec => []RewardsSolvent
<1>1. RewardInv => RewardsSolvent
  BY WholeWithinDistributed DEF RewardInv, Inv, TypeOK, Funded, RewardsSolvent
<1> QED BY <1>1, RewardInvHolds, PTL

-----------------------------------------------------------------------------
(***************************************************************************)
(* Rewards stay with the account that earned them.                         *)
(***************************************************************************)
\* A distribution lowers what no account may withdraw.
LEMMA DistributeRaises ==
  ASSUME NEW t \in TokenState, NEW held \in Nat, Accounted(t), Funded(t, held),
         Backed(t), DistributeOK(t, held), Undistributed(t, held) # 0, NEW a \in Accounts
  PROVE  /\ withdrawable_funds(distribute(t, held), a) >= withdrawable_funds(t, a)
         /\ distribute(t, held).distributed_total > t.distributed_total
<1> DEFINE u == distribute(t, held)
           x == Points(t, a)
           y == Points(u, a)
<1>1. u \in TokenState /\ Accounted(u)
  BY DistributeType, DistributeAccounted
<1>2. /\ u.withdrawn_funds = t.withdrawn_funds
      /\ u.distributed_total > t.distributed_total
      /\ \E more \in Nat : y = x + more
  <2>1. t.distributed_total \in Nat  BY AccountedTypes
  <2> QED BY <2>1, DistributeShares
<1> HIDE DEF u
<1>3. x \in Nat /\ y \in Nat
  BY <1>1, PointsType, ModulusAssumption
<1>4. x <= y
  BY <1>2, <1>3
<1> HIDE DEF x, y
<1>5. /\ x \div PointsScale <= y \div PointsScale
      /\ x \div PointsScale \in Nat /\ y \div PointsScale \in Nat
  BY <1>3, <1>4, DivMonotone, DivType, TokenAssumption
<1>6. /\ withdrawable_funds(u, a) = (y \div PointsScale) - t.withdrawn_funds[a]
      /\ withdrawable_funds(t, a) = (x \div PointsScale) - t.withdrawn_funds[a]
      /\ t.withdrawn_funds[a] \in Nat
  BY <1>1, <1>2, WithdrawableExact DEF x, y
<1> QED BY <1>2, <1>5, <1>6 DEF u

\* In each step what an account may withdraw stays, is raised by a distribution,
\* or is all paid to it.
LEMMA EarnerStep ==
  ASSUME RewardInv, [Next]_vars, NEW a \in Accounts
  PROVE  \/ withdrawable_funds(token', a) = withdrawable_funds(token, a)
         \/ /\ withdrawable_funds(token', a) > withdrawable_funds(token, a)
            /\ token'.distributed_total > token.distributed_total
         \/ /\ withdrawable_funds(token', a) = 0
            /\ bank_balance' = bank_balance - withdrawable_funds(token, a)
            /\ \A b \in Accounts \ {a} :
                  token'.withdrawn_funds[b] = token.withdrawn_funds[b]
<1>1. /\ token \in TokenState /\ bank_balance \in Nat /\ Backed(token)
      /\ Accounted(token) /\ Funded(token, bank_balance)
  BY DEF RewardInv, Inv, TypeOK, SupplyIsSum, Backed
<1>2. token' \in TokenState /\ Accounted(token')
  BY RewardStep DEF RewardInv, Inv, TypeOK
<1>3. /\ withdrawable_funds(token, a) \in Nat /\ withdrawable_funds(token', a) \in Nat
      /\ withdrawable_funds(token', a)
           = (Points(token', a) \div PointsScale) - token'.withdrawn_funds[a]
  BY <1>1, <1>2, WithdrawableExact
<1>4. CASE SameRewards(token, token')
  BY <1>4 DEF SameRewards, withdrawable_funds
<1>5. CASE DistributeOK(token, bank_balance) /\ token' = distribute(token, bank_balance)
  <2>1. CASE Undistributed(token, bank_balance) = 0
    BY <1>5, <2>1 DEF distribute
  <2>2. CASE Undistributed(token, bank_balance) # 0
    <3>1. /\ withdrawable_funds(token', a) >= withdrawable_funds(token, a)
          /\ token'.distributed_total > token.distributed_total
      BY <1>1, <1>5, <2>2, DistributeRaises
    <3> QED BY <1>3, <3>1
  <2> QED BY <2>1, <2>2
<1>6. ASSUME NEW o \in Accounts, WithdrawFunds(o)
      PROVE  \/ withdrawable_funds(token', a) = withdrawable_funds(token, a)
             \/ /\ withdrawable_funds(token', a) = 0
                /\ bank_balance' = bank_balance - withdrawable_funds(token, a)
                /\ \A b \in Accounts \ {a} :
                      token'.withdrawn_funds[b] = token.withdrawn_funds[b]
  <2>1. /\ Points(token', a) = Points(token, a)
        /\ token'.withdrawn_funds
             = [token.withdrawn_funds EXCEPT ![o] = Points(token, o) \div PointsScale]
        /\ bank_balance' = bank_balance - withdrawable_funds(token, o)
    BY <1>1, <1>6, WithdrawAccounted DEF WithdrawFunds
  <2>2. token.withdrawn_funds \in [Accounts -> Nat]
    BY <1>1, ModulusAssumption DEF TokenState
  <2>3. CASE a = o
    <3>1. token'.withdrawn_funds[a] = Points(token', a) \div PointsScale
      BY <2>1, <2>2, <2>3
    <3>2. \A b \in Accounts \ {a} : token'.withdrawn_funds[b] = token.withdrawn_funds[b]
      BY <2>1, <2>2, <2>3
    <3>3. token'.withdrawn_funds[a] \in Nat
      BY <1>2, ModulusAssumption DEF TokenState
    <3>4. withdrawable_funds(token', a) = 0
      BY <1>3, <3>1, <3>3
    <3> QED BY <2>1, <2>3, <3>2, <3>4
  <2>4. CASE a # o
    <3>1. token'.withdrawn_funds[a] = token.withdrawn_funds[a]
      BY <2>1, <2>2, <2>4
    <3> QED BY <2>1, <3>1 DEF withdrawable_funds
  <2> QED BY <2>3, <2>4
<1>7. ASSUME NEW amount \in Amounts, ReceiveFunds(amount)
      PROVE  withdrawable_funds(token', a) = withdrawable_funds(token, a)
  BY <1>7 DEF ReceiveFunds
<1> QED BY <1>4, <1>5, <1>6, <1>7, RewardSteps

\* No transfer, mint or burn moves a reward from one account to another.
THEOREM RewardsStay == Spec => RewardsStayWithEarner
<1> DEFINE Stays ==
      \A a \in Accounts :
          \/ withdrawable_funds(token', a) = withdrawable_funds(token, a)
          \/ /\ withdrawable_funds(token', a) > withdrawable_funds(token, a)
             /\ token'.distributed_total > token.distributed_total
          \/ /\ withdrawable_funds(token', a) = 0
             /\ bank_balance' = bank_balance - withdrawable_funds(token, a)
             /\ \A b \in Accounts \ {a} :
                   token'.withdrawn_funds[b] = token.withdrawn_funds[b]
<1>1. RewardInv /\ [Next]_vars => Stays
  BY EarnerStep
<1>2. RewardsStayWithEarner <=> [][Stays]_vars
  BY DEF RewardsStayWithEarner
<1> HIDE DEF Stays
<1> QED BY <1>1, <1>2, RewardInvHolds, PTL DEF Spec

-----------------------------------------------------------------------------
(***************************************************************************)
(* The refinement of EagerRewards: each step of the contract is a change   *)
(* of balances, a distribution, a withdrawal or nothing to those who only  *)
(* see what everybody holds, is owed and was paid.                         *)
(***************************************************************************)
\* A new token is an initial state of the abstract specification.
LEMMA EagerInit == Init => Eager!Init
<1> SUFFICES ASSUME Init PROVE Eager!Init  OBVIOUS
<1>1. token = EmptyToken  BY DEF Init
<1>2. \A a \in Accounts : Points(token, a) = 0
  <2>1. 0 * 0 + 0 = 0 /\ 0 \in 0 .. Modulus - 1  BY ModulusAssumption
  <2>2. 0 % Modulus = 0  BY <2>1, ModSmall, ModulusAssumption
  <2> QED BY <1>1, <2>1, <2>2 DEF EmptyToken, Points, U128
<1> QED BY <1>1, <1>2 DEF EmptyToken, Eager!Init, Eager!Zero

\* Every step of the contract is a step of the abstract specification.
LEMMA EagerStep == RewardInv /\ [Next]_vars => [Eager!Next]_(Eager!vars)
<1> SUFFICES ASSUME RewardInv, [Next]_vars PROVE [Eager!Next]_(Eager!vars)  OBVIOUS
<1>1. /\ token \in TokenState /\ bank_balance \in Nat /\ Backed(token)
      /\ Accounted(token) /\ Funded(token, bank_balance)
  BY DEF RewardInv, Inv, TypeOK, SupplyIsSum, Backed
<1>2. token' \in TokenState
  BY RewardStep DEF RewardInv, Inv, TypeOK
<1>3. CASE SameRewards(token, token')
  <2>1. token'.balances \in [Accounts -> Nat]
    BY <1>2, ModulusAssumption DEF TokenState
  <2>2. [a \in Accounts |-> Points(token', a)] = [a \in Accounts |-> Points(token, a)]
    BY <1>3 DEF SameRewards
  <2> QED BY <1>3, <2>1, <2>2 DEF SameRewards, Eager!Next, Eager!ChangeBalances, Eager!vars
<1>4. CASE DistributeOK(token, bank_balance) /\ token' = distribute(token, bank_balance)
  <2>1. CASE Undistributed(token, bank_balance) = 0
    BY <1>4, <2>1 DEF distribute, Eager!vars
  <2>2. CASE Undistributed(token, bank_balance) # 0
    <3> DEFINE funds == bank_balance - token.withdrawable_total
               points == funds * PointsScale + token.points_leftover
               share == points \div token.total_supply
    <3>1. /\ funds \in Nat \ {0}
          /\ token.total_supply \in Nat \ {0}
          /\ token'.balances = token.balances
          /\ token'.withdrawn_funds = token.withdrawn_funds
          /\ token'.points_leftover = points % token.total_supply
          /\ token'.distributed_total = token.distributed_total + funds
      BY <1>1, <1>4, <2>2, DistributeShares
    <3>2. \A a \in Accounts : Points(token', a) = Points(token, a) + share * token.balances[a]
      BY <1>1, <1>4, <2>2, DistributeShares
    <3>3. token.distributed_total \in Nat
      BY <1>1, AccountedTypes
    <3>4. token'.distributed_total - token.distributed_total = funds
      BY <3>1, <3>3
    <3>5. Eager!Supply = token.total_supply
      <4>1. Eager!Supply = SumFunction(token.balances)
        BY DEF Eager!Supply, Eager!SumFunction, SumFunction,
               Eager!SumFunctionOnSet, SumFunctionOnSet,
               Eager!FoldFunctionOnSet, FoldFunctionOnSet,
               Eager!MapThenFoldSet, MapThenFoldSet
      <4> QED BY <1>1, <4>1 DEF Backed
    <3> HIDE DEF funds
    <3>6. Eager!Distribute
      BY <3>1, <3>2, <3>3, <3>4, <3>5 DEF Eager!Distribute
    <3> QED BY <3>6 DEF Eager!Next
  <2> QED BY <2>1, <2>2
<1>5. ASSUME NEW o \in Accounts, WithdrawFunds(o) PROVE Eager!Withdraw(o)
  <2>1. /\ \A a \in Accounts : Points(token', a) = Points(token, a)
        /\ token'.withdrawn_funds
             = [token.withdrawn_funds EXCEPT ![o] = Points(token, o) \div PointsScale]
        /\ token'.balances = token.balances
        /\ token'.points_leftover = token.points_leftover
        /\ token'.distributed_total = token.distributed_total
    BY <1>1, <1>5, WithdrawAccounted DEF WithdrawFunds
  <2>2. [a \in Accounts |-> Points(token', a)] = [a \in Accounts |-> Points(token, a)]
    BY <2>1
  <2> QED BY <2>1, <2>2 DEF Eager!Withdraw
<1>6. ASSUME NEW amount \in Amounts, ReceiveFunds(amount) PROVE UNCHANGED Eager!vars
  BY <1>6 DEF ReceiveFunds, Eager!vars
<1> QED BY <1>3, <1>4, <1>5, <1>6, RewardSteps DEF Eager!Next

\* The lazy bookkeeping by points per token implements the eager distribution.
THEOREM RefinesEagerRewards == Spec => EagerSpec
<1>1. Init => Eager!Init  BY EagerInit
<1>2. RewardInv /\ [Next]_vars => [Eager!Next]_(Eager!vars)  BY EagerStep
<1> QED BY <1>1, <1>2, RewardInvHolds, PTL DEF Spec, EagerSpec, Eager!Spec
=============================================================================
