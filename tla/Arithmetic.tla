----------------------------- MODULE Arithmetic -----------------------------
(***************************************************************************)
(* The numbers of the contracts.  Amounts are 128-bit unsigned integers    *)
(* and rates are fixed-point decimals: a decimal is represented here, as   *)
(* in cosmwasm_std::Decimal, by its numerator over DecimalFractional.      *)
(*                                                                         *)
(* Operations on Uint128 and Decimal panic when their result does not fit  *)
(* and a panic reverts the transaction: a guard Fits(x) stands for that.   *)
(* Operations on the plain u128 and i128 wrap around, because the release  *)
(* profile of Cargo.toml leaves overflow checks off: U128(x) and I128(x)   *)
(* stand for those.                                                        *)
(***************************************************************************)
EXTENDS Integers

CONSTANTS DecimalFractional, \* 10^18 in the code
          Modulus            \* 2^128 in the code

ASSUME FractionAssumption == DecimalFractional \in Nat \ {0}
ASSUME ModulusAssumption == Modulus \in Nat \ {0} /\ Modulus % 2 = 0

One == DecimalFractional

Fits(x) == x \in 0 .. Modulus - 1

U128(x) == x % Modulus

I128(x) == ((x + Modulus \div 2) % Modulus) - Modulus \div 2

\* Decimal * Decimal, rounded down to the last digit.
MulDec(x, y) == (x * y) \div DecimalFractional

\* Decimal / Decimal.
DivDec(x, y) == (x * DecimalFractional) \div y

\* Uint128 * Decimal.
MulInt(amount, x) == (amount * x) \div DecimalFractional

\* An amount of tokens of a base amount, at the given multiplier.
base_to_token(amount, multiplier) == (amount * DecimalFractional) \div multiplier

\* The base amount that an amount of tokens stands for.
token_to_base(amount, multiplier) == MulInt(amount, multiplier)
=============================================================================
