----------------------------- MODULE MCWyndLend -----------------------------
(***************************************************************************)
(* Small instances of WyndLend for TLC.                                    *)
(***************************************************************************)
EXTENDS WyndLend

CONSTANTS common, other  \* the two tokens

\* 10% a period at no utilisation and 30% at full utilisation.
Steep == Linear(100, 200)

\* The pair that prices each of the tokens in the other.
OnePair == {<<common, other>>}

\* Users are interchangeable.
UserSymmetry == Permutations(Users)
=============================================================================
