-------------------------- MODULE MCIsotonicMarket --------------------------
(***************************************************************************)
(* Small instances of IsotonicMarket for TLC.                              *)
(***************************************************************************)
EXTENDS IsotonicMarket, TLC

\* 10% a period at no utilisation and 30% at full utilisation.
Steep == Linear(100, 200)

\* 10%, then 20% at the breakpoint of 50%, and 50% at full utilisation.
Kinked == PiecewiseLinear(100, 100, 300, 500)

\* No interest.
Flat == Linear(0, 0)

\* Users are interchangeable.
UserSymmetry == Permutations(Users)

NoCap == {}
OneCurve == {Steep}
BothCurves == {Steep, Kinked}
KinkedOrFlat == {Kinked, Flat}
=============================================================================
