---------------------------- MODULE InterestCurve ----------------------------
(***************************************************************************)
(* The yearly interest rate as a function of a market's utilisation        *)
(* (packages/utils/src/interest.rs), and its compounding over charging     *)
(* periods (compounded_interest_rate of the market's interest.rs).         *)
(***************************************************************************)
EXTENDS Arithmetic

CONSTANT SecondsInYear  \* SECONDS_IN_YEAR

Linear(base, slope) == [kind |-> "linear", base |-> base, slope |-> slope]

PiecewiseLinear(base, slope1, slope2, optimal) ==
    [kind |-> "piecewise", base |-> base, slope1 |-> slope1, slope2 |-> slope2,
     optimal_utilisation |-> optimal]

\* The parameters are unsigned decimals.
IsCurve(rates) ==
    \/ rates.kind = "linear" /\ {rates.base, rates.slope} \subseteq Nat
    \/ /\ rates.kind = "piecewise"
       /\ {rates.base, rates.slope1, rates.slope2, rates.optimal_utilisation}
            \subseteq Nat

\* A curve that validate accepts.
Valid(rates) ==
    rates.kind = "piecewise" => rates.optimal_utilisation \in 1 .. One - 1

Inv(x) == DivDec(One, x)

calculate_interest_rate(rates, utilisation) ==
    IF rates.kind = "linear"
    THEN rates.base + MulDec(rates.slope, utilisation)
    ELSE IF utilisation < rates.optimal_utilisation
         THEN rates.base
                + MulDec(rates.slope1,
                         MulDec(utilisation, Inv(rates.optimal_utilisation)))
         ELSE rates.base + rates.slope1
                + MulDec(rates.slope2,
                         MulDec(utilisation - rates.optimal_utilisation,
                                Inv(One - rates.optimal_utilisation)))

\* Decimal::checked_pow, by repeated squaring: x^n * y with a rounding after
\* every product, in the order in which the library multiplies.
Pow(base, exponent) ==
    LET p[n \in Nat] ==
          [x \in Nat |-> [y \in Nat |->
             IF n = 0 THEN One
             ELSE IF n = 1 THEN MulDec(x, y)
             ELSE IF n % 2 = 0 THEN p[n \div 2][MulDec(x, x)][y]
             ELSE p[(n - 1) \div 2][MulDec(x, x)][MulDec(x, y)]]]
    IN  p[exponent][base][One]

compounded_interest_rate(rate, charge_period, epochs_passed) ==
    Pow(One + (charge_period * rate) \div SecondsInYear, epochs_passed) - One
=============================================================================
