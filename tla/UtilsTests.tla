----------------------------- MODULE UtilsTests -----------------------------
(***************************************************************************)
(* The unit tests of packages/utils whose functions the models contain:    *)
(* interest curves, sums of credit lines and prices.  They have no world   *)
(* beside the values that they compare.                                    *)
(***************************************************************************)
EXTENDS AgencyHandlers, Scripts

Unit(statements) == Script([suite |-> "utils"], statements)

UtilsQuery(msg) ==
    CASE msg[1] = "rate" -> calculate_interest_rate(msg[2], msg[3])
      [] msg[1] = "valid" -> Valid(msg[2])
      [] msg[1] = "sum" -> FoldLeft(Plus, zero, msg[2])
      [] msg[1] = "times_price_rate" -> MulInt(msg[2], msg[3])

\* calculate_interest_rate at a utilisation, both in percent.
RateIs(rates, used, rate) ==
    Is(<<"rate", rates, Percent(used)>>, Percent(rate))

linear_interest_rate ==
    LET interest_rate == Linear(Percent(10), Percent(90))
    IN  Unit(<<RateIs(interest_rate, 0, 10), RateIs(interest_rate, 10, 19),
               RateIs(interest_rate, 100, 100)>>)

\* The curve of the tests with its breakpoint at a utilisation, in percent.
Broken(optimal_utilisation) ==
    PiecewiseLinear(Percent(10), Percent(10), Percent(100), Percent(optimal_utilisation))

piecewise_linear_interest_rate ==
    Unit(<<RateIs(Broken(50), 0, 10), RateIs(Broken(50), 10, 12),
           RateIs(Broken(50), 40, 18), RateIs(Broken(50), 50, 20),
           RateIs(Broken(50), 60, 40), RateIs(Broken(50), 90, 100),
           RateIs(Broken(50), 100, 120)>>)

zero_optimal_utilisation == Unit(<<Is(<<"valid", Broken(0)>>, FALSE)>>)

optimal_utilisation_too_big ==
    Unit(<<Is(<<"valid", Broken(100)>>, FALSE), Is(<<"valid", Broken(444)>>, FALSE)>>)

\* CreditLineValues of the tests.
Values(collateral, line, limit, debt) ==
    [collateral |-> collateral, credit_line |-> line, borrow_limit |-> limit,
     debt |-> debt]

sum_credit_line_response ==
    Unit(<<Is(<<"sum", <<Values(500, 300, 300, 200), Values(1800, 200, 200, 50), zero>>>>,
              Values(2300, 500, 500, 250))>>)

price_rate_correct_denom ==
    Unit(<<Is(<<"times_price_rate", 100, Percent(110)>>, 110)>>)

UtilsScripts ==
    <<linear_interest_rate, piecewise_linear_interest_rate, zero_optimal_utilisation,
      optimal_utilisation_too_big, sum_credit_line_response, price_rate_correct_denom>>
=============================================================================
