------------------------------- MODULE Scripts -------------------------------
(***************************************************************************)
(* What the test suites of the repository have in common.  A test is a     *)
(* script: the world that its builder sets up and a sequence of            *)
(* statements.  A statement is a transaction, which the test expects to be *)
(* granted or refused, or a query with the answer that the test asserts.   *)
(***************************************************************************)
EXTENDS Arithmetic, SequencesExt

Script(world, statements) == [world |-> world, statements |-> statements]

\* unwrap_err: the transaction, or the query, fails.
Refused(statement) == [statement EXCEPT !.granted = FALSE]

\* assert_eq of what a query answers.
Is(query, answer) ==
    [op |-> "assert", query |-> query, answer |-> answer, margin |-> 0]

\* The same, up to `margin`: the decimals here have fewer digits.
About(query, answer, margin) == [Is(query, answer) EXCEPT !.margin = margin]

Percent(percentage) == (percentage * One) \div 100
=============================================================================
