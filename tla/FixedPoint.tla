------------------------------ MODULE FixedPoint ------------------------------
(***************************************************************************)
(* The arithmetic the modules share.  The code computes with floats; the   *)
(* model computes with integers on one grid.  Money and prices are         *)
(* integers (fen, say); a rate, weight or signal is an integer over Scale, *)
(* so that with Scale = 100 a weight of 20 is twenty percent.  Where the   *)
(* code would leave the grid, the model rounds back to it.                 *)
(***************************************************************************)
EXTENDS Integers

CONSTANT Scale      \* what a rate, weight or signal of 1.0 is written as

ASSUME ScaleAssumption == Scale \in Nat \ {0}

Lower(a, b) == IF a <= b THEN a ELSE b
Higher(a, b) == IF a <= b THEN b ELSE a

\* amount * rate, for a rate over Scale, rounded down.
Portion(amount, rate) == (amount * rate) \div Scale

\* Python's int(a / b) for b > 0: the quotient truncated towards zero.
Truncated(a, b) == IF a >= 0 THEN a \div b ELSE - ((- a) \div b)

\* Python's round(a / b) for b > 0: the nearest integer, ties to the even one.
Rounded(a, b) ==
  LET down == a \div b
      twice == 2 * (a % b)
  IN  IF twice < b \/ (twice = b /\ down % 2 = 0) THEN down ELSE down + 1

=============================================================================
