------------------------------ MODULE Summation ------------------------------
(***************************************************************************)
(* The sum a Python `sum(...)` over a dict's items computes, as a          *)
(* recursive function: the accumulator after the first i items.            *)
(***************************************************************************)
EXTENDS Integers

Sum(f, n) ==
  LET partial[i \in 0 .. n] == IF i = 0 THEN 0 ELSE partial[i - 1] + f[i]
  IN  partial[n]

=============================================================================
