--------------------------- MODULE MCLiveTrading ---------------------------
(***************************************************************************)
(* LiveTrading for TLC: two names, two prices, and the accounts a run may  *)
(* find.  The runs bound the scans and the dates.                          *)
(***************************************************************************)
EXTENDS LiveTrading

MCUniverse == <<"A", "B">>
MCOne == <<"A">>

Quote(p, t) == [price |-> p, target |-> t]

\* A flat price for a name that is wanted.
MCSteady == {[s \in Symbols |-> Quote(10, 1)]}

\* A may sit at its price or at its stop, be wanted or not; B is quoted steadily
\* or not at all.
MCQuotes ==
  {[s \in {"A"} |-> a] : a \in {Quote(10, 1), Quote(8, 1)}} \cup
  {[s \in Symbols |-> IF s = "A" THEN a ELSE Quote(10, 1)] :
     a \in {Quote(10, 0), Quote(8, 1)}}

Held(n) == [shares |-> n, avg_price |-> 10]

\* All in cash; some of it in A.
MCFlat == [cash |-> 40, positions |-> NoPositions]
MCHolding ==
  [cash |-> 30, positions |-> [s \in Symbols |-> IF s = "A" THEN Held(1) ELSE NoPosition]]

=============================================================================
