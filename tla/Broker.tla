------------------------------- MODULE Broker --------------------------------
(***************************************************************************)
(* The vocabulary every broker shares: orders, fills, positions and the    *)
(* account they make up.  Positions are total here: a symbol the code's    *)
(* dict has no entry for holds NoPosition.                                 *)
(***************************************************************************)
EXTENDS FixedPoint, Sequences, Summation

CONSTANTS
  Universe,     \* the symbols, in the order the loops visit them
  LotSize       \* shares in one board lot

Symbols == {Universe[i] : i \in 1 .. Len(Universe)}

ASSUME UniverseAssumption ==
  /\ Universe = [i \in 1 .. Len(Universe) |-> Universe[i]]
  /\ Len(Universe) \in Nat
  /\ \A i, j \in 1 .. Len(Universe) : Universe[i] = Universe[j] => i = j
ASSUME LotSizeAssumption == LotSize \in Nat \ {0}

\* n board lots, in shares, and n shares rounded down to whole lots.
LotsOf(n) == n * LotSize
RoundToLots(n) == LotsOf(n \div LotSize)

Side == {"buy", "sell"}
Timestamp == [date : Nat, bar : Nat]
Order == [symbol : Symbols, side : Side, shares : Int, price : Nat,
          participation : Nat]
Fill == [symbol : Symbols, side : Side, shares : Int, price : Nat,
         cost : Int, timestamp : Timestamp]
Position == [shares : Nat, avg_price : Nat]
NoPosition == [shares |-> 0, avg_price |-> 0]
Account == [cash : Int, positions : [Symbols -> Position]]

\* prices is a dict: a symbol it lacks is marked at its average entry price.
MarketValue(positions, prices) ==
  LET value(s) == positions[s].shares *
                    (IF s \in DOMAIN prices THEN prices[s] ELSE positions[s].avg_price)
  IN  Sum([i \in 1 .. Len(Universe) |-> value(Universe[i])], Len(Universe))

Equity(acct, prices) == acct.cash + MarketValue(acct.positions, prices)

=============================================================================
