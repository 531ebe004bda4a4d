---------------------------- MODULE MCLiveBridge ----------------------------
(***************************************************************************)
(* Values for checking LiveBridge: a run of the event-driven engine that   *)
(* buys, holds two names, sells out and draws down, the same with times    *)
(* all of one kind, one that never trades, and one of the vectorized engine.*)
(***************************************************************************)
EXTENDS LiveBridge

Row(ts, equity) == [ts |-> ts, equity |-> equity]
Bar(ts, symbol) == [ts |-> ts, symbol |-> symbol]
Position(ts, symbol, value) == [ts |-> ts, symbol |-> symbol, market_value |-> value]
Fill(ts, symbol, side) == [ts |-> ts, symbol |-> symbol, side |-> side, shares |-> 1]

Traded ==
  [rows      |-> <<Row(1, 100), Row(2, 110), Row(3, 90)>>,
   bars      |-> <<Bar(1, "AAA"), Bar(2, "AAA"), Bar(1, "BBB"), Bar(3, "BBB")>>,
   positions |-> <<Position(1, "AAA", 40), Position(2, "AAA", 50), Position(2, "BBB", 30)>>,
   fills     |-> <<Fill(1, "AAA", "buy"), Fill(2, "BBB", "buy"), Fill(NoTime, "AAA", "sell"),
                   Fill(3, "BBB", "sell")>>,
   alike     |-> FALSE,
   has_cash  |-> TRUE]

Zoned == [Traded EXCEPT !.alike = TRUE]
Idle == [Traded EXCEPT !.positions = <<>>, !.fills = <<>>]
Vectorized == [Idle EXCEPT !.alike = TRUE, !.bars = <<>>, !.has_cash = FALSE]

MCResults == {Traded, Zoned, Idle, Vectorized}
MCViewers == {"panel"}

=============================================================================
