----------------------------- MODULE MCResearch -----------------------------
(***************************************************************************)
(* Values for checking Research: an old name, one of unknown standing and  *)
(* a steady one; minutes on both sides of each boundary of the sessions.   *)
(***************************************************************************)
EXTENDS Research

MCSymbols == {"old", "unknown", "steady"}
MCFundamentals == [s \in {"old", "steady"} |-> [is_st |-> 0]]
MCKnownFundamentals == [s \in MCSymbols |-> [is_st |-> IF s = "unknown" THEN 1 ELSE 0]]

MCUnknown == [is_st |-> Null]

\* A stand-in for the standard deviation of returns, which needs two of them: the range.
MCVolatility(window) ==
  LET closes == {window[t].close : t \in DOMAIN window}
  IN  IF Cardinality(DOMAIN window) < 2 THEN Null ELSE Max(closes) - Min(closes) + 1

Quiet(price) == [open |-> price, high |-> price + 1, low |-> price - 1, close |-> price, volume |-> 2]
Wide == [open |-> 10, high |-> 14, low |-> 9, close |-> 13, volume |-> 3]

MCArrivals(i) ==
  IF i = "day"
  THEN     ({"old"} \X {DayMinutes * d : d \in 1 .. 4} \X {Quiet(10), Wide})
    \cup ({"old"} \X {DayMinutes * 5} \X {Quiet(10)})
    \cup ({"unknown"} \X {DayMinutes * d : d \in {2, 4}} \X {Quiet(10), Wide})
    \cup ({"steady"} \X {DayMinutes * d : d \in {1, 3}} \X {Quiet(10)})
  ELSE {"old"} \X ({DayMinutes - Shanghai + m : m \in {569, 570, 599, 600, 690, 780}}
                     \cup {2 * DayMinutes - Shanghai + 570}) \X {Quiet(10), Wide}

MCMask(row) ==
  Both(Both(InRange(row, "volatility", 1, 5), Either(AtLeast(row, "adv", 20), AtMost(row, "bars", 1))),
       Negated(Flag(row, "is_st", 1)))
MCScore(F, row) ==
  Plus(Rank(F, row, "momentum", FALSE),
       Plus(Weighted(Rank(F, row, "volatility", TRUE), 2), Raw(row, "price", TRUE)))
MCRawWeights(picks) == InverseVol(picks)

=============================================================================
