------------------------------ MODULE Portfolio ------------------------------
(***************************************************************************)
(* Weights for the selected names, and the schedule of rebalances the bar  *)
(* loop consumes.  A weight is in units of 1 / Unit of equity.             *)
(***************************************************************************)
EXTENDS Selection

CONSTANTS
  Unit,                 \* a weight of 1.0
  Gross, MaxWeight,     \* gross, max_weight
  Every, Lookback,      \* periodic_schedule's, in trading days
  Symbols,              \* the candidates
  RawWeights(_)         \* the configured allocator's, of the chosen rows

ASSUME PortfolioAssumption ==
  /\ {Unit, Every} \subseteq Nat \ {0}
  /\ {Gross, MaxWeight, Lookback} \subseteq Nat

\* Mutant of Normalise: the cap comes before the scaling.
NormaliseCapFirst(raw) ==
  LET positive == {s \in DOMAIN raw : raw[s] > 0}
      capped == [s \in positive |-> Min({raw[s], MaxWeight})]
      total == MapThenSumSet(LAMBDA s : capped[s], positive)
  IN  [s \in positive |-> (capped[s] * Gross) \div total]

\* Scale what is positive to Gross, then cap each name; what the cap takes is not
\* given to others.
Normalise(raw) ==
  LET positive == {s \in DOMAIN raw : raw[s] > 0}
      total == MapThenSumSet(LAMBDA s : raw[s], positive)
  IN  [s \in positive |-> Min({(raw[s] * Gross) \div total, MaxWeight})]

(***************************************************************************)
(* The allocators' raw weights of the chosen rows.                         *)
(***************************************************************************)

Chosen(picks) == {row.symbol : row \in picks}
RowOf(picks, s) == CHOOSE row \in picks : row.symbol = s

EqualWeight(picks) == [s \in Chosen(picks) |-> 1]

\* 1 / volatility, in millionths; 0 is dropped.
InverseVol(picks) ==
  LET raw(vol) == IF vol > 0 THEN 1000000 \div vol ELSE 0
  IN  [s \in Chosen(picks) |-> raw(RowOf(picks, s).volatility)]

ScoreProportional(picks, c) == [s \in Chosen(picks) |-> RowOf(picks, s)[c]]

(***************************************************************************)
(* periodic_schedule                                                       *)
(***************************************************************************)

\* The dates any candidate has a bar on.
TradingDates(store) == UNION {DOMAIN store[s] : s \in Symbols}

\* calendar[lookback::every]
RebalanceDates(store) ==
  LET dates == TradingDates(store)
      index(d) == Cardinality({e \in dates : e < d})
  IN  {d \in dates : index(d) >= Lookback /\ (index(d) - Lookback) % Every = 0}

\* Selector.select as of a date: the sets of rows it may pick, one for each way of
\* breaking the ties.
PicksAsOf(store, asof) == TopSets(Survivors(BuildFeatures(store, Symbols, asof, Lookback)))

\* The budgets of a rebalance as of a date.
BudgetsAsOf(store, asof) == {Normalise(RawWeights(picks)) : picks \in PicksAsOf(store, asof)}

=============================================================================
