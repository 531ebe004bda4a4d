------------------------------ MODULE Selection ------------------------------
(***************************************************************************)
(* From a store of daily bars to the chosen names: a feature cross-section,*)
(* filters over it, a blended score and the top N.  A missing number is    *)
(* Null and a comparison with it is "null", the third truth value of the   *)
(* masks.                                                                  *)
(***************************************************************************)
EXTENDS Bars, FiniteSets

CONSTANTS
  Volatility(_),        \* of the closes of a window of bars, or Null
  Fundamentals,         \* [symbol -> row of numbers] of the symbols it knows
  Unknown,              \* the row the left join gives the others: every column Null
  Mask(_),              \* the Selector's filters, ANDed, at a row
  Score(_, _),          \* its score, of a row of a frame
  TopN

ASSUME SelectorAssumption == TopN \in Nat

Null == -1000000        \* below every number a feature may be
Cent == 100             \* a ratio of 1.0

(***************************************************************************)
(* build_features                                                          *)
(***************************************************************************)

\* Mutant of KnownAt: the bar of the date itself is known too.
KnownAtClose(series, asof) == ReadBars(series, 0, asof + 1)

\* read_bars(end=asof): what a snapshot may use.
KnownAt(series, asof) == ReadBars(series, 0, asof)

\* tail(n)
Trailing(series, n) ==
  Restrict(series, {t \in DOMAIN series : Cardinality({u \in DOMAIN series : u > t}) < n})

\* No number comes of an empty window, as a lookback of 0 leaves it.
Number(window, n) == IF DOMAIN window = {} THEN Null ELSE n

Turnover(window) == MapThenSumSet(LAMBDA t : window[t].close * window[t].volume, DOMAIN window)

OhlcvFeatures(s, window) ==
  LET times == DOMAIN window
      first == window[Min(times)].close
      last == window[Max(times)].close
  IN  [symbol     |-> s,
       price      |-> Number(window, last),
       adv        |-> Number(window, Turnover(window) \div Cardinality(times)),
       volatility |-> Number(window, Volatility(window)),
       momentum   |-> Number(window, (last * Cent) \div first - Cent),
       bars       |-> Cardinality(times)]

\* The left join adds the fundamentals' columns.
Joined(row) ==
  LET other == IF row.symbol \in DOMAIN Fundamentals THEN Fundamentals[row.symbol] ELSE Unknown
  IN  [c \in DOMAIN row \cup DOMAIN other |-> IF c \in DOMAIN row THEN row[c] ELSE other[c]]

\* The windows of the symbols with a bar before the date.
Windows(store, symbols, asof, lookback) ==
  {[symbol |-> s, bars |-> Trailing(KnownAt(store[s], asof), lookback)] :
   s \in {s \in symbols : DOMAIN KnownAt(store[s], asof) # {}}}

\* The cross-section: one row per window.
BuildFeatures(store, symbols, asof, lookback) ==
  LET rows == {OhlcvFeatures(w.symbol, w.bars) : w \in Windows(store, symbols, asof, lookback)}
  IN  {Joined(row) : row \in rows}

(***************************************************************************)
(* Filters: what the mask is at a row.                                     *)
(***************************************************************************)

Truth(b) == IF b THEN "true" ELSE "false"
Compared(value, b) == IF value = Null THEN "null" ELSE Truth(b)

AtLeast(row, c, v) == Compared(row[c], row[c] >= v)
AtMost(row, c, v) == Compared(row[c], row[c] <= v)
Flag(row, c, equals) == Compared(row[c], row[c] = equals)

Both(l, r) ==
  IF "false" \in {l, r} THEN "false" ELSE IF "null" \in {l, r} THEN "null" ELSE "true"
Either(l, r) ==
  IF "true" \in {l, r} THEN "true" ELSE IF "null" \in {l, r} THEN "null" ELSE "false"
InRange(row, c, low, high) == Both(AtLeast(row, c, low), AtMost(row, c, high))

\* Mutant of Filled: an unknown passes.
FilledOpen(mask) == mask # "false"

\* fill_null(False)
Filled(mask) == mask = "true"

\* `~ mask.fill_null(False)` negates what was filled.
Negated(mask) == Truth(~ Filled(mask))

(***************************************************************************)
(* Scores of a row of a frame.                                             *)
(***************************************************************************)

\* The average rank of a column over the frame, in hundredths of the number of rows.
Rank(F, row, c, ascending) ==
  LET below == {r \in F : r[c] # Null /\ IF ascending THEN r[c] > row[c] ELSE r[c] < row[c]}
      same == {r \in F : r[c] = row[c]}
  IN  IF row[c] = Null THEN Null
      ELSE (Cent * (2 * Cardinality(below) + Cardinality(same) + 1)) \div (2 * Cardinality(F))

Raw(row, c, negate) == IF negate /\ row[c] # Null THEN - row[c] ELSE row[c]
Weighted(score, w) == IF score = Null THEN Null ELSE score * w
Plus(l, r) == IF Null \in {l, r} THEN Null ELSE l + r

(***************************************************************************)
(* Selector.select                                                         *)
(***************************************************************************)

Survivors(F) == {row \in F : Filled(Mask(row))}

\* The top of the survivors: equal scores, and nulls last, in any order.
TopSets(F) ==
  LET scored == {[row |-> row, score |-> Score(F, row)] : row \in F}
      size == Min({TopN, Cardinality(F)})
  IN  {{p.row : p \in P} :
         P \in {P \in SUBSET scored :
                  /\ Cardinality(P) = size
                  /\ \A p \in P, q \in scored \ P : p.score >= q.score}}

=============================================================================
