------------------------------ MODULE Research ------------------------------
(***************************************************************************)
(* The store as research reads it while it fills: a store of minute bars   *)
(* from which coarser ones are derived, or one of daily bars from which a  *)
(* schedule of budgets is built.  A write adds a bar anywhere: symbols are *)
(* loaded one by one, and gaps are filled later.                           *)
(***************************************************************************)
EXTENDS Portfolio, Resample

CONSTANT Arrivals(_)    \* of an interval: the <<symbol, timestamp, bar>> that may come

\* What a store is given: bars of its symbols, at positive prices and after the epoch;
\* minutes of no session before eight in the morning.
Bar == [open : Int, high : Int, low : Int, close : Int, volume : Int]

ASSUME ResearchAssumption ==
  /\ IsFiniteSet(Symbols)
  /\ \A i \in {"m1", "day"} : \A a \in Arrivals(i) :
       a[1] \in Symbols /\ a[2] \in Nat /\ a[3] \in Bar /\ Valid(a[3]) /\ a[3].low > 0
  /\ \A a \in Arrivals("m1") : MinuteOfDay(a[2]) >= Shanghai

VARIABLES interval, store
researchVars == <<interval, store>>

ResearchInit ==
  /\ interval \in {"m1", "day"}
  /\ store = [s \in Symbols |-> <<>>]

WriteBar(s, t, bar) ==
  /\ t \notin DOMAIN store[s]
  /\ store' = [store EXCEPT ![s] = [u \in DOMAIN @ \cup {t} |-> IF u = t THEN bar ELSE @[u]]]
  /\ UNCHANGED interval

ResearchNext == \E a \in Arrivals(interval) : WriteBar(a[1], a[2], a[3])

ResearchSpec == ResearchInit /\ [][ResearchNext]_researchVars

\* One entry of periodic_schedule.
Budgets(d) == BudgetsAsOf(store, d)
Before(s, d) == ReadBars(store[s], 0, d)

\* rebalance.py: "features are computed from bars strictly before that date ... no
\* lookahead".  Whatever comes in on or after a trading date, whether it rebalances and to
\* which budgets stays as it was.
NoLookahead ==
  [][interval = "day" =>
       \A d \in TradingDates(store) :
         (\A s \in Symbols : Before(s, d) = Before(s, d)') =>
           /\ d \in RebalanceDates(store) <=> d \in RebalanceDates(store)'
           /\ d \in RebalanceDates(store) => Budgets(d) = Budgets(d)']_researchVars

\* rebalance.py: a snapshot is taken "once lookback days of history exist", and
\* allocator.py: weights "sum <= gross, each <= max_weight", whatever the allocator.
BudgetsKeepToTheLimits ==
  interval = "day" =>
    \A d \in RebalanceDates(store) :
      LET raws(picks) == {InverseVol(picks), EqualWeight(picks), ScoreProportional(picks, "momentum")}
          budgets == UNION {{Normalise(raw) : raw \in raws(picks)} : picks \in PicksAsOf(store, d)}
      IN  /\ Cardinality({e \in TradingDates(store) : e < d}) >= Lookback
          /\ \A w \in budgets :
               /\ \A s \in DOMAIN w : w[s] \in 0 .. MaxWeight
               /\ MapThenSumSet(LAMBDA s : w[s], DOMAIN w) <= Gross

\* filters.py: "A null feature ... fails numeric comparisons, so such names are excluded":
\* a name too young to have a volatility takes none of the top N slots from filters that
\* bound it.
YoungNamesTakeNoSlot ==
  interval = "day" =>
    \A d \in RebalanceDates(store) :
      \A picks \in PicksAsOf(store, d) : \A row \in picks :
        Cardinality(DOMAIN Before(row.symbol, d)) > 1

\* filters.py, of ~f: "null stays excluded, not flipped to True".  A name the fundamentals
\* do not know never passes `~Flag(...)`.
NullStaysExcluded ==
  interval = "day" =>
    \A d \in RebalanceDates(store) : \A w \in Budgets(d) : DOMAIN w \subseteq DOMAIN Fundamentals

\* Whether a window of `every` minutes of some session opens in t + 1 .. u.
Cut(t, u, every) ==
  \/ DateOf(t) # DateOf(u)
  \/ \E opening \in MinuteOfDay(t) + 1 .. MinuteOfDay(u) :
       LET session == IF opening < LunchSplit THEN MorningOpen ELSE AfternoonOpen
       IN  (opening - session) % every = 0

\* data.md: "a 5-minute bar is always exactly its five 1-minute bars", and a bar "never
\* crosses lunch or the overnight gap".  Each minute is in one bar, which has the open of
\* its first, the close of its last, the extremes and the volume of all.
CoarseBarsAreTheirMinutes ==
  interval = "m1" =>
    \A s \in Symbols, target \in {"m5", "m30", "m60"} :
      LET series == store[s]
          coarse == Resampled(series, "m1", target)
          minutes(t) == {u \in DOMAIN series : t <= u /\ ~ Cut(t, u, Minutes[target])}
      IN  /\ UNION {minutes(t) : t \in DOMAIN coarse} = DOMAIN series
          /\ \A t \in DOMAIN coarse :
               /\ minutes(t) \cap DOMAIN coarse = {t}
               /\ coarse[t].open = series[t].open
               /\ coarse[t].close = series[Max(minutes(t))].close
               /\ Valid(coarse[t])
               /\ \A u \in minutes(t) : {series[u].low, series[u].high}
                                          \subseteq coarse[t].low .. coarse[t].high
          /\ MapThenSumSet(LAMBDA t : coarse[t].volume, DOMAIN coarse)
               = MapThenSumSet(LAMBDA u : series[u].volume, DOMAIN series)

\* A backtest over dates gets the same daily bars whether the window is cut out of the
\* minutes or out of the days: UTC midnight falls in no Beijing session.
WindowsOfDaysAreWhole ==
  interval = "m1" =>
    \A s \in Symbols :
      LET days == ResampleDaily(store[s])
          dates == {DateOf(t) : t \in DOMAIN store[s]}
      IN  \A from, to \in dates \cup {d + 1 : d \in dates} :
            LoadBars(store[s], "m1", "day", from * DayMinutes, to * DayMinutes)
              = ReadBars(days, from * DayMinutes, to * DayMinutes)

=============================================================================
