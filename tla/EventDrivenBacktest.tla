------------------------- MODULE EventDrivenBacktest -------------------------
(***************************************************************************)
(* EventDrivenBacktest.run: history replayed bar by bar through the        *)
(* simulated broker and the risk manager.  The data are the environment:   *)
(* at each tick any non-empty set of symbols has a bar, any of BarRows,    *)
(* on the same date as the last one or on a later date of Dates.           *)
(*                                                                         *)
(* One bar is: NewBar (clock, day roll), Mark (closes, daily loss), a stop *)
(* check of every open position, one rebalance turn of every symbol in     *)
(* universe order, CloseBar.                                               *)
(***************************************************************************)
EXTENDS SimBroker, RiskManager, MarketRules

CONSTANTS
  BarRows,      \* the (open, low, close, volume, lagged signal) rows a bar can be
  Dates,        \* the dates bars can fall on
  MaxBars,      \* length of the longest timeline
  Schedule,     \* weight_schedule after the constructor's sort, <<>> for none
  Weights       \* static budget of each symbol, Scale where `weights` lacks it

BarRow == [open : Nat, low : Nat, close : Nat, volume : Nat, signal : Int]

ASSUME DataAssumption ==
  /\ BarRows \subseteq BarRow
  /\ \A r \in BarRows : r.low <= r.open /\ r.low <= r.close
  /\ Dates \subseteq Nat \ {0}
  /\ MaxBars \in Nat
ASSUME BudgetAssumption ==
  /\ Schedule = [i \in 1 .. Len(Schedule) |-> Schedule[i]]
  /\ Len(Schedule) \in Nat
  /\ \A i \in 1 .. Len(Schedule) :
       Schedule[i] \in [date : Nat \ {0}, weights : [Symbols -> Int]]
  /\ \A i, j \in 1 .. Len(Schedule) : i < j => Schedule[i].date <= Schedule[j].date
  /\ Weights \in [Symbols -> Int]

VARIABLES
  phase,            \* where run() is: "clock", "mark", "trade" or "done"
  rows,             \* the bars at this timestamp, by symbol
  last_price,       \* most recent close of each symbol seen so far
  prev_ref_close,   \* last_price as it stood when the date changed
  bought_today,     \* the T+1 ledger: shares bought on this date
  risk,
  sched_idx,        \* schedule entries in effect so far
  active_budget,
  equity,           \* the account marked to this bar's closes
  todo,             \* open positions whose stop is still to be checked
  stopped,          \* symbols whose stop was hit on this bar
  turn              \* position in the universe of the next symbol to rebalance

dayVars == <<prev_ref_close, bought_today, sched_idx, active_budget>>
markVars == <<last_price, equity>>
vars == <<account, fills, clock, phase, rows, dayVars, markVars, risk, todo,
          stopped, turn>>

-----------------------------------------------------------------------------
(* A new bar. *)

NoBudget == [s \in Symbols |-> 0]
NoneBought == [s \in Symbols |-> 0]

Init ==
  /\ BrokerInit
  /\ phase = "clock"
  /\ rows = <<>> /\ last_price = <<>> /\ prev_ref_close = <<>>
  /\ bought_today = NoneBought
  /\ risk = NewRisk
  /\ sched_idx = 0 /\ active_budget = NoBudget
  /\ equity = InitialCash
  /\ todo = {} /\ stopped = {} /\ turn = 1

\* Mutant of DueEntries: `if` for `while`, one entry a day.
DueEntryOfTheDay(d) ==
  {i \in {sched_idx + 1} : i <= Len(Schedule) /\ Schedule[i].date <= d}

\* The run of entries, from the first not yet in effect, whose date has come.
DueEntries(d) ==
  {i \in sched_idx + 1 .. Len(Schedule) :
     \A j \in sched_idx + 1 .. i : Schedule[j].date <= d}

AdvanceSchedule(d) ==
  /\ sched_idx' = sched_idx + Cardinality(DueEntries(d))
  /\ active_budget' = IF sched_idx' > 0 THEN Schedule[sched_idx'].weights ELSE NoBudget

RollDay(d) ==
  /\ prev_ref_close' = last_price
  /\ bought_today' = NoneBought
  /\ risk' = StartDay(Equity(account, last_price))
  /\ AdvanceSchedule(d)

\* The signal is the strategy's target lagged one bar: none on a symbol's first.
Lagged(bars) == \A s \in DOMAIN bars \ DOMAIN last_price : bars[s].signal = 0

NewBar(d, bars) ==
  /\ phase = "clock" /\ clock.bar < MaxBars
  /\ Lagged(bars)
  /\ SetTime([date |-> d, bar |-> clock.bar + 1])
  /\ rows' = bars
  /\ \/ d > clock.date /\ RollDay(d)
     \/ d = clock.date /\ UNCHANGED <<dayVars, risk>>
  /\ phase' = "mark"
  /\ UNCHANGED <<account, fills, markVars, todo, stopped, turn>>

\* Mutant of Mark: only this bar's closes are kept.
MarkForgetting ==
  /\ phase = "mark"
  /\ last_price' = [s \in DOMAIN rows |-> rows[s].close]
  /\ equity' = Equity(account, last_price')
  /\ risk' = UpdateDailyLoss(risk, equity')
  /\ todo' = Held /\ stopped' = {} /\ turn' = 1
  /\ phase' = "trade"
  /\ UNCHANGED <<account, fills, clock, rows, dayVars>>

Mark ==
  /\ phase = "mark"
  /\ last_price' = [s \in DOMAIN rows \cup DOMAIN last_price |->
                      IF s \in DOMAIN rows THEN rows[s].close ELSE last_price[s]]
  /\ equity' = Equity(account, last_price')
  /\ risk' = UpdateDailyLoss(risk, equity')
  /\ todo' = Held /\ stopped' = {} /\ turn' = 1
  /\ phase' = "trade"
  /\ UNCHANGED <<account, fills, clock, rows, dayVars>>

-----------------------------------------------------------------------------
(* What an order may be. *)

\* Mutants of VolumeCap: not cut to whole lots, and cut upwards.
VolumeCapUncut(volume) == Portion(volume, ParticipationRate)
VolumeCapRoundedUp(volume) ==
  RoundToLots(Portion(volume, ParticipationRate) + LotSize - 1)

VolumeCap(volume) == RoundToLots(Portion(volume, ParticipationRate))
Capped(n, volume) == IF ParticipationRate <= 0 THEN n ELSE Lower(n, VolumeCap(volume))

\* Mutant of Exitable: T+1 forgotten.
ExitableIgnoringTPlusOne(s) == Capped(shares(s), rows[s].volume)

\* Shares of s that may be sold on this bar, after T+1 and the volume cap.
Exitable(s) ==
  Capped(IF TPlusOne THEN Higher(0, shares(s) - bought_today[s]) ELSE shares(s),
         rows[s].volume)

Participation(n, volume) == IF volume > 0 THEN (n * Scale) \div volume ELSE 0

BarOrder(s, side, n, price) ==
  [symbol |-> s, side |-> side, shares |-> n, price |-> price,
   participation |-> Participation(n, rows[s].volume)]

Tradable(order) ==
  LET s == order.symbol
  IN  /\ EnforceSuspension => rows[s].volume > 0
      /\ EnforcePriceLimits /\ s \in DOMAIN prev_ref_close =>
           /\ order.side = "buy"  => order.price < LimitUp(s, prev_ref_close[s])
           /\ order.side = "sell" => order.price > LimitDown(s, prev_ref_close[s])

Placeable(order) == order.shares > 0 /\ Tradable(order)

-----------------------------------------------------------------------------
(* Stop-loss exits, before anything else. *)

StopHit(s) == s \in DOMAIN rows /\ StopTriggered(account.positions[s], rows[s].low)

\* Mutant of StopOrder: filled at the stop although the bar opened below it.
StopOrderAtStop(s) ==
  BarOrder(s, "sell", Exitable(s), StopPrice(account.positions[s]))

StopOrder(s) ==
  BarOrder(s, "sell", Exitable(s), Lower(rows[s].open, StopPrice(account.positions[s])))

StopExit(s) ==
  /\ phase = "trade" /\ s \in todo
  /\ StopHit(s)
  /\ \/ Placeable(StopOrder(s)) /\ PlaceOrder(StopOrder(s))
     \/ ~ Placeable(StopOrder(s)) /\ UNCHANGED <<account, fills>>
  /\ todo' = todo \ {s}
  /\ stopped' = stopped \cup {s}
  /\ UNCHANGED <<clock, phase, rows, dayVars, markVars, risk, turn>>

NoStop(s) ==
  /\ phase = "trade" /\ s \in todo
  /\ ~ StopHit(s)
  /\ todo' = todo \ {s}
  /\ UNCHANGED <<account, fills, clock, phase, rows, dayVars, markVars, risk,
                 stopped, turn>>

-----------------------------------------------------------------------------
(* Rebalancing towards the target weights. *)

\* Mutant of Budget: a zero budget is taken for a missing one.
BudgetOrWeight(s) ==
  IF Schedule # <<>> /\ active_budget[s] # 0 THEN active_budget[s] ELSE Weights[s]

Budget(s) == IF Schedule # <<>> THEN active_budget[s] ELSE Weights[s]

TargetWeight(s) ==
  Lower(Higher(Portion(rows[s].signal, Budget(s)), 0), MaxPositionWeight)

\* weight * eq / price in lots, to the nearest lot.
TargetShares(weight, eq, price) ==
  IF price <= 0 \/ weight <= 0 THEN 0
  ELSE LET lot == Scale * price * LotSize
       IN  LotsOf(Truncated(2 * weight * eq + lot, 2 * lot))

Delta(s) == TargetShares(TargetWeight(s), equity, rows[s].open) - shares(s)

BuyOrder(s) ==
  LET room == MaxBuyShares(risk, account, s, rows[s].open, equity)
  IN  BarOrder(s, "buy", Capped(Lower(Delta(s), room), rows[s].volume), rows[s].open)

SellOrder(s) == BarOrder(s, "sell", Lower(- Delta(s), Exitable(s)), rows[s].open)

WantsIn(s) == Delta(s) > 0 /\ CanTrade(risk) /\ Placeable(BuyOrder(s))
WantsOut(s) == Delta(s) < 0 /\ Placeable(SellOrder(s))

\* Mutant of Rebalanced: a name stopped on this bar is rebalanced all the same.
RebalancedAnyway(s) == s \in DOMAIN rows

Rebalanced(s) == s \in DOMAIN rows /\ s \notin stopped

Turn(s) ==
  /\ phase = "trade" /\ todo = {}
  /\ turn <= Len(Universe) /\ s = Universe[turn]
  /\ turn' = turn + 1
  /\ UNCHANGED <<clock, phase, rows, prev_ref_close, sched_idx, active_budget,
                 markVars, risk, todo, stopped>>

ScaleIn(s) ==
  /\ Turn(s) /\ Rebalanced(s) /\ WantsIn(s)
  /\ PlaceOrder(BuyOrder(s))
  /\ bought_today' = IF Accepted(BuyOrder(s))
                     THEN [bought_today EXCEPT ![s] = @ + BuyOrder(s).shares]
                     ELSE bought_today

ScaleOut(s) ==
  /\ Turn(s) /\ Rebalanced(s) /\ WantsOut(s)
  /\ PlaceOrder(SellOrder(s))
  /\ UNCHANGED bought_today

Pass(s) ==
  /\ Turn(s)
  /\ Rebalanced(s) => ~ WantsIn(s) /\ ~ WantsOut(s)
  /\ UNCHANGED <<account, fills, bought_today>>

-----------------------------------------------------------------------------
(* The end of a bar and of the run. *)

CloseBar ==
  /\ phase = "trade" /\ todo = {} /\ turn > Len(Universe)
  /\ phase' = "clock"
  /\ UNCHANGED <<account, fills, clock, rows, dayVars, markVars, risk, todo,
                 stopped, turn>>

\* The timeline may end after any bar.
Finish ==
  /\ phase = "clock"
  /\ phase' = "done"
  /\ UNCHANGED <<account, fills, clock, rows, dayVars, markVars, risk, todo,
                 stopped, turn>>

Finished == phase = "done" /\ UNCHANGED vars

BarSets == UNION {[D -> BarRows] : D \in SUBSET Symbols \ {{}}}

Next ==
  \/ \E d \in Dates, bars \in BarSets : NewBar(d, bars)
  \/ Mark
  \/ \E s \in Symbols : StopExit(s) \/ NoStop(s)
  \/ \E s \in Symbols : ScaleIn(s) \/ ScaleOut(s) \/ Pass(s)
  \/ CloseBar
  \/ Finish
  \/ Finished

Spec == Init /\ [][Next]_vars

-----------------------------------------------------------------------------
(* Types *)

IsDict(f, S) == DOMAIN f \subseteq Symbols /\ f \in [DOMAIN f -> S]

TypeOK ==
  /\ BrokerTypeOK
  /\ phase \in {"clock", "mark", "trade", "done"}
  /\ IsDict(rows, BarRows) /\ IsDict(last_price, Nat) /\ IsDict(prev_ref_close, Nat)
  /\ bought_today \in [Symbols -> Nat]
  /\ risk \in RiskState
  /\ sched_idx \in 0 .. Len(Schedule) /\ active_budget \in [Symbols -> Int]
  /\ equity \in Int
  /\ todo \subseteq Symbols /\ stopped \subseteq Symbols
  /\ turn \in 1 .. Len(Universe) + 1

-----------------------------------------------------------------------------
(* T+1 *)

FillsNow == {i \in 1 .. Len(fills) : fills[i].timestamp = clock}

\* The T+1 ledger counts shares that are still held, so subtracting it from the
\* holding gives the sellable part and max(0, ...) in _exitable never hides a deficit.
BoughtTodayStillHeld == TPlusOne => \A s \in Symbols : bought_today[s] <= shares(s)

SettledBook == INSTANCE TPlusOneBook
                 WITH settled <- [s \in Symbols |-> shares(s) - bought_today[s]],
                      today   <- bought_today

\* The loop's account, split by the T+1 ledger, is a T+1 book: a step of any bar is a
\* purchase into today's shares, a sale out of settled ones, or the day roll.
ImplementsTPlusOneBook == SettledBook!Spec

-----------------------------------------------------------------------------
(* Fills and the bar they are made in *)

\* However its stop, its rebalance and the order of both turn out, a name trades at
\* most once per bar and never more than the participation cap of the bar's volume.
OneFillPerBarWithinVolume ==
  \A i \in FillsNow :
    /\ \A j \in FillsNow : fills[i].symbol = fills[j].symbol => i = j
    /\ ParticipationRate > 0 =>
         fills[i].shares * Scale <= rows[fills[i].symbol].volume * ParticipationRate

\* Every fill is one the bar could have made: the bar exists and printed volume, and
\* the price lies between its low and its open, for a stop hit on the low as for a
\* rebalance at the open.
FillsInsideTheBar ==
  \A i \in FillsNow :
    LET f == fills[i]
    IN  /\ f.symbol \in DOMAIN rows
        /\ rows[f.symbol].low <= f.price /\ f.price <= rows[f.symbol].open
        /\ EnforceSuspension => rows[f.symbol].volume > 0

\* A name whose stop was hit on a bar is not bought on that bar, even when the exit
\* was blocked or only partly possible and the target still asks for more.
NoReentryOnStopBar ==
  \A i \in FillsNow : fills[i].side = "buy" => fills[i].symbol \notin stopped

\* An order the loop narrowed for an exit is one the broker settles: place_order's
\* result is ignored there, so a rejection would lose the exit without a trace.
ExitsAlwaysSettle ==
  phase = "trade" =>
    /\ \A s \in todo : StopHit(s) /\ Placeable(StopOrder(s)) => Accepted(StopOrder(s))
    /\ todo = {} /\ turn <= Len(Universe) =>
         LET s == Universe[turn]
         IN  Rebalanced(s) /\ WantsOut(s) => Accepted(SellOrder(s))

-----------------------------------------------------------------------------
(* Risk *)

\* Once a bar's mark has breached the day's loss limit, no name grows until the date
\* changes, even if equity recovers on a later bar of the same date.
HaltBlocksEntriesAllDay ==
  [][risk.halted /\ clock'.date = clock.date =>
       /\ risk'.halted
       /\ \A s \in Symbols : shares(s)' <= shares(s)]_vars

\* A purchase, however the target was rounded to the nearest lot and however much is
\* held already, leaves the name within max_position_weight of the bar's equity.
EntryWithinNameCap ==
  \A i \in FillsNow :
    fills[i].side = "buy" =>
      shares(fills[i].symbol) * fills[i].price * Scale <= MaxPositionWeight * equity

\* Every holding has a close to be marked at, so _equity's fallback to the entry price
\* is never what a halt or an order size was computed from.
HoldingsAreMarked == Held \subseteq DOMAIN last_price

-----------------------------------------------------------------------------
(* The rebalance schedule *)

InEffect == {i \in 1 .. Len(Schedule) : Schedule[i].date <= clock.date}

\* The budgets in force are those of the latest entry whose date has come, after any
\* jump of the calendar over several entries; before the first there are none.
BudgetIsLatestInEffect ==
  active_budget = IF InEffect = {} THEN NoBudget
                  ELSE Schedule[CHOOSE i \in InEffect : \A j \in InEffect : j <= i].weights

\* A name the budgets in force leave out is only ever scaled out of.
DroppedNamesNeverGrow ==
  [][\A s \in Symbols :
       Schedule # <<>> /\ active_budget[s] = 0 => shares(s)' <= shares(s)]_vars

=============================================================================
