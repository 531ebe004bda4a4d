# super-trade in TLA+

This directory is a verification development of super-trade, a Python system that
ingests A-share bars, selects names and weights from them, backtests strategies bar by bar
through a simulated account, sweeps parameters over several backends, trades the same
strategies live through QMT and streams results to Foxglove. The modules are written from
the code under `src/super_trade`; TLC checks them on small instances and TLAPS proves the
theorems named below for every value of the constants.

    tlc -workers 2 -config backtest_one.cfg MCEventDriven     # one run
    tlc -workers 2 -config live_scans.cfg MCLiveTrading
    tlc -workers 2 -config ingest.cfg MCBackfill              # the longest, about two minutes
    tlapm EventDriven_proofs.tla                              # one proof module

## 1. The system

| part | state | operations | talks to |
|---|---|---|---|
| Bar loop, `execution/event_driven.py` | last closes, T+1 ledger, previous closes, schedule index and budgets, equity, the bar in hand | `run`: day roll, mark, stop exits, rebalance, record | broker, risk manager, market rules (calls); store (read once, before the loop) |
| Simulated broker, `execution/sim_broker.py` | cash, positions, fill log, clock | `place_order`, `set_time` | cost model |
| Risk manager, `execution/risk.py` | halt flag, equity at the day's start, orders today | `start_day`, `kill`, `update_daily_loss`, `record_order`, `max_buy_shares`, stops | reads the broker |
| Market rules, `execution/market.py` | none | `limit_pct` and the switches | |
| Costs, `backtest/costs.py` | none | `trade_cost`, `cost_expr` | |
| Live engine, `execution/engine.py` | none of its own | `scan_once`, `run`, `_submit` | broker, risk manager, store |
| QMT broker, `execution/qmt_broker.py` | a connection; the account lives in the MiniQMT terminal | `connect`, `cash`, `positions`, `place_order` | the terminal, which fills later |
| Backfill, `ingest/backfill.py` | the report; per symbol the newest stored day and the bars in hand | `run`, `_sync_one` | a source, the store |
| Rate limiter and sources, `ingest/rate_limiter.py`, `sources/` | the last call's time; the terminal's cache | `wait`, `list_symbols`, `fetch_bars`, `_call` with its retries | a web page that throttles; the MiniQMT terminal |
| Store, `data/clickhouse_store.py` | versions of bars | `write_bars`, `read_bars`, `latest_timestamp`, `list_symbols` | ClickHouse, which merges versions in the background |
| Resampling and loaders, `data/resample.py`, `data/loaders.py` | none | `resample`, `load_bars` | store |
| Selection, `selection/` | none | `build_features`, filters, scores, `Selector.select` | store |
| Portfolio, `portfolio/` | none | allocators, `periodic_schedule` | selection; the bar loop takes the schedule |
| Sweep runners, `runner/` | futures and outcomes gathered; artifact files | `run`, `execute_spec`, `SweepReport.best` | worker processes, Ray, a directory |
| Live bridge and export, `foxglove/` | channels by topic | `channel`, `publish_*`, `serve_result`, `export_mcap` | the Foxglove server (awaits) and its viewers |

What is hard in it:

* **Bar loop.** Sequential, but each bar is a long sequence of decisions that read what
  earlier ones left: a stop exit and a rebalance of the same name on one bar, several
  bars on one date under T+1, partial fills, prices at the limit, bars without volume,
  names that do not trade on every bar, a calendar that jumps over rebalance dates, a
  halt that must outlive a recovery. Correct means: the account is what the fills say,
  no share bought today is sold today, every fill is one the bar could have made, no
  name is bought back on the bar that stopped it, and the limits hold.
* **Live engine and QMT broker.** `place_order` acknowledges a submission; the fill comes
  later, in parts, or never, while scans go on every ten seconds and re-read positions
  and cash by two separate queries.
* **Backfill.** Incremental by the newest stored timestamp, against a source whose past
  may change, with a failure or a crash at any symbol, even inside an insert. Correct means:
  nothing is missing behind the newest stored day, a symbol not reported as failed is
  caught up, readers never go back to an older version, a run ends however often it retries.
* **Selection, portfolio, resampling.** No state, but many boundaries: what is known at a
  date, three truth values, ties, caps after scaling, sessions and dates of two time zones.
  Correct means: no look-ahead, weights within gross and cap, a coarse bar is its minutes.
* **Runners.** Workers that fail, die, or finish in any order; two that write one file.
  Correct means: one outcome per spec, its own, or an exception that has a cause.
* **Live bridge.** Coroutines that interleave at every await with viewers that come and go.
  Correct means: where the times of a result match, the replay is at every time on every topic
  the exported log, and who stays sees all of it.

`PROJECT.json` lists each hazard at its line with the properties that cover it.

## 2. Modules

    FixedPoint    Summation        the arithmetic: a grid of integers, a dict's sum
        |             |
      Costs         Broker         trade_cost; orders, fills, positions, account
         \         /   |   \
        SimBroker   RiskManager  MarketRules
             \         |         /
             EventDrivenBacktest
      Ledger <- SimBroker            TPlusOneBook <- EventDrivenBacktest   (refinements)

      RiskManager
           |
      ExecutionEngine         the engine over any broker
         /        \
    PaperTrading  LiveTrading     + SimBroker;  + QmtBroker and the MiniQMT terminal

               DailySeries
             /      |      \
       DataStore BarStore  DataSource -- RateLimiter
                     \      /
                     Backfill              DataStore <- Backfill   (refinement)

       Bars -> Selection -> Portfolio -\
          \--> Resample ----------------> Research

       RunSpecs -> Sweep     SweepPromise <- Sweep   (refinement)
       Telemetry -> LiveBridge

* `FixedPoint`. The code computes with floats, the model with integers on one grid:
  money and prices are integers, a rate, weight or signal is an integer over `Scale`.
  Where the code leaves the grid the model rounds back to it, costs and stop levels
  downwards. What is rounded in the code itself (`round(..., 2)` of a limit price, `int(x
  + 0.5)` of a lot count, `//` of a volume cap) is modelled by what it does:
  `Rounded`, `TargetShares`, `RoundToLots`.
* `SimBroker`: `account`, `fills`, `clock`. One action per method. `positions` is total;
  a symbol the dict lacks holds `NoPosition`. `Accepted` is the three rejections of
  `place_order` taken together; nothing is changed before the last of them, so their
  order cannot be observed.
* `Ledger`: what a settlement engine promises, without orders and average prices.
* `RiskManager`: the record of a manager's intraday state and one operator per method.
* `EventDrivenBacktest`: one bar is `NewBar` (clock, day roll), `Mark` (closes, equity,
  daily loss), `StopExit` or `NoStop` for each open position in any order (the dict's order
  is of no consequence: each touches its own name), one `ScaleIn`, `ScaleOut` or
  `Pass` per symbol in universe order, `CloseBar`. The data are the environment: any
  non-empty set of symbols has a bar, any row of `BarRows`, on the same or a later date.
  `signal` is the strategy's target after `shift(1)`, null on a symbol's first bar
  (`Lagged`). `phase`, `todo` and `turn` are the program counter and the two `for` loops.
  Left out: the `reason` strings and the equity and position rows, which no decision reads.
* `TPlusOneBook`: what T+1 promises: shares are settled or bought today, sales take the
  settled ones, a new day settles all.
* `ExecutionEngine`: the live loop with the broker left out. Each query of the broker in
  `scan_once` and `max_buy_shares` is a step of its own that takes the answer as a parameter
  (`ReadCash(cash)`, `MarkAccount(positions)`, `ListStops(positions)`, `SizeByName(held)`, ...),
  because between two of them the account may change. `_submit` is three steps: `Submit` is its
  check, which leaves the order in `cleared`; `HandOver` is the call of `place_order`, which
  puts it in `call` (a dry run counts it instead); `CallReturns` is `place_order` coming back,
  filled or rejected, and counts it. `ScanFails` is anything in the scan raising, which `run`
  catches, and leaves an order in flight uncounted; `StartFails` is the first query of the cash
  raising, outside the `try`. `Kill` may come at any moment from another thread, between the
  check and the call too. A query and the decision made on its answer are one step: the query
  changes nothing, so a kill between the two does what it does before both. `journal` is a
  history variable: what was handed to the broker, in which scan, and whether it was counted. A
  sweep of the store shows any member of `Quotes`; a name without bars is not in its domain. The
  list of fills a scan returns is left out (`run` drops it). `EngineSpec` closes the module with
  a broker that answers anything of the right type.
* `PaperTrading`: the engine over `SimBroker`. Queries read the account as it is, and an order
  settles inside the call.
* `LiveTrading`: the engine over `QmtBroker`, whose methods are requests to the MiniQMT
  terminal. The terminal is external: it is modelled by what the code can see of it. It
  accepts an order or does not, and later trades it in whole lots, in part, or cancels it;
  a purchase never takes cash below zero. What the code does not tell about it is a constant:
  `FreezesCash` (a submitted purchase leaves the cash at once) and `AnswersMayBeEmpty` (a
  query may come back with nothing, which `QmtBroker` reads as zero cash or no positions).
  Trades are at the order's price and free of charge; both favour the code. `started_on` is a
  history variable. `connect` is not modelled: a run starts connected.
* `DailySeries`: trading days and revisions. A source corrects bars it has issued; the
  later revision is the larger number, and that is all of a bar the ingest can tell apart.
* `BarStore`: the ReplacingMergeTree. A key (symbol, day) has the sequence of the rows
  inserted for it; `Merge` is the server's background merge, `Final` is a read with FINAL.
  An insert writes one part per month and may fail after some of them (`KeptByFailure`).
* `DataStore`: what the interface promises a reader: one bar per day, written symbol by
  symbol, never back to an older revision.
* `RateLimiter`: the age of the last call; `wait` returns when the age allows it.
* `DataSource`: the window, the validation that drops malformed rows, the retry rule, and
  the exchange suffix `to_qmt_symbol` guesses.
* `Backfill`: `run` and `_sync_one` as a process in phases `list`, `ask`, `fetch`, `query`,
  `write`, over the web source (`Call`, throttled and retried) or the terminal (`Download`,
  which may keep rows of its cache, then `QueryCache`). Between any two steps, the market
  issues a day (rows may be missing or malformed) or a correction, the server merges, the
  process dies (`Crash`, perhaps inside an insert) or an insert raises (`WriteFails`).
  `prompt` is a history variable: the bars that were well-formed on their own day. `via` is
  fixed for a behaviour: a deployment configures one source.
* `Bars`, `Resample`: a series maps UTC minutes to bars. Buckets are Python's `//` and `%`,
  which TLA+'s `\div` and `%` are for a positive divisor, before the open included.
* `Selection`: the feature cross-section of the last bars strictly before a date, masks over
  "true", "false" and "null", scores with average ranks, the top N with every way of
  breaking ties. Ratios are in hundredths. The volatility formula is a parameter.
* `Portfolio`: the allocators' `_normalise` over integers (`Unit` is a weight of 1) and the
  calendar of `periodic_schedule`.
* `Research`: a store that fills in any order, which is all a reader of it may rely on; the
  schedule, the resampled bars and `load_bars` are read off it in every state.
* `RunSpecs`: a spec, its canonical key (a list and a tuple are alike, a set has none) and the
  expansion of a grid. The hash is taken to be free of collisions.
* `Sweep`: the caller (`Submit`, `Collect`, `RayGet`, `Close`, `Return`) and the workers
  (`Take`, `RunEngine`, `OpenArtifact`, `CloseArtifact`, `RunFails`), for the sequential
  runner, the process pool and Ray. `write_parquet` truncates a file and then fills it, so two
  steps. A dead worker breaks the pool for good, while Ray puts its task back
  or gives it up; leaving the pool's block waits for what is queued.
* `SweepPromise`: one outcome per spec, each what running that spec may give, or an exception.
* `Telemetry`: what an engine can leave of a run (`IsResult`: a row of equity at every time any
  symbol has a bar, positions row by row, the bars one symbol after another), the messages
  `export_mcap` makes of it, topic by topic, and those one pass of `serve_result` publishes, bar
  by bar. The log is in no order of time across symbols, the replay is: they are compared topic
  by topic and time by time. Both look rows of one frame up by the time of another, which finds
  nothing if one has a zone and the other none (`Keyed`): the event-driven engine declares the
  curve's times as a bare `pl.Datetime`, and the other frames have the zone of the bars. `alike`
  says whether the times match. A naive and an aware time of one instant get the same stamp
  (`_to_ns`), so an instant is one number in the model.
* `LiveBridge`: the coroutine between its awaits; viewers connect, subscribe and leave.
* `MC*`: values for TLC. `*_proofs`: theorems.

In each module, an operator commented as a mutant of a definition is that definition with
a plausible bug; no model uses it. They are there to show that a property can fail:
put in the definition's place, each makes TLC report the property `PROJECT.json` pairs
it with.

## 3. Runs

| run | instance | shows |
|---|---|---|
| `sim_broker` | 2 symbols, lots of 2, 3 prices, 3 sizes (one no whole lot), 4 fills, cash for some of them only, a commission floor above the smallest sale | `AccountIsReplayOfFills`: the account implements `Ledger`; `AvgPriceWithinPricesPaid`; `OnlyADearSaleMakesDebt`, in both directions of the floor |
| `backtest_one` | 1 symbol, 6 bar shapes x 2 signals, 5 bars, 3 dates | T+1, stops, limits, suspension, volume cap, halt |
| `backtest_schedule` | 2 symbols on boards with other bands, any subset trading on each of 3 bars, 3 rebalances on dates 2 to 4, the calendar free to skip | `HoldingsAreMarked`; `BudgetIsLatestInEffect`; `DroppedNamesNeverGrow` |
| `paper_scans` | 2 names, one with a stop, 4 scans of any of 8 sweeps, order cap 3, kill switch at any step, dry run or not | `EntryWithinNameCap`: an entry keeps its name within its share of equity; `StoppedNamesAreOut`: a stop found is a stop made |
| `live_scans` | 2 names, one held at the start, 2 scans, 2 dates, order cap 2, partial trades, empty answers, exceptions, kill switch, `FairSpec` | `BuysWithinOrderCap`, `OneOrderPerNamePerScan`, `StopsAlwaysSent`, `HaltIsForGood` (no purchase gets under way after a halt: at most the one whose check came first goes out), whatever the terminal does; `EveryScanIsMade` once the loop is entered, any of them failing |
| `live_name_cap` | 1 name at a steady price | **violated**: `NameWithinCap` |
| `ingest` | a Shanghai name and a Beijing one under the 92 prefix, 3 days in months of 2, 2 revisions, 2 attempts, 2 runs, 1 crash or failed insert, 1 irregularity of the source, either source, `FairSpec` | `NoHolesBehindLatest`; `DoneMeansCaughtUp`; `StoreKeepsItsPromise` (the refinement of `DataStore`); `RunsEnd` |
| `ingest_corrections` | the same without crashes and without spacing | **violated**: `LateCorrectionsRecaptured` |
| `research` | 3 names with up to 5, 2 and 2 daily bars, or 7 minutes at the sessions' edges, arriving in any order | `NoLookahead`; `BudgetsKeepToTheLimits`; `YoungNamesTakeNoSlot`; `CoarseBarsAreTheirMinutes`; `WindowsOfDaysAreWhole` |
| `research_nulls` | the same with a name the fundamentals do not know | **violated**: `NullStaysExcluded` |
| `sweep` | 2 workers, 5 grids (repeats, an unknown family, a value without a key, a list and a tuple alike, a run with NaN for a metric), with artifacts or not, 2 deaths, `FairSpec` | `ImplementsPromise` (the refinement of `SweepPromise`); `AbortHasACause`; `ArtifactsAreWhole`; `BestIsBest`; `SweepEnds` |
| `bridge` | an event-driven result that buys, holds two names, sells out and draws down, the same with times that match, one that never trades, one of the vectorized engine; 1 viewer, looping or not, `BridgeFair` | `ReplayFollowsTheExport`: the exported log on every topic where the times match, on `/equity` alone where they do not; `ViewersSeeEverything` a pass sends |

The six bar shapes are the ones the loop tells apart: quiet; a dip through the stop that
recovers; an open below the stop at the lower limit; an open at the upper limit; a thin bar
whose cap is no whole lot; no volume. Five bars over three dates are enough for buy, buy again
or stop on the same date (trapped by T+1), exit in part (volume), exit of the rest, re-entry,
and a halt that a later bar of the date would lift. With six bars nothing new is reachable:
the ledger, the halt and the previous close are forgotten at a date's end.

Two scans let every hazard inside a scan meet a terminal that still works on the first
scan's orders; the third and fourth of `paper_scans`, where a name can be bought, stopped,
skipped and bought again, add the sequences across scans. The order cap is
low enough to be reached in the middle of a scan, by exits as well as by purchases.
Lots are single shares, so an order of two can trade in part.

Three days in months of two are the least in which an insert can break off between two
partitions with a later day left over, and in which the lookback reaches back over a
month's end. The second run meets what the first left behind: a crash, a failed insert, an
open gap, a correction. A crash and an irregularity in one behaviour let the two meet; a third
run starts from a store the second could have started from. `DoneMeansCaughtUp` is stated
of bars issued on their own day: what comes in late is the subject of
`ingest_corrections`. The Beijing name makes the guess of the suffix matter.

With `Every` and `Lookback` of 2, five dates hold two rebalances with bars before, between and
after them. Three names and two slots make ties and a full top N; a name with
one known bar has no volatility, which is null. The minutes are the last before and the
first of each session, the end of the morning, a half-hour's edge, and the next day.

Grids of four specs on two workers queue runs behind others. Two deaths may hit the same Ray
task twice, or a pool that is being left. One viewer is enough for the bridge: the
server treats viewers independently.

The violated runs are disagreements between documentation and code, quoted in
`PROJECT.json` under findings. An order acknowledged but not yet traded is bought again by
the next scan (`live_name_cap`, where the terminal only does what `place_order`'s own comment
says: "the actual fill arrives via QMT's trade callbacks"). A correction inside the lookback
is fetched and dropped while nothing newer exists (`ingest_corrections`). And `~f` lets a
null pass (`research_nulls`).

Deadlock is checked where the code is a loop that always has a next step until it returns
(`Finished`): the two backtests, the paper scans and the live ones. It is off where a
behaviour really ends: the bounded menu of `sim_broker`, the runs and days of `ingest` and
`ingest_corrections` used up, a store of `research` and `research_nulls` with nothing more to
come, a sweep that has returned, a replay that has ended. What must not be a deadlock there is
a liveness property: `RunsEnd`, `SweepEnds`, `ViewersSeeEverything`.

**Fairness.** The backtests need none: the bars are bounded by `MaxBars`, and `Finish` may end a
timeline after any bar. `LiveTrading!FairSpec` adds weak fairness of `Scan` (the engine's thread
is scheduled, and `time.sleep` ends) and of `OrderStock` (`order_stock` returns or raises); no
fairness of the terminal, the clock or the kill switch. `MaxScans` is the code's own
`max_scans`. `Backfill!FairSpec` adds weak fairness of the process, which is sequential, and of
`LimiterTick`, since a sleep ends; none of the market, the merges or a new run. `Sweep!FairSpec`
adds it of the caller and of each worker's own steps: a worker does not stand still, it goes on,
fails or dies. Nothing makes it succeed, and deaths are bounded, as Ray bounds its retries.
`LiveBridge!BridgeFair` adds it of the coroutine, which the event loop resumes after each await,
and of a viewer's subscribing to topics that are advertised; a viewer may leave at any time, and
the property is about those who stay.

## 4. Where documentation and code disagree

The violated runs above show three. The following were met while modelling; the models do
what the code does, so a property saying otherwise would fail, and no run is kept for
them.

* `event_driven.py:320` asks `can_trade()` and never calls `record_order()`: in a backtest
  `max_orders_per_day` does not bind. `event_driven.py:105-106` lists the "order count" among
  the limits enforced, and `execution.mdx:105` says the same of `can_trade()`.
* `risk.py:90` budgets the cash itself, without the cost of the trade: an entry that uses all of
  it is refused by `SimBroker.place_order`. `risk.py:5-6` and `execution.mdx:93-98` say the
  size respects the available cash.
* `risk.py:85` counts other holdings at their average entry price against equity at current
  prices: after a rise more than `max_gross_exposure` is invested. `risk.py:21` and
  `execution.mdx:86` say at most 95 %.
* `engine.py:79` adds the answers of two queries made one after the other: a trade between
  them, or an empty answer, looks like a loss and halts the account. `execution.mdx:87` says
  "halt new buys once down 5% on the day".
* `engine.py:130` starts the day with `broker.cash()` for equity: a holding carried in hides a
  loss. `execution.mdx:103` says `start_day` "snapshots the morning equity".
* `engine.py:131` starts the day once, before a loop that by default never ends.
  `execution.mdx:116-118` and `risk.py:40` say once per session.
* `runner/base.py:32` says a run never raises, but its key is computed at line 35, outside the
  `try`: a spec that JSON cannot hold ends the sweep. `AbortHasACause` admits it.
* `risk.py:46` says the kill switch "blocks all further orders this session": exits go out
  whatever it says (`engine.py:144-146`, by design), and a kill that comes between the check at
  `engine.py:146` and the call at `engine.py:159` lets that one purchase out. `HaltIsForGood`
  allows the one whose check came first and no other.
* `engine.py:136` means to "keep the loop alive", but `broker.cash()` at line 130 stands outside
  the `try`: when it raises, `run` ends with no scan made (`StartFails`). `EveryScanIsMade` is
  about a loop that was entered.
* `rate_limit.py:30` stamps a call when `wait()` returns, before `akshare_source.py` imports
  the library and asks: a slow first import brings the next request closer than the
  interval. In the model waiting and asking are one step, so no property speaks of the spacing
  of requests.
* `runner/report.py:71` takes `max()` of a metric that may be NaN: a first success without a
  number stays the best, whatever numbers follow, so which run is best depends on the order of
  completion. `report.py` calls it "the successful outcome with the best metric";
  `BestIsBest` says what comes out in either case.
* `features.py:61` uses "bars at/ before this instant": the read is half-open, so a bar of
  that instant is left out, as `rebalance.py` and `NoLookahead` have it.
* `event_driven.py:398-401` declares the curve's timestamps as `pl.Datetime`, without a zone, while
  bars, positions and fills keep the UTC of the store. A naive datetime never equals an aware one
  in Python, so `serve_result` finds no bar, holding or fill of an event-driven result
  (`live.py:192-197`) and publishes `/equity` only, where its docstring says "each bar's equity,
  portfolio snapshot, and fills are published" (`live.py:163`); and the exporter's
  `eq_by_ts.get(ts, {})` (`export.py:70`) finds no equity, so every `/portfolio` message has
  equity, cash and weights of 0. `Keyed` models both; `ReplayFollowsTheExport` says what is left.
* `foxglove/live.py:191` reads `row["cash"]`, which the vectorized engine's frame lacks:
  `serve_result` raises where `export.py:58` uses `.get`. `StartReplay` has the exception.
* `qmt_source.py:59` sends a 92 code, Beijing's new prefix by `market.py:43` and `:56`, to
  Shanghai: the terminal answers nothing, and the symbol counts as up to date.
  `DoneMeansCaughtUp` excludes such symbols by name (`KnownToQmt`).

Two more things a reader may not expect, documented nowhere: a bar on which nothing is held
publishes no `/portfolio` message, so a viewer goes on showing the last holdings; and an
explicitly empty `universe` means every symbol of the store.

## 5. Proofs

TLAPS checks the following, for every value of the constants that satisfies the named
assumptions of the modules.

* Trading (`SimBroker_proofs`, `EventDriven_proofs`, `ExecutionEngine_proofs`,
  `LiveTrading_proofs`, `PaperTrading_proofs`, over the lemmas of `Trading_proofs`): every
  universe, lot size, cost model, limits, rules, data and schedule, every number of scans,
  quotes and terminal. The assumptions are the types of the configuration, `low <= open` and
  `low <= close`, and a schedule sorted by date, as the constructor sorts it.
* Ingest (`Backfill_proofs`): every universe, calendar, board, lookback, interval, number of
  retries, runs, crashes and irregularities, under `SeriesAssumption` (there is a revision at
  all), `TableAssumption` (a month has a day), `LimiterAssumption`, `SourceAssumption` (at
  least one attempt) and `BackfillAssumption` (the universe lists every symbol).
* What is done off the market (`Offline_proofs`). A sweep of every set of workers, table of
  strategies, grid and number of deaths, under `SweepAssumption`: the values a run's metric can
  have are numbers, comparable, or NaN, which is none. A store of any finite set of names,
  filled in any order, under `ResearchAssumption`: bars are well-formed with prices above zero,
  and no minute bar is of a time before 08:00 in Beijing, when no exchange is open. A replay of
  every set of results, loop and viewers, under `BridgeAssumption`: a result is one an engine
  can leave (`IsResult`; the engine appends one row of equity for each time of its sorted
  clock, that row's positions with it, and stamps each fill with the clock).

Two theorems about research have a hypothesis more, because the formula of the volatility and
the filters are parameters. `BudgetsStayWithinLimits` takes the volatility of any window to be
an integer; `Null` is one, below all numbers, so a null is not excluded. `YoungNamesStayOut`
takes the volatility of fewer than two bars to be null, as a standard deviation of no return is,
and the filters to be a bound of that column ANDed with any others (`BoundsVolatility`): without
one the code may pick a young name. That the null fails the bound, stays through every
conjunction and does not pass when the mask is filled is `NoVolatilityNoPass`.

| theorem | says |
|---|---|
| `SimBroker_proofs!BrokerTypeCorrect` | `BrokerSpec => []BrokerTypeOK`; no sequence of orders makes a position negative |
| `SimBroker_proofs!DebtHasACause` | `BrokerSpec => []OnlyADearSaleMakesDebt` |
| `SimBroker_proofs!BrokerKeepsALedger` | `BrokerSpec => AccountIsReplayOfFills`: the refinement of `Ledger` |
| `SimBroker_proofs!AverageIsOfPricesPaid` | `BrokerSpec => []AvgPriceWithinPricesPaid` |
| `EventDriven_proofs!TypeCorrect` | `Spec => []TypeOK` |
| `EventDriven_proofs!BoughtTodayIsHeld` | `Spec => []BoughtTodayStillHeld` |
| `EventDriven_proofs!LoopIsATPlusOneBook` | with `TPlusOne`, `Spec => ImplementsTPlusOneBook` |
| `EventDriven_proofs!HaltIsADayLatch` | `Spec => HaltBlocksEntriesAllDay` |
| `EventDriven_proofs!OneFillPerBar` | `Spec => []OneFillPerBarWithinVolume` |
| `EventDriven_proofs!FillsAreInsideTheBar` | `Spec => []FillsInsideTheBar` |
| `EventDriven_proofs!StoppedIsNotReentered` | `Spec => []NoReentryOnStopBar` |
| `EventDriven_proofs!EntriesKeepToTheNameCap` | `Spec => []EntryWithinNameCap` |
| `EventDriven_proofs!ExitsSettle` | `Spec => []ExitsAlwaysSettle` |
| `EventDriven_proofs!HoldingsHaveMarks` | `Spec => []HoldingsAreMarked` |
| `EventDriven_proofs!BudgetFollowsSchedule` | `Spec => []BudgetIsLatestInEffect` |
| `EventDriven_proofs!DroppedNamesOnlyShrink` | `Spec => DroppedNamesNeverGrow` |
| `EventDriven_proofs!LoopIsABroker` | `Spec => BrokerSpec`: the loop only chooses orders and prices |
| `EventDriven_proofs!LoopKeepsTheBrokersPromises` | ledger, average and debt hold in every backtest |
| `ExecutionEngine_proofs!EngineTypeCorrect` | `EngineSpec => []EngineTypeOK` |
| `ExecutionEngine_proofs!OneOrderPerName` | `EngineSpec => []OneOrderPerNamePerScan` |
| `ExecutionEngine_proofs!PurchasesWithinCap` | `EngineSpec => []BuysWithinOrderCap` |
| `ExecutionEngine_proofs!StopsAreSent` | `EngineSpec => []StopsAlwaysSent` |
| `ExecutionEngine_proofs!HaltIsFinal` | `EngineSpec => HaltIsForGood`: with the check and the order apart, one purchase at most goes out |
| `LiveTrading_proofs!LiveTypeCorrect` | `Spec => []TypeOK` |
| `LiveTrading_proofs!LiveIsAnEngine` | `Spec => EngineSpec`: the terminal only chooses answers |
| `LiveTrading_proofs!LiveScansKeepTheirPromises` | the four promises of a scan hold in `LiveTrading` |
| `PaperTrading_proofs!PaperIsABroker`, `PaperIsAnEngine` | `Spec => BrokerSpec`, `Spec => EngineSpec` |
| `PaperTrading_proofs!PaperKeepsTheirPromises` | the promises of the broker and of a scan hold in `PaperTrading` |
| `PaperTrading_proofs!StoppedNamesLeave` | `Spec => []StoppedNamesAreOut` |
| `PaperTrading_proofs!PaperEntriesKeepToTheNameCap` | `Spec => EntryWithinNameCap` |
| `Backfill_proofs!TypeCorrect` | `Spec => []TypeOK`: among it, the bars in hand lie in the window asked for |
| `Backfill_proofs!NothingIsMissingBehindLatest` | `Spec => []NoHolesBehindLatest` |
| `Backfill_proofs!DoneSymbolsAreCaughtUp` | `Spec => []DoneMeansCaughtUp` |
| `Backfill_proofs!IngestKeepsTheStoresPromise` | `Spec => StoreKeepsItsPromise`: the refinement of `DataStore` |
| `Offline_proofs!TypeCorrect` | `Spec => []TypeOK`, of `Sweep` |
| `Offline_proofs!OnlyDeathsAndKeysAbort` | `Spec => []AbortHasACause` |
| `Offline_proofs!SweepKeepsPromise` | `Spec => ImplementsPromise`: the refinement of `SweepPromise` |
| `Offline_proofs!ReportsNameWholeFiles` | `Spec => []ArtifactsAreWhole` |
| `Offline_proofs!BestBeatsAll` | `Spec => []BestIsBest`, whether the first success has a number or not |
| `Offline_proofs!ScheduleNeverLooksAhead` | `ResearchSpec => NoLookahead` |
| `Offline_proofs!BudgetsStayWithinLimits` | `ResearchSpec => []BudgetsKeepToTheLimits` |
| `Offline_proofs!YoungNamesStayOut` | `ResearchSpec => []YoungNamesTakeNoSlot` |
| `Offline_proofs!WindowsCutWholeDays` | `ResearchSpec => []WindowsOfDaysAreWhole` |
| `Offline_proofs!CoarseBarsHoldTheirMinutes` | `ResearchSpec => []CoarseBarsAreTheirMinutes` |
| `Offline_proofs!ReplayMatchesExport` | `BridgeSpec => []ReplayFollowsTheExport`, of results whose times match and of those whose curve has lost its zone |

*The broker.* What a log of fills comes to is a fold, and the provers have no induction over
folds. `IsFold` says of a function that it is the running total of a sequence, `FoldsAgree`
that two such functions agree, by the least place where they would not; with these
`CashAfterAppend` and `HoldingAfterAppend` give the replay of one fill more. `ReplayInv` ties the
account to the replay, and `OrderIsEntered` makes an accepted order one entry of the ledger.
The average price is not bounded by itself: `BuysAppend` says which fills count since a
name was last flat, `BlendBetween` that a rounded mean of two lies between them.

*The bar loop.* `PlaceOrderEffect` reduces an order to what it does to the shares of its own
symbol. From it, `StopExitShrinks`, `ScaleOutShrinks` and `ScaleInGrows` reduce the three
trading actions to two shapes: a name *shrinks* by no more than what was not bought today
(`ExitableBound`), or *grows* by exactly what the T+1 ledger notes. `StepKinds` then says
that every step of the loop is one of: a shrink, a growth while trading is allowed, a day
roll, or neither. `TypeOK` is inductive; `BoughtTodayStillHeld` is inductive with it; and
with both, each of the four kinds is a `Sell`, a `Buy`, a `NewDay` or a stutter of
`TPlusOneBook`. The halt needs `TypeOK` and `StepKinds` only.

The four properties of a bar's fills are proved together. None is inductive: that a name has
one fill needs that a name whose turn it is had none. `BarInv` adds `NoFillIsLater` (a new bar
begins without fills) and `FillsFollowTheBar`: during the stops the names with a fill are
stopped names off the list, and during the rebalance also names of the universe already
passed. `Trades` is the one thing a trading action does to the log, shown of the three actions
in turn. `LotsInv` keeps holdings and the T+1 ledger in whole lots, from which an exit is never
refused; `MarksInv` adds to `HoldingsAreMarked` that the bar at hand has been marked before it
is traded; `ScheduleInv` says that the index counts the entries in effect, which
`DueEntriesRun` gets from the schedule being sorted.

*The engine.* Its promises hold whatever the broker answers, so they are proved of `EngineSpec`
and carried over by `LiveIsAnEngine`, which needs `LiveTrading!TypeOK` for the answers to be of
the types `EngineNext` quantifies over. None of them is inductive alone. `EngineInv` adds what
ties the journal to the scan: what the list of stops, the quotes and the name being sized have
to do with each other (`ScanShape`); that the names sent in the current scan are stopped names
off the list or names of the universe already passed (`JournalFollowsScan`, from which a name
can get no second order, since a stopped one is skipped); that every stopped name off the list
has been sent unless it is a dry run (`StopsOffTheListSent`); and that the risk manager's
counter is the number of counted entries unless it is a dry run, which journals none
(`CountFollowsJournal`). As in the bar loop, `StepKinds` reduces every step to one that passes
the check, one that hands the order over, one that returns from a call, or one that leaves all
three alone. The check and the order being apart, the order between them is looked after like
those sent: it is of a name that has none yet.

*Paper trading* composes two proved components, and is a behaviour of each, so it keeps the
promises of both. What is its own is that nothing moves between two queries of a scan:
`StopsInv` says the list of stops still says what the account holds, `EntryInv` that the room
last computed, and an order in flight, still fit the name's cap.

*The backfill.* What readers are served is the last row of a key, so the refinement needs that
no write takes it back. That is not inductive: a write is decided on bars fetched earlier,
while the market corrects and the server merges. `IInv` (checked with TLC before it was
proved) says in `RowsAreSeen` that the last row of a key is its newest and no newer than the
source, in `PagesAreIssued` that pages only move on and what was issued on time stays
well-formed, in `LatestIsStored` that the day a fetch starts from is still stored when it is
used, in `ProcessFitsSource` that the limiter and the terminal's cache are at work for their
own source only, and in `BatchIsFresh` that the bars in hand lie between what is stored and
what the source has and miss no prompt day of their window. `RowsSteps`, `PagesSteps`,
`WorkSteps` and `ReportSteps` reduce the actions to the few ways a step can touch the table,
the pages, the bars in hand and the report. For `NoHolesBehindLatest`, `PartOf` is what a
failed insert keeps: a part of the batch that leaves out no day before one it has
(`EarlierDayEarlierMonth`), so a hole can only open if the batch itself had one.

*The sweep.* `RaisesHaveACause` ties an exception to a death or a key; `WorkersAreAtTheirs` puts
each worker at a running future of its own, so that no one overwrites another's result;
`FuturesAreOwn` says a done future holds an outcome of its own spec; `CollectedAreDone`
that the caller has each result once. When as many results are in as there are specs, the
order in which they came is a permutation: an injection of a finite set into itself (the
library's `FS_Injection`), which is the witness `SweepPromise` asks for. A file may be torn
by a second run of the same name while the first is reported: `FilesInv` says that a file
which does not hold the run it is named after is owed by a run of that name that has not
succeeded, so when all are in only a failed one can have left it (`OwedByAFailure`). The best of
a report is a fold, followed outcome by outcome (`BestStepByStep`).

*Research.* The store only grows, and a schedule reads it through `Before`. When the bars before
a date are the same in two stores, so are the dates before it (`DatesBefore`), hence its place in
the calendar, and the cross-section (`SameFeatures`), hence the picks and the budgets. The
sums of the library are folds over sets; `IsSum` and `SumOfUnion` take them apart name by
name, `ScaledSums` bounds a sum of rounded shares by the share of the sum, and
`NormaliseKeepsLimits` is the allocators' part. For the resampled bars, `GroupsPartition` and
`BucketsAreUncut` say that every minute is in one bucket and every bucket in one session, and
`SumOfParts` that its volume is kept. `MorningsAreOfTheirDay` puts a date's minutes in its UTC
day, so that a window of dates cuts no daily bar.

*The replay.* Both the log and a pass are sequences joined of parts, and `Stamped`, what a topic
has at a time, goes through a join part by part (`StampedApart`, `StampedOfJoin`). Of one row's
messages and of what can be found of the log at that row's time (`Findable`) it is the same
(`RowAsMessages`, `LogIsByRow`): the four frames, or the curve alone (`KeyedFrames`), once
`GroupsAreByTime` has shown of the exporter's running buckets that each holds the rows of one
time: which needs positions in order of time. In the state, `BridgeInv` says that what was sent
and what is still to be sent are together one pass, whoever connects, subscribes or leaves.

`Trading_proofs` has the lemmas the trading modules share: ranges of `Portion`, `Truncated` and
`TradeCost`, whole lots, what `max_buy_shares` leaves of a name's room, and that a sum of integers
is one. `Sum` and the folds of the library are defined by recursion; their lemmas go by the least
counterexample, since the provers cannot instantiate an induction rule.

Only model-checked: liveness (`EveryScanIsMade`, `RunsEnd`, `SweepEnds`,
`ViewersSeeEverything`), which is out of the provers' reach with anything that has `ENABLED`,
and the three properties the code violates. Every safety property of a passing run is a theorem
above.

## 6. Plan

The bar loop, the live engine, the ingest, research, the sweep and the bridge are modelled,
checked and proved as far as section 5 says. What is left:

1. A part of the terminal's behaviour under which the live engine keeps its name cap (an
   account on which every order has ended before the next scan), as a theorem of `LiveTrading`.
2. `periodic_schedule` and the bar loop together: the budgets the loop is given are those
   `Research` computes, from stores only.
3. The metrics of a result and the vectorized engine, against the bar loop.

## 7. Not modelled

* The vectorized engine, its strategies and results, metrics and charts: stateless column
  expressions over floats. Strategies are replaced by any signal they might produce, scores
  and volatility by small instances. Float rounding as such is not modelled.
* Observability, dashboard, scripts and site: configuration and presentation.
* `QmtBroker.connect` and `QmtSource`'s connection: a run starts connected. Instrument names and
  intraday labels of `QmtSource`; the row counts of the backfill's report.
* Adjusted prices. A corporate action rewrites the adjusted history of a symbol
  (`sources/base.py:19-22`) while a backfill fetches the lookback only: the older rows keep
  the old base. `Correct` changes one bar at a time.
* Staleness of features. `features.py:77-80` takes the last bars before a date, however old:
  a name suspended for a year still has a momentum.
* Minute bars labelled by their end. `Resample` takes the label as the bar's beginning, as
  `resample.py:82` does; under the other convention the last bar of a window falls into the
  next one.
* Duplicate symbols in an explicit list of a backfill (the second pass skips), and a change of
  source between runs.
* Concurrent publishers over one bridge. `LiveBridge.channel` tests and then awaits
  (`live.py:66`), so two coroutines could register one topic twice; nothing in `src/` runs
  two over one bridge.
* The look-ahead of sizing an order at the open with equity marked at the same bar's close:
  reproduced by the model and not judged by a property.
