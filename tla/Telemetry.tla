----------------------------- MODULE Telemetry -----------------------------
(***************************************************************************)
(* The messages a backtest's result becomes: topic by topic in an exported *)
(* log, bar by bar in a live replay.  A result has the rows of its equity  *)
(* curve and the frames of its positions, bars and fills, empty where the  *)
(* engine leaves none.                                                     *)
(***************************************************************************)
EXTENDS Integers, Sequences, SequencesExt

Topics == {"/bars", "/equity", "/portfolio", "/fills"}
NoTime == 0
Whole == 100              \* a weight or a drawdown of 1.0

\* The rows of a frame at some of its places.
Those(frame, places) ==
  FlattenSeq([k \in DOMAIN frame |-> IF k \in places THEN <<frame[k]>> ELSE <<>>])

Timed(frame) == Those(frame, {k \in DOMAIN frame : frame[k].ts # NoTime})

\* What the engines leave.  There is a row of equity at every instant any symbol has a bar.
\* Positions are noted row by row, fills as they are made; the bars come symbol by symbol.
Times(frame) == {frame[k].ts : k \in DOMAIN frame}

IsResult(r) ==
  /\ r.rows \in Seq([ts : Int, equity : Int])
  /\ r.bars \in Seq([ts : Int, symbol : STRING])
  /\ r.positions \in Seq([ts : Int, symbol : STRING, market_value : Int])
  /\ r.fills \in Seq([ts : Int, symbol : STRING, side : STRING, shares : Int])
  /\ r.alike \in BOOLEAN
  /\ \A i, j \in DOMAIN r.rows : i < j => r.rows[i].ts < r.rows[j].ts
  /\ \A i, j \in DOMAIN r.positions : i < j => r.positions[i].ts <= r.positions[j].ts
  /\ NoTime \notin Times(r.rows)
  /\ Times(r.bars) \cup Times(r.positions) \cup (Times(r.fills) \ {NoTime}) \subseteq Times(r.rows)

\* A time of the curve equals one of another frame only if both have a zone or neither
\* has: the event-driven engine declares the curve's without (~ alike), and the others keep
\* the zone of the bars.  These are the rows of one a lookup by a time of the other can find.
Keyed(result, frame) == IF result.alike THEN frame ELSE <<>>

Message(topic, ts, body) == [topic |-> topic, ts |-> ts, body |-> body]

Weight(p, equity) == IF equity # 0 THEN (p.market_value * Whole) \div equity ELSE 0

BarMessages(bars) == [k \in DOMAIN bars |-> Message("/bars", bars[k].ts, bars[k].symbol)]
FillMessages(fills) ==
  [k \in DOMAIN fills |->
     Message("/fills", fills[k].ts, <<fills[k].symbol, fills[k].side, fills[k].shares>>)]

\* equity / running peak - 1
Drawdown(rows, i) ==
  LET peak == FoldSeq(LAMBDA r, m : IF r.equity > m THEN r.equity ELSE m, rows[i].equity, SubSeq(rows, 1, i))
  IN  (rows[i].equity * Whole) \div peak - Whole

EquityMessage(rows, i) ==
  Message("/equity", rows[i].ts, [equity |-> rows[i].equity, drawdown |-> Drawdown(rows, i)])

PortfolioMessage(ts, equity, positions) ==
  Message("/portfolio", ts,
          [k \in DOMAIN positions |-> <<positions[k].symbol, Weight(positions[k], equity)>>])

(***************************************************************************)
(* export_mcap                                                             *)
(***************************************************************************)

\* _group_by_ts: a row goes into the bucket at hand, or begins one.
WithRow(groups, row) ==
  LET n == Len(groups)
  IN  IF n > 0 /\ groups[n][1].ts = row.ts
      THEN [groups EXCEPT ![n] = Append(@, row)]
      ELSE Append(groups, <<row>>)

\* Mutant of Groups: the last bucket is never yielded.
GroupsButTheLast(frame) ==
  LET groups == FoldLeft(WithRow, <<>>, frame) IN SubSeq(groups, 1, Len(groups) - 1)

Groups(frame) == FoldLeft(WithRow, <<>>, frame)

\* eq_by_ts.get(ts, {}), the equity of a row or 0.
EquityAt(rows, ts) ==
  LET at == {i \in DOMAIN rows : rows[i].ts = ts}
  IN  IF at = {} THEN 0 ELSE rows[Max(at)].equity

Snapshot(rows, group) == PortfolioMessage(group[1].ts, EquityAt(rows, group[1].ts), group)

Exported(result) ==
  LET groups == Groups(result.positions)
  IN  [i \in DOMAIN result.rows |-> EquityMessage(result.rows, i)]
        \o [k \in DOMAIN groups |-> Snapshot(Keyed(result, result.rows), groups[k])]
        \o BarMessages(result.bars)
        \o FillMessages(Timed(result.fills))

(***************************************************************************)
(* serve_result, one pass                                                  *)
(***************************************************************************)

\* _group_by_timestamp, looked up at the time of a row, which is never NoTime.
At(frame, ts) == Those(frame, {k \in DOMAIN frame : frame[k].ts = ts})

Held(ts, equity, positions) ==
  IF positions = <<>> THEN <<>> ELSE <<PortfolioMessage(ts, equity, positions)>>

OfRow(result, i) ==
  LET row == result.rows[i]
  IN  BarMessages(At(Keyed(result, result.bars), row.ts))
        \o <<EquityMessage(result.rows, i)>>
        \o Held(row.ts, row.equity, At(Keyed(result, result.positions), row.ts))
        \o FillMessages(At(Keyed(result, result.fills), row.ts))

BarByBar(result) == FlattenSeq([i \in DOMAIN result.rows |-> OfRow(result, i)])

=============================================================================
