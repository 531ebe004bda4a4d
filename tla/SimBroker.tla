------------------------------ MODULE SimBroker ------------------------------
(***************************************************************************)
(* The simulated broker: it settles an order at once, in full and at the   *)
(* order's own price, against an in-memory account, or rejects it.         *)
(***************************************************************************)
EXTENDS Costs, Broker

CONSTANT InitialCash    \* the account's starting cash

ASSUME InitialCashAssumption == InitialCash \in Nat

VARIABLES
  account,      \* cash and open positions
  fills,        \* the append-only log of completed trades
  clock         \* the timestamp stamped onto fills: a date and a bar number

brokerVars == <<account, fills, clock>>

BrokerTypeOK ==
  /\ account \in Account
  /\ fills \in Seq(Fill)
  /\ clock \in Timestamp

BrokerInit ==
  /\ account = [cash |-> InitialCash, positions |-> [s \in Symbols |-> NoPosition]]
  /\ fills = <<>>
  /\ clock = [date |-> 0, bar |-> 0]

shares(s) == account.positions[s].shares
Held == {s \in Symbols : shares(s) > 0}

Notional(order) == order.shares * order.price
Cost(order) == TradeCost(Notional(order), order.side = "sell", order.participation)

WholeLots(n) == n > 0 /\ n % LotSize = 0

\* Mutant of Accepted: the cost is left out of the check.
AcceptedIgnoringCost(order) ==
  /\ WholeLots(order.shares)
  /\ order.side = "buy" => Notional(order) <= account.cash
  /\ order.side = "sell" => order.shares <= shares(order.symbol)

\* The checks place_order makes before it touches the account.
Accepted(order) ==
  /\ WholeLots(order.shares)
  /\ order.side = "buy" => Notional(order) + Cost(order) <= account.cash
  /\ order.side = "sell" => order.shares <= shares(order.symbol)

\* Mutant of Blended: the shares are raised before the old average is weighted.
BlendedAfterAdding(pos, order) ==
  LET total == pos.shares + order.shares
  IN  [shares    |-> total,
       avg_price |-> (pos.avg_price * total + Notional(order)) \div total]

\* A bought position: the average price is the share-weighted blend.
Blended(pos, order) ==
  LET total == pos.shares + order.shares
  IN  [shares    |-> total,
       avg_price |-> (pos.avg_price * pos.shares + Notional(order)) \div total]

\* Mutant of Reduced: the difference the wrong way round.
ReducedSwapped(pos, order) ==
  IF pos.shares = order.shares THEN NoPosition
  ELSE [pos EXCEPT !.shares = order.shares - @]

\* A sold position keeps its average price; at zero shares its entry is dropped.
Reduced(pos, order) ==
  IF pos.shares = order.shares THEN NoPosition
  ELSE [pos EXCEPT !.shares = @ - order.shares]

\* Mutant of Settled: a sale brings in its notional, its cost is never paid.
SettledFreeSale(order) ==
  IF order.side = "buy"
  THEN [cash      |-> account.cash - (Notional(order) + Cost(order)),
        positions |-> [account.positions EXCEPT ![order.symbol] = Blended(@, order)]]
  ELSE [cash      |-> account.cash + Notional(order),
        positions |-> [account.positions EXCEPT ![order.symbol] = Reduced(@, order)]]

\* The account an accepted order leaves.
Settled(order) ==
  IF order.side = "buy"
  THEN [cash      |-> account.cash - (Notional(order) + Cost(order)),
        positions |-> [account.positions EXCEPT ![order.symbol] = Blended(@, order)]]
  ELSE [cash      |-> account.cash + (Notional(order) - Cost(order)),
        positions |-> [account.positions EXCEPT ![order.symbol] = Reduced(@, order)]]

FillOf(order) ==
  [symbol |-> order.symbol, side |-> order.side, shares |-> order.shares,
   price |-> order.price, cost |-> Cost(order), timestamp |-> clock]

PlaceOrder(order) ==
  \/ /\ Accepted(order)
     /\ account' = Settled(order)
     /\ fills' = Append(fills, FillOf(order))
  \/ /\ ~ Accepted(order)
     /\ UNCHANGED <<account, fills>>

SetTime(ts) == clock' = ts

BrokerNext ==
  \/ \E order \in Order : PlaceOrder(order) /\ UNCHANGED clock
  \/ \E ts \in Timestamp : SetTime(ts) /\ UNCHANGED <<account, fills>>

BrokerSpec == BrokerInit /\ [][BrokerNext]_brokerVars

-----------------------------------------------------------------------------
(* What the account promises whoever places the orders. *)

Book == INSTANCE Ledger WITH log      <- fills,
                             cash     <- account.cash,
                             holdings <- [s \in Symbols |-> shares(s)]

\* The account is the replay of its fill log: cash is the initial cash less what
\* the fills paid plus what they brought in, costs included, a holding is what was
\* bought less what was sold, every buy was covered by the cash the replay has at
\* that point and every sale by its shares (place_order's docstring, "no margin,
\* no shorting"; the log is the basis of daily_report).
AccountIsReplayOfFills == Book!Spec

\* The average entry price, from which the stop-loss level is taken, lies between
\* the cheapest and the dearest price paid since the position was last flat, whatever
\* partial sales and scale-ins happened in between.
AvgPriceWithinPricesPaid ==
  \A s \in Held :
    LET paid == {fills[i].price : i \in Book!BuysSinceFlat(fills, s)}
    IN  /\ \E p \in paid : p <= account.positions[s].avg_price
        /\ \E p \in paid : account.positions[s].avg_price <= p

\* Only a sale that cost more than it brought in can put the account into debt:
\* place_order checks the cash of a purchase ("no margin") and of no sale, and the
\* commission has a floor.
OnlyADearSaleMakesDebt ==
  account.cash < 0 =>
    \E i \in 1 .. Len(fills) :
      fills[i].side = "sell" /\ fills[i].shares * fills[i].price < fills[i].cost

=============================================================================
