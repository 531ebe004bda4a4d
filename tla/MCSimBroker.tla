---------------------------- MODULE MCSimBroker ----------------------------
(***************************************************************************)
(* SimBroker for TLC: the orders of a small menu, a bounded fill log and a *)
(* clock that ticks once.                                                  *)
(***************************************************************************)
EXTENDS SimBroker

CONSTANTS
  MaxFills,     \* bound: length of the fill log
  MaxDate       \* bound: last date the clock shows

CONSTANTS MCSizes, MCPrices

MCUniverse == <<"A", "B">>

\* Big orders take part of the bar's volume and pay market impact.
MCOrders ==
  {[symbol |-> s, side |-> d, shares |-> n, price |-> p,
    participation |-> IF n > LotSize THEN n ELSE 0] :
     s \in Symbols, d \in Side, n \in MCSizes, p \in MCPrices}

MCPlaceOrder ==
  /\ Len(fills) < MaxFills
  /\ \E order \in MCOrders : PlaceOrder(order)
  /\ UNCHANGED clock

MCSetTime ==
  /\ clock.date < MaxDate
  /\ SetTime([clock EXCEPT !.date = @ + 1])
  /\ UNCHANGED <<account, fills>>

MCNext == MCPlaceOrder \/ MCSetTime

MCSpec == BrokerInit /\ [][MCNext]_brokerVars

=============================================================================
