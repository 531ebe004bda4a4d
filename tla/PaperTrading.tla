---------------------------- MODULE PaperTrading ----------------------------
(***************************************************************************)
(* The live engine over the simulated broker: nobody else touches the      *)
(* account, queries are attributes, and an order settles inside the call.  *)
(***************************************************************************)
EXTENDS SimBroker, ExecutionEngine

vars == <<brokerVars, engineVars>>

Init == BrokerInit /\ EngineInit

\* A live order has no modelled impact: its participation is the default.
AsPlaced(order) ==
  [symbol |-> order.symbol, side |-> order.side, shares |-> order.shares,
   price |-> order.price, participation |-> 0]

Scan ==
  /\ \/ AsksCash(account.cash)
     \/ AsksPositions(account.positions)
     \/ turn <= Len(Universe) /\ AsksShares(shares(Name))
     \/ AsksNothing
  /\ UNCHANGED brokerVars

Settle ==
  /\ call # NoCall
  /\ PlaceOrder(AsPlaced(call))
  /\ CallReturns
  /\ UNCHANGED clock

\* Only the store can raise here, while the sweep reads it.
SweepFails == At("cash") /\ ScanFails /\ UNCHANGED brokerVars

Throw == Kill /\ UNCHANGED brokerVars

Finished == phase = "done" /\ UNCHANGED vars

Next == Scan \/ Settle \/ SweepFails \/ Throw \/ Finished

Spec == Init /\ [][Next]_vars

-----------------------------------------------------------------------------

\* An entry leaves its name within its share of the equity the scan marked, whatever
\* the scans before it bought, sold in part or stopped out (the per-name cap).
EntryWithinNameCap ==
  [][\A s \in Symbols : shares(s)' > shares(s) =>
       shares(s)' * quotes[s].price * Scale <= MaxPositionWeight * equity]_vars

\* With the simulated broker a stop that was found is an exit that was made: when the
\* signals are looked at, no stopped name holds a share, halted or not (test_execution's
\* "exited, and not re-bought same scan").
StoppedNamesAreOut ==
  phase \in {"signals"} \cup Sizing /\ call = NoCall /\ ~ dry_run =>
    \A s \in stopped : shares(s) = 0

=============================================================================
