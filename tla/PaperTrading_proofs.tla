------------------------- MODULE PaperTrading_proofs -------------------------
(***************************************************************************)
(* The live engine over the simulated broker: it is one of the engine's    *)
(* behaviours and one of the broker's, so what is proved of either holds   *)
(* here; and with an account nobody else touches more can be proved, that  *)
(* stops are exits and that entries keep to the per-name cap.              *)
(***************************************************************************)
EXTENDS PaperTrading, SimBroker_proofs, ExecutionEngine_proofs

Types == BrokerTypeOK /\ Typed

LEMMA SharesType ==
  ASSUME BrokerTypeOK
  PROVE  /\ account.cash \in Int /\ account.positions \in [Symbols -> Position]
         /\ \A s \in Symbols : shares(s) \in Nat
BY DEF BrokerTypeOK, Account, Position, shares

\* A call in flight is an order the broker takes.
LEMMA PlacedType ==
  ASSUME Types, call # NoCall
  PROVE  call \in LiveOrder /\ AsPlaced(call) \in Order
BY DEF Types, Typed, EngineTypeOK, LiveOrder, AsPlaced, Order

\* Every step is one of the broker's and one of the engine's, or leaves them alone.
LEMMA StepIsBoth ==
  ASSUME Types, [Next]_vars
  PROVE  [BrokerNext]_brokerVars /\ [EngineNext]_engineVars
<1>1. CASE Scan
  <2>1. ASSUME turn <= Len(Universe), AsksShares(shares(Name)) PROVE EngineNext
    <3>1. Name \in Symbols
      BY <2>1, UniverseAssumption DEF Types, Typed, EngineTypeOK, Name, Symbols
    <3>2. shares(Name) \in Nat
      BY <3>1, SharesType DEF Types
    <3>3. QED
      BY <2>1, <3>2 DEF EngineNext
  <2>2. EngineNext
    BY <1>1, <2>1, SharesType DEF Scan, EngineNext, Types
  <2>3. QED
    BY <1>1, <2>2 DEF Scan
<1>2. CASE Settle
  BY <1>2, PlacedType DEF Settle, BrokerNext, EngineNext
<1>3. CASE SweepFails \/ Throw
  BY <1>3 DEF SweepFails, Throw, EngineNext
<1>4. CASE Finished \/ UNCHANGED vars
  BY <1>4 DEF Finished, vars
<1>5. QED
  BY <1>1, <1>2, <1>3, <1>4 DEF Next

LEMMA InitTypes == Init => Types
BY InitBrokerTypeOK, InitTyped DEF Init, Types

LEMMA StepTypes == Types /\ [Next]_vars => Types'
BY StepIsBoth, StepBrokerTypeOK, StepTyped DEF Types

LEMMA TypesAlways == Spec => []Types
BY InitTypes, StepTypes, PTL DEF Spec

\* The paper account is driven through the broker's calls alone.
THEOREM PaperIsABroker == Spec => BrokerSpec
<1>1. Init => BrokerInit
  BY DEF Init
<1>2. QED
  BY <1>1, TypesAlways, StepIsBoth, PTL DEF Spec, BrokerSpec

\* Its answers are among those the engine was proved correct for.
THEOREM PaperIsAnEngine == Spec => EngineSpec
<1>1. Init => EngineInit
  BY DEF Init
<1>2. QED
  BY <1>1, TypesAlways, StepIsBoth, PTL DEF Spec, EngineSpec

\* What is proved of the engine over any broker, and of the broker under any orders, is
\* so of paper trading.
THEOREM PaperKeepsTheirPromises ==
  Spec => /\ AccountIsReplayOfFills
          /\ []AvgPriceWithinPricesPaid
          /\ []OneOrderPerNamePerScan
          /\ []BuysWithinOrderCap
          /\ []StopsAlwaysSent
          /\ HaltIsForGood
BY PaperIsABroker, PaperIsAnEngine, BrokerKeepsALedger, AverageIsOfPricesPaid,
   OneOrderPerName, PurchasesWithinCap, StopsAreSent, HaltIsFinal, PTL
-----------------------------------------------------------------------------
(* A scan and the account it was made from *)

\* The order under way, from _submit's check until place_order returns.
InHand == IF cleared # NoCall THEN cleared ELSE call

\* While the stops are sent, the list still says what the account holds, and a stopped
\* name no longer on it is out or on its way; afterwards every stopped name is out and
\* no order is for one.
StopsInv ==
  ~ dry_run =>
    /\ phase = "stops" =>
         /\ \A s \in DOMAIN todo : todo[s] = shares(s) /\ shares(s) > 0
         /\ \A s \in stopped \ DOMAIN todo :
              shares(s) = 0 \/ (InHand # NoCall /\ InHand.symbol = s)
         /\ InHand # NoCall =>
              /\ InHand.side = "sell" /\ InHand.symbol \notin DOMAIN todo
              /\ InHand.shares = shares(InHand.symbol) /\ InHand.shares > 0
    /\ phase \in {"signals"} \cup Sizing =>
         /\ \A s \in stopped : shares(s) = 0
         /\ InHand # NoCall => InHand.symbol \notin stopped

FitsCap(s, n) ==
  (shares(s) + n) * quotes[s].price * Scale <= MaxPositionWeight * equity

\* What is left of the budget never exceeds the name's room, and a purchase in hand
\* fits it, for the account as it is now.
EntryInv ==
  /\ phase \in Sizing => InHand = NoCall
  /\ phase \in {"book", "fund"} =>
       room <= NameRoom(equity, shares(Name), quotes[Name].price)
  /\ InHand # NoCall /\ InHand.side = "buy" => FitsCap(InHand.symbol, InHand.shares)

HoldingsInLots == \A s \in Symbols : InLots(shares(s))

PaperInv == Types /\ HoldingsInLots /\ StopsInv /\ EntryInv

\* An order returns: its symbol's shares move by what it asked for, or not at all.
LEMMA SettleEffect ==
  ASSUME Types, Settle
  PROVE  /\ call \in LiveOrder /\ call' = NoCall
         /\ UNCHANGED <<dry_run, phase, scans, scanVars>>
         /\ \A s \in Symbols :
              shares(s)' = IF s = call.symbol /\ Accepted(AsPlaced(call))
                           THEN IF call.side = "buy" THEN shares(s) + call.shares
                                ELSE shares(s) - call.shares
                           ELSE shares(s)
<1>1. /\ BrokerTypeOK /\ PlaceOrder(AsPlaced(call)) /\ call # NoCall /\ call' = NoCall
      /\ UNCHANGED <<dry_run, phase, scans, scanVars>>
  BY DEF Settle, CallReturns, Types
<1>2. call \in LiveOrder /\ AsPlaced(call) \in Order
  BY <1>1, PlacedType
<1>3. /\ AsPlaced(call).symbol = call.symbol /\ AsPlaced(call).side = call.side
      /\ AsPlaced(call).shares = call.shares
  BY DEF AsPlaced
<1>4. \A s \in Symbols :
        shares(s)' = IF s = AsPlaced(call).symbol /\ Accepted(AsPlaced(call))
                     THEN IF AsPlaced(call).side = "buy"
                          THEN shares(s) + AsPlaced(call).shares
                          ELSE shares(s) - AsPlaced(call).shares
                     ELSE shares(s)
  BY <1>1, <1>2, PlaceOrderEffect
<1>5. QED
  BY <1>1, <1>2, <1>3, <1>4

LEMMA StepLots == Types /\ HoldingsInLots /\ [Next]_vars => HoldingsInLots'
<1> SUFFICES ASSUME Types, HoldingsInLots, [Next]_vars, NEW s \in Symbols
             PROVE  InLots(account'.positions[s].shares)
  BY DEF HoldingsInLots, InLots, shares
<1>1. BrokerTypeOK /\ InLots(shares(s)) /\ InLots(account.positions[s].shares)
  BY DEF Types, HoldingsInLots, shares
<1>2. CASE Settle
  <2>1. AsPlaced(call) \in Order /\ PlaceOrder(AsPlaced(call))
    BY <1>2, PlacedType DEF Settle
  <2>2. QED
    BY <1>1, <2>1, OrderKeepsLots
<1>3. CASE account' = account
  BY <1>1, <1>3
<1>4. QED
  BY <1>2, <1>3 DEF Next, Scan, SweepFails, Throw, Finished, vars, brokerVars

\* Submitting: nothing, or the order is in hand.
LEMMA SubmitCall ==
  ASSUME NEW order, order # NoCall, Submit(order), call = NoCall
  PROVE  /\ InHand' = NoCall \/ InHand' = order
         /\ order.side # "buy" => InHand' = order
BY DEF Submit, Blocked, InHand

\* A stop exit is accepted, so when its call returns the name is out.
LEMMA StopSettles ==
  ASSUME Types, HoldingsInLots, Settle, call.side = "sell", NEW s, s = call.symbol,
         call.shares = shares(s), call.shares > 0
  PROVE  shares(s)' = 0
<1>1. call \in LiveOrder /\ s \in Symbols
  BY SettleEffect DEF LiveOrder
<1>2. /\ AsPlaced(call).symbol = call.symbol /\ AsPlaced(call).side = call.side
      /\ AsPlaced(call).shares = call.shares
  BY DEF AsPlaced
<1>3. call.shares % LotSize = 0 /\ shares(s) \in Nat
  BY <1>1, SharesType DEF HoldingsInLots, InLots, Types
<1>4. Accepted(AsPlaced(call))
  BY <1>2, <1>3 DEF Accepted, WholeLots
<1>5. shares(s)' = shares(s) - call.shares
  BY <1>1, <1>4, SettleEffect
<1>6. QED
  BY <1>3, <1>5

LEMMA SettleKeepsInv ==
  ASSUME PaperInv, Settle
  PROVE  StopsInv' /\ EntryInv'
<1>1. /\ Types /\ HoldingsInLots /\ StopsInv /\ EntryInv
      /\ call # NoCall /\ call' = NoCall
      /\ InHand = call /\ InHand' = NoCall
      /\ dry_run' = dry_run /\ phase' = phase /\ stopped' = stopped /\ todo' = todo
  <2>1. cleared = NoCall /\ cleared' = NoCall
    BY DEF PaperInv, Types, Typed, ScanShape, Settle, CallReturns
  <2>2. QED
    BY <2>1, SettleEffect DEF PaperInv, Settle, scanVars, InHand
<1>2. EntryInv'
  BY <1>1 DEF EntryInv, Sizing
<1>3. ASSUME NEW s \in Symbols, s # call.symbol PROVE shares(s)' = shares(s)
  BY <1>1, <1>3, SettleEffect
<1>4. DOMAIN todo \subseteq Symbols /\ stopped \subseteq Symbols
  BY <1>1 DEF Types, Typed, EngineTypeOK
<1>5. ASSUME ~ dry_run, phase = "stops"
      PROVE  /\ \A s \in DOMAIN todo : todo[s] = shares(s)' /\ shares(s)' > 0
             /\ \A s \in stopped \ DOMAIN todo : shares(s)' = 0
  <2>1. /\ \A s \in DOMAIN todo : todo[s] = shares(s) /\ shares(s) > 0
        /\ \A s \in stopped \ DOMAIN todo : shares(s) = 0 \/ call.symbol = s
        /\ call.side = "sell" /\ call.symbol \notin DOMAIN todo
        /\ call.shares = shares(call.symbol) /\ call.shares > 0
    BY <1>1, <1>5 DEF StopsInv
  <2>2. ASSUME NEW s, s = call.symbol PROVE shares(s)' = 0
    BY <1>1, <2>1, <2>2, StopSettles
  <2>3. ASSUME NEW s \in DOMAIN todo PROVE todo[s] = shares(s)' /\ shares(s)' > 0
    BY <1>3, <1>4, <2>1, <2>3
  <2>4. ASSUME NEW s \in stopped \ DOMAIN todo PROVE shares(s)' = 0
    <3>1. CASE s = call.symbol
      BY <2>2, <3>1
    <3>2. CASE s # call.symbol
      BY <1>3, <1>4, <2>1, <3>2
    <3>3. QED
      BY <3>1, <3>2
  <2>5. QED
    BY <2>3, <2>4
<1>6. ASSUME ~ dry_run, phase \in {"signals"} \cup Sizing, NEW s \in stopped
      PROVE  shares(s)' = 0
  BY <1>1, <1>3, <1>4, <1>6 DEF StopsInv
<1>7. StopsInv'
  <2>1. phase = "stops" => phase \notin {"signals"} \cup Sizing
    BY DEF Sizing
  <2>2. QED
    BY <1>1, <1>5, <1>6, <2>1 DEF StopsInv, shares
<1>8. QED
  BY <1>2, <1>7
\* Outside the stops, the signals and the sizing, with no order in hand, there is
\* nothing to keep.
LEMMA NothingToKeep ==
  ASSUME InHand' = NoCall, phase' \notin {"stops", "signals"} \cup Sizing
  PROVE  StopsInv' /\ EntryInv'
BY DEF StopsInv, EntryInv, Sizing

\* A step from one signal to the next, or further into one, that sends nothing.
LEMMA NothingSent ==
  ASSUME PaperInv, InHand = NoCall, InHand' = NoCall, account' = account, dry_run' = dry_run,
         stopped' = stopped, phase \in {"signals"} \cup Sizing,
         phase' \in {"signals", "name"}
  PROVE  StopsInv' /\ EntryInv'
BY DEF PaperInv, StopsInv, EntryInv, Sizing, shares

LEMMA StopExitKeepsInv ==
  ASSUME PaperInv, account' = account, NEW s \in Symbols, StopExit(s)
  PROVE  StopsInv' /\ EntryInv'
<1> DEFINE order == ExitOrder(s, todo[s], "stop_loss")
<1>1. /\ call = NoCall /\ InHand = NoCall
      /\ phase = "stops" /\ phase' = "stops" /\ s \in DOMAIN todo
      /\ Submit(order) /\ stopped' = stopped /\ dry_run' = dry_run
      /\ todo' = [x \in DOMAIN todo \ {s} |-> todo[x]]
  BY DEF StopExit, At, InHand
<1>2. s \in DOMAIN quotes /\ todo[s] \in Int
  BY <1>1 DEF PaperInv, Types, Typed, EngineTypeOK, ScanShape
<1>3. order.symbol = s /\ order.side = "sell" /\ order.shares = todo[s] /\ order # NoCall
  BY DEF ExitOrder, NoCall
<1> HIDE DEF order
<1>4. InHand' = order
  BY <1>1, <1>3, SubmitCall
<1>5. EntryInv'
  BY <1>1, <1>3, <1>4 DEF EntryInv, Sizing
<1>6. ~ dry_run =>
        /\ \A x \in DOMAIN todo : todo[x] = shares(x) /\ shares(x) > 0
        /\ \A x \in stopped \ DOMAIN todo : shares(x) = 0
  BY <1>1 DEF PaperInv, StopsInv
<1>7. \A x : shares(x)' = shares(x)
  BY DEF shares
<1>8. StopsInv'
  <2>1. SUFFICES ASSUME ~ dry_run PROVE StopsInv'
    BY <1>1 DEF StopsInv
  <2>2. InHand' = order /\ order # NoCall /\ DOMAIN todo' = DOMAIN todo \ {s}
    BY <1>1, <1>3, <1>4, <2>1
  <2>3. \A x \in DOMAIN todo' : todo'[x] = shares(x)' /\ shares(x)' > 0
    BY <1>1, <1>6, <1>7, <2>1
  <2>4. \A x \in stopped' \ DOMAIN todo' : shares(x)' = 0 \/ x = s
    BY <1>1, <1>6, <1>7, <2>1, <2>2
  <2>5. InHand'.side = "sell" /\ InHand'.symbol = s /\ InHand'.shares = shares(s)
        /\ shares(s) > 0 /\ account' = account
    BY <1>1, <1>3, <1>6, <2>1, <2>2
  <2>6. phase' \notin {"signals"} \cup Sizing
    BY <1>1 DEF Sizing
  <2>7. InHand' # NoCall /\ InHand'.symbol \notin DOMAIN todo' /\ InHand'.shares > 0
        /\ InHand'.shares = account'.positions[InHand'.symbol].shares
    BY <2>2, <2>5 DEF shares
  <2>8. /\ \A x \in DOMAIN todo' : todo'[x] = account'.positions[x].shares
                                   /\ account'.positions[x].shares > 0
        /\ \A x \in stopped' \ DOMAIN todo' :
             account'.positions[x].shares = 0 \/ InHand'.symbol = x
    BY <2>3, <2>4, <2>5 DEF shares
  <2>9. QED
    BY <2>5, <2>6, <2>7, <2>8 DEF StopsInv, shares
<1>9. QED
  BY <1>5, <1>8

LEMMA SignalExitKeepsInv ==
  ASSUME PaperInv, account' = account, NEW held, SignalExit(held)
  PROVE  StopsInv' /\ EntryInv'
<1> DEFINE order == ExitOrder(Name, held, "signal_exit")
<1>1. /\ call = NoCall /\ phase = "signals" /\ phase' = "signals"
      /\ Name \notin stopped /\ Submit(order) /\ stopped' = stopped /\ dry_run' = dry_run
  BY DEF SignalExit, LookedAt, At, Passed
<1>2. order.symbol = Name /\ order.side = "sell" /\ order # NoCall
  BY DEF ExitOrder, NoCall
<1> HIDE DEF order
<1>3. InHand' = NoCall \/ InHand' = order
  BY <1>1, <1>2, SubmitCall
<1>4. EntryInv'
  BY <1>1, <1>2, <1>3 DEF EntryInv, Sizing
<1>5. ~ dry_run => \A s \in stopped : shares(s) = 0
  BY <1>1 DEF PaperInv, StopsInv
<1>6. InHand' # NoCall => InHand'.symbol \notin stopped
  BY <1>1, <1>2, <1>3
<1>7. StopsInv'
  BY <1>1, <1>5, <1>6 DEF StopsInv, shares
<1>8. QED
  BY <1>4, <1>7

\* The order a scan buys with: within the budget left, so within the name's room.
LEMMA PurchaseFits ==
  ASSUME PaperInv, phase = "fund", NEW cash \in Int, Affordable(cash) > 0
  PROVE  FitsCap(Name, Affordable(cash))
<1> DEFINE price == quotes[Name].price
<1> DEFINE n == Affordable(cash)
<1> DEFINE least == Lower(room, cash)
<1>1. /\ Name \in DOMAIN quotes /\ Name \in Symbols /\ price > 0 /\ price \in Nat
      /\ room \in Int /\ equity \in Int
  <2>1. EngineTypeOK /\ ScanShape
    BY DEF PaperInv, Types, Typed
  <2>2. Name \in DOMAIN quotes /\ quotes[Name].price > 0
    BY <2>1 DEF ScanShape, Sizing
  <2>3. QED
    BY <2>1, <2>2, QuoteType DEF EngineTypeOK
<1>2. shares(Name) \in Nat
  BY <1>1, SharesType DEF PaperInv, Types
<1>3. room <= NameRoom(equity, shares(Name), price)
  BY DEF PaperInv, EntryInv
<1>4. least \in Int /\ least <= room
  BY <1>1 DEF Lower
<1>5. n = LotsOf(least \div (price * LotSize))
  BY DEF Affordable
<1> HIDE DEF least, price, n
<1>6. n \in Int /\ n * price <= least
  BY <1>1, <1>4, <1>5, LotsWithin
<1>7. n \in Nat \ {0} /\ price \in Nat \ {0}
  BY <1>1, <1>6 DEF n
<1>8. NameRoom(equity, shares(Name), price) \in Int
  <2>1. price \in Int /\ shares(Name) \in Int
    BY <1>1, <1>2
  <2>2. QED
    BY <1>1, <2>1, NameRoomInt, Zenon
<1>9. n * price <= NameRoom(equity, shares(Name), price)
  <2>1. n * price \in Int
    BY <1>1, <1>7
  <2>2. QED
    BY <1>1, <1>3, <1>4, <1>6, <1>8, <2>1
<1>10. (shares(Name) + n) * price * Scale <= MaxPositionWeight * equity
  BY <1>1, <1>2, <1>7, <1>9, NameRoomKeepsCap
<1>11. QED
  BY <1>10 DEF FitsCap, n, price

LEMMA PurchaseKeepsInv ==
  ASSUME PaperInv, account' = account, NEW cash \in Int, SizeByCash(cash)
  PROVE  StopsInv' /\ EntryInv'
<1> DEFINE order == [symbol |-> Name, side |-> "buy", shares |-> Affordable(cash),
                     price |-> quotes[Name].price, reason |-> "signal"]
<1>1. /\ InHand = NoCall /\ phase = "fund" /\ phase' = "signals"
      /\ stopped' = stopped /\ dry_run' = dry_run /\ quotes' = quotes /\ equity' = equity
      /\ InHand' = NoCall \/ (Affordable(cash) > 0 /\ InHand' = order)
  <2>1. UNCHANGED orderVars \/ (Affordable(cash) > 0 /\ Submit(order))
    BY DEF SizeByCash
  <2>2. order # NoCall
    BY DEF NoCall
  <2> HIDE DEF order
  <2>3. InHand' = NoCall \/ (Affordable(cash) > 0 /\ InHand' = order)
    BY <2>1, <2>2, SubmitCall DEF SizeByCash, At, orderVars, InHand
  <2>4. QED
    BY <2>3 DEF SizeByCash, At, Passed, InHand
<1>2. Name \notin stopped
  BY <1>1 DEF PaperInv, Types, Typed, ScanShape, Sizing
<1>3. EntryInv'
  <2>1. CASE InHand' = NoCall
    BY <1>1, <2>1 DEF EntryInv, Sizing
  <2>2. CASE Affordable(cash) > 0 /\ InHand' = order
    <3>1. FitsCap(Name, Affordable(cash))
      BY <1>1, <2>2, PurchaseFits
    <3>2. InHand'.symbol = Name /\ InHand'.shares = Affordable(cash)
      BY <2>2
    <3>3. FitsCap(InHand.symbol, InHand.shares)'
      BY <1>1, <3>1, <3>2 DEF FitsCap, shares
    <3>4. QED
      BY <1>1, <3>3 DEF EntryInv, Sizing
  <2>3. QED
    BY <1>1, <2>1, <2>2
<1>4. ~ dry_run => \A s \in stopped : shares(s) = 0
  BY <1>1 DEF PaperInv, StopsInv, Sizing
<1>5. InHand' # NoCall => InHand'.symbol \notin stopped
  BY <1>1, <1>2
<1>6. StopsInv'
  BY <1>1, <1>4, <1>5 DEF StopsInv, shares
<1>7. QED
  BY <1>3, <1>6
LEMMA SizingKeepsInv ==
  ASSUME PaperInv, account' = account,
         SizeByName(shares(Name)) \/ SizeByBook(account.positions)
  PROVE  StopsInv' /\ EntryInv'
<1>1. /\ InHand = NoCall /\ InHand' = NoCall /\ phase \in Sizing /\ phase' \in {"book", "fund"}
      /\ stopped' = stopped /\ dry_run' = dry_run /\ quotes' = quotes /\ equity' = equity
      /\ turn' = turn
  BY DEF SizeByName, SizeByBook, At, Sizing, orderVars, InHand
<1>2. room' <= NameRoom(equity, shares(Name), quotes[Name].price)
  <2>1. /\ Name \in DOMAIN quotes /\ Name \in Symbols
        /\ quotes[Name].price \in Int /\ room \in Int /\ equity \in Int
        /\ account.positions \in [Symbols -> Position] /\ shares(Name) \in Int
    <3>1. EngineTypeOK /\ ScanShape /\ BrokerTypeOK
      BY DEF PaperInv, Types, Typed
    <3>2. Name \in DOMAIN quotes
      BY <1>1, <3>1 DEF ScanShape
    <3>3. QED
      BY <3>1, <3>2, QuoteType, SharesType DEF EngineTypeOK
  <2>2. NameRoom(equity, shares(Name), quotes[Name].price) \in Int
    BY <2>1, NameRoomInt, Zenon
  <2>3. CASE SizeByName(shares(Name))
    BY <2>2, <2>3 DEF SizeByName
  <2>4. CASE SizeByBook(account.positions)
    <3>1. GrossRoom(equity, account.positions, Name, quotes[Name].price) \in Int
      BY <2>1, GrossRoomInt
    <3>2. phase = "book" /\ room' = Lower(room, GrossRoom(equity, account.positions, Name,
                                                          quotes[Name].price))
      BY <2>4 DEF SizeByBook, At
    <3>3. room <= NameRoom(equity, shares(Name), quotes[Name].price)
      BY <3>2 DEF PaperInv, EntryInv
    <3>4. room' \in Int /\ room' <= room
      BY <2>1, <3>1, <3>2 DEF Lower
    <3>5. QED
      BY <2>1, <2>2, <3>3, <3>4
  <2>5. QED
    BY <2>3, <2>4
<1>3. EntryInv'
  BY <1>1, <1>2 DEF EntryInv, Name, shares
<1>4. StopsInv'
  BY <1>1 DEF PaperInv, StopsInv, Sizing, shares
<1>5. QED
  BY <1>3, <1>4

LEMMA ListStopsKeepsInv ==
  ASSUME PaperInv, account' = account, ListStops(account.positions)
  PROVE  StopsInv' /\ EntryInv'
<1>1. /\ InHand' = NoCall /\ phase' = "stops"
      /\ stopped' = StopsAmong(account.positions)
      /\ todo' = [s \in stopped' |-> account.positions[s].shares]
  BY DEF ListStops, At, orderVars, InHand
<1>2. \A s \in stopped' : account.positions[s].shares > 0
  BY <1>1 DEF StopsAmong
<1>3. QED
  BY <1>1, <1>2 DEF StopsInv, EntryInv, Sizing, shares

\* Handing over keeps the order in hand; a dry run drops it.
LEMMA HandOverKeepsInv ==
  ASSUME PaperInv, account' = account, HandOver
  PROVE  StopsInv' /\ EntryInv'
<1>1. /\ InHand = cleared /\ InHand # NoCall
      /\ InHand' = IF dry_run THEN NoCall ELSE InHand
      /\ UNCHANGED <<dry_run, phase, scanVars>>
  <2>1. cleared # NoCall /\ call = NoCall
    BY DEF HandOver, PaperInv, Types, Typed, ScanShape
  <2>2. QED
    BY <2>1 DEF HandOver, InHand
<1>2. EntryInv'
  <2>1. EntryInv /\ UNCHANGED <<quotes, equity, turn, room>>
    BY <1>1 DEF PaperInv, scanVars
  <2>2. QED
    BY <1>1, <2>1 DEF EntryInv, FitsCap, shares, Name
<1>3. StopsInv'
  <2>1. StopsInv /\ UNCHANGED <<todo, stopped>>
    BY <1>1 DEF PaperInv, scanVars
  <2>2. QED
    BY <1>1, <2>1 DEF StopsInv, shares
<1>4. QED
  BY <1>2, <1>3

LEMMA ScanKeepsInv ==
  ASSUME PaperInv, Scan
  PROVE  StopsInv' /\ EntryInv'
<1>1. account' = account
  BY DEF Scan, brokerVars
<1>2. CASE AsksCash(account.cash)
  <2>1. account.cash \in Int
    BY SharesType DEF PaperInv, Types
  <2>2. CASE StartRun(account.cash) \/ ReadCash(account.cash)
    BY <2>2, NothingToKeep DEF StartRun, ReadCash, At, Sizing, orderVars, InHand
  <2>3. QED
    BY <1>1, <1>2, <2>1, <2>2, PurchaseKeepsInv DEF AsksCash
<1>3. CASE AsksPositions(account.positions)
  <2>1. CASE MarkAccount(account.positions)
    BY <2>1, NothingToKeep DEF MarkAccount, At, Sizing, orderVars, InHand
  <2>2. QED
    BY <1>1, <1>3, <2>1, ListStopsKeepsInv, SizingKeepsInv DEF AsksPositions
<1>4. CASE AsksShares(shares(Name))
  <2>1. CASE LeaveAlone(shares(Name)) \/ StartSizing(shares(Name))
    BY <1>1, <2>1, NothingSent
    DEF LeaveAlone, StartSizing, LookedAt, At, Passed, scanVars, orderVars, InHand
  <2>2. QED
    BY <1>1, <1>4, <2>1, SignalExitKeepsInv, SizingKeepsInv DEF AsksShares
<1>5. CASE AsksNothing
  <2>1. CASE (\E q \in Quotes : BeginScan(q)) \/ EndScan
    BY <2>1, NothingToKeep
    DEF BeginScan, EndScan, ScanOver, At, Sizing, orderVars, InHand
  <2>2. CASE SkipName \/ NoRoom
    BY <1>1, <2>2, NothingSent DEF SkipName, NoRoom, At, Passed, Sizing, orderVars, InHand
  <2>3. CASE StopsDone
    <3>1. /\ InHand = NoCall /\ InHand' = NoCall /\ phase = "stops" /\ phase' = "signals"
          /\ DOMAIN todo = {} /\ stopped' = stopped /\ dry_run' = dry_run
      BY <2>3 DEF StopsDone, At, scanVars, orderVars, InHand
    <3>2. ~ dry_run => \A s \in stopped : shares(s) = 0
      BY <3>1 DEF PaperInv, StopsInv
    <3>3. QED
      BY <1>1, <3>1, <3>2 DEF StopsInv, EntryInv, Sizing, shares
  <2>4. QED
    BY <1>1, <1>5, <2>1, <2>2, <2>3, StopExitKeepsInv, HandOverKeepsInv DEF AsksNothing
<1>6. QED
  BY <1>2, <1>3, <1>4, <1>5 DEF Scan

LEMMA InitPaperInv == Init => PaperInv
<1> SUFFICES ASSUME Init PROVE PaperInv
  OBVIOUS
<1>1. HoldingsInLots
  BY NoLots DEF Init, BrokerInit, NoPosition, HoldingsInLots, shares
<1>2. StopsInv /\ EntryInv
  BY DEF Init, EngineInit, StopsInv, EntryInv, Sizing, InHand
<1>3. QED
  BY <1>1, <1>2, InitTypes DEF PaperInv

LEMMA StepPaperInv == PaperInv /\ [Next]_vars => PaperInv'
<1> SUFFICES ASSUME PaperInv, [Next]_vars PROVE PaperInv'
  OBVIOUS
<1>1. Types' /\ HoldingsInLots'
  BY StepTypes, StepLots DEF PaperInv
<1>2. CASE SweepFails
  BY <1>1, <1>2, NothingToKeep
  DEF SweepFails, ScanFails, ScanOver, At, InHand, Sizing, PaperInv
<1>3. CASE Throw \/ Finished \/ UNCHANGED vars
  <2>1. UNCHANGED <<account, dry_run, phase, scanVars, InHand>>
    BY <1>3 DEF Throw, Kill, Finished, vars, brokerVars, engineVars, orderVars, InHand
  <2>2. QED
    BY <1>1, <2>1 DEF PaperInv, StopsInv, EntryInv, FitsCap, shares, Name, scanVars
<1>4. QED
  BY <1>1, <1>2, <1>3, ScanKeepsInv, SettleKeepsInv DEF Next, PaperInv

LEMMA PaperInvAlways == Spec => []PaperInv
BY InitPaperInv, StepPaperInv, PTL DEF Spec

\* A stop that was found is an exit that was made, for any universe, lot size, prices
\* and limits.
THEOREM StoppedNamesLeave == Spec => []StoppedNamesAreOut
<1>1. PaperInv => StoppedNamesAreOut
  BY DEF PaperInv, StopsInv, StoppedNamesAreOut
<1>2. QED
  BY <1>1, PaperInvAlways, PTL

\* An entry leaves its name within its share of the equity the scan marked, over any
\* number of scans: the three queries max_buy_shares makes see one and the same account.
THEOREM PaperEntriesKeepToTheNameCap == Spec => EntryWithinNameCap
<1>1. ASSUME PaperInv, [Next]_vars
      PROVE  [\A s \in Symbols : shares(s)' > shares(s) =>
                shares(s)' * quotes[s].price * Scale <= MaxPositionWeight * equity]_vars
  <2>1. CASE Settle
    <3>1. ASSUME NEW s \in Symbols, shares(s)' > shares(s)
          PROVE  shares(s)' * quotes[s].price * Scale <= MaxPositionWeight * equity
      <4>1. call \in LiveOrder /\ shares(s) \in Nat
        BY <1>1, <2>1, SettleEffect, SharesType DEF PaperInv, Types
      <4>2. shares(s)' = IF s = call.symbol /\ Accepted(AsPlaced(call))
                         THEN IF call.side = "buy" THEN shares(s) + call.shares
                              ELSE shares(s) - call.shares
                         ELSE shares(s)
        BY <1>1, <2>1, SettleEffect DEF PaperInv
      <4>3. s = call.symbol /\ Accepted(AsPlaced(call))
        BY <3>1, <4>1, <4>2
      <4>4. call.shares \in Int /\ call.shares > 0
        BY <4>1, <4>3 DEF Accepted, WholeLots, AsPlaced, LiveOrder
      <4>5. call.side = "buy" /\ shares(s)' = shares(s) + call.shares
        BY <3>1, <4>1, <4>2, <4>3, <4>4
      <4>6. FitsCap(s, call.shares)
        <5>1. InHand = call /\ call # NoCall
          BY <1>1, <2>1 DEF PaperInv, Types, Typed, ScanShape, InHand, Settle
        <5>2. QED
          BY <1>1, <4>3, <4>5, <5>1 DEF PaperInv, EntryInv
      <4>7. QED
        BY <4>5, <4>6 DEF FitsCap
    <3>2. QED
      BY <3>1
  <2>2. CASE account' = account
    <3>1. ASSUME NEW s \in Symbols PROVE ~ (shares(s)' > shares(s))
      BY <1>1, <2>2, SharesType DEF shares, PaperInv, Types
    <3>2. QED
      BY <3>1
  <2>3. QED
    BY <1>1, <2>1, <2>2
    DEF Next, Scan, SweepFails, Throw, Finished, vars, brokerVars
<1>2. QED
  BY <1>1, PaperInvAlways, PTL DEF Spec, EntryWithinNameCap

=============================================================================
