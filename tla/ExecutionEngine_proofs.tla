----------------------- MODULE ExecutionEngine_proofs -----------------------
(***************************************************************************)
(* What a scan promises, proved for every broker: the engine's steps with  *)
(* any answer to a query, any return and any exception.                    *)
(***************************************************************************)
EXTENDS ExecutionEngine, Trading_proofs

\* A scan's own state hangs together: stops come from the list, the list from the
\* quotes, and what is being sized is a quoted name not stopped out.
ScanShape ==
  /\ phase # "done" => scans < MaxScans
  /\ DOMAIN todo \subseteq stopped
  /\ stopped \subseteq DOMAIN quotes
  /\ phase # "stops" => DOMAIN todo = {}
  /\ phase \in Sizing =>
       turn <= Len(Universe) /\ Name \in DOMAIN quotes \ stopped
  /\ phase \in {"book", "fund"} => quotes[Name].price > 0
  /\ cleared # NoCall =>
       /\ call = NoCall
       /\ phase = IF cleared.reason = "stop_loss" THEN "stops" ELSE "signals"

\* The names this scan may already have sent an order for.
Handled ==
  IF phase = "stops" THEN stopped \ DOMAIN todo
  ELSE IF phase \in {"signals"} \cup Sizing
       THEN stopped \cup {Universe[k] : k \in 1 .. turn - 1}
       ELSE {}

\* The stops taken off the list.
OffTheList == stopped \ DOMAIN todo

OrderedNow == {i \in 1 .. Len(journal) : journal[i].scan = scans}

JournalFollowsScan ==
  /\ \A i \in 1 .. Len(journal) : journal[i].scan <= scans
  /\ \A i \in OrderedNow : journal[i].order.symbol \in Handled
  /\ cleared # NoCall =>
       /\ cleared.symbol \in Handled
       /\ \A i \in OrderedNow : journal[i].order.symbol # cleared.symbol

\* The last step of a stop on its way to the broker.
StopCleared(s) == cleared # NoCall /\ cleared.symbol = s /\ cleared.reason = "stop_loss"

\* Every stop taken off the list has been sent, or is past its check.
StopsOffTheListSent ==
  ~ dry_run =>
    \A s \in OffTheList :
      \/ StopCleared(s)
      \/ \E i \in OrderedNow :
           journal[i].order.symbol = s /\ journal[i].order.reason = "stop_loss"

Counted == {i \in 1 .. Len(journal) : journal[i].counted}

\* The risk manager's count is the number of calls that returned; a call in flight is
\* the journal's last entry and not among them; a purchase past its check still has
\* room below the cap.
CountFollowsJournal ==
  /\ dry_run \/ phase = "new" => journal = <<>>
  /\ ~ dry_run => risk.orders_today = Cardinality(Counted)
  /\ call # NoCall => journal # <<>> /\ ~ journal[Len(journal)].counted
  /\ ~ dry_run /\ cleared # NoCall /\ cleared.side = "buy" =>
       risk.orders_today < MaxOrdersPerDay

EngineInv ==
  /\ EngineTypeOK
  /\ ScanShape
  /\ JournalFollowsScan
  /\ OneOrderPerNamePerScan
  /\ StopsOffTheListSent
  /\ CountFollowsJournal
  /\ BuysWithinOrderCap

-----------------------------------------------------------------------------
(* Types *)

LEMMA SubmitType ==
  ASSUME EngineTypeOK, NEW order \in LiveOrder, Submit(order)
  PROVE  /\ risk' \in RiskState
         /\ cleared' \in {order, NoCall} /\ cleared' \in LiveOrder \cup {NoCall}
         /\ call' \in LiveOrder \cup {NoCall}
         /\ journal' \in Seq(Entry)
BY DEF EngineTypeOK, Submit

LEMMA HandOverType ==
  ASSUME EngineTypeOK, HandOver
  PROVE  risk' \in RiskState /\ call' \in LiveOrder \cup {NoCall} /\ journal' \in Seq(Entry)
<1>1. risk \in RiskState /\ call \in LiveOrder \cup {NoCall} /\ journal \in Seq(Entry)
      /\ scans \in Nat /\ cleared \in LiveOrder
  BY MaxScansAssumption DEF EngineTypeOK, HandOver
<1>2. RecordOrder(risk) \in RiskState
  BY <1>1, RiskStep
<1>3. [order |-> cleared, scan |-> scans, counted |-> FALSE] \in Entry
  BY <1>1 DEF Entry
<1>4. Append(journal, [order |-> cleared, scan |-> scans, counted |-> FALSE]) \in Seq(Entry)
  BY <1>1, <1>3
<1>5. QED
  BY <1>1, <1>2, <1>4 DEF HandOver

LEMMA QuoteType ==
  ASSUME EngineTypeOK, NEW s \in DOMAIN quotes
  PROVE  s \in Symbols /\ quotes[s].price \in Nat /\ quotes[s].target \in Int
<1>1. quotes \in Quotes
  BY DEF EngineTypeOK
<1>2. DOMAIN quotes \subseteq Symbols /\ quotes \in [DOMAIN quotes -> [price : Nat, target : Int]]
  BY <1>1, QuotesAssumption
<1>3. quotes[s] \in [price : Nat, target : Int]
  BY <1>2
<1>4. QED
  BY <1>2, <1>3

LEMMA ExitOrderType ==
  ASSUME EngineTypeOK, NEW s \in DOMAIN quotes, NEW n \in Int,
         NEW reason \in {"stop_loss", "signal_exit"}
  PROVE  /\ ExitOrder(s, n, reason) \in LiveOrder
         /\ ExitOrder(s, n, reason).symbol = s /\ ExitOrder(s, n, reason).side = "sell"
         /\ ExitOrder(s, n, reason).reason = reason
BY QuoteType DEF ExitOrder, LiveOrder, Side

LEMMA EntryOrderType ==
  ASSUME EngineTypeOK, NEW s \in DOMAIN quotes, NEW n \in Int
  PROVE  [symbol |-> s, side |-> "buy", shares |-> n, price |-> quotes[s].price,
          reason |-> "signal"] \in LiveOrder
BY QuoteType DEF LiveOrder, Side

LEMMA AffordableInt ==
  ASSUME EngineTypeOK, NEW cash \in Int, Name \in DOMAIN quotes, quotes[Name].price > 0
  PROVE  Affordable(cash) \in Int
<1>1. quotes[Name].price \in Nat /\ room \in Int
  BY QuoteType DEF EngineTypeOK
<1>2. quotes[Name].price * LotSize \in Nat \ {0}
  BY <1>1, LotSizeAssumption
<1>3. Lower(room, cash) \in Int
  BY <1>1 DEF Lower
<1>4. Lower(room, cash) \div (quotes[Name].price * LotSize) \in Int
  BY <1>2, <1>3
<1>5. QED
  BY <1>4, LotSizeAssumption DEF Affordable, LotsOf

\* Neither a symbol nor an order mistaken for the absence of a call.
LEMMA NoCallIsNone == NoCall \notin LiveOrder
BY DEF NoCall, LiveOrder, Side

\* Counting the last entry changes nothing else of a journal.
LEMMA LastCountedType ==
  ASSUME NEW j \in Seq(Entry)
  PROVE  LET k == LastCounted(j) IN
         /\ k \in Seq(Entry) /\ Len(k) = Len(j)
         /\ \A i \in 1 .. Len(j) :
              /\ k[i].order = j[i].order /\ k[i].scan = j[i].scan
              /\ k[i].counted = (j[i].counted \/ i = Len(j))
<1> DEFINE n == Len(j)
<1> DEFINE k == LastCounted(j)
<1>1. ASSUME NEW e \in Entry
      PROVE  /\ [e EXCEPT !.counted = TRUE] \in Entry
             /\ [e EXCEPT !.counted = TRUE].order = e.order
             /\ [e EXCEPT !.counted = TRUE].scan = e.scan
             /\ [e EXCEPT !.counted = TRUE].counted
             /\ e.counted \in BOOLEAN
  BY DEF Entry
<1> DEFINE entry(i) == IF i = n THEN [j[i] EXCEPT !.counted = TRUE] ELSE j[i]
<1>2. n \in Nat /\ DOMAIN j = 1 .. n /\ \A i \in 1 .. n : j[i] \in Entry
  OBVIOUS
<1>3. k = [i \in 1 .. n |-> entry(i)]
  BY <1>2 DEF LastCounted
<1>4. ASSUME NEW i \in 1 .. n
      PROVE  /\ entry(i) \in Entry
             /\ entry(i).order = j[i].order /\ entry(i).scan = j[i].scan
             /\ entry(i).counted = (j[i].counted \/ i = n)
  <2>1. j[i] \in Entry
    BY <1>2
  <2>2. QED
    BY <2>1, <1>1
<1> HIDE DEF entry, k
<1>5. k \in [1 .. n -> Entry] /\ \A i \in 1 .. n : k[i] = entry(i)
  BY <1>3, <1>4
<1>6. k \in Seq(Entry) /\ Len(k) = n
  BY <1>5, <1>2
<1>7. QED
  BY <1>4, <1>5, <1>6 DEF k

Typed == EngineTypeOK /\ ScanShape

LEMMA InitTyped == EngineInit => Typed
<1> SUFFICES ASSUME EngineInit PROVE Typed
  OBVIOUS
<1>1. risk \in RiskState
  BY DEF EngineInit, NewRisk, RiskState
<1>2. Len(Universe) \in Nat /\ MaxScans \in Nat
  BY UniverseAssumption, MaxScansAssumption
<1>3. EngineTypeOK
  BY <1>1, <1>2 DEF EngineInit, EngineTypeOK
<1>4. QED
  BY <1>3, MaxScansAssumption DEF Typed, EngineInit, ScanShape, Sizing

LEMMA ScanOverTyped ==
  ASSUME Typed, phase \in InScan, ScanOver,
         risk' \in RiskState, dry_run' = dry_run, cleared' = NoCall,
         call' \in LiveOrder \cup {NoCall}, journal' \in Seq(Entry)
  PROVE  Typed'
<1>1. scans' \in 0 .. MaxScans /\ phase' \in {"idle", "done"}
  <2>1. scans < MaxScans
    BY DEF Typed, ScanShape, InScan, Queries, Sizing
  <2>2. QED
    BY <2>1, MaxScansAssumption DEF ScanOver, Typed, EngineTypeOK
<1>2. Len(Universe) \in Nat
  BY UniverseAssumption
<1>3. EngineTypeOK'
  BY <1>1, <1>2 DEF Typed, EngineTypeOK, ScanOver
<1>4. ScanShape'
  <2>1. phase' # "done" => scans' < MaxScans
    BY <1>1, MaxScansAssumption DEF ScanOver
  <2>2. QED
    BY <1>1, <2>1 DEF ScanOver, ScanShape, Sizing
<1>5. QED
  BY <1>3, <1>4 DEF Typed

LEMMA StepTyped == Typed /\ [EngineNext]_engineVars => Typed'
<1> SUFFICES ASSUME Typed, [EngineNext]_engineVars PROVE Typed'
  OBVIOUS
<1> USE DEF Typed, orderVars
<1>1. Len(Universe) \in Nat /\ MaxScans \in Nat /\ NoCall \in LiveOrder \cup {NoCall}
  BY UniverseAssumption, MaxScansAssumption
<1>2. /\ risk \in RiskState /\ journal \in Seq(Entry)
      /\ call \in LiveOrder \cup {NoCall} /\ cleared \in LiveOrder \cup {NoCall}
      /\ equity \in Int /\ room \in Int /\ turn \in 1 .. Len(Universe) + 1
  BY DEF EngineTypeOK
<1>3. CASE \E cash \in Int : AsksCash(cash)
  <2>1. PICK cash \in Int : AsksCash(cash)
    BY <1>3
  <2>2. CASE StartRun(cash)
    <3>1. risk' \in RiskState
      BY <2>2, <1>2, RiskStep DEF StartRun
    <3>2. QED
      BY <2>2, <3>1 DEF StartRun, At, scanVars, EngineTypeOK, ScanShape, Sizing
  <2>3. CASE ReadCash(cash)
    BY <2>3, <1>2 DEF ReadCash, At, scanVars, EngineTypeOK, ScanShape, InScan, Queries, Sizing
  <2>4. CASE SizeByCash(cash)
    <3>1. turn <= Len(Universe) /\ Name \in DOMAIN quotes \ stopped /\ call = NoCall
      BY <2>4 DEF SizeByCash, At, ScanShape, Sizing
    <3>2. /\ risk' \in RiskState /\ call' = NoCall /\ journal' \in Seq(Entry)
          /\ cleared' \in LiveOrder \cup {NoCall}
          /\ cleared' # NoCall => cleared'.reason = "signal"
      <4>1. CASE UNCHANGED <<risk, orderVars>>
        BY <2>4, <4>1, <1>2 DEF SizeByCash, At
      <4>2. CASE Affordable(cash) > 0
        <5> DEFINE order == [symbol |-> Name, side |-> "buy", shares |-> Affordable(cash),
                             price |-> quotes[Name].price, reason |-> "signal"]
        <5>1. Submit(order) \/ UNCHANGED <<risk, orderVars>>
          BY <2>4 DEF SizeByCash
        <5>2. Affordable(cash) \in Int
          <6>1. phase = "fund"
            BY <2>4 DEF SizeByCash, At
          <6>2. quotes[Name].price > 0
            BY <6>1 DEF ScanShape
          <6>3. QED
            BY <3>1, <6>2, AffordableInt
        <5>3. order \in LiveOrder /\ order.reason = "signal"
          BY <3>1, <5>2, EntryOrderType
        <5> HIDE DEF order
        <5>4. Submit(order) => call' = call
          BY DEF Submit
        <5>5. QED
          BY <3>1, <5>1, <5>3, <5>4, <4>1, SubmitType
      <4>3. QED
        BY <2>4, <4>1, <4>2 DEF SizeByCash
    <3>3. turn' \in 1 .. Len(Universe) + 1 /\ phase' = "signals" /\ room' \in Int
      BY <2>4, <3>1, <1>1, <1>2 DEF SizeByCash, Passed
    <3>4. DOMAIN todo = {}
      BY <2>4 DEF SizeByCash, At, ScanShape, Sizing
    <3>5. QED
      BY <2>4, <3>2, <3>3, <3>4
      DEF SizeByCash, At, EngineTypeOK, ScanShape, InScan, Sizing
  <2>5. QED
    BY <2>1, <2>2, <2>3, <2>4 DEF AsksCash
<1>4. CASE \E positions \in [Symbols -> Position] : AsksPositions(positions)
  <2>1. PICK positions \in [Symbols -> Position] : AsksPositions(positions)
    BY <1>4
  <2>2. CASE MarkAccount(positions)
    <3>1. \A s \in DOMAIN Prices : Prices[s] \in Int
      BY QuoteType DEF Prices
    <3>2. MarketValue(positions, Prices) \in Int
      BY <3>1, MarketValueInt
    <3>3. equity' \in Int
      BY <2>2, <3>2, <1>2 DEF MarkAccount
    <3>4. risk' \in RiskState
      BY <2>2, <3>3, <1>2, RiskStep DEF MarkAccount
    <3>5. QED
      BY <2>2, <3>3, <3>4
      DEF MarkAccount, At, EngineTypeOK, ScanShape, InScan, Queries, Sizing
  <2>3. CASE ListStops(positions)
    <3>1. stopped' \subseteq DOMAIN quotes /\ quotes' = quotes
      BY <2>3 DEF ListStops, StopsAmong
    <3>2. \A s \in DOMAIN quotes : s \in Symbols
      BY QuoteType
    <3>3. DOMAIN todo' = stopped' /\ todo' \in [DOMAIN todo' -> Nat]
      <4>1. \A s \in stopped' : positions[s].shares \in Nat
        BY <3>1, <3>2 DEF Position
      <4>2. QED
        BY <2>3, <4>1 DEF ListStops
    <3>4. QED
      BY <2>3, <3>1, <3>2, <3>3
      DEF ListStops, At, EngineTypeOK, ScanShape, InScan, Queries, Sizing
  <2>4. CASE SizeByBook(positions)
    <3>1. turn <= Len(Universe) /\ Name \in DOMAIN quotes \ stopped
      BY <2>4 DEF SizeByBook, At, ScanShape, Sizing
    <3>2. quotes[Name].price \in Int
      BY <3>1, QuoteType
    <3>3. GrossRoom(equity, positions, Name, quotes[Name].price) \in Int
      BY <3>2, <1>2, GrossRoomInt
    <3>4. room' \in Int
      BY <2>4, <3>3, <1>2 DEF SizeByBook, Lower
    <3>5. QED
      BY <2>4, <3>4, <3>1
      DEF SizeByBook, At, EngineTypeOK, ScanShape, InScan, Sizing, Name
  <2>5. QED
    BY <2>1, <2>2, <2>3, <2>4 DEF AsksPositions
<1>5. CASE \E held \in Nat : AsksShares(held)
  <2>1. PICK held \in Nat : AsksShares(held)
    BY <1>5
  <2>2. CASE LeaveAlone(held)
    BY <2>2, <1>1, <1>2
    DEF LeaveAlone, LookedAt, Passed, At, EngineTypeOK, ScanShape, InScan, Sizing
  <2>3. CASE SignalExit(held)
    <3>1. turn <= Len(Universe) /\ Name \in DOMAIN quotes /\ DOMAIN todo = {}
      BY <2>3 DEF SignalExit, LookedAt, At, ScanShape
    <3>2. /\ ExitOrder(Name, held, "signal_exit") \in LiveOrder
          /\ ExitOrder(Name, held, "signal_exit").reason = "signal_exit"
      BY <3>1, ExitOrderType
    <3>3. /\ risk' \in RiskState /\ call' = NoCall /\ journal' \in Seq(Entry)
          /\ cleared' \in LiveOrder \cup {NoCall}
          /\ cleared' # NoCall => cleared'.reason = "signal_exit"
      BY <2>3, <3>2, SubmitType DEF SignalExit, LookedAt, At, Submit
    <3>4. turn' \in 1 .. Len(Universe) + 1 /\ phase' = "signals"
      BY <2>3, <3>1, <1>1, <1>2 DEF SignalExit, Passed
    <3>5. phase = "signals"
      BY <2>3 DEF SignalExit, LookedAt, At
    <3>6. QED
      BY <2>3, <3>1, <3>3, <3>4, <3>5
      DEF SignalExit, EngineTypeOK, ScanShape, InScan, Sizing
  <2>4. CASE StartSizing(held)
    BY <2>4
    DEF StartSizing, LookedAt, At, scanVars, EngineTypeOK, ScanShape, InScan, Sizing, Name
  <2>5. CASE SizeByName(held)
    <3>1. turn <= Len(Universe) /\ Name \in DOMAIN quotes \ stopped
      BY <2>5 DEF SizeByName, At, ScanShape, Sizing
    <3>2. quotes[Name].price \in Int
      BY <3>1, QuoteType
    <3>3. room' \in Int
      <4>1. held \in Int
        OBVIOUS
      <4>2. NameRoom(equity, held, quotes[Name].price) \in Int
        BY <4>1, <3>2, <1>2, NameRoomInt, Zenon
      <4>3. QED
        BY <2>5, <4>2 DEF SizeByName
    <3>4. QED
      BY <2>5, <3>1, <3>3
      DEF SizeByName, At, EngineTypeOK, ScanShape, InScan, Sizing, Name
  <2>6. QED
    BY <2>1, <2>2, <2>3, <2>4, <2>5 DEF AsksShares
<1>6. CASE AsksNothing
  <2>1. CASE \E q \in Quotes : BeginScan(q)
    <3>1. PICK q \in Quotes : BeginScan(q)
      BY <2>1
    <3>2. DOMAIN todo = {}
      BY <3>1 DEF BeginScan, At, ScanShape
    <3>3. QED
      BY <3>1, <3>2 DEF BeginScan, At, EngineTypeOK, ScanShape, InScan, Queries, Sizing
  <2>2. CASE \E s \in Symbols : StopExit(s)
    <3>1. PICK s \in Symbols : StopExit(s)
      BY <2>2
    <3>2. s \in DOMAIN todo /\ s \in DOMAIN quotes /\ todo[s] \in Int
      BY <3>1 DEF StopExit, ScanShape, EngineTypeOK
    <3>3. /\ ExitOrder(s, todo[s], "stop_loss") \in LiveOrder
          /\ ExitOrder(s, todo[s], "stop_loss").reason = "stop_loss"
      BY <3>2, ExitOrderType
    <3>4. /\ risk' \in RiskState /\ call' = NoCall /\ journal' \in Seq(Entry)
          /\ cleared' \in LiveOrder \cup {NoCall}
          /\ cleared' # NoCall => cleared'.reason = "stop_loss"
      BY <3>1, <3>3, SubmitType DEF StopExit, At, Submit
    <3>5. /\ DOMAIN todo' \subseteq stopped /\ DOMAIN todo' \subseteq Symbols
          /\ todo' \in [DOMAIN todo' -> Nat]
      BY <3>1 DEF StopExit, ScanShape, EngineTypeOK
    <3>6. QED
      BY <3>1, <3>4, <3>5 DEF StopExit, At, EngineTypeOK, ScanShape, InScan, Sizing
  <2>3. CASE StopsDone
    BY <2>3 DEF StopsDone, At, scanVars, EngineTypeOK, ScanShape, InScan, Sizing
  <2>4. CASE SkipName
    BY <2>4, <1>1, <1>2
    DEF SkipName, Passed, At, EngineTypeOK, ScanShape, InScan, Sizing
  <2>5. CASE NoRoom
    BY <2>5, <1>1, <1>2
    DEF NoRoom, Passed, At, EngineTypeOK, ScanShape, InScan, Sizing
  <2>6. CASE EndScan
    <3>1. phase \in InScan
      BY <2>6 DEF EndScan, At, InScan
    <3>2. QED
      BY <2>6, <3>1, <1>2, ScanOverTyped DEF EndScan, At
  <2>7. CASE HandOver
    <3>1. risk' \in RiskState /\ call' \in LiveOrder \cup {NoCall} /\ journal' \in Seq(Entry)
      BY <2>7, HandOverType
    <3>2. QED
      BY <2>7, <3>1, <1>1 DEF HandOver, scanVars, EngineTypeOK, ScanShape, Name
  <2>8. QED
    BY <1>6, <2>1, <2>2, <2>3, <2>4, <2>5, <2>6, <2>7 DEF AsksNothing
<1>7. CASE CallReturns
  <2>1. risk' \in RiskState
    BY <1>7, <1>2, RiskStep DEF CallReturns
  <2>2. journal' \in Seq(Entry)
    BY <1>7, <1>2, LastCountedType DEF CallReturns
  <2>3. QED
    BY <1>7, <2>1, <2>2, <1>1
    DEF CallReturns, scanVars, EngineTypeOK, ScanShape, Name
<1>8. CASE ScanFails
  BY <1>8, <1>1, <1>2, ScanOverTyped DEF ScanFails, CanRaise
<1>9. CASE Kill
  <2>1. risk' \in RiskState
    BY <1>9, <1>2, RiskStep DEF Kill
  <2>2. QED
    BY <1>9, <2>1 DEF Kill, scanVars, EngineTypeOK, ScanShape, Name
<1>10. CASE UNCHANGED engineVars
  BY <1>10 DEF engineVars, scanVars, EngineTypeOK, ScanShape, Name
<1>11. CASE StartFails
  BY <1>11 DEF StartFails, At, scanVars, EngineTypeOK, ScanShape, Sizing
<1>12. QED
  BY <1>3, <1>4, <1>5, <1>6, <1>7, <1>8, <1>9, <1>10, <1>11 DEF EngineNext

-----------------------------------------------------------------------------
(* What a step may do to the journal, and to the order on its way there. *)

Clears(order) ==
  /\ cleared = NoCall /\ cleared' = order
  /\ call = NoCall /\ call' = NoCall /\ journal' = journal
  /\ risk' = risk /\ scans' = scans /\ phase # "new"
  /\ order.side = "buy" => CanTrade(risk)
  /\ order.symbol \in Handled' \ Handled /\ Handled \subseteq Handled'
  /\ \A s \in OffTheList' :
       s \in OffTheList \/ (s = order.symbol /\ order.reason = "stop_loss")

HandsOver ==
  /\ cleared \in LiveOrder /\ cleared' = NoCall
  /\ call = NoCall /\ call' = cleared
  /\ journal' = Append(journal, [order |-> cleared, scan |-> scans, counted |-> FALSE])
  /\ risk' = risk /\ scans' = scans /\ ~ dry_run /\ phase # "new"
  /\ Handled' = Handled /\ OffTheList' = OffTheList

Returns ==
  /\ call # NoCall /\ call' = NoCall
  /\ cleared = NoCall /\ cleared' = NoCall
  /\ journal' = LastCounted(journal)
  /\ risk'.orders_today = risk.orders_today + 1
  /\ scans' = scans /\ Handled' = Handled /\ OffTheList' = OffTheList

Quiet ==
  /\ call' \in {call, NoCall} /\ journal' = journal
  /\ \/ cleared' = NoCall /\ (dry_run \/ cleared = NoCall)
     \/ cleared' = cleared /\ scans' = scans
  /\ \/ dry_run
     \/ risk'.orders_today = risk.orders_today
     \/ phase = "new" /\ risk'.orders_today = 0
  /\ \/ scans' = scans /\ Handled \subseteq Handled'
     \/ scans' = scans + 1
  /\ OffTheList' = {} \/ (scans' = scans /\ (dry_run \/ OffTheList' = OffTheList))

Kinds == (\E order \in LiveOrder : Clears(order)) \/ HandsOver \/ Returns \/ Quiet

LEMMA SubmitKinds ==
  ASSUME Typed, NEW order \in LiveOrder, Submit(order), cleared = NoCall, call = NoCall,
         phase # "new", scans' = scans,
         order.symbol \in Handled' \ Handled, Handled \subseteq Handled',
         \A s \in OffTheList' :
           s \in OffTheList \/ (s = order.symbol /\ order.reason = "stop_loss"),
         order.side = "buy" => OffTheList' = OffTheList
  PROVE  Kinds
<1>1. CASE Blocked(order)
  <2>1. /\ risk' = risk /\ call' = call /\ journal' = journal /\ cleared' = NoCall
        /\ order.side = "buy"
    BY <1>1 DEF Submit, Blocked
  <2>2. Quiet
    BY <2>1 DEF Quiet
  <2>3. QED
    BY <2>2 DEF Kinds
<1>2. CASE ~ Blocked(order)
  <2>1. Clears(order)
    BY <1>2 DEF Submit, Clears, Blocked
  <2>2. QED
    BY <2>1 DEF Kinds
<1>3. QED
  BY <1>1, <1>2

LEMMA HandOverKinds ==
  ASSUME Typed, HandOver
  PROVE  HandsOver \/ Quiet
<1>1. /\ cleared \in LiveOrder /\ call = NoCall /\ phase # "new"
  BY DEF HandOver, Typed, EngineTypeOK, ScanShape
<1>2. /\ scans' = scans /\ Handled' = Handled /\ OffTheList' = OffTheList
      /\ cleared' = NoCall
  BY DEF HandOver, scanVars, Handled, OffTheList
<1>3. CASE dry_run
  BY <1>1, <1>2, <1>3 DEF HandOver, Quiet
<1>4. CASE ~ dry_run
  BY <1>1, <1>2, <1>4 DEF HandOver, HandsOver
<1>5. QED
  BY <1>3, <1>4

LEMMA StepKinds ==
  ASSUME Typed, [EngineNext]_engineVars
  PROVE  Kinds
<1> USE DEF Typed, orderVars
<1>1. Len(Universe) \in Nat /\ turn \in 1 .. Len(Universe) + 1 /\ risk \in RiskState
  BY UniverseAssumption DEF EngineTypeOK
<1>2. \A i, j \in 1 .. Len(Universe) : Universe[i] = Universe[j] => i = j
  BY UniverseAssumption
<1>3. phase # "stops" => DOMAIN todo = {}
  BY DEF ScanShape
<1>4. ASSUME turn \in 1 .. Len(Universe), Name \notin stopped, turn' = turn + 1,
             phase \in {"signals"} \cup Sizing, phase' = "signals",
             stopped' = stopped
      PROVE  Name \in Handled' \ Handled /\ Handled \subseteq Handled'
  <2>1. /\ Handled = stopped \cup {Universe[k] : k \in 1 .. turn - 1}
        /\ Handled' = stopped \cup {Universe[k] : k \in 1 .. turn}
    BY <1>4, <1>1 DEF Handled, Sizing
  <2>2. Name \notin {Universe[k] : k \in 1 .. turn - 1}
    BY <1>4, <1>2, <1>1 DEF Name
  <2>3. QED
    BY <2>1, <2>2, <1>4, <1>1 DEF Name
<1>5. ASSUME turn' = turn + 1, phase \in {"signals"} \cup Sizing, phase' = "signals",
             stopped' = stopped
      PROVE  Handled \subseteq Handled'
  BY <1>5, <1>1 DEF Handled, Sizing
<1>6. CASE \E cash \in Int : AsksCash(cash)
  <2>1. PICK cash \in Int : AsksCash(cash)
    BY <1>6
  <2>2. CASE StartRun(cash)
    <3>1. risk'.orders_today = 0
      BY <2>2, <1>1, RiskStep DEF StartRun
    <3>2. Quiet
      BY <2>2, <3>1 DEF StartRun, At, scanVars, Quiet, Handled, OffTheList, Sizing
    <3>3. QED
      BY <3>2 DEF Kinds
  <2>3. CASE ReadCash(cash)
    <3>1. Quiet
      BY <2>3 DEF ReadCash, At, Quiet, Handled, OffTheList, Sizing
    <3>2. QED
      BY <3>1 DEF Kinds
  <2>4. CASE SizeByCash(cash)
    <3>1. /\ turn \in 1 .. Len(Universe) /\ Name \in DOMAIN quotes \ stopped
          /\ phase \in {"signals"} \cup Sizing /\ phase' = "signals" /\ phase = "fund"
          /\ turn' = turn + 1 /\ stopped' = stopped /\ todo' = todo
          /\ cleared = NoCall /\ call = NoCall /\ scans' = scans /\ dry_run' = dry_run
      BY <2>4, <1>1 DEF SizeByCash, At, ScanShape, Sizing, Passed
    <3>2. Name \in Handled' \ Handled /\ Handled \subseteq Handled'
      BY <3>1, <1>4
    <3>3. OffTheList' = OffTheList
      BY <3>1 DEF OffTheList
    <3>4. CASE UNCHANGED <<risk, orderVars>>
      <4>1. Quiet
        BY <3>1, <3>2, <3>3, <3>4 DEF Quiet
      <4>2. QED
        BY <4>1 DEF Kinds
    <3> DEFINE order == [symbol |-> Name, side |-> "buy", shares |-> Affordable(cash),
                         price |-> quotes[Name].price, reason |-> "signal"]
    <3>5. CASE Submit(order)
      <4>1. quotes[Name].price > 0
        BY <3>1 DEF ScanShape
      <4>2. Affordable(cash) \in Int
        BY <3>1, <4>1, AffordableInt
      <4>3. order \in LiveOrder /\ order.symbol = Name
        BY <3>1, <4>2, EntryOrderType
      <4> HIDE DEF order
      <4>4. QED
        BY <3>1, <3>2, <3>3, <3>5, <4>3, SubmitKinds
    <3>6. QED
      BY <2>4, <3>4, <3>5 DEF SizeByCash
  <2>5. QED
    BY <2>1, <2>2, <2>3, <2>4 DEF AsksCash
<1>7. CASE \E positions \in [Symbols -> Position] : AsksPositions(positions)
  <2>1. PICK positions \in [Symbols -> Position] : AsksPositions(positions)
    BY <1>7
  <2>2. CASE MarkAccount(positions)
    <3>1. risk'.orders_today = risk.orders_today
      BY <2>2, <1>1 DEF MarkAccount, UpdateDailyLoss, RiskState
    <3>2. Quiet
      BY <2>2, <3>1 DEF MarkAccount, At, Quiet, Handled, OffTheList, Sizing
    <3>3. QED
      BY <3>2 DEF Kinds
  <2>3. CASE ListStops(positions)
    <3>1. OffTheList' = {}
      BY <2>3 DEF ListStops, OffTheList
    <3>2. Quiet
      BY <2>3, <3>1 DEF ListStops, At, Quiet, Handled, Sizing
    <3>3. QED
      BY <3>2 DEF Kinds
  <2>4. CASE SizeByBook(positions)
    <3>1. Quiet
      BY <2>4 DEF SizeByBook, At, Quiet, Handled, OffTheList, Sizing
    <3>2. QED
      BY <3>1 DEF Kinds
  <2>5. QED
    BY <2>1, <2>2, <2>3, <2>4 DEF AsksPositions
<1>8. CASE \E held \in Nat : AsksShares(held)
  <2>1. PICK held \in Nat : AsksShares(held)
    BY <1>8
  <2>2. CASE LeaveAlone(held)
    <3>1. Handled \subseteq Handled'
      BY <2>2, <1>5 DEF LeaveAlone, LookedAt, At, Passed
    <3>2. Quiet
      BY <2>2, <3>1 DEF LeaveAlone, LookedAt, At, Quiet, OffTheList
    <3>3. QED
      BY <3>2 DEF Kinds
  <2>3. CASE SignalExit(held)
    <3>1. /\ turn \in 1 .. Len(Universe) /\ Name \in DOMAIN quotes \ stopped
          /\ phase = "signals" /\ phase' = "signals"
          /\ turn' = turn + 1 /\ stopped' = stopped /\ todo' = todo
          /\ cleared = NoCall /\ call = NoCall /\ scans' = scans
      BY <2>3, <1>1 DEF SignalExit, LookedAt, At, Passed
    <3>2. Name \in Handled' \ Handled /\ Handled \subseteq Handled'
      BY <3>1, <1>4
    <3>3. OffTheList' = OffTheList
      BY <3>1 DEF OffTheList
    <3> DEFINE order == ExitOrder(Name, held, "signal_exit")
    <3>4. order \in LiveOrder /\ order.symbol = Name
      BY <3>1, ExitOrderType
    <3>5. Submit(order)
      BY <2>3 DEF SignalExit
    <3> HIDE DEF order
    <3>6. QED
      BY <3>1, <3>2, <3>3, <3>4, <3>5, SubmitKinds
  <2>4. CASE StartSizing(held)
    <3>1. Quiet
      BY <2>4 DEF StartSizing, LookedAt, At, scanVars, Quiet, Handled, OffTheList, Sizing
    <3>2. QED
      BY <3>1 DEF Kinds
  <2>5. CASE SizeByName(held)
    <3>1. Quiet
      BY <2>5 DEF SizeByName, At, Quiet, Handled, OffTheList, Sizing
    <3>2. QED
      BY <3>1 DEF Kinds
  <2>6. QED
    BY <2>1, <2>2, <2>3, <2>4, <2>5 DEF AsksShares
<1>9. CASE AsksNothing
  <2>1. CASE \E q \in Quotes : BeginScan(q)
    <3>1. Quiet
      BY <2>1 DEF BeginScan, At, Quiet, Handled, OffTheList, Sizing
    <3>2. QED
      BY <3>1 DEF Kinds
  <2>2. CASE \E s \in Symbols : StopExit(s)
    <3>1. PICK s \in Symbols : StopExit(s)
      BY <2>2
    <3>2. /\ s \in DOMAIN todo /\ s \in stopped /\ s \in DOMAIN quotes /\ todo[s] \in Int
          /\ phase = "stops" /\ phase' = "stops" /\ stopped' = stopped
          /\ DOMAIN todo' = DOMAIN todo \ {s}
          /\ cleared = NoCall /\ call = NoCall /\ scans' = scans
      BY <3>1 DEF StopExit, At, ScanShape, EngineTypeOK
    <3>3. s \in Handled' \ Handled /\ Handled \subseteq Handled'
      BY <3>2 DEF Handled
    <3>4. \A x \in OffTheList' : x \in OffTheList \/ x = s
      BY <3>2 DEF OffTheList
    <3> DEFINE order == ExitOrder(s, todo[s], "stop_loss")
    <3>5. /\ order \in LiveOrder /\ order.symbol = s /\ order.reason = "stop_loss"
          /\ order.side = "sell"
      BY <3>2, ExitOrderType
    <3>6. Submit(order)
      BY <3>1 DEF StopExit
    <3> HIDE DEF order
    <3>7. QED
      BY <3>2, <3>3, <3>4, <3>5, <3>6, SubmitKinds
  <2>3. CASE StopsDone
    <3>1. Quiet
      BY <2>3 DEF StopsDone, At, scanVars, Quiet, Handled, OffTheList, Sizing
    <3>2. QED
      BY <3>1 DEF Kinds
  <2>4. CASE SkipName
    <3>1. Handled \subseteq Handled'
      BY <2>4, <1>5 DEF SkipName, At, Passed
    <3>2. Quiet
      BY <2>4, <3>1 DEF SkipName, At, Quiet, OffTheList
    <3>3. QED
      BY <3>2 DEF Kinds
  <2>5. CASE NoRoom
    <3>1. Handled \subseteq Handled'
      BY <2>5, <1>5 DEF NoRoom, At, Passed, Sizing
    <3>2. Quiet
      BY <2>5, <3>1 DEF NoRoom, At, Quiet, OffTheList
    <3>3. QED
      BY <3>2 DEF Kinds
  <2>6. CASE EndScan
    <3>1. Quiet
      BY <2>6 DEF EndScan, At, ScanOver, Quiet, OffTheList
    <3>2. QED
      BY <3>1 DEF Kinds
  <2>7. CASE HandOver
    BY <2>7, HandOverKinds DEF Kinds
  <2>8. QED
    BY <1>9, <2>1, <2>2, <2>3, <2>4, <2>5, <2>6, <2>7 DEF AsksNothing
<1>10. CASE CallReturns
  <2>1. risk'.orders_today = risk.orders_today + 1
    BY <1>10, <1>1 DEF CallReturns, RecordOrder, RiskState
  <2>2. Returns
    BY <1>10, <2>1 DEF CallReturns, scanVars, ScanShape, Returns, Handled, OffTheList
  <2>3. QED
    BY <2>2 DEF Kinds
<1>11. CASE ScanFails
  <2>1. Quiet
    BY <1>11 DEF ScanFails, CanRaise, ScanOver, Quiet, OffTheList
  <2>2. QED
    BY <2>1 DEF Kinds
<1>12. CASE Kill
  <2>1. risk'.orders_today = risk.orders_today
    BY <1>12, <1>1 DEF Kill, Killed, RiskState
  <2>2. Quiet
    BY <1>12, <2>1 DEF Kill, scanVars, Quiet, Handled, OffTheList
  <2>3. QED
    BY <2>2 DEF Kinds
<1>13. CASE UNCHANGED engineVars
  <2>1. Quiet
    BY <1>13 DEF engineVars, scanVars, Quiet, Handled, OffTheList
  <2>2. QED
    BY <2>1 DEF Kinds
<1>14. CASE StartFails
  <2>1. Quiet
    BY <1>14 DEF StartFails, At, scanVars, Quiet, Handled, OffTheList, Sizing
  <2>2. QED
    BY <2>1 DEF Kinds
<1>15. QED
  BY <1>6, <1>7, <1>8, <1>9, <1>10, <1>11, <1>12, <1>13, <1>14 DEF EngineNext

\* The parts of an engine's state no step takes back.
LEMMA StepLatches ==
  ASSUME Typed, [EngineNext]_engineVars
  PROVE  /\ dry_run' = dry_run
         /\ phase' = "new" => phase = "new"
         /\ phase # "new" /\ risk.halted => risk'.halted
<1>1. risk \in RiskState /\ risk' \in RiskState
  BY StepTyped DEF Typed, EngineTypeOK
<1>2. /\ \A order : Submit(order) => risk' = risk
      /\ HandOver => (risk.halted => risk'.halted)
  BY <1>1, RiskStep DEF Submit, HandOver, RecordOrder, RiskState
<1>3. ASSUME NEW cash \in Int, AsksCash(cash)
      PROVE  /\ dry_run' = dry_run /\ phase' # "new"
             /\ phase # "new" /\ risk.halted => risk'.halted
  BY <1>2, <1>3 DEF AsksCash, StartRun, ReadCash, SizeByCash, At, Passed
<1>4. ASSUME NEW positions, AsksPositions(positions)
      PROVE  /\ dry_run' = dry_run /\ phase' # "new"
             /\ phase # "new" /\ risk.halted => risk'.halted
  <2>1. MarkAccount(positions) => (risk.halted => risk'.halted)
    BY <1>1 DEF MarkAccount, UpdateDailyLoss, RiskState
  <2>2. QED
    BY <1>4, <2>1 DEF AsksPositions, MarkAccount, ListStops, SizeByBook
<1>5. ASSUME NEW held, AsksShares(held)
      PROVE  /\ dry_run' = dry_run /\ phase' # "new"
             /\ phase # "new" /\ risk.halted => risk'.halted
  BY <1>2, <1>5
  DEF AsksShares, LeaveAlone, SignalExit, StartSizing, SizeByName, Passed
<1>6. ASSUME AsksNothing
      PROVE  /\ dry_run' = dry_run /\ (phase' = "new" => phase = "new")
             /\ phase # "new" /\ risk.halted => risk'.halted
  BY <1>2, <1>6
  DEF AsksNothing, BeginScan, StopExit, StopsDone, SkipName, NoRoom, EndScan, ScanOver,
      Passed, At, HandOver
<1>7. ASSUME CallReturns \/ Kill
      PROVE  /\ dry_run' = dry_run /\ phase' = phase
             /\ risk.halted => risk'.halted
  <2>1. CallReturns => (risk.halted => risk'.halted)
    BY <1>1, RiskStep DEF CallReturns
  <2>2. QED
    BY <1>7, <2>1 DEF CallReturns, Kill
<1>8. ASSUME ScanFails \/ StartFails
      PROVE  dry_run' = dry_run /\ phase' # "new" /\ risk' = risk
  BY <1>8 DEF ScanFails, StartFails, ScanOver
<1>9. ASSUME UNCHANGED engineVars
      PROVE  dry_run' = dry_run /\ phase' = phase /\ risk' = risk
  BY <1>9 DEF engineVars
<1>10. QED
  BY <1>3, <1>4, <1>5, <1>6, <1>7, <1>8, <1>9 DEF EngineNext

-----------------------------------------------------------------------------
(* The journal's invariants *)

LEMMA AppendEntry ==
  ASSUME Typed, HandsOver
  PROVE  /\ Len(journal') = Len(journal) + 1 /\ Len(journal) \in Nat
         /\ \A i \in 1 .. Len(journal) : journal'[i] = journal[i]
         /\ journal'[Len(journal')] = [order |-> cleared, scan |-> scans, counted |-> FALSE]
BY DEF HandsOver, Typed, EngineTypeOK

OneEach == JournalFollowsScan /\ OneOrderPerNamePerScan

LEMMA StepOneEach ==
  ASSUME Typed, OneEach, [EngineNext]_engineVars
  PROVE  OneEach'
<1> USE DEF OneEach
<1> DEFINE n == Len(journal)
<1>1. scans \in Nat /\ n \in Nat /\ journal \in Seq(Entry)
  BY MaxScansAssumption DEF Typed, EngineTypeOK
<1>2. \A i \in 1 .. n : journal[i].scan = scans => journal[i].order.symbol \in Handled
  BY DEF JournalFollowsScan, OrderedNow
<1>3. CASE \E order \in LiveOrder : Clears(order)
  <2>1. PICK order \in LiveOrder : Clears(order)
    BY <1>3
  <2>2. /\ journal' = journal /\ scans' = scans /\ cleared' = order
        /\ order.symbol \in Handled' \ Handled /\ Handled \subseteq Handled'
    BY <2>1 DEF Clears
  <2>3. OrderedNow' = OrderedNow
    BY <2>2 DEF OrderedNow
  <2>4. \A i \in OrderedNow :
          journal[i].order.symbol \in Handled' /\ journal[i].order.symbol # order.symbol
    BY <1>2, <2>2 DEF OrderedNow
  <2>5. QED
    BY <2>2, <2>3, <2>4 DEF JournalFollowsScan, OneOrderPerNamePerScan
<1>4. CASE HandsOver
  <2>1. /\ Len(journal') = n + 1 /\ scans' = scans
        /\ \A i \in 1 .. n : journal'[i] = journal[i]
        /\ journal'[n + 1].scan = scans /\ journal'[n + 1].order = cleared
    BY <1>4, AppendEntry DEF HandsOver
  <2>2. /\ cleared # NoCall /\ cleared' = NoCall /\ Handled' = Handled
        /\ cleared.symbol \in Handled
        /\ \A i \in 1 .. n :
             journal[i].scan = scans => journal[i].order.symbol # cleared.symbol
    BY <1>4, NoCallIsNone DEF HandsOver, JournalFollowsScan, OrderedNow
  <2>3. \A i \in 1 .. n + 1 : i \in 1 .. n \/ i = n + 1
    BY <1>1
  <2>4. JournalFollowsScan'
    <3>1. \A i \in 1 .. n + 1 : journal'[i].scan <= scans'
      BY <1>1, <2>1, <2>3 DEF JournalFollowsScan
    <3>2. \A i \in 1 .. n + 1 :
            journal'[i].scan = scans' => journal'[i].order.symbol \in Handled'
      BY <1>2, <2>1, <2>2, <2>3
    <3>3. QED
      BY <2>1, <2>2, <3>1, <3>2 DEF JournalFollowsScan, OrderedNow
  <2>5. OneOrderPerNamePerScan'
    <3>1. SUFFICES ASSUME NEW i \in 1 .. n + 1, NEW j \in 1 .. n + 1,
                          journal'[i].scan = journal'[j].scan,
                          journal'[i].order.symbol = journal'[j].order.symbol
                   PROVE  i = j
      BY <2>1 DEF OneOrderPerNamePerScan
    <3>2. CASE i \in 1 .. n /\ j \in 1 .. n
      BY <3>1, <3>2, <2>1 DEF OneOrderPerNamePerScan
    <3>3. CASE i \in 1 .. n /\ j = n + 1
      BY <3>1, <3>3, <2>1, <2>2
    <3>4. CASE i = n + 1 /\ j \in 1 .. n
      BY <3>1, <3>4, <2>1, <2>2
    <3>5. QED
      BY <2>3, <3>2, <3>3, <3>4
  <2>6. QED
    BY <2>4, <2>5
<1>5. CASE Returns
  <2>1. /\ Len(journal') = Len(journal) /\ scans' = scans /\ Handled' = Handled
        /\ cleared' = NoCall
        /\ \A i \in 1 .. Len(journal) :
             journal'[i].order = journal[i].order /\ journal'[i].scan = journal[i].scan
    BY <1>1, <1>5, LastCountedType DEF Returns
  <2>2. QED
    BY <2>1 DEF JournalFollowsScan, OrderedNow, OneOrderPerNamePerScan
<1>6. CASE Quiet
  <2>1. journal' = journal
    BY <1>6 DEF Quiet
  <2>2. OneOrderPerNamePerScan'
    BY <2>1 DEF OneOrderPerNamePerScan
  <2>3. cleared' = NoCall \/ (cleared' = cleared /\ scans' = scans)
    BY <1>6 DEF Quiet
  <2>4. CASE scans' = scans /\ Handled \subseteq Handled'
    BY <2>1, <2>2, <2>3, <2>4 DEF JournalFollowsScan, OrderedNow
  <2>5. CASE scans' = scans + 1
    <3>1. \A i \in 1 .. Len(journal) : journal[i].scan \in Nat
      <4>1. \A i \in 1 .. Len(journal) : journal[i] \in Entry
        BY <1>1
      <4>2. QED
        BY <4>1 DEF Entry
    <3>2. \A i \in 1 .. Len(journal) : journal[i].scan <= scans' /\ journal[i].scan # scans'
      BY <1>1, <2>5, <3>1 DEF JournalFollowsScan
    <3>3. cleared' = NoCall
      BY <1>1, <2>3, <2>5
    <3>4. QED
      BY <2>1, <2>2, <3>2, <3>3 DEF JournalFollowsScan, OrderedNow
  <2>6. QED
    BY <1>6, <2>4, <2>5 DEF Quiet
<1>7. QED
  BY <1>3, <1>4, <1>5, <1>6, StepKinds DEF Kinds

LEMMA StepStopsSent ==
  ASSUME Typed, StopsOffTheListSent, [EngineNext]_engineVars
  PROVE  StopsOffTheListSent'
<1> DEFINE Sent(s) == \E i \in 1 .. Len(journal) :
                        /\ journal[i].scan = scans
                        /\ journal[i].order.symbol = s
                        /\ journal[i].order.reason = "stop_loss"
<1>1. Len(journal) \in Nat /\ journal \in Seq(Entry)
  BY DEF Typed, EngineTypeOK
<1>2. dry_run' = dry_run
  BY StepLatches
<1>3. SUFFICES ASSUME ~ dry_run, NEW s \in OffTheList'
               PROVE  \/ StopCleared(s)'
                      \/ Sent(s)'
  BY <1>2 DEF StopsOffTheListSent, OrderedNow
<1>4. s \in OffTheList => StopCleared(s) \/ Sent(s)
  BY <1>3 DEF StopsOffTheListSent, OrderedNow
<1>5. CASE \E order \in LiveOrder : Clears(order)
  <2>1. PICK order \in LiveOrder : Clears(order)
    BY <1>5
  <2>2. /\ journal' = journal /\ scans' = scans /\ cleared' = order /\ cleared = NoCall
        /\ order # NoCall
        /\ s \in OffTheList \/ (s = order.symbol /\ order.reason = "stop_loss")
    BY <2>1, NoCallIsNone DEF Clears
  <2>3. CASE s \in OffTheList
    BY <1>4, <2>2, <2>3 DEF StopCleared
  <2>4. CASE s = order.symbol /\ order.reason = "stop_loss"
    BY <2>2, <2>4 DEF StopCleared
  <2>5. QED
    BY <2>2, <2>3, <2>4
<1>6. CASE HandsOver
  <2>1. /\ Len(journal') = Len(journal) + 1 /\ scans' = scans
        /\ \A i \in 1 .. Len(journal) : journal'[i] = journal[i]
        /\ journal'[Len(journal')].scan = scans /\ journal'[Len(journal')].order = cleared
        /\ OffTheList' = OffTheList
    BY <1>6, AppendEntry DEF HandsOver
  <2>2. Len(journal') \in 1 .. Len(journal') /\ 1 .. Len(journal) \subseteq 1 .. Len(journal')
    BY <1>1, <2>1
  <2>3. Sent(s) => Sent(s)'
    BY <2>1, <2>2
  <2>4. StopCleared(s) => Sent(s)'
    BY <2>1, <2>2 DEF StopCleared
  <2>5. QED
    BY <1>3, <1>4, <2>1, <2>3, <2>4
<1>7. CASE Returns
  <2>1. /\ Len(journal') = Len(journal) /\ scans' = scans /\ OffTheList' = OffTheList
        /\ cleared = NoCall
        /\ \A i \in 1 .. Len(journal) :
             journal'[i].order = journal[i].order /\ journal'[i].scan = journal[i].scan
    BY <1>1, <1>7, LastCountedType DEF Returns
  <2>2. QED
    BY <1>3, <1>4, <2>1 DEF StopCleared
<1>8. CASE Quiet
  <2>1. /\ journal' = journal /\ scans' = scans /\ OffTheList' = OffTheList
        /\ cleared' = cleared \/ cleared = NoCall
    BY <1>3, <1>8 DEF Quiet
  <2>2. QED
    BY <1>3, <1>4, <2>1 DEF StopCleared
<1>9. QED
  BY <1>5, <1>6, <1>7, <1>8, StepKinds DEF Kinds

OrdersCounted == CountFollowsJournal /\ BuysWithinOrderCap

LEMMA CountedFinite ==
  ASSUME Typed
  PROVE  IsFiniteSet(Counted) /\ Cardinality(Counted) \in Nat
<1>1. Len(journal) \in Nat
  BY DEF Typed, EngineTypeOK
<1>2. IsFiniteSet(1 .. Len(journal))
  BY <1>1, FS_Interval
<1>3. QED
  BY <1>2, FS_Subset, FS_CardinalityType DEF Counted

LEMMA StepOrdersCounted ==
  ASSUME Typed, OrdersCounted, [EngineNext]_engineVars
  PROVE  OrdersCounted'
<1> USE DEF OrdersCounted
<1> DEFINE n == Len(journal)
<1>1. n \in Nat /\ journal \in Seq(Entry) /\ risk \in RiskState /\ MaxOrdersPerDay \in Nat
  BY LimitsAssumption DEF Typed, EngineTypeOK
<1>2. dry_run' = dry_run /\ (phase' = "new" => phase = "new")
  BY StepLatches
<1>3. CASE HandsOver
  <2>1. cleared # NoCall
    BY <1>3, NoCallIsNone DEF HandsOver
  <2>2. /\ Len(journal') = n + 1
        /\ \A i \in 1 .. n : journal'[i] = journal[i]
        /\ journal'[n + 1] = [order |-> cleared, scan |-> scans, counted |-> FALSE]
    BY <1>3, AppendEntry
  <2>3. ~ journal'[n + 1].counted /\ journal'[n + 1].order = cleared
    BY <2>2
  <2>4. \A i \in 1 .. n + 1 : i \in 1 .. n \/ i = n + 1
    BY <1>1
  <2>5. Counted' = Counted
    BY <1>1, <2>2, <2>3, <2>4 DEF Counted
  <2>6. risk' = risk /\ ~ dry_run /\ phase # "new" /\ cleared' = NoCall
    BY <1>3 DEF HandsOver
  <2>7. CountFollowsJournal'
    <3>1. ~ (dry_run' \/ phase' = "new")
      BY <1>2, <2>6
    <3>2. risk'.orders_today = Cardinality(Counted')
      BY <2>5, <2>6 DEF CountFollowsJournal
    <3>3. journal' # <<>> /\ ~ journal'[Len(journal')].counted
      BY <1>1, <2>2, <2>3
    <3>4. QED
      BY <2>6, <3>1, <3>2, <3>3 DEF CountFollowsJournal
  <2>8. BuysWithinOrderCap'
    <3>1. SUFFICES ASSUME NEW i \in 1 .. n + 1, journal'[i].order.side = "buy"
                   PROVE  Cardinality({j \in 1 .. i - 1 : journal'[j].counted})
                            < MaxOrdersPerDay
      BY <2>2 DEF BuysWithinOrderCap, CountedBefore
    <3>2. CASE i \in 1 .. n
      <4>1. {j \in 1 .. i - 1 : journal'[j].counted} = CountedBefore(i)
        BY <1>1, <2>2, <3>2 DEF CountedBefore
      <4>2. journal[i].order.side = "buy"
        BY <2>2, <3>1, <3>2
      <4>3. QED
        BY <3>2, <4>1, <4>2 DEF BuysWithinOrderCap
    <3>3. CASE i = n + 1
      <4>1. {j \in 1 .. i - 1 : journal'[j].counted} = Counted
        BY <1>1, <2>2, <3>3 DEF Counted
      <4>2. cleared.side = "buy"
        BY <2>3, <3>1, <3>3
      <4>3. risk.orders_today < MaxOrdersPerDay
        BY <2>1, <2>6, <4>2 DEF CountFollowsJournal
      <4>4. risk.orders_today = Cardinality(Counted)
        BY <2>6 DEF CountFollowsJournal
      <4>5. QED
        BY <4>1, <4>3, <4>4
    <3>4. QED
      BY <2>4, <3>2, <3>3
  <2>9. QED
    BY <2>7, <2>8
<1>4. CASE Returns
  <2>1. /\ Len(journal') = n
        /\ \A i \in 1 .. n :
             /\ journal'[i].order = journal[i].order
             /\ journal'[i].counted = (journal[i].counted \/ i = n)
    BY <1>1, <1>4, LastCountedType DEF Returns
  <2>2. /\ journal # <<>> /\ ~ journal[n].counted /\ n \in 1 .. n
        /\ ~ dry_run /\ phase # "new"
    <3>1. journal # <<>> /\ ~ journal[n].counted
      BY <1>4 DEF Returns, CountFollowsJournal
    <3>2. n # 0
      BY <1>1, <3>1
    <3>3. QED
      BY <1>1, <3>1, <3>2 DEF CountFollowsJournal
  <2>3. Counted' = Counted \cup {n} /\ n \notin Counted
    BY <2>1, <2>2 DEF Counted
  <2>4. Cardinality(Counted') = Cardinality(Counted) + 1
    BY <2>3, CountedFinite, FS_AddElement
  <2>5. risk'.orders_today = Cardinality(Counted')
    BY <1>4, <2>2, <2>4 DEF Returns, CountFollowsJournal
  <2>6. call' = NoCall /\ cleared' = NoCall
    BY <1>4 DEF Returns
  <2>7. CountFollowsJournal'
    BY <1>2, <2>2, <2>5, <2>6 DEF CountFollowsJournal
  <2>8. BuysWithinOrderCap'
    <3>1. SUFFICES ASSUME NEW i \in 1 .. n, journal'[i].order.side = "buy"
                   PROVE  Cardinality({j \in 1 .. i - 1 : journal'[j].counted})
                            < MaxOrdersPerDay
      BY <2>1 DEF BuysWithinOrderCap, CountedBefore
    <3>2. {j \in 1 .. i - 1 : journal'[j].counted} = CountedBefore(i)
      <4>1. \A j \in 1 .. i - 1 : j \in 1 .. n /\ j # n
        BY <1>1
      <4>2. \A j \in 1 .. i - 1 : journal'[j].counted = (journal[j].counted \/ j = n)
        BY <2>1, <4>1
      <4>3. QED
        BY <4>1, <4>2 DEF CountedBefore
    <3>3. journal[i].order.side = "buy"
      BY <2>1, <3>1
    <3>4. QED
      BY <3>2, <3>3 DEF BuysWithinOrderCap
  <2>9. QED
    BY <2>7, <2>8
<1>5. CASE \E order \in LiveOrder : Clears(order)
  <2>1. PICK order \in LiveOrder : Clears(order)
    BY <1>5
  <2>2. /\ journal' = journal /\ call' = NoCall /\ risk' = risk /\ phase # "new"
        /\ cleared' = order /\ (order.side = "buy" => risk.orders_today < MaxOrdersPerDay)
    BY <2>1 DEF Clears, CanTrade
  <2>3. Counted' = Counted
    BY <2>2 DEF Counted
  <2>4. BuysWithinOrderCap'
    BY <2>2 DEF BuysWithinOrderCap, CountedBefore
  <2>5. QED
    BY <1>2, <2>2, <2>3, <2>4 DEF CountFollowsJournal
<1>6. CASE Quiet
  <2>1. /\ journal' = journal /\ call' \in {call, NoCall}
        /\ cleared' \in {cleared, NoCall}
    BY <1>6 DEF Quiet
  <2>2. Counted' = Counted
    BY <2>1 DEF Counted
  <2>3. BuysWithinOrderCap'
    BY <2>1 DEF BuysWithinOrderCap, CountedBefore
  <2>4. ~ dry_run => risk'.orders_today = Cardinality(Counted)
    <3>1. CASE phase = "new" /\ risk'.orders_today = 0
      <4>1. journal = <<>>
        BY <3>1 DEF CountFollowsJournal
      <4>2. Counted = {}
        BY <4>1 DEF Counted
      <4>3. QED
        BY <3>1, <4>2, FS_EmptySet
    <3>2. QED
      BY <1>6, <3>1 DEF Quiet, CountFollowsJournal
  <2>5. ~ dry_run /\ cleared' # NoCall => risk'.orders_today = risk.orders_today
    <3>1. phase = "new" => cleared = NoCall
      BY DEF Typed, ScanShape
    <3>2. QED
      BY <1>6, <2>1, <3>1 DEF Quiet
  <2>6. QED
    BY <1>2, <2>1, <2>2, <2>3, <2>4, <2>5 DEF CountFollowsJournal
<1>7. QED
  BY <1>3, <1>4, <1>5, <1>6, StepKinds DEF Kinds

-----------------------------------------------------------------------------
(* Theorems *)

LEMMA InitEngineInv == EngineInit => EngineInv
<1> SUFFICES ASSUME EngineInit PROVE EngineInv
  OBVIOUS
<1>1. Typed
  BY InitTyped
<1>2. Len(journal) = 0 /\ journal = <<>> /\ stopped = {} /\ call = NoCall
      /\ cleared = NoCall /\ risk.orders_today = 0
  BY DEF EngineInit, NewRisk
<1>3. Counted = {}
  BY <1>2 DEF Counted
<1>4. CountFollowsJournal
  BY <1>2, <1>3, FS_EmptySet DEF CountFollowsJournal
<1>5. QED
  BY <1>1, <1>2, <1>4
  DEF EngineInv, Typed, JournalFollowsScan, OrderedNow, OneOrderPerNamePerScan,
      StopsOffTheListSent, OffTheList, BuysWithinOrderCap

LEMMA StepEngineInv == EngineInv /\ [EngineNext]_engineVars => EngineInv'
BY StepTyped, StepOneEach, StepStopsSent, StepOrdersCounted
DEF EngineInv, Typed, OneEach, OrdersCounted

LEMMA InvImplies ==
  EngineInv => EngineTypeOK /\ OneOrderPerNamePerScan /\ BuysWithinOrderCap /\ StopsAlwaysSent
<1> SUFFICES ASSUME EngineInv PROVE StopsAlwaysSent
  BY DEF EngineInv
<1>1. phase \in {"signals"} \cup Sizing => OffTheList = stopped
  BY DEF EngineInv, ScanShape, OffTheList, Sizing
<1>2. phase \in {"signals"} \cup Sizing => \A s : ~ StopCleared(s)
  BY DEF EngineInv, ScanShape, StopCleared, Sizing
<1>3. QED
  BY <1>1, <1>2 DEF EngineInv, StopsAlwaysSent, StopsOffTheListSent, OrderedNow

LEMMA EngineInvAlways == EngineSpec => []EngineInv
BY InitEngineInv, StepEngineInv, PTL DEF EngineSpec

\* The engine's state keeps its types, whatever the broker answers.
THEOREM EngineTypeCorrect == EngineSpec => []EngineTypeOK
BY EngineInvAlways, InvImplies, PTL

\* One scan sends at most one order for a name: no stopped name is bought back or
\* sold twice in it.
THEOREM OneOrderPerName == EngineSpec => []OneOrderPerNamePerScan
BY EngineInvAlways, InvImplies, PTL

\* No purchase goes out once max_orders_per_day orders have come back.
THEOREM PurchasesWithinCap == EngineSpec => []BuysWithinOrderCap
BY EngineInvAlways, InvImplies, PTL

\* A scan has sent every stop it found before it looks at a signal, halted or not.
THEOREM StopsAreSent == EngineSpec => []StopsAlwaysSent
BY EngineInvAlways, InvImplies, PTL

\* A halt outlives every scan of the run, and no purchase gets under way in any of
\* them: the journal gains at most the one whose check came before the halt.
THEOREM HaltIsFinal == EngineSpec => HaltIsForGood
<1>1. ASSUME EngineInv, [EngineNext]_engineVars, risk.halted
      PROVE  Purchases' \subseteq Purchases
  <2>1. Typed /\ Len(journal) \in Nat /\ journal \in Seq(Entry)
    BY <1>1 DEF EngineInv, Typed, EngineTypeOK
  <2>2. ASSUME NEW k \in 1 .. Len(journal), journal[k].order.side = "buy"
        PROVE  <<journal[k].scan, journal[k].order>> \in Purchases
    BY <2>2 DEF Purchases
  <2>3. cleared.side = "buy" => <<scans, cleared>> \in Purchases
    BY DEF Purchases
  <2>4. SUFFICES /\ \A k \in 1 .. Len(journal') : journal'[k].order.side = "buy" =>
                      <<journal'[k].scan, journal'[k].order>> \in Purchases
                 /\ cleared'.side = "buy" => <<scans', cleared'>> \in Purchases
    BY DEF Purchases
  <2>5. NoCall.side # "buy"
    BY DEF NoCall
  <2>6. CASE \E order \in LiveOrder : Clears(order)
    BY <1>1, <2>2, <2>6 DEF Clears, CanTrade
  <2>7. CASE HandsOver
    <3>1. /\ Len(journal') = Len(journal) + 1 /\ cleared' = NoCall
          /\ \A k \in 1 .. Len(journal) : journal'[k] = journal[k]
          /\ journal'[Len(journal')].scan = scans /\ journal'[Len(journal')].order = cleared
      BY <2>1, <2>7, AppendEntry DEF HandsOver
    <3>2. \A k \in 1 .. Len(journal') : k \in 1 .. Len(journal) \/ k = Len(journal')
      BY <2>1, <3>1
    <3>3. QED
      BY <2>2, <2>3, <2>5, <3>1, <3>2
  <2>8. CASE Returns
    <3>1. /\ Len(journal') = Len(journal) /\ cleared' = NoCall
          /\ \A k \in 1 .. Len(journal) :
               journal'[k].order = journal[k].order /\ journal'[k].scan = journal[k].scan
      BY <2>1, <2>8, LastCountedType DEF Returns
    <3>2. QED
      BY <2>2, <2>5, <3>1
  <2>9. CASE Quiet
    BY <2>2, <2>3, <2>5, <2>9 DEF Quiet
  <2>10. QED
    BY <1>1, <2>1, <2>6, <2>7, <2>8, <2>9, StepKinds DEF Kinds
<1>2. ASSUME EngineInv, [EngineNext]_engineVars
      PROVE  [phase # "new" /\ risk.halted =>
                risk'.halted /\ Purchases' \subseteq Purchases]_engineVars
  <2>1. phase # "new" /\ risk.halted => risk'.halted
    BY <1>2, StepLatches DEF EngineInv, Typed
  <2>2. QED
    BY <1>1, <1>2, <2>1
<1>3. QED
  BY <1>2, EngineInvAlways, PTL DEF EngineSpec, HaltIsForGood

=============================================================================
