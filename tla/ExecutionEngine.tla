--------------------------- MODULE ExecutionEngine ---------------------------
(***************************************************************************)
(* The live engine: run() scans the universe again and again, and each     *)
(* scan marks the account, sends the stop-loss exits, then the entries and *)
(* exits the signals ask for.  The broker is not in this module: a query   *)
(* of it is a step that takes the answer as a parameter, and an order is a *)
(* call in flight until it returns or raises.  A module that composes the  *)
(* engine with a broker says what the answers are.                         *)
(***************************************************************************)
EXTENDS RiskManager, FiniteSets

CONSTANTS
  MaxScans,     \* run()'s max_scans
  Quotes        \* what a sweep of the store may show: a price and a target by symbol

ASSUME MaxScansAssumption == MaxScans \in Nat \ {0}
ASSUME QuotesAssumption ==
  \A q \in Quotes : /\ DOMAIN q \subseteq Symbols
                    /\ q \in [DOMAIN q -> [price : Nat, target : Int]]

NoCall == [side |-> "none"]
LiveOrder == [symbol : Symbols, side : Side, shares : Int, price : Nat,
              reason : {"stop_loss", "signal", "signal_exit"}]
Entry == [order : LiveOrder, scan : Nat, counted : BOOLEAN]

VARIABLES
  risk,
  dry_run,
  phase,        \* where the engine's thread is
  scans,        \* scans over so far
  quotes,       \* this scan's prices and targets
  equity,       \* the cash read first, then the account's value
  todo,         \* stop exits still to send: shares by symbol
  stopped,      \* names stopped out in this scan
  turn,         \* index into Universe of the signal being looked at
  room,         \* what max_buy_shares has left of its budget
  cleared,      \* the order past _submit's check and not yet with the broker
  call,         \* the order place_order has not returned from
  journal       \* history: every order handed to the broker

scanVars == <<quotes, equity, todo, stopped, turn, room>>
orderVars == <<cleared, call, journal>>
engineVars == <<risk, dry_run, phase, scans, scanVars, orderVars>>

Queries == {"cash", "mark", "list"}
Sizing == {"name", "book", "fund"}
InScan == Queries \cup {"stops", "signals"} \cup Sizing

EngineTypeOK ==
  /\ risk \in RiskState
  /\ dry_run \in BOOLEAN
  /\ phase \in {"new", "idle", "done"} \cup InScan
  /\ scans \in 0 .. MaxScans
  /\ quotes \in Quotes \cup {<<>>}
  /\ equity \in Int
  /\ DOMAIN todo \subseteq Symbols /\ todo \in [DOMAIN todo -> Nat]
  /\ stopped \subseteq Symbols
  /\ turn \in 1 .. Len(Universe) + 1
  /\ room \in Int
  /\ {cleared, call} \subseteq LiveOrder \cup {NoCall}
  /\ journal \in Seq(Entry)

EngineInit ==
  /\ risk = NewRisk
  /\ dry_run \in BOOLEAN
  /\ phase = "new" /\ scans = 0
  /\ quotes = <<>> /\ equity = 0
  /\ todo = <<>> /\ stopped = {} /\ turn = 1 /\ room = 0
  /\ cleared = NoCall /\ call = NoCall /\ journal = <<>>

Prices == [s \in DOMAIN quotes |-> quotes[s].price]

\* The engine's thread stands at p, inside no _submit.
At(p) == phase = p /\ cleared = NoCall /\ call = NoCall

-----------------------------------------------------------------------------
(* The loop *)

\* run() starts the day with the cash for equity.
StartRun(cash) ==
  /\ At("new")
  /\ risk' = StartDay(cash)
  /\ phase' = "idle"
  /\ UNCHANGED <<dry_run, scans, scanVars, orderVars>>

\* The first cash query raises outside the try: run() ends before it has begun.
StartFails ==
  /\ At("new")
  /\ phase' = "done"
  /\ UNCHANGED <<risk, dry_run, scans, scanVars, orderVars>>

\* The sweep of the store: the latest close and target of each symbol with bars.
BeginScan(q) ==
  /\ At("idle")
  /\ quotes' = q
  /\ stopped' = {}
  /\ phase' = "cash"
  /\ UNCHANGED <<risk, dry_run, scans, equity, todo, turn, room, orderVars>>

\* A scan over, well or by an exception: what it knew is gone.
ScanOver ==
  /\ scans' = scans + 1
  /\ phase' = IF scans' = MaxScans THEN "done" ELSE "idle"
  /\ quotes' = <<>> /\ equity' = 0
  /\ todo' = <<>> /\ stopped' = {} /\ turn' = 1 /\ room' = 0

EndScan ==
  /\ At("signals") /\ turn > Len(Universe)
  /\ ScanOver
  /\ UNCHANGED <<risk, dry_run, orderVars>>

\* Something raises: in a scan, not between _submit's check and the call it makes.
CanRaise == phase \in InScan /\ cleared = NoCall

\* Mutant of ScanFails: the exception leaves run().
ScanFailsForGood ==
  /\ CanRaise
  /\ phase' = "done" /\ call' = NoCall
  /\ UNCHANGED <<risk, dry_run, scans, scanVars, cleared, journal>>

\* The store, a query or place_order raises: run() logs it and goes on.  An order
\* in flight is not counted.
ScanFails ==
  /\ CanRaise
  /\ ScanOver
  /\ call' = NoCall
  /\ UNCHANGED <<risk, dry_run, cleared, journal>>

\* The kill switch, thrown from outside the scanning thread.
Kill ==
  /\ ~ risk.halted
  /\ risk' = Killed(risk)
  /\ UNCHANGED <<dry_run, phase, scans, scanVars, orderVars>>

-----------------------------------------------------------------------------
(* Sending an order *)

\* Mutant of Blocked: exits are gated like purchases.
BlockedAlike(order) == ~ CanTrade(risk)

\* The halt and the order cap stop purchases only.
Blocked(order) == order.side = "buy" /\ ~ CanTrade(risk)

\* The check at the head of _submit.
Submit(order) ==
  /\ cleared' = IF Blocked(order) THEN NoCall ELSE order
  /\ UNCHANGED <<risk, call, journal>>

\* The rest of _submit, with whatever the kill switch has done since the check: a dry
\* run counts the order it does not send.
HandOver ==
  /\ cleared # NoCall
  /\ cleared' = NoCall
  /\ \/ /\ dry_run
        /\ risk' = RecordOrder(risk)
        /\ UNCHANGED <<call, journal>>
     \/ /\ ~ dry_run
        /\ call' = cleared
        /\ journal' = Append(journal, [order |-> cleared, scan |-> scans, counted |-> FALSE])
        /\ UNCHANGED risk
  /\ UNCHANGED <<dry_run, phase, scans, scanVars>>

LastCounted(j) == [j EXCEPT ![Len(j)].counted = TRUE]

\* Mutant of CallReturns: only purchases are counted.
CallReturnsUncounted ==
  /\ call # NoCall
  /\ risk' = IF call.side = "buy" THEN RecordOrder(risk) ELSE risk
  /\ call' = NoCall
  /\ journal' = LastCounted(journal)
  /\ UNCHANGED <<dry_run, phase, scans, scanVars, cleared>>

\* place_order returns, with a fill or with None: either way the order counts.
CallReturns ==
  /\ call # NoCall
  /\ risk' = RecordOrder(risk)
  /\ call' = NoCall
  /\ journal' = LastCounted(journal)
  /\ UNCHANGED <<dry_run, phase, scans, scanVars, cleared>>

-----------------------------------------------------------------------------
(* Mark the account, then the stop-loss exits *)

ReadCash(cash) ==
  /\ At("cash")
  /\ equity' = cash
  /\ phase' = "mark"
  /\ UNCHANGED <<risk, dry_run, scans, quotes, todo, stopped, turn, room, orderVars>>

MarkAccount(positions) ==
  /\ At("mark")
  /\ equity' = equity + MarketValue(positions, Prices)
  /\ risk' = UpdateDailyLoss(risk, equity')
  /\ phase' = "list"
  /\ UNCHANGED <<dry_run, scans, quotes, todo, stopped, turn, room, orderVars>>

StopsAmong(positions) ==
  {s \in DOMAIN quotes : /\ positions[s].shares > 0
                         /\ StopTriggered(positions[s], quotes[s].price)}

\* The positions are queried again, and the list is walked as it was at that moment.
ListStops(positions) ==
  /\ At("list")
  /\ stopped' = StopsAmong(positions)
  /\ todo' = [s \in stopped' |-> positions[s].shares]
  /\ phase' = "stops"
  /\ UNCHANGED <<risk, dry_run, scans, quotes, equity, turn, room, orderVars>>

ExitOrder(s, n, reason) ==
  [symbol |-> s, side |-> "sell", shares |-> n, price |-> quotes[s].price,
   reason |-> reason]

StopExit(s) ==
  /\ At("stops") /\ s \in DOMAIN todo
  /\ Submit(ExitOrder(s, todo[s], "stop_loss"))
  /\ todo' = [x \in DOMAIN todo \ {s} |-> todo[x]]
  /\ UNCHANGED <<dry_run, phase, scans, quotes, equity, stopped, turn, room>>

StopsDone ==
  /\ At("stops") /\ DOMAIN todo = {}
  /\ phase' = "signals"
  /\ UNCHANGED <<risk, dry_run, scans, scanVars, orderVars>>

-----------------------------------------------------------------------------
(* Signals, one name after the other *)

Name == Universe[turn]
Passed == turn' = turn + 1 /\ phase' = "signals"

\* Mutant of LookedAt: a name just stopped out is looked at again.
LookedAtAnyway ==
  At("signals") /\ turn <= Len(Universe) /\ Name \in DOMAIN quotes
LookedAt ==
  /\ At("signals") /\ turn <= Len(Universe)
  /\ Name \in DOMAIN quotes \ stopped

SkipName ==
  /\ At("signals") /\ turn <= Len(Universe)
  /\ Name \notin DOMAIN quotes \ stopped
  /\ Passed
  /\ UNCHANGED <<risk, dry_run, scans, quotes, equity, todo, stopped, room, orderVars>>

\* held is queried: in when flat and wanted, out when held and no longer wanted.
WantsIn(held) == quotes[Name].target > 0 /\ held = 0 /\ CanTrade(risk)
WantsOut(held) == quotes[Name].target <= 0 /\ held > 0

LeaveAlone(held) ==
  /\ LookedAt /\ ~ WantsIn(held) /\ ~ WantsOut(held)
  /\ Passed
  /\ UNCHANGED <<risk, dry_run, scans, quotes, equity, todo, stopped, room, orderVars>>

SignalExit(held) ==
  /\ LookedAt /\ WantsOut(held)
  /\ Submit(ExitOrder(Name, held, "signal_exit"))
  /\ Passed
  /\ UNCHANGED <<dry_run, scans, quotes, equity, todo, stopped, room>>

StartSizing(held) ==
  /\ LookedAt /\ WantsIn(held)
  /\ phase' = "name"
  /\ UNCHANGED <<risk, dry_run, scans, scanVars, orderVars>>

\* max_buy_shares: no room without permission or price, or else three more queries.
NoRoom ==
  /\ At("name") /\ (~ CanTrade(risk) \/ quotes[Name].price <= 0)
  /\ Passed
  /\ UNCHANGED <<risk, dry_run, scans, quotes, equity, todo, stopped, room, orderVars>>

SizeByName(held) ==
  /\ At("name") /\ CanTrade(risk) /\ quotes[Name].price > 0
  /\ room' = NameRoom(equity, held, quotes[Name].price)
  /\ phase' = "book"
  /\ UNCHANGED <<risk, dry_run, scans, quotes, equity, todo, stopped, turn, orderVars>>

\* Mutant of SizeByBook: the gross room replaces the name's.
SizeByBookAlone(positions) ==
  /\ At("book")
  /\ room' = GrossRoom(equity, positions, Name, quotes[Name].price)
  /\ phase' = "fund"
  /\ UNCHANGED <<risk, dry_run, scans, quotes, equity, todo, stopped, turn, orderVars>>

SizeByBook(positions) ==
  /\ At("book")
  /\ room' = Lower(room, GrossRoom(equity, positions, Name, quotes[Name].price))
  /\ phase' = "fund"
  /\ UNCHANGED <<risk, dry_run, scans, quotes, equity, todo, stopped, turn, orderVars>>

Affordable(cash) ==
  LotsOf(Lower(room, cash) \div (quotes[Name].price * LotSize))

SizeByCash(cash) ==
  /\ At("fund")
  /\ \/ Affordable(cash) <= 0 /\ UNCHANGED <<risk, orderVars>>
     \/ /\ Affordable(cash) > 0
        /\ Submit([symbol |-> Name, side |-> "buy", shares |-> Affordable(cash),
                   price |-> quotes[Name].price, reason |-> "signal"])
  /\ room' = 0
  /\ Passed
  /\ UNCHANGED <<dry_run, scans, quotes, equity, todo, stopped>>

-----------------------------------------------------------------------------
(* The steps by what they need of the broker *)

AsksCash(cash) == StartRun(cash) \/ ReadCash(cash) \/ SizeByCash(cash)
AsksPositions(positions) ==
  MarkAccount(positions) \/ ListStops(positions) \/ SizeByBook(positions)
AsksShares(held) ==
  LeaveAlone(held) \/ SignalExit(held) \/ StartSizing(held) \/ SizeByName(held)
AsksNothing ==
  \/ \E q \in Quotes : BeginScan(q)
  \/ \E s \in Symbols : StopExit(s)
  \/ StopsDone \/ SkipName \/ NoRoom \/ EndScan \/ HandOver

\* The engine by itself: a broker that may answer each query with anything of the
\* right type, return from a call or raise, and a kill switch.
EngineNext ==
  \/ \E cash \in Int : AsksCash(cash)
  \/ \E positions \in [Symbols -> Position] : AsksPositions(positions)
  \/ \E held \in Nat : AsksShares(held)
  \/ AsksNothing
  \/ CallReturns \/ ScanFails \/ StartFails \/ Kill

EngineSpec == EngineInit /\ [][EngineNext]_engineVars

-----------------------------------------------------------------------------
(* What a scan promises, whatever the broker answers *)

\* The purchases under way: handed over in some scan, or past the check.
Purchases ==
  {<<journal[i].scan, journal[i].order>> :
     i \in {k \in 1 .. Len(journal) : journal[k].order.side = "buy"}}
  \cup {<<scans, order>> : order \in {o \in {cleared} : o.side = "buy"}}

\* Once run() has started, a halt by loss or by the kill switch stays, and no new
\* purchase gets under way, in this scan or a later one: what still goes out is at
\* most the one purchase whose check came first.
HaltIsForGood ==
  [][phase # "new" /\ risk.halted => risk'.halted /\ Purchases' \subseteq Purchases]_engineVars

CountedBefore(i) == {j \in 1 .. i - 1 : journal[j].counted}

\* max_orders_per_day: no purchase is sent once that many orders, exits and
\* rejected ones included, have come back from the broker since the run began.
BuysWithinOrderCap ==
  \A i \in 1 .. Len(journal) :
    journal[i].order.side = "buy" => Cardinality(CountedBefore(i)) < MaxOrdersPerDay

\* One scan sends at most one order for a name: what was stopped out is neither sold
\* again nor bought back, whatever the positions read in between show.
OneOrderPerNamePerScan ==
  \A i, j \in 1 .. Len(journal) :
    /\ journal[i].scan = journal[j].scan
    /\ journal[i].order.symbol = journal[j].order.symbol
    => i = j

\* When a scan comes to its signals every stop it found has been sent, halted or not,
\* with the order cap used up or not ("exits never are" gated).
StopsAlwaysSent ==
  phase \in {"signals"} \cup Sizing /\ ~ dry_run =>
    \A s \in stopped :
      \E i \in 1 .. Len(journal) :
        /\ journal[i].scan = scans
        /\ journal[i].order.symbol = s /\ journal[i].order.reason = "stop_loss"

=============================================================================
