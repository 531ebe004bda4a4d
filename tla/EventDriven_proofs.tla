------------------------- MODULE EventDriven_proofs --------------------------
(***************************************************************************)
(* Theorems about the bar loop, for any universe, data, schedule, limits,  *)
(* rules and costs: its types, the T+1 ledger and the book it implements,  *)
(* the halt, the fills of a bar, the exits, the marks, the schedule, and   *)
(* that it is one of the broker's behaviours.                              *)
(***************************************************************************)
EXTENDS EventDrivenBacktest, SimBroker_proofs

-----------------------------------------------------------------------------
(* What the loop computes from a typed state. *)

LEMMA RowType ==
  ASSUME TypeOK, NEW s \in DOMAIN rows
  PROVE  s \in Symbols /\ rows[s] \in BarRow
<1>1. s \in Symbols /\ rows[s] \in BarRows
  BY DEF TypeOK, IsDict
<1>2. QED
  BY <1>1, DataAssumption

LEMMA EquityInt ==
  ASSUME NEW acct \in Account, NEW prices, \A s \in DOMAIN prices : prices[s] \in Int
  PROVE  Equity(acct, prices) \in Int
<1>1. acct.cash \in Int /\ acct.positions \in [Symbols -> Position]
  BY DEF Account
<1>2. MarketValue(acct.positions, prices) \in Int
  BY <1>1, MarketValueInt
<1>3. QED
  BY <1>1, <1>2 DEF Equity

LEMMA RoundToLotsInt ==
  ASSUME NEW n \in Int
  PROVE  RoundToLots(n) \in Int
<1>1. n \div LotSize \in Int
  BY LotSizeAssumption
<1>2. QED
  BY <1>1, LotSizeAssumption DEF RoundToLots, LotsOf

\* The volume cap only ever lowers an amount.
LEMMA CappedInt ==
  ASSUME NEW n \in Int, NEW volume \in Nat
  PROVE  Capped(n, volume) \in Int /\ Capped(n, volume) <= n
<1>1. ParticipationRate \in Int
  BY RulesAssumption, ScaleAssumption
<1>2. VolumeCap(volume) \in Int
  BY <1>1, PortionInt, RoundToLotsInt DEF VolumeCap
<1>3. QED
  BY <1>2 DEF Capped, Lower

\* The T+1 rule: what may be sold is no more than what was not bought today.
LEMMA ExitableBound ==
  ASSUME TypeOK, NEW s \in DOMAIN rows
  PROVE  /\ Exitable(s) \in Int
         /\ TPlusOne /\ Exitable(s) > 0 => Exitable(s) <= shares(s) - bought_today[s]
<1>1. s \in Symbols /\ rows[s].volume \in Nat
  BY RowType DEF BarRow
<1>2. shares(s) \in Nat /\ bought_today[s] \in Nat
  BY <1>1 DEF TypeOK, BrokerTypeOK, Account, Position, shares
<1> DEFINE sellable == IF TPlusOne THEN Higher(0, shares(s) - bought_today[s])
                       ELSE shares(s)
<1>3. /\ sellable \in Int
      /\ TPlusOne /\ sellable > 0 => sellable = shares(s) - bought_today[s]
  BY <1>2 DEF Higher
<1>4. Exitable(s) = Capped(sellable, rows[s].volume)
  BY DEF Exitable
<1> HIDE DEF sellable
<1>5. Exitable(s) \in Int /\ Exitable(s) <= sellable
  BY <1>1, <1>3, <1>4, CappedInt
<1>6. QED
  BY <1>2, <1>3, <1>5

LEMMA WeightInt ==
  ASSUME TypeOK, NEW s \in DOMAIN rows
  PROVE  TargetWeight(s) \in Int
<1>1. s \in Symbols /\ rows[s].signal \in Int
  BY RowType DEF BarRow
<1>2. Budget(s) \in Int
  BY <1>1, BudgetAssumption DEF Budget, TypeOK
<1>3. Portion(rows[s].signal, Budget(s)) \in Int
  BY <1>1, <1>2, PortionInt
<1>4. MaxPositionWeight \in Int
  BY LimitsAssumption, ScaleAssumption
<1>5. QED
  BY <1>3, <1>4 DEF TargetWeight, Lower, Higher

LEMMA DeltaInt ==
  ASSUME TypeOK, NEW s \in DOMAIN rows
  PROVE  Delta(s) \in Int
<1>1. s \in Symbols /\ rows[s].open \in Nat
  BY RowType DEF BarRow
<1>2. shares(s) \in Nat /\ equity \in Int
  BY <1>1 DEF TypeOK, BrokerTypeOK, Account, Position, shares
<1>4. TargetWeight(s) \in Int
  BY WeightInt
<1>5. ASSUME NEW w \in Int, NEW e \in Int, NEW p \in Nat
      PROVE  TargetShares(w, e, p) \in Int
  <2>1. CASE p <= 0 \/ w <= 0
    BY <2>1 DEF TargetShares
  <2>2. CASE ~ (p <= 0 \/ w <= 0)
    <3> DEFINE lot == Scale * p * LotSize
    <3>1. lot \in Nat \ {0}
      <4>1. Scale * p \in Nat /\ Scale * p > 0
        BY <2>2, ScaleAssumption
      <4>2. QED
        BY <4>1, LotSizeAssumption
    <3>2. 2 * w * e \in Int
      OBVIOUS
    <3> HIDE DEF lot
    <3>3. Truncated(2 * w * e + lot, 2 * lot) \in Int
      BY <3>1, <3>2, TruncatedInt
    <3>4. LotsOf(Truncated(2 * w * e + lot, 2 * lot)) \in Int
      BY <3>3, LotSizeAssumption DEF LotsOf
    <3>5. TargetShares(w, e, p) = LotsOf(Truncated(2 * w * e + lot, 2 * lot))
      BY <2>2 DEF TargetShares, lot
    <3>6. QED
      BY <3>4, <3>5
  <2>3. QED
    BY <2>1, <2>2
<1>6. TargetShares(TargetWeight(s), equity, rows[s].open) \in Int
  BY <1>1, <1>2, <1>4, <1>5
<1>7. QED
  BY <1>2, <1>6 DEF Delta

\* The orders the loop places are orders of the broker's vocabulary.
LEMMA BarOrderType ==
  ASSUME TypeOK, NEW s \in DOMAIN rows, NEW side \in Side,
         NEW n \in Int, n > 0, NEW price \in Nat
  PROVE  /\ BarOrder(s, side, n, price) \in Order
         /\ BarOrder(s, side, n, price).symbol = s
         /\ BarOrder(s, side, n, price).side = side
         /\ BarOrder(s, side, n, price).shares = n
<1>1. s \in Symbols /\ rows[s].volume \in Nat
  BY RowType DEF BarRow
<1>2. Participation(n, rows[s].volume) \in Nat
  <2>1. CASE rows[s].volume > 0
    <3>1. n * Scale \in Nat
      BY ScaleAssumption
    <3>2. QED
      BY <1>1, <2>1, <3>1 DEF Participation
  <2>2. CASE ~ rows[s].volume > 0
    BY <2>2 DEF Participation
  <2>3. QED
    BY <2>1, <2>2
<1>3. QED
  BY <1>1, <1>2 DEF BarOrder, Order

\* A stop exit is an order to sell what the T+1 rule and the volume cap leave.
LEMMA StopOrderType ==
  ASSUME TypeOK, NEW s \in DOMAIN rows, Placeable(StopOrder(s))
  PROVE  /\ StopOrder(s) \in Order
         /\ StopOrder(s).symbol = s /\ StopOrder(s).side = "sell"
         /\ StopOrder(s).shares > 0 /\ StopOrder(s).shares <= Exitable(s)
<1> DEFINE price == Lower(rows[s].open, StopPrice(account.positions[s]))
<1>1. s \in Symbols /\ rows[s].open \in Nat
  BY RowType DEF BarRow
<1>2. Scale - StopLoss \in Nat
  BY LimitsAssumption, ScaleAssumption
<1>3. account.positions[s].avg_price \in Nat
  BY <1>1 DEF TypeOK, BrokerTypeOK, Account, Position
<1>4. StopPrice(account.positions[s]) \in Nat
  BY <1>2, <1>3, PortionNat DEF StopPrice
<1>5. price \in Nat
  BY <1>1, <1>4 DEF Lower
<1>6. StopOrder(s) = BarOrder(s, "sell", Exitable(s), price)
  BY DEF StopOrder
<1> HIDE DEF price
<1>7. Exitable(s) \in Int
  BY ExitableBound
<1>8. Exitable(s) > 0
  BY <1>6 DEF Placeable, BarOrder
<1>9. QED
  BY <1>5, <1>6, <1>7, <1>8, BarOrderType DEF Side

LEMMA BuyOrderType ==
  ASSUME TypeOK, NEW s \in DOMAIN rows, Placeable(BuyOrder(s))
  PROVE  /\ BuyOrder(s) \in Order
         /\ BuyOrder(s).symbol = s /\ BuyOrder(s).side = "buy"
         /\ BuyOrder(s).shares > 0
<1> DEFINE room == MaxBuyShares(risk, account, s, rows[s].open, equity)
<1> DEFINE n == Capped(Lower(Delta(s), room), rows[s].volume)
<1>1. s \in Symbols /\ rows[s].open \in Nat /\ rows[s].volume \in Nat
  BY RowType DEF BarRow
<1>2. account \in Account /\ equity \in Int
  BY DEF TypeOK, BrokerTypeOK
<1>3. room \in Int
  BY <1>1, <1>2, MaxBuySharesInt
<1>4. Lower(Delta(s), room) \in Int
  BY <1>3, DeltaInt DEF Lower
<1>5. n \in Int
  BY <1>1, <1>4, CappedInt
<1>6. BuyOrder(s) = BarOrder(s, "buy", n, rows[s].open)
  BY DEF BuyOrder
<1> HIDE DEF n
<1>7. n > 0
  BY <1>6 DEF Placeable, BarOrder
<1>8. QED
  BY <1>1, <1>5, <1>6, <1>7, BarOrderType DEF Side

LEMMA SellOrderType ==
  ASSUME TypeOK, NEW s \in DOMAIN rows, Placeable(SellOrder(s))
  PROVE  /\ SellOrder(s) \in Order
         /\ SellOrder(s).symbol = s /\ SellOrder(s).side = "sell"
         /\ SellOrder(s).shares > 0 /\ SellOrder(s).shares <= Exitable(s)
<1> DEFINE n == Lower(- Delta(s), Exitable(s))
<1>1. rows[s].open \in Nat
  BY RowType DEF BarRow
<1>2. Exitable(s) \in Int
  BY ExitableBound
<1>3. n \in Int /\ n <= Exitable(s)
  BY <1>2, DeltaInt DEF Lower
<1>4. SellOrder(s) = BarOrder(s, "sell", n, rows[s].open)
  BY DEF SellOrder
<1> HIDE DEF n
<1>5. n > 0
  BY <1>4 DEF Placeable, BarOrder
<1>6. QED
  BY <1>1, <1>3, <1>4, <1>5, BarOrderType DEF Side

-----------------------------------------------------------------------------
(* The three ways an order is placed, told as what they do to the shares. *)

\* s sells some of what was not bought today, or its exit is not settled.
Shrinks(s) ==
  /\ bought_today' = bought_today
  /\ \A x \in Symbols : x # s => shares(x)' = shares(x)
  /\ \/ shares(s)' = shares(s)
     \/ /\ shares(s)' < shares(s)
        /\ TPlusOne => bought_today[s] <= shares(s)'

\* s buys, and the T+1 ledger notes exactly what it bought.
Grows(s) ==
  /\ \A x \in Symbols : x # s => shares(x)' = shares(x)
  /\ \/ shares(s)' = shares(s) /\ bought_today' = bought_today
     \/ \E n \in Nat \ {0} :
          /\ shares(s)' = shares(s) + n
          /\ bought_today' = [bought_today EXCEPT ![s] = @ + n]

LEMMA StopExitShrinks ==
  ASSUME TypeOK, NEW s \in Symbols, StopExit(s)
  PROVE  account' \in Account /\ fills' \in Seq(Fill) /\ Shrinks(s)
<1>1. s \in DOMAIN rows /\ bought_today' = bought_today
  BY DEF StopExit, StopHit, dayVars
<1>2. CASE Placeable(StopOrder(s)) /\ PlaceOrder(StopOrder(s))
  <2>1. /\ StopOrder(s) \in Order
        /\ StopOrder(s).symbol = s /\ StopOrder(s).side = "sell"
        /\ StopOrder(s).shares > 0 /\ StopOrder(s).shares <= Exitable(s)
    BY <1>1, <1>2, StopOrderType
  <2>2. /\ account' \in Account /\ fills' \in Seq(Fill)
        /\ \A x \in Symbols :
             shares(x)' = IF x = s /\ Accepted(StopOrder(s))
                          THEN shares(x) - StopOrder(s).shares ELSE shares(x)
    BY <1>2, <2>1, PlaceOrderEffect DEF TypeOK
  <2>3. shares(s) \in Nat /\ bought_today[s] \in Nat /\ StopOrder(s).shares \in Int
    BY <2>1 DEF TypeOK, BrokerTypeOK, Account, Position, shares, Order
  <2>4. QED
    BY <1>1, <2>1, <2>2, <2>3, ExitableBound DEF Shrinks
<1>3. CASE UNCHANGED <<account, fills>>
  BY <1>1, <1>3 DEF Shrinks, TypeOK, BrokerTypeOK, shares
<1>4. QED
  BY <1>2, <1>3 DEF StopExit

LEMMA ScaleOutShrinks ==
  ASSUME TypeOK, NEW s \in Symbols, ScaleOut(s)
  PROVE  account' \in Account /\ fills' \in Seq(Fill) /\ Shrinks(s)
<1>1. /\ s \in DOMAIN rows /\ bought_today' = bought_today
      /\ Placeable(SellOrder(s)) /\ PlaceOrder(SellOrder(s))
  BY DEF ScaleOut, Rebalanced, WantsOut
<1>2. /\ SellOrder(s) \in Order
      /\ SellOrder(s).symbol = s /\ SellOrder(s).side = "sell"
      /\ SellOrder(s).shares > 0 /\ SellOrder(s).shares <= Exitable(s)
  BY <1>1, SellOrderType
<1>3. /\ account' \in Account /\ fills' \in Seq(Fill)
      /\ \A x \in Symbols :
           shares(x)' = IF x = s /\ Accepted(SellOrder(s))
                        THEN shares(x) - SellOrder(s).shares ELSE shares(x)
  BY <1>1, <1>2, PlaceOrderEffect DEF TypeOK
<1>4. shares(s) \in Nat /\ bought_today[s] \in Nat /\ SellOrder(s).shares \in Int
  BY <1>2 DEF TypeOK, BrokerTypeOK, Account, Position, shares, Order
<1>5. QED
  BY <1>1, <1>2, <1>3, <1>4, ExitableBound DEF Shrinks

LEMMA ScaleInGrows ==
  ASSUME TypeOK, NEW s \in Symbols, ScaleIn(s)
  PROVE  account' \in Account /\ fills' \in Seq(Fill) /\ Grows(s)
<1>1. /\ s \in DOMAIN rows
      /\ Placeable(BuyOrder(s)) /\ PlaceOrder(BuyOrder(s))
      /\ bought_today' = IF Accepted(BuyOrder(s))
                         THEN [bought_today EXCEPT ![s] = @ + BuyOrder(s).shares]
                         ELSE bought_today
  BY DEF ScaleIn, Rebalanced, WantsIn
<1>2. /\ BuyOrder(s) \in Order
      /\ BuyOrder(s).symbol = s /\ BuyOrder(s).side = "buy" /\ BuyOrder(s).shares > 0
  BY <1>1, BuyOrderType
<1>3. /\ account' \in Account /\ fills' \in Seq(Fill)
      /\ \A x \in Symbols :
           shares(x)' = IF x = s /\ Accepted(BuyOrder(s))
                        THEN shares(x) + BuyOrder(s).shares ELSE shares(x)
  BY <1>1, <1>2, PlaceOrderEffect DEF TypeOK
<1>4. BuyOrder(s).shares \in Nat \ {0}
  BY <1>2 DEF Order
<1>5. QED
  BY <1>1, <1>3, <1>4 DEF Grows

-----------------------------------------------------------------------------
(* Type correctness *)

LEMMA DueEntriesBound ==
  ASSUME TypeOK, NEW d
  PROVE  sched_idx + Cardinality(DueEntries(d)) \in 0 .. Len(Schedule)
<1>1. sched_idx \in Nat /\ Len(Schedule) \in Nat /\ sched_idx <= Len(Schedule)
  BY BudgetAssumption DEF TypeOK
<1> DEFINE left == sched_idx + 1 .. Len(Schedule)
<1>0. sched_idx + 1 \in Int /\ Len(Schedule) \in Int
  BY <1>1
<1>2. IsFiniteSet(left) /\ Cardinality(left) = Len(Schedule) - sched_idx
  <2>1. /\ IsFiniteSet(left)
        /\ Cardinality(left) = IF sched_idx + 1 > Len(Schedule) THEN 0
                               ELSE Len(Schedule) - (sched_idx + 1) + 1
    BY ONLY <1>0, FS_Interval
  <2>2. QED
    BY <1>1, <2>1
<1>3. DueEntries(d) \subseteq left
  BY DEF DueEntries
<1>4. /\ IsFiniteSet(DueEntries(d))
      /\ Cardinality(DueEntries(d)) <= Cardinality(left)
  BY <1>2, <1>3, FS_Subset
<1>5. Cardinality(DueEntries(d)) \in Nat
  BY <1>4, FS_CardinalityType
<1> HIDE DEF left
<1>6. QED
  BY <1>1, <1>2, <1>4, <1>5

LEMMA InitTypeOK == Init => TypeOK
<1> SUFFICES ASSUME Init PROVE TypeOK
  OBVIOUS
<1>1. BrokerTypeOK
  BY InitialCashAssumption
  DEF Init, BrokerInit, BrokerTypeOK, Account, Position, NoPosition, Timestamp
<1>2. DOMAIN rows = {} /\ DOMAIN last_price = {} /\ DOMAIN prev_ref_close = {}
  BY DEF Init
<1>3. IsDict(rows, BarRows) /\ IsDict(last_price, Nat) /\ IsDict(prev_ref_close, Nat)
  BY <1>2 DEF Init, IsDict
<1>4. risk \in RiskState
  BY DEF Init, NewRisk, RiskState
<1>5. /\ bought_today \in [Symbols -> Nat] /\ active_budget \in [Symbols -> Int]
      /\ sched_idx \in 0 .. Len(Schedule) /\ equity \in Int
      /\ todo \subseteq Symbols /\ stopped \subseteq Symbols
      /\ turn \in 1 .. Len(Universe) + 1
      /\ phase \in {"clock", "mark", "trade", "done"}
  BY BudgetAssumption, UniverseAssumption, InitialCashAssumption
  DEF Init, NoneBought, NoBudget
<1>6. QED
  BY <1>1, <1>3, <1>4, <1>5 DEF TypeOK

LEMMA NewBarTypeOK ==
  ASSUME TypeOK, NEW d \in Dates, NEW bars \in BarSets, NewBar(d, bars)
  PROVE  TypeOK'
<1>1. IsDict(bars, BarRows)
  BY DEF BarSets, IsDict
<1>2. IsDict(rows, BarRows)'
  BY <1>1, Zenon DEF NewBar, IsDict
<1>3. BrokerTypeOK'
  <2>1. clock' \in Timestamp
    BY DataAssumption DEF NewBar, SetTime, Timestamp, TypeOK, BrokerTypeOK
  <2>2. QED
    BY <2>1 DEF NewBar, TypeOK, BrokerTypeOK
<1>4. /\ IsDict(prev_ref_close, Nat)'
      /\ bought_today' \in [Symbols -> Nat]
      /\ risk' \in RiskState
      /\ sched_idx' \in 0 .. Len(Schedule)
      /\ active_budget' \in [Symbols -> Int]
  <2>1. CASE RollDay(d)
    <3>1. IsDict(prev_ref_close, Nat)' /\ bought_today' \in [Symbols -> Nat]
      BY <2>1 DEF RollDay, TypeOK, IsDict, NoneBought
    <3>2. risk' \in RiskState
      <4>1. Equity(account, last_price) \in Int
        BY EquityInt DEF TypeOK, BrokerTypeOK, IsDict
      <4>2. risk' = [halted |-> FALSE, day_start_equity |-> Equity(account, last_price),
                     orders_today |-> 0]
        BY <2>1 DEF RollDay, StartDay, NewRisk
      <4>3. QED
        BY <4>1, <4>2 DEF RiskState
    <3>3. sched_idx' \in 0 .. Len(Schedule)
      BY <2>1, DueEntriesBound DEF RollDay, AdvanceSchedule
    <3>4. active_budget' \in [Symbols -> Int]
      BY <2>1, <3>3, BudgetAssumption DEF RollDay, AdvanceSchedule, NoBudget
    <3>5. QED
      BY <3>1, <3>2, <3>3, <3>4
  <2>2. CASE UNCHANGED <<dayVars, risk>>
    BY <2>2 DEF TypeOK, dayVars, IsDict
  <2>3. QED
    BY <2>1, <2>2 DEF NewBar
<1>5. /\ IsDict(last_price, Nat)' /\ equity' \in Int
      /\ todo' \subseteq Symbols /\ stopped' \subseteq Symbols
      /\ turn' \in 1 .. Len(Universe) + 1
      /\ phase' \in {"clock", "mark", "trade", "done"}
  BY DEF NewBar, markVars, TypeOK, IsDict
<1>6. QED
  BY <1>2, <1>3, <1>4, <1>5 DEF TypeOK

LEMMA MarkTypeOK ==
  ASSUME TypeOK, Mark
  PROVE  TypeOK'
<1>1. IsDict(last_price, Nat)'
  <2>1. \A s \in DOMAIN rows : s \in Symbols /\ rows[s].close \in Nat
    BY RowType DEF BarRow
  <2>2. DOMAIN last_price \subseteq Symbols /\ last_price \in [DOMAIN last_price -> Nat]
    BY DEF TypeOK, IsDict
  <2>3. last_price' = [s \in DOMAIN rows \cup DOMAIN last_price |->
                         IF s \in DOMAIN rows THEN rows[s].close ELSE last_price[s]]
    BY DEF Mark
  <2>4. QED
    BY <2>1, <2>2, <2>3 DEF IsDict
<1>2. equity' \in Int
  <2>1. \A s \in DOMAIN last_price' : last_price'[s] \in Int
    BY <1>1 DEF IsDict
  <2>2. QED
    BY <2>1, EquityInt DEF Mark, TypeOK, BrokerTypeOK
<1>3. risk' \in RiskState
  BY DEF Mark, UpdateDailyLoss, TypeOK, RiskState
<1>4. BrokerTypeOK' /\ IsDict(rows, BarRows)' /\ IsDict(prev_ref_close, Nat)'
  BY DEF Mark, TypeOK, BrokerTypeOK, dayVars, IsDict
<1>5. /\ bought_today' \in [Symbols -> Nat]
      /\ sched_idx' \in 0 .. Len(Schedule) /\ active_budget' \in [Symbols -> Int]
      /\ todo' \subseteq Symbols /\ stopped' \subseteq Symbols
      /\ turn' \in 1 .. Len(Universe) + 1
      /\ phase' \in {"clock", "mark", "trade", "done"}
  BY UniverseAssumption DEF Mark, TypeOK, dayVars, Held
<1>6. QED
  BY <1>1, <1>2, <1>3, <1>4, <1>5 DEF TypeOK

\* What a step that trades leaves as it was.
LEMMA TradeTypeOK ==
  ASSUME TypeOK,
         account' \in Account, fills' \in Seq(Fill), bought_today' \in [Symbols -> Nat],
         UNCHANGED <<clock, phase, rows, prev_ref_close, sched_idx, active_budget,
                     markVars, risk>>,
         todo' \subseteq Symbols, stopped' \subseteq Symbols,
         turn' \in 1 .. Len(Universe) + 1
  PROVE  TypeOK'
BY DEF TypeOK, BrokerTypeOK, IsDict, markVars

LEMMA StepTypeOK == TypeOK /\ [Next]_vars => TypeOK'
<1> SUFFICES ASSUME TypeOK, [Next]_vars PROVE TypeOK'
  OBVIOUS
<1>1. ASSUME NEW d \in Dates, NEW bars \in BarSets, NewBar(d, bars) PROVE TypeOK'
  BY <1>1, NewBarTypeOK
<1>2. CASE Mark
  BY <1>2, MarkTypeOK
<1>3. ASSUME NEW s \in Symbols, StopExit(s) PROVE TypeOK'
  <2>1. /\ account' \in Account /\ fills' \in Seq(Fill)
        /\ bought_today' \in [Symbols -> Nat]
    BY <1>3, StopExitShrinks DEF Shrinks, TypeOK
  <2>2. /\ UNCHANGED <<clock, phase, rows, prev_ref_close, sched_idx, active_budget,
                       markVars, risk>>
        /\ todo' \subseteq Symbols /\ stopped' \subseteq Symbols
        /\ turn' \in 1 .. Len(Universe) + 1
    BY <1>3 DEF StopExit, TypeOK, dayVars
  <2>3. QED
    BY <2>1, <2>2, TradeTypeOK
<1>4. ASSUME NEW s \in Symbols, NoStop(s) PROVE TypeOK'
  BY <1>4 DEF NoStop, TypeOK, BrokerTypeOK, IsDict, dayVars, markVars
<1>5. ASSUME NEW s \in Symbols, Turn(s)
      PROVE  /\ UNCHANGED <<clock, phase, rows, prev_ref_close, sched_idx, active_budget,
                            markVars, risk>>
             /\ todo' \subseteq Symbols /\ stopped' \subseteq Symbols
             /\ turn' \in 1 .. Len(Universe) + 1
  BY <1>5, UniverseAssumption DEF Turn, TypeOK
<1>6. ASSUME NEW s \in Symbols, ScaleIn(s) PROVE TypeOK'
  <2>1. /\ account' \in Account /\ fills' \in Seq(Fill)
        /\ bought_today' \in [Symbols -> Nat]
    BY <1>6, ScaleInGrows DEF Grows, TypeOK
  <2>2. Turn(s)
    BY <1>6 DEF ScaleIn
  <2>3. QED
    BY <2>1, <2>2, <1>5, TradeTypeOK
<1>7. ASSUME NEW s \in Symbols, ScaleOut(s) PROVE TypeOK'
  <2>1. /\ account' \in Account /\ fills' \in Seq(Fill)
        /\ bought_today' \in [Symbols -> Nat]
    BY <1>7, ScaleOutShrinks DEF Shrinks, TypeOK
  <2>2. Turn(s)
    BY <1>7 DEF ScaleOut
  <2>3. QED
    BY <2>1, <2>2, <1>5, TradeTypeOK
<1>8. ASSUME NEW s \in Symbols, Pass(s) PROVE TypeOK'
  <2>1. /\ account' \in Account /\ fills' \in Seq(Fill)
        /\ bought_today' \in [Symbols -> Nat]
    BY <1>8 DEF Pass, TypeOK, BrokerTypeOK
  <2>2. Turn(s)
    BY <1>8 DEF Pass
  <2>3. QED
    BY <2>1, <2>2, <1>5, TradeTypeOK
<1>9. CASE CloseBar
  BY <1>9 DEF CloseBar, TypeOK, BrokerTypeOK, IsDict, dayVars, markVars
<1>10. CASE Finish
  BY <1>10 DEF Finish, TypeOK, BrokerTypeOK, IsDict, dayVars, markVars
<1>11. CASE UNCHANGED vars
  BY <1>11 DEF vars, TypeOK, BrokerTypeOK, IsDict, dayVars, markVars
<1>12. QED
  BY <1>1, <1>2, <1>3, <1>4, <1>6, <1>7, <1>8, <1>9, <1>10, <1>11 DEF Next, Finished

\* The loop's state has its types at every step of every run, the equity and every
\* order size being integers whatever the data: no position is ever negative and the
\* schedule index never leaves the schedule.
THEOREM TypeCorrect == Spec => []TypeOK
BY InitTypeOK, StepTypeOK, PTL DEF Spec

-----------------------------------------------------------------------------
(* What a step does to the holdings and the T+1 ledger. *)

Still == account' = account /\ bought_today' = bought_today
DayRolls == account' = account /\ bought_today' = NoneBought /\ clock'.date > clock.date
SameDay == clock' = clock /\ risk' = risk

\* A step sells, buys while trading is allowed, rolls the day, or does neither.
LEMMA StepKinds ==
  ASSUME TypeOK, [Next]_vars
  PROVE  \/ \E s \in Symbols : Shrinks(s) /\ SameDay
         \/ \E s \in Symbols : Grows(s) /\ SameDay /\ CanTrade(risk)
         \/ DayRolls
         \/ Still /\ \/ SameDay
                     \/ clock' = clock /\ risk' = UpdateDailyLoss(risk, equity')
                     \/ clock'.date = clock.date /\ risk' = risk
<1>1. ASSUME NEW d \in Dates, NEW bars \in BarSets, NewBar(d, bars)
      PROVE  DayRolls \/ (Still /\ clock'.date = clock.date /\ risk' = risk)
  <2>1. account' = account /\ clock'.date = d
    BY <1>1 DEF NewBar, SetTime
  <2>2. CASE d > clock.date /\ RollDay(d)
    BY <2>1, <2>2 DEF RollDay, DayRolls
  <2>3. CASE d = clock.date /\ UNCHANGED <<dayVars, risk>>
    BY <2>1, <2>3 DEF dayVars, Still
  <2>4. QED
    BY <1>1, <2>2, <2>3 DEF NewBar
<1>2. CASE Mark
  BY <1>2 DEF Mark, dayVars, Still
<1>3. ASSUME NEW s \in Symbols, StopExit(s) PROVE Shrinks(s) /\ SameDay
  BY <1>3, StopExitShrinks DEF StopExit, SameDay
<1>4. ASSUME NEW s \in Symbols, ScaleIn(s) PROVE Grows(s) /\ SameDay /\ CanTrade(risk)
  BY <1>4, ScaleInGrows DEF ScaleIn, WantsIn, Turn, SameDay
<1>5. ASSUME NEW s \in Symbols, ScaleOut(s) PROVE Shrinks(s) /\ SameDay
  BY <1>5, ScaleOutShrinks DEF ScaleOut, Turn, SameDay
<1>6. ASSUME NEW s \in Symbols, NoStop(s) \/ Pass(s) PROVE Still /\ SameDay
  BY <1>6 DEF NoStop, Pass, Turn, dayVars, Still, SameDay
<1>7. CASE CloseBar \/ Finish \/ UNCHANGED vars
  BY <1>7 DEF CloseBar, Finish, vars, dayVars, Still, SameDay
<1>8. QED
  BY <1>1, <1>2, <1>3, <1>4, <1>5, <1>6, <1>7 DEF Next, Finished

LEMMA SharesNat ==
  ASSUME TypeOK, NEW s \in Symbols
  PROVE  shares(s) \in Nat /\ bought_today[s] \in Nat
BY DEF TypeOK, BrokerTypeOK, Account, Position, shares

-----------------------------------------------------------------------------
(* T+1 *)

LEMMA StepBoughtTodayStillHeld ==
  TypeOK /\ BoughtTodayStillHeld /\ [Next]_vars => BoughtTodayStillHeld'
<1> SUFFICES ASSUME TypeOK, BoughtTodayStillHeld, [Next]_vars, TPlusOne,
                    NEW x \in Symbols
             PROVE  bought_today'[x] <= shares(x)'
  BY DEF BoughtTodayStillHeld
<1>1. shares(x) \in Nat /\ bought_today[x] \in Nat /\ bought_today[x] <= shares(x)
  BY SharesNat DEF BoughtTodayStillHeld
<1>2. ASSUME NEW s \in Symbols, Shrinks(s) PROVE bought_today'[x] <= shares(x)'
  BY <1>1, <1>2 DEF Shrinks
<1>3. ASSUME NEW s \in Symbols, Grows(s) PROVE bought_today'[x] <= shares(x)'
  BY <1>1, <1>3 DEF Grows, TypeOK
<1>4. CASE DayRolls
  BY <1>1, <1>4 DEF DayRolls, NoneBought, shares
<1>5. CASE Still
  BY <1>1, <1>5 DEF Still, shares
<1>6. QED
  BY <1>2, <1>3, <1>4, <1>5, StepKinds

\* Shares counted as bought today are still held, for any run of bars, stops and
\* partial fills: no exit ever takes one of them.
THEOREM BoughtTodayIsHeld == Spec => []BoughtTodayStillHeld
<1>1. Init => BoughtTodayStillHeld
  <2> SUFFICES ASSUME Init, NEW s \in Symbols PROVE bought_today[s] <= shares(s)
    BY DEF BoughtTodayStillHeld
  <2>1. bought_today[s] = 0 /\ shares(s) = 0
    BY DEF Init, BrokerInit, NoneBought, NoPosition, shares
  <2>2. QED
    BY <2>1
<1>2. QED
  BY <1>1, StepBoughtTodayStillHeld, TypeCorrect, PTL DEF Spec

-----------------------------------------------------------------------------
(* The day's halt *)

LEMMA StepHaltBlocksEntries ==
  ASSUME TypeOK, [Next]_vars, risk.halted, clock'.date = clock.date
  PROVE  risk'.halted /\ \A x \in Symbols : shares(x)' <= shares(x)
<1>1. risk \in RiskState /\ clock.date \in Nat
  BY DEF TypeOK, BrokerTypeOK, Timestamp
<1>2. \A x \in Symbols : shares(x) \in Nat /\ shares(x)' \in Nat
  <2>1. TypeOK'
    BY StepTypeOK
  <2>2. QED
    BY <2>1, SharesNat DEF TypeOK, BrokerTypeOK, Account, Position, shares
<1>3. ASSUME NEW s \in Symbols, Shrinks(s), SameDay
      PROVE  risk'.halted /\ \A x \in Symbols : shares(x)' <= shares(x)
  BY <1>2, <1>3 DEF Shrinks, SameDay
<1>4. ~ CanTrade(risk)
  BY DEF CanTrade
<1>5. ~ DayRolls
  BY <1>1 DEF DayRolls
<1>6. ASSUME Still PROVE \A x \in Symbols : shares(x)' <= shares(x)
  BY <1>2, <1>6 DEF Still, shares
<1>7. ASSUME risk' = UpdateDailyLoss(risk, equity') PROVE risk'.halted
  BY <1>1, <1>7 DEF UpdateDailyLoss, RiskState
<1>8. QED
  BY <1>3, <1>4, <1>5, <1>6, <1>7, StepKinds DEF SameDay

\* The halt is a latch for the rest of the date, and while it is on no holding grows,
\* whatever the limits and the data.
THEOREM HaltIsADayLatch == Spec => HaltBlocksEntriesAllDay
<1>1. TypeOK /\ [Next]_vars =>
        [risk.halted /\ clock'.date = clock.date =>
           risk'.halted /\ \A s \in Symbols : shares(s)' <= shares(s)]_vars
  BY StepHaltBlocksEntries
<1>2. QED
  BY <1>1, TypeCorrect, PTL DEF Spec, HaltBlocksEntriesAllDay

-----------------------------------------------------------------------------
(* The T+1 book *)

SettledHoldings == [s \in Symbols |-> shares(s) - bought_today[s]]

LEMMA ShrinksIsSell ==
  ASSUME TPlusOne, TypeOK, TypeOK', BoughtTodayStillHeld,
         NEW s \in Symbols, Shrinks(s)
  PROVE  SettledBook!Sell(s) \/ UNCHANGED <<SettledHoldings, bought_today>>
<1>1. \A x \in Symbols : /\ shares(x) \in Nat /\ shares(x)' \in Nat
                         /\ bought_today[x] \in Nat
  BY DEF TypeOK, BrokerTypeOK, Account, Position, shares
<1>2. bought_today' = bought_today /\ \A x \in Symbols : x # s => shares(x)' = shares(x)
  BY DEF Shrinks
<1>3. CASE shares(s)' = shares(s)
  <2>1. \A x \in Symbols : shares(x)' - bought_today'[x] = shares(x) - bought_today[x]
    BY <1>2, <1>3
  <2>2. QED
    BY <1>2, <2>1 DEF SettledHoldings
<1>4. CASE shares(s)' < shares(s) /\ bought_today[s] <= shares(s)'
  <2>1. SettledHoldings' \in [Symbols -> Nat]
    <3>1. \A x \in Symbols : shares(x)' - bought_today'[x] \in Nat
      BY <1>1, <1>2, <1>4 DEF BoughtTodayStillHeld
    <3>2. QED
      BY <3>1 DEF SettledHoldings
  <2>2. SettledHoldings' = [SettledHoldings EXCEPT ![s] = SettledHoldings'[s]]
    BY <1>2 DEF SettledHoldings
  <2>3. SettledHoldings'[s] < SettledHoldings[s]
    BY <1>1, <1>2, <1>4 DEF SettledHoldings
  <2>4. QED
    BY <1>2, <2>1, <2>2, <2>3 DEF SettledBook!Sell, SettledBook!Holdings, SettledHoldings
<1>5. QED
  BY <1>3, <1>4 DEF Shrinks

LEMMA GrowsIsBuy ==
  ASSUME TypeOK, TypeOK', NEW s \in Symbols, Grows(s)
  PROVE  SettledBook!Buy(s) \/ UNCHANGED <<SettledHoldings, bought_today>>
<1>1. \A x \in Symbols : shares(x) \in Nat /\ bought_today[x] \in Nat
  BY SharesNat
<1>2. bought_today \in [Symbols -> Nat] /\ bought_today' \in [Symbols -> Nat]
  BY DEF TypeOK
<1>3. \A x \in Symbols : x # s => shares(x)' = shares(x)
  BY DEF Grows
<1>4. CASE shares(s)' = shares(s) /\ bought_today' = bought_today
  <2>1. \A x \in Symbols : shares(x)' - bought_today'[x] = shares(x) - bought_today[x]
    BY <1>3, <1>4
  <2>2. QED
    BY <1>4, <2>1 DEF SettledHoldings
<1>5. ASSUME NEW n \in Nat \ {0}, shares(s)' = shares(s) + n,
             bought_today' = [bought_today EXCEPT ![s] = @ + n]
      PROVE  SettledBook!Buy(s)
  <2>1. /\ bought_today'[s] = bought_today[s] + n
        /\ \A x \in Symbols : x # s => bought_today'[x] = bought_today[x]
    BY <1>2, <1>5
  <2>2. \A x \in Symbols : shares(x)' - bought_today'[x] = shares(x) - bought_today[x]
    BY <1>1, <1>3, <1>5, <2>1
  <2>3. SettledHoldings' = SettledHoldings
    BY <2>2 DEF SettledHoldings
  <2>4. bought_today' = [bought_today EXCEPT ![s] = bought_today'[s]]
    BY <1>2, <1>5, <2>1
  <2>5. bought_today[s] < bought_today'[s]
    BY <1>1, <1>5, <2>1
  <2>6. QED
    BY <1>2, <2>3, <2>4, <2>5 DEF SettledBook!Buy, SettledBook!Holdings, SettledHoldings
<1>6. QED
  BY <1>4, <1>5 DEF Grows

LEMMA StepIsBookStep ==
  ASSUME TPlusOne, TypeOK, TypeOK', BoughtTodayStillHeld, [Next]_vars
  PROVE  SettledBook!Next \/ UNCHANGED <<SettledHoldings, bought_today>>
<1>1. ASSUME NEW s \in Symbols, Shrinks(s)
      PROVE  SettledBook!Next \/ UNCHANGED <<SettledHoldings, bought_today>>
  BY <1>1, ShrinksIsSell DEF SettledBook!Next
<1>2. ASSUME NEW s \in Symbols, Grows(s)
      PROVE  SettledBook!Next \/ UNCHANGED <<SettledHoldings, bought_today>>
  BY <1>2, GrowsIsBuy DEF SettledBook!Next
<1>3. CASE DayRolls
  <2>1. \A s \in Symbols : /\ shares(s)' = shares(s)
                           /\ bought_today'[s] = 0
                           /\ shares(s) \in Nat /\ bought_today[s] \in Nat
    BY <1>3, SharesNat DEF DayRolls, NoneBought, shares
  <2>2. \A s \in Symbols :
          shares(s)' - bought_today'[s] = (shares(s) - bought_today[s]) + bought_today[s]
    BY <2>1
  <2>3. SettledHoldings' = [s \in Symbols |-> SettledHoldings[s] + bought_today[s]]
    BY <2>2 DEF SettledHoldings
  <2>4. QED
    BY <1>3, <2>3 DEF SettledBook!Next, SettledBook!NewDay, DayRolls, NoneBought,
                      SettledHoldings
<1>4. CASE Still
  BY <1>4 DEF Still, SettledHoldings, shares
<1>5. QED
  BY <1>1, <1>2, <1>3, <1>4, StepKinds

\* Under the T+1 rule the whole loop, whatever its data, stops and targets, is a T+1
\* book: sales come out of what was settled before the date began.
THEOREM LoopIsATPlusOneBook == ASSUME TPlusOne PROVE Spec => ImplementsTPlusOneBook
<1>1. Init => SettledBook!Init
  <2> SUFFICES ASSUME Init PROVE SettledBook!Init
    OBVIOUS
  <2>1. \A s \in Symbols : bought_today[s] = 0 /\ shares(s) = 0
    BY DEF Init, BrokerInit, NoneBought, NoPosition, shares
  <2>2. QED
    BY <2>1 DEF Init, NoneBought, SettledBook!Init
<1>2. TypeOK /\ TypeOK' /\ BoughtTodayStillHeld /\ [Next]_vars
        => [SettledBook!Next]_SettledBook!bookVars
  BY StepIsBookStep DEF SettledBook!bookVars, SettledHoldings
<1>3. QED
  BY <1>1, <1>2, TypeCorrect, BoughtTodayIsHeld, PTL
  DEF Spec, ImplementsTPlusOneBook, SettledBook!Spec

-----------------------------------------------------------------------------
(* The fills of a bar *)

\* f is a fill the bar at hand could have made.
FillFits(f) ==
  /\ f.symbol \in DOMAIN rows
  /\ rows[f.symbol].low <= f.price /\ f.price <= rows[f.symbol].open
  /\ EnforceSuspension => rows[f.symbol].volume > 0
  /\ ParticipationRate > 0 =>
       f.shares * Scale <= rows[f.symbol].volume * ParticipationRate

\* The volume cap keeps an amount within its share of the volume.
LEMMA CappedWithin ==
  ASSUME NEW n \in Int, NEW volume \in Nat, ParticipationRate > 0
  PROVE  Capped(n, volume) * Scale <= volume * ParticipationRate
<1>1. ParticipationRate \in Int /\ Scale \in Nat
  BY RulesAssumption, ScaleAssumption
<1> DEFINE most == Portion(volume, ParticipationRate)
<1>2. most \in Int /\ most * Scale <= volume * ParticipationRate
  BY <1>1, PortionBound
<1> HIDE DEF most
<1>3. RoundToLots(most) \in Int /\ RoundToLots(most) <= most
  BY <1>2, QuotientBounds, LotSizeAssumption DEF RoundToLots, LotsOf
<1>4. VolumeCap(volume) = RoundToLots(most)
  BY DEF VolumeCap, most
<1>5. Capped(n, volume) \in Int /\ Capped(n, volume) <= most
  BY <1>1, <1>2, <1>3, <1>4 DEF Capped, Lower
<1>6. Capped(n, volume) * Scale <= most * Scale
  BY <1>1, <1>2, <1>5, ProductOrder
<1>7. /\ Capped(n, volume) * Scale \in Int /\ most * Scale \in Int
      /\ volume * ParticipationRate \in Int
  BY <1>1, <1>2, <1>5
<1>8. QED
  BY <1>2, <1>6, <1>7

\* So does any part of what may be sold.
LEMMA ExitWithin ==
  ASSUME TypeOK, NEW s \in DOMAIN rows, NEW n \in Int, n <= Exitable(s),
         ParticipationRate > 0
  PROVE  n * Scale <= rows[s].volume * ParticipationRate
<1>1. s \in Symbols /\ rows[s].volume \in Nat
  BY RowType DEF BarRow
<1>2. shares(s) \in Nat /\ bought_today[s] \in Nat
  BY <1>1, SharesNat
<1> DEFINE sellable == IF TPlusOne THEN Higher(0, shares(s) - bought_today[s])
                       ELSE shares(s)
<1>3. sellable \in Int
  BY <1>2 DEF Higher
<1>4. Exitable(s) = Capped(sellable, rows[s].volume)
  BY DEF Exitable
<1> HIDE DEF sellable
<1>5. Exitable(s) * Scale <= rows[s].volume * ParticipationRate
  BY <1>1, <1>3, <1>4, CappedWithin
<1>6. Exitable(s) \in Int /\ Scale \in Nat /\ ParticipationRate \in Int
  BY ExitableBound, ScaleAssumption, RulesAssumption
<1>7. n * Scale <= Exitable(s) * Scale
  BY <1>6, ProductOrder
<1>8. /\ n * Scale \in Int /\ Exitable(s) * Scale \in Int
      /\ rows[s].volume * ParticipationRate \in Int
  BY <1>1, <1>6
<1>9. QED
  BY <1>5, <1>7, <1>8

\* The fill an order becomes, and when it is one the bar could have made.
LEMMA FillOfBarOrder ==
  ASSUME TypeOK, NEW s \in DOMAIN rows, NEW order \in Order, order.shares > 0,
         order.symbol = s, Tradable(order),
         rows[s].low <= order.price, order.price <= rows[s].open,
         ParticipationRate > 0 =>
           order.shares * Scale <= rows[s].volume * ParticipationRate
  PROVE  /\ FillOf(order) \in Fill /\ FillFits(FillOf(order))
         /\ FillOf(order).timestamp = clock
<1>1. FillOf(order) \in Fill
  BY FillOfType DEF TypeOK, BrokerTypeOK
<1>2. EnforceSuspension => rows[s].volume > 0
  BY DEF Tradable
<1>3. QED
  BY <1>1, <1>2 DEF FillFits, FillOf

LEMMA StopOrderFits ==
  ASSUME TypeOK, NEW s, StopHit(s), Placeable(StopOrder(s))
  PROVE  /\ FillOf(StopOrder(s)) \in Fill /\ FillFits(FillOf(StopOrder(s)))
         /\ FillOf(StopOrder(s)).timestamp = clock
<1>1. s \in DOMAIN rows
  BY DEF StopHit
<1>2. /\ StopOrder(s) \in Order
      /\ StopOrder(s).symbol = s
      /\ StopOrder(s).shares > 0 /\ StopOrder(s).shares <= Exitable(s)
  BY <1>1, StopOrderType
<1>3. rows[s].low \in Nat /\ rows[s].open \in Nat /\ rows[s].low <= rows[s].open
  BY <1>1, DataAssumption DEF TypeOK, IsDict, BarRow
<1>4. rows[s].low <= StopPrice(account.positions[s])
  BY DEF StopHit, StopTriggered
<1>5. StopOrder(s).price = Lower(rows[s].open, StopPrice(account.positions[s]))
  BY DEF StopOrder, BarOrder
<1>6. StopOrder(s).price \in Nat /\ StopOrder(s).shares \in Int
  BY <1>2 DEF Order
<1>7. rows[s].low <= StopOrder(s).price /\ StopOrder(s).price <= rows[s].open
  <2>1. CASE rows[s].open <= StopPrice(account.positions[s])
    BY <1>3, <1>5, <2>1 DEF Lower
  <2>2. CASE ~ rows[s].open <= StopPrice(account.positions[s])
    <3>1. StopOrder(s).price = StopPrice(account.positions[s])
      BY <1>5, <2>2 DEF Lower
    <3>2. QED
      BY <1>3, <1>4, <1>6, <2>2, <3>1
  <2>3. QED
    BY <2>1, <2>2
<1>8. ParticipationRate > 0 =>
        StopOrder(s).shares * Scale <= rows[s].volume * ParticipationRate
  BY <1>1, <1>2, <1>6, ExitWithin
<1>9. QED
  BY <1>1, <1>2, <1>7, <1>8, FillOfBarOrder DEF Placeable

LEMMA SellOrderFits ==
  ASSUME TypeOK, NEW s \in DOMAIN rows, Placeable(SellOrder(s))
  PROVE  /\ FillOf(SellOrder(s)) \in Fill /\ FillFits(FillOf(SellOrder(s)))
         /\ FillOf(SellOrder(s)).timestamp = clock
<1>1. /\ SellOrder(s) \in Order
      /\ SellOrder(s).symbol = s
      /\ SellOrder(s).shares > 0 /\ SellOrder(s).shares <= Exitable(s)
  BY SellOrderType
<1>2. rows[s].low \in Nat /\ rows[s].open \in Nat /\ rows[s].low <= rows[s].open
  BY DataAssumption DEF TypeOK, IsDict, BarRow
<1>3. SellOrder(s).price = rows[s].open /\ SellOrder(s).shares \in Int
  BY <1>1 DEF SellOrder, BarOrder, Order
<1>4. ParticipationRate > 0 =>
        SellOrder(s).shares * Scale <= rows[s].volume * ParticipationRate
  BY <1>1, <1>3, ExitWithin
<1>5. QED
  BY <1>1, <1>2, <1>3, <1>4, FillOfBarOrder DEF Placeable

\* A purchase also leaves its name within the per-name cap.
LEMMA BuyOrderFits ==
  ASSUME TypeOK, NEW s \in DOMAIN rows, Placeable(BuyOrder(s))
  PROVE  /\ FillOf(BuyOrder(s)) \in Fill /\ FillFits(FillOf(BuyOrder(s)))
         /\ FillOf(BuyOrder(s)).timestamp = clock
         /\ (shares(s) + BuyOrder(s).shares) * BuyOrder(s).price * Scale
              <= MaxPositionWeight * equity
<1> DEFINE most == MaxBuyShares(risk, account, s, rows[s].open, equity)
<1> DEFINE wanted == Lower(Delta(s), most)
<1>1. /\ BuyOrder(s) \in Order
      /\ BuyOrder(s).symbol = s /\ BuyOrder(s).shares > 0
  BY BuyOrderType
<1>2. s \in Symbols /\ rows[s] \in BarRow /\ rows[s].low <= rows[s].open
  BY RowType, DataAssumption DEF TypeOK, IsDict
<1>3. rows[s].low \in Nat /\ rows[s].open \in Nat /\ rows[s].volume \in Nat
  BY <1>2 DEF BarRow
<1>4. account \in Account /\ equity \in Int
  BY DEF TypeOK, BrokerTypeOK
<1>5. most \in Int
  BY <1>2, <1>3, <1>4, MaxBuySharesInt
<1>6. Delta(s) \in Int
  BY DeltaInt
<1>7. wanted \in Int /\ wanted <= most
  BY <1>5, <1>6 DEF Lower
<1>8. /\ BuyOrder(s).shares = Capped(wanted, rows[s].volume)
      /\ BuyOrder(s).price = rows[s].open
  BY DEF BuyOrder, BarOrder
<1> HIDE DEF wanted
<1>9. ParticipationRate > 0 =>
        BuyOrder(s).shares * Scale <= rows[s].volume * ParticipationRate
  BY <1>3, <1>7, <1>8, CappedWithin
<1>10. BuyOrder(s).shares \in Nat \ {0} /\ BuyOrder(s).shares <= most
  <2>1. BuyOrder(s).shares <= wanted
    BY <1>3, <1>7, <1>8, CappedInt
  <2>2. BuyOrder(s).shares \in Int
    BY <1>1 DEF Order
  <2> HIDE DEF most
  <2>3. QED
    BY <1>1, <1>5, <1>7, <2>1, <2>2
<1>11. (shares(s) + BuyOrder(s).shares) * rows[s].open * Scale
         <= MaxPositionWeight * equity
  BY <1>2, <1>3, <1>4, <1>10, MaxBuySharesKeepsCap DEF shares
<1>12. QED
  BY <1>1, <1>2, <1>3, <1>8, <1>9, <1>11, FillOfBarOrder DEF Placeable

\* What a bar's fills are worth saying of.
FillInvariants ==
  /\ OneFillPerBarWithinVolume
  /\ FillsInsideTheBar
  /\ NoReentryOnStopBar
  /\ EntryWithinNameCap

\* No fill is stamped with a bar to come, so a new bar begins without any.
NoFillIsLater == \A i \in 1 .. Len(fills) : fills[i].timestamp.bar <= clock.bar

NameIsNew(s) == \A i \in FillsNow : fills[i].symbol # s

\* s had no fill on this bar and gets one the bar could have made, or none at all; a
\* purchase is of a name that was not stopped, and stays within the name's cap.
Trades(s) ==
  /\ NameIsNew(s)
  /\ UNCHANGED <<clock, rows, equity>>
  /\ stopped' \subseteq stopped \cup {s}
  /\ \A x \in Symbols : x # s => shares(x)' = shares(x)
  /\ \/ UNCHANGED fills
     \/ \E f \in Fill :
          /\ fills' = Append(fills, f)
          /\ f.symbol = s /\ f.timestamp = clock /\ FillFits(f)
          /\ f.side = "buy" =>
               s \notin stopped' /\ shares(s)' * f.price * Scale <= MaxPositionWeight * equity

\* The fills of the bar after one more.
LEMMA FillsNowAfter ==
  ASSUME TypeOK, NEW f \in Fill, fills' = Append(fills, f), f.timestamp = clock,
         UNCHANGED clock
  PROVE  /\ Len(fills) \in Nat /\ Len(fills') = Len(fills) + 1
         /\ FillsNow' = FillsNow \cup {Len(fills) + 1}
         /\ Len(fills) + 1 \notin FillsNow
         /\ \A i \in 1 .. Len(fills) : fills'[i] = fills[i]
         /\ fills'[Len(fills) + 1] = f
<1>1. fills \in Seq(Fill)
  BY DEF TypeOK, BrokerTypeOK
<1>2. /\ Len(fills) \in Nat /\ Len(fills') = Len(fills) + 1
      /\ \A i \in 1 .. Len(fills) : fills'[i] = fills[i]
      /\ fills'[Len(fills) + 1] = f
  BY <1>1
<1>3. 1 .. Len(fills') = (1 .. Len(fills)) \cup {Len(fills) + 1}
  BY <1>2
<1>4. FillsNow' = FillsNow \cup {Len(fills) + 1}
  <2>1. ASSUME NEW i PROVE i \in FillsNow' <=> i \in FillsNow \/ i = Len(fills) + 1
    <3>1. CASE i = Len(fills) + 1
      BY <1>2, <1>3, <3>1 DEF FillsNow
    <3>2. CASE i # Len(fills) + 1
      BY <1>2, <1>3, <3>2 DEF FillsNow
    <3>3. QED
      BY <3>1, <3>2
  <2>2. QED
    BY <2>1
<1>5. Len(fills) + 1 \notin FillsNow
  BY <1>2 DEF FillsNow
<1>6. QED
  BY <1>2, <1>4, <1>5

\* What the invariants say of one fill of the bar.
Sound(f) ==
  /\ FillFits(f)
  /\ f.side = "buy" =>
       /\ f.symbol \notin stopped
       /\ shares(f.symbol) * f.price * Scale <= MaxPositionWeight * equity

LEMMA TradesKeepFillInvariants ==
  ASSUME TypeOK, FillInvariants, NEW s \in Symbols, Trades(s)
  PROVE  FillInvariants'
<1>1. ASSUME NEW i \in FillsNow
      PROVE  /\ i \in 1 .. Len(fills) /\ fills[i] \in Fill
             /\ fills[i].symbol # s /\ Sound(fills[i])
  <2>1. i \in 1 .. Len(fills) /\ fills[i] \in Fill /\ fills[i].symbol # s
    BY <1>1 DEF FillsNow, TypeOK, BrokerTypeOK, Trades, NameIsNew
  <2>2. Sound(fills[i])
    BY <1>1 DEF FillInvariants, OneFillPerBarWithinVolume, FillsInsideTheBar,
                NoReentryOnStopBar, EntryWithinNameCap, Sound, FillFits
  <2>3. QED
    BY <2>1, <2>2
<1>2. ASSUME NEW f \in Fill, Sound(f), f.symbol # s PROVE Sound(f)'
  <2>1. shares(f.symbol)' = shares(f.symbol)
    BY <1>2 DEF Trades, Fill
  <2>2. rows' = rows /\ equity' = equity /\ stopped' \subseteq stopped \cup {s}
    BY DEF Trades
  <2>3. QED
    BY <1>2, <2>1, <2>2 DEF Sound, FillFits, shares
<1>3. \A i, j \in FillsNow : fills[i].symbol = fills[j].symbol => i = j
  BY DEF FillInvariants, OneFillPerBarWithinVolume
<1>4. /\ \A i, j \in FillsNow' : fills'[i].symbol = fills'[j].symbol => i = j
      /\ \A i \in FillsNow' : \E f \in Fill : f = fills'[i] /\ Sound(f)'
  <2>1. CASE UNCHANGED fills
    <3>1. FillsNow' = FillsNow
      BY <2>1 DEF FillsNow, Trades
    <3>2. QED
      BY <2>1, <3>1, <1>1, <1>2, <1>3
  <2>2. ASSUME NEW f \in Fill, fills' = Append(fills, f),
               f.symbol = s, f.timestamp = clock, FillFits(f),
               f.side = "buy" =>
                 s \notin stopped'
                 /\ shares(s)' * f.price * Scale <= MaxPositionWeight * equity
        PROVE  /\ \A i, j \in FillsNow' : fills'[i].symbol = fills'[j].symbol => i = j
               /\ \A i \in FillsNow' : \E g \in Fill : g = fills'[i] /\ Sound(g)'
    <3>1. /\ FillsNow' = FillsNow \cup {Len(fills) + 1}
          /\ Len(fills) + 1 \notin FillsNow
          /\ \A i \in FillsNow : fills'[i] = fills[i]
          /\ fills'[Len(fills) + 1] = f
      BY <1>1, <2>2, FillsNowAfter DEF Trades
    <3>2. \A i, j \in FillsNow' : fills'[i].symbol = fills'[j].symbol => i = j
      BY <1>1, <1>3, <2>2, <3>1
    <3>3. Sound(f)'
      BY <2>2 DEF Sound, FillFits, Trades, shares
    <3>4. QED
      BY <1>1, <1>2, <2>2, <3>1, <3>2, <3>3
  <2>3. QED
    BY <2>1, <2>2 DEF Trades
<1>5. QED
  BY <1>4 DEF FillInvariants, OneFillPerBarWithinVolume, FillsInsideTheBar,
              NoReentryOnStopBar, EntryWithinNameCap, Sound, FillFits

\* Who has traded: before the stops are checked no one; then names stopped, and names
\* of the universe that have had their turn.
HadItsTurn(s) == \E k \in 1 .. Len(Universe) : k < turn /\ s = Universe[k]

FillsFollowTheBar ==
  /\ phase = "mark" => FillsNow = {}
  /\ todo # {} => turn = 1
  /\ phase = "trade" =>
       \A i \in FillsNow :
         /\ fills[i].symbol \notin todo
         /\ fills[i].symbol \in stopped \/ HadItsTurn(fills[i].symbol)

LEMMA StopExitTrades ==
  ASSUME TypeOK, FillsFollowTheBar, NEW s \in Symbols, StopExit(s)
  PROVE  Trades(s)
<1>1. NameIsNew(s)
  BY DEF StopExit, FillsFollowTheBar, NameIsNew
<1>2. /\ UNCHANGED <<clock, rows, equity>>
      /\ stopped' \subseteq stopped \cup {s}
  BY DEF StopExit, markVars
<1>3. \A x \in Symbols : x # s => shares(x)' = shares(x)
  BY StopExitShrinks DEF Shrinks
<1>4. CASE Placeable(StopOrder(s)) /\ PlaceOrder(StopOrder(s)) /\ ~ UNCHANGED fills
  <2>1. fills' = Append(fills, FillOf(StopOrder(s)))
    BY <1>4 DEF PlaceOrder
  <2>2. /\ FillOf(StopOrder(s)) \in Fill /\ FillFits(FillOf(StopOrder(s)))
        /\ FillOf(StopOrder(s)).timestamp = clock
    BY <1>4, StopOrderFits DEF StopExit
  <2>3. FillOf(StopOrder(s)).symbol = s /\ FillOf(StopOrder(s)).side = "sell"
    BY DEF FillOf, StopOrder, BarOrder
  <2>4. QED
    BY <1>1, <1>2, <1>3, <2>1, <2>2, <2>3 DEF Trades
<1>5. CASE UNCHANGED fills
  BY <1>1, <1>2, <1>3, <1>5 DEF Trades
<1>6. QED
  BY <1>4, <1>5 DEF StopExit

\* A name whose turn it is has not traded, unless it was stopped.
LEMMA TurnIsNew ==
  ASSUME TypeOK, FillsFollowTheBar, NEW s \in Symbols, Turn(s), s \notin stopped
  PROVE  NameIsNew(s)
<1>1. phase = "trade" /\ turn <= Len(Universe) /\ s = Universe[turn]
  BY DEF Turn
<1>2. turn \in 1 .. Len(Universe)
  BY <1>1, UniverseAssumption DEF TypeOK
<1>3. ~ HadItsTurn(s)
  BY <1>1, <1>2, UniverseAssumption DEF HadItsTurn
<1>4. QED
  BY <1>1, <1>3 DEF FillsFollowTheBar, NameIsNew

LEMMA ScaleOutTrades ==
  ASSUME TypeOK, FillsFollowTheBar, NEW s \in Symbols, ScaleOut(s)
  PROVE  Trades(s)
<1>1. /\ s \in DOMAIN rows /\ s \notin stopped /\ Turn(s)
      /\ Placeable(SellOrder(s)) /\ PlaceOrder(SellOrder(s))
  BY DEF ScaleOut, Rebalanced, WantsOut
<1>2. NameIsNew(s)
  BY <1>1, TurnIsNew
<1>3. /\ UNCHANGED <<clock, rows, equity>>
      /\ stopped' \subseteq stopped \cup {s}
  BY <1>1 DEF Turn, markVars
<1>4. \A x \in Symbols : x # s => shares(x)' = shares(x)
  BY ScaleOutShrinks DEF Shrinks
<1>5. CASE fills' = Append(fills, FillOf(SellOrder(s)))
  <2>1. /\ FillOf(SellOrder(s)) \in Fill /\ FillFits(FillOf(SellOrder(s)))
        /\ FillOf(SellOrder(s)).timestamp = clock
    BY <1>1, SellOrderFits
  <2>2. FillOf(SellOrder(s)).symbol = s /\ FillOf(SellOrder(s)).side = "sell"
    BY DEF FillOf, SellOrder, BarOrder
  <2>3. QED
    BY <1>2, <1>3, <1>4, <1>5, <2>1, <2>2 DEF Trades
<1>6. CASE UNCHANGED fills
  BY <1>2, <1>3, <1>4, <1>6 DEF Trades
<1>7. QED
  BY <1>1, <1>5, <1>6 DEF PlaceOrder

LEMMA ScaleInTrades ==
  ASSUME TypeOK, FillsFollowTheBar, NEW s \in Symbols, ScaleIn(s)
  PROVE  Trades(s)
<1>1. /\ s \in DOMAIN rows /\ s \notin stopped /\ Turn(s)
      /\ Placeable(BuyOrder(s)) /\ PlaceOrder(BuyOrder(s))
  BY DEF ScaleIn, Rebalanced, WantsIn
<1>2. NameIsNew(s)
  BY <1>1, TurnIsNew
<1>3. /\ UNCHANGED <<clock, rows, equity>>
      /\ stopped' = stopped
  BY <1>1 DEF Turn, markVars
<1>4. \A x \in Symbols : x # s => shares(x)' = shares(x)
  BY ScaleInGrows DEF Grows
<1>5. CASE Accepted(BuyOrder(s)) /\ fills' = Append(fills, FillOf(BuyOrder(s)))
  <2>1. /\ FillOf(BuyOrder(s)) \in Fill /\ FillFits(FillOf(BuyOrder(s)))
        /\ FillOf(BuyOrder(s)).timestamp = clock
        /\ (shares(s) + BuyOrder(s).shares) * BuyOrder(s).price * Scale
             <= MaxPositionWeight * equity
    BY <1>1, BuyOrderFits
  <2>2. /\ FillOf(BuyOrder(s)).symbol = s
        /\ FillOf(BuyOrder(s)).price = BuyOrder(s).price
    BY DEF FillOf, BuyOrder, BarOrder
  <2>3. shares(s)' = shares(s) + BuyOrder(s).shares
    <3>1. BuyOrder(s) \in Order /\ BuyOrder(s).symbol = s /\ BuyOrder(s).side = "buy"
      BY <1>1, BuyOrderType
    <3>2. QED
      BY <1>1, <1>5, <3>1, PlaceOrderEffect DEF TypeOK
  <2>4. QED
    BY <1>1, <1>2, <1>3, <1>4, <1>5, <2>1, <2>2, <2>3 DEF Trades
<1>6. CASE UNCHANGED fills
  BY <1>2, <1>3, <1>4, <1>6 DEF Trades
<1>7. QED
  BY <1>1, <1>5, <1>6 DEF PlaceOrder

\* After a trade the names with a fill are those of before and the one that traded.
LEMMA TradesNames ==
  ASSUME TypeOK, NEW s \in Symbols, Trades(s)
  PROVE  /\ \A i \in FillsNow' :
              \/ fills'[i].symbol = s
              \/ \E j \in FillsNow : fills[j].symbol = fills'[i].symbol
         /\ NoFillIsLater => NoFillIsLater'
<1>1. CASE UNCHANGED fills
  BY <1>1 DEF Trades, FillsNow, NoFillIsLater
<1>2. ASSUME NEW f \in Fill, fills' = Append(fills, f), f.symbol = s, f.timestamp = clock
      PROVE  /\ \A i \in FillsNow' :
                  \/ fills'[i].symbol = s
                  \/ \E j \in FillsNow : fills[j].symbol = fills'[i].symbol
             /\ NoFillIsLater => NoFillIsLater'
  <2>1. /\ Len(fills) \in Nat /\ Len(fills') = Len(fills) + 1
        /\ FillsNow' = FillsNow \cup {Len(fills) + 1}
        /\ \A i \in 1 .. Len(fills) : fills'[i] = fills[i]
        /\ fills'[Len(fills) + 1] = f
    BY <1>2, FillsNowAfter DEF Trades
  <2>2. clock' = clock /\ clock.bar \in Nat
    BY DEF Trades, TypeOK, BrokerTypeOK, Timestamp
  <2>3. NoFillIsLater => NoFillIsLater'
    BY <1>2, <2>1, <2>2 DEF NoFillIsLater
  <2>4. \A i \in FillsNow : i \in 1 .. Len(fills)
    BY DEF FillsNow
  <2>5. QED
    BY <1>2, <2>1, <2>3, <2>4
<1>3. QED
  BY <1>1, <1>2 DEF Trades

BarInv == NoFillIsLater /\ FillsFollowTheBar /\ FillInvariants

LEMMA NewBarBarInv ==
  ASSUME TypeOK, BarInv, NEW d, NEW bars, NewBar(d, bars)
  PROVE  BarInv'
<1>1. fills' = fills /\ clock'.bar = clock.bar + 1 /\ clock.bar \in Nat
  BY DEF NewBar, SetTime, TypeOK, BrokerTypeOK, Timestamp
<1>2. \A i \in 1 .. Len(fills) : fills[i].timestamp.bar \in Nat
  <2>1. \A i \in 1 .. Len(fills) : fills[i] \in Fill
    BY DEF TypeOK, BrokerTypeOK
  <2>2. QED
    BY <2>1 DEF Fill, Timestamp
<1>3. \A i \in 1 .. Len(fills) : fills[i].timestamp.bar < clock'.bar
  BY <1>1, <1>2 DEF BarInv, NoFillIsLater
<1>4. FillsNow' = {} /\ NoFillIsLater'
  BY <1>1, <1>2, <1>3 DEF FillsNow, NoFillIsLater
<1>5. FillInvariants'
  BY <1>4 DEF FillInvariants, OneFillPerBarWithinVolume, FillsInsideTheBar,
              NoReentryOnStopBar, EntryWithinNameCap
<1>6. FillsFollowTheBar'
  BY <1>4 DEF NewBar, BarInv, FillsFollowTheBar
<1>7. QED
  BY <1>4, <1>5, <1>6 DEF BarInv

LEMMA MarkBarInv ==
  ASSUME TypeOK, BarInv, Mark
  PROVE  BarInv'
<1>1. FillsNow' = {} /\ NoFillIsLater'
  BY DEF Mark, BarInv, FillsFollowTheBar, FillsNow, NoFillIsLater
<1>2. FillInvariants'
  BY <1>1 DEF FillInvariants, OneFillPerBarWithinVolume, FillsInsideTheBar,
              NoReentryOnStopBar, EntryWithinNameCap
<1>3. FillsFollowTheBar'
  BY <1>1 DEF Mark, FillsFollowTheBar
<1>4. QED
  BY <1>1, <1>2, <1>3 DEF BarInv

\* A step that trades nothing leaves every fill as it found it.
LEMMA QuietBarInv ==
  ASSUME TypeOK, BarInv,
         UNCHANGED <<account, fills, clock, rows, equity, stopped>>
  PROVE  FillsNow' = FillsNow /\ NoFillIsLater' /\ FillInvariants'
BY DEF BarInv, NoFillIsLater, FillInvariants, OneFillPerBarWithinVolume,
       FillsInsideTheBar, NoReentryOnStopBar, EntryWithinNameCap, FillsNow, shares

LEMMA StepBarInv == TypeOK /\ BarInv /\ [Next]_vars => BarInv'
<1> SUFFICES ASSUME TypeOK, BarInv, [Next]_vars PROVE BarInv'
  OBVIOUS
<1> USE DEF BarInv
<1>1. ASSUME NEW d \in Dates, NEW bars \in BarSets, NewBar(d, bars) PROVE BarInv'
  BY <1>1, NewBarBarInv
<1>2. CASE Mark
  BY <1>2, MarkBarInv
<1>3. ASSUME NEW s \in Symbols, StopExit(s) PROVE BarInv'
  <2>1. Trades(s)
    BY <1>3, StopExitTrades
  <2>2. FillInvariants' /\ NoFillIsLater'
    BY <2>1, TradesKeepFillInvariants, TradesNames
  <2>3. /\ phase = "trade" /\ phase' = phase /\ turn' = turn /\ s \in todo
        /\ todo' = todo \ {s} /\ stopped' = stopped \cup {s}
    BY <1>3 DEF StopExit
  <2>4. \A x : HadItsTurn(x)' <=> HadItsTurn(x)
    BY <2>3 DEF HadItsTurn
  <2>5. FillsFollowTheBar'
    <3>1. todo' # {} => turn' = 1
      BY <2>3 DEF FillsFollowTheBar
    <3>2. ASSUME NEW i \in FillsNow'
          PROVE  /\ fills'[i].symbol \notin todo'
                 /\ fills'[i].symbol \in stopped' \/ HadItsTurn(fills[i].symbol)'
      <4>1. CASE fills'[i].symbol = s
        BY <2>3, <4>1
      <4>2. ASSUME NEW j \in FillsNow, fills[j].symbol = fills'[i].symbol
            PROVE  /\ fills'[i].symbol \notin todo'
                   /\ fills'[i].symbol \in stopped' \/ HadItsTurn(fills[i].symbol)'
        BY <2>3, <4>2 DEF FillsFollowTheBar, HadItsTurn
      <4>3. QED
        BY <2>1, <4>1, <4>2, <3>2, TradesNames
    <3>3. QED
      BY <2>3, <3>1, <3>2 DEF FillsFollowTheBar
  <2>6. QED
    BY <2>2, <2>5
<1>4. ASSUME NEW s \in Symbols, NoStop(s) PROVE BarInv'
  <2>1. FillsNow' = FillsNow /\ NoFillIsLater' /\ FillInvariants'
    BY <1>4, QuietBarInv DEF NoStop, markVars
  <2>2. FillsFollowTheBar'
    BY <1>4, <2>1 DEF NoStop, FillsFollowTheBar, HadItsTurn
  <2>3. QED
    BY <2>1, <2>2
<1>5. ASSUME NEW s \in Symbols, Turn(s),
             Trades(s) \/ (FillsNow' = FillsNow /\ UNCHANGED fills)
      PROVE  FillsFollowTheBar'
  <2>1. /\ phase = "trade" /\ phase' = phase /\ turn' = turn + 1 /\ todo = {}
        /\ todo' = todo /\ stopped' = stopped
        /\ s = Universe[turn] /\ turn \in 1 .. Len(Universe)
    BY <1>5, UniverseAssumption DEF Turn, TypeOK
  <2>2. HadItsTurn(s)'
    BY <2>1 DEF HadItsTurn
  <2>3. ASSUME NEW x, HadItsTurn(x) PROVE HadItsTurn(x)'
    BY <2>1, <2>3 DEF HadItsTurn
  <2>4. ASSUME NEW i \in FillsNow'
        PROVE  fills'[i].symbol \in stopped' \/ HadItsTurn(fills[i].symbol)'
    <3>1. CASE fills'[i].symbol = s
      BY <2>2, <3>1 DEF HadItsTurn
    <3>2. ASSUME NEW j \in FillsNow, fills[j].symbol = fills'[i].symbol
          PROVE  fills'[i].symbol \in stopped' \/ HadItsTurn(fills[i].symbol)'
      <4>1. fills[j].symbol \in stopped \/ HadItsTurn(fills[j].symbol)
        BY <2>1 DEF FillsFollowTheBar
      <4>2. QED
        BY <2>1, <2>3, <3>2, <4>1 DEF HadItsTurn
    <3>3. QED
      BY <1>5, <3>1, <3>2, <2>4, TradesNames
  <2>5. QED
    BY <2>1, <2>4 DEF FillsFollowTheBar
<1>6. ASSUME NEW s \in Symbols, ScaleIn(s) \/ ScaleOut(s) PROVE BarInv'
  <2>1. Trades(s) /\ Turn(s)
    BY <1>6, ScaleInTrades, ScaleOutTrades DEF ScaleIn, ScaleOut
  <2>2. FillInvariants' /\ NoFillIsLater'
    BY <2>1, TradesKeepFillInvariants, TradesNames
  <2>3. QED
    BY <1>5, <2>1, <2>2
<1>7. ASSUME NEW s \in Symbols, Pass(s) PROVE BarInv'
  <2>1. FillsNow' = FillsNow /\ NoFillIsLater' /\ FillInvariants'
    BY <1>7, QuietBarInv DEF Pass, Turn, markVars
  <2>2. QED
    BY <1>5, <1>7, <2>1 DEF Pass
<1>8. CASE CloseBar \/ Finish \/ UNCHANGED vars
  <2>1. FillsNow' = FillsNow /\ NoFillIsLater' /\ FillInvariants'
    BY <1>8, QuietBarInv DEF CloseBar, Finish, vars, markVars
  <2>2. FillsFollowTheBar'
    BY <1>8, <2>1 DEF CloseBar, Finish, vars, FillsFollowTheBar, HadItsTurn
  <2>3. QED
    BY <2>1, <2>2
<1>9. QED
  BY <1>1, <1>2, <1>3, <1>4, <1>6, <1>7, <1>8 DEF Next, Finished

LEMMA BarInvAlways == Spec => []BarInv
<1>1. Init => BarInv
  <2> SUFFICES ASSUME Init PROVE BarInv
    OBVIOUS
  <2>1. FillsNow = {} /\ NoFillIsLater
    BY DEF Init, BrokerInit, FillsNow, NoFillIsLater
  <2>2. FillInvariants
    BY <2>1 DEF FillInvariants, OneFillPerBarWithinVolume, FillsInsideTheBar,
                NoReentryOnStopBar, EntryWithinNameCap
  <2>3. QED
    BY <2>1, <2>2 DEF Init, BarInv, FillsFollowTheBar
<1>2. QED
  BY <1>1, StepBarInv, TypeCorrect, PTL DEF Spec

\* A name trades at most once per bar, however its stop and its rebalance turn out, and
\* never more than the participation cap of the volume, for any lot size and any cap.
THEOREM OneFillPerBar == Spec => []OneFillPerBarWithinVolume
<1>1. BarInv => OneFillPerBarWithinVolume
  BY DEF BarInv, FillInvariants
<1>2. QED
  BY <1>1, BarInvAlways, PTL

\* Every fill is at a price between the bar's low and its open, on a bar that exists and
\* printed volume, whatever the data.
THEOREM FillsAreInsideTheBar == Spec => []FillsInsideTheBar
<1>1. BarInv => FillsInsideTheBar
  BY DEF BarInv, FillInvariants
<1>2. QED
  BY <1>1, BarInvAlways, PTL

\* No name is bought on a bar that hit its stop, blocked or partial exits included.
THEOREM StoppedIsNotReentered == Spec => []NoReentryOnStopBar
<1>1. BarInv => NoReentryOnStopBar
  BY DEF BarInv, FillInvariants
<1>2. QED
  BY <1>1, BarInvAlways, PTL

\* A purchase leaves its name within max_position_weight of the bar's equity, for any
\* rounding to lots, any holding before it and any equity, negative ones included.
THEOREM EntriesKeepToTheNameCap == Spec => []EntryWithinNameCap
<1>1. BarInv => EntryWithinNameCap
  BY DEF BarInv, FillInvariants
<1>2. QED
  BY <1>1, BarInvAlways, PTL

-----------------------------------------------------------------------------
(* Whole lots, and the exits that settle because of them *)

LotsInv == \A s \in Symbols : InLots(shares(s)) /\ InLots(bought_today[s])

LEMMA StepLotsInv == TypeOK /\ LotsInv /\ [Next]_vars => LotsInv'
<1> SUFFICES ASSUME TypeOK, LotsInv, [Next]_vars, NEW x \in Symbols
             PROVE  InLots(account'.positions[x].shares) /\ InLots(bought_today'[x])
  BY DEF LotsInv, InLots, shares
<1>1. /\ shares(x) \in Int /\ InLots(account.positions[x].shares)
      /\ bought_today[x] \in Int /\ InLots(bought_today[x]) /\ InLots(0)
  BY SharesNat, NoLots DEF LotsInv, shares
<1>2. BrokerTypeOK /\ InLots(shares(x))
  BY DEF TypeOK, LotsInv
<1>3. ASSUME NEW d \in Dates, NEW bars \in BarSets, NewBar(d, bars)
      PROVE  account' = account /\ (bought_today' = bought_today \/ bought_today'[x] = 0)
  BY <1>3 DEF NewBar, RollDay, NoneBought, dayVars
<1>4. ASSUME NEW s \in Symbols, StopExit(s)
      PROVE  InLots(account'.positions[x].shares) /\ bought_today' = bought_today
  <2>1. s \in DOMAIN rows
    BY <1>4 DEF StopExit, StopHit
  <2>2. CASE Placeable(StopOrder(s)) /\ PlaceOrder(StopOrder(s))
    <3>1. StopOrder(s) \in Order /\ StopOrder(s).shares > 0
      BY <2>1, <2>2, StopOrderType
    <3>2. QED
      BY <1>4, <1>2, <2>2, <3>1, OrderKeepsLots DEF StopExit, dayVars
  <2>3. CASE UNCHANGED <<account, fills>>
    BY <1>1, <1>4, <2>3 DEF StopExit, dayVars
  <2>4. QED
    BY <1>4, <2>2, <2>3 DEF StopExit
<1>5. ASSUME NEW s \in Symbols, ScaleOut(s)
      PROVE  InLots(account'.positions[x].shares) /\ bought_today' = bought_today
  <2>1. SellOrder(s) \in Order /\ SellOrder(s).shares > 0
    BY <1>5, SellOrderType DEF ScaleOut, Rebalanced, WantsOut
  <2>2. QED
    BY <1>5, <1>2, <2>1, OrderKeepsLots DEF ScaleOut
<1>6. ASSUME NEW s \in Symbols, ScaleIn(s)
      PROVE  InLots(account'.positions[x].shares) /\ InLots(bought_today'[x])
  <2>1. BuyOrder(s) \in Order /\ BuyOrder(s).shares > 0
    BY <1>6, BuyOrderType DEF ScaleIn, Rebalanced, WantsIn
  <2>2. InLots(account'.positions[x].shares)
    BY <1>6, <1>2, <2>1, OrderKeepsLots DEF ScaleIn
  <2>3. CASE ~ Accepted(BuyOrder(s))
    BY <1>1, <1>6, <2>2, <2>3 DEF ScaleIn
  <2>4. CASE Accepted(BuyOrder(s))
    <3>1. BuyOrder(s).shares \in Int /\ InLots(BuyOrder(s).shares)
      BY <2>1, <2>4 DEF Accepted, WholeLots, InLots, Order
    <3>2. InLots(bought_today[x] + BuyOrder(s).shares)
      BY <1>1, <3>1, InLotsSum
    <3>3. bought_today' = [bought_today EXCEPT ![s] = @ + BuyOrder(s).shares]
      BY <1>6, <2>4 DEF ScaleIn
    <3>4. bought_today'[x] \in {bought_today[x], bought_today[x] + BuyOrder(s).shares}
      BY <3>3 DEF TypeOK
    <3>5. QED
      BY <1>1, <2>2, <3>2, <3>4
  <2>5. QED
    BY <2>3, <2>4
<1>7. CASE \/ \E s \in Symbols : NoStop(s) \/ Pass(s)
           \/ Mark \/ CloseBar \/ Finish \/ UNCHANGED vars
  <2>1. account' = account /\ bought_today' = bought_today
    BY <1>7 DEF NoStop, Pass, Mark, CloseBar, Finish, vars, dayVars
  <2>2. QED
    BY <1>1, <2>1
<1>8. QED
  BY <1>1, <1>3, <1>4, <1>5, <1>6, <1>7 DEF Next, Finished

\* What may be sold of a holding in whole lots is part of it, and whole lots.
LEMMA ExitableInLots ==
  ASSUME TypeOK, LotsInv, NEW s \in DOMAIN rows
  PROVE  Exitable(s) \in Int /\ Exitable(s) <= shares(s) /\ InLots(Exitable(s))
<1>1. s \in Symbols /\ rows[s].volume \in Nat
  BY RowType DEF BarRow
<1>2. shares(s) \in Nat /\ bought_today[s] \in Nat
  BY <1>1, SharesNat
<1>3. InLots(shares(s)) /\ InLots(shares(s) - bought_today[s]) /\ InLots(0)
  <2>1. InLots(shares(s)) /\ InLots(bought_today[s])
    BY <1>1 DEF LotsInv
  <2>2. shares(s) \in Int /\ bought_today[s] \in Int
    BY <1>2
  <2>3. QED
    BY <2>1, <2>2, InLotsSum, NoLots
<1> DEFINE sellable == IF TPlusOne THEN Higher(0, shares(s) - bought_today[s])
                       ELSE shares(s)
<1>4. sellable \in Int /\ sellable <= shares(s) /\ InLots(sellable)
  <2>1. CASE TPlusOne /\ 0 <= shares(s) - bought_today[s]
    BY <1>2, <1>3, <2>1 DEF Higher
  <2>2. CASE TPlusOne /\ ~ 0 <= shares(s) - bought_today[s]
    BY <1>2, <1>3, <2>2 DEF Higher
  <2>3. CASE ~ TPlusOne
    BY <1>2, <1>3, <2>3
  <2>4. QED
    BY <2>1, <2>2, <2>3
<1>5. Exitable(s) = Capped(sellable, rows[s].volume)
  BY DEF Exitable
<1> HIDE DEF sellable
<1> DEFINE most == Portion(rows[s].volume, ParticipationRate)
<1>6. InLots(VolumeCap(rows[s].volume))
  <2>1. ParticipationRate \in Int /\ rows[s].volume \in Int
    BY <1>1, RulesAssumption, ScaleAssumption
  <2>2. most \in Int
    BY <2>1, PortionInt
  <2> HIDE DEF most
  <2>3. most \div LotSize \in Int
    BY <2>2, LotSizeAssumption
  <2>4. InLots(RoundToLots(most))
    BY <2>3, LotsOfInLots DEF RoundToLots
  <2>5. QED
    BY <2>4 DEF VolumeCap, most
<1>7. Exitable(s) \in {sellable, VolumeCap(rows[s].volume)}
  BY <1>5 DEF Capped, Lower
<1>8. Exitable(s) \in Int /\ Exitable(s) <= sellable
  BY <1>1, <1>4, <1>5, CappedInt
<1>9. QED
  BY <1>2, <1>4, <1>6, <1>7, <1>8

LEMMA DeltaInLots ==
  ASSUME TypeOK, LotsInv, NEW s \in DOMAIN rows
  PROVE  InLots(Delta(s))
<1>1. s \in Symbols /\ rows[s].open \in Nat
  BY RowType DEF BarRow
<1>2. shares(s) \in Int /\ InLots(shares(s)) /\ InLots(0)
  BY <1>1, SharesNat, NoLots DEF LotsInv
<1> DEFINE w == TargetWeight(s)
<1> DEFINE p == rows[s].open
<1> DEFINE target == TargetShares(w, equity, p)
<1>3. target \in Int /\ InLots(target)
  <2>1. CASE p <= 0 \/ w <= 0
    BY <1>2, <2>1 DEF TargetShares
  <2>2. CASE ~ (p <= 0 \/ w <= 0)
    <3> DEFINE lot == Scale * p * LotSize
    <3> DEFINE k == Truncated(2 * w * equity + lot, 2 * lot)
    <3>1. lot \in Nat \ {0}
      <4>1. Scale * p \in Nat /\ Scale * p > 0
        BY <1>1, <2>2, ScaleAssumption
      <4>2. QED
        BY <4>1, LotSizeAssumption
    <3>2. 2 * w * equity \in Int
      BY WeightInt DEF TypeOK
    <3>3. target = LotsOf(k)
      BY <2>2 DEF TargetShares
    <3> HIDE DEF lot
    <3>4. k \in Int
      BY <3>1, <3>2, TruncatedInt
    <3> HIDE DEF k, target
    <3>5. QED
      BY <3>3, <3>4, LotsOfInLots
  <2>3. QED
    BY <2>1, <2>2
<1>4. Delta(s) = target - shares(s)
  BY DEF Delta
<1> HIDE DEF target
<1>5. QED
  BY <1>2, <1>3, <1>4, InLotsSum

\* An exit of whole lots that are held is one the broker settles.
LEMMA ExitSettles ==
  ASSUME TypeOK, NEW s \in Symbols, NEW n \in Int, n > 0, n <= shares(s), InLots(n),
         NEW order, order.symbol = s, order.side = "sell", order.shares = n
  PROVE  Accepted(order)
BY DEF Accepted, WholeLots, InLots

LEMMA LotsSettleExits == TypeOK /\ LotsInv => ExitsAlwaysSettle
<1> SUFFICES ASSUME TypeOK, LotsInv PROVE ExitsAlwaysSettle
  OBVIOUS
<1>1. ASSUME NEW s \in Symbols, StopHit(s), Placeable(StopOrder(s))
      PROVE  Accepted(StopOrder(s))
  <2>1. /\ StopOrder(s).symbol = s /\ StopOrder(s).side = "sell"
        /\ StopOrder(s).shares = Exitable(s) /\ StopOrder(s).shares > 0
    BY <1>1 DEF StopOrder, BarOrder, Placeable
  <2>2. QED
    BY <1>1, <2>1, ExitableInLots, ExitSettles DEF StopHit
<1>2. ASSUME NEW s \in Symbols, s \in DOMAIN rows, Placeable(SellOrder(s))
      PROVE  Accepted(SellOrder(s))
  <2>1. /\ SellOrder(s).symbol = s /\ SellOrder(s).side = "sell"
        /\ SellOrder(s).shares = Lower(- Delta(s), Exitable(s)) /\ SellOrder(s).shares > 0
    BY <1>2 DEF SellOrder, BarOrder, Placeable
  <2>2. /\ Exitable(s) \in Int /\ Exitable(s) <= shares(s) /\ InLots(Exitable(s))
        /\ Delta(s) \in Int /\ InLots(- Delta(s)) /\ shares(s) \in Int
    BY <1>2, ExitableInLots, DeltaInLots, DeltaInt, InLotsSum, SharesNat
  <2>3. /\ Lower(- Delta(s), Exitable(s)) \in Int
        /\ Lower(- Delta(s), Exitable(s)) <= shares(s)
        /\ InLots(Lower(- Delta(s), Exitable(s)))
    BY <2>2 DEF Lower
  <2>4. QED
    BY <2>1, <2>3, ExitSettles
<1>3. todo \subseteq Symbols
  BY DEF TypeOK
<1>4. turn <= Len(Universe) => Universe[turn] \in Symbols
  BY UniverseAssumption DEF Symbols, TypeOK
<1>5. QED
  BY <1>1, <1>2, <1>3, <1>4 DEF ExitsAlwaysSettle, Rebalanced, WantsOut

\* No exit the loop places is rejected: what T+1 and the volume cap leave of a holding
\* is whole lots of it, for any lot size, volume and participation rate.
THEOREM ExitsSettle == Spec => []ExitsAlwaysSettle
<1>1. Init => LotsInv
  <2> SUFFICES ASSUME Init, NEW s \in Symbols
               PROVE  InLots(shares(s)) /\ InLots(bought_today[s])
    BY DEF LotsInv
  <2>1. shares(s) = 0 /\ bought_today[s] = 0
    BY DEF Init, BrokerInit, NoPosition, NoneBought, shares
  <2>2. QED
    BY <2>1, NoLots
<1>2. QED
  BY <1>1, StepLotsInv, LotsSettleExits, TypeCorrect, PTL DEF Spec

-----------------------------------------------------------------------------
(* The closes holdings are marked at *)

MarksInv ==
  /\ HoldingsAreMarked
  /\ phase = "trade" => DOMAIN rows \subseteq DOMAIN last_price

\* A sale adds no name to those held, and a purchase only a name with a bar.
LEMMA TradesHeld ==
  ASSUME TypeOK, TypeOK', NEW s \in Symbols,
         Shrinks(s) \/ (Grows(s) /\ s \in DOMAIN rows)
  PROVE  Held' \subseteq Held \cup DOMAIN rows
<1>1. \A x \in Symbols : shares(x) \in Nat /\ shares(x)' \in Nat
  BY DEF TypeOK, BrokerTypeOK, Account, Position, shares
<1>2. CASE Shrinks(s)
  <2>1. \A x \in Symbols : shares(x)' <= shares(x)
    BY <1>1, <1>2 DEF Shrinks
  <2>2. QED
    BY <1>1, <2>1 DEF Held
<1>3. CASE Grows(s) /\ s \in DOMAIN rows
  BY <1>3 DEF Grows, Held
<1>4. QED
  BY <1>2, <1>3

LEMMA StepMarksInv == TypeOK /\ TypeOK' /\ MarksInv /\ [Next]_vars => MarksInv'
<1> SUFFICES ASSUME TypeOK, TypeOK', MarksInv, [Next]_vars PROVE MarksInv'
  OBVIOUS
<1> USE DEF MarksInv, HoldingsAreMarked
<1>1. ASSUME NEW d \in Dates, NEW bars \in BarSets, NewBar(d, bars) PROVE MarksInv'
  BY <1>1 DEF NewBar, markVars, Held, shares
<1>2. CASE Mark
  <2>1. DOMAIN last_price' = DOMAIN rows \cup DOMAIN last_price /\ rows' = rows
    BY <1>2 DEF Mark
  <2>2. Held' = Held
    BY <1>2 DEF Mark, Held, shares
  <2>3. QED
    BY <2>1, <2>2
<1>3. ASSUME NEW s \in Symbols, StopExit(s) \/ ScaleOut(s) \/ ScaleIn(s) PROVE MarksInv'
  <2>1. phase = "trade" /\ rows' = rows /\ last_price' = last_price /\ s \in DOMAIN rows
    BY <1>3 DEF StopExit, StopHit, ScaleOut, ScaleIn, Turn, WantsIn, WantsOut,
                Rebalanced, markVars
  <2>2. Shrinks(s) \/ Grows(s)
    BY <1>3, StopExitShrinks, ScaleOutShrinks, ScaleInGrows
  <2>3. Held' \subseteq Held \cup DOMAIN rows
    BY <2>1, <2>2, TradesHeld
  <2>4. QED
    BY <2>1, <2>3
<1>4. CASE \/ \E s \in Symbols : NoStop(s) \/ Pass(s)
           \/ CloseBar \/ Finish \/ UNCHANGED vars
  <2>1. account' = account /\ rows' = rows /\ last_price' = last_price
        /\ (phase' = phase \/ phase' # "trade")
    BY <1>4 DEF NoStop, Pass, Turn, CloseBar, Finish, vars, markVars
  <2>2. QED
    BY <2>1 DEF Held, shares
<1>5. QED
  BY <1>1, <1>2, <1>3, <1>4 DEF Next, Finished

\* Every holding of every run has a close to be marked at, on the bars it has none
\* itself too.
THEOREM HoldingsHaveMarks == Spec => []HoldingsAreMarked
<1>1. Init => MarksInv
  BY DEF Init, BrokerInit, NoPosition, MarksInv, HoldingsAreMarked, Held, shares
<1>2. MarksInv => HoldingsAreMarked
  BY DEF MarksInv
<1>3. QED
  BY <1>1, <1>2, StepMarksInv, TypeCorrect, PTL DEF Spec

-----------------------------------------------------------------------------
(* The rebalance schedule *)

\* The entries in effect are those up to the index, and the budgets are the last one's.
ScheduleInv ==
  /\ \A i \in 1 .. Len(Schedule) : Schedule[i].date <= clock.date <=> i <= sched_idx
  /\ active_budget = IF sched_idx > 0 THEN Schedule[sched_idx].weights ELSE NoBudget

LEMMA ScheduleType ==
  /\ Len(Schedule) \in Nat
  /\ \A i \in 1 .. Len(Schedule) : Schedule[i].date \in Nat \ {0}
  /\ \A i, j \in 1 .. Len(Schedule) : i <= j => Schedule[i].date <= Schedule[j].date
<1>1. /\ Len(Schedule) \in Nat
      /\ \A i \in 1 .. Len(Schedule) : Schedule[i].date \in Nat \ {0}
      /\ \A i, j \in 1 .. Len(Schedule) : i < j => Schedule[i].date <= Schedule[j].date
  BY BudgetAssumption
<1>2. ASSUME NEW i \in 1 .. Len(Schedule), NEW j \in 1 .. Len(Schedule), i <= j
      PROVE  Schedule[i].date <= Schedule[j].date
  <2>1. CASE i = j
    BY <1>1, <2>1
  <2>2. CASE i < j
    BY <1>1, <2>2
  <2>3. QED
    BY <1>1, <1>2, <2>1, <2>2
<1>3. QED
  BY <1>1, <1>2

\* The entries that come due on a date are a run of them from the index on, the whole
\* run of those whose date has come, because the schedule is sorted.
LEMMA DueEntriesRun ==
  ASSUME TypeOK, NEW d \in Nat
  PROVE  LET m == sched_idx + Cardinality(DueEntries(d))
         IN  /\ m \in sched_idx .. Len(Schedule)
             /\ \A i \in sched_idx + 1 .. Len(Schedule) : Schedule[i].date <= d <=> i <= m
<1>1. sched_idx \in Nat /\ Len(Schedule) \in Nat /\ sched_idx <= Len(Schedule)
  BY ScheduleType DEF TypeOK
<1> DEFINE Later == {j \in sched_idx + 1 .. Len(Schedule) + 1 :
                       j = Len(Schedule) + 1 \/ Schedule[j].date > d}
<1>2. Later \subseteq Nat /\ Len(Schedule) + 1 \in Later
  BY <1>1
<1>3. PICK first \in Later : \A j \in Later : first <= j
  BY <1>2, LeastNatural
<1>4. first \in sched_idx + 1 .. Len(Schedule) + 1
  BY <1>3
<1>5. \A i \in sched_idx + 1 .. Len(Schedule) : Schedule[i].date <= d <=> i < first
  <2>1. ASSUME NEW i \in sched_idx + 1 .. Len(Schedule), i < first
        PROVE  Schedule[i].date <= d
    <3>1. i \notin Later
      BY <1>1, <1>3, <1>4, <2>1
    <3>2. Schedule[i].date \in Nat
      BY <1>1, ScheduleType
    <3>3. QED
      BY <1>1, <3>1, <3>2
  <2>2. ASSUME NEW i \in sched_idx + 1 .. Len(Schedule), ~ (i < first)
        PROVE  ~ (Schedule[i].date <= d)
    <3>1. first \in 1 .. Len(Schedule) /\ first <= i
      BY <1>1, <1>4, <2>2
    <3>2. Schedule[first].date > d /\ Schedule[first].date \in Nat
      BY <1>1, <1>3, <3>1, ScheduleType
    <3>3. Schedule[first].date <= Schedule[i].date /\ Schedule[i].date \in Nat
      BY <1>1, <3>1, ScheduleType
    <3>4. QED
      BY <3>2, <3>3
  <2>3. QED
    BY <2>1, <2>2
<1> HIDE DEF Later
<1>6. DueEntries(d) = sched_idx + 1 .. first - 1
  <2>1. ASSUME NEW i \in sched_idx + 1 .. Len(Schedule)
        PROVE  (\A j \in sched_idx + 1 .. i : Schedule[j].date <= d) <=> i < first
    <3>1. CASE i < first
      <4>1. \A j \in sched_idx + 1 .. i : j \in sched_idx + 1 .. Len(Schedule) /\ j < first
        BY <1>1, <1>4, <3>1
      <4>2. QED
        BY <1>5, <3>1, <4>1
    <3>2. CASE ~ (i < first)
      <4>1. i \in sched_idx + 1 .. i
        BY <1>1
      <4>2. QED
        BY <1>5, <3>2, <4>1
    <3>3. QED
      BY <3>1, <3>2
  <2>2. DueEntries(d) = {i \in sched_idx + 1 .. Len(Schedule) : i < first}
    BY <2>1 DEF DueEntries
  <2>3. QED
    BY <1>1, <1>4, <2>2
<1>7. sched_idx + 1 \in Int /\ first - 1 \in Int
  BY <1>1, <1>4
<1>8. Cardinality(sched_idx + 1 .. first - 1)
        = IF sched_idx + 1 > first - 1 THEN 0 ELSE (first - 1) - (sched_idx + 1) + 1
  BY ONLY <1>7, FS_Interval
<1>9. sched_idx + Cardinality(DueEntries(d)) = first - 1
  BY <1>1, <1>4, <1>6, <1>8
<1>10. QED
  BY <1>1, <1>4, <1>5, <1>9

LEMMA StepScheduleInv == TypeOK /\ ScheduleInv /\ [Next]_vars => ScheduleInv'
<1> SUFFICES ASSUME TypeOK, ScheduleInv, [Next]_vars PROVE ScheduleInv'
  OBVIOUS
<1>1. ASSUME NEW d \in Dates, NEW bars \in BarSets, NewBar(d, bars) PROVE ScheduleInv'
  <2>1. clock'.date = d /\ d \in Nat /\ clock.date \in Nat
    BY <1>1, DataAssumption DEF NewBar, SetTime, TypeOK, BrokerTypeOK, Timestamp
  <2>2. CASE d > clock.date /\ RollDay(d)
    <3>1. /\ sched_idx' = sched_idx + Cardinality(DueEntries(d))
          /\ active_budget' = IF sched_idx' > 0 THEN Schedule[sched_idx'].weights
                              ELSE NoBudget
      BY <2>2 DEF RollDay, AdvanceSchedule
    <3>2. /\ sched_idx' \in sched_idx .. Len(Schedule)
          /\ \A i \in sched_idx + 1 .. Len(Schedule) :
               Schedule[i].date <= d <=> i <= sched_idx'
      BY <2>1, <3>1, DueEntriesRun
    <3>3. ASSUME NEW i \in 1 .. Len(Schedule)
          PROVE  Schedule[i].date <= d <=> i <= sched_idx'
      <4>1. sched_idx \in Nat /\ Len(Schedule) \in Nat /\ Schedule[i].date \in Nat
        BY ScheduleType DEF TypeOK
      <4>2. CASE i <= sched_idx
        BY <2>1, <2>2, <3>2, <4>1, <4>2 DEF ScheduleInv
      <4>3. CASE ~ (i <= sched_idx)
        BY <3>2, <4>1, <4>3
      <4>4. QED
        BY <4>2, <4>3
    <3>4. QED
      BY <2>1, <3>1, <3>3 DEF ScheduleInv
  <2>3. CASE d = clock.date /\ UNCHANGED <<dayVars, risk>>
    BY <2>1, <2>3 DEF dayVars, ScheduleInv
  <2>4. QED
    BY <1>1, <2>2, <2>3 DEF NewBar
<1>2. CASE \/ Mark \/ CloseBar \/ Finish \/ UNCHANGED vars
           \/ \E s \in Symbols : StopExit(s) \/ NoStop(s) \/ ScaleIn(s) \/ ScaleOut(s)
                                   \/ Pass(s)
  <2>1. clock' = clock /\ sched_idx' = sched_idx /\ active_budget' = active_budget
    BY <1>2 DEF Mark, CloseBar, Finish, vars, StopExit, NoStop, ScaleIn, ScaleOut, Pass,
                Turn, dayVars
  <2>2. QED
    BY <2>1 DEF ScheduleInv
<1>3. QED
  BY <1>1, <1>2 DEF Next, Finished

\* What the index says is what the property asks for.
LEMMA IndexIsLatest == TypeOK /\ ScheduleInv => BudgetIsLatestInEffect
<1> SUFFICES ASSUME TypeOK, ScheduleInv PROVE BudgetIsLatestInEffect
  OBVIOUS
<1>1. sched_idx \in Nat /\ Len(Schedule) \in Nat /\ sched_idx <= Len(Schedule)
  BY ScheduleType DEF TypeOK
<1>2. InEffect = 1 .. sched_idx
  BY <1>1 DEF InEffect, ScheduleInv
<1>3. CASE sched_idx = 0
  BY <1>1, <1>2, <1>3 DEF ScheduleInv, BudgetIsLatestInEffect
<1>4. CASE sched_idx > 0
  <2> DEFINE latest == CHOOSE i \in InEffect : \A j \in InEffect : j <= i
  <2>1. sched_idx \in InEffect /\ \A j \in InEffect : j <= sched_idx
    BY <1>1, <1>2, <1>4
  <2>2. latest \in InEffect /\ \A j \in InEffect : j <= latest
    BY <2>1
  <2>3. latest = sched_idx
    <3> HIDE DEF latest
    <3>1. QED
      BY <1>1, <1>2, <2>1, <2>2
  <2>4. QED
    BY <1>4, <2>1, <2>3 DEF ScheduleInv, BudgetIsLatestInEffect
<1>5. QED
  BY <1>1, <1>3, <1>4

\* The budgets in force are those of the latest entry whose date has come, for any
\* sorted schedule, entries of one date included, and any jump of the calendar.
THEOREM BudgetFollowsSchedule == Spec => []BudgetIsLatestInEffect
<1>1. Init => ScheduleInv
  <2> SUFFICES ASSUME Init PROVE ScheduleInv
    OBVIOUS
  <2>1. clock.date = 0 /\ sched_idx = 0 /\ active_budget = NoBudget
    BY DEF Init, BrokerInit
  <2>2. QED
    BY <2>1, ScheduleType DEF ScheduleInv
<1>2. QED
  BY <1>1, StepScheduleInv, IndexIsLatest, TypeCorrect, PTL DEF Spec

\* A budget of nothing is a target of nothing.
LEMMA DroppedWantsNothing ==
  ASSUME TypeOK, NEW s \in DOMAIN rows, Schedule # <<>>, active_budget[s] = 0
  PROVE  ~ WantsIn(s)
<1>1. s \in Symbols /\ rows[s].signal \in Int
  BY RowType DEF BarRow
<1>2. Portion(rows[s].signal, Budget(s)) = 0
  <2>1. rows[s].signal * 0 = 0
    BY <1>1
  <2>2. 0 \div Scale = 0
    BY ScaleAssumption
  <2>3. QED
    BY <2>1, <2>2 DEF Portion, Budget
<1>3. TargetWeight(s) <= 0
  BY <1>2, LimitsAssumption, ScaleAssumption DEF TargetWeight, Lower, Higher
<1>4. TargetShares(TargetWeight(s), equity, rows[s].open) = 0
  BY <1>3 DEF TargetShares
<1>5. shares(s) \in Nat
  BY <1>1, SharesNat
<1>6. QED
  BY <1>4, <1>5 DEF WantsIn, Delta

LEMMA StepDroppedNamesNeverGrow ==
  ASSUME TypeOK, TypeOK', [Next]_vars, NEW x \in Symbols,
         Schedule # <<>>, active_budget[x] = 0
  PROVE  shares(x)' <= shares(x)
<1>1. shares(x) \in Nat /\ shares(x)' \in Nat
  BY DEF TypeOK, BrokerTypeOK, Account, Position, shares
<1>2. ASSUME NEW s \in Symbols, Shrinks(s) PROVE shares(x)' <= shares(x)
  BY <1>1, <1>2 DEF Shrinks
<1>3. ASSUME NEW s \in Symbols, ScaleIn(s) PROVE shares(x)' <= shares(x)
  <2>1. Grows(s) /\ s \in DOMAIN rows /\ WantsIn(s)
    BY <1>3, ScaleInGrows DEF ScaleIn, Rebalanced
  <2>2. x # s
    BY <2>1, DroppedWantsNothing
  <2>3. QED
    BY <1>1, <2>1, <2>2 DEF Grows
<1>4. ASSUME account' = account PROVE shares(x)' <= shares(x)
  BY <1>1, <1>4 DEF shares
<1>5. ASSUME NEW s \in Symbols, StopExit(s) \/ ScaleOut(s) PROVE Shrinks(s)
  BY <1>5, StopExitShrinks, ScaleOutShrinks
<1>6. CASE \/ \E d \in Dates, bars \in BarSets : NewBar(d, bars)
           \/ \E s \in Symbols : NoStop(s) \/ Pass(s)
           \/ Mark \/ CloseBar \/ Finish \/ UNCHANGED vars
  BY <1>4, <1>6 DEF NewBar, NoStop, Pass, Mark, CloseBar, Finish, vars
<1>7. QED
  BY <1>2, <1>3, <1>5, <1>6 DEF Next, Finished

\* A name the budgets in force leave out is never bought, whatever the signal, the
\* prices and the static weights say.
THEOREM DroppedNamesOnlyShrink == Spec => DroppedNamesNeverGrow
<1>1. TypeOK /\ TypeOK' /\ [Next]_vars =>
        [\A s \in Symbols :
           Schedule # <<>> /\ active_budget[s] = 0 => shares(s)' <= shares(s)]_vars
  BY StepDroppedNamesNeverGrow
<1>2. QED
  BY <1>1, TypeCorrect, PTL DEF Spec, DroppedNamesNeverGrow

-----------------------------------------------------------------------------
(* The loop is one more customer of the broker *)

LEMMA StepIsBrokerStep ==
  ASSUME TypeOK, [Next]_vars
  PROVE  [BrokerNext]_brokerVars
<1>1. ASSUME NEW d \in Dates, NEW bars \in BarSets, NewBar(d, bars)
      PROVE  [BrokerNext]_brokerVars
  <2>1. [date |-> d, bar |-> clock.bar + 1] \in Timestamp
    BY DataAssumption DEF TypeOK, BrokerTypeOK, Timestamp
  <2>2. SetTime([date |-> d, bar |-> clock.bar + 1]) /\ UNCHANGED <<account, fills>>
    BY <1>1 DEF NewBar
  <2>3. QED
    BY <2>1, <2>2 DEF BrokerNext
<1>2. ASSUME NEW s \in Symbols, StopExit(s)
      PROVE  [BrokerNext]_brokerVars
  <2>1. clock' = clock /\ s \in DOMAIN rows
    BY <1>2 DEF StopExit, StopHit
  <2>2. CASE Placeable(StopOrder(s)) /\ PlaceOrder(StopOrder(s))
    BY <2>1, <2>2, StopOrderType DEF BrokerNext
  <2>3. CASE UNCHANGED <<account, fills>>
    BY <2>1, <2>3 DEF brokerVars
  <2>4. QED
    BY <1>2, <2>2, <2>3 DEF StopExit
<1>3. ASSUME NEW s \in Symbols, ScaleIn(s)
      PROVE  [BrokerNext]_brokerVars
  BY <1>3, BuyOrderType DEF ScaleIn, Turn, Rebalanced, WantsIn, BrokerNext
<1>4. ASSUME NEW s \in Symbols, ScaleOut(s)
      PROVE  [BrokerNext]_brokerVars
  BY <1>4, SellOrderType DEF ScaleOut, Turn, Rebalanced, WantsOut, BrokerNext
<1>5. CASE \/ \E s \in Symbols : NoStop(s) \/ Pass(s)
           \/ Mark \/ CloseBar \/ Finish \/ UNCHANGED vars
  BY <1>5 DEF NoStop, Pass, Turn, Mark, CloseBar, Finish, vars, brokerVars
<1>6. QED
  BY <1>1, <1>2, <1>3, <1>4, <1>5 DEF Next, Finished

\* The backtest drives the broker only through what the broker offers, a clock and
\* orders of the right types, so it is one of the broker's behaviours.
THEOREM LoopIsABroker == Spec => BrokerSpec
<1>1. Init => BrokerInit
  BY DEF Init
<1>2. QED
  BY <1>1, TypeCorrect, StepIsBrokerStep, PTL DEF Spec, BrokerSpec

\* What the broker promises of its account, its averages and its debt is so in every
\* backtest, whatever the data, the limits and the schedule.
THEOREM LoopKeepsTheBrokersPromises ==
  Spec => /\ AccountIsReplayOfFills
          /\ []AvgPriceWithinPricesPaid
          /\ []OnlyADearSaleMakesDebt
BY LoopIsABroker, BrokerKeepsALedger, AverageIsOfPricesPaid, DebtHasACause, PTL

=============================================================================
