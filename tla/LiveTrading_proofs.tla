------------------------- MODULE LiveTrading_proofs --------------------------
(***************************************************************************)
(* The live composition is an engine over some broker, so what is proved   *)
(* of the engine holds with the terminal trading in between its queries.   *)
(***************************************************************************)
EXTENDS LiveTrading, ExecutionEngine_proofs

LEMMA AnswersType ==
  ASSUME TypeOK
  PROVE  CashAnswers \subseteq Int /\ PositionAnswers \subseteq [Symbols -> Position]
<1>1. account.cash \in Int /\ account.positions \in [Symbols -> Position]
  BY DEF TypeOK, Account
<1>2. NoPositions \in [Symbols -> Position]
  BY DEF NoPositions, NoPosition, Position
<1>3. QED
  BY <1>1, <1>2 DEF CashAnswers, PositionAnswers

\* Every step of the composition is one of the engine's or leaves the engine alone.
LEMMA StepIsEngineStep ==
  ASSUME TypeOK, [Next]_vars
  PROVE  [EngineNext]_engineVars
<1>1. CASE Scan
  <2>1. CASE \E cash \in CashAnswers : AsksCash(cash)
    BY <2>1, AnswersType DEF EngineNext
  <2>2. CASE \E positions \in PositionAnswers :
               \/ AsksPositions(positions)
               \/ turn <= Len(Universe) /\ AsksShares(positions[Name].shares)
    <3>1. PICK positions \in [Symbols -> Position] :
               \/ AsksPositions(positions)
               \/ turn <= Len(Universe) /\ AsksShares(positions[Name].shares)
      BY <2>2, AnswersType
    <3>2. CASE AsksPositions(positions)
      BY <3>2 DEF EngineNext
    <3>3. CASE turn <= Len(Universe) /\ AsksShares(positions[Name].shares)
      <4>1. Name \in Symbols
        BY <3>3, UniverseAssumption DEF TypeOK, EngineTypeOK, Name, Symbols
      <4>2. positions[Name].shares \in Nat
        BY <4>1 DEF Position
      <4>3. QED
        BY <3>3, <4>2 DEF EngineNext
    <3>4. QED
      BY <3>1, <3>2, <3>3
  <2>3. CASE AsksNothing
    BY <2>3 DEF EngineNext
  <2>4. QED
    BY <1>1, <2>1, <2>2, <2>3 DEF Scan
<1>2. CASE OrderStock \/ QueryFails \/ Throw
  BY <1>2 DEF OrderStock, QueryFails, Throw, EngineNext
<1>3. CASE Terminal \/ NewDay \/ Finished \/ UNCHANGED vars
  BY <1>3 DEF Terminal, Trade, Cancel, NewDay, Finished, vars
<1>4. QED
  BY <1>1, <1>2, <1>3 DEF Next

-----------------------------------------------------------------------------
(* The terminal's types *)

TerminalOK ==
  /\ account \in Account
  /\ working \in Seq(LiveOrder)
  /\ {today, started_on} \subseteq 0 .. MaxDate

LEMMA TradedType ==
  ASSUME TerminalOK, NEW i \in 1 .. Len(working), NEW n \in 1 .. working[i].shares,
         Trade(i, n)
  PROVE  account' \in Account
<1> DEFINE order == working[i]
<1> DEFINE pos == account.positions[order.symbol]
<1>1. order \in LiveOrder
  BY DEF TerminalOK
<1>2. /\ order.symbol \in Symbols /\ order.shares \in Int /\ order.price \in Nat
      /\ order.side \in Side /\ n \in Nat \ {0}
  BY <1>1 DEF LiveOrder
<1>3. /\ account.cash \in Int /\ account.positions \in [Symbols -> Position]
      /\ pos.shares \in Nat /\ pos.avg_price \in Nat /\ pos \in Position
  BY <1>2 DEF TerminalOK, Account, Position
<1>4. account' = Traded(order, n)
  BY DEF Trade
<1>5. n * order.price \in Nat
  BY <1>2, ProductNat
<1> HIDE DEF order
<1>6. CASE order.side = "buy"
  <2> DEFINE total == pos.shares + n
  <2> DEFINE new == [shares    |-> total,
                     avg_price |-> (pos.avg_price * pos.shares + n * order.price) \div total]
  <2> DEFINE paid == IF FreezesCash THEN 0 ELSE n * order.price
  <2>1. pos.avg_price * pos.shares \in Nat
    BY <1>3, ProductNat
  <2>2. total \in Nat \ {0} /\ pos.avg_price * pos.shares + n * order.price \in Nat
    <3>1. /\ \A a, b \in Nat : a + b \in Nat
          /\ \A a \in Nat, b \in Nat \ {0} : a + b \in Nat \ {0}
      OBVIOUS
    <3>2. pos.avg_price * pos.shares + n * order.price \in Nat
      BY <1>5, <2>1, <3>1, Zenon
    <3>3. total \in Nat \ {0}
      BY <1>2, <1>3, <3>1, Zenon
    <3>4. QED
      BY <3>2, <3>3, Zenon
  <2>3. (pos.avg_price * pos.shares + n * order.price) \div total \in Nat
    BY <2>2
  <2>4. new \in Position
    BY <2>2, <2>3 DEF Position
  <2>5. paid \in Int
    BY <1>5
  <2>6. account' = [cash      |-> account.cash - paid,
                    positions |-> [account.positions EXCEPT ![order.symbol] = new]]
    BY <1>4, <1>6 DEF Traded
  <2> HIDE DEF new, paid
  <2>7. [account.positions EXCEPT ![order.symbol] = new] \in [Symbols -> Position]
    BY <1>3, <2>4
  <2>8. account.cash - paid \in Int
    BY <1>3, <2>5
  <2>9. QED
    BY <2>6, <2>7, <2>8 DEF Account
<1>7. CASE order.side # "buy"
  <2> DEFINE new == IF pos.shares = n THEN NoPosition ELSE [pos EXCEPT !.shares = @ - n]
  <2>1. order.side = "sell"
    BY <1>2, <1>7 DEF Side
  <2>2. n <= pos.shares
    BY <2>1 DEF Trade, order
  <2>3. pos.shares - n \in Nat
    BY <1>2, <1>3, <2>2
  <2>4. new \in Position
    BY <1>3, <2>3 DEF Position, NoPosition
  <2>5. account' = [cash      |-> account.cash + n * order.price,
                    positions |-> [account.positions EXCEPT ![order.symbol] = new]]
    BY <1>4, <1>7 DEF Traded
  <2> HIDE DEF new
  <2>6. [account.positions EXCEPT ![order.symbol] = new] \in [Symbols -> Position]
    BY <1>3, <2>4
  <2>7. account.cash + n * order.price \in Int
    BY <1>3, <1>5
  <2>8. QED
    BY <2>5, <2>6, <2>7 DEF Account
<1>8. QED
  BY <1>6, <1>7

LEMMA FrozenInt ==
  ASSUME NEW order \in LiveOrder
  PROVE  Frozen(order) \in Int
BY DEF Frozen, LiveOrder

LEMMA CashMoved ==
  ASSUME account \in Account, NEW c \in Int,
         account' = [account EXCEPT !.cash = c]
  PROVE  account' \in Account
BY DEF Account

LEMMA WithoutType ==
  ASSUME working \in Seq(LiveOrder), NEW i \in 1 .. Len(working)
  PROVE  Without(i) \in Seq(LiveOrder)
<1>1. Len(working) \in Nat /\ Len(working) - 1 \in Nat
  OBVIOUS
<1>2. \A j \in 1 .. Len(working) - 1 :
        working[IF j < i THEN j ELSE j + 1] \in LiveOrder
  BY <1>1
<1>3. Without(i) \in [1 .. Len(working) - 1 -> LiveOrder]
  BY <1>2 DEF Without
<1>4. QED
  BY <1>1, <1>3

LEMMA StepTerminalOK ==
  ASSUME TypeOK, TerminalOK, [Next]_vars
  PROVE  TerminalOK'
<1>1. /\ account \in Account /\ account.cash \in Int
      /\ working \in Seq(LiveOrder) /\ MaxDate \in Nat \ {0}
      /\ today \in 0 .. MaxDate /\ started_on \in 0 .. MaxDate
  BY TerminalAssumption DEF TerminalOK, Account
<1>2. CASE Scan
  BY <1>1, <1>2 DEF Scan, terminalVars, TerminalOK
<1>3. CASE OrderStock
  <2>1. call \in LiveOrder
    BY <1>3 DEF OrderStock, TypeOK, EngineTypeOK
  <2>2. CASE Accepted
    <3>1. Frozen(call) \in Int /\ account.cash - Frozen(call) \in Int
      BY <1>1, <2>1, FrozenInt
    <3>2. account' = [account EXCEPT !.cash = account.cash - Frozen(call)]
      BY <2>2 DEF Accepted
    <3>3. account' \in Account
      BY <1>1, <3>1, <3>2, CashMoved
    <3>4. working' \in Seq(LiveOrder)
      BY <1>1, <2>1, <2>2 DEF Accepted
    <3>5. QED
      BY <1>1, <1>3, <3>3, <3>4 DEF OrderStock, dates, TerminalOK
  <2>3. CASE Refused
    BY <1>1, <1>3, <2>3 DEF OrderStock, Refused, terminalVars, dates, TerminalOK
  <2>4. QED
    BY <1>3, <2>2, <2>3 DEF OrderStock
<1>4. CASE Terminal
  <2>1. PICK i \in 1 .. Len(working) :
          \/ \E n \in 1 .. working[i].shares : n % LotSize = 0 /\ Trade(i, n)
          \/ Cancel(i)
    BY <1>4 DEF Terminal
  <2>2. working[i] \in LiveOrder /\ Without(i) \in Seq(LiveOrder)
    BY <1>1, WithoutType
  <2>3. CASE \E n \in 1 .. working[i].shares : n % LotSize = 0 /\ Trade(i, n)
    <3>1. PICK n \in 1 .. working[i].shares : Trade(i, n)
      BY <2>3
    <3>2. account' \in Account
      BY <3>1, TradedType
    <3>3. n \in Int /\ working[i].shares \in Int
      BY <2>2 DEF LiveOrder
    <3>4. [working[i] EXCEPT !.shares = @ - n] \in LiveOrder
      <4>1. ASSUME NEW o \in LiveOrder, NEW m \in Int
            PROVE  [o EXCEPT !.shares = @ - m] \in LiveOrder
        BY DEF LiveOrder
      <4>2. QED
        BY <2>2, <3>3, <4>1
    <3>5. [working EXCEPT ![i] = [working[i] EXCEPT !.shares = @ - n]] \in Seq(LiveOrder)
      BY <1>1, <3>4
    <3>6. working' \in Seq(LiveOrder)
      BY <2>2, <3>1, <3>5 DEF Trade
    <3>7. QED
      BY <1>1, <3>1, <3>2, <3>6 DEF Trade, dates, TerminalOK
  <2>4. CASE Cancel(i)
    <3>1. Frozen(working[i]) \in Int /\ account.cash + Frozen(working[i]) \in Int
      BY <1>1, <2>2, FrozenInt
    <3>2. account' = [account EXCEPT !.cash = account.cash + Frozen(working[i])]
      BY <2>4 DEF Cancel
    <3>3. account' \in Account
      BY <1>1, <3>1, <3>2, CashMoved
    <3>4. QED
      BY <1>1, <2>2, <2>4, <3>3 DEF Cancel, dates, TerminalOK
  <2>5. QED
    BY <2>1, <2>3, <2>4
<1>5. CASE NewDay
  BY <1>1, <1>5 DEF NewDay, terminalVars, TerminalOK
<1>6. CASE QueryFails \/ Throw \/ Finished \/ UNCHANGED vars
  BY <1>1, <1>6 DEF QueryFails, Throw, Finished, vars, terminalVars, dates, TerminalOK
<1>7. QED
  BY <1>2, <1>3, <1>4, <1>5, <1>6 DEF Next

-----------------------------------------------------------------------------

LiveInv == Typed /\ TerminalOK

LEMMA LiveInvImplies == LiveInv => TypeOK
BY DEF LiveInv, Typed, TerminalOK, TypeOK

LEMMA InitLiveInv == Init => LiveInv
<1> SUFFICES ASSUME Init PROVE LiveInv
  OBVIOUS
<1>1. Typed
  BY InitTyped DEF Init
<1>2. TerminalOK
  BY InitialAccountAssumption, TerminalAssumption DEF Init, TerminalOK
<1>3. QED
  BY <1>1, <1>2 DEF LiveInv

LEMMA StepLiveInv == LiveInv /\ [Next]_vars => LiveInv' /\ [EngineNext]_engineVars
<1> SUFFICES ASSUME LiveInv, [Next]_vars PROVE LiveInv' /\ [EngineNext]_engineVars
  OBVIOUS
<1>1. TypeOK /\ Typed /\ TerminalOK
  BY LiveInvImplies DEF LiveInv
<1>2. [EngineNext]_engineVars
  BY <1>1, StepIsEngineStep
<1>3. QED
  BY <1>1, <1>2, StepTyped, StepTerminalOK DEF LiveInv

\* The live composition keeps its types: the terminal's account, its working orders
\* and everything the engine derives from them.
THEOREM LiveTypeCorrect == Spec => []TypeOK
BY InitLiveInv, StepLiveInv, LiveInvImplies, PTL DEF Spec

\* Every behaviour of the engine over QmtBroker, with the terminal's trades,
\* rejections, empty answers and exceptions, is a behaviour of the engine over some
\* broker.
THEOREM LiveIsAnEngine == Spec => EngineSpec
<1>1. Init => EngineInit
  BY DEF Init
<1>2. QED
  BY <1>1, InitLiveInv, StepLiveInv, PTL DEF Spec, EngineSpec

\* What is proved of the engine is so in live trading.
THEOREM LiveScansKeepTheirPromises ==
  Spec => /\ []OneOrderPerNamePerScan
          /\ []BuysWithinOrderCap
          /\ []StopsAlwaysSent
          /\ HaltIsForGood
BY LiveIsAnEngine, OneOrderPerName, PurchasesWithinCap, StopsAreSent, HaltIsFinal, PTL

=============================================================================
