----------------------------- MODULE RiskManager -----------------------------
(***************************************************************************)
(* The guardrails between signals and orders.  A risk manager's state is a *)
(* record; each method that changes it is an operator from the old record  *)
(* to the new one.                                                         *)
(***************************************************************************)
EXTENDS Broker

CONSTANTS
  MaxPositionWeight,    \* cap on one name, a share of equity
  MaxGrossExposure,     \* cap on the whole book, a share of equity
  MaxDailyLoss,         \* loss on the day that halts trading
  StopLoss,             \* fall from the entry price that exits a name
  MaxOrdersPerDay,
  None                  \* Python's None

ASSUME LimitsAssumption ==
  /\ {MaxPositionWeight, MaxGrossExposure, MaxDailyLoss, StopLoss} \subseteq 0 .. Scale
  /\ MaxOrdersPerDay \in Nat
ASSUME NoneAssumption == None \notin Int

RiskState == [halted : BOOLEAN, day_start_equity : Int \cup {None}, orders_today : Nat]

NewRisk == [halted |-> FALSE, day_start_equity |-> None, orders_today |-> 0]

StartDay(equity) == [NewRisk EXCEPT !.day_start_equity = equity]

Killed(risk) == [risk EXCEPT !.halted = TRUE]

LossLimitHit(risk, equity) ==
  /\ risk.day_start_equity # None
  /\ equity * Scale <= risk.day_start_equity * (Scale - MaxDailyLoss)

\* Mutant of UpdateDailyLoss: the flag follows equity instead of latching.
UpdateDailyLossUnlatched(risk, equity) ==
  [risk EXCEPT !.halted = LossLimitHit(risk, equity)]

UpdateDailyLoss(risk, equity) ==
  [risk EXCEPT !.halted = @ \/ LossLimitHit(risk, equity)]

StopPrice(pos) == Portion(pos.avg_price, Scale - StopLoss)
StopTriggered(pos, price) == price <= StopPrice(pos)

CanTrade(risk) == ~ risk.halted /\ risk.orders_today < MaxOrdersPerDay

RecordOrder(risk) == [risk EXCEPT !.orders_today = @ + 1]

\* Mutant of NameRoom: the name's cap without what is held already.
NameRoomOfWholeCap(equity, held, price) ==
  Higher(0, Portion(equity, MaxPositionWeight))

\* Room left under the per-name cap, and under the gross cap with the other names at
\* their entry prices and s at the current one.
NameRoom(equity, held, price) ==
  Higher(0, Portion(equity, MaxPositionWeight) - held * price)
GrossRoom(equity, positions, s, price) ==
  Higher(0, Portion(equity, MaxGrossExposure) - MarketValue(positions, [x \in {s} |-> price]))

\* The least of the two and the cash.
BuyBudget(acct, s, price, equity) ==
  Lower(Lower(NameRoom(equity, acct.positions[s].shares, price),
              GrossRoom(equity, acct.positions, s, price)), acct.cash)

MaxBuyShares(risk, acct, s, price, equity) ==
  IF ~ CanTrade(risk) \/ price <= 0 THEN 0
  ELSE LotsOf(BuyBudget(acct, s, price, equity) \div (price * LotSize))

=============================================================================
