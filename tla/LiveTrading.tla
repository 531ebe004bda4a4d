----------------------------- MODULE LiveTrading -----------------------------
(***************************************************************************)
(* The live engine over QmtBroker: each query is a request to the MiniQMT  *)
(* terminal, place_order returns when the order is submitted, and the      *)
(* terminal trades it later, in parts, or never.  The terminal is          *)
(* external; only what the code can see of it is here.                     *)
(***************************************************************************)
EXTENDS ExecutionEngine

CONSTANTS
  InitialAccount,   \* the account the run finds
  FreezesCash,      \* whether a submitted purchase leaves the cash at once
  AnswersMayBeEmpty,\* whether a query may come back with nothing
  MaxDate           \* bound: the last date

ASSUME InitialAccountAssumption == InitialAccount \in Account
ASSUME TerminalAssumption ==
  /\ {FreezesCash, AnswersMayBeEmpty} \subseteq BOOLEAN
  /\ MaxDate \in Nat \ {0}

VARIABLES
  account,      \* the terminal's asset and positions
  working,      \* submitted orders the exchange has not completed
  today,
  started_on    \* history: the date start_day was called

terminalVars == <<account, working>>
dates == <<today, started_on>>
vars == <<engineVars, terminalVars, dates>>

Init ==
  /\ EngineInit
  /\ account = InitialAccount
  /\ working = <<>>
  /\ today = 1 /\ started_on = 0

TypeOK ==
  /\ EngineTypeOK
  /\ account \in Account
  /\ working \in Seq(LiveOrder)
  /\ {today, started_on} \subseteq 0 .. MaxDate

-----------------------------------------------------------------------------
(* QmtBroker: queries.  A missing asset reads as no cash, a missing list as *)
(* no positions.                                                            *)

NoPositions == [s \in Symbols |-> NoPosition]
CashAnswers == {account.cash} \cup (IF AnswersMayBeEmpty THEN {0} ELSE {})
PositionAnswers ==
  {account.positions} \cup (IF AnswersMayBeEmpty THEN {NoPositions} ELSE {})

Scan ==
  /\ \/ \E cash \in CashAnswers : AsksCash(cash)
     \/ \E positions \in PositionAnswers :
          \/ AsksPositions(positions)
          \/ turn <= Len(Universe) /\ AsksShares(positions[Name].shares)
     \/ AsksNothing
  /\ started_on' = IF phase = "new" THEN today ELSE started_on
  /\ UNCHANGED <<terminalVars, today>>

-----------------------------------------------------------------------------
(* QmtBroker: place_order *)

Frozen(order) == IF FreezesCash /\ order.side = "buy" THEN order.shares * order.price ELSE 0

\* The terminal takes the order (of a purchase, only what the cash allows) or not.
Accepted ==
  /\ call.side = "buy" => call.shares * call.price <= account.cash
  /\ working' = Append(working, call)
  /\ account' = [account EXCEPT !.cash = @ - Frozen(call)]
Refused == UNCHANGED terminalVars

\* The call returns what order_stock made of it, or raises, then with the order
\* accepted or not.
OrderStock ==
  /\ call # NoCall
  /\ Accepted \/ Refused
  /\ CallReturns \/ ScanFails
  /\ UNCHANGED dates

\* A query or the store raises.
QueryFails ==
  /\ call = NoCall
  /\ ScanFails \/ StartFails
  /\ UNCHANGED <<terminalVars, dates>>

-----------------------------------------------------------------------------
(* The terminal *)

Without(i) == [j \in 1 .. Len(working) - 1 |-> working[IF j < i THEN j ELSE j + 1]]

\* n shares of the i-th working order trade at its price.
Traded(order, n) ==
  LET pos == account.positions[order.symbol]
      total == pos.shares + n
  IN  IF order.side = "buy"
      THEN [cash      |-> account.cash - (IF FreezesCash THEN 0 ELSE n * order.price),
            positions |-> [account.positions EXCEPT ![order.symbol] =
              [shares    |-> total,
               avg_price |-> (pos.avg_price * pos.shares + n * order.price) \div total]]]
      ELSE [cash      |-> account.cash + n * order.price,
            positions |-> [account.positions EXCEPT ![order.symbol] =
              IF pos.shares = n THEN NoPosition ELSE [pos EXCEPT !.shares = @ - n]]]

Trade(i, n) ==
  LET order == working[i]
  IN  /\ order.side = "sell" => n <= account.positions[order.symbol].shares
      /\ order.side = "buy" /\ ~ FreezesCash => n * order.price <= account.cash
      /\ account' = Traded(order, n)
      /\ working' = IF n = order.shares THEN Without(i)
                    ELSE [working EXCEPT ![i].shares = @ - n]
      /\ UNCHANGED <<engineVars, dates>>

\* The exchange rejects a working order after all, or the day ends it.
Cancel(i) ==
  /\ account' = [account EXCEPT !.cash = @ + Frozen(working[i])]
  /\ working' = Without(i)
  /\ UNCHANGED <<engineVars, dates>>

Terminal ==
  \E i \in 1 .. Len(working) :
    \/ \E n \in 1 .. working[i].shares : n % LotSize = 0 /\ Trade(i, n)
    \/ Cancel(i)

-----------------------------------------------------------------------------

Throw == Kill /\ UNCHANGED <<terminalVars, dates>>

\* The process sleeps into the next day.
NewDay ==
  /\ phase = "idle" /\ today < MaxDate
  /\ today' = today + 1
  /\ UNCHANGED <<engineVars, terminalVars, started_on>>

Finished == phase = "done" /\ UNCHANGED vars

Next == Scan \/ OrderStock \/ QueryFails \/ Throw \/ Terminal \/ NewDay \/ Finished

Spec == Init /\ [][Next]_vars

\* The engine's thread is never blocked for good, and order_stock comes back.
FairSpec == Spec /\ WF_vars(Scan) /\ WF_vars(OrderStock)

-----------------------------------------------------------------------------

\* Once the day has started, run() makes all its scans, whatever the store, a query or
\* an order raises in any of them ("keep the loop alive").
EveryScanIsMade == phase = "idle" ~> phase = "done" /\ scans = MaxScans

\* The account at the prices paid, with what the terminal has set aside for purchases.
TrueEquity ==
  Equity(account, <<>>) +
    Sum([i \in 1 .. Len(working) |-> Frozen(working[i])], Len(working))

\* execution.mdx: "at most 20% of equity in any one name", here at the prices paid.
NameWithinCap ==
  \A s \in Symbols :
    account.positions[s].shares * account.positions[s].avg_price * Scale
      <= MaxPositionWeight * TrueEquity

=============================================================================
