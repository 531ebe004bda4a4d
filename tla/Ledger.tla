------------------------------- MODULE Ledger --------------------------------
(***************************************************************************)
(* What a settlement engine promises, with no order, price check or        *)
(* average price in it: a log of trades, and an account that is nothing    *)
(* but the replay of that log.                                             *)
(***************************************************************************)
EXTENDS Integers, Sequences, SequencesExt, FiniteSetsExt

CONSTANTS Symbols, InitialCash, LotSize

VARIABLES log, cash, holdings

ledgerVars == <<log, cash, holdings>>

\* The cash one trade moves, and the shares of s it moves, seen from the account.
CashMoved(fill) ==
  IF fill.side = "buy" THEN - (fill.shares * fill.price) - fill.cost
  ELSE fill.shares * fill.price - fill.cost
SharesMoved(fill, s) ==
  IF fill.symbol # s THEN 0
  ELSE IF fill.side = "buy" THEN fill.shares ELSE - fill.shares

CashAfter(l) == FoldLeft(LAMBDA sum, fill : sum + CashMoved(fill), InitialCash, l)
HoldingAfter(l, s) == FoldLeft(LAMBDA sum, fill : sum + SharesMoved(fill, s), 0, l)
HoldingsAfter(l) == [s \in Symbols |-> HoldingAfter(l, s)]

\* The purchases of s in l made since s was last flat.
BuysSinceFlat(l, s) ==
  LET flat == Max({i \in 0 .. Len(l) : HoldingAfter(SubSeq(l, 1, i), s) = 0})
  IN  {i \in flat + 1 .. Len(l) : l[i].symbol = s /\ l[i].side = "buy"}

Init ==
  /\ log = <<>>
  /\ cash = InitialCash
  /\ holdings = [s \in Symbols |-> 0]

\* A trade is entered: whole lots, a buy the cash covers or a sale the shares cover.
Enter ==
  /\ Len(log') = Len(log) + 1
  /\ IsPrefix(log, log')
  /\ LET fill == Last(log')
     IN  /\ fill.shares > 0 /\ fill.shares % LotSize = 0
         /\ fill.side = "buy" => CashAfter(log') >= 0
         /\ HoldingAfter(log', fill.symbol) >= 0
  /\ cash' = CashAfter(log')
  /\ holdings' = HoldingsAfter(log')

Spec == Init /\ [][Enter]_ledgerVars

=============================================================================
