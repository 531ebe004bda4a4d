---------------------------- MODULE TPlusOneBook -----------------------------
(***************************************************************************)
(* What T+1 promises, with no strategy, price or cash in it: the shares of *)
(* a name are settled or bought today, a purchase adds to the latter, a    *)
(* sale takes from the former, and a new day settles everything.           *)
(***************************************************************************)
EXTENDS Integers

CONSTANT Symbols

VARIABLES settled, today

bookVars == <<settled, today>>

Holdings == [Symbols -> Nat]

Init == settled = [s \in Symbols |-> 0] /\ today = [s \in Symbols |-> 0]

Buy(s) ==
  /\ today' \in Holdings
  /\ today' = [today EXCEPT ![s] = today'[s]] /\ today[s] < today'[s]
  /\ UNCHANGED settled

Sell(s) ==
  /\ settled' \in Holdings
  /\ settled' = [settled EXCEPT ![s] = settled'[s]] /\ settled'[s] < settled[s]
  /\ UNCHANGED today

NewDay ==
  /\ settled' = [s \in Symbols |-> settled[s] + today[s]]
  /\ today' = [s \in Symbols |-> 0]

Next == NewDay \/ \E s \in Symbols : Buy(s) \/ Sell(s)

Spec == Init /\ [][Next]_bookVars

=============================================================================
