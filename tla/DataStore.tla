------------------------------ MODULE DataStore ------------------------------
(***************************************************************************)
(* What a market-data store promises its readers (the interface            *)
(* DataStore): one bar per symbol and day, changed by writes alone, and    *)
(* never back to an older revision.                                        *)
(***************************************************************************)
EXTENDS DailySeries

VARIABLE bars     \* [Listed -> Series]

Init == bars = [s \in Listed |-> [d \in Days |-> NoBar]]

\* Some days of one symbol get a bar, or a later revision of theirs.
WriteBars(s) ==
  /\ bars' \in [Listed -> Series]
  /\ \A d \in Days : bars[s][d] <= bars'[s][d]
  /\ \A other \in Listed \ {s} : bars'[other] = bars[other]

Spec == Init /\ [][\E s \in Listed : WriteBars(s)]_bars

=============================================================================
