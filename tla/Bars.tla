-------------------------------- MODULE Bars --------------------------------
(***************************************************************************)
(* Bars and their intervals.  A timestamp is the number of minutes since   *)
(* the epoch, in UTC; a series of one symbol maps the timestamps it has    *)
(* bars at to the bars.                                                    *)
(***************************************************************************)
EXTENDS Integers, FiniteSetsExt, Functions

DayMinutes == 1440
Minutes == [m1 |-> 1, m5 |-> 5, m15 |-> 15, m30 |-> 30, m60 |-> 60, day |-> DayMinutes]
Interval == DOMAIN Minutes

\* What Bar's validator lets through.
Valid(bar) ==
  /\ bar.volume >= 0
  /\ bar.low <= bar.high
  /\ {bar.open, bar.close} \subseteq bar.low .. bar.high

\* What a store returns of a series for [start, end).
ReadBars(series, start, end) ==
  Restrict(series, {t \in DOMAIN series : start <= t /\ t < end})

=============================================================================
