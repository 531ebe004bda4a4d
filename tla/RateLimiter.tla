---------------------------- MODULE RateLimiter ----------------------------
(***************************************************************************)
(* Successive calls of one process are MinInterval ticks apart.  The time  *)
(* of the last call is kept as its age, which stops counting once it no    *)
(* longer matters.  wait() returns when the age allows it: its sleep is    *)
(* time passing.                                                           *)
(***************************************************************************)
EXTENDS Integers

CONSTANT MinInterval

ASSUME LimiterAssumption == MinInterval \in Nat

VARIABLE last     \* age of the last call; NeverCalled is the code's None

NeverCalled == -1
Ages == 0 .. MinInterval

LimiterInit == last = NeverCalled

MayCall == last = NeverCalled \/ last >= MinInterval
Called == last' = 0

TimePasses ==
  /\ last \in Ages /\ last < MinInterval
  /\ last' = last + 1

=============================================================================
