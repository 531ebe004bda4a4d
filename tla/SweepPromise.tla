---------------------------- MODULE SweepPromise ----------------------------
(***************************************************************************)
(* What a runner promises of a sweep, whichever backend maps it: a report  *)
(* with one outcome per spec, each what running that spec alone may give,  *)
(* or an exception instead of a report.                                    *)
(***************************************************************************)
EXTENDS RunSpecs

CONSTANTS Sharpe(_)       \* the metric of a spec's run

VARIABLES specs, report

NoReport == [state |-> "running"]
Exception == [state |-> "raised"]
Report(outcomes) == [state |-> "returned", outcomes |-> outcomes]

Success(spec) == [key |-> Key(spec), spec |-> spec, ok |-> TRUE, stats |-> Sharpe(spec)]
Failure(spec) == [key |-> Key(spec), spec |-> spec, ok |-> FALSE]

\* Any run may fail on what it reads; one that cannot be built always does.
MayCome(spec) == {Failure(spec)} \cup IF Builds(spec) THEN {Success(spec)} ELSE {}

Init == report = NoReport

Orders == {p \in [DOMAIN specs -> DOMAIN specs] : \A i, j \in DOMAIN specs : p[i] = p[j] => i = j}

\* The outcomes come in any order.
Return ==
  /\ report'.state = "returned"
  /\ report' = Report(report'.outcomes)
  /\ \A i \in DOMAIN specs : HasKey(specs[i])
  /\ DOMAIN report'.outcomes = DOMAIN specs
  /\ \E p \in Orders : \A i \in DOMAIN specs : report'.outcomes[i] \in MayCome(specs[p[i]])

Raise == report' = Exception

Next == report = NoReport /\ UNCHANGED specs /\ (Return \/ Raise)

Spec == Init /\ [][Next]_<<specs, report>>

=============================================================================
