------------------------------ MODULE MCSweep ------------------------------
(***************************************************************************)
(* Values for checking Sweep: grids with a repeated value, a family nobody *)
(* registered, a value JSON cannot hold, a run that never trades.          *)
(***************************************************************************)
EXTENDS Sweep

CONSTANTS w1, w2, nan

MCWorkers == {w1, w2}
MCStrategies == [sma_cross |-> {"fast", "slow"}, buy_and_hold |-> {}]

Number(n) == [kind |-> "number", content |-> n]
FastGrid(values) == Grid("sma_cross", [fast |-> values])
Unknown == [strategy |-> "no_such_strategy", params |-> <<>>]
Benchmark == Grid("buy_and_hold", <<>>)
WithSet == Grid("sma_cross", [fast |-> <<[kind |-> "set", content |-> 5]>>])
OfSequence(kind) == Grid("sma_cross", [slow |-> <<[kind |-> kind, content |-> 20]>>])

MCSpecLists ==
  {Grid("sma_cross", [fast |-> <<Number(5), Number(10)>>, slow |-> <<Number(20), Number(40)>>]),
   FastGrid(<<Number(5), Number(10)>>) \o Benchmark,
   FastGrid(<<Number(5), Number(5)>>) \o <<Unknown>>,
   Benchmark \o WithSet \o FastGrid(<<Number(5)>>),
   OfSequence("list") \o OfSequence("tuple")}

MCSharpe(spec) ==
  IF spec.strategy = "buy_and_hold" THEN 1
  ELSE IF "fast" \in DOMAIN spec.params /\ spec.params.fast.content = 10 THEN nan
  ELSE 3

=============================================================================
