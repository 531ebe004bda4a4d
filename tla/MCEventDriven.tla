--------------------------- MODULE MCEventDriven ---------------------------
(***************************************************************************)
(* EventDrivenBacktest for TLC: universes, bar shapes and schedules small  *)
(* enough to enumerate.                                                    *)
(***************************************************************************)
EXTENDS EventDrivenBacktest

Bar(o, l, c, v) == [open |-> o, low |-> l, close |-> c, volume |-> v]

\* A quiet bar; one that dips through a stop and recovers; one that gaps down; one
\* that jumps up; a thin one; one that prints no volume.
Calm  == Bar(10, 10, 10, 80)
Dip   == Bar(10, 8, 10, 80)
Gap   == Bar(8, 7, 8, 80)
Jump  == Bar(13, 12, 13, 80)
Thin  == Bar(10, 8, 9, 33)
Halt  == Bar(8, 8, 8, 0)

WithSignals(shapes, signals) ==
  {[open |-> b.open, low |-> b.low, close |-> b.close, volume |-> b.volume, signal |-> g] :
     b \in shapes, g \in signals}

MCOne == <<"A">>
MCTwo == <<"A", "B">>

MCRowsOne == WithSignals({Calm, Dip, Gap, Jump, Thin, Halt}, {0, 20})
MCRowsSchedule == WithSignals({Calm, Gap}, {0, 20})

MCMainBoard == [s \in Symbols |-> "Main"]
MCMixedBoards == [s \in Symbols |-> IF s = "A" THEN "STAR" ELSE "Beijing"]

MCFullWeights == [s \in Symbols |-> Scale]

MCNoSchedule == <<>>
MCSchedule ==
  <<[date |-> 2, weights |-> [s \in Symbols |-> IF s = "A" THEN 10 ELSE 0]],
    [date |-> 3, weights |-> [s \in Symbols |-> 0]],
    [date |-> 4, weights |-> [s \in Symbols |-> IF s = "A" THEN 0 ELSE 10]]>>

=============================================================================
