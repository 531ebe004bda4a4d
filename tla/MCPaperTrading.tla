--------------------------- MODULE MCPaperTrading ---------------------------
(***************************************************************************)
(* PaperTrading for TLC: two names, of which A may fall to its stop and B  *)
(* may have no bars.                                                       *)
(***************************************************************************)
EXTENDS PaperTrading

MCUniverse == <<"A", "B">>

Quote(p, t) == [price |-> p, target |-> t]

MCQuotes ==
  {[s \in {"A"} |-> a] : a \in {Quote(10, 1), Quote(8, 1)}} \cup
  {[s \in Symbols |-> IF s = "A" THEN a ELSE b] :
     a \in {Quote(10, 0), Quote(10, 1), Quote(8, 1)},
     b \in {Quote(10, 1), Quote(5, 0)}}

=============================================================================
