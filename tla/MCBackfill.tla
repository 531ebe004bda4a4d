----------------------------- MODULE MCBackfill -----------------------------
(***************************************************************************)
(* Values for checking Backfill: a Shanghai name and a Beijing one under   *)
(* the new 92 prefix.                                                      *)
(***************************************************************************)
EXTENDS Backfill

MCListed == {"600519", "920819"}
MCUniverse == <<"600519", "920819">>
MCRequests == {<<"920819">>}
MCBoard == [s \in MCListed |-> "69"]
MCExchange == [s \in MCListed |-> IF s = "600519" THEN "SH" ELSE "BJ"]

=============================================================================
