---------------------------- MODULE DailySeries ----------------------------
(***************************************************************************)
(* Daily bars of the investable universe, as the store and the sources     *)
(* exchange them.  A timestamp is a trading day, and a bar is the revision *)
(* of it its source served: sources correct bars they have issued, and the *)
(* later revision is the larger number.                                    *)
(***************************************************************************)
EXTENDS Integers

CONSTANTS
  Listed,         \* the symbols of the universe
  LastDay,        \* bound: the horizon
  MaxRevision     \* bound: revisions of one bar

ASSUME SeriesAssumption ==
  /\ LastDay \in Nat
  /\ MaxRevision \in Nat \ {0}

NoBar == 0
Days == 1 .. LastDay
Revisions == 1 .. MaxRevision
Series == [Days -> Revisions \cup {NoBar}]

\* The newest of a set of days, 0 (the code's None) when there is none.
Newest(days) == CHOOSE d \in days \cup {0} : \A e \in days : e <= d

\* Bars in hand: of some days of one symbol.
Batch == UNION {[D -> Revisions] : D \in SUBSET Days}

=============================================================================
