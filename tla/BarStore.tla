------------------------------ MODULE BarStore ------------------------------
(***************************************************************************)
(* ClickHouseStore: a ReplacingMergeTree keyed by symbol, interval and     *)
(* timestamp, here of the daily interval.  An insert adds rows and         *)
(* replaces none; the server merges the rows of a key in the background,   *)
(* keeping the one ingested last, and a read with FINAL sees them as if    *)
(* they were merged already.                                               *)
(***************************************************************************)
EXTENDS DailySeries, Sequences

CONSTANTS
  MonthLength,    \* days of a partition (PARTITION BY toYYYYMM)
  DedupOnRead     \* dedup_on_read: read with FINAL

ASSUME TableAssumption ==
  /\ MonthLength \in Nat \ {0}
  /\ DedupOnRead \in BOOLEAN

VARIABLE rows     \* rows[s][d]: the revisions inserted for the key, oldest first

TableInit == rows = [s \in Listed |-> [d \in Days |-> <<>>]]

Stored(s, d) == rows[s][d] # <<>>

\* What FINAL leaves of a key's rows, and what a merge does.
Final(versions) == versions[Len(versions)]

ReadBars(s, start, end) ==
  [d \in {d \in start .. (end - 1) : Stored(s, d)} |->
     IF DedupOnRead THEN <<Final(rows[s][d])>> ELSE rows[s][d]]

\* max(timestamp) needs no FINAL: every version of a key has the key's timestamp.
LatestTimestamp(s) == Newest({d \in Days : Stored(s, d)})

WriteBars(s, batch) ==
  rows' = [rows EXCEPT ![s] =
             [d \in Days |-> IF d \in DOMAIN batch THEN Append(@[d], batch[d]) ELSE @[d]]]

\* Mutant of KeptByFailure: the newest months are written first.
KeptNewestFirst(batch, months) ==
  [d \in {d \in DOMAIN batch : (d - 1) \div MonthLength >= months} |-> batch[d]]

\* An insert writes one part per partition, in the order its rows first need them,
\* and each of them whole or not at all: one that fails has written its first months.
KeptByFailure(batch, months) ==
  [d \in {d \in DOMAIN batch : (d - 1) \div MonthLength < months} |-> batch[d]]

\* Mutant of Merge: without the version column of the engine any row may survive.
MergeUnversioned(s, d) ==
  /\ Len(rows[s][d]) > 1
  /\ \E i \in 1 .. Len(rows[s][d]) : rows' = [rows EXCEPT ![s][d] = <<@[i]>>]

Merge(s, d) ==
  /\ Len(rows[s][d]) > 1
  /\ rows' = [rows EXCEPT ![s][d] = <<Final(@)>>]

=============================================================================
