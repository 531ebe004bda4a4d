----------------------------- MODULE DataSource -----------------------------
(***************************************************************************)
(* The two DataSources.  Both answer a window of days with the bars that   *)
(* pass Bar's validation and drop the rest.  AkshareSource asks the web    *)
(* source, throttled, and retries what looks like a network error;         *)
(* QmtSource has the MiniQMT terminal download the window and then reads   *)
(* the terminal's cache.                                                   *)
(***************************************************************************)
EXTENDS DailySeries, RateLimiter

CONSTANTS
  MaxRetries,     \* stop_after_attempt(max_retries)
  Board,          \* [Listed -> what the symbol's first digit is one of]
  Exchange        \* [Listed -> the exchange that lists it]

ASSUME SourceAssumption ==
  /\ MaxRetries \in Nat \ {0}
  /\ Board \in [Listed -> {"69", "0123", "48", "other"}]
  /\ Exchange \in [Listed -> {"SH", "SZ", "BJ"}]

\* A row of the web page: absent (NoBar) or a revision, which may be malformed.
Row == [rev : Revisions \cup {NoBar}, ok : BOOLEAN]
NoRow == [rev |-> NoBar, ok |-> FALSE]

\* Mutant of Window: the end is exclusive, as in the store.
WindowOpen(start, end) == {d \in Days : start <= d /\ d < end}

Window(start, end) == {d \in Days : start <= d /\ d <= end}

ToBars(page, days) ==
  [d \in {d \in days : page[d].rev # NoBar /\ page[d].ok} |-> page[d].rev]

\* Whether a network error of the last attempt is retried rather than raised.
RetryLeft(attempts) == attempts < MaxRetries

\* The suffix to_qmt_symbol gives a bare code.
QmtSuffix(s) ==
  CASE Board[s] = "69"   -> "SH"
    [] Board[s] = "0123" -> "SZ"
    [] Board[s] = "48"   -> "BJ"
    [] OTHER             -> "SH"

\* The terminal knows the symbol by the code to_qmt_symbol makes of it.
KnownToQmt(s) == QmtSuffix(s) = Exchange[s]

=============================================================================
