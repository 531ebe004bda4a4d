------------------------------ MODULE Backfill ------------------------------
(***************************************************************************)
(* DailyBackfill over a source and the ClickHouse store.  One process      *)
(* syncs one symbol after another; it may crash at any step and be run     *)
(* again.  The market issues bars day by day and corrects them at any      *)
(* time, the server merges at any time.                                    *)
(***************************************************************************)
EXTENDS BarStore, DataSource

CONSTANTS
  Universe,       \* list_symbols() of the source: a sequence of all of Listed
  Requests,       \* the symbol lists a caller may name instead
  LookbackDays,
  MaxRuns, MaxCrashes, MaxQuirks    \* bounds: runs, crashes and failed inserts,
                                    \* irregularities of the source

ASSUME BackfillAssumption ==
  /\ Universe \in Seq(Listed) /\ \A s \in Listed : \E i \in 1 .. Len(Universe) : Universe[i] = s
  /\ Requests \subseteq Seq(Listed)
  /\ {LookbackDays, MaxRuns, MaxCrashes, MaxQuirks} \subseteq Nat

VARIABLES
  today, source, prompt,      \* the market: the date, its pages, and the bars
                              \* that were well-formed on their own day
  via, cache,                 \* which source is configured; the terminal's cache
  phase, todo, force, end,    \* run(): where it is, symbols left, its arguments
  latest, batch, attempts,    \* _sync_one(): its locals, calls made for this answer
  report,
  runs, crashes, quirks       \* counters of the bounds

market == <<today, source, prompt, quirks>>
process == <<phase, todo, force, end, latest, batch, attempts, report, last, runs>>
vars == <<market, process, rows, via, cache, crashes>>

Current == Head(todo)
NoReport == [asked |-> {}, synced |-> {}, skipped |-> {}, failed |-> {}]
Named(list) == {list[i] : i \in 1 .. Len(list)}

Init ==
  /\ TableInit /\ LimiterInit
  /\ today = 0 /\ quirks = 0
  /\ source = [s \in Listed |-> [d \in Days |-> NoRow]] /\ prompt = {}
  /\ via \in {"akshare", "qmt"} /\ cache = source
  /\ phase = "idle" /\ todo = <<>> /\ force = FALSE /\ end = 0
  /\ latest = 0 /\ batch = <<>> /\ attempts = 0 /\ report = NoReport
  /\ runs = 0 /\ crashes = 0

(***************************************************************************)
(* run()                                                                   *)
(***************************************************************************)

\* The loop goes on to a list of symbols, or returns at the end of it.
GoOn(list) ==
  /\ todo' = list
  /\ phase' = IF list = <<>> THEN "idle" ELSE "ask"
  /\ latest' = 0 /\ batch' = <<>> /\ attempts' = 0

StartRun(list, forced) ==
  /\ phase = "idle" /\ runs < MaxRuns
  /\ runs' = runs + 1 /\ force' = forced /\ end' = today
  /\ report' = [NoReport EXCEPT !.asked = Named(list)]
  /\ GoOn(list)
  /\ UNCHANGED <<market, rows, via, cache, crashes, last>>

\* Without a list the source is asked for its universe first.
StartFullRun(forced) ==
  /\ phase = "idle" /\ runs < MaxRuns
  /\ runs' = runs + 1 /\ force' = forced
  /\ report' = NoReport
  /\ phase' = "list" /\ attempts' = 0
  /\ UNCHANGED <<market, rows, via, cache, crashes, last, end, todo, latest, batch>>

\* list_symbols is outside the try: the exception leaves run().
ListingFails ==
  /\ phase' = "idle" /\ attempts' = 0 /\ report' = NoReport
  /\ UNCHANGED <<todo, latest, batch>>

UniverseListed ==
  /\ report' = [report EXCEPT !.asked = Named(Universe)]
  /\ end' = today
  /\ GoOn(Universe)

SymbolFails ==
  /\ report' = [report EXCEPT !.failed = @ \cup {Current}]
  /\ GoOn(Tail(todo))

Raised == IF phase = "list" THEN ListingFails ELSE SymbolFails

(***************************************************************************)
(* _sync_one()                                                             *)
(***************************************************************************)

AskLatest ==
  /\ phase = "ask"
  /\ latest' = IF force THEN 0 ELSE LatestTimestamp(Current)
  /\ phase' = "fetch"
  /\ UNCHANGED <<market, rows, via, cache, crashes, last, runs, todo, force, end,
                 batch, attempts, report>>

FetchStart == IF latest = 0 THEN 1 ELSE latest - LookbackDays

\* The source answered: the bars are in hand.
Answered(page) ==
  /\ batch' = ToBars(page, Window(FetchStart, end))
  /\ phase' = "write"
  /\ UNCHANGED <<todo, latest, attempts, report, end>>

\* Mutant of Attempted: the attempt is not counted.
AttemptedNot == attempts

Attempted == attempts + 1

\* One attempt of AkshareSource._call, once the limiter lets it through.
Call ==
  /\ phase \in {"list", "fetch"} /\ via = "akshare"
  /\ MayCall /\ Called
  /\ \/ IF phase = "list" THEN UniverseListed ELSE Answered(source[Current])
     \/ /\ RetryLeft(Attempted)                             \* OSError
        /\ attempts' = Attempted
        /\ UNCHANGED <<phase, todo, latest, batch, report, end>>
     \/ Raised /\ UNCHANGED end                             \* the last one, or another error
  /\ UNCHANGED <<market, rows, via, cache, crashes, runs, force>>

\* QmtSource: neither throttled nor retried.
ListSector ==
  /\ phase = "list" /\ via = "qmt"
  /\ UniverseListed \/ (Raised /\ UNCHANGED end)
  /\ UNCHANGED <<market, rows, via, cache, crashes, runs, force, last>>

\* The terminal fetches the window anew, or keeps what it has of it.
Download ==
  /\ phase = "fetch" /\ via = "qmt"
  /\ \/ /\ \E fresh \in SUBSET Window(FetchStart, end) :
             /\ \A d \in Window(FetchStart, end) \ fresh : cache[Current][d].ok
             /\ cache' = [cache EXCEPT ![Current] =
                            [d \in Days |-> IF d \in fresh THEN source[Current][d] ELSE @[d]]]
        /\ phase' = "query"
        /\ UNCHANGED <<todo, latest, batch, attempts, report>>
     \/ SymbolFails /\ UNCHANGED cache
  /\ UNCHANGED <<market, rows, via, crashes, runs, force, end, last>>

QueryCache ==
  /\ phase = "query"
  /\ \/ IF KnownToQmt(Current) THEN Answered(cache[Current])
                               ELSE Answered([d \in Days |-> NoRow])
     \/ SymbolFails /\ UNCHANGED end
  /\ UNCHANGED <<market, rows, via, cache, crashes, runs, force, last>>

NothingNew == batch = <<>> \/ (latest # 0 /\ \A d \in DOMAIN batch : d <= latest)

Skip ==
  /\ phase = "write" /\ NothingNew
  /\ report' = [report EXCEPT !.skipped = @ \cup {Current}]
  /\ GoOn(Tail(todo))
  /\ UNCHANGED <<market, rows, via, cache, crashes, runs, force, end, last>>

Write ==
  /\ phase = "write" /\ ~ NothingNew
  /\ WriteBars(Current, batch)
  /\ report' = [report EXCEPT !.synced = @ \cup {Current}]
  /\ GoOn(Tail(todo))
  /\ UNCHANGED <<market, via, cache, crashes, runs, force, end, last>>

\* The insert raises, some of its months written, perhaps all.
WriteFails ==
  /\ phase = "write" /\ ~ NothingNew /\ crashes < MaxCrashes
  /\ \E months \in 0 .. LastDay : WriteBars(Current, KeptByFailure(batch, months))
  /\ crashes' = crashes + 1
  /\ SymbolFails
  /\ UNCHANGED <<market, via, cache, runs, force, end, last>>

Process ==
  \/ AskLatest \/ Call \/ ListSector \/ Download \/ QueryCache
  \/ Skip \/ Write \/ WriteFails

\* The process dies, perhaps inside an insert; what it knew is gone.
Crash ==
  /\ phase # "idle" /\ crashes < MaxCrashes
  /\ crashes' = crashes + 1
  /\ \/ UNCHANGED rows
     \/ /\ phase = "write" /\ ~ NothingNew
        /\ \E months \in 0 .. LastDay : WriteBars(Current, KeptByFailure(batch, months))
  /\ phase' = "idle" /\ todo' = <<>> /\ latest' = 0 /\ batch' = <<>> /\ attempts' = 0
  /\ report' = NoReport /\ last' = NeverCalled
  /\ UNCHANGED <<market, via, cache, runs, force, end>>

(***************************************************************************)
(* The world outside                                                       *)
(***************************************************************************)

\* A day's bars: a symbol may be suspended, its row malformed.
NewDay ==
  /\ today < LastDay
  /\ today' = today + 1
  /\ \E missing, malformed \in SUBSET Listed :
       /\ missing \cap malformed = {}
       /\ quirks' = IF missing \cup malformed = {} THEN quirks ELSE quirks + 1
       /\ quirks' <= MaxQuirks
       /\ source' = [s \in Listed |-> [source[s] EXCEPT ![today'] =
                       IF s \in missing THEN NoRow ELSE [rev |-> 1, ok |-> s \notin malformed]]]
       /\ prompt' = prompt \cup ((Listed \ (missing \cup malformed)) \X {today'})
  /\ UNCHANGED <<process, rows, via, cache, crashes>>

\* A bar is issued late or corrected.
Correct(s, d) ==
  /\ d <= today /\ source[s][d].rev < MaxRevision /\ quirks < MaxQuirks
  /\ quirks' = quirks + 1
  /\ source' = [source EXCEPT ![s][d] = [rev |-> @.rev + 1, ok |-> TRUE]]
  /\ UNCHANGED <<process, rows, via, cache, crashes, today, prompt>>

MergeRows(s, d) ==
  /\ Merge(s, d)
  /\ UNCHANGED <<market, process, via, cache, crashes>>

LimiterTick ==
  /\ TimePasses
  /\ UNCHANGED <<market, rows, via, cache, crashes, phase, todo, force, end, latest, batch,
                 attempts, report, runs>>

Next ==
  \/ \E forced \in BOOLEAN : StartFullRun(forced) \/ \E list \in Requests : StartRun(list, forced)
  \/ Process \/ Crash
  \/ NewDay \/ LimiterTick
  \/ \E s \in Listed, d \in Days : Correct(s, d) \/ MergeRows(s, d)

Spec == Init /\ [][Next]_vars

\* The process runs until it crashes, and its sleeps end.
FairSpec == Spec /\ WF_vars(Process) /\ WF_vars(LimiterTick)

(***************************************************************************)
(* Properties                                                              *)
(***************************************************************************)

Pages == [Listed -> [Days -> Row]]

\* Types; the batch in hand covers the window it was asked for and nothing else.
TypeOK ==
  /\ today \in 0 .. LastDay /\ quirks \in 0 .. MaxQuirks
  /\ source \in Pages /\ cache \in Pages /\ prompt \subseteq Listed \X Days
  /\ rows \in [Listed -> [Days -> Seq(Revisions)]]
  /\ via \in {"akshare", "qmt"}
  /\ phase \in {"idle", "list", "ask", "fetch", "query", "write"}
  /\ todo \in Seq(Listed) /\ (todo = <<>> <=> phase \in {"idle", "list"})
  /\ force \in BOOLEAN /\ end \in 0 .. today
  /\ latest \in 0 .. today /\ batch \in Batch
  /\ phase = "write" => DOMAIN batch \subseteq Window(FetchStart, end)
  /\ attempts \in 0 .. MaxRetries - 1
  /\ report \in [{"asked", "synced", "skipped", "failed"} -> SUBSET Listed]
  /\ last \in Ages \cup {NeverCalled}
  /\ runs \in 0 .. MaxRuns /\ crashes \in 0 .. MaxCrashes

\* What a reader of the store is served.
Served(s) ==
  LET read == ReadBars(s, 1, LastDay + 1)
  IN  [d \in Days |-> IF d \in DOMAIN read THEN read[d][1] ELSE NoBar]

Readers == INSTANCE DataStore WITH bars <- [s \in Listed |-> Served(s)]

\* "Interrupted or repeated runs are safe" (backfill.py): whatever fails, crashes or is
\* merged, readers see each bar only ever move to a later revision, one symbol at a time.
StoreKeepsItsPromise == Readers!Spec

\* latest_timestamp says "how far a symbol is already loaded": a bar its source issued on
\* time is never missing behind it, though a run may die in the middle of an insert.
NoHolesBehindLatest ==
  \A s \in Listed, d \in Days :
    /\ <<s, d>> \in prompt
    /\ d < LatestTimestamp(s)
    => Stored(s, d)

\* A symbol a run is done with and does not report as failed has every bar issued on time
\* up to the run's end - if the code to_qmt_symbol guesses for it is the listed one.
DoneMeansCaughtUp ==
  \A s \in report.asked \ (report.failed \cup Named(todo)) :
    (via = "qmt" => KnownToQmt(s)) =>
      \A d \in Days : <<s, d>> \in prompt /\ d <= end => Stored(s, d)

\* Every run ends, however often the source drops the connection.
RunsEnd == phase # "idle" ~> phase = "idle"

\* backfill.py: "plus a small lookback to recapture late corrections".  What a symbol's
\* fetch brought in is what readers are served once the run is done with it.
LateCorrectionsRecaptured ==
  [][phase = "write" /\ todo' = Tail(todo) /\ Current \notin report'.failed =>
       \A s \in Listed : s = Current => \A d \in DOMAIN batch : Served(s)'[d] = batch[d]]_vars

=============================================================================
