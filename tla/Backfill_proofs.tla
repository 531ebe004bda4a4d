-------------------------- MODULE Backfill_proofs --------------------------
(***************************************************************************)
(* What holds of a backfill for every universe, calendar, source and       *)
(* schedule of crashes: types, what readers of the store are promised, and *)
(* that nothing is missing behind the newest day.                          *)
(***************************************************************************)
EXTENDS Backfill, WellFoundedInduction, NaturalsInduction, TLAPS

-----------------------------------------------------------------------------
(* The inductive invariant *)

\* What the configured source would answer from.
Seen(s) == IF via = "akshare" THEN source[s] ELSE cache[s]

\* The pages: nothing of the days to come, a well-formed row is a row, and what was issued
\* on time stays well-formed whatever is corrected.
PagesAreIssued ==
  /\ \A s \in Listed, d \in Days :
       /\ d > today => source[s][d].rev = NoBar
       /\ source[s][d].ok => source[s][d].rev # NoBar
       /\ cache[s][d].ok => cache[s][d].rev # NoBar
       /\ cache[s][d].rev <= source[s][d].rev
       /\ <<s, d>> \in prompt => d <= today /\ source[s][d].ok

\* No row is ahead of its source, and none of a key's rows is newer than the last one.
RowsAreSeen ==
  \A s \in Listed, d \in Days :
    Stored(s, d) =>
      /\ d <= today
      /\ Final(rows[s][d]) <= Seen(s)[d].rev
      /\ \A i \in 1 .. Len(rows[s][d]) : rows[s][d][i] <= Final(rows[s][d])

\* latest_timestamp is still a day of the store when the fetch that starts from it is used.
LatestIsStored ==
  phase \in {"fetch", "query", "write"} /\ latest # 0 => Stored(Current, latest)

\* Which source is at work: only akshare calls, only the terminal has a cache to query.
ProcessFitsSource ==
  /\ via = "qmt" => last = NeverCalled
  /\ phase = "query" =>
       /\ via = "qmt"
       /\ \A d \in Window(FetchStart, end) : <<Current, d>> \in prompt => cache[Current][d].ok

\* The bars in hand are between what is stored and what the source has, and miss no day of
\* their window that was issued on time.
BatchIsFresh ==
  phase = "write" =>
    /\ \A d \in DOMAIN batch :
         /\ batch[d] <= Seen(Current)[d].rev
         /\ Stored(Current, d) => Final(rows[Current][d]) <= batch[d]
    /\ via = "qmt" /\ ~ KnownToQmt(Current) => DOMAIN batch = {}
    /\ (via = "qmt" => KnownToQmt(Current)) =>
         \A d \in Window(FetchStart, end) : <<Current, d>> \in prompt => d \in DOMAIN batch

DataInv ==
  /\ PagesAreIssued /\ RowsAreSeen
  /\ LatestIsStored /\ ProcessFitsSource /\ BatchIsFresh

-----------------------------------------------------------------------------
(* The newest day *)

\* A non-empty set of days has a last one.
LEMMA LastOfDays ==
  ASSUME NEW S, S \subseteq 0 .. LastDay, S # {}
  PROVE  \E d \in S : \A e \in S : e <= d
<1> DEFINE T == {LastDay - d : d \in S}
<1>1. T \subseteq Nat /\ T # {}
  <2>1. \A d \in S : LastDay - d \in Nat
    BY SeriesAssumption
  <2>2. T # {}
    OBVIOUS
  <2> QED
    BY <2>1, <2>2
<1>2. IsWellFoundedOn(OpToRel(<, Nat), Nat)
  BY NatLessThanWellFounded
<1>3. PICK x \in T : \A y \in T : ~ (<<y, x>> \in OpToRel(<, Nat))
  BY <1>1, <1>2, WFMin, Zenon
<1>4. OpToRel(<, Nat) = {ss \in Nat \X Nat : ss[1] < ss[2]}
  BY Zenon DEF OpToRel
<1>5. \A y \in T : ~ (y < x)
  BY <1>1, <1>3, <1>4
<1>6. PICK d \in S : x = LastDay - d
  BY <1>3
<1>7. \A e \in S : e <= d
  <2> TAKE e \in S
  <2>1. ~ (LastDay - e < LastDay - d)
    BY <1>5, <1>6
  <2> QED
    BY <2>1, SeriesAssumption
<1> QED
  BY <1>7

\* Newest is the last of the days, or 0.
LEMMA NewestIsLast ==
  ASSUME NEW S, S \subseteq Days
  PROVE  /\ Newest(S) \in S \cup {0}
         /\ \A e \in S : e <= Newest(S)
         /\ S # {} => Newest(S) \in S
<1>1. S \cup {0} \subseteq 0 .. LastDay
  BY SeriesAssumption DEF Days
<1>2. \E d \in S \cup {0} : \A e \in S \cup {0} : e <= d
  BY <1>1, LastOfDays, Zenon
<1>3. \E d \in S \cup {0} : \A e \in S : e <= d
  BY <1>2
<1>4. Newest(S) \in S \cup {0} /\ \A e \in S : e <= Newest(S)
  BY <1>3, Zenon DEF Newest
<1>5. \A e \in S : Newest(S) # 0
  <2> TAKE e \in S
  <2>1. e <= Newest(S) /\ e >= 1 /\ e \in Int
    BY <1>4 DEF Days
  <2> QED
    BY <2>1
<1>6. S # {} => Newest(S) # 0
  BY <1>5
<1> QED
  BY <1>4, <1>6

\* Months do not run backwards.
LEMMA EarlierDayEarlierMonth ==
  ASSUME NEW c \in Days, NEW d \in Days, c <= d
  PROVE  (c - 1) \div MonthLength <= (d - 1) \div MonthLength
BY TableAssumption, SeriesAssumption DEF Days

-----------------------------------------------------------------------------
(* Batches and the table *)

\* A part of the batch in hand that leaves out no day before one it has.
PartOf(part) ==
  /\ part \in Batch
  /\ DOMAIN part \subseteq DOMAIN batch
  /\ \A d \in DOMAIN part : part[d] = batch[d]
  /\ \A c \in DOMAIN batch, d \in DOMAIN part : c <= d => c \in DOMAIN part

\* A batch maps days to revisions.
LEMMA BatchType ==
  ASSUME NEW b \in Batch
  PROVE  DOMAIN b \subseteq Days /\ \A d \in DOMAIN b : b[d] \in Revisions
BY DEF Batch

\* A function from days to revisions is a batch.
LEMMA BatchIntro ==
  ASSUME NEW D, D \subseteq Days, NEW b, b \in [D -> Revisions]
  PROVE  b \in Batch
BY Zenon DEF Batch

\* The empty tuple is the batch of no day.
LEMMA NoBarsIsBatch == <<>> \in Batch /\ DOMAIN <<>> = {}
<1>1. <<>> \in [{} -> Revisions] /\ DOMAIN <<>> = {}
  OBVIOUS
<1> QED
  BY <1>1, BatchIntro

\* The whole batch, and what a failed insert leaves of it, are such parts.
LEMMA BatchIsPart ==
  ASSUME TypeOK
  PROVE  PartOf(batch)
BY DEF TypeOK, PartOf

LEMMA KeptIsPart ==
  ASSUME TypeOK, NEW months \in 0 .. LastDay
  PROVE  PartOf(KeptByFailure(batch, months))
<1> DEFINE kept == KeptByFailure(batch, months)
<1>1. batch \in Batch /\ DOMAIN batch \subseteq Days /\ \A d \in DOMAIN batch : batch[d] \in Revisions
  BY BatchType DEF TypeOK
<1>2. /\ DOMAIN kept = {d \in DOMAIN batch : (d - 1) \div MonthLength < months}
      /\ \A d \in DOMAIN kept : kept[d] = batch[d]
      /\ kept \in [DOMAIN kept -> Revisions]
  BY <1>1 DEF KeptByFailure
<1>3. kept \in Batch
  <2>1. DOMAIN kept \subseteq Days
    BY <1>1, <1>2
  <2> HIDE DEF kept
  <2> QED
    BY <2>1, <1>2, BatchIntro
<1>4. ASSUME NEW c \in DOMAIN batch, NEW d \in DOMAIN kept, c <= d
      PROVE  c \in DOMAIN kept
  <2>1. c \in Days /\ d \in Days /\ (d - 1) \div MonthLength < months
    BY <1>1, <1>2
  <2>2. (c - 1) \div MonthLength <= (d - 1) \div MonthLength
    BY <2>1, <1>4, EarlierDayEarlierMonth
  <2>3. (c - 1) \div MonthLength \in Int /\ (d - 1) \div MonthLength \in Int
    BY <2>1, TableAssumption DEF Days
  <2> QED
    BY <1>2, <2>1, <2>2, <2>3, SeriesAssumption
<1> QED
  BY <1>2, <1>3, <1>4 DEF PartOf

\* What a page gives of a window.
LEMMA ToBarsIsBatch ==
  ASSUME NEW page \in [Days -> Row], NEW D, D \subseteq Days
  PROVE  /\ ToBars(page, D) \in Batch
         /\ DOMAIN ToBars(page, D) = {d \in D : page[d].rev # NoBar /\ page[d].ok}
         /\ \A d \in DOMAIN ToBars(page, D) : ToBars(page, D)[d] = page[d].rev
<1> DEFINE got == {d \in D : page[d].rev # NoBar /\ page[d].ok}
           bars == ToBars(page, D)
<1>1. bars \in [got -> Revisions] /\ DOMAIN bars = got /\ \A d \in got : bars[d] = page[d].rev
  BY DEF ToBars, Row
<1>2. got \subseteq Days
  OBVIOUS
<1> HIDE DEF got, bars
<1>3. bars \in Batch
  BY <1>1, <1>2, BatchIntro
<1> QED
  BY <1>1, <1>3 DEF got, bars

\* An insert appends one row to each key of the batch and leaves every other key alone.
LEMMA AfterWrite ==
  ASSUME rows \in [Listed -> [Days -> Seq(Revisions)]],
         NEW s \in Listed, NEW b \in Batch, WriteBars(s, b)
  PROVE  /\ rows' \in [Listed -> [Days -> Seq(Revisions)]]
         /\ \A t \in Listed \ {s} : rows'[t] = rows[t]
         /\ \A d \in Days : rows'[s][d] = IF d \in DOMAIN b THEN Append(rows[s][d], b[d]) ELSE rows[s][d]
<1>1. \A d \in DOMAIN b : d \in Days /\ b[d] \in Revisions
  BY BatchType
<1> DEFINE col == [d \in Days |-> IF d \in DOMAIN b THEN Append(rows[s][d], b[d]) ELSE rows[s][d]]
<1>2. rows' = [rows EXCEPT ![s] = col]
  BY DEF WriteBars
<1>3. col \in [Days -> Seq(Revisions)]
  BY <1>1
<1>4. rows'[s] = col
  BY <1>2
<1> HIDE DEF col
<1>5. rows' \in [Listed -> [Days -> Seq(Revisions)]] /\ \A t \in Listed \ {s} : rows'[t] = rows[t]
  BY <1>2, <1>3
<1> QED
  BY <1>4, <1>5 DEF col

\* The rows of a written key end in the bar written.
LEMMA AppendedRow ==
  ASSUME NEW versions \in Seq(Revisions), NEW r \in Revisions
  PROVE  LET longer == Append(versions, r)
         IN  /\ longer # <<>> /\ longer \in Seq(Revisions)
             /\ Final(longer) = r
             /\ Len(longer) = Len(versions) + 1
             /\ \A i \in 1 .. Len(versions) : longer[i] = versions[i]
BY DEF Final

\* A merge keeps a key's last row.
LEMMA AfterMerge ==
  ASSUME rows \in [Listed -> [Days -> Seq(Revisions)]],
         NEW s \in Listed, NEW d \in Days, Merge(s, d)
  PROVE  /\ rows' \in [Listed -> [Days -> Seq(Revisions)]]
         /\ Stored(s, d)
         /\ \A t \in Listed, e \in Days :
              rows'[t][e] = IF t = s /\ e = d THEN <<Final(rows[s][d])>> ELSE rows[t][e]
<1>1. rows[s][d] \in Seq(Revisions) /\ Len(rows[s][d]) > 1
  BY DEF Merge
<1>2. Final(rows[s][d]) \in Revisions /\ rows[s][d] # <<>>
  BY <1>1 DEF Final
<1>3. rows' = [rows EXCEPT ![s][d] = <<Final(rows[s][d])>>]
  BY DEF Merge
<1> QED
  BY <1>2, <1>3 DEF Stored

\* A typed key that has rows has a last one, a revision.
LEMMA FinalIsRevision ==
  ASSUME NEW versions \in Seq(Revisions), versions # <<>>
  PROVE  Final(versions) \in Revisions /\ Len(versions) \in Nat \ {0}
BY DEF Final

-----------------------------------------------------------------------------
(* Types *)

\* latest_timestamp is the last stored day, no later than today, or 0.
LEMMA LatestIsLastStored ==
  ASSUME TypeOK, RowsAreSeen, NEW s \in Listed
  PROVE  /\ LatestTimestamp(s) \in 0 .. today
         /\ \A d \in Days : Stored(s, d) => d <= LatestTimestamp(s)
         /\ LatestTimestamp(s) # 0 => LatestTimestamp(s) \in Days /\ Stored(s, LatestTimestamp(s))
<1> DEFINE S == {d \in Days : Stored(s, d)}
<1>1. /\ Newest(S) \in S \cup {0}
      /\ \A e \in S : e <= Newest(S)
  BY NewestIsLast
<1>2. \A d \in S : d \in 0 .. today
  BY DEF RowsAreSeen, TypeOK, Days
<1>3. 0 \in 0 .. today
  BY DEF TypeOK
<1> QED
  BY <1>1, <1>2, <1>3 DEF LatestTimestamp

\* The symbol at hand and the ones after it.
LEMMA CurrentType ==
  ASSUME TypeOK, phase \notin {"idle", "list"}
  PROVE  /\ Current \in Listed /\ Tail(todo) \in Seq(Listed)
         /\ Named(todo) = {Current} \cup Named(Tail(todo))
<1>1. todo \in Seq(Listed) /\ todo # <<>>
  BY DEF TypeOK
<1>2. Current \in Listed /\ Tail(todo) \in Seq(Listed) /\ Len(Tail(todo)) = Len(todo) - 1
  BY <1>1 DEF Current
<1>3. \A i \in 1 .. Len(Tail(todo)) : Tail(todo)[i] = todo[i + 1]
  BY <1>1
<1>4. todo[1] = Current /\ Len(todo) >= 1
  BY <1>1 DEF Current
<1>5. ASSUME NEW x \in Named(todo)
      PROVE  x \in {Current} \cup Named(Tail(todo))
  <2>1. PICK i \in 1 .. Len(todo) : x = todo[i]
    BY <1>5 DEF Named
  <2>2. CASE i = 1
    BY <2>1, <2>2, <1>4
  <2>3. CASE i # 1
    <3>1. i - 1 \in 1 .. Len(Tail(todo)) /\ Tail(todo)[i - 1] = todo[i]
      BY <1>1, <1>2, <1>3, <2>3
    <3> QED
      BY <3>1, <2>1 DEF Named
  <2> QED
    BY <2>2, <2>3
<1>6. ASSUME NEW x \in Named(Tail(todo))
      PROVE  x \in Named(todo)
  <2>1. PICK i \in 1 .. Len(Tail(todo)) : x = Tail(todo)[i]
    BY <1>6 DEF Named
  <2>2. i + 1 \in 1 .. Len(todo) /\ todo[i + 1] = x
    BY <2>1, <1>1, <1>2, <1>3
  <2> QED
    BY <2>2 DEF Named
<1>7. Current \in Named(todo)
  BY <1>4, <1>1 DEF Named
<1> QED
  BY <1>2, <1>5, <1>6, <1>7

\* Going on to a list leaves run() at the list's first symbol, or at its end.
LEMMA GoOnType ==
  ASSUME NEW list \in Seq(Listed), GoOn(list)
  PROVE  /\ todo' = list /\ todo' \in Seq(Listed)
         /\ phase' \in {"idle", "ask"} /\ (todo' = <<>> <=> phase' \in {"idle", "list"})
         /\ latest' = 0 /\ batch' \in Batch /\ attempts' = 0
BY NoBarsIsBatch DEF GoOn

\* An answer puts a batch of the window in hand.
LEMMA AnsweredType ==
  ASSUME NEW page \in [Days -> Row], Answered(page)
  PROVE  /\ phase' = "write" /\ batch' \in Batch
         /\ batch' = ToBars(page, Window(FetchStart, end))
         /\ DOMAIN batch' = {d \in Window(FetchStart, end) : page[d].rev # NoBar /\ page[d].ok}
         /\ \A d \in DOMAIN batch' : batch'[d] = page[d].rev
         /\ UNCHANGED <<todo, latest, attempts, report, end>>
<1>1. Window(FetchStart, end) \subseteq Days
  BY DEF Window
<1> QED
  BY <1>1, ToBarsIsBatch DEF Answered

LEMMA InitType ==
  ASSUME Init
  PROVE  TypeOK
<1>1. <<>> \in Batch /\ <<>> \in Seq(Listed)
  BY NoBarsIsBatch
<1>2. [s \in Listed |-> [d \in Days |-> NoRow]] \in Pages
  BY DEF Pages, NoRow, Row
<1>3. [s \in Listed |-> [d \in Days |-> <<>>]] \in [Listed -> [Days -> Seq(Revisions)]]
  OBVIOUS
<1>4. NoReport \in [{"asked", "synced", "skipped", "failed"} -> SUBSET Listed]
  BY DEF NoReport
<1>5. source \in Pages /\ cache \in Pages /\ rows \in [Listed -> [Days -> Seq(Revisions)]]
  BY <1>2, <1>3 DEF Init, TableInit
<1>6. todo \in Seq(Listed) /\ batch \in Batch /\ report \in [{"asked", "synced", "skipped", "failed"} -> SUBSET Listed]
  BY <1>1, <1>4 DEF Init
<1>7. 0 \in 0 .. LastDay /\ 0 \in 0 .. MaxQuirks /\ 0 \in 0 .. MaxRuns /\ 0 \in 0 .. MaxCrashes
      /\ 0 \in 0 .. MaxRetries - 1 /\ 0 \in 0 .. 0
  BY BackfillAssumption, SeriesAssumption, SourceAssumption
<1> QED
  BY <1>5, <1>6, <1>7 DEF Init, TypeOK, LimiterInit

\* The list of a run is a list of symbols.
LEMMA ListsAreTyped == Universe \in Seq(Listed) /\ \A list \in Requests : list \in Seq(Listed)
BY BackfillAssumption

LEMMA NamedIsListed ==
  ASSUME NEW list \in Seq(Listed)
  PROVE  Named(list) \subseteq Listed
BY DEF Named

\* A failed symbol or listing is reported, or forgotten with the run.
LEMMA RaisedType ==
  ASSUME TypeOK, phase \notin {"idle", "ask"}, Raised
  PROVE  /\ todo' \in Seq(Listed) /\ phase' \in {"idle", "ask"}
         /\ (todo' = <<>> <=> phase' \in {"idle", "list"})
         /\ latest' \in 0 .. today /\ batch' \in Batch /\ attempts' \in 0 .. MaxRetries - 1
         /\ report' \in [{"asked", "synced", "skipped", "failed"} -> SUBSET Listed]
<1>1. CASE phase = "list"
  <2>1. NoReport \in [{"asked", "synced", "skipped", "failed"} -> SUBSET Listed]
    BY DEF NoReport
  <2>2. 0 \in 0 .. MaxRetries - 1
    BY SourceAssumption
  <2> QED
    BY <1>1, <2>1, <2>2 DEF Raised, ListingFails, TypeOK
<1>2. CASE phase # "list"
  <2>1. SymbolFails
    BY <1>2 DEF Raised
  <2>2. Current \in Listed /\ Tail(todo) \in Seq(Listed)
    BY <1>2, CurrentType
  <2>3. /\ todo' \in Seq(Listed) /\ phase' \in {"idle", "ask"}
        /\ (todo' = <<>> <=> phase' \in {"idle", "list"})
        /\ latest' = 0 /\ batch' \in Batch /\ attempts' = 0
    BY <2>1, <2>2, GoOnType, Zenon DEF SymbolFails
  <2>4. report' \in [{"asked", "synced", "skipped", "failed"} -> SUBSET Listed]
    BY <2>1, <2>2 DEF SymbolFails, TypeOK
  <2>5. 0 \in 0 .. MaxRetries - 1 /\ 0 \in 0 .. today
    BY SourceAssumption DEF TypeOK
  <2> QED
    BY <2>3, <2>4, <2>5
<1> QED
  BY <1>1, <1>2

\* The listing of the universe starts its loop.
LEMMA UniverseListedType ==
  ASSUME TypeOK, UniverseListed
  PROVE  /\ todo' \in Seq(Listed) /\ phase' \in {"idle", "ask"}
         /\ (todo' = <<>> <=> phase' \in {"idle", "list"})
         /\ latest' \in 0 .. today /\ batch' \in Batch /\ attempts' \in 0 .. MaxRetries - 1
         /\ end' = today
         /\ report' \in [{"asked", "synced", "skipped", "failed"} -> SUBSET Listed]
<1>1. /\ todo' \in Seq(Listed) /\ phase' \in {"idle", "ask"}
      /\ (todo' = <<>> <=> phase' \in {"idle", "list"})
      /\ latest' = 0 /\ batch' \in Batch /\ attempts' = 0
  BY ListsAreTyped, GoOnType, Zenon DEF UniverseListed
<1>2. Named(Universe) \subseteq Listed
  BY ListsAreTyped, NamedIsListed
<1>3. report' \in [{"asked", "synced", "skipped", "failed"} -> SUBSET Listed] /\ end' = today
  BY <1>2 DEF UniverseListed, TypeOK
<1>4. 0 \in 0 .. MaxRetries - 1 /\ 0 \in 0 .. today
  BY SourceAssumption DEF TypeOK
<1> QED
  BY <1>1, <1>3, <1>4

\* What the end of the work on a symbol leaves.
LEMMA DoneType ==
  ASSUME TypeOK, phase = "write", GoOn(Tail(todo))
  PROVE  /\ todo' \in Seq(Listed) /\ phase' \in {"idle", "ask"}
         /\ (todo' = <<>> <=> phase' \in {"idle", "list"})
         /\ latest' \in 0 .. today /\ batch' \in Batch /\ attempts' \in 0 .. MaxRetries - 1
<1>1. Tail(todo) \in Seq(Listed)
  BY CurrentType
<1>2. 0 \in 0 .. MaxRetries - 1 /\ 0 \in 0 .. today
  BY SourceAssumption DEF TypeOK
<1> QED
  BY <1>1, <1>2, GoOnType

\* A write of a part of the batch keeps the table typed.
LEMMA PartWritten ==
  ASSUME TypeOK, phase = "write", NEW part, PartOf(part), WriteBars(Current, part)
  PROVE  /\ rows' \in [Listed -> [Days -> Seq(Revisions)]]
         /\ \A t \in Listed \ {Current} : rows'[t] = rows[t]
         /\ \A d \in Days : rows'[Current][d] = IF d \in DOMAIN part THEN Append(rows[Current][d], batch[d])
                                                                    ELSE rows[Current][d]
<1>1. part \in Batch /\ Current \in Listed /\ rows \in [Listed -> [Days -> Seq(Revisions)]]
  BY CurrentType DEF PartOf, TypeOK
<1>2. /\ rows' \in [Listed -> [Days -> Seq(Revisions)]]
      /\ \A t \in Listed \ {Current} : rows'[t] = rows[t]
      /\ \A d \in Days : rows'[Current][d] = IF d \in DOMAIN part THEN Append(rows[Current][d], part[d])
                                                                 ELSE rows[Current][d]
  BY <1>1, AfterWrite, Zenon
<1> QED
  BY <1>2 DEF PartOf

\* How a step may change the table.
LEMMA RowsSteps ==
  ASSUME TypeOK, [Next]_vars
  PROVE  \/ UNCHANGED rows
         \/ \E s \in Listed, d \in Days :
              Merge(s, d) /\ UNCHANGED <<market, process, via, cache, crashes>>
         \/ /\ phase = "write" /\ phase' \in {"idle", "ask"} /\ UNCHANGED <<market, via, cache, end>>
            /\ \E part : PartOf(part) /\ WriteBars(Current, part)
<1>1. ASSUME StartFullRun(TRUE) \/ StartFullRun(FALSE)
      PROVE  UNCHANGED rows
  BY <1>1 DEF StartFullRun
<1>2. ASSUME NEW forced \in BOOLEAN, NEW list \in Requests, StartRun(list, forced)
      PROVE  UNCHANGED rows
  BY <1>2 DEF StartRun
<1>3. ASSUME AskLatest \/ Call \/ ListSector \/ Download \/ QueryCache \/ Skip
      PROVE  UNCHANGED rows
  BY <1>3 DEF AskLatest, Call, ListSector, Download, QueryCache, Skip
<1>4. ASSUME Write \/ WriteFails \/ (Crash /\ rows' # rows)
      PROVE  /\ phase = "write" /\ phase' \in {"idle", "ask"} /\ UNCHANGED <<market, via, cache, end>>
             /\ \E part : PartOf(part) /\ WriteBars(Current, part)
  <2>1. CASE Write
    BY <2>1, BatchIsPart DEF Write, GoOn
  <2>2. CASE WriteFails
    <3>1. PICK months \in 0 .. LastDay : WriteBars(Current, KeptByFailure(batch, months))
      BY <2>2 DEF WriteFails
    <3>2. phase = "write" /\ SymbolFails /\ UNCHANGED <<market, via, cache, end>>
      BY <2>2 DEF WriteFails
    <3> QED
      BY <3>1, <3>2, KeptIsPart DEF SymbolFails, GoOn
  <2>3. CASE Crash /\ rows' # rows
    <3>1. PICK months \in 0 .. LastDay : WriteBars(Current, KeptByFailure(batch, months))
      BY <2>3 DEF Crash
    <3>2. phase = "write" /\ phase' = "idle" /\ UNCHANGED <<market, via, cache, end>>
      BY <2>3 DEF Crash
    <3> QED
      BY <3>1, <3>2, KeptIsPart
  <2> QED
    BY <1>4, <2>1, <2>2, <2>3
<1>5. ASSUME NewDay \/ LimiterTick \/ \E s \in Listed, d \in Days : Correct(s, d)
      PROVE  UNCHANGED rows
  BY <1>5 DEF NewDay, LimiterTick, Correct
<1>6. ASSUME NEW s \in Listed, NEW d \in Days, MergeRows(s, d)
      PROVE  Merge(s, d) /\ UNCHANGED <<market, process, via, cache, crashes>>
  BY <1>6 DEF MergeRows
<1>7. CASE UNCHANGED vars
  BY <1>7 DEF vars
<1>8. CASE Next
  BY <1>8, <1>1, <1>2, <1>3, <1>4, <1>5, <1>6, Zenon DEF Next, Process
<1> QED
  BY <1>7, <1>8

\* Every step of a backfill keeps its types.
LEMMA TypeStep ==
  ASSUME TypeOK, RowsAreSeen, [Next]_vars
  PROVE  TypeOK'
<1> USE DEF market, process
<1>0. rows' \in [Listed -> [Days -> Seq(Revisions)]]
  <2>1. CASE UNCHANGED rows
    BY <2>1 DEF TypeOK
  <2>2. ASSUME NEW s \in Listed, NEW d \in Days, Merge(s, d)
        PROVE  rows' \in [Listed -> [Days -> Seq(Revisions)]]
    BY <2>2, AfterMerge DEF TypeOK
  <2>3. ASSUME phase = "write", NEW part, PartOf(part), WriteBars(Current, part)
        PROVE  rows' \in [Listed -> [Days -> Seq(Revisions)]]
    BY <2>3, PartWritten
  <2> QED
    BY <2>1, <2>2, <2>3, RowsSteps
<1>1. ASSUME NEW forced \in BOOLEAN, StartFullRun(forced)
      PROVE  TypeOK'
  <2>1. 0 \in 0 .. MaxRetries - 1 /\ todo = <<>>
    BY <1>1, SourceAssumption DEF StartFullRun, TypeOK
  <2>2. NoReport \in [{"asked", "synced", "skipped", "failed"} -> SUBSET Listed]
    BY DEF NoReport
  <2>3. runs' \in 0 .. MaxRuns
    BY <1>1, BackfillAssumption DEF StartFullRun, TypeOK
  <2> QED
    BY <1>0, <1>1, <2>1, <2>2, <2>3 DEF StartFullRun, TypeOK
<1>2. ASSUME NEW forced \in BOOLEAN, NEW list \in Requests, StartRun(list, forced)
      PROVE  TypeOK'
  <2>1. list \in Seq(Listed) /\ Named(list) \subseteq Listed
    BY ListsAreTyped, NamedIsListed
  <2>2. /\ todo' \in Seq(Listed) /\ phase' \in {"idle", "ask"}
        /\ (todo' = <<>> <=> phase' \in {"idle", "list"})
        /\ latest' = 0 /\ batch' \in Batch /\ attempts' = 0
    BY <1>2, <2>1, GoOnType, Zenon DEF StartRun
  <2>3. report' \in [{"asked", "synced", "skipped", "failed"} -> SUBSET Listed]
    BY <1>2, <2>1 DEF StartRun, NoReport
  <2>4. runs' \in 0 .. MaxRuns /\ 0 \in 0 .. MaxRetries - 1 /\ 0 \in 0 .. today /\ today \in 0 .. today
    BY <1>2, BackfillAssumption, SourceAssumption DEF StartRun, TypeOK
  <2> QED
    BY <1>0, <1>2, <2>2, <2>3, <2>4 DEF StartRun, TypeOK
<1>3. ASSUME AskLatest
      PROVE  TypeOK'
  <2>1. Current \in Listed
    BY <1>3, CurrentType DEF AskLatest
  <2>2. latest' \in 0 .. today
    BY <1>3, <2>1, LatestIsLastStored DEF AskLatest, TypeOK
  <2> QED
    BY <1>0, <1>3, <2>2 DEF AskLatest, TypeOK
<1>4. ASSUME Call
      PROVE  TypeOK'
  <2>1. last' \in Ages \cup {NeverCalled}
    BY <1>4, LimiterAssumption DEF Call, Called, Ages
  <2>2. CASE phase = "list" /\ UniverseListed
    <3>1. UNCHANGED <<market, rows, via, cache, crashes, runs, force>>
      BY <1>4 DEF Call
    <3>2. today \in 0 .. today
      BY DEF TypeOK
    <3> QED
      BY <1>0, <2>1, <2>2, <3>1, <3>2, UniverseListedType DEF TypeOK
  <2>3. CASE phase = "fetch" /\ Answered(source[Current])
    <3>1. source[Current] \in [Days -> Row]
      BY <2>3, CurrentType DEF TypeOK, Pages
    <3>2. /\ UNCHANGED <<market, rows, via, cache, crashes, runs, force, todo, latest, attempts, report, end>>
          /\ phase' = "write" /\ batch' \in Batch /\ DOMAIN batch' \subseteq Window(FetchStart, end)
      BY <1>4, <2>3, <3>1, AnsweredType DEF Call
    <3>3. FetchStart' = FetchStart /\ todo # <<>>
      BY <2>3, <3>2 DEF FetchStart, TypeOK
    <3> QED
      BY <1>0, <2>1, <3>2, <3>3 DEF TypeOK, Window
  <2>4. CASE RetryLeft(Attempted) /\ attempts' = Attempted /\ UNCHANGED <<phase, todo, latest, batch, report, end>>
    <3>1. attempts' \in 0 .. MaxRetries - 1
      BY <2>4, SourceAssumption DEF RetryLeft, Attempted, TypeOK
    <3>2. phase # "write" /\ UNCHANGED <<market, rows, via, cache, crashes, runs, force>>
      BY <1>4 DEF Call
    <3> QED
      BY <1>0, <2>1, <2>4, <3>1, <3>2 DEF TypeOK
  <2>5. CASE Raised /\ UNCHANGED end
    <3>1. phase \notin {"idle", "ask"} /\ UNCHANGED <<market, rows, via, cache, crashes, runs, force>>
      BY <1>4 DEF Call
    <3> QED
      BY <1>0, <2>1, <2>5, <3>1, RaisedType DEF TypeOK
  <2> QED
    BY <1>4, <2>2, <2>3, <2>4, <2>5, Zenon DEF Call
<1>5. ASSUME ListSector
      PROVE  TypeOK'
  <2>1. phase = "list" /\ UNCHANGED <<market, rows, via, cache, crashes, runs, force, last>>
    BY <1>5 DEF ListSector
  <2>2. CASE UniverseListed
    <3>1. today \in 0 .. today
      BY DEF TypeOK
    <3> QED
      BY <1>0, <2>1, <2>2, <3>1, UniverseListedType DEF TypeOK
  <2>3. CASE Raised /\ UNCHANGED end
    BY <1>0, <2>1, <2>3, RaisedType DEF TypeOK
  <2> QED
    BY <1>5, <2>2, <2>3 DEF ListSector
<1>6. ASSUME Download
      PROVE  TypeOK'
  <2>1. phase = "fetch" /\ UNCHANGED <<market, rows, via, crashes, runs, force, end, last>>
    BY <1>6 DEF Download
  <2>2. CASE SymbolFails /\ UNCHANGED cache
    <3>1. Raised
      BY <2>1, <2>2 DEF Raised
    <3> QED
      BY <1>0, <2>1, <2>2, <3>1, RaisedType DEF TypeOK
  <2>3. ASSUME NEW fresh \in SUBSET Window(FetchStart, end),
               cache' = [cache EXCEPT ![Current] =
                           [d \in Days |-> IF d \in fresh THEN source[Current][d] ELSE @[d]]],
               phase' = "query", UNCHANGED <<todo, latest, batch, attempts, report>>
        PROVE  TypeOK'
    <3>1. Current \in Listed
      BY <2>1, CurrentType
    <3>2. cache' \in Pages
      BY <2>3, <3>1 DEF TypeOK, Pages
    <3> QED
      BY <1>0, <2>1, <2>3, <3>2 DEF TypeOK
  <2> QED
    BY <1>6, <2>2, <2>3 DEF Download
<1>7. ASSUME QueryCache
      PROVE  TypeOK'
  <2>1. phase = "query" /\ UNCHANGED <<market, rows, via, cache, crashes, runs, force, last>>
    BY <1>7 DEF QueryCache
  <2>2. CASE SymbolFails /\ UNCHANGED end
    <3>1. Raised
      BY <2>1, <2>2 DEF Raised
    <3> QED
      BY <1>0, <2>1, <2>2, <3>1, RaisedType DEF TypeOK
  <2>3. ASSUME NEW page \in [Days -> Row], Answered(page)
        PROVE  TypeOK'
    <3>1. /\ UNCHANGED <<todo, latest, attempts, report, end>>
          /\ phase' = "write" /\ batch' \in Batch /\ DOMAIN batch' \subseteq Window(FetchStart, end)
      BY <2>3, AnsweredType
    <3>2. FetchStart' = FetchStart /\ todo # <<>>
      BY <2>1, <3>1 DEF FetchStart, TypeOK
    <3> QED
      BY <1>0, <2>1, <3>1, <3>2 DEF TypeOK, Window
  <2>4. cache[Current] \in [Days -> Row] /\ [d \in Days |-> NoRow] \in [Days -> Row]
    BY <2>1, CurrentType DEF TypeOK, Pages, NoRow, Row
  <2> QED
    BY <1>7, <2>2, <2>3, <2>4 DEF QueryCache
<1>8. ASSUME Skip
      PROVE  TypeOK'
  <2>1. /\ phase = "write" /\ GoOn(Tail(todo))
        /\ UNCHANGED <<market, rows, via, cache, crashes, runs, force, end, last>>
    BY <1>8 DEF Skip
  <2>2. report' \in [{"asked", "synced", "skipped", "failed"} -> SUBSET Listed]
    BY <1>8, <2>1, CurrentType DEF Skip, TypeOK
  <2> QED
    BY <1>0, <2>1, <2>2, DoneType DEF TypeOK
<1>9. ASSUME Write
      PROVE  TypeOK'
  <2>1. phase = "write" /\ GoOn(Tail(todo)) /\ UNCHANGED <<market, via, cache, crashes, runs, force, end, last>>
    BY <1>9 DEF Write
  <2>2. report' \in [{"asked", "synced", "skipped", "failed"} -> SUBSET Listed]
    BY <1>9, <2>1, CurrentType DEF Write, TypeOK
  <2> QED
    BY <1>0, <2>1, <2>2, DoneType DEF TypeOK
<1>10. ASSUME WriteFails
       PROVE  TypeOK'
  <2>1. phase = "write" /\ Raised /\ UNCHANGED <<market, via, cache, runs, force, end, last>>
    BY <1>10 DEF WriteFails, Raised
  <2>2. crashes' \in 0 .. MaxCrashes
    BY <1>10, BackfillAssumption DEF WriteFails, TypeOK
  <2> QED
    BY <1>0, <2>1, <2>2, RaisedType DEF TypeOK
<1>11. ASSUME Crash
       PROVE  TypeOK'
  <2>1. crashes' \in 0 .. MaxCrashes /\ 0 \in 0 .. today /\ 0 \in 0 .. MaxRetries - 1
    BY <1>11, BackfillAssumption, SourceAssumption DEF Crash, TypeOK
  <2>2. NoReport \in [{"asked", "synced", "skipped", "failed"} -> SUBSET Listed]
    BY DEF NoReport
  <2> QED
    BY <1>0, <1>11, <2>1, <2>2, NoBarsIsBatch DEF Crash, TypeOK
<1>12. ASSUME NewDay
       PROVE  TypeOK'
  <2>0. /\ LastDay \in Int /\ today \in 0 .. LastDay /\ end \in 0 .. today /\ latest \in 0 .. today
        /\ today < LastDay /\ today' = today + 1
    BY <1>12, SeriesAssumption DEF NewDay, TypeOK
  <2>1. today' \in 0 .. LastDay /\ end \in 0 .. today' /\ latest \in 0 .. today' /\ today' = today + 1
    BY <2>0
  <2>2. PICK missing \in SUBSET Listed, malformed \in SUBSET Listed :
          /\ quirks' = IF missing \cup malformed = {} THEN quirks ELSE quirks + 1
          /\ quirks' <= MaxQuirks
          /\ source' = [s \in Listed |-> [source[s] EXCEPT ![today'] =
                          IF s \in missing THEN NoRow ELSE [rev |-> 1, ok |-> s \notin malformed]]]
          /\ prompt' = prompt \cup ((Listed \ (missing \cup malformed)) \X {today'})
    BY <1>12 DEF NewDay
  <2>3. today' \in Days
    BY <2>1 DEF TypeOK, Days
  <2>4. prompt' \subseteq Listed \X Days
    BY <2>2, <2>3 DEF TypeOK
  <2>5. quirks' \in 0 .. MaxQuirks
    <3>1. MaxQuirks \in Nat /\ quirks \in 0 .. MaxQuirks
      BY BackfillAssumption DEF TypeOK
    <3>2. quirks' \in Nat
      BY <2>2, <3>1
    <3> QED
      BY <2>2, <3>1, <3>2
  <2>6. source' \in Pages
    <3>1. 1 \in Revisions
      BY SeriesAssumption DEF Revisions
    <3>2. NoRow \in Row /\ \A s \in Listed : [rev |-> 1, ok |-> s \notin malformed] \in Row
      BY <3>1 DEF Row, NoRow
    <3>3. source \in [Listed -> [Days -> Row]]
      BY DEF TypeOK, Pages
    <3> QED
      BY <2>2, <2>3, <3>2, <3>3 DEF Pages
  <2> QED
    BY <1>0, <1>12, <2>1, <2>4, <2>5, <2>6 DEF NewDay, TypeOK, FetchStart
<1>13. ASSUME LimiterTick
       PROVE  TypeOK'
  <2>1. last' \in Ages \cup {NeverCalled}
    BY <1>13, LimiterAssumption DEF LimiterTick, TimePasses, Ages
  <2> QED
    BY <1>0, <1>13, <2>1 DEF LimiterTick, TypeOK, FetchStart
<1>14. ASSUME NEW s \in Listed, NEW d \in Days, Correct(s, d)
       PROVE  TypeOK'
  <2>1. quirks' \in 0 .. MaxQuirks
    <3>1. MaxQuirks \in Nat /\ quirks \in 0 .. MaxQuirks
      BY BackfillAssumption DEF TypeOK
    <3>2. quirks < MaxQuirks /\ quirks' = quirks + 1
      BY <1>14 DEF Correct
    <3> QED
      BY <3>1, <3>2
  <2>2. source' \in Pages
    <3>1. source \in [Listed -> [Days -> Row]]
      BY DEF TypeOK, Pages
    <3>2. source[s][d] \in Row /\ source[s][d].rev \in Revisions \cup {NoBar}
      BY <3>1 DEF Row
    <3>3. source[s][d].rev + 1 \in Revisions
      BY <1>14, <3>2, SeriesAssumption DEF Correct, Revisions, NoBar
    <3>4. [rev |-> source[s][d].rev + 1, ok |-> TRUE] \in Row
      BY <3>3 DEF Row
    <3>5. source' = [source EXCEPT ![s][d] = [rev |-> source[s][d].rev + 1, ok |-> TRUE]]
      BY <1>14 DEF Correct
    <3> QED
      BY <3>1, <3>4, <3>5 DEF Pages
  <2> QED
    BY <1>0, <1>14, <2>1, <2>2 DEF Correct, TypeOK, FetchStart
<1>15. ASSUME NEW s \in Listed, NEW d \in Days, MergeRows(s, d)
       PROVE  TypeOK'
  BY <1>0, <1>15 DEF MergeRows, TypeOK, FetchStart
<1>16. CASE UNCHANGED vars
  BY <1>0, <1>16 DEF vars, TypeOK, FetchStart
<1>17. CASE Next
  BY <1>17, <1>1, <1>2, <1>3, <1>4, <1>5, <1>6, <1>7, <1>8, <1>9, <1>10, <1>11, <1>12, <1>13, <1>14, <1>15,
     Zenon DEF Next, Process
<1> QED
  BY <1>16, <1>17

-----------------------------------------------------------------------------
(* The source and the cache *)

\* How a step may change the pages.
LEMMA PagesSteps ==
  ASSUME [Next]_vars
  PROVE  /\ via' = via
         /\ \/ UNCHANGED <<today, source, prompt, cache>>
            \/ Download /\ phase' = "query" /\ UNCHANGED <<today, source, prompt>>
            \/ NewDay \/ \E s \in Listed, d \in Days : Correct(s, d)
<1> USE DEF market
<1>1. ASSUME \E forced \in BOOLEAN : StartFullRun(forced) \/ \E list \in Requests : StartRun(list, forced)
      PROVE  UNCHANGED <<via, today, source, prompt, cache>>
  BY <1>1 DEF StartFullRun, StartRun
<1>2. ASSUME AskLatest \/ Call \/ ListSector \/ QueryCache \/ Skip \/ Write \/ WriteFails \/ Crash
      PROVE  UNCHANGED <<via, today, source, prompt, cache>>
  BY <1>2 DEF AskLatest, Call, ListSector, QueryCache, Skip, Write, WriteFails, Crash
<1>3. ASSUME LimiterTick \/ \E s \in Listed, d \in Days : MergeRows(s, d)
      PROVE  UNCHANGED <<via, today, source, prompt, cache>>
  BY <1>3 DEF LimiterTick, MergeRows
<1>4. ASSUME Download
      PROVE  UNCHANGED <<via, today, source, prompt>> /\ (phase' = "query" \/ cache' = cache)
  BY <1>4 DEF Download
<1>5. ASSUME NewDay \/ \E s \in Listed, d \in Days : Correct(s, d)
      PROVE  via' = via
  BY <1>5 DEF NewDay, Correct
<1>6. CASE UNCHANGED vars
  BY <1>6 DEF vars
<1>7. CASE Next
  BY <1>7, <1>1, <1>2, <1>3, <1>4, <1>5, Zenon DEF Next, Process
<1> QED
  BY <1>6, <1>7

\* A download replaces some rows of one symbol's cache by those of its page.
LEMMA AfterDownload ==
  ASSUME TypeOK, Download, phase' = "query"
  PROVE  \E fresh \in SUBSET Days :
           /\ phase' = "query" /\ UNCHANGED <<todo, latest>>
           /\ \A d \in Window(FetchStart, end) \ fresh : cache[Current][d].ok
           /\ \A s \in Listed, d \in Days :
                cache'[s][d] = IF s = Current /\ d \in fresh THEN source[s][d] ELSE cache[s][d]
<1>1. PICK fresh \in SUBSET Window(FetchStart, end) :
        /\ \A d \in Window(FetchStart, end) \ fresh : cache[Current][d].ok
        /\ cache' = [cache EXCEPT ![Current] =
                       [d \in Days |-> IF d \in fresh THEN source[Current][d] ELSE @[d]]]
        /\ phase' = "query" /\ UNCHANGED <<todo, latest>>
  BY DEF Download, SymbolFails, GoOn
<1>2. Current \in Listed
  BY CurrentType DEF Download
<1>3. \A s \in Listed, d \in Days :
        cache'[s][d] = IF s = Current /\ d \in fresh THEN source[s][d] ELSE cache[s][d]
  BY <1>1, <1>2 DEF TypeOK, Pages
<1> QED
  BY <1>1, <1>3 DEF Window

\* A new day is issued to pages that had nothing of it.
LEMMA AfterNewDay ==
  ASSUME TypeOK, NewDay
  PROVE  /\ today' = today + 1 /\ today' \in Days
         /\ \A s \in Listed, d \in Days \ {today'} : source'[s][d] = source[s][d]
         /\ \A s \in Listed :
              /\ source'[s][today'] \in {NoRow, [rev |-> 1, ok |-> TRUE], [rev |-> 1, ok |-> FALSE]}
              /\ <<s, today'>> \in prompt' \ prompt => source'[s][today'] = [rev |-> 1, ok |-> TRUE]
         /\ \A s \in Listed, d \in Days \ {today'} : <<s, d>> \in prompt' => <<s, d>> \in prompt
<1>1. PICK missing \in SUBSET Listed, malformed \in SUBSET Listed :
        /\ missing \cap malformed = {}
        /\ source' = [s \in Listed |-> [source[s] EXCEPT ![today'] =
                        IF s \in missing THEN NoRow ELSE [rev |-> 1, ok |-> s \notin malformed]]]
        /\ prompt' = prompt \cup ((Listed \ (missing \cup malformed)) \X {today'})
  BY DEF NewDay
<1>2. today' = today + 1 /\ today' \in Days
  <2>1. LastDay \in Int /\ today \in 0 .. LastDay /\ today < LastDay /\ today' = today + 1
    BY SeriesAssumption DEF NewDay, TypeOK
  <2> QED
    BY <2>1 DEF Days
<1>3. source \in [Listed -> [Days -> Row]]
  BY DEF TypeOK, Pages
<1>4. \A s \in Listed, d \in Days \ {today'} : source'[s][d] = source[s][d]
  BY <1>1, <1>2, <1>3
<1>5. \A s \in Listed :
        source'[s][today'] = IF s \in missing THEN NoRow ELSE [rev |-> 1, ok |-> s \notin malformed]
  BY <1>1, <1>2, <1>3
<1>6. \A s \in Listed : <<s, today'>> \in prompt' \ prompt => s \notin missing \cup malformed
  BY <1>1
<1>7. \A s \in Listed, d \in Days \ {today'} : <<s, d>> \in prompt' => <<s, d>> \in prompt
  BY <1>1
<1> QED
  BY <1>2, <1>4, <1>5, <1>6, <1>7, Zenon

\* A correction replaces one row by a later, well-formed one.
LEMMA AfterCorrect ==
  ASSUME TypeOK, NEW t \in Listed, NEW c \in Days, Correct(t, c)
  PROVE  /\ UNCHANGED <<today, prompt>> /\ c <= today
         /\ source[t][c].rev \in 0 .. MaxRevision
         /\ \A s \in Listed, d \in Days :
              source'[s][d] = IF s = t /\ d = c THEN [rev |-> source[t][c].rev + 1, ok |-> TRUE]
                                                ELSE source[s][d]
<1>1. source \in [Listed -> [Days -> Row]] /\ source[t][c] \in Row
  BY DEF TypeOK, Pages
<1>2. source[t][c].rev \in 0 .. MaxRevision
  BY <1>1, SeriesAssumption DEF Row, Revisions, NoBar
<1>3. source' = [source EXCEPT ![t][c] = [rev |-> source[t][c].rev + 1, ok |-> TRUE]]
  BY DEF Correct
<1> QED
  BY <1>1, <1>2, <1>3 DEF Correct

\* The revision of a row of a page.
LEMMA RowType ==
  ASSUME TypeOK, NEW s \in Listed, NEW d \in Days
  PROVE  /\ source[s][d].rev \in Nat /\ source[s][d].ok \in BOOLEAN
         /\ cache[s][d].rev \in Nat /\ cache[s][d].ok \in BOOLEAN
         /\ today \in Nat
<1>1. source[s][d] \in Row /\ cache[s][d] \in Row
  BY DEF TypeOK, Pages
<1> QED
  BY <1>1, SeriesAssumption DEF Row, Revisions, NoBar, TypeOK

LEMMA PagesStep ==
  ASSUME TypeOK, PagesAreIssued, [Next]_vars
  PROVE  PagesAreIssued'
<1>1. CASE UNCHANGED <<today, source, prompt, cache>>
  BY <1>1 DEF PagesAreIssued
<1>2. CASE Download /\ phase' = "query" /\ UNCHANGED <<today, source, prompt>>
  <2>1. PICK fresh \in SUBSET Days :
          \A s \in Listed, d \in Days :
            cache'[s][d] = IF s = Current /\ d \in fresh THEN source[s][d] ELSE cache[s][d]
    BY <1>2, AfterDownload
  <2> SUFFICES ASSUME NEW s \in Listed, NEW d \in Days
               PROVE  /\ d > today => source[s][d].rev = NoBar
                      /\ source[s][d].ok => source[s][d].rev # NoBar
                      /\ cache'[s][d].ok => cache'[s][d].rev # NoBar
                      /\ cache'[s][d].rev <= source[s][d].rev
                      /\ <<s, d>> \in prompt => d <= today /\ source[s][d].ok
    BY <1>2 DEF PagesAreIssued
  <2>2. cache'[s][d] = source[s][d] \/ cache'[s][d] = cache[s][d]
    BY <2>1
  <2> QED
    BY <2>2, RowType DEF PagesAreIssued
<1>3. CASE NewDay
  <2> SUFFICES ASSUME NEW s \in Listed, NEW d \in Days
               PROVE  /\ d > today' => source'[s][d].rev = NoBar
                      /\ source'[s][d].ok => source'[s][d].rev # NoBar
                      /\ cache[s][d].ok => cache[s][d].rev # NoBar
                      /\ cache[s][d].rev <= source'[s][d].rev
                      /\ <<s, d>> \in prompt' => d <= today' /\ source'[s][d].ok
    BY <1>3 DEF PagesAreIssued, NewDay
  <2>1. today' = today + 1 /\ today' \in Days /\ d \in Int
    BY <1>3, AfterNewDay DEF Days
  <2>2. CASE d # today'
    <3>1. source'[s][d] = source[s][d] /\ (<<s, d>> \in prompt' => <<s, d>> \in prompt)
      BY <1>3, <2>2, AfterNewDay
    <3> QED
      BY <2>1, <3>1, RowType DEF PagesAreIssued
  <2>3. CASE d = today'
    <3>1. /\ source'[s][d] \in {NoRow, [rev |-> 1, ok |-> TRUE], [rev |-> 1, ok |-> FALSE]}
          /\ <<s, d>> \in prompt' \ prompt => source'[s][d] = [rev |-> 1, ok |-> TRUE]
      BY <1>3, <2>3, AfterNewDay
    <3>2. source[s][d].rev = 0 /\ cache[s][d].rev = 0 /\ <<s, d>> \notin prompt /\ ~ cache[s][d].ok
      BY <2>1, <2>3, RowType DEF PagesAreIssued, NoBar
    <3> QED
      BY <2>1, <2>3, <3>1, <3>2 DEF NoRow, NoBar
  <2> QED
    BY <2>2, <2>3
<1>4. ASSUME NEW t \in Listed, NEW c \in Days, Correct(t, c)
      PROVE  PagesAreIssued'
  <2> SUFFICES ASSUME NEW s \in Listed, NEW d \in Days
               PROVE  /\ d > today => source'[s][d].rev = NoBar
                      /\ source'[s][d].ok => source'[s][d].rev # NoBar
                      /\ cache[s][d].ok => cache[s][d].rev # NoBar
                      /\ cache[s][d].rev <= source'[s][d].rev
                      /\ <<s, d>> \in prompt => d <= today /\ source'[s][d].ok
    BY <1>4 DEF PagesAreIssued, Correct
  <2>1. /\ c <= today /\ source[t][c].rev \in 0 .. MaxRevision
        /\ source'[s][d] = IF s = t /\ d = c THEN [rev |-> source[t][c].rev + 1, ok |-> TRUE]
                                             ELSE source[s][d]
    BY <1>4, AfterCorrect
  <2>2. CASE s = t /\ d = c
    BY <2>1, <2>2, RowType, SeriesAssumption DEF PagesAreIssued, NoBar, Days
  <2>3. CASE ~ (s = t /\ d = c)
    BY <2>1, <2>3 DEF PagesAreIssued
  <2> QED
    BY <2>2, <2>3
<1> QED
  BY <1>1, <1>2, <1>3, <1>4, PagesSteps

\* Pages and the calendar only move on.
LEMMA PagesGrow ==
  ASSUME TypeOK, PagesAreIssued, [Next]_vars
  PROVE  /\ via' = via /\ today \in Nat /\ today' \in Nat /\ today <= today'
         /\ \A s \in Listed, d \in Days :
              /\ source[s][d].rev <= source'[s][d].rev
              /\ cache[s][d].rev <= cache'[s][d].rev
              /\ source'[s][d].rev \in Nat /\ cache'[s][d].rev \in Nat
<1>0. via' = via /\ today \in Nat
  BY PagesSteps DEF TypeOK
<1>1. CASE UNCHANGED <<today, source, prompt, cache>>
  BY <1>0, <1>1, RowType
<1>2. CASE Download /\ phase' = "query" /\ UNCHANGED <<today, source, prompt>>
  <2>1. PICK fresh \in SUBSET Days :
          \A s \in Listed, d \in Days :
            cache'[s][d] = IF s = Current /\ d \in fresh THEN source[s][d] ELSE cache[s][d]
    BY <1>2, AfterDownload
  <2>2. ASSUME NEW s \in Listed, NEW d \in Days
        PROVE  cache[s][d].rev <= cache'[s][d].rev /\ cache'[s][d].rev \in Nat
    <3>1. cache'[s][d] = source[s][d] \/ cache'[s][d] = cache[s][d]
      BY <2>1
    <3>2. /\ cache[s][d].rev <= source[s][d].rev
          /\ cache[s][d].rev \in Nat /\ source[s][d].rev \in Nat
      BY RowType DEF PagesAreIssued
    <3> QED
      BY <3>1, <3>2
  <2> QED
    BY <1>0, <1>2, <2>2, RowType
<1>3. CASE NewDay
  <2>1. ASSUME NEW s \in Listed, NEW d \in Days
        PROVE  source[s][d].rev <= source'[s][d].rev /\ source'[s][d].rev \in Nat
    <3>1. CASE d # today'
      <4>1. source'[s][d] = source[s][d]
        BY <1>3, <3>1, AfterNewDay
      <4> QED
        BY <4>1, RowType
    <3>2. CASE d = today'
      <4>0. d > today
        BY <1>3, <3>2, <1>0, AfterNewDay
      <4>1. source[s][d].rev = 0
        BY <4>0 DEF PagesAreIssued, NoBar
      <4>2. source'[s][d] \in {NoRow, [rev |-> 1, ok |-> TRUE], [rev |-> 1, ok |-> FALSE]}
        BY <1>3, <3>2, AfterNewDay
      <4>3. source'[s][d].rev \in Nat
        BY <4>2 DEF NoRow, NoBar
      <4> QED
        BY <4>1, <4>3
    <3> QED
      BY <3>1, <3>2
  <2> QED
    BY <1>0, <1>3, <2>1, AfterNewDay, RowType DEF NewDay
<1>4. ASSUME NEW t \in Listed, NEW c \in Days, Correct(t, c)
      PROVE  /\ today' = today /\ cache' = cache
             /\ \A s \in Listed, d \in Days :
                  source[s][d].rev <= source'[s][d].rev /\ source'[s][d].rev \in Nat
  BY <1>4, AfterCorrect, RowType DEF Correct
<1> QED
  BY <1>0, <1>1, <1>2, <1>3, <1>4, PagesSteps, RowType

-----------------------------------------------------------------------------
(* The table *)

\* What the source in use has of a day only moves on.
LEMMA SeenGrows ==
  ASSUME TypeOK, PagesAreIssued, [Next]_vars, NEW s \in Listed, NEW d \in Days
  PROVE  Seen(s)[d].rev <= Seen(s)'[d].rev /\ Seen(s)[d].rev \in Nat /\ Seen(s)'[d].rev \in Nat
<1>1. CASE via = "akshare"
  BY <1>1, PagesGrow, RowType DEF Seen
<1>2. CASE via # "akshare"
  BY <1>2, PagesGrow, RowType DEF Seen
<1> QED
  BY <1>1, <1>2

LEMMA RowsAreSeenStep ==
  ASSUME TypeOK, PagesAreIssued, RowsAreSeen, BatchIsFresh, [Next]_vars
  PROVE  RowsAreSeen'
<1>0. rows \in [Listed -> [Days -> Seq(Revisions)]] /\ today \in Nat /\ today' \in Nat /\ today <= today'
  BY PagesGrow DEF TypeOK
<1> SUFFICES ASSUME NEW s \in Listed, NEW d \in Days, rows'[s][d] # <<>>
             PROVE  /\ d <= today'
                    /\ Final(rows'[s][d]) <= Seen(s)'[d].rev
                    /\ \A i \in 1 .. Len(rows'[s][d]) : rows'[s][d][i] <= Final(rows'[s][d])
  BY DEF RowsAreSeen, Stored, Final
<1>1. Seen(s)[d].rev <= Seen(s)'[d].rev /\ Seen(s)[d].rev \in Nat /\ Seen(s)'[d].rev \in Nat
  BY SeenGrows
<1>2. rows[s][d] \in Seq(Revisions) /\ d \in Nat
  BY <1>0, SeriesAssumption DEF Days
<1>3. ASSUME rows[s][d] # <<>>
      PROVE  /\ d <= today' /\ Final(rows[s][d]) \in Revisions
             /\ Final(rows[s][d]) <= Seen(s)'[d].rev
             /\ \A i \in 1 .. Len(rows[s][d]) : rows[s][d][i] <= Final(rows[s][d])
  <2>1. /\ d <= today /\ Final(rows[s][d]) <= Seen(s)[d].rev
        /\ \A i \in 1 .. Len(rows[s][d]) : rows[s][d][i] <= Final(rows[s][d])
    BY <1>3 DEF RowsAreSeen, Stored
  <2>2. Final(rows[s][d]) \in Revisions
    BY <1>2, <1>3, FinalIsRevision
  <2> QED
    BY <1>0, <1>1, <1>2, <2>1, <2>2 DEF Revisions
<1>4. CASE rows'[s][d] = rows[s][d]
  BY <1>3, <1>4
<1>5. CASE \E t \in Listed, e \in Days : Merge(t, e) /\ rows'[s][d] # rows[s][d]
  <2>1. rows[s][d] # <<>> /\ rows'[s][d] = <<Final(rows[s][d])>>
    BY <1>0, <1>5, AfterMerge DEF Stored
  <2>2. Final(rows'[s][d]) = Final(rows[s][d]) /\ Len(rows'[s][d]) = 1
    BY <2>1 DEF Final
  <2>3. Final(rows[s][d]) \in Int
    BY <1>3, <2>1 DEF Revisions
  <2> QED
    BY <1>3, <2>1, <2>2, <2>3
<1>6. ASSUME phase = "write", UNCHANGED <<market, via, cache, end>>,
             NEW part, PartOf(part), WriteBars(Current, part), rows'[s][d] # rows[s][d]
      PROVE  /\ d <= today'
             /\ Final(rows'[s][d]) <= Seen(s)'[d].rev
             /\ \A i \in 1 .. Len(rows'[s][d]) : rows'[s][d][i] <= Final(rows'[s][d])
  <2>1. s = Current /\ d \in DOMAIN batch /\ rows'[s][d] = Append(rows[s][d], batch[d])
    BY <1>6, PartWritten DEF PartOf
  <2>2. batch[d] \in Revisions
    BY <2>1, BatchType DEF TypeOK
  <2>3. /\ Final(rows'[s][d]) = batch[d]
        /\ Len(rows'[s][d]) = Len(rows[s][d]) + 1
        /\ \A i \in 1 .. Len(rows[s][d]) : rows'[s][d][i] = rows[s][d][i]
    BY <1>2, <2>1, <2>2, AppendedRow
  <2>4. d <= today'
    <3>1. d <= end /\ end \in 0 .. today
      BY <1>6, <2>1 DEF TypeOK, Window
    <3> QED
      BY <1>0, <1>2, <3>1
  <2>5. Final(rows'[s][d]) <= Seen(s)'[d].rev
    <3>1. batch[d] <= Seen(s)[d].rev
      BY <1>6, <2>1 DEF BatchIsFresh
    <3> QED
      BY <1>1, <2>2, <2>3, <3>1 DEF Revisions
  <2>6. ASSUME NEW i \in 1 .. Len(rows'[s][d])
        PROVE  rows'[s][d][i] <= batch[d]
    <3>1. Len(rows[s][d]) \in Nat
      BY <1>2
    <3>2. CASE i \in 1 .. Len(rows[s][d])
      <4>1. rows[s][d] # <<>>
        BY <3>2
      <4>2. rows[s][d][i] <= Final(rows[s][d]) /\ Final(rows[s][d]) <= batch[d]
        BY <1>6, <2>1, <3>2, <4>1 DEF RowsAreSeen, BatchIsFresh, Stored
      <4>3. rows[s][d][i] \in Revisions /\ Final(rows[s][d]) \in Revisions
        BY <1>2, <3>2, <4>1, FinalIsRevision
      <4> QED
        BY <2>2, <2>3, <3>2, <4>2, <4>3 DEF Revisions
    <3>3. CASE i = Len(rows[s][d]) + 1
      <4>1. rows'[s][d][i] = batch[d]
        BY <2>3, <3>3 DEF Final
      <4> QED
        BY <2>2, <4>1 DEF Revisions
    <3> QED
      BY <2>3, <3>1, <3>2, <3>3
  <2> QED
    BY <2>3, <2>4, <2>5, <2>6
<1> QED
  BY <1>4, <1>5, <1>6, RowsSteps

-----------------------------------------------------------------------------
(* The work on one symbol *)

\* How a step may move the work on a symbol on.
LEMMA WorkSteps ==
  ASSUME TypeOK, [Next]_vars
  PROVE  \/ phase' \in {"idle", "list", "ask"}
         \/ UNCHANGED <<phase, todo, latest, batch, end, cache>>
         \/ AskLatest
         \/ /\ phase = "fetch" /\ via = "akshare" /\ Answered(source[Current])
            /\ UNCHANGED <<market, rows, via, cache>>
         \/ Download /\ phase' = "query" /\ UNCHANGED <<market, rows, via, end, todo, latest>>
         \/ /\ phase = "query"
            /\ Answered(IF KnownToQmt(Current) THEN cache[Current] ELSE [d \in Days |-> NoRow])
            /\ UNCHANGED <<market, rows, via, cache>>
<1> USE DEF market, process
<1>1. ASSUME \E forced \in BOOLEAN : StartFullRun(forced) \/ \E list \in Requests : StartRun(list, forced)
      PROVE  phase' \in {"idle", "list", "ask"}
  BY <1>1 DEF StartFullRun, StartRun, GoOn
<1>2. ASSUME Skip \/ Write \/ WriteFails \/ Crash \/ ListSector
      PROVE  phase' \in {"idle", "list", "ask"}
  BY <1>2 DEF Skip, Write, WriteFails, Crash, ListSector, UniverseListed, Raised, ListingFails, SymbolFails, GoOn
<1>3. ASSUME Call, phase' \notin {"idle", "list", "ask"}
      PROVE  \/ UNCHANGED <<phase, todo, latest, batch, end, cache>>
             \/ /\ phase = "fetch" /\ via = "akshare" /\ Answered(source[Current])
                /\ UNCHANGED <<market, rows, via, cache>>
  BY <1>3 DEF Call, UniverseListed, Raised, ListingFails, SymbolFails, GoOn
<1>4. ASSUME Download, phase' \notin {"idle", "list", "ask"}
      PROVE  phase' = "query" /\ UNCHANGED <<market, rows, via, end, todo, latest>>
  BY <1>4 DEF Download, SymbolFails, GoOn
<1>5. ASSUME QueryCache, phase' \notin {"idle", "list", "ask"}
      PROVE  /\ phase = "query"
             /\ Answered(IF KnownToQmt(Current) THEN cache[Current] ELSE [d \in Days |-> NoRow])
             /\ UNCHANGED <<market, rows, via, cache>>
  BY <1>5 DEF QueryCache, SymbolFails, GoOn
<1>6. ASSUME NewDay \/ LimiterTick \/ \E s \in Listed, d \in Days : Correct(s, d) \/ MergeRows(s, d)
      PROVE  UNCHANGED <<phase, todo, latest, batch, end, cache>>
  BY <1>6 DEF NewDay, LimiterTick, Correct, MergeRows
<1>7. CASE UNCHANGED vars
  BY <1>7 DEF vars
<1>8. CASE Next
  BY <1>8, <1>1, <1>2, <1>3, <1>4, <1>5, <1>6, Zenon DEF Next, Process
<1> QED
  BY <1>7, <1>8

\* While the work on a symbol goes on, the table changes by merges alone.
LEMMA OnlyMergesMeanwhile ==
  ASSUME TypeOK, [Next]_vars, phase' \notin {"idle", "ask"}, NEW s \in Listed, NEW d \in Days
  PROVE  /\ Stored(s, d)' <=> Stored(s, d)
         /\ Stored(s, d) => Final(rows'[s][d]) = Final(rows[s][d])
<1>1. CASE UNCHANGED rows
  BY <1>1 DEF Stored
<1>2. ASSUME NEW t \in Listed, NEW e \in Days, Merge(t, e)
      PROVE  /\ Stored(s, d)' <=> Stored(s, d)
             /\ Stored(s, d) => Final(rows'[s][d]) = Final(rows[s][d])
  <2>1. /\ Stored(t, e)
        /\ rows'[s][d] = IF s = t /\ d = e THEN <<Final(rows[t][e])>> ELSE rows[s][d]
    BY <1>2, AfterMerge DEF TypeOK
  <2>2. CASE s = t /\ d = e
    <3>1. rows'[s][d] = <<Final(rows[s][d])>>
      BY <2>1, <2>2
    <3> QED
      BY <2>1, <2>2, <3>1 DEF Stored, Final
  <2>3. CASE ~ (s = t /\ d = e)
    BY <2>1, <2>3 DEF Stored
  <2> QED
    BY <2>2, <2>3
<1> QED
  BY <1>1, <1>2, RowsSteps

LEMMA LatestStep ==
  ASSUME TypeOK, RowsAreSeen, LatestIsStored, [Next]_vars
  PROVE  LatestIsStored'
<1> SUFFICES ASSUME phase' \in {"fetch", "query", "write"}, latest' # 0
             PROVE  Stored(Current, latest)'
  BY DEF LatestIsStored
<1>1. CASE AskLatest
  <2>1. Current \in Listed
    BY <1>1, CurrentType DEF AskLatest
  <2>2. latest' = LatestTimestamp(Current) /\ UNCHANGED <<todo, rows>>
    BY <1>1 DEF AskLatest
  <2> QED
    BY <2>1, <2>2, LatestIsLastStored DEF Stored, Current
<1>2. CASE phase \in {"fetch", "query", "write"} /\ UNCHANGED <<todo, latest>>
  <2>1. Current \in Listed /\ latest \in Days /\ Stored(Current, latest)
    <3>1. latest \in 0 .. today /\ today \in 0 .. LastDay
      BY DEF TypeOK
    <3> QED
      BY <1>2, <3>1, CurrentType, SeriesAssumption DEF LatestIsStored, Days
  <2>2. Stored(Current, latest)' <=> rows'[Current][latest] # <<>>
    BY <1>2 DEF Stored, Current
  <2>3. rows'[Current][latest] # <<>>
    BY <2>1, OnlyMergesMeanwhile DEF Stored
  <2> QED
    BY <2>2, <2>3
<1> QED
  BY <1>1, <1>2, WorkSteps DEF Answered, Download

LEMMA ProcessFitsStep ==
  ASSUME TypeOK, PagesAreIssued, ProcessFitsSource, [Next]_vars
  PROVE  ProcessFitsSource'
<1>1. via = "qmt" => last' = NeverCalled
  <2> SUFFICES ASSUME via = "qmt", last = NeverCalled
               PROVE  last' = NeverCalled
    BY DEF ProcessFitsSource
  <2>1. ~ Call
    BY DEF Call
  <2>2. ~ LimiterTick
    BY DEF LimiterTick, TimePasses, NeverCalled, Ages
  <2>3. CASE UNCHANGED vars
    BY <2>3 DEF vars, process
  <2>4. CASE Next
    BY <2>1, <2>2, <2>4 DEF Next, Process, process, StartFullRun, StartRun, AskLatest, ListSector, Download,
       QueryCache, Skip, Write, WriteFails, Crash, NewDay, Correct, MergeRows
  <2> QED
    BY <2>3, <2>4
<1>2. ASSUME phase' = "query"
      PROVE  via = "qmt"
  <2>1. CASE UNCHANGED phase
    BY <1>2, <2>1 DEF ProcessFitsSource
  <2>2. CASE Download
    BY <2>2 DEF Download
  <2> QED
    BY <1>2, <2>1, <2>2, WorkSteps DEF Answered, AskLatest
<1>3. ASSUME phase' = "query", NEW d \in Window(FetchStart, end)', <<Current, d>>' \in prompt'
      PROVE  cache'[Current'][d].ok
  <2>0. d \in Days /\ d <= end'
    BY <1>3 DEF Window
  <2>1. \/ phase = "query" /\ UNCHANGED <<todo, latest, end, cache>>
        \/ Download /\ UNCHANGED <<market, end, todo, latest>>
    BY <1>3, WorkSteps DEF Answered, AskLatest
  <2>2. Current' = Current /\ Window(FetchStart, end)' = Window(FetchStart, end) /\ Current \in Listed
    <3>1. phase \notin {"idle", "list"} /\ UNCHANGED <<todo, latest, end>>
      BY <2>1 DEF Download
    <3> QED
      BY <3>1, CurrentType DEF Current, Window, FetchStart
  <2>3. <<Current, d>> \in prompt
    <3>1. CASE NewDay
      <4>1. d # today'
        <5>1. d <= end /\ end \in 0 .. today /\ today \in Nat /\ today' = today + 1
          BY <2>0, <2>1, <3>1, AfterNewDay DEF TypeOK
        <5> QED
          BY <5>1
      <4> QED
        BY <1>3, <2>0, <2>2, <3>1, <4>1, AfterNewDay
    <3>2. CASE prompt' = prompt
      BY <1>3, <2>2, <3>2
    <3> QED
      BY <3>1, <3>2, PagesSteps DEF Correct
  <2>4. CASE phase = "query" /\ UNCHANGED cache
    BY <1>3, <2>2, <2>3, <2>4 DEF ProcessFitsSource
  <2>5. CASE Download
    <3>1. PICK fresh \in SUBSET Days :
            /\ \A e \in Window(FetchStart, end) \ fresh : cache[Current][e].ok
            /\ \A s \in Listed, e \in Days :
                 cache'[s][e] = IF s = Current /\ e \in fresh THEN source[s][e] ELSE cache[s][e]
      BY <1>3, <2>5, AfterDownload
    <3> QED
      BY <1>3, <2>0, <2>2, <2>3, <3>1 DEF PagesAreIssued
  <2> QED
    BY <2>1, <2>4, <2>5
<1> QED
  BY <1>1, <1>2, <1>3, PagesSteps DEF ProcessFitsSource

\* A symbol at hand is at hand after the step, and days issued meanwhile are after the
\* end of its window.
LEMMA WindowIsKept ==
  ASSUME TypeOK, [Next]_vars, phase \notin {"idle", "list"}, UNCHANGED <<todo, latest, end>>
  PROVE  /\ Current \in Listed /\ Current' = Current
         /\ Window(FetchStart, end)' = Window(FetchStart, end)
         /\ \A d \in Window(FetchStart, end) : <<Current, d>> \in prompt' => <<Current, d>> \in prompt
<1>1. /\ Current \in Listed /\ Current' = Current
      /\ Window(FetchStart, end)' = Window(FetchStart, end)
  BY CurrentType DEF Current, Window, FetchStart
<1>2. ASSUME NEW d \in Window(FetchStart, end), <<Current, d>> \in prompt', NewDay
      PROVE  <<Current, d>> \in prompt
  <2>1. d \in Days /\ d <= end /\ end \in 0 .. today /\ today \in Nat /\ today' = today + 1
    BY <1>2, AfterNewDay DEF TypeOK, Window
  <2>2. d # today'
    BY <2>1
  <2> QED
    BY <1>1, <1>2, <2>1, <2>2, AfterNewDay
<1>3. NewDay \/ prompt' = prompt
  BY PagesSteps DEF Correct
<1> QED
  BY <1>1, <1>2, <1>3

LEMMA BatchStep ==
  ASSUME TypeOK, PagesAreIssued, RowsAreSeen, ProcessFitsSource, BatchIsFresh, [Next]_vars
  PROVE  BatchIsFresh'
<1> SUFFICES ASSUME phase' = "write"
             PROVE  BatchIsFresh'
  BY DEF BatchIsFresh
<1>1. ASSUME phase = "write", UNCHANGED <<phase, todo, latest, batch, end, cache>>
      PROVE  BatchIsFresh'
  <2>1. /\ Current \in Listed /\ Current' = Current
        /\ Window(FetchStart, end)' = Window(FetchStart, end)
        /\ \A d \in Window(FetchStart, end) : <<Current, d>> \in prompt' => <<Current, d>> \in prompt
    BY <1>1, WindowIsKept
  <2>2. via' = via
    BY PagesSteps
  <2>3. ASSUME NEW d \in DOMAIN batch
        PROVE  batch[d] <= Seen(Current)'[d].rev /\ (Stored(Current, d)' => Final(rows'[Current][d]) <= batch[d])
    <3>1. d \in Days /\ batch[d] \in Revisions
      BY BatchType DEF TypeOK
    <3>2. batch[d] <= Seen(Current)[d].rev /\ (Stored(Current, d) => Final(rows[Current][d]) <= batch[d])
      BY <1>1 DEF BatchIsFresh
    <3>3. /\ Stored(Current, d)' <=> rows'[Current][d] # <<>>
          /\ Seen(Current)' = IF via = "akshare" THEN source'[Current] ELSE cache'[Current]
      BY <2>1, <2>2 DEF Stored, Seen
    <3>4. /\ rows'[Current][d] # <<>> <=> Stored(Current, d)
          /\ Stored(Current, d) => Final(rows'[Current][d]) = Final(rows[Current][d])
      BY <1>1, <2>1, <3>1, OnlyMergesMeanwhile DEF Stored
    <3>5. Seen(Current)[d].rev <= Seen(Current)'[d].rev
          /\ Seen(Current)[d].rev \in Nat /\ Seen(Current)'[d].rev \in Nat
      BY <2>1, <3>1, <3>3, PagesGrow, RowType DEF Seen
    <3> QED
      BY <3>1, <3>2, <3>3, <3>4, <3>5 DEF Revisions
  <2> QED
    BY <1>1, <2>1, <2>2, <2>3 DEF BatchIsFresh
<1>2. ASSUME phase \notin {"idle", "list"}, NEW page \in [Days -> Row], Answered(page),
             UNCHANGED <<market, rows, via, cache>>,
             page = Seen(Current), via = "qmt" => KnownToQmt(Current),
             \A d \in Window(FetchStart, end) : <<Current, d>> \in prompt => page[d].ok /\ page[d].rev # NoBar
      PROVE  BatchIsFresh'
  <2>1. /\ Current \in Listed /\ Current' = Current
        /\ Window(FetchStart, end)' = Window(FetchStart, end)
    BY <1>2, AnsweredType, WindowIsKept
  <2>2. /\ DOMAIN batch' = {d \in Window(FetchStart, end) : page[d].rev # NoBar /\ page[d].ok}
        /\ \A d \in DOMAIN batch' : batch'[d] = page[d].rev
        /\ DOMAIN batch' \subseteq Days
    BY <1>2, AnsweredType DEF Window
  <2>3. UNCHANGED <<prompt, rows, via>> /\ Seen(Current)' = Seen(Current)
    BY <1>2, <2>1 DEF market, Seen
  <2>4. ASSUME NEW d \in DOMAIN batch'
        PROVE  /\ batch'[d] <= Seen(Current)[d].rev
               /\ Stored(Current, d) => Final(rows[Current][d]) <= batch'[d]
    <3>1. d \in Days /\ batch'[d] = Seen(Current)[d].rev
      BY <1>2, <2>2
    <3>2. Seen(Current)[d].rev \in Nat
      BY <2>1, <3>1, RowType DEF Seen
    <3> QED
      BY <2>1, <3>1, <3>2 DEF RowsAreSeen
  <2>5. \A d \in Window(FetchStart, end) : <<Current, d>> \in prompt => d \in DOMAIN batch'
    BY <1>2, <2>2
  <2> QED
    BY <1>2, <2>1, <2>3, <2>4, <2>5 DEF BatchIsFresh, Stored
<1>3. ASSUME phase = "fetch", via = "akshare", Answered(source[Current]), UNCHANGED <<market, rows, via, cache>>
      PROVE  BatchIsFresh'
  <2>1. Current \in Listed /\ source[Current] \in [Days -> Row] /\ source[Current] = Seen(Current)
    BY <1>3, CurrentType DEF TypeOK, Pages, Seen
  <2>2. \A d \in Window(FetchStart, end) :
          <<Current, d>> \in prompt => source[Current][d].ok /\ source[Current][d].rev # NoBar
    BY <2>1 DEF PagesAreIssued, Window
  <2> QED
    BY <1>2, <1>3, <2>1, <2>2
<1>4. ASSUME phase = "query", UNCHANGED <<market, rows, via, cache>>,
             Answered(IF KnownToQmt(Current) THEN cache[Current] ELSE [d \in Days |-> NoRow])
      PROVE  BatchIsFresh'
  <2>1. /\ Current \in Listed /\ cache[Current] \in [Days -> Row] /\ [d \in Days |-> NoRow] \in [Days -> Row]
        /\ via = "qmt" /\ Seen(Current) = cache[Current]
    BY <1>4, CurrentType DEF TypeOK, Pages, Seen, NoRow, Row, ProcessFitsSource
  <2>2. \A d \in Window(FetchStart, end) :
          <<Current, d>> \in prompt => cache[Current][d].ok /\ cache[Current][d].rev # NoBar
    BY <1>4, <2>1 DEF PagesAreIssued, ProcessFitsSource, Window
  <2>3. CASE KnownToQmt(Current)
    BY <1>2, <1>4, <2>1, <2>2, <2>3
  <2>4. CASE ~ KnownToQmt(Current)
    <3>1. \A d \in Days : ~ [e \in Days |-> NoRow][d].ok
      BY DEF NoRow
    <3>2. Answered([d \in Days |-> NoRow])
      BY <1>4, <2>4
    <3>3. /\ Current' = Current /\ Seen(Current)' = Seen(Current) /\ UNCHANGED <<prompt, via>>
      BY <1>4, <2>1, <3>2, AnsweredType DEF Current, Seen, market
    <3>4. DOMAIN batch' = {}
      BY <2>1, <3>1, <3>2, AnsweredType DEF Window
    <3> QED
      BY <2>1, <2>4, <3>3, <3>4 DEF BatchIsFresh
  <2> QED
    BY <2>3, <2>4
<1> QED
  BY <1>1, <1>3, <1>4, WorkSteps DEF AskLatest

-----------------------------------------------------------------------------
(* The invariant *)

IInv == TypeOK /\ DataInv

\* A backfill starts with empty pages and an empty table.
LEMMA InitInvariant ==
  ASSUME Init
  PROVE  IInv
<1>1. \A s \in Listed, d \in Days :
        source[s][d] = NoRow /\ cache[s][d] = NoRow /\ rows[s][d] = <<>>
  BY DEF Init, TableInit
<1>2. phase = "idle" /\ prompt = {} /\ last = NeverCalled
  BY DEF Init, LimiterInit
<1>3. NoRow.rev = 0 /\ ~ NoRow.ok
  BY DEF NoRow, NoBar
<1> QED
  BY <1>1, <1>2, <1>3, InitType
     DEF IInv, DataInv, PagesAreIssued, RowsAreSeen, Stored, LatestIsStored, ProcessFitsSource, BatchIsFresh, NoBar

\* Every step keeps the invariant.
LEMMA StepInvariant ==
  ASSUME IInv, [Next]_vars
  PROVE  IInv'
BY TypeStep, PagesStep, RowsAreSeenStep, LatestStep, ProcessFitsStep, BatchStep DEF IInv, DataInv

LEMMA Invariant == Spec => []IInv
BY InitInvariant, StepInvariant, PTL DEF Spec

\* Types: among them, that latest_timestamp is never a day to come, that the bars in hand
\* lie in the window asked for, and that an attempt is left when a call is made.
THEOREM TypeCorrect == Spec => []TypeOK
<1>1. IInv => TypeOK
  BY DEF IInv
<1> QED
  BY <1>1, Invariant, PTL

-----------------------------------------------------------------------------
(* Nothing is missing behind the newest day *)

\* The days a step stores: none, or those of a part of the batch in hand.
LEMMA StoredSteps ==
  ASSUME IInv, [Next]_vars
  PROVE  \/ \A s \in Listed, d \in Days : rows'[s][d] # <<>> <=> Stored(s, d)
         \/ /\ phase = "write" /\ phase' \in {"idle", "ask"} /\ UNCHANGED <<market, via, end>>
            /\ \E part :
                 /\ PartOf(part)
                 /\ \A s \in Listed, d \in Days :
                      rows'[s][d] # <<>> <=> (Stored(s, d) \/ (s = Current /\ d \in DOMAIN part))
<1>1. CASE UNCHANGED rows
  BY <1>1 DEF Stored
<1>2. ASSUME NEW t \in Listed, NEW e \in Days, Merge(t, e)
      PROVE  \A s \in Listed, d \in Days : rows'[s][d] # <<>> <=> Stored(s, d)
  <2> TAKE s \in Listed, d \in Days
  <2>1. /\ rows[t][e] # <<>>
        /\ rows'[s][d] = IF s = t /\ d = e THEN <<Final(rows[t][e])>> ELSE rows[s][d]
    BY <1>2, AfterMerge DEF Stored, IInv, TypeOK
  <2> QED
    BY <2>1 DEF Stored
<1>3. ASSUME phase = "write", NEW part, PartOf(part), WriteBars(Current, part),
             NEW s \in Listed, NEW d \in Days
      PROVE  rows'[s][d] # <<>> <=> (Stored(s, d) \/ (s = Current /\ d \in DOMAIN part))
  <2>1. CASE s = Current /\ d \in DOMAIN part
    <3>1. rows'[s][d] = Append(rows[s][d], batch[d])
      BY <1>3, <2>1, PartWritten DEF IInv
    <3>2. rows[s][d] \in Seq(Revisions) /\ batch[d] \in Revisions
      BY <1>3, <2>1, BatchType DEF IInv, TypeOK, PartOf
    <3>3. rows'[s][d] # <<>>
      BY <3>1, <3>2, AppendedRow
    <3> QED
      BY <2>1, <3>3
  <2>2. CASE ~ (s = Current /\ d \in DOMAIN part)
    <3>1. rows'[s][d] = rows[s][d]
      BY <1>3, <2>2, PartWritten DEF IInv
    <3> QED
      BY <2>2, <3>1 DEF Stored
  <2> QED
    BY <2>1, <2>2
<1> QED
  BY <1>1, <1>2, <1>3, RowsSteps DEF IInv

\* A day issued on time that the store may be missing is in the batch in hand.
LEMMA DayIsInHand ==
  ASSUME IInv, phase = "write", via = "qmt" => KnownToQmt(Current),
         NEW d \in Days, d <= end, <<Current, d>> \in prompt, d >= LatestTimestamp(Current)
  PROVE  d \in DOMAIN batch
<1>1. TypeOK /\ RowsAreSeen /\ LatestIsStored /\ BatchIsFresh /\ Current \in Listed
  BY CurrentType DEF IInv, DataInv
<1>2. FetchStart <= d
  <2>1. CASE latest = 0
    BY <2>1 DEF FetchStart, Days
  <2>2. CASE latest # 0
    <3>1. Stored(Current, latest) /\ latest \in Days
      <4>1. latest \in 0 .. today /\ today \in 0 .. LastDay
        BY <1>1 DEF TypeOK
      <4> QED
        BY <1>1, <2>2, <4>1, SeriesAssumption DEF LatestIsStored, Days
    <3>2. latest <= LatestTimestamp(Current) /\ LatestTimestamp(Current) \in 0 .. today
      BY <1>1, <3>1, LatestIsLastStored
    <3>3. LookbackDays \in Nat /\ latest \in Int /\ d \in Int
      BY <3>1, BackfillAssumption, SeriesAssumption DEF Days
    <3> QED
      BY <2>2, <3>2, <3>3 DEF FetchStart
  <2> QED
    BY <2>1, <2>2
<1>3. d \in Window(FetchStart, end)
  BY <1>2 DEF Window
<1> QED
  BY <1>1, <1>3 DEF BatchIsFresh

\* A part of the batch that has a later day has it, too.
LEMMA PartReachesBack ==
  ASSUME IInv, phase = "write", NEW part, PartOf(part), NEW c \in DOMAIN part,
         NEW d \in Days, d <= c, <<Current, d>> \in prompt, d >= LatestTimestamp(Current)
  PROVE  d \in DOMAIN part
<1>1. TypeOK /\ BatchIsFresh /\ c \in DOMAIN batch /\ c \in Days
  BY BatchType DEF IInv, DataInv, PartOf
<1>2. c \in Window(FetchStart, end)
  BY <1>1 DEF TypeOK
<1>3. d <= end
  BY <1>1, <1>2, SeriesAssumption DEF Window, TypeOK, Days
<1>4. via = "qmt" => KnownToQmt(Current)
  BY <1>1 DEF BatchIsFresh
<1> QED
  BY <1>1, <1>3, <1>4, DayIsInHand DEF PartOf

LEMMA NoHolesStep ==
  ASSUME IInv, NoHolesBehindLatest, [Next]_vars
  PROVE  NoHolesBehindLatest'
<1>0. TypeOK /\ RowsAreSeen /\ PagesAreIssued
  BY DEF IInv, DataInv
<1> SUFFICES ASSUME NEW s \in Listed, NEW d \in Days, <<s, d>> \in prompt', d < LatestTimestamp(s)'
             PROVE  rows'[s][d] # <<>>
  BY DEF NoHolesBehindLatest, Stored
<1> DEFINE new == LatestTimestamp(s)'
           old == LatestTimestamp(s)
<1>1. new \in Days /\ rows'[s][new] # <<>>
  <2> DEFINE S == {e \in Days : rows'[s][e] # <<>>}
  <2>1. new = Newest(S)
    BY DEF LatestTimestamp, Stored
  <2>2. Newest(S) \in S \cup {0}
    BY NewestIsLast
  <2>3. Newest(S) # 0
    BY <2>1, <2>2 DEF Days
  <2> QED
    BY <2>1, <2>2, <2>3
<1>2. old \in 0 .. today /\ \A e \in Days : Stored(s, e) => e <= old
  BY <1>0, LatestIsLastStored
<1>3. new \in Int /\ old \in Int /\ d \in Int /\ today \in Int
  BY <1>0, <1>1, <1>2, SeriesAssumption DEF Days, TypeOK
<1>4. CASE d < old
  <2>1. <<s, d>> \in prompt
    <3>1. CASE NewDay
      <4>1. d # today'
        BY <1>2, <1>3, <1>4, <3>1 DEF NewDay
      <4> QED
        BY <1>0, <3>1, <4>1, AfterNewDay
    <3>2. NewDay \/ prompt' = prompt
      BY PagesSteps DEF Correct
    <3> QED
      BY <3>1, <3>2
  <2>2. Stored(s, d)
    BY <1>4, <2>1 DEF NoHolesBehindLatest
  <2> QED
    BY <2>2, StoredSteps
<1>5. CASE ~ (d < old)
  <2>1. ~ Stored(s, new)
    BY <1>1, <1>2, <1>3, <1>5
  <2>2. PICK part : /\ phase = "write" /\ UNCHANGED prompt /\ PartOf(part)
                    /\ \A t \in Listed, e \in Days :
                         rows'[t][e] # <<>> <=> (Stored(t, e) \/ (t = Current /\ e \in DOMAIN part))
    BY <1>1, <2>1, StoredSteps DEF market
  <2>3. s = Current /\ new \in DOMAIN part
    BY <1>1, <2>1, <2>2
  <2>4. d \in DOMAIN part
    <3>1. d <= new /\ d >= old
      BY <1>3, <1>5
    <3> HIDE DEF new, old
    <3>2. d >= LatestTimestamp(Current)
      BY <2>3, <3>1 DEF old
    <3> QED
      BY <2>2, <2>3, <3>1, <3>2, PartReachesBack
  <2> QED
    BY <2>2, <2>3, <2>4
<1> QED
  BY <1>4, <1>5

\* Wherever a run died or an insert broke off, the bars issued on time that are missing
\* from the store are ahead of the newest one it has: the next run starts no later.
THEOREM NothingIsMissingBehindLatest == Spec => []NoHolesBehindLatest
<1>1. Init => NoHolesBehindLatest
  BY DEF Init, NoHolesBehindLatest
<1>2. IInv /\ NoHolesBehindLatest /\ [Next]_vars => NoHolesBehindLatest'
  BY NoHolesStep
<1> QED
  BY <1>1, <1>2, Invariant, PTL DEF Spec

-----------------------------------------------------------------------------
(* Every symbol a run is done with *)

\* A run is done with the symbols before the one at hand, and with that one when it goes on.
LEMMA ReportSteps ==
  ASSUME TypeOK, [Next]_vars
  PROVE  \/ UNCHANGED <<todo, end>> /\ report'.asked \ report'.failed \subseteq report.asked \ report.failed
         \/ report'.asked \subseteq Named(todo')
         \/ /\ phase = "write" /\ NothingNew /\ UNCHANGED <<market, via, rows, end>>
            /\ todo' = Tail(todo) /\ UNCHANGED <<report.asked, report.failed>>
         \/ /\ phase = "write" /\ WriteBars(Current, batch) /\ UNCHANGED <<market, via, end>>
            /\ todo' = Tail(todo) /\ UNCHANGED <<report.asked, report.failed>>
         \/ /\ phase \notin {"idle", "list"} /\ UNCHANGED end /\ todo' = Tail(todo)
            /\ report'.asked = report.asked /\ report'.failed = report.failed \cup {Current}
<1> USE DEF market, process
<1>0. report = [asked |-> report.asked, synced |-> report.synced, skipped |-> report.skipped, failed |-> report.failed]
  BY DEF TypeOK
<1>1. ASSUME \E forced \in BOOLEAN : StartFullRun(forced) \/ \E list \in Requests : StartRun(list, forced)
      PROVE  report'.asked \subseteq Named(todo')
  BY <1>1 DEF StartFullRun, StartRun, NoReport, GoOn
<1>2. ASSUME UniverseListed
      PROVE  report'.asked \subseteq Named(todo')
  BY <1>0, <1>2 DEF UniverseListed, GoOn
<1>3. ASSUME phase \notin {"idle", "list"}, SymbolFails
      PROVE  /\ todo' = Tail(todo)
             /\ report'.asked = report.asked /\ report'.failed = report.failed \cup {Current}
  BY <1>0, <1>3 DEF SymbolFails, GoOn
<1>4. ASSUME ListingFails \/ Crash
      PROVE  report'.asked \subseteq Named(todo')
  BY <1>4 DEF ListingFails, Crash, NoReport
<1>5. ASSUME AskLatest \/ NewDay \/ LimiterTick \/ UNCHANGED vars
             \/ \E s \in Listed, d \in Days : Correct(s, d) \/ MergeRows(s, d)
      PROVE  UNCHANGED <<todo, end, report>>
  BY <1>5 DEF AskLatest, NewDay, LimiterTick, Correct, MergeRows, vars
<1>6. ASSUME Call
      PROVE  \/ UNCHANGED <<todo, end, report>>
             \/ UniverseListed \/ ListingFails
             \/ phase \notin {"idle", "list"} /\ SymbolFails /\ UNCHANGED end
  BY <1>6 DEF Call, Answered, Raised
<1>7. ASSUME ListSector \/ Download \/ QueryCache
      PROVE  \/ UNCHANGED <<todo, end, report>>
             \/ UniverseListed \/ ListingFails
             \/ phase \notin {"idle", "list"} /\ SymbolFails /\ UNCHANGED end
  BY <1>7 DEF ListSector, Download, QueryCache, Answered, Raised
<1>8. ASSUME Skip
      PROVE  /\ phase = "write" /\ NothingNew /\ UNCHANGED <<market, via, rows, end>>
             /\ todo' = Tail(todo) /\ UNCHANGED <<report.asked, report.failed>>
  BY <1>0, <1>8 DEF Skip, GoOn
<1>9. ASSUME Write
      PROVE  /\ phase = "write" /\ WriteBars(Current, batch) /\ UNCHANGED <<market, via, end>>
             /\ todo' = Tail(todo) /\ UNCHANGED <<report.asked, report.failed>>
  BY <1>0, <1>9 DEF Write, GoOn
<1>10. ASSUME WriteFails
       PROVE  phase \notin {"idle", "list"} /\ SymbolFails /\ UNCHANGED end
  BY <1>10 DEF WriteFails
<1>11. Next \/ UNCHANGED vars
  OBVIOUS
<1> QED
  BY <1>11, <1>1, <1>2, <1>3, <1>4, <1>5, <1>6, <1>7, <1>8, <1>9, <1>10, Zenon DEF Next, Process

\* What is stored stays stored.
LEMMA StoredStays ==
  ASSUME IInv, [Next]_vars, NEW s \in Listed, NEW d \in Days, Stored(s, d)
  PROVE  rows'[s][d] # <<>>
BY StoredSteps

\* A day up to the end of the run was issued before the step.
LEMMA IssuedBefore ==
  ASSUME TypeOK, [Next]_vars, NEW s \in Listed, NEW d \in Days, d <= end, <<s, d>> \in prompt'
  PROVE  <<s, d>> \in prompt
<1>1. CASE NewDay
  <2>1. end \in 0 .. today /\ today \in Nat /\ today' = today + 1 /\ d \in Int
    BY <1>1, AfterNewDay, SeriesAssumption DEF TypeOK, Days
  <2>2. d # today'
    BY <2>1
  <2> QED
    BY <1>1, <2>2, AfterNewDay
<1>2. NewDay \/ prompt' = prompt
  BY PagesSteps DEF Correct
<1> QED
  BY <1>1, <1>2

LEMMA DoneStep ==
  ASSUME IInv, NoHolesBehindLatest, DoneMeansCaughtUp, [Next]_vars
  PROVE  DoneMeansCaughtUp'
<1>0. TypeOK /\ RowsAreSeen /\ LatestIsStored /\ via' = via
  BY PagesSteps DEF IInv, DataInv
<1> SUFFICES ASSUME NEW s \in report'.asked \ (report'.failed \cup Named(todo')),
                    via = "qmt" => KnownToQmt(s),
                    NEW d \in Days, <<s, d>> \in prompt', d <= end'
             PROVE  rows'[s][d] # <<>>
  BY <1>0 DEF DoneMeansCaughtUp, Stored, Named
<1>1. s \in Listed
  BY <1>0, TypeStep DEF TypeOK
<1>2. ASSUME s \in report.asked \ (report.failed \cup Named(todo)), end' = end
      PROVE  rows'[s][d] # <<>>
  <2>1. Stored(s, d)
    BY <1>0, <1>1, <1>2, IssuedBefore DEF DoneMeansCaughtUp
  <2> QED
    BY <1>1, <2>1, StoredStays
<1>3. CASE UNCHANGED <<todo, end>> /\ report'.asked \ report'.failed \subseteq report.asked \ report.failed
  <2>1. Named(todo') = Named(todo)
    BY <1>3
  <2> QED
    BY <1>2, <1>3, <2>1
<1>4. CASE report'.asked \subseteq Named(todo')
  BY <1>4
<1>5. ASSUME phase \notin {"idle", "list"}, todo' = Tail(todo), s # Current, end' = end,
             report'.asked = report.asked, report.failed \subseteq report'.failed
      PROVE  rows'[s][d] # <<>>
  <2>1. Named(todo) = {Current} \cup Named(todo')
    BY <1>0, <1>5, CurrentType
  <2> QED
    BY <1>2, <1>5, <2>1
<1>6. ASSUME phase = "write", s = Current, UNCHANGED <<market, via, end>>, ~ Stored(s, d)
      PROVE  d \in DOMAIN batch /\ d >= LatestTimestamp(s) /\ LatestTimestamp(s) \in 0 .. today
  <2>1. d <= end /\ <<s, d>> \in prompt
    BY <1>6 DEF market
  <2>2. LatestTimestamp(s) \in 0 .. today /\ d \in Int /\ today \in Int
    BY <1>0, <1>1, LatestIsLastStored, SeriesAssumption DEF Days, TypeOK
  <2>3. d >= LatestTimestamp(s)
    BY <1>1, <1>6, <2>1, <2>2 DEF NoHolesBehindLatest
  <2>4. d \in DOMAIN batch
    BY <1>6, <2>1, <2>3, DayIsInHand
  <2> QED
    BY <2>2, <2>3, <2>4
<1>7. ASSUME phase = "write", NothingNew, UNCHANGED <<market, via, rows, end>>, s = Current
      PROVE  rows'[s][d] # <<>>
  <2> SUFFICES ASSUME ~ Stored(s, d)
               PROVE  FALSE
    BY <1>7 DEF Stored
  <2>1. d \in DOMAIN batch /\ d >= LatestTimestamp(s) /\ LatestTimestamp(s) \in 0 .. today
    BY <1>6, <1>7
  <2>2. batch # <<>>
    BY <2>1, NoBarsIsBatch
  <2>3. latest # 0 /\ d <= latest
    BY <1>7, <2>1, <2>2 DEF NothingNew
  <2>4. Stored(s, latest) /\ latest \in Days
    <3>1. latest \in 0 .. today /\ today \in 0 .. LastDay
      BY <1>0 DEF TypeOK
    <3> QED
      BY <1>0, <1>7, <2>3, <3>1, SeriesAssumption DEF LatestIsStored, Days
  <2>5. latest <= LatestTimestamp(s)
    BY <1>0, <1>1, <2>4, LatestIsLastStored
  <2>6. d = latest
    BY <2>1, <2>3, <2>4, <2>5, SeriesAssumption DEF Days
  <2> QED
    BY <2>4, <2>6
<1>8. ASSUME phase = "write", WriteBars(Current, batch), UNCHANGED <<market, via, end>>, s = Current
      PROVE  rows'[s][d] # <<>>
  <2>1. CASE Stored(s, d)
    BY <1>1, <2>1, StoredStays
  <2>2. CASE ~ Stored(s, d)
    <3>1. d \in DOMAIN batch
      BY <1>6, <1>8, <2>2
    <3>2. rows'[s][d] = Append(rows[s][d], batch[d])
      BY <1>0, <1>8, <3>1, BatchIsPart, PartWritten
    <3>3. rows[s][d] \in Seq(Revisions) /\ batch[d] \in Revisions
      BY <1>0, <1>1, <3>1, BatchType DEF TypeOK
    <3> QED
      BY <3>2, <3>3, AppendedRow
  <2> QED
    BY <2>1, <2>2
<1> QED
  BY <1>0, <1>3, <1>4, <1>5, <1>7, <1>8, ReportSteps

\* A symbol a run is done with, and not reported as failed, has every bar its source issued
\* on time up to the run's end, however often earlier runs died.
THEOREM DoneSymbolsAreCaughtUp == Spec => []DoneMeansCaughtUp
<1>1. Init => DoneMeansCaughtUp
  BY DEF Init, DoneMeansCaughtUp, NoReport
<1>2. IInv /\ NoHolesBehindLatest /\ DoneMeansCaughtUp /\ [Next]_vars => DoneMeansCaughtUp'
  BY DoneStep
<1> QED
  BY <1>1, <1>2, Invariant, NothingIsMissingBehindLatest, PTL DEF Spec

-----------------------------------------------------------------------------
(* What readers are promised *)

\* The bar a read serves of a key.
Shown(versions) ==
  IF versions = <<>> THEN NoBar ELSE IF DedupOnRead THEN Final(versions) ELSE versions[1]

\* Served in terms of the rows, before and after a step.
LEMMA ServedIsShown ==
  ASSUME NEW s \in Listed
  PROVE  /\ Served(s) = [d \in Days |-> Shown(rows[s][d])]
         /\ Served(s)' = [d \in Days |-> Shown(rows'[s][d])]
<1>1. \A k \in Nat : (k + 1) - 1 = k
  OBVIOUS
<1>2. 1 .. ((LastDay + 1) - 1) = Days
  BY <1>1, SeriesAssumption DEF Days
<1>3. ASSUME NEW versions, versions # <<>>
      PROVE  (IF DedupOnRead THEN <<Final(versions)>> ELSE versions)[1] = Shown(versions)
  BY <1>3 DEF Shown
<1>4. Served(s) = [d \in Days |-> Shown(rows[s][d])]
  <2> DEFINE read == ReadBars(s, 1, LastDay + 1)
  <2>0. read = [d \in {d \in 1 .. ((LastDay + 1) - 1) : rows[s][d] # <<>>} |->
                 IF DedupOnRead THEN <<Final(rows[s][d])>> ELSE rows[s][d]]
    BY Zenon DEF ReadBars, Stored
  <2>1. /\ DOMAIN read = {d \in Days : rows[s][d] # <<>>}
        /\ \A d \in DOMAIN read : read[d] = IF DedupOnRead THEN <<Final(rows[s][d])>> ELSE rows[s][d]
    <3> HIDE DEF read
    <3> QED
      BY <1>2, <2>0
  <2>2. Served(s) = [d \in Days |-> IF d \in DOMAIN read THEN read[d][1] ELSE NoBar]
    BY DEF Served
  <2> HIDE DEF read
  <2>3. \A d \in Days : (IF d \in DOMAIN read THEN read[d][1] ELSE NoBar) = Shown(rows[s][d])
    BY <1>3, <2>1 DEF Shown
  <2> QED
    BY <2>2, <2>3
<1>5. Served(s)' = [d \in Days |-> Shown(rows'[s][d])]
  <2> DEFINE read == ReadBars(s, 1, LastDay + 1)'
  <2>0. read = [d \in {d \in 1 .. ((LastDay + 1) - 1) : rows'[s][d] # <<>>} |->
                 IF DedupOnRead THEN <<Final(rows'[s][d])>> ELSE rows'[s][d]]
    BY Zenon DEF ReadBars, Stored
  <2>1. /\ DOMAIN read = {d \in Days : rows'[s][d] # <<>>}
        /\ \A d \in DOMAIN read : read[d] = IF DedupOnRead THEN <<Final(rows'[s][d])>> ELSE rows'[s][d]
    <3> HIDE DEF read
    <3> QED
      BY <1>2, <2>0
  <2>2. Served(s)' = [d \in Days |-> IF d \in DOMAIN read THEN read[d][1] ELSE NoBar]
    BY DEF Served
  <2> HIDE DEF read
  <2>3. \A d \in Days : (IF d \in DOMAIN read THEN read[d][1] ELSE NoBar) = Shown(rows'[s][d])
    BY <1>3, <2>1 DEF Shown
  <2> QED
    BY <2>2, <2>3
<1> QED
  BY <1>4, <1>5

\* A read never goes back.
LEMMA ShownGrows ==
  ASSUME IInv, [Next]_vars, NEW s \in Listed, NEW d \in Days
  PROVE  /\ Shown(rows[s][d]) \in Revisions \cup {NoBar}
         /\ Shown(rows'[s][d]) \in Revisions \cup {NoBar}
         /\ Shown(rows[s][d]) <= Shown(rows'[s][d])
<1>0. TypeOK /\ RowsAreSeen /\ BatchIsFresh /\ rows[s][d] \in Seq(Revisions) /\ rows'[s][d] \in Seq(Revisions)
  <2>1. TypeOK /\ TypeOK' /\ RowsAreSeen /\ BatchIsFresh
    BY TypeStep DEF IInv, DataInv
  <2>2. rows \in [Listed -> [Days -> Seq(Revisions)]] /\ rows' \in [Listed -> [Days -> Seq(Revisions)]]
    BY <2>1 DEF TypeOK
  <2> QED
    BY <2>1, <2>2
<1>1. ASSUME NEW versions \in Seq(Revisions)
      PROVE  Shown(versions) \in Revisions \cup {NoBar} /\ Shown(versions) \in Nat
  <2>1. CASE versions = <<>>
    BY <2>1 DEF Shown, NoBar
  <2>2. CASE versions # <<>>
    <3>1. Final(versions) \in Revisions /\ versions[1] \in Revisions
      BY <2>2, FinalIsRevision
    <3> QED
      BY <2>2, <3>1 DEF Shown, Revisions
  <2> QED
    BY <2>1, <2>2
<1>2. CASE rows'[s][d] = rows[s][d]
  BY <1>0, <1>1, <1>2
<1>3. CASE rows[s][d] = <<>>
  <2>1. Shown(rows[s][d]) = 0
    BY <1>3 DEF Shown, NoBar
  <2> QED
    BY <1>0, <1>1, <2>1
<1>4. ASSUME rows[s][d] # <<>>, NEW t \in Listed, NEW e \in Days, Merge(t, e), rows'[s][d] # rows[s][d]
      PROVE  Shown(rows[s][d]) <= Shown(rows'[s][d])
  <2>1. rows'[s][d] = <<Final(rows[s][d])>>
    BY <1>0, <1>4, AfterMerge DEF TypeOK
  <2>2. Shown(rows'[s][d]) = Final(rows[s][d]) /\ Final(rows[s][d]) \in Revisions
    BY <1>0, <1>4, <2>1, FinalIsRevision DEF Shown, Final
  <2>3. rows[s][d][1] <= Final(rows[s][d]) /\ Len(rows[s][d]) >= 1
    BY <1>0, <1>4, FinalIsRevision DEF RowsAreSeen, Stored
  <2> QED
    BY <1>4, <2>2, <2>3 DEF Shown, Revisions
<1>5. ASSUME rows[s][d] # <<>>, phase = "write", NEW part, PartOf(part), WriteBars(Current, part),
             rows'[s][d] # rows[s][d]
      PROVE  Shown(rows[s][d]) <= Shown(rows'[s][d])
  <2>1. s = Current /\ d \in DOMAIN batch /\ rows'[s][d] = Append(rows[s][d], batch[d])
    BY <1>0, <1>5, PartWritten DEF PartOf
  <2>2. batch[d] \in Revisions /\ Len(rows[s][d]) \in Nat \ {0} /\ Final(rows[s][d]) \in Revisions
        /\ rows[s][d][1] \in Revisions
    BY <1>0, <1>5, <2>1, BatchType, FinalIsRevision DEF TypeOK
  <2>3. /\ rows'[s][d] # <<>> /\ Final(rows'[s][d]) = batch[d]
        /\ rows'[s][d][1] = rows[s][d][1]
    BY <1>0, <2>1, <2>2, AppendedRow
  <2>4. Final(rows[s][d]) <= batch[d]
    BY <1>0, <1>5, <2>1 DEF BatchIsFresh, Stored
  <2> QED
    BY <1>5, <2>2, <2>3, <2>4 DEF Shown, Revisions
<1> QED
  BY <1>0, <1>1, <1>2, <1>3, <1>4, <1>5, RowsSteps

\* Whatever fails, crashes, is retried or merged, a step either leaves what readers are
\* served alone or moves one symbol's bars on to later revisions.
LEMMA PromiseStep ==
  ASSUME IInv, [Next]_vars
  PROVE  [\E s \in Listed : Readers!WriteBars(s)]_([s \in Listed |-> Served(s)])
<1> DEFINE now == [s \in Listed |-> Served(s)]
           next == [s \in Listed |-> Served(s)']
<1>0. \A s \in Listed : /\ Served(s) = [d \in Days |-> Shown(rows[s][d])]
                        /\ Served(s)' = [d \in Days |-> Shown(rows'[s][d])]
  BY ServedIsShown
<1>1. \A s \in Listed, d \in Days :
        /\ Shown(rows'[s][d]) \in Revisions \cup {NoBar}
        /\ Shown(rows[s][d]) <= Shown(rows'[s][d])
  BY ShownGrows
<1>2. next \in [Listed -> Series]
  BY <1>0, <1>1 DEF Series
<1>3. ASSUME NEW s \in Listed, \A t \in Listed \ {s} : rows'[t] = rows[t]
      PROVE  Readers!WriteBars(s)
  <2>1. \A d \in Days : now[s][d] <= next[s][d]
    BY <1>0, <1>1
  <2>2. \A t \in Listed \ {s} : next[t] = now[t]
    BY <1>0, <1>3
  <2> QED
    BY <1>2, <2>1, <2>2 DEF Readers!WriteBars, Readers!Series, Readers!Days, Readers!Revisions, Readers!NoBar,
       Series, Days, Revisions, NoBar
<1>4. CASE UNCHANGED rows
  <2>1. next = now
    BY <1>0, <1>4
  <2> QED
    BY <2>1
<1>5. ASSUME NEW s \in Listed, NEW d \in Days, Merge(s, d)
      PROVE  \A t \in Listed \ {s} : rows'[t] = rows[t]
  BY <1>5 DEF Merge, IInv, TypeOK
<1>6. ASSUME phase = "write", NEW part, PartOf(part), WriteBars(Current, part)
      PROVE  Current \in Listed /\ \A t \in Listed \ {Current} : rows'[t] = rows[t]
  BY <1>6, CurrentType, PartWritten DEF IInv
<1> QED
  BY <1>3, <1>4, <1>5, <1>6, RowsSteps DEF IInv

\* The store, through crashes, failed inserts and merges, keeps the promise of DataStore.
THEOREM IngestKeepsTheStoresPromise == Spec => StoreKeepsItsPromise
<1>1. Init => Readers!Init
  <2> SUFFICES ASSUME Init
               PROVE  Readers!Init
    OBVIOUS
  <2>1. ASSUME NEW s \in Listed
        PROVE  Served(s) = [d \in Days |-> NoBar]
    <3>1. \A d \in Days : Shown(rows[s][d]) = NoBar
      BY DEF Init, TableInit, Shown
    <3> QED
      BY <3>1, ServedIsShown
  <2> QED
    BY <2>1 DEF Readers!Init, Readers!Days, Readers!NoBar, Days, NoBar
<1>2. IInv /\ [Next]_vars => [\E s \in Listed : Readers!WriteBars(s)]_([s \in Listed |-> Served(s)])
  BY PromiseStep
<1> QED
  BY <1>1, <1>2, Invariant, PTL DEF Spec, StoreKeepsItsPromise, Readers!Spec

=============================================================================
