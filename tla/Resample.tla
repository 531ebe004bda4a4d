------------------------------ MODULE Resample ------------------------------
(***************************************************************************)
(* Coarser bars from finer ones, by session: minutes are counted from the  *)
(* open of the morning or of the afternoon session, Beijing time, and a    *)
(* bar never spans the break between them.                                 *)
(***************************************************************************)
EXTENDS Bars, Sequences

Shanghai == 480           \* minutes ahead of UTC
MorningOpen == 570        \* 09:30
LunchSplit == 720
AfternoonOpen == 780      \* 13:00

DateOf(t) == (t + Shanghai) \div DayMinutes
MinuteOfDay(t) == (t + Shanghai) % DayMinutes
SessionOpen(t) == IF MinuteOfDay(t) < LunchSplit THEN MorningOpen ELSE AfternoonOpen

\* Mutant of Bucket: windows on the clock.
BucketOfTheClock(t, every) == <<DateOf(t), 0, MinuteOfDay(t) \div every>>

Bucket(t, every) ==
  <<DateOf(t), SessionOpen(t), (MinuteOfDay(t) - SessionOpen(t)) \div every>>

\* One bar of a series of them.
Aggregate(bars) ==
  LET times == DOMAIN bars
  IN  [open   |-> bars[Min(times)].open,
       high   |-> Max({bars[t].high : t \in times}),
       low    |-> Min({bars[t].low : t \in times}),
       close  |-> bars[Max(times)].close,
       volume |-> MapThenSumSet(LAMBDA t : bars[t].volume, times)]

\* A bar bears the time of its first minute.
ResampleIntraday(series, every) ==
  LET group(t) == {u \in DOMAIN series : Bucket(u, every) = Bucket(t, every)}
  IN  [t \in {t \in DOMAIN series : t = Min(group(t))} |-> Aggregate(Restrict(series, group(t)))]

\* Mutant of DailyStamp: midnight in Beijing.
DailyStampBeijing(date) == date * DayMinutes - Shanghai

DailyStamp(date) == date * DayMinutes

ResampleDaily(series) ==
  LET dates == {DateOf(t) : t \in DOMAIN series}
  IN  [stamp \in {DailyStamp(d) : d \in dates} |->
         Aggregate(Restrict(series, {t \in DOMAIN series : DailyStamp(DateOf(t)) = stamp}))]

\* A finer target is refused: there is nothing to return.
CanResample(source, target) == Minutes[source] <= Minutes[target]

Resampled(series, source, target) ==
  IF target = source THEN series
  ELSE IF target = "day" THEN ResampleDaily(series)
  ELSE ResampleIntraday(series, Minutes[target])

\* load_bars with resample_from: read the window, then derive.
LoadBars(series, source, target, start, end) ==
  Resampled(ReadBars(series, start, end), source, target)

=============================================================================
