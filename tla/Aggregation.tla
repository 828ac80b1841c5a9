----------------------------- MODULE Aggregation -----------------------------
(***************************************************************************)
(* The aggregation functions of src/src/services/aggregator.js, and the     *)
(* windows of src/src/routes/analytics.js that they are applied to.        *)
(*                                                                         *)
(* Time counts hours of UTC from the first hour of day 0.  The key of a     *)
(* bucket, the text of its first instant, is that instant: keys of one     *)
(* granularity sort as text in the order of time.  The calendar is a       *)
(* parameter, so that short months show what long ones do.                 *)
(*                                                                         *)
(* Aggregated values are kept as exact multiples of 1/Scale.               *)
(***************************************************************************)
EXTENDS Integers, Sequences, FiniteSets, SequencesExt

CONSTANTS
  HoursInDay,    \* hours of a day
  MonthLengths,  \* days of each month, from the one that day 0 begins
  MonthsInYear,  \* months of a year
  FirstWeekday,  \* getUTCDay() of day 0, Sunday = 0
  Scale,         \* what values are multiples of 1 over
  Null           \* null, and a date that is not given

ASSUME CalendarAssumption ==
  /\ HoursInDay \in Nat \ {0} /\ MonthLengths \in Seq(Nat \ {0})
  /\ MonthsInYear \in Nat \ {0} /\ FirstWeekday \in 0..6
  /\ Scale \in Nat /\ Scale % 100 = 0
  /\ Null \notin Int

Granularities == {"hour", "day", "week", "month"}
AggregationTypes == {"count", "sum", "avg", "min", "max", "p50", "p95"}

(* The members of S in the order of Before, a strict order. *)
Enumerated(S, before) ==
  [i \in 1..Cardinality(S) |-> CHOOSE x \in S : Cardinality(before[x]) = i - 1]

Ordered(S, Before(_, _)) == Enumerated(S, [x \in S |-> {y \in S : Before(y, x)}])

(* filter(): what passes the test, in its order.  (The provers know nothing *)
(* of SelectSeq.)                                                          *)
Filtered(s, Test(_)) ==
  LET kept == Ordered({i \in DOMAIN s : Test(s[i])}, <)
  IN  [n \in DOMAIN kept |-> s[kept[n]]]

(* sort((a, b) => a - b), which is stable. *)
Sorted(values) ==
  LET least == Ordered(DOMAIN values, LAMBDA i, j :
                 values[i] < values[j] \/ (values[i] = values[j] /\ i < j))
  IN  [n \in DOMAIN least |-> values[least[n]]]

Total(values) == SumFunction(values)

(* Math.round(a / b): halves are rounded up. *)
Rounded(a, b) == (2 * a + b) \div (2 * b)

-----------------------------------------------------------------------------
(* The calendar of Date *)

(* The day each month begins, and the one after the last. *)
MonthStart[m \in 1..(Len(MonthLengths) + 1)] ==
  IF m = 1 THEN 0 ELSE MonthStart[m - 1] + MonthLengths[m - 1]

(* The instants of the calendar. *)
Instants == 0..(MonthStart[Len(MonthLengths) + 1] * HoursInDay - 1)

DayOf(time) == time \div HoursInDay
StartOfDay(day) == day * HoursInDay
EndOfDay(time) == StartOfDay(DayOf(time)) + HoursInDay - 1
Weekday(day) == (FirstWeekday + day) % 7
MonthOf(day) ==
  CHOOSE m \in DOMAIN MonthLengths : MonthStart[m] <= day /\ day < MonthStart[m + 1]

(* setUTCMonth(getUTCMonth() + n): a day that the month has not runs over   *)
(* into the one after it.                                                  *)
AddMonths(time, n) ==
  LET month == MonthOf(DayOf(time))
  IN  time + StartOfDay(MonthStart[month + n] - MonthStart[month])

-----------------------------------------------------------------------------
(* Values *)

(* percentile() of a sorted sequence: interpolated between the two values   *)
(* around its position, here counted in hundredths.                        *)
Percentile(sorted, percent) ==
  LET index == percent * (Len(sorted) - 1)
      lower == sorted[index \div 100 + 1]
  IN  IF index % 100 = 0 THEN Scale * lower
      ELSE Scale * lower + (Scale \div 100) * (index % 100) * (sorted[index \div 100 + 2] - lower)

(* aggregateValues() *)
AggregateValues(values, type) ==
  IF values = << >> THEN (IF type = "count" THEN 0 ELSE Null)
  ELSE CASE type = "count" -> Scale * Len(values)
         [] type = "sum" -> Scale * Total(values)
         [] type = "avg" -> (Scale * Total(values)) \div Len(values)
         [] type = "min" -> Scale * Min(ToSet(values))
         [] type = "max" -> Scale * Max(ToSet(values))
         [] type = "p50" -> Percentile(Sorted(values), 50)
         [] type = "p95" -> Percentile(Sorted(values), 95)

-----------------------------------------------------------------------------
(* Buckets *)

(* Mutant of BucketKey: the week of a Sunday is the one that follows it. *)
BucketKeySundayFirst(time, granularity) ==
  LET day == DayOf(time)
  IN  CASE granularity = "hour" -> time
        [] granularity = "day" -> StartOfDay(day)
        [] granularity = "week" -> StartOfDay(day - (Weekday(day) - 1))
        [] granularity = "month" -> StartOfDay(MonthStart[MonthOf(day)])

(* getBucketKey(): weeks begin on Monday. *)
BucketKey(time, granularity) ==
  LET day == DayOf(time)
  IN  CASE granularity = "hour" -> time
        [] granularity = "day" -> StartOfDay(day)
        [] granularity = "week" -> StartOfDay(day - ((Weekday(day) + 6) % 7))
        [] granularity = "month" -> StartOfDay(MonthStart[MonthOf(day)])

(* The instants that the loop of generateBucketKeys() visits, up to the end *)
(* of the day of endDate.  Each month is stepped from the one before.      *)
Visited(start, end, granularity) ==
  LET step == CASE granularity = "hour" -> 1
                [] granularity = "day" -> HoursInDay
                [] granularity = "week" -> 7 * HoursInDay
                [] granularity = "month" -> Null
      current[n \in 0..Len(MonthLengths)] ==
        IF n = 0 THEN start
        ELSE LET last == current[n - 1]
             IN  IF last > EndOfDay(end) THEN last ELSE AddMonths(last, 1)
  IN  IF step = Null
      THEN {current[n] : n \in 0..Len(MonthLengths)} \cap start..EndOfDay(end)
      ELSE {time \in start..EndOfDay(end) : (time - start) % step = 0}

(* Mutant of GenerateBucketKeys: the last day is left out. *)
GenerateBucketKeysToMidnight(start, end, granularity) ==
  {BucketKey(time, granularity) : time \in Visited(start, end, granularity) \cap start..end}

(* generateBucketKeys(): no step stays in its bucket, so no key is twice in *)
(* the list.                                                               *)
GenerateBucketKeys(start, end, granularity) ==
  {BucketKey(time, granularity) : time \in Visited(start, end, granularity)}

-----------------------------------------------------------------------------
(* Readings [id, meterId, time, value], in the order of their ids *)

Values(R) ==
  LET ordered == Ordered(R, LAMBDA r, s : r.id < s.id)
  IN  [i \in DOMAIN ordered |-> ordered[i].value]

(* The readings of a query [startDate, endDate, meterIds]: to the end of    *)
(* its last day, and of every meter when no meter is named.                *)
Matching(R, query) ==
  {r \in R :
     /\ query.startDate # Null => query.startDate <= r.time
     /\ query.endDate # Null => r.time <= EndOfDay(query.endDate)
     /\ query.meterIds # {} => r.meterId \in query.meterIds}

(* aggregateReadings() with its gaps filled, by key. *)
AggregateReadings(R, query, granularity, type) ==
  LET filtered == Matching(R, query)
      bucket(key) == {r \in filtered : BucketKey(r.time, granularity) = key}
  IN  [key \in {BucketKey(r.time, granularity) : r \in filtered}
                 \cup GenerateBucketKeys(query.startDate, query.endDate, granularity) |->
         [value |-> AggregateValues(Values(bucket(key)), type),
          count |-> Cardinality(bucket(key))]]

(* fleetSummary(): among equal meters the one seen first is on top, and the *)
(* one seen last at the bottom (the sort is stable).                       *)
FleetSummary(R, query, type) ==
  LET filtered == Matching(R, query)
      meters == {r.meterId : r \in filtered}
      of(m) == {r \in filtered : r.meterId = m}
      value(m) == AggregateValues(Values(of(m)), type)
      first(m) == Min({r.id : r \in of(m)})
      above(m, n) == value(m) > value(n) \/ (value(m) = value(n) /\ first(m) < first(n))
      ranked == Ordered(meters, above)
  IN  [totalReadings |-> Cardinality(filtered),
       value |-> IF filtered = {} THEN Null ELSE AggregateValues(Values(filtered), type),
       meters |-> [m \in meters |-> [value |-> value(m), readings |-> Cardinality(of(m))]],
       topPerformer |-> IF meters = {} THEN Null ELSE ranked[1],
       bottomPerformer |-> IF meters = {} THEN Null ELSE ranked[Len(ranked)]]

-----------------------------------------------------------------------------
(* Comparisons of two periods *)

SumOfValues(buckets) ==
  LET valued == {key \in DOMAIN buckets : buckets[key].value # Null}
  IN  FoldFunctionOnSet(LAMBDA b, sum : b.value + sum, 0, buckets, valued)

(* comparePeriods(); the change in hundredths of a percent. *)
ComparePeriods(current, previous) ==
  LET delta == SumOfValues(current) - SumOfValues(previous)
      before == SumOfValues(previous)
  IN  [delta |-> delta,
       percentageChange |->
         IF before = 0 THEN Null
         ELSE Rounded(10000 * delta, IF before < 0 THEN -before ELSE before)]

(* Mutant of PreviousPeriod: the last day of the window before is the first *)
(* of this one.                                                            *)
PreviousPeriodTouching(start, end, compareWith) ==
  IF compareWith = "year_over_year"
  THEN <<StartOfDay(DayOf(AddMonths(start, -MonthsInYear))),
         StartOfDay(DayOf(AddMonths(end, -MonthsInYear)))>>
  ELSE <<StartOfDay(DayOf(start - (end - start))), StartOfDay(DayOf(start))>>

(* getPreviousPeriodDates(): dates without a time of day.  The previous     *)
(* period ends a millisecond before the start, which is in the hour before *)
(* only when the start begins an hour, as all of them do here.             *)
PreviousPeriod(start, end, compareWith) ==
  IF compareWith = "year_over_year"
  THEN <<StartOfDay(DayOf(AddMonths(start, -MonthsInYear))),
         StartOfDay(DayOf(AddMonths(end, -MonthsInYear)))>>
  ELSE <<StartOfDay(DayOf(start - 1 - (end - start))), StartOfDay(DayOf(start - 1))>>
=============================================================================
