------------------------------ MODULE MCExports ------------------------------
(* Model-checks Exports on months of 3, 2 and 4 days, two to a year, with    *)
(* day 0 a Friday, so that day 2 is a Sunday and the last of its month.     *)
EXTENDS Exports

MCMonthLengths == <<3, 2, 4, 3, 3>>
MCMeterOf == <<"m1", "m2", "m1">>
MCHourOf == <<0, 1, 1>>
MCValueOf == <<4, 1, 2>>

Plain ==
  [kind |-> "readings", format |-> "csv", fields |-> {}, sections |-> {}, location |-> Null,
   startDate |-> Null, endDate |-> Null, meterIds |-> {}, compareWith |-> Null,
   granularity |-> "day", aggregationType |-> "sum"]

Of(kind, format) == [Plain EXCEPT !.kind = kind, !.format = format]
Days2(q, from, to) ==
  [q EXCEPT !.startDate = StartOfDay(from), !.endDate = StartOfDay(to)]
Buckets(granularity, type, from, to) ==
  Days2([Plain EXCEPT !.kind = "buckets", !.granularity = granularity,
                      !.aggregationType = type], from, to)

MCRequests ==
  {Plain,
   [Days2(Of("readings", "json"), 1, 3) EXCEPT !.fields = {"id", "value"}],
   [Plain EXCEPT !.fields = {"id", "secret"}],
   Days2(Of("daily", "ndjson"), 1, 3), Of("weekly", "json"), Of("monthly", "csv"),
   [Of("meters", "json") EXCEPT !.location = "here"],
   [Of("report", "csv") EXCEPT !.sections = {"meters", "readings", "summary"}],
   [Of("report", "json") EXCEPT !.sections = {"readings", "summary"}],
   Buckets("hour", "max", 1, 2),
   Buckets("week", "p50", 0, 6), Buckets("week", "p95", 3, 12),
   Buckets("month", "avg", 2, 6), Buckets("month", "count", 0, 6),
   [Buckets("day", "sum", 2, 4) EXCEPT !.compareWith = "previous_period"],
   [Buckets("month", "sum", 5, 6) EXCEPT !.compareWith = "year_over_year"],
   [Buckets("day", "min", 1, 5) EXCEPT !.meterIds = {"m1"}],
   [Of("fleet", "json") EXCEPT !.aggregationType = "avg"]}
=============================================================================
