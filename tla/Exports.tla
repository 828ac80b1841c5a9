------------------------------- MODULE Exports -------------------------------
(***************************************************************************)
(* The readers of the readings store that answer with more than one of its *)
(* rows: the exports of src/src/routes/exports.js, streamed by              *)
(* src/src/services/exporter.js, and the aggregations of                   *)
(* src/src/routes/analytics.js that no cache serves (custom-range, the      *)
(* comparisons of periods, fleet-summary of a range).                      *)
(*                                                                         *)
(* A handler computes its rows before it gives the process away; a row is   *)
(* written at each turn of the stream, while readings arrive, age out and  *)
(* are evicted, and devices are registered, changed and removed.           *)
(*                                                                         *)
(* One request at a time: two of them share nothing but the stores, which   *)
(* neither changes.  The meter, the hour and the value of a reading are     *)
(* given by its id.                                                        *)
(***************************************************************************)
EXTENDS ReadingStore, Aggregation

CONSTANTS
  Requests,          \* the requests that are made, see Kinds
  MeterOf,           \* meterId of the reading of each id
  HourOf,            \* hour of its timestamp
  ValueOf,           \* its value
  MaxAuditEntries,   \* MAX_AUDIT_ENTRIES
  DeviceIds,         \* devices of the admin registry
  Locations          \* where they are

Kinds ==
  {"readings", "daily", "weekly", "monthly", "meters", "report", "buckets", "fleet"}

(* The store sorts by timestamp, and ReadingStore by day and id. *)
ASSUME PayloadAssumption ==
  /\ DOMAIN MeterOf = 1..MaxReadings /\ ValueOf \in [1..MaxReadings -> Int]
  /\ HourOf \in [1..MaxReadings -> 0..(HoursInDay - 1)]
  /\ \A i, j \in 1..MaxReadings : i < j => HourOf[i] <= HourOf[j]
  /\ \A n \in 1..MaxReadings : Scale % n = 0
  /\ StartOfDay(MaxDay + 1) - 1 \in Instants

(* What the schemas let through, of dates in the calendar. *)
ASSUME RequestAssumption ==
  \A q \in Requests :
    /\ q.kind \in Kinds /\ {q.startDate, q.endDate} \subseteq Instants \cup {Null}
    /\ q.kind = "buckets" =>
         /\ {"startDate", "endDate"} \subseteq DOMAIN q
         /\ {q.startDate, q.endDate} \subseteq Instants
         /\ q.granularity \in Granularities /\ q.aggregationType \in AggregationTypes
         /\ q.compareWith \in {Null, "previous_period", "year_over_year"}
         /\ q.compareWith = "year_over_year" =>
              \A time \in {q.startDate, q.endDate} : MonthOf(DayOf(time)) > MonthsInYear

VARIABLES
  devices,  \* deviceStore.list(), a device told by its deviceId
  audit,    \* adminAuditLog: what was done to which device
  request,  \* what was asked last
  phase,    \* "idle", "streaming", "ended" (200) or "rejected" (400)
  source,   \* rows of the data stream that are still to come
  body,     \* what was written to the response
  asked     \* history: the stores when the request came

answerVars == <<request, phase, source, body, asked>>
adminVars == <<devices, audit>>
vars == <<storeVars, adminVars, answerVars>>

(* The readings of R as the aggregations take them. *)
Rows(R) ==
  {[id |-> r.id, meterId |-> MeterOf[r.id], value |-> ValueOf[r.id],
    time |-> StartOfDay(r.day) + HourOf[r.id]] : r \in R}

-----------------------------------------------------------------------------
(* Rows of the exports; fields that are fixed or copied as they are left    *)
(* out (unit, createdAt, name, registeredAt).                              *)

(* toExportReading() *)
ToExportReading(r) ==
  [id |-> r.id, meterId |-> r.meterId, timestamp |-> r.time, value |-> r.value]

(* getExportReadings(): in the order of arrival.  (A status selects         *)
(* nothing: readings have none.)                                           *)
GetExportReadings(R, query) ==
  LET rows == Ordered(Matching(R, query), LAMBDA r, s : r.id < s.id)
  IN  [i \in DOMAIN rows |-> ToExportReading(rows[i])]

(* getExportMeters() *)
GetExportMeters(list, location) ==
  Filtered(list, LAMBDA d : location # Null => d.location = location)

(* bucketSummaries(): the readings of each bucket, in the order of time. *)
BucketSummaries(R, granularity) ==
  LET keys == Ordered({BucketKey(r.time, granularity) : r \in R}, <)
  IN  [i \in DOMAIN keys |->
         [key |-> keys[i],
          readings |-> {r \in R : BucketKey(r.time, granularity) = keys[i]}]]

SumOf(R) == Total(Values(R))
MeterCount(R) == Cardinality({r.meterId : r \in R})
DaysOf(R) == {BucketKey(r.time, "day") : r \in R}
OfDay(R, day) == {r \in R : BucketKey(r.time, "day") = day}

(* The day with the largest total, and of equal ones the first one seen. *)
PeakDay(R) ==
  LET above(d, e) == \/ SumOf(OfDay(R, d)) > SumOf(OfDay(R, e))
                     \/ /\ SumOf(OfDay(R, d)) = SumOf(OfDay(R, e))
                        /\ \E r \in OfDay(R, d) : \A s \in OfDay(R, e) : r.id < s.id
  IN  Ordered(DaysOf(R), above)[1]

(* computeDailySummaries(), for the days from startDate to endDate. *)
ComputeDailySummaries(R, query) ==
  LET rows == [i \in DOMAIN BucketSummaries(R, "day") |->
                 LET s == BucketSummaries(R, "day")[i]
                 IN  [date |-> s.key,
                      totalConsumption |-> SumOf(s.readings),
                      averageConsumption |-> AggregateValues(Values(s.readings), "avg"),
                      peakConsumption |-> AggregateValues(Values(s.readings), "max"),
                      meterCount |-> MeterCount(s.readings)]]
  IN  Filtered(rows, LAMBDA row :
        /\ query.startDate # Null => row.date >= StartOfDay(DayOf(query.startDate))
        /\ query.endDate # Null => row.date <= query.endDate)

(* computeWeeklySummaries(): of the whole store; averages in hundredths. *)
ComputeWeeklySummaries(R) ==
  [i \in DOMAIN BucketSummaries(R, "week") |->
     LET s == BucketSummaries(R, "week")[i]
     IN  [weekStart |-> s.key, weekEnd |-> s.key + StartOfDay(6),
          totalConsumption |-> SumOf(s.readings),
          averageDailyConsumption |->
            Rounded(100 * SumOf(s.readings), Cardinality(DaysOf(s.readings))),
          peakDay |-> PeakDay(s.readings), meterCount |-> MeterCount(s.readings)]]

(* computeMonthlySummaries(): of the whole store, over all days of a month. *)
ComputeMonthlySummaries(R) ==
  [i \in DOMAIN BucketSummaries(R, "month") |->
     LET s == BucketSummaries(R, "month")[i]
     IN  [month |-> s.key, totalConsumption |-> SumOf(s.readings),
          averageDailyConsumption |->
            Rounded(100 * SumOf(s.readings), MonthLengths[MonthOf(DayOf(s.key))]),
          peakDay |-> PeakDay(s.readings), meterCount |-> MeterCount(s.readings)]]

(* Mutant of BuildSystemReport: the summary counts what was ever ingested. *)
BuildSystemReportOfIds(R, list, sections) ==
  [section \in sections |->
     CASE section = "meters" -> GetExportMeters(list, Null)
       [] section = "readings" ->
            GetExportReadings(R, [startDate |-> Null, endDate |-> Null, meterIds |-> {}])
       [] section = "alerts" -> << >>
       [] section = "summary" ->
            <<[totalMeters |-> Len(list), totalReadings |-> nextId - 1]>>]

(* buildSystemReport(): each section a sequence of rows. *)
BuildSystemReport(R, list, sections) ==
  [section \in sections |->
     CASE section = "meters" -> GetExportMeters(list, Null)
       [] section = "readings" ->
            GetExportReadings(R, [startDate |-> Null, endDate |-> Null, meterIds |-> {}])
       [] section = "alerts" -> << >>
       [] section = "summary" ->
            <<[totalMeters |-> Len(list), totalReadings |-> Cardinality(R)]>>]

(* The row with one more field. *)
Tagged(row, section) ==
  [f \in DOMAIN row \cup {"_section"} |-> IF f = "_section" THEN section ELSE row[f]]

(* The report as one list of rows, each with its section. *)
Flattened(report) ==
  LET rows(section) == IF section \in DOMAIN report THEN report[section] ELSE << >>
      tagged(section) == [i \in DOMAIN rows(section) |-> Tagged(rows(section)[i], section)]
  IN  tagged("meters") \o tagged("readings") \o tagged("alerts") \o tagged("summary")

AvailableFields(q) ==
  LET of == [meters |-> {"deviceId", "location"},
             readings |-> {"id", "meterId", "timestamp", "value"},
             alerts |-> {"severity"},
             summary |-> {"totalMeters", "totalReadings"}]
  IN  IF q.kind = "report" THEN UNION {of[s] : s \in q.sections} \cup {"_section"}
      ELSE IF q.kind \in {"meters", "readings"} THEN of[q.kind]
      ELSE {"date", "weekStart", "weekEnd", "month", "totalConsumption", "averageConsumption",
            "averageDailyConsumption", "peakConsumption", "peakDay", "meterCount"}

(* validateFields(): no fields are all of them. *)
Columns(q) == IF q.fields = {} THEN AvailableFields(q) ELSE q.fields

FilterFields(row, columns) == [f \in columns \cap DOMAIN row |-> row[f]]

(* The rows of an export that streams them. *)
ExportRows(R, list, q) ==
  CASE q.kind = "readings" -> GetExportReadings(R, q)
    [] q.kind = "daily" -> ComputeDailySummaries(R, q)
    [] q.kind = "weekly" -> ComputeWeeklySummaries(R)
    [] q.kind = "monthly" -> ComputeMonthlySummaries(R)
    [] q.kind = "meters" -> GetExportMeters(list, q.location)
    [] q.kind = "report" -> Flattened(BuildSystemReport(R, list, q.sections))

Streams(q) ==
  q.kind \in {"readings", "daily", "weekly", "monthly", "meters"}
  \/ (q.kind = "report" /\ q.format = "csv")

(* sendAggregatedResponse() past its cache, and custom-range. *)
AggregatedResponse(R, q) ==
  LET before == PreviousPeriod(q.startDate, q.endDate, q.compareWith)
      earlier == [q EXCEPT !.startDate = before[1], !.endDate = before[2]]
      data == AggregateReadings(R, q, q.granularity, q.aggregationType)
      previous == AggregateReadings(R, earlier, q.granularity, q.aggregationType)
  IN  [data |-> data, totalReadings |-> Cardinality(Matching(R, q)),
       previous |-> IF q.compareWith = Null THEN Null ELSE previous,
       comparison |-> IF q.compareWith = Null THEN Null ELSE ComparePeriods(data, previous)]

Answer(R, list, q) ==
  CASE q.kind = "report" -> BuildSystemReport(R, list, q.sections)
    [] q.kind = "buckets" -> AggregatedResponse(R, q)
    [] q.kind = "fleet" -> FleetSummary(R, q, q.aggregationType)

-----------------------------------------------------------------------------
(* A request comes: its rows are computed at once. *)
Ask(q) ==
  /\ phase = "idle"
  /\ request' = q /\ asked' = [readings |-> Rows(readings), devices |-> devices]
  /\ \/ /\ Streams(q) /\ ~ (Columns(q) \subseteq AvailableFields(q))
        /\ phase' = "rejected" /\ source' = << >> /\ body' = << >>
     \/ /\ Streams(q) /\ Columns(q) \subseteq AvailableFields(q)
        /\ phase' = "streaming" /\ source' = ExportRows(Rows(readings), devices, q)
        /\ body' = IF q.format = "json" THEN <<[text |-> "["]>> ELSE << >>
     \/ /\ ~ Streams(q)
        /\ phase' = "ended" /\ source' = << >>
        /\ body' = <<Answer(Rows(readings), devices, q)>>
  /\ UNCHANGED <<storeVars, adminVars>>

(* Mutant of Data: the rows are read from the stores as they are written. *)
DataLate ==
  /\ phase = "streaming"
  /\ LET written == Len(Filtered(body, LAMBDA c : "row" \in DOMAIN c))
         rows == ExportRows(Rows(readings), devices, request)
     IN  /\ written < Len(rows)
         /\ source' = SubSeq(rows, written + 2, Len(rows))
         /\ body' = Append(body, [row |-> FilterFields(rows[written + 1], Columns(request)),
                                  comma |-> request.format = "json" /\ written > 0])
  /\ UNCHANGED <<storeVars, adminVars, request, phase, asked>>

(* The data stream gives a row to exportToCSV() or exportToJSON(). *)
Data ==
  /\ phase = "streaming" /\ source # << >>
  /\ source' = Tail(source)
  /\ body' = Append(body, [row |-> FilterFields(Head(source), Columns(request)),
                           comma |-> request.format = "json" /\ Len(body) > 1])
  /\ UNCHANGED <<storeVars, adminVars, request, phase, asked>>

(* It ends, and with it the response. *)
End ==
  /\ phase = "streaming" /\ source = << >>
  /\ phase' = "ended"
  /\ body' = IF request.format = "json" THEN Append(body, [text |-> "]"]) ELSE body
  /\ UNCHANGED <<storeVars, adminVars, request, source, asked>>

(* The client has its answer.  Bound: the stores rest until then, as nothing *)
(* reads an answer that has ended.                                          *)
Resting == phase \in {"ended", "rejected"}

Close ==
  /\ Resting
  /\ request' = Null /\ phase' = "idle" /\ body' = << >>
  /\ asked' = [readings |-> {}, devices |-> << >>]
  /\ UNCHANGED <<storeVars, adminVars, source>>

(* POST, PATCH and DELETE of /api/admin/devices. *)
RecordAdminAudit(action, target) ==
  LET trail == Append(audit, [action |-> action, target |-> target])
  IN  audit' = SubSeq(trail, Max({1, Len(trail) - MaxAuditEntries + 1}), Len(trail))

RegisterDevice(d, place) ==
  /\ \A i \in DOMAIN devices : devices[i].deviceId # d
  /\ devices' = Append(devices, [deviceId |-> d, location |-> place])
  /\ RecordAdminAudit("device.create", d)
  /\ UNCHANGED <<storeVars, answerVars>>

UpdateDevice(i, place) ==
  /\ devices' = [devices EXCEPT ![i].location = place]
  /\ RecordAdminAudit("device.update", devices[i].deviceId)
  /\ UNCHANGED <<storeVars, answerVars>>

RemoveDevice(i) ==
  /\ devices' = SubSeq(devices, 1, i - 1) \o SubSeq(devices, i + 1, Len(devices))
  /\ RecordAdminAudit("device.delete", devices[i].deviceId)
  /\ UNCHANGED <<storeVars, answerVars>>

-----------------------------------------------------------------------------
Init ==
  /\ StoreInit /\ devices = << >> /\ audit = << >>
  /\ request = Null /\ phase = "idle" /\ source = << >> /\ body = << >>
  /\ asked = [readings |-> {}, devices |-> << >>]

Next ==
  \/ ~ Resting /\ StoreStep /\ UNCHANGED <<adminVars, answerVars>>
  \/ \E q \in Requests : Ask(q)
  \/ Data \/ End \/ Close
  \/ /\ ~ Resting
     /\ \/ \E d \in DeviceIds, place \in Locations : RegisterDevice(d, place)
        \/ \E i \in DOMAIN devices, place \in Locations : UpdateDevice(i, place)
        \/ \E i \in DOMAIN devices : RemoveDevice(i)

Spec == Init /\ [][Next]_vars

-----------------------------------------------------------------------------
(* Properties *)

RowsWritten ==
  LET chunks == Filtered(body, LAMBDA c : "row" \in DOMAIN c)
  IN  [i \in DOMAIN chunks |-> chunks[i].row]
Ended(kinds) == phase = "ended" /\ request.kind \in kinds

(* A report of all sections, with the columns that tell of its sizes. *)
IsWholeReport(q) ==
  /\ {"meters", "readings", "summary"} \subseteq q.sections
  /\ {"_section", "totalReadings", "totalMeters"} \subseteq Columns(q)

(* A file holds the rows that the stores had when it was asked for, each    *)
(* once and in their order, whatever arrives, ages out, is evicted or is    *)
(* changed while it is written; a JSON file is one array.  The sections of  *)
(* a report are of one moment: its summary counts its rows.                 *)
FilesAreSnapshots ==
  /\ Ended({"readings"}) /\ "id" \in Columns(request) =>
       /\ {RowsWritten[i].id : i \in DOMAIN RowsWritten}
            = {r.id : r \in Matching(asked.readings, request)}
       /\ \A i, j \in DOMAIN RowsWritten : i < j => RowsWritten[i].id < RowsWritten[j].id
  /\ Ended({"meters"}) =>
       LET there == Filtered(asked.devices, LAMBDA d : request.location \in {Null, d.location})
       IN  RowsWritten = [i \in DOMAIN there |-> FilterFields(there[i], Columns(request))]
  /\ Ended({"report"}) /\ Streams(request) /\ IsWholeReport(request) =>
       \A i \in DOMAIN RowsWritten : RowsWritten[i]._section = "summary" =>
         LET tagged(s) == {j \in DOMAIN RowsWritten : RowsWritten[j]._section = s}
         IN  /\ RowsWritten[i].totalReadings = Cardinality(tagged("readings"))
             /\ RowsWritten[i].totalMeters = Cardinality(tagged("meters"))
  /\ Ended(Kinds) /\ Streams(request) /\ request.format = "json" =>
       \A i \in DOMAIN body :
         CASE i = 1 -> body[i] = [text |-> "["]
           [] i = Len(body) -> body[i] = [text |-> "]"]
           [] OTHER -> body[i].comma = (i > 2)

(* The readings of the days of a request. *)
InDays(R, q) ==
  {r \in R : /\ q.startDate # Null => DayOf(q.startDate) <= DayOf(r.time)
             /\ q.endDate # Null => DayOf(r.time) <= DayOf(q.endDate)}

(* A range of whole days, and of less than a year if the years are compared. *)
PeriodsAreApart(q) ==
  /\ q.startDate % HoursInDay = 0
  /\ q.compareWith = "year_over_year" =>
       DayOf(AddMonths(q.endDate, -MonthsInYear)) < DayOf(q.startDate)

(* Nothing is lost or counted twice between levels: the totals of the days, *)
(* of the weeks and of the months of an export are the total of their       *)
(* readings; the counts of buckets and of meters add up to the readings of  *)
(* the range; each reading is in the bucket whose time it is in; values     *)
(* stay between the least and the greatest; and no reading is in both       *)
(* periods of a comparison.                                                *)
AggregatesAddUp ==
  /\ Ended({"daily", "weekly", "monthly"}) /\ "totalConsumption" \in Columns(request) =>
       SumFunction([i \in DOMAIN RowsWritten |-> RowsWritten[i].totalConsumption])
         = SumOf(IF request.kind = "daily" THEN InDays(asked.readings, request)
                                           ELSE asked.readings)
  /\ Ended({"weekly"}) /\ {"weekStart", "weekEnd", "peakDay"} \subseteq Columns(request) =>
       \A i \in DOMAIN RowsWritten :
         RowsWritten[i].peakDay \in RowsWritten[i].weekStart..RowsWritten[i].weekEnd
  /\ Ended({"buckets"}) =>
       LET data == body[1].data
           counted(buckets) == SumFunction([key \in DOMAIN buckets |-> buckets[key].count])
           values == {r.value : r \in Matching(asked.readings, request)}
       IN  /\ counted(data) = body[1].totalReadings
           /\ request.granularity = "week" => \A r \in Matching(asked.readings, request) :
                \E key \in DOMAIN data : r.time - key \in 0..(7 * HoursInDay - 1)
           /\ request.aggregationType \in {"avg", "min", "max", "p50", "p95"} =>
                \A key \in DOMAIN data : data[key].count > 0 =>
                  data[key].value \in (Scale * Min(values))..(Scale * Max(values))
           /\ request.compareWith # Null /\ PeriodsAreApart(request) =>
                counted(data) + counted(body[1].previous) <=
                  Cardinality({r \in asked.readings : r.time <= EndOfDay(request.endDate)})
  /\ Ended({"fleet"}) =>
       SumFunction([m \in DOMAIN body[1].meters |-> body[1].meters[m].readings])
         = body[1].totalReadings

(* "Responses include all expected time slots": every slot that the range   *)
(* touches has a bucket, for hours and days always, for weeks when the      *)
(* range ends no earlier in its week than it starts, and for months when    *)
(* every month has the day of its start and the last one reaches it.       *)
NoSlotIsMissing ==
  LET inWeek(time) == (Weekday(DayOf(time)) + 6) % 7
      inMonth(time) == DayOf(time) - MonthStart[MonthOf(DayOf(time))]
      from == request.startDate
      to == request.endDate
      stepsFit == CASE request.granularity = "week" -> inWeek(from) <= inWeek(to)
                    [] request.granularity = "month" ->
                         /\ inMonth(from) <= inMonth(to)
                         /\ \A m \in MonthOf(DayOf(from))..MonthOf(DayOf(to)) :
                              inMonth(from) < MonthLengths[m]
                    [] OTHER -> TRUE
  IN  Ended({"buckets"}) /\ stepsFit =>
        \A time \in from..EndOfDay(to) :
          BucketKey(time, request.granularity) \in DOMAIN body[1].data

(* aggregator.js:337-338: the keys of empty buckets are "used to fill gaps   *)
(* so responses include all expected time slots", whatever day a range      *)
(* starts and ends on.  But months are stepped by setUTCMonth(), which runs *)
(* over from the 31st, and weeks from the start date.                       *)
EverySlotIsPresent ==
  Ended({"buckets"}) =>
    \A time \in request.startDate..EndOfDay(request.endDate) :
      BucketKey(time, request.granularity) \in DOMAIN body[1].data
=============================================================================
