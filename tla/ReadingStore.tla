---------------------------- MODULE ReadingStore ----------------------------
(***************************************************************************)
(* The readings store of src/src/services/aggregator.js: ingestion, the     *)
(* global cap, the retention sweep, and the queries over ranges of days.   *)
(*                                                                         *)
(* A reading keeps what the store and its readers tell apart: its id, the   *)
(* day of its timestamp, and the life of the process it came in (ids start *)
(* again at 1 after a restart; the values differ).  The day stands for the *)
(* timestamp: the ranges of getReadings() are whole days.                  *)
(*                                                                         *)
(* Analytics and Billing extend this module with the readers of the store. *)
(***************************************************************************)
EXTENDS Integers, FiniteSets

CONSTANTS
  MaxTotalReadings,  \* MAX_TOTAL_READINGS
  MaxBatchSize,      \* MAX_BATCH_SIZE
  Retention,         \* READINGS_RETENTION_DAYS
  MaxReadings,       \* bound: readings added in one life of the process
  MaxDay,            \* bound: last day
  MaxBoots           \* bound: restarts of the process

ASSUME StoreAssumption ==
  /\ MaxTotalReadings \in Nat \ {0} /\ MaxBatchSize \in Nat \ {0}
  /\ Retention \in Nat \ {0}
  /\ MaxReadings \in Nat /\ MaxDay \in Nat /\ MaxBoots \in Nat

VARIABLES
  today,     \* the day of Date.now()
  boot,      \* restarts so far
  readings,  \* readings
  nextId,    \* nextId
  ingested   \* history: every reading added since the process started

storeVars == <<today, boot, readings, nextId, ingested>>

Days == 0..MaxDay
Reading == [id : 1..MaxReadings, day : Days, boot : 0..MaxBoots]

(* The order of the sort by timestamp; it is stable, and the ids of the     *)
(* array grow.                                                             *)
Older(r, s) == r.day < s.day \/ (r.day = s.day /\ r.id < s.id)

(* Mutant of Oldest: the overflow is cut off in the order of arrival. *)
OldestArrivals(R) ==
  {r \in R : Cardinality({s \in R : s.id < r.id}) < Cardinality(R) - MaxTotalReadings}

(* The overflow of the store over its cap: the oldest of R. *)
Oldest(R) ==
  {r \in R : Cardinality({s \in R : Older(s, r)}) < Cardinality(R) - MaxTotalReadings}

(* getReadings() from the start of day `from` to the end of day `to`. *)
GetReadings(R, from, to) == {r \in R : from <= r.day /\ r.day <= to}

-----------------------------------------------------------------------------
(* addReadings() of a batch, days[i] the day of its i-th reading: historical *)
(* data is welcome, and is what the cap drops first.  (An oversized batch   *)
(* is rejected with no change.)                                            *)
AddReadings(days) ==
  /\ Cardinality(DOMAIN days) <= MaxBatchSize
  /\ LET stored == {[id |-> nextId + i - 1, day |-> days[i], boot |-> boot] : i \in DOMAIN days}
     IN  /\ readings' = (readings \cup stored) \ Oldest(readings \cup stored)
         /\ ingested' = ingested \cup stored
  /\ nextId' = nextId + Cardinality(DOMAIN days)
  /\ UNCHANGED <<today, boot>>

(* pruneOldReadings(), on the hourly timer of the sweeper. *)
PruneOldReadings ==
  /\ readings' = {r \in readings : r.day >= today - Retention}
  /\ UNCHANGED <<today, boot, nextId, ingested>>

(* A day goes by. *)
NextDay ==
  /\ today < MaxDay /\ today' = today + 1
  /\ UNCHANGED <<boot, readings, nextId, ingested>>

(* The process ends and starts again: the store is in memory only. *)
RestartStore ==
  /\ boot < MaxBoots /\ boot' = boot + 1
  /\ readings' = {} /\ nextId' = 1 /\ ingested' = {}
  /\ UNCHANGED today

StoreInit ==
  /\ today = 0 /\ boot = 0
  /\ readings = {} /\ nextId = 1 /\ ingested = {}

(* Bound: MaxReadings. *)
Ingest ==
  \E n \in 1..(MaxReadings + 1 - nextId) : \E days \in [1..n -> 0..today] : AddReadings(days)

StoreStep == Ingest \/ PruneOldReadings \/ NextDay

-----------------------------------------------------------------------------
(* Every variable stays within the values the code can give it. *)
StoreTypeOK ==
  /\ today \in Days /\ boot \in 0..MaxBoots
  /\ readings \subseteq ingested /\ ingested \subseteq Reading
  /\ nextId \in 1..(MaxReadings + 1)
  /\ ingested # {} => nextId > 1
  /\ \A r \in ingested : r.id < nextId /\ r.boot = boot

(* "Keep the most recent window of data": over any sequence of batches, in  *)
(* any order of their timestamps, and sweeps, a reading is missing only     *)
(* when it aged out or when a whole store of newer ones came in; and the    *)
(* store never exceeds its cap.                                            *)
StoreIsTheRecentWindow ==
  /\ Cardinality(readings) <= MaxTotalReadings
  /\ \A r \in ingested \ readings :
       \/ r.day < today - Retention
       \/ Cardinality({s \in ingested : Older(r, s)}) >= MaxTotalReadings
=============================================================================
