------------------------------- MODULE Billing -------------------------------
(***************************************************************************)
(* The billing job of src/src/jobs/billing.job.js on the readings store: a  *)
(* tick of the scheduler queues a job for the month of that moment, and the *)
(* job runs when the queue comes to it, maybe after a retry or a restart.  *)
(*                                                                         *)
(* An invoice keeps which readings it charges for.                         *)
(***************************************************************************)
EXTENDS ReadingStore

CONSTANT MonthLength  \* days of a month, at least one

VARIABLES
  pending,  \* periods of the billing jobs in the queue
  billed    \* history: what the last job of each period charged for

vars == <<storeVars, pending, billed>>

Month(day) == day \div MonthLength
Months == {Month(day) : day \in Days}

(* The schedule 'billing-hourly' ticks. *)
Tick ==
  /\ pending' = pending \cup {Month(today)}
  /\ UNCHANGED <<storeVars, billed>>

(* The billing handler: from the first day of the month to the day that     *)
(* Date.UTC(year, monthNumber, 1) gives, to its end (getReadings() takes   *)
(* endDate as a whole day).  Another job of the period may wait behind it. *)
Bill(period) ==
  /\ period \in pending /\ pending' \in {pending, pending \ {period}}
  /\ LET startDate == period * MonthLength
         endDate == (period + 1) * MonthLength
     IN  billed' = [billed EXCEPT ![period] = GetReadings(readings, startDate, endDate)]
  /\ UNCHANGED storeVars

(* Queued jobs survive a restart when the queue has a snapshot file. *)
Restart == RestartStore /\ pending' \in {pending, {}} /\ UNCHANGED billed

Init == StoreInit /\ pending = {} /\ billed = [period \in Months |-> {}]

Next ==
  \/ StoreStep /\ UNCHANGED <<pending, billed>>
  \/ Tick \/ Restart
  \/ \E period \in Months : Bill(period)

Spec == Init /\ [][Next]_vars

-----------------------------------------------------------------------------
(* billing.job.js:15: "A period covers one calendar month", so no reading   *)
(* is charged for in two periods.                                          *)
ReadingsAreBilledOnce ==
  \A p, q \in Months : p # q => billed[p] \cap billed[q] = {}
=============================================================================
