---------------------------- MODULE MCScheduler ----------------------------
(* Instances of Scheduler: expressions of services/index.js on a scale      *)
(* where, as in the code, only the monthly interval exceeds MaxTimer.       *)
EXTENDS Scheduler

Monthly == <<0, 0, 1, Star, Star>>
EveryHalfHour == <<30>>
MonthlyAndNumeric == {Monthly, EveryHalfHour}
=============================================================================
