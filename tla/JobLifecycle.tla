----------------------------- MODULE JobLifecycle -----------------------------
(***************************************************************************)
(* What the job queue (src/src/services/queue.js) promises of each job to   *)
(* those who add and watch jobs, without its slots, lists and timers: the  *)
(* ways a status may go, the attempts spent, how many jobs run at once,    *)
(* and what the end of a process and the snapshot do to all of this.       *)
(***************************************************************************)
EXTENDS Integers, FiniteSets

CONSTANTS
  JobIds,
  JobRetryAttempts,  \* attempts of a job
  JobConcurrency     \* jobs that run at once

VARIABLES
  life,  \* job -> its status and the attempts it has spent
  saved  \* the same, in the snapshot

Ended == {"completed", "failed", "cancelled"}
Life == [status : {"new", "gone", "queued", "running"} \cup Ended,
         attempts : 0..JobRetryAttempts]

New == [status |-> "new", attempts |-> 0]    \* not added yet
Gone == [status |-> "gone", attempts |-> 0]  \* added, and no longer held

(* What the queue may make of a job in one step: attempts are spent one by  *)
(* one, and never more than there are; an outcome may only be relabelled   *)
(* by a cancellation or forgotten.  A type without a handler fails unrun.  *)
Moves(a, b) ==
  \/ b = a
  \/ a = New /\ b.attempts = 0 /\ b.status \in {"queued", "running", "failed"}
  \/ /\ a.status = "queued" /\ b.attempts = a.attempts
     /\ b.status \in {"running", "cancelled", "failed"}
  \/ a.status = "running" /\ b.status = "completed" /\ b.attempts = a.attempts
  \/ /\ a.status = "running" /\ b.attempts = a.attempts + 1
     /\ b.status = IF b.attempts < JobRetryAttempts THEN "queued" ELSE "failed"
  \/ a.status \in Ended /\ b = [a EXCEPT !.status = "cancelled"]
  \/ a.status \in Ended \cup {"running"} /\ b = Gone

Step ==
  /\ life' \in [JobIds -> Life]
  /\ \A j \in JobIds : Moves(life[j], life'[j])
  /\ Cardinality({j \in JobIds : life'[j].status = "running"}) <= JobConcurrency
  /\ UNCHANGED saved

(* The snapshot holds what the process holds. *)
Held == [j \in JobIds |-> IF life[j] = New THEN Gone ELSE life[j]]
Save == saved' = Held /\ UNCHANGED life

(* The process forgets all jobs: it died, or shut down with a last save. *)
Forget ==
  /\ life' = [j \in JobIds |-> IF life[j] = New THEN New ELSE Gone]
  /\ saved' \in {saved, Held}

(* A new process takes up the snapshot: what ran when it was written is     *)
(* queued again, with the attempts spent.                                  *)
Resumed(a) == IF a.status = "running" THEN [a EXCEPT !.status = "queued"] ELSE a
Restart ==
  /\ \A j \in JobIds : life[j] \in {New, Gone}
  /\ life' = [j \in JobIds |-> IF saved[j] = Gone THEN life[j] ELSE Resumed(saved[j])]
  /\ UNCHANGED saved

Init == life = [j \in JobIds |-> New] /\ saved = [j \in JobIds |-> Gone]
Next == Step \/ Save \/ Forget \/ Restart
Spec == Init /\ [][Next]_<<life, saved>>
=============================================================================
