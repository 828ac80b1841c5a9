----------------------------- MODULE MCJobQueue -----------------------------
(* Model checking of JobQueue: the instances are given by the .cfg files. *)
EXTENDS JobQueue

TwoPriorities == {1, 3}
OnePriority == {2}
=============================================================================
