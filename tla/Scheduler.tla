----------------------------- MODULE Scheduler -----------------------------
(***************************************************************************)
(* The recurring scheduler: src/src/services/scheduler.js (class           *)
(* Scheduler).  Every schedule is a chain: a timer, split into chunks that  *)
(* Node.js does not clamp, then the handler, then the next timer.          *)
(*                                                                         *)
(* A schedule object outlives its registration: a handler in flight keeps  *)
(* the object it was started with, while cancelSchedule() and schedule()   *)
(* may put another object under the same name.  Objects are numbered in    *)
(* the order of the schedule() calls, timers within their object.          *)
(*                                                                         *)
(* One unit of time stands for a millisecond.  runCount, lastRun's date     *)
(* and nextRun are bookkeeping that nothing reads back; of lastRun the      *)
(* model keeps how long the chain slept before it.                         *)
(***************************************************************************)
EXTENDS Integers, Sequences, FiniteSets, FiniteSetsExt

CONSTANTS
  Names,          \* schedule names
  Exprs,          \* expressions passed to schedule()
  Awaits,         \* names whose handler yields to the event loop before it settles
  Minute,         \* units in a minute
  MaxTimer,       \* MAX_TIMER_MS: Node.js fires a longer timer after one unit
  MaxSchedules,   \* bound: number of schedule() calls
  MaxChains       \* bound: chains of one schedule object

Star == -1   \* the field * of a cron expression

ASSUME SchedulerAssumption ==
  /\ Awaits \subseteq Names
  /\ Minute \in Nat \ {0} /\ MaxTimer \in Nat \ {0}
  /\ MaxSchedules \in Nat /\ MaxChains \in Nat \ {0}
  /\ Exprs \subseteq Seq(Nat \cup {Star})
  /\ \A e \in Exprs : e # << >>

VARIABLES
  schedules,   \* this.schedules: registered name -> number of its object
  objects,     \* the schedule objects ever made
  isRunning,   \* this.isRunning
  timers,      \* armed timers
  inFlight     \* per object, the handlers started and not settled

vars == <<schedules, objects, isRunning, timers, inFlight>>

NoTimer == 0
NodeDelay(delay) == IF delay > MaxTimer THEN 1 ELSE delay

-----------------------------------------------------------------------------
(* _parseInterval(): a leading number is an interval of its own, whatever   *)
(* fields follow it; of the cron forms five are known.                     *)
ParseInterval(expr) ==
  CASE expr[1] > 0                               -> expr[1]
    [] expr = <<Star, Star, Star, Star, Star>>   -> Minute
    [] expr = <<0, Star, Star, Star, Star>>      -> 60 * Minute
    [] expr = <<0, 0, Star, Star, Star>>         -> 24 * 60 * Minute
    [] expr = <<0, 0, Star, Star, 1>>            -> 7 * 24 * 60 * Minute
    [] expr = <<0, 0, 1, Star, Star>>            -> 30 * 24 * 60 * Minute
    [] OTHER                                     -> -1

(* The test that every callback makes before it goes on: by name. *)
Registered(o) == objects[o].name \in DOMAIN schedules

TimersOf(ts, o) == {t \in ts : t.obj = o}
Chains(o) == Cardinality(TimersOf(timers, o)) + inFlight[o]

(* The handle that setTimeout() returns: unused by o, so far as o knows. *)
FreshHandle(ts, o) ==
  Min({k \in 1..(MaxChains + 2) : /\ k # objects[o].intervalId
                                  /\ \A t \in TimersOf(ts, o) : t.id # k})

(* Mutant of Chunk: the wait is not split. *)
WholeWait(ms) == ms

Chunk(ms) == IF ms <= MaxTimer THEN ms ELSE MaxTimer

(* armWait(ms) for object o, after `slept` units of the same wait. *)
Timer(ts, o, ms, slept) == [obj |-> o, id |-> FreshHandle(ts, o), ms |-> ms, slept |-> slept]

Arm(ts, o, ms, slept, lastSlept) ==
  LET t == Timer(ts, o, ms, slept)
  IN  /\ timers' = ts \cup {t}
      /\ objects' = [objects EXCEPT ![o].intervalId = t.id, ![o].lastSlept = lastSlept]

-----------------------------------------------------------------------------
(* The interface *)

(* schedule(): a taken name or an interval that cannot be parsed throws. *)
Schedule(name, expr) ==
  /\ name \notin DOMAIN schedules /\ ParseInterval(expr) > 0
  /\ Len(objects) < MaxSchedules
  /\ LET o == Len(objects) + 1
         interval == ParseInterval(expr)
     IN  /\ schedules' = [n \in DOMAIN schedules \cup {name} |->
                            IF n = name THEN o ELSE schedules[n]]
         /\ objects' = Append(objects, [name |-> name, interval |-> interval,
                                        intervalId |-> IF isRunning THEN 1 ELSE NoTimer,
                                        lastSlept |-> 0])
         /\ timers' = IF isRunning
                      THEN timers \cup {[obj |-> o, id |-> 1, ms |-> interval, slept |-> 0]}
                      ELSE timers
         /\ inFlight' = Append(inFlight, 0)
  /\ UNCHANGED isRunning

(* Timers and objects after clearTimeout(schedule.intervalId), set to null, *)
(* for every object of S.                                                  *)
Uncleared(S) == {t \in timers : ~ (t.obj \in S /\ t.id = objects[t.obj].intervalId)}
NullHandles(S) ==
  [o \in DOMAIN objects |-> IF o \in S THEN [objects[o] EXCEPT !.intervalId = NoTimer]
                            ELSE objects[o]]

CancelSchedule(name) ==
  /\ name \in DOMAIN schedules
  /\ timers' = Uncleared({schedules[name]})
  /\ objects' = NullHandles({schedules[name]})
  /\ schedules' = [n \in DOMAIN schedules \ {name} |-> schedules[n]]
  /\ UNCHANGED <<isRunning, inFlight>>

Live == {schedules[n] : n \in DOMAIN schedules}

(* start(): _startSchedule() for each schedule that has no handle yet. *)
Start ==
  /\ ~ isRunning
  /\ \A o \in Live : Chains(o) < MaxChains
  /\ isRunning' = TRUE
  /\ LET idle == {o \in Live : objects[o].intervalId = NoTimer}
         first == {Timer(timers, o, objects[o].interval, 0) : o \in idle}
     IN  /\ timers' = timers \cup first
         /\ objects' = [o \in DOMAIN objects |->
                          IF o \in idle
                          THEN [objects[o] EXCEPT !.intervalId = FreshHandle(timers, o)]
                          ELSE objects[o]]
  /\ UNCHANGED <<schedules, inFlight>>

(* Mutants of Stop: the handles are kept; the timers are not cleared. *)
StopKeepsHandles ==
  /\ isRunning /\ isRunning' = FALSE
  /\ timers' = Uncleared(Live)
  /\ UNCHANGED <<schedules, objects, inFlight>>
StopKeepsTimers ==
  /\ isRunning /\ isRunning' = FALSE
  /\ UNCHANGED <<schedules, objects, timers, inFlight>>

Stop ==
  /\ isRunning
  /\ isRunning' = FALSE
  /\ timers' = Uncleared(Live)
  /\ objects' = NullHandles(Live)
  /\ UNCHANGED <<schedules, inFlight>>

(* close(): stop(), then forget every schedule. *)
Close ==
  /\ IF isRunning
     THEN timers' = Uncleared(Live) /\ objects' = NullHandles(Live)
     ELSE UNCHANGED <<timers, objects>>
  /\ isRunning' = FALSE
  /\ schedules' = [n \in {} |-> n]
  /\ UNCHANGED inFlight

-----------------------------------------------------------------------------
(* The chain *)

(* Mutant of HandlerSettles: a handler that throws ends the chain. *)
ThrowEndsChain(o) ==
  /\ inFlight[o] > 0
  /\ inFlight' = [inFlight EXCEPT ![o] = @ - 1]
  /\ \/ UNCHANGED <<timers, objects>>
     \/ Registered(o) /\ Arm(timers, o, objects[o].interval, 0, objects[o].lastSlept)
  /\ UNCHANGED <<schedules, isRunning>>

(* The handler settles; that it threw is only logged.  The next wait is     *)
(* armed if the name is still registered, running scheduler or not.        *)
HandlerSettles(o) ==
  /\ inFlight[o] > 0
  /\ inFlight' = [inFlight EXCEPT ![o] = @ - 1]
  /\ IF Registered(o)
     THEN Arm(timers, o, objects[o].interval, 0, objects[o].lastSlept)
     ELSE UNCHANGED <<timers, objects>>
  /\ UNCHANGED <<schedules, isRunning>>

LastChunk(t) == Chunk(t.ms) >= t.ms

TimerFires(t) ==
  LET o == t.obj
      slept == t.slept + NodeDelay(Chunk(t.ms))
      rest == timers \ {t}
  IN  /\ t \in timers
      /\ \/ /\ ~ Registered(o)
            /\ timers' = rest /\ UNCHANGED <<objects, inFlight>>
         \/ /\ Registered(o) /\ ~ LastChunk(t)
            /\ Arm(rest, o, t.ms - Chunk(t.ms), slept, objects[o].lastSlept)
            /\ UNCHANGED inFlight
         \/ /\ Registered(o) /\ LastChunk(t) /\ objects[o].name \in Awaits
            /\ timers' = rest
            /\ objects' = [objects EXCEPT ![o].lastSlept = slept]
            /\ inFlight' = [inFlight EXCEPT ![o] = @ + 1]
         \/ /\ Registered(o) /\ LastChunk(t) /\ objects[o].name \notin Awaits
            /\ Arm(rest, o, objects[o].interval, 0, slept)
            /\ UNCHANGED inFlight
      /\ UNCHANGED <<schedules, isRunning>>

-----------------------------------------------------------------------------
Init ==
  /\ schedules = [n \in {} |-> n] /\ objects = << >>
  /\ isRunning = FALSE
  /\ timers = {} /\ inFlight = << >>

Settles(o) == o \in DOMAIN objects /\ HandlerSettles(o)
Fires(o, id) == \E t \in timers : t.obj = o /\ t.id = id /\ TimerFires(t)

Next ==
  \/ \E name \in Names : CancelSchedule(name) \/ \E expr \in Exprs : Schedule(name, expr)
  \/ Start \/ Stop \/ Close
  \/ \E o \in 1..MaxSchedules : Settles(o) \/ \E id \in 1..(MaxChains + 2) : Fires(o, id)

Spec == Init /\ [][Next]_vars

(* Armed timers fire, and handlers settle: those of services/index.js only  *)
(* call queue.add().                                                       *)
Fairness ==
  \A o \in 1..MaxSchedules :
    WF_vars(Settles(o)) /\ \A id \in 1..(MaxChains + 2) : WF_vars(Fires(o, id))

LiveSpec == Spec /\ Fairness

-----------------------------------------------------------------------------
(* Properties *)

TimerIds == 0..(MaxChains + 2)

(* Every variable stays within the values the code can give it. *)
TypeOK ==
  /\ DOMAIN schedules \subseteq Names
  /\ \A n \in DOMAIN schedules : schedules[n] \in DOMAIN objects
                                 /\ objects[schedules[n]].name = n
  /\ Len(objects) <= MaxSchedules /\ Len(inFlight) = Len(objects)
  /\ \A o \in DOMAIN objects :
       /\ objects[o].name \in Names /\ objects[o].interval \in Nat \ {0}
       /\ objects[o].intervalId \in TimerIds /\ objects[o].lastSlept \in Nat
       /\ inFlight[o] \in 0..MaxChains
  /\ isRunning \in BOOLEAN
  /\ \A t \in timers : /\ t.obj \in DOMAIN objects /\ t.id \in TimerIds \ {NoTimer}
                       /\ t.ms \in 1..objects[t.obj].interval /\ t.slept \in Nat

(* No schedule is compressed into a hot loop: before every run its chain    *)
(* slept the whole interval, no chunk cut short by Node's clamp and none    *)
(* skipped.  (A run is where lastSlept is set.)                            *)
RunsAreSpaced ==
  \A o \in DOMAIN objects : objects[o].lastSlept \in {0, objects[o].interval}

(* No schedule dies: while the scheduler runs, each one has a timer armed or *)
(* a handler in flight, through every stop, start and failing handler.     *)
RunningSchedulesHaveAChain ==
  isRunning => \A o \in Live : Chains(o) >= 1

(* Schedules whose handler settles at once, as those of services/index.js, *)
(* have one chain while the scheduler runs and none when it is stopped.     *)
PromptSchedulesHaveOneChain ==
  \A n \in Names \ Awaits :
    LET chains == {t \in timers : objects[t.obj].name = n}
    IN  Cardinality(chains) = IF isRunning /\ n \in DOMAIN schedules THEN 1 ELSE 0

RunOf(name) ==
  \E t \in timers : /\ objects[t.obj].name = name /\ Registered(t.obj) /\ LastChunk(t)
                    /\ TimerFires(t)

(* A schedule left alone in a running scheduler runs again and again, even   *)
(* when its handler fails every time.                                      *)
SchedulesKeepRunning ==
  \A name \in Names :
    <>[](isRunning /\ name \in DOMAIN schedules) => []<><<RunOf(name)>>_vars

(* scheduler.js:246-248: "Chaining guarantees no overlapping runs: the next  *)
(* tick is scheduled only after the previous handler settles".  Not so when *)
(* the schedule is made again, or the scheduler started, during a run: the  *)
(* old chain finds its name registered and goes on.                        *)
NoOverlappingRuns ==
  \A name \in Names :
    \A o, p \in DOMAIN objects :
      /\ objects[o].name = name /\ objects[p].name = name /\ o # p
           => inFlight[o] = 0 \/ inFlight[p] = 0
      /\ inFlight[o] <= 1
=============================================================================
