------------------------------ MODULE JobQueue ------------------------------
(***************************************************************************)
(* The background job queue of the EquipChain backend:                     *)
(* src/src/services/queue.js (class JobQueue), with the calls that          *)
(* services/index.js and server.js make on it over the life of a process.  *)
(*                                                                         *)
(* Node.js runs a callback to its end before it starts another, so every   *)
(* method, timer callback and promise continuation of the class is one     *)
(* action.  What interleaves is the order of those callbacks: API calls,   *)
(* delay and backoff timers, the settling of handlers, the debounced       *)
(* snapshot, shutdown, and the death and restart of the process.           *)
(*                                                                         *)
(* Jobs are numbered in the order in which add() created them, which is    *)
(* also the insertion order of the Map the code keeps them in.             *)
(***************************************************************************)
EXTENDS Integers, Sequences, FiniteSets, SequencesExt

CONSTANTS
  JobConcurrency,    \* JOB_CONCURRENCY: slots
  JobRetryAttempts,  \* JOB_RETRY_ATTEMPTS: maxAttempts of every job
  JobHistoryLimit,   \* JOB_HISTORY_LIMIT: jobs kept before terminal ones are evicted
  QueueMaxDepth,     \* QUEUE_MAX_DEPTH: add() refuses when queuedJobs is this long
  Persistent,        \* whether QUEUE_PERSIST_PATH is set
  Types,             \* job types that producers use
  Handled,           \* types that initQueue() registers a handler for
  Timed,             \* types whose jobs have timeoutMs > 0
  Priorities,        \* the numeric priorities (higher runs first)
  Reclose,           \* whether an uncaught exception may re-enter the shutdown
  MaxJobs            \* bound: number of jobs ever added

ASSUME JobQueueAssumption ==
  /\ JobConcurrency \in Nat \ {0}
  /\ JobRetryAttempts \in Nat \ {0}
  /\ JobHistoryLimit \in Nat
  /\ QueueMaxDepth \in Nat
  /\ Persistent \in BOOLEAN
  /\ Handled \subseteq Types
  /\ Priorities \subseteq Int
  /\ Reclose \in BOOLEAN
  /\ MaxJobs \in Nat

VARIABLES
  phase,         \* of the process: "down", "up", "closing", "closed", "reclosing"
  jobs,          \* this.jobs: job id -> job, in memory
  queuedJobs,    \* this.queuedJobs
  activeCount,   \* this.activeCount
  isProcessing,  \* this.isProcessing
  handlers,      \* domain of this.handlers
  executing,     \* jobs with an _executeJob() continuation still to run
  timers,        \* jobs with an armed delay or backoff timer
  persistTimer,  \* this._persistTimer # null
  persistFailed, \* history: the last _persistNow() of this process threw (and was
                 \* logged), and nothing that it was to save has changed since
  file,          \* the snapshot at persistPath (a missing file reads as an empty one)
  notDue,        \* jobs whose runAt is still in the future (the clock)
  nextId         \* id of the next job

memory == <<jobs, queuedJobs, activeCount, isProcessing, handlers, executing,
            timers, persistTimer, persistFailed>>
vars == <<phase, memory, file, notDue, nextId>>

JobIds == 1..MaxJobs
Terminal == {"completed", "failed", "cancelled"}
Status == {"queued", "running"} \cup Terminal
Job == [type : Types, priority : Priorities, status : Status,
        attempts : 0..JobRetryAttempts]

NoJobs == [id \in {} |-> id]
EmptySnapshot == [jobs |-> NoJobs, queueOrder |-> << >>]

(* The process exists; only the snapshot file and the clock outlive it. *)
Alive == phase # "down"

-----------------------------------------------------------------------------
(* Helpers on the job map js and the queue q                               *)

InStatus(js, s) == {id \in DOMAIN js : js[id].status = s}

WithStatus(js, S, s) ==
  [id \in DOMAIN js |-> IF id \in S THEN [js[id] EXCEPT !.status = s] ELSE js[id]]

TerminalJobs(js) == {id \in DOMAIN js : js[id].status \in Terminal}

(* Mutant of Evict: the oldest jobs go, whatever their status. *)
EvictOldest(js) ==
  LET excess == Cardinality(DOMAIN js) - JobHistoryLimit
  IN  [id \in {j \in DOMAIN js : Cardinality({k \in DOMAIN js : k < j}) >= excess} |-> js[id]]

(* Drop the oldest terminal jobs while more than JobHistoryLimit are kept. *)
Evict(js) ==
  LET excess == Cardinality(DOMAIN js) - JobHistoryLimit
      victims == {id \in TerminalJobs(js) :
                    Cardinality({t \in TerminalJobs(js) : t < id}) < excess}
  IN  [id \in DOMAIN js \ victims |-> js[id]]

Outranks(js, a, b) == b \in DOMAIN js /\ js[a].priority > js[b].priority

(* Mutant of InsertionPoint: priorities are ignored. *)
InsertionPointAtTail(js, q, id, i) == i = Len(q) + 1

(* i is where _enqueue() inserts id: before the first job it outranks. *)
InsertionPoint(js, q, id, i) ==
  /\ \A k \in 1..(i - 1) : ~ Outranks(js, id, q[k])
  /\ i <= Len(q) => Outranks(js, id, q[i])

(* Jobs among the first n of q that the drain loop starts, and those it    *)
(* fails because their type has no handler; other entries are skipped.     *)
Startable(js, q, n) ==
  {id \in InStatus(js, "queued") : js[id].type \in handlers /\ \E k \in 1..n : q[k] = id}
Unhandled(js, q, n) ==
  {id \in InStatus(js, "queued") : js[id].type \notin handlers /\ \E k \in 1..n : q[k] = id}

(* The drain loop, entered with `active` slots taken, leaves after n shifts. *)
DrainStops(js, q, active, n) ==
  /\ \A m \in 0..(n - 1) : active + Cardinality(Startable(js, q, m)) < JobConcurrency
  /\ \/ n = Len(q)
     \/ active + Cardinality(Startable(js, q, n)) >= JobConcurrency

(* The lists of the elements of S, a set of numbers, in increasing order. *)
InOrder(S) ==
  {e \in [1..Cardinality(S) -> S] :
     /\ \A i, j \in 1..Cardinality(S) : i < j => e[i] < e[j]
     /\ \A x \in S : \E i \in 1..Cardinality(S) : e[i] = x}

(* Mutant of Recovered: interrupted jobs are dropped. *)
RecoveredDropsRunning(js) == [id \in DOMAIN js \ InStatus(js, "running") |-> js[id]]

(* What _loadPersisted() makes of the saved jobs: interrupted runs queue again. *)
Recovered(js) == WithStatus(js, InStatus(js, "running"), "queued")

(* The places of the saved order it keeps, for recovered jobs js. *)
KeptPlaces(js) ==
  {i \in 1..Len(file.queueOrder) : file.queueOrder[i] \in InStatus(js, "queued")}

(* Mutant of Unlisted: only delayed jobs are looked for outside the saved order. *)
UnlistedDelayed(js) ==
  (InStatus(js, "queued") \cap notDue) \ {file.queueOrder[i] : i \in KeptPlaces(js)}

(* Queued jobs the saved order misses: delayed, backing off, or interrupted. *)
Unlisted(js) == InStatus(js, "queued") \ {file.queueOrder[i] : i \in KeptPlaces(js)}

Snapshot == [jobs |-> jobs, queueOrder |-> queuedJobs]

(* A failed write is made up for by the next one, which the next change of   *)
(* what it was to save has to ask for.                                     *)
OnlyChangesSupersede ==
  persistFailed' = (persistFailed /\ Recovered(jobs') = Recovered(jobs))

-----------------------------------------------------------------------------
(* _process() and _executeJob() up to the handler's first await, run at    *)
(* the end of most handlers on the state they leave behind.                *)
Process(js, q, exec, active, processing, armed) ==
  \E n \in 0..Len(q) :
    /\ IF processing THEN DrainStops(js, q, active, n) ELSE n = 0
    /\ LET started == Startable(js, q, n)
           orphans == Unhandled(js, q, n)
       IN  /\ jobs' = WithStatus(WithStatus(js, started, "running"), orphans, "failed")
           /\ queuedJobs' = SubSeq(q, n + 1, Len(q))
           /\ executing' = exec \cup started
           /\ activeCount' = active + Cardinality(started)
           /\ persistTimer' = (armed \/ (Persistent /\ started \cup orphans # {}))

(* _enqueue(): insert by priority, then process. *)
Enqueue(js, id, armed) ==
  IF id \in InStatus(js, "queued")
  THEN \E i \in 1..(Len(queuedJobs) + 1) :
         /\ InsertionPoint(js, queuedJobs, id, i)
         /\ Process(js, InsertAt(queuedJobs, i, id), executing, activeCount,
                    isProcessing, armed)
  ELSE /\ jobs' = js /\ persistTimer' = armed
       /\ UNCHANGED <<queuedJobs, executing, activeCount>>

-----------------------------------------------------------------------------
(* Producers                                                               *)

Added(type, priority) ==
  [id \in DOMAIN jobs \cup {nextId} |->
     IF id = nextId
     THEN [type |-> type, priority |-> priority, status |-> "queued", attempts |-> 0]
     ELSE jobs[id]]

(* add(): refused at the depth cap; otherwise the job is stored and either *)
(* enqueued at once or left to a delay timer.  The producers are ticks of  *)
(* the scheduler, which is closed before the queue: no add after close().  *)
CanAdd == /\ phase \in {"up", "closing"}
          /\ nextId <= MaxJobs
          /\ Len(queuedJobs) < QueueMaxDepth
          /\ nextId' = nextId + 1
          /\ UNCHANGED <<phase, isProcessing, handlers, file>>

Add(type, priority) ==
  /\ CanAdd
  /\ Enqueue(Added(type, priority), nextId, Persistent)
  /\ OnlyChangesSupersede
  /\ UNCHANGED <<timers, notDue>>

AddDelayed(type, priority) ==
  /\ CanAdd
  /\ jobs' = Added(type, priority)
  /\ timers' = timers \cup {nextId}
  /\ notDue' = notDue \cup {nextId}
  /\ persistTimer' = Persistent
  /\ OnlyChangesSupersede
  /\ UNCHANGED <<queuedJobs, activeCount, executing>>

(* Mutant of Cancel: the job keeps its place in queuedJobs. *)
CancelKeepsPlace(id) ==
  /\ Alive
  /\ id \in DOMAIN jobs /\ jobs[id].status # "running"
  /\ jobs' = WithStatus(jobs, {id}, "cancelled")
  /\ persistTimer' = Persistent
  /\ OnlyChangesSupersede
  /\ UNCHANGED <<phase, queuedJobs, activeCount, isProcessing, handlers, executing,
                 timers, file, notDue, nextId>>

(* cancel(): anything that is not running becomes cancelled. *)
Cancel(id) ==
  /\ Alive
  /\ id \in DOMAIN jobs /\ jobs[id].status # "running"
  /\ jobs' = WithStatus(jobs, {id}, "cancelled")
  /\ \/ /\ \A k \in 1..Len(queuedJobs) : queuedJobs[k] # id
        /\ UNCHANGED queuedJobs
     \/ \E k \in 1..Len(queuedJobs) :
          /\ queuedJobs[k] = id /\ \A m \in 1..(k - 1) : queuedJobs[m] # id
          /\ queuedJobs' = RemoveAt(queuedJobs, k)
  /\ persistTimer' = Persistent
  /\ OnlyChangesSupersede
  /\ UNCHANGED <<phase, activeCount, isProcessing, handlers, executing, timers,
                 file, notDue, nextId>>

-----------------------------------------------------------------------------
(* Timers and handlers                                                     *)

(* A delay or backoff timer fires: _enqueue(), which ignores the job when  *)
(* it was cancelled, evicted or cleared in the meantime.                   *)
TimerFires(id) ==
  /\ Alive
  /\ id \in timers
  /\ timers' = timers \ {id}
  /\ notDue' = notDue \ {id}
  /\ Enqueue(jobs, id, persistTimer)
  /\ OnlyChangesSupersede
  /\ UNCHANGED <<phase, isProcessing, handlers, file, nextId>>

(* Mutants of Settle: the slot is not given back; the next jobs are not     *)
(* started; the change is not persisted.                                   *)
SettleLeaksSlot(id, js) ==
  /\ Process(js, queuedJobs, executing \ {id}, activeCount, isProcessing, Persistent)
  /\ OnlyChangesSupersede
  /\ UNCHANGED <<phase, isProcessing, handlers, file, notDue, nextId>>
SettleWithoutProcess(id, js) ==
  /\ Process(js, queuedJobs, executing \ {id}, activeCount - 1, FALSE, Persistent)
  /\ OnlyChangesSupersede
  /\ UNCHANGED <<phase, isProcessing, handlers, file, notDue, nextId>>
SettleUnpersisted(id, js) ==
  /\ Process(js, queuedJobs, executing \ {id}, activeCount - 1, isProcessing, persistTimer)
  /\ OnlyChangesSupersede
  /\ UNCHANGED <<phase, isProcessing, handlers, file, notDue, nextId>>

(* The continuation of _executeJob() for job id, leaving jobs as js. *)
Settle(id, js) ==
  /\ Process(js, queuedJobs, executing \ {id}, activeCount - 1, isProcessing, Persistent)
  /\ OnlyChangesSupersede
  /\ UNCHANGED <<phase, isProcessing, handlers, file, notDue, nextId>>

Complete(id) ==
  /\ id \in executing \cap DOMAIN jobs
  /\ Settle(id, Evict(WithStatus(jobs, {id}, "completed")))
  /\ UNCHANGED timers

(* The job map after an attempt of id was spent, with its new status. *)
Attempted(id, status) ==
  [jobs EXCEPT ![id].attempts = @ + 1, ![id].status = status]

(* Mutant of FailAttempt: one retry too many. *)
FailAttemptOffByOne(id) ==
  /\ id \in executing \cap DOMAIN jobs
  /\ \/ /\ jobs[id].attempts < JobRetryAttempts
        /\ Settle(id, Attempted(id, "queued"))
        /\ timers' = timers \cup {id}
     \/ /\ jobs[id].attempts >= JobRetryAttempts
        /\ Settle(id, Evict(Attempted(id, "failed")))
        /\ UNCHANGED timers

(* The handler rejected or ran out of time: back off, or give up. *)
FailAttempt(id) ==
  /\ id \in executing \cap DOMAIN jobs
  /\ \/ /\ jobs[id].attempts + 1 < JobRetryAttempts
        /\ Settle(id, Attempted(id, "queued"))
        /\ timers' = timers \cup {id}
     \/ /\ jobs[id].attempts + 1 >= JobRetryAttempts
        /\ Settle(id, Evict(Attempted(id, "failed")))
        /\ UNCHANGED timers

Reject(id) == FailAttempt(id)

(* The per-job budget of _runWithTimeout() wins the race with the handler. *)
Timeout(id) ==
  /\ id \in executing \cap DOMAIN jobs /\ jobs[id].type \in Timed
  /\ FailAttempt(id)

(* A handler that outlived close() settles: its job is no longer in the    *)
(* cleared map, but the continuation still runs to its end, and for a      *)
(* retry it arms a timer.                                                  *)
SettleAfterClose(id) ==
  /\ id \in executing \ DOMAIN jobs
  /\ \/ UNCHANGED timers
     \/ timers' = timers \cup {id}
  /\ executing' = executing \ {id}
  /\ activeCount' = activeCount - 1
  /\ persistTimer' = Persistent
  /\ UNCHANGED <<phase, jobs, queuedJobs, isProcessing, handlers, persistFailed,
                 file, notDue, nextId>>

-----------------------------------------------------------------------------
(* Snapshots and the life of the process                                   *)

(* _persistNow(): the write of temp file and rename succeeds or is logged. *)
PersistNow ==
  IF Persistent
  THEN \/ file' = Snapshot /\ persistFailed' = FALSE
       \/ persistFailed' = TRUE /\ UNCHANGED file
  ELSE UNCHANGED <<file, persistFailed>>

PersistFlush ==
  /\ Alive
  /\ persistTimer
  /\ persistTimer' = FALSE
  /\ PersistNow
  /\ UNCHANGED <<phase, jobs, queuedJobs, activeCount, isProcessing, handlers,
                 executing, timers, notDue, nextId>>

(* start(): a no-op while processing; otherwise drain what is queued.      *)
(* initQueue() calls it in the same run as the registrations.              *)
Start ==
  /\ phase = "up" /\ ~ isProcessing /\ handlers = Handled
  /\ isProcessing' = TRUE
  /\ Process(jobs, queuedJobs, executing, activeCount, TRUE, persistTimer)
  /\ OnlyChangesSupersede
  /\ UNCHANGED <<phase, handlers, timers, file, notDue, nextId>>

(* initQueue() of services/index.js registers every handler before start(). *)
RegisterHandlers ==
  /\ phase = "up" /\ handlers # Handled
  /\ handlers' = Handled
  /\ UNCHANGED <<phase, jobs, queuedJobs, activeCount, isProcessing, executing,
                 timers, persistTimer, persistFailed, file, notDue, nextId>>

Stop ==
  /\ phase = "up" /\ isProcessing
  /\ isProcessing' = FALSE
  /\ UNCHANGED <<phase, jobs, queuedJobs, activeCount, handlers, executing,
                 timers, persistTimer, persistFailed, file, notDue, nextId>>

(* close() up to its drain loop.  server.js calls it again when an         *)
(* uncaught exception clears isShuttingDown after a first close().         *)
CloseBegin ==
  /\ \/ phase = "up" /\ phase' = "closing"
     \/ Reclose /\ phase = "closed" /\ phase' = "reclosing"
  /\ isProcessing' = FALSE
  /\ UNCHANGED <<jobs, queuedJobs, activeCount, handlers, executing, timers,
                 persistTimer, persistFailed, file, notDue, nextId>>

(* The drain loop ends, drained or at its deadline (time is abstract, so   *)
(* the deadline may pass at any moment): last snapshot, then clear.        *)
CloseFinish ==
  /\ phase \in {"closing", "reclosing"}
  /\ phase' = "closed"
  /\ PersistNow
  /\ jobs' = NoJobs
  /\ queuedJobs' = << >>
  /\ handlers' = {}
  /\ persistTimer' = FALSE
  /\ UNCHANGED <<activeCount, isProcessing, executing, timers, notDue, nextId>>

(* The process exits after close(), is killed, or crashes, at any moment. *)
Die ==
  /\ Alive
  /\ phase' = "down"
  /\ jobs' = NoJobs /\ queuedJobs' = << >>
  /\ activeCount' = 0 /\ isProcessing' = FALSE
  /\ handlers' = {} /\ executing' = {} /\ timers' = {}
  /\ persistTimer' = FALSE /\ persistFailed' = FALSE
  /\ UNCHANGED <<file, notDue, nextId>>

(* The constructor, _loadPersisted(): interrupted jobs are queued again,   *)
(* the saved order is kept, and of the queued jobs it misses those with a  *)
(* future runAt get a timer back and the others go to the end.  Deadlines  *)
(* in `passed` went by while the process was down.                         *)
Load ==
  /\ phase = "down"
  /\ phase' = "up"
  /\ jobs' = Recovered(file.jobs)
  /\ \E passed \in SUBSET (notDue \cap DOMAIN jobs') :
       notDue' = (notDue \cap DOMAIN jobs') \ passed
  /\ timers' = Unlisted(jobs') \cap notDue'
  /\ \E kept \in InOrder(KeptPlaces(jobs')), late \in InOrder(Unlisted(jobs') \ notDue') :
       queuedJobs' = [i \in DOMAIN kept |-> file.queueOrder[kept[i]]] \o late
  /\ UNCHANGED <<activeCount, isProcessing, handlers, executing, persistTimer,
                 persistFailed, file, nextId>>

-----------------------------------------------------------------------------
Init ==
  /\ phase = "down"
  /\ jobs = NoJobs /\ queuedJobs = << >>
  /\ activeCount = 0 /\ isProcessing = FALSE
  /\ handlers = {} /\ executing = {} /\ timers = {}
  /\ persistTimer = FALSE /\ persistFailed = FALSE
  /\ file = EmptySnapshot
  /\ notDue = {} /\ nextId = 1

JobStep(id) == Cancel(id) \/ TimerFires(id) \/ Complete(id) \/ Reject(id)
               \/ Timeout(id) \/ SettleAfterClose(id)

Next ==
  \/ \E type \in Types, priority \in Priorities :
       Add(type, priority) \/ AddDelayed(type, priority)
  \/ \E id \in JobIds : JobStep(id)
  \/ PersistFlush \/ RegisterHandlers \/ Start \/ Stop
  \/ CloseBegin \/ CloseFinish \/ Die \/ Load

Spec == Init /\ [][Next]_vars

(* setTimeout fires: backoff, delay and budget timers are never lost while *)
(* the process lives.  Nothing is assumed of handlers, producers, start(), *)
(* or of how long the process lives.                                       *)
Fairness == \A id \in JobIds : WF_vars(TimerFires(id)) /\ WF_vars(Timeout(id))

LiveSpec == Spec /\ Fairness

-----------------------------------------------------------------------------
(* Invariants                                                              *)

IsJobMap(js) ==
  /\ DOMAIN js \subseteq 1..(nextId - 1)
  /\ js = [id \in DOMAIN js |-> js[id]]
  /\ \A id \in DOMAIN js : js[id] \in Job

(* Every variable stays within the values the code can give it. *)
TypeOK ==
  /\ phase \in {"down", "up", "closing", "closed", "reclosing"}
  /\ nextId \in 1..(MaxJobs + 1)
  /\ IsJobMap(jobs) /\ IsJobMap(file.jobs)
  /\ file = [jobs |-> file.jobs, queueOrder |-> file.queueOrder]
  /\ queuedJobs \in Seq(JobIds) /\ file.queueOrder \in Seq(JobIds)
  /\ activeCount \in Nat
  /\ isProcessing \in BOOLEAN /\ persistTimer \in BOOLEAN /\ persistFailed \in BOOLEAN
  /\ handlers \subseteq Handled
  /\ executing \subseteq 1..(nextId - 1)
  /\ timers \subseteq 1..(nextId - 1)
  /\ notDue \subseteq 1..(nextId - 1)

InQueue(q) == {q[i] : i \in 1..Len(q)}

(* No queued job is forgotten and none is scheduled twice: in every live   *)
(* process a job is "queued" exactly when it has one place in queuedJobs   *)
(* or an armed delay/backoff timer, never both.  Drops, double timers and  *)
(* recovery gaps all show up here.                                         *)
EveryQueuedJobIsScheduled ==
  /\ InStatus(jobs, "queued") \subseteq InQueue(queuedJobs) \cup timers
  /\ InQueue(queuedJobs) \subseteq InStatus(jobs, "queued")
  /\ InQueue(queuedJobs) \cap timers = {}
  /\ \A i, j \in 1..Len(queuedJobs) : i # j => queuedJobs[i] # queuedJobs[j]

(* The slot counter is exact and bounded: activeCount is the number of     *)
(* continuations still to run (those that outlived close() too), at most   *)
(* JobConcurrency, and the running jobs are the ones with a continuation.  *)
SlotsAreAccountedFor ==
  /\ activeCount = Cardinality(executing)
  /\ activeCount <= JobConcurrency
  /\ InStatus(jobs, "running") = executing \cap DOMAIN jobs
  /\ phase \notin {"closed", "reclosing"} => executing \subseteq DOMAIN jobs

(* While the queue processes, no slot is idle when a job waits for one:    *)
(* every path that frees a slot or queues a job drains the queue again.    *)
NoIdleSlot == isProcessing => queuedJobs = << >> \/ activeCount >= JobConcurrency

WithinAttempts(js) ==
  \A id \in DOMAIN js :
    /\ js[id].status \in {"queued", "running"} => js[id].attempts < JobRetryAttempts
    /\ js[id].status = "failed" /\ js[id].type \in Handled
         => js[id].attempts = JobRetryAttempts

(* A job that may still run has an attempt left, over all its timeouts,    *)
(* retries and restarts; a failed one has used them all, unless its type   *)
(* has no handler.                                                         *)
AttemptsAreBounded == WithinAttempts(jobs)

(* Every state of the jobs is handed to a write: when a restart would not   *)
(* bring back what memory holds, a flush is pending, or the write that was  *)
(* given just these jobs has failed.  A handler that forgets                *)
(* _schedulePersist(), or a debounce that loses a change made during a      *)
(* flush window or after a failed write, breaks this.                      *)
StaleSnapshotIsPending ==
  phase \in {"up", "closing"} /\ Persistent /\ Recovered(jobs) # Recovered(file.jobs)
    => persistTimer \/ persistFailed

(* The snapshot on disk is always one that recovery can use: its order     *)
(* names queued jobs of the snapshot, each at most once, and every job it  *)
(* holds unfinished has an attempt left.                                   *)
SnapshotIsConsistent ==
  /\ WithinAttempts(file.jobs)
  /\ InQueue(file.queueOrder) \subseteq InStatus(file.jobs, "queued")
  /\ \A i, j \in 1..Len(file.queueOrder) :
       i # j => file.queueOrder[i] # file.queueOrder[j]

-----------------------------------------------------------------------------
(* Action properties                                                       *)

(* A job is never put behind one of lower priority: a sorted queue stays so *)
(* through additions, retries, cancellations and takings in any order.      *)
(* (Only recovery puts jobs, interrupted and overdue ones, at the end        *)
(* whatever their priority.)                                               *)
InOrderOfPriority(js, queue) ==
  \A i, j \in 1..Len(queue) : i < j => js[queue[i]].priority >= js[queue[j]].priority

SortedQueuesStaySorted ==
  [][phase # "down" /\ InOrderOfPriority(jobs, queuedJobs)
       => InOrderOfPriority(jobs', queuedJobs')]_vars

(* Eviction and every other step but close() and death keep live jobs:     *)
(* "active and queued jobs are never evicted".                             *)
LiveJobsAreKept ==
  [][phase' \in {"up", "closing"} =>
       \A id \in DOMAIN jobs : id \in DOMAIN jobs' \/ jobs[id].status \in Terminal
                               \/ id \in executing \ executing']_vars

-----------------------------------------------------------------------------
(* The abstract specification                                              *)

(* What those who add and watch jobs see of one that is held. *)
Seen(job) == [status |-> job.status, attempts |-> job.attempts]
Unseen(status) == [status |-> status, attempts |-> 0]

LifeInMemory ==
  [id \in JobIds |-> IF id \in DOMAIN jobs THEN Seen(jobs[id])
                     ELSE IF id < nextId THEN Unseen("gone") ELSE Unseen("new")]
LifeOnDisk ==
  [id \in JobIds |-> IF id \in DOMAIN file.jobs THEN Seen(file.jobs[id]) ELSE Unseen("gone")]

Lifecycle == INSTANCE JobLifecycle WITH life <- LifeInMemory, saved <- LifeOnDisk

(* Whatever the order of API calls, timers, settling handlers, snapshots,   *)
(* shutdown, crashes and restarts, each job goes through the life that      *)
(* JobLifecycle allows: no attempt is spent twice or for free, no outcome   *)
(* is taken back, and a restart recovers exactly what the snapshot has.     *)
ImplementsLifecycle == Lifecycle!Spec

-----------------------------------------------------------------------------
(* Liveness                                                                *)

Pending(id) == id \in InStatus(jobs, "queued") \cup InStatus(jobs, "running")

(* No job is stuck: if from some moment on the process lives and processes, *)
(* and every job has a time budget, every job it holds reaches an outcome. *)
EveryJobEnds ==
  <>[](phase = "up" /\ isProcessing) => \A id \in JobIds : <>[]~ Pending(id)

-----------------------------------------------------------------------------
(* What a comment of the code says and the code does not do                *)

(* queue.js:551-553: close() "flushes a final snapshot BEFORE clearing      *)
(* memory so queued jobs survive a graceful restart.  Jobs still running   *)
(* at deadline are safe regardless".  But a handler that settles after the *)
(* deadline persists the cleared queue over that snapshot.                 *)
QueuedJobsSurviveClose ==
  [][phase = "closed" => InStatus(file.jobs, "queued") \subseteq DOMAIN file'.jobs]_vars

(* server.js:139: to tear down the services is "idempotent".  But a second  *)
(* close() saves the queue that the first one has cleared.                 *)
CloseIsIdempotent ==
  [][phase = "reclosing" => InStatus(file.jobs, "queued") \subseteq DOMAIN file'.jobs]_vars

(* queue.js:401-402: a job that runs has been saved, so that "if the        *)
(* process dies mid-run, recovery sees RUNNING in the file and re-queues    *)
(* the job instead of losing it".  That takes the debounce, but when no     *)
(* flush is pending any more, it should be so.  But a write that fails is   *)
(* only logged, and not tried again before the next change.                *)
RunningJobsAreSaved ==
  phase \in {"up", "closing"} /\ Persistent /\ ~ persistTimer
    => InStatus(jobs, "running") \subseteq DOMAIN file.jobs
=============================================================================
