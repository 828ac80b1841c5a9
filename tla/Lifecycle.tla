----------------------------- MODULE Lifecycle -----------------------------
(***************************************************************************)
(* The life of the process (index.js, server.js, services/index.js): the   *)
(* start of the services and of the HTTP server, the readiness probe, and  *)
(* gracefulShutdown() with its three bounded waits, its hanging one and    *)
(* the timer that ends it all.  A signal starts one shutdown at most; an   *)
(* uncaught exception starts another beside it (server.js:183).            *)
(*                                                                         *)
(* An action is one callback of the event loop with the promises it        *)
(* settles.  Time is counted in seconds; a timer that is due fires before  *)
(* time goes on.  Each service is reduced to the phase it is in: JobQueue, *)
(* Scheduler and Cache model what happens inside.                          *)
(***************************************************************************)
EXTENDS Naturals

CONSTANTS
  ShutdownTimeout,   \* config.shutdownTimeoutMs
  QueueDrain,        \* CLOSE_DRAIN_TIMEOUT_MS
  TracingTimeout,    \* the default of shutdownTracing()
  Shutdowns          \* the calls of gracefulShutdown() that get past its guard

(* Mutant of HttpBound: half of the whole window. *)
HttpBoundHalf == ShutdownTimeout \div 2

(* server.js:141 *)
HttpBound == IF ShutdownTimeout \div 2 < 2 THEN ShutdownTimeout \div 2 ELSE 2

(***************************************************************************)
(* As configured by default (10 s against 2 s and 5 s), the bounded waits  *)
(* before the queue is closed end before the process is forced to.         *)
(***************************************************************************)
ASSUME TimesAreOrdered ==
  /\ ShutdownTimeout \in Nat /\ QueueDrain \in Nat /\ TracingTimeout \in Nat
  /\ 2 + QueueDrain < ShutdownTimeout

VARIABLES
  started,         \* startServer() is past its await of the cache
  cache,           \* services.cache: "null", "up", "down" (unreachable), "quit"
  queue,           \* services.queue: "null", "running", "stopped", "closed"
  scheduler,       \* services.scheduler: "null", "running", "closed"
  websocket,       \* services.websocket: "null", "up", "closed"
  server,          \* "null", "listening", "closed" to new connections
  app,             \* settings of the application: io, shuttingDown
  isShuttingDown,
  pc,              \* what each shutdown waits for
  timer,           \* seconds left of that wait
  force,           \* seconds left until the forced exit it armed
  jobs,            \* jobs in flight: 0 or 1
  requests,        \* HTTP requests in flight: 0 or 1
  sockets,         \* other open connections: "idle" (keep-alive), "io"
  exit,            \* "no", "done" (0), "forced" (1) or "failed" (1)
  overran,         \* history: the waits some shutdown gave up, "http", "queue"
  late             \* history: startServer() went on after a shutdown began

services == <<cache, queue, scheduler, websocket>>
shutdown == <<isShuttingDown, pc, timer, force, overran>>
load == <<jobs, requests, sockets>>
vars == <<started, services, server, app, shutdown, load, exit, late>>

Init ==
  /\ started = FALSE /\ server = "null" /\ exit = "no" /\ late = FALSE
  /\ cache = "null" /\ queue = "null" /\ scheduler = "null" /\ websocket = "null"
  /\ app = [io |-> FALSE, shuttingDown |-> FALSE]
  /\ isShuttingDown = FALSE /\ overran = {}
  /\ pc = [k \in Shutdowns |-> "idle"]
  /\ timer = [k \in Shutdowns |-> 0] /\ force = [k \in Shutdowns |-> 0]
  /\ jobs = 0 /\ requests = 0 /\ sockets = {}

(***************************************************************************)
(* initServices(), from the cache's answer on: handlers and schedules are  *)
(* registered and started, and the gateway is wired if the application     *)
(* has a socket server.                                                    *)
(***************************************************************************)
InitServices ==
  /\ cache' = "up" /\ queue' = "running" /\ scheduler' = "running"
  /\ websocket' = IF app.io THEN "up" ELSE "null"

(***************************************************************************)
(* The rest of startServer().  It never asks whether a shutdown began.     *)
(***************************************************************************)
StartServer ==
  /\ ~started
  /\ started' = TRUE
  /\ InitServices
  /\ app' = [app EXCEPT !.io = TRUE]
  /\ late' = \E k \in Shutdowns : pc[k] # "idle"
  /\ \/ server' = "listening" /\ UNCHANGED exit
     \/ server' = "closed" /\ exit' = "failed"      \* the port is in use
  /\ UNCHANGED <<shutdown, load>>

-----------------------------------------------------------------------------
(* The shutdown. *)

Waits(k, what, seconds) ==
  /\ pc' = [pc EXCEPT ![k] = what]
  /\ timer' = [timer EXCEPT ![k] = seconds]

(* Mutant of TearDown: the cache is shut down first. *)
TearDownCacheFirst(k) ==
  /\ websocket' = IF websocket = "up" THEN "closed" ELSE websocket
  /\ scheduler' = IF scheduler = "null" THEN "null" ELSE "closed"
  /\ queue' = IF queue = "running" THEN "stopped" ELSE queue
  /\ cache' = IF cache = "null" THEN "null" ELSE "quit"
  /\ IF queue = "null"
       THEN Waits(k, "tracing", TracingTimeout)
       ELSE Waits(k, "queue", QueueDrain)

(***************************************************************************)
(* stopRetentionSweeper() and shutdownServices() up to the wait of the     *)
(* queue for its jobs: the gateway and the scheduler close, the queue      *)
(* stops.  Services that are not there are skipped.                        *)
(***************************************************************************)
TearDown(k) ==
  /\ websocket' = IF websocket = "up" THEN "closed" ELSE websocket
  /\ scheduler' = IF scheduler = "null" THEN "null" ELSE "closed"
  /\ queue' = IF queue = "running" THEN "stopped" ELSE queue
  /\ IF queue = "null"
       THEN Waits(k, "tracing", TracingTimeout)
       ELSE Waits(k, "queue", QueueDrain)
  /\ UNCHANGED cache

(* Mutant of Shutdown: the readiness probe is not told. *)
ShutdownUnannounced(k) ==
  /\ pc[k] = "idle"
  /\ isShuttingDown' = TRUE
  /\ force' = [force EXCEPT ![k] = ShutdownTimeout]
  /\ IF server = "null"
       THEN TearDown(k) /\ UNCHANGED <<server, sockets>>
       ELSE /\ server' = "closed"
            /\ sockets' = sockets \ {"idle"}
            /\ Waits(k, "http", HttpBound)
            /\ UNCHANGED services
  /\ UNCHANGED <<started, app, jobs, requests, exit, late, overran>>

(***************************************************************************)
(* armForceExit(), the flag of the probe, and server.close(), which ends   *)
(* the idle connections.                                                   *)
(***************************************************************************)
Shutdown(k) ==
  /\ pc[k] = "idle"
  /\ isShuttingDown' = TRUE
  /\ app' = [app EXCEPT !.shuttingDown = TRUE]
  /\ force' = [force EXCEPT ![k] = ShutdownTimeout]
  /\ IF server = "null"
       THEN TearDown(k) /\ UNCHANGED <<server, sockets>>
       ELSE /\ server' = "closed"
            /\ sockets' = sockets \ {"idle"}
            /\ Waits(k, "http", HttpBound)
            /\ UNCHANGED services
  /\ UNCHANGED <<started, jobs, requests, exit, late, overran>>

Signal(k) == ~isShuttingDown /\ Shutdown(k)

(***************************************************************************)
(* uncaughtException: isShuttingDown is reset first, so that the guard     *)
(* lets a second shutdown in.                                              *)
(***************************************************************************)
Exception(k) == Shutdown(k)

(***************************************************************************)
(* The wait for the connections to close, or its bound.                    *)
(***************************************************************************)
HttpClosed(k) ==
  /\ pc[k] = "http"
  /\ \/ requests = 0 /\ sockets = {} /\ UNCHANGED overran
     \/ /\ requests > 0 \/ sockets # {}
        /\ timer[k] = 0
        /\ overran' = overran \union {"http"}
  /\ TearDown(k)
  /\ UNCHANGED <<started, server, app, isShuttingDown, force, load, exit, late>>

(***************************************************************************)
(* The wait for the jobs, or its bound; then memory is cleared and QUIT is *)
(* sent to the cache.                                                      *)
(***************************************************************************)
CloseQueue(k) ==
  /\ pc[k] = "queue"
  /\ \/ jobs = 0 /\ UNCHANGED overran
     \/ jobs > 0 /\ timer[k] = 0 /\ overran' = overran \union {"queue"}
  /\ queue' = "closed"
  /\ cache' = "quit"
  /\ Waits(k, "cache", 0)
  /\ UNCHANGED <<started, scheduler, websocket, server, app, isShuttingDown, force,
                 load, exit, late>>

(***************************************************************************)
(* quit() settles, with a reply or an error, or hangs with the connection. *)
(***************************************************************************)
CacheQuit(k) ==
  /\ pc[k] = "cache"
  /\ Waits(k, "tracing", TracingTimeout)
  /\ UNCHANGED <<started, services, server, app, isShuttingDown, force, overran,
                 load, exit, late>>

Exits(how) ==
  /\ exit' = how
  /\ UNCHANGED <<started, services, server, app, shutdown, load, late>>

TracingFlushed(k) == pc[k] = "tracing" /\ Exits("done")

TracingGivenUp(k) == pc[k] = "tracing" /\ timer[k] = 0 /\ Exits("done")

(* Mutant of ForceExit: the timer is cleared once the services are closed. *)
ForceExitDisarmed(k) == pc[k] \in {"http", "queue"} /\ force[k] = 0 /\ Exits("forced")

ForceExit(k) == pc[k] # "idle" /\ force[k] = 0 /\ Exits("forced")

Timed == {"http", "queue", "tracing"}

(***************************************************************************)
(* A second goes by, unless a timer is due.                                *)
(***************************************************************************)
Tick ==
  LET shutting == {k \in Shutdowns : pc[k] # "idle"}
      waiting == {k \in Shutdowns : pc[k] \in Timed} IN
  /\ shutting # {}
  /\ \A k \in shutting : force[k] > 0
  /\ \A k \in waiting : timer[k] > 0
  /\ timer' = [k \in Shutdowns |-> IF k \in waiting THEN timer[k] - 1 ELSE timer[k]]
  /\ force' = [k \in Shutdowns |-> IF k \in shutting THEN force[k] - 1 ELSE force[k]]
  /\ UNCHANGED <<started, services, server, app, isShuttingDown, pc, overran,
                 load, exit, late>>

-----------------------------------------------------------------------------
(* What the process serves. *)

JobStarts ==
  /\ queue = "running" /\ jobs = 0
  /\ jobs' = 1
  /\ UNCHANGED <<requests, sockets>>

JobEnds ==
  /\ jobs = 1
  /\ jobs' = 0
  /\ UNCHANGED <<requests, sockets>>

(***************************************************************************)
(* A connection that was busy when the server closed may carry one more    *)
(* request.                                                                *)
(***************************************************************************)
RequestArrives ==
  /\ requests = 0
  /\ server = "listening" \/ "idle" \in sockets
  /\ requests' = 1
  /\ sockets' = sockets \ {"idle"}
  /\ UNCHANGED jobs

RequestEnds ==
  /\ requests = 1
  /\ requests' = 0
  /\ sockets' \in {sockets, sockets \union {"idle"}}
  /\ UNCHANGED jobs

ClientConnects ==
  /\ server = "listening"
  /\ sockets' = sockets \union {"io"}
  /\ UNCHANGED <<jobs, requests>>

ConnectionEnds ==
  /\ \E s \in sockets : sockets' = sockets \ {s}
  /\ UNCHANGED <<jobs, requests>>

Serves ==
  /\ \/ JobStarts \/ JobEnds \/ RequestArrives \/ RequestEnds
     \/ ClientConnects \/ ConnectionEnds
  /\ UNCHANGED <<started, services, server, app, shutdown, exit, late>>

(***************************************************************************)
(* The link to Redis breaks without a fallback yet, and comes back.        *)
(***************************************************************************)
CacheLinkChanges ==
  /\ \/ cache = "up" /\ cache' = "down"
     \/ cache = "down" /\ cache' = "up"
  /\ UNCHANGED <<started, queue, scheduler, websocket, server, app, shutdown, load,
                 exit, late>>

ShutdownStep(k) ==
  \/ Signal(k) \/ Exception(k) \/ HttpClosed(k) \/ CloseQueue(k) \/ CacheQuit(k)
  \/ TracingFlushed(k) \/ TracingGivenUp(k) \/ ForceExit(k)

(***************************************************************************)
(* After exit nothing runs any more.                                       *)
(***************************************************************************)
Next ==
  /\ exit = "no"
  /\ \/ StartServer \/ Serves \/ CacheLinkChanges \/ Tick
     \/ \E k \in Shutdowns : ShutdownStep(k)

Spec == Init /\ [][Next]_vars

(***************************************************************************)
(* Timers fire, and callbacks that are ready run.  Nothing makes a client, *)
(* a job, Redis or the exporter answer.                                    *)
(***************************************************************************)
Fairness ==
  /\ WF_vars(exit = "no" /\ Tick)
  /\ \A k \in Shutdowns :
       WF_vars(exit = "no" /\ (HttpClosed(k) \/ CloseQueue(k) \/ TracingGivenUp(k) \/ ForceExit(k)))

LiveSpec == Spec /\ Fairness

-----------------------------------------------------------------------------
(***************************************************************************)
(* A service is taken down after what uses it.  When QUIT is sent to the   *)
(* cache, queue and scheduler are closed; the queue is cleared with a job  *)
(* in flight only when its bound ran out, and background work stops under  *)
(* an open request only when that of the HTTP server did: also with a      *)
(* second shutdown beside the first, and a start that comes late.          *)
(***************************************************************************)
ServicesOutliveTheirUsers ==
  /\ cache = "quit" => queue = "closed" /\ scheduler = "closed"
  /\ queue = "closed" /\ jobs > 0 => "queue" \in overran
  /\ scheduler = "closed" /\ requests > 0 => "http" \in overran

(***************************************************************************)
(* Forced or not, the exit of a server that was up finds its queue closed, *)
(* and its scheduler: the bounds of the drains, together, end before the   *)
(* force timer.  A start that goes on beside its own shutdown is the       *)
(* exception: see GracefulExitsLeaveNothingOpen.                           *)
(***************************************************************************)
ExitsFindAClosedQueue ==
  exit \in {"done", "forced"} /\ started /\ ~late =>
    queue = "closed" /\ scheduler = "closed"

(***************************************************************************)
(* server.js:139: the teardown is "safe even if init never completed".     *)
(* Then an exit(0) leaves no service open.  But an init that completes     *)
(* after the teardown looked brings up what nothing closes.                *)
(***************************************************************************)
GracefulExitsLeaveNothingOpen ==
  exit = "done" => {queue, scheduler} \subseteq {"null", "closed"}

(***************************************************************************)
(* GET /health/ready answers 200.                                          *)
(***************************************************************************)
Ready ==
  /\ ~app.shuttingDown
  /\ scheduler # "null" \/ queue # "null"
  /\ cache # "down"

(***************************************************************************)
(* An instance that calls itself ready accepts connections and runs jobs   *)
(* and schedules over a cache that is there; in particular it stops        *)
(* calling itself ready no later than the first of them stops.             *)
(***************************************************************************)
ReadyMeansServing ==
  exit = "no" /\ Ready =>
    /\ server = "listening"
    /\ queue = "running" /\ scheduler = "running"
    /\ cache = "up"

(***************************************************************************)
(* A shutdown ends the process, whoever hangs: connections, jobs, Redis or *)
(* the exporter of traces.                                                 *)
(***************************************************************************)
ShutdownEnds == isShuttingDown ~> exit # "no"

(***************************************************************************)
(* aggregator.js:158: new readings are broadcast to real-time subscribers. *)
(* While clients are connected, the gateway must be there to do it.        *)
(***************************************************************************)
ClientsHaveAGateway == exit = "no" /\ "io" \in sockets => websocket # "null"
=============================================================================
