-------------------------- MODULE LifecycleProofs --------------------------
(***************************************************************************)
(* What Lifecycle keeps for any number of shutdowns and any time limits    *)
(* that are ordered as TimesAreOrdered says.  ServicesOutliveTheirUsers    *)
(* follows from the order in which the services leave their phases;        *)
(* ExitsFindAClosedQueue from the seconds that a force timer has left      *)
(* beyond the wait it guards.                                              *)
(***************************************************************************)
EXTENDS Lifecycle, TLAPS

TypeOK ==
  /\ started \in BOOLEAN /\ late \in BOOLEAN /\ isShuttingDown \in BOOLEAN
  /\ cache \in {"null", "up", "down", "quit"}
  /\ queue \in {"null", "running", "stopped", "closed"}
  /\ scheduler \in {"null", "running", "closed"}
  /\ websocket \in {"null", "up", "closed"}
  /\ server \in {"null", "listening", "closed"}
  /\ app \in [io : BOOLEAN, shuttingDown : BOOLEAN]
  /\ pc \in [Shutdowns -> {"idle", "http", "queue", "cache", "tracing"}]
  /\ timer \in [Shutdowns -> Nat] /\ force \in [Shutdowns -> Nat]
  /\ jobs \in 0..1 /\ requests \in 0..1
  /\ sockets \subseteq {"idle", "io"} /\ overran \subseteq {"http", "queue"}
  /\ exit \in {"no", "done", "forced", "failed"}

(***************************************************************************)
(* Nothing is there before the start, everything after it; and everything  *)
(* runs until a shutdown begins.                                           *)
(***************************************************************************)
StartedAtOnce ==
  /\ started = (cache # "null") /\ started = (queue # "null")
  /\ started = (scheduler # "null") /\ started = (server # "null")

RunsUntilShutdown ==
  /\ (\E k \in Shutdowns : pc[k] # "idle") => app.shuttingDown
  /\ started /\ exit = "no" /\ ~app.shuttingDown =>
       /\ server = "listening" /\ queue = "running" /\ scheduler = "running"
       /\ cache \in {"up", "down"}

(***************************************************************************)
(* The services go down together, and what goes on afterwards was given up *)
(* on.                                                                     *)
(***************************************************************************)
DownInOrder ==
  /\ (scheduler = "closed") = (queue \in {"stopped", "closed"})
  /\ (cache = "quit") = (queue = "closed")
  /\ queue = "closed" /\ jobs > 0 => "queue" \in overran
  /\ scheduler = "closed" =>
       /\ server = "closed"
       /\ "http" \in overran \/ (requests = 0 /\ sockets = {})

(***************************************************************************)
(* Where a shutdown is, and how much longer than its wait its force timer  *)
(* runs.                                                                   *)
(***************************************************************************)
Position(k) ==
  /\ pc[k] = "http" => server = "closed" /\ force[k] > timer[k] + QueueDrain
  /\ pc[k] = "queue" => scheduler = "closed" /\ force[k] > timer[k]
  /\ pc[k] = "cache" => queue = "closed"
  /\ pc[k] = "tracing" => queue = "closed" \/ ~started \/ late

IInv ==
  /\ TypeOK /\ StartedAtOnce /\ RunsUntilShutdown /\ DownInOrder
  /\ \A k \in Shutdowns : Position(k)
  /\ ExitsFindAClosedQueue

-----------------------------------------------------------------------------
(* Time *)

LEMMA HttpBoundIsShort == HttpBound \in Nat /\ HttpBound <= 2
  BY TimesAreOrdered DEF HttpBound

LEMMA TearDownTypes ==
  ASSUME TypeOK, NEW k \in Shutdowns, TearDown(k)
  PROVE  /\ cache' \in {"null", "up", "down", "quit"}
         /\ queue' \in {"null", "running", "stopped", "closed"}
         /\ scheduler' \in {"null", "running", "closed"}
         /\ websocket' \in {"null", "up", "closed"}
         /\ pc' \in [Shutdowns -> {"idle", "http", "queue", "cache", "tracing"}]
         /\ timer' \in [Shutdowns -> Nat]
<1>1. QueueDrain \in Nat /\ TracingTimeout \in Nat
  BY TimesAreOrdered
<1> QED
  BY <1>1 DEF TypeOK, TearDown, Waits

LEMMA InitialState == Init => IInv
<1> SUFFICES ASSUME Init PROVE IInv
  OBVIOUS
<1>1. TypeOK
  <2>1. app \in [io : BOOLEAN, shuttingDown : BOOLEAN]
    BY DEF Init
  <2>2. started \in BOOLEAN /\ late \in BOOLEAN /\ isShuttingDown \in BOOLEAN
    BY DEF Init
  <2> QED
    BY <2>1, <2>2, SMT DEF Init, TypeOK
<1>2. StartedAtOnce
  BY Zenon DEF Init, StartedAtOnce
<1>3. RunsUntilShutdown /\ DownInOrder
  BY DEF Init, RunsUntilShutdown, DownInOrder
<1>4. \A k \in Shutdowns : Position(k)
  BY DEF Init, Position
<1>5. ExitsFindAClosedQueue
  BY DEF Init, ExitsFindAClosedQueue
<1> QED
  BY <1>1, <1>2, <1>3, <1>4, <1>5 DEF IInv

-----------------------------------------------------------------------------
(* One lemma per group of actions *)

LEMMA StartKeeps ==
  ASSUME IInv, exit = "no", StartServer
  PROVE  IInv'
<1> USE DEF StartServer, InitServices, shutdown, load
<1>1. TypeOK'
  <2>1. app' \in [io : BOOLEAN, shuttingDown : BOOLEAN]
    BY DEF IInv, TypeOK
  <2>2. late' \in BOOLEAN
    OBVIOUS
  <2> QED
    BY <2>1, <2>2 DEF IInv, TypeOK
<1>2. StartedAtOnce'
  BY DEF StartedAtOnce
<1>3. RunsUntilShutdown'
  <2>1. app'.shuttingDown = app.shuttingDown
    BY DEF IInv, TypeOK
  <2> QED
    BY <2>1 DEF IInv, RunsUntilShutdown
<1>4. DownInOrder'
  BY DEF IInv, DownInOrder, StartedAtOnce
<1>5. ASSUME NEW k \in Shutdowns PROVE Position(k)'
  <2>1. pc[k] \notin {"http", "queue", "cache"}
    BY DEF IInv, Position, StartedAtOnce
  <2>2. pc'[k] = "tracing" => late'
    OBVIOUS
  <2> QED
    BY <2>1, <2>2 DEF Position
<1>6. ExitsFindAClosedQueue'
  BY DEF ExitsFindAClosedQueue
<1> QED
  BY <1>1, <1>2, <1>3, <1>4, <1>5, <1>6 DEF IInv

LEMMA ServingKeeps ==
  ASSUME IInv, exit = "no", Serves \/ CacheLinkChanges
  PROVE  IInv'
<1>1. CASE Serves
  <2> USE DEF Serves, services, shutdown
  <2>1. jobs \in 0..1 /\ requests \in 0..1 /\ sockets \subseteq {"idle", "io"}
    BY DEF IInv, TypeOK
  <2>2. /\ jobs' \in 0..1 /\ requests' \in 0..1 /\ sockets' \subseteq {"idle", "io"}
        /\ jobs' > 0 => jobs > 0 \/ queue = "running"
        /\ requests = 0 /\ sockets = {} /\ server # "listening" =>
             requests' = 0 /\ sockets' = {}
    <3>1. CASE JobStarts
      BY <2>1, <3>1 DEF JobStarts
    <3>2. CASE JobEnds
      BY <2>1, <3>2 DEF JobEnds
    <3>3. CASE RequestArrives
      BY <2>1, <3>3 DEF RequestArrives
    <3>4. CASE RequestEnds
      BY <2>1, <3>4 DEF RequestEnds
    <3>5. CASE ClientConnects
      BY <2>1, <3>5 DEF ClientConnects
    <3>6. CASE ConnectionEnds
      BY <2>1, <3>6 DEF ConnectionEnds
    <3> QED
      BY <1>1, <3>1, <3>2, <3>3, <3>4, <3>5, <3>6
  <2>3. TypeOK'
    BY <1>1, <2>2 DEF IInv, TypeOK
  <2>4. StartedAtOnce' /\ RunsUntilShutdown'
    BY <1>1 DEF IInv, StartedAtOnce, RunsUntilShutdown
  <2>5. DownInOrder'
    BY <1>1, <2>2 DEF IInv, DownInOrder
  <2>6. \A k \in Shutdowns : Position(k)'
    BY <1>1 DEF IInv, Position
  <2>7. ExitsFindAClosedQueue'
    BY <1>1 DEF IInv, ExitsFindAClosedQueue
  <2> QED
    BY <2>3, <2>4, <2>5, <2>6, <2>7 DEF IInv
<1>2. CASE CacheLinkChanges
  <2> USE DEF CacheLinkChanges, shutdown, load
  <2>1. TypeOK' /\ StartedAtOnce' /\ DownInOrder'
    BY <1>2 DEF IInv, TypeOK, StartedAtOnce, DownInOrder
  <2>2. RunsUntilShutdown'
    BY <1>2 DEF IInv, RunsUntilShutdown
  <2>3. \A k \in Shutdowns : Position(k)'
    BY <1>2 DEF IInv, Position
  <2>4. ExitsFindAClosedQueue'
    BY <1>2 DEF IInv, ExitsFindAClosedQueue
  <2> QED
    BY <2>1, <2>2, <2>3, <2>4 DEF IInv
<1> QED
  BY <1>1, <1>2

LEMMA TickKeeps ==
  ASSUME IInv, exit = "no", Tick
  PROVE  IInv'
<1> USE DEF Tick, services, load
<1>1. TypeOK'
  BY DEF IInv, TypeOK
<1>2. StartedAtOnce' /\ RunsUntilShutdown' /\ DownInOrder' /\ ExitsFindAClosedQueue'
  BY DEF IInv, StartedAtOnce, RunsUntilShutdown, DownInOrder, ExitsFindAClosedQueue
<1>3. ASSUME NEW k \in Shutdowns PROVE Position(k)'
  <2>1. /\ timer[k] \in Nat /\ force[k] \in Nat
        /\ QueueDrain \in Nat /\ Position(k)
    BY TimesAreOrdered DEF IInv, TypeOK
  <2>2. CASE pc[k] \in {"http", "queue"}
    <3>1. timer'[k] = timer[k] - 1 /\ force'[k] = force[k] - 1
      BY <2>2 DEF Timed
    <3> QED
      BY <2>1, <2>2, <3>1 DEF Position
  <2>3. CASE pc[k] \notin {"http", "queue"}
    BY <2>1, <2>3 DEF Position
  <2> QED
    BY <2>2, <2>3
<1> QED
  BY <1>1, <1>2, <1>3 DEF IInv

LEMMA ShutdownKeeps ==
  ASSUME IInv, exit = "no", NEW k \in Shutdowns, Shutdown(k)
  PROVE  IInv'
<1>1. CASE server = "null"
  <2>1. ~ started /\ queue = "null" /\ scheduler = "null" /\ cache = "null"
    BY <1>1 DEF IInv, StartedAtOnce
  <2>2. TypeOK'
    BY <1>1, TearDownTypes, TimesAreOrdered DEF IInv, TypeOK, Shutdown, load
  <2>3. /\ cache' = "null" /\ queue' = "null" /\ scheduler' = "null"
        /\ pc' = [pc EXCEPT ![k] = "tracing"]
        /\ timer' = [timer EXCEPT ![k] = TracingTimeout]
        /\ force' = [force EXCEPT ![k] = ShutdownTimeout]
        /\ UNCHANGED <<started, server, jobs, requests, sockets, exit, late, overran>>
        /\ app'.shuttingDown
    BY <1>1, <2>1 DEF Shutdown, TearDown, Waits, IInv, TypeOK
  <2>4. StartedAtOnce' /\ RunsUntilShutdown' /\ DownInOrder' /\ ExitsFindAClosedQueue'
    BY <2>1, <2>3 DEF IInv, StartedAtOnce, RunsUntilShutdown, DownInOrder,
                      ExitsFindAClosedQueue
  <2>5. \A j \in Shutdowns : Position(j)'
    BY <2>1, <2>3 DEF IInv, TypeOK, Position
  <2> QED
    BY <2>2, <2>4, <2>5 DEF IInv
<1>2. CASE server # "null"
  <2>1. /\ server' = "closed" /\ sockets' = sockets \ {"idle"}
        /\ pc' = [pc EXCEPT ![k] = "http"]
        /\ timer' = [timer EXCEPT ![k] = HttpBound]
        /\ force' = [force EXCEPT ![k] = ShutdownTimeout]
        /\ isShuttingDown' = TRUE
        /\ app' = [app EXCEPT !.shuttingDown = TRUE]
        /\ UNCHANGED <<started, cache, queue, scheduler, websocket, jobs, requests,
                       exit, late, overran>>
    BY <1>2 DEF Shutdown, Waits, services
  <2>2. HttpBound \in Nat /\ QueueDrain \in Nat /\ ShutdownTimeout \in Nat
        /\ ShutdownTimeout > HttpBound + QueueDrain
    BY HttpBoundIsShort, TimesAreOrdered
  <2>3. TypeOK'
    BY <2>1, <2>2 DEF IInv, TypeOK
  <2>4. StartedAtOnce' /\ RunsUntilShutdown' /\ DownInOrder' /\ ExitsFindAClosedQueue'
    BY <1>2, <2>1 DEF IInv, TypeOK, StartedAtOnce, RunsUntilShutdown, DownInOrder,
                      ExitsFindAClosedQueue
  <2>5. ASSUME NEW j \in Shutdowns PROVE Position(j)'
    BY <2>1, <2>2 DEF IInv, TypeOK, Position
  <2> QED
    BY <2>3, <2>4, <2>5 DEF IInv
<1> QED
  BY <1>1, <1>2

LEMMA HttpClosedKeeps ==
  ASSUME IInv, exit = "no", NEW k \in Shutdowns, HttpClosed(k)
  PROVE  IInv'
<1>1. server = "closed" /\ started /\ queue # "null" /\ scheduler # "null"
  BY DEF IInv, Position, HttpClosed, StartedAtOnce
<1>2. /\ scheduler' = "closed"
      /\ queue' = IF queue = "running" THEN "stopped" ELSE queue
      /\ pc' = [pc EXCEPT ![k] = "queue"]
      /\ timer' = [timer EXCEPT ![k] = QueueDrain]
      /\ UNCHANGED <<started, cache, server, app, isShuttingDown, force, jobs, requests,
                     sockets, exit, late>>
  BY <1>1 DEF HttpClosed, TearDown, Waits, load
<1>3. overran \subseteq overran' /\ overran' \subseteq {"http", "queue"}
      /\ ("http" \in overran' \/ (requests = 0 /\ sockets = {}))
  BY DEF HttpClosed, IInv, TypeOK
<1>4. TypeOK'
  BY <1>2, <1>3, TearDownTypes DEF IInv, TypeOK, HttpClosed
<1>5. StartedAtOnce' /\ RunsUntilShutdown' /\ ExitsFindAClosedQueue'
  BY <1>1, <1>2 DEF IInv, TypeOK, HttpClosed, StartedAtOnce, RunsUntilShutdown,
                    ExitsFindAClosedQueue
<1>6. DownInOrder'
  BY <1>1, <1>2, <1>3 DEF IInv, TypeOK, DownInOrder
<1>7. ASSUME NEW j \in Shutdowns PROVE Position(j)'
  BY <1>2, TimesAreOrdered DEF IInv, TypeOK, Position, HttpClosed
<1> QED
  BY <1>4, <1>5, <1>6, <1>7 DEF IInv

LEMMA CloseQueueKeeps ==
  ASSUME IInv, exit = "no", NEW k \in Shutdowns, CloseQueue(k)
  PROVE  IInv'
<1>1. scheduler = "closed" /\ started
  BY DEF IInv, Position, CloseQueue, StartedAtOnce
<1>2. TypeOK'
  BY DEF IInv, TypeOK, CloseQueue, Waits, load
<1>3. StartedAtOnce' /\ RunsUntilShutdown' /\ ExitsFindAClosedQueue'
  BY <1>1 DEF IInv, TypeOK, CloseQueue, Waits, load, StartedAtOnce, RunsUntilShutdown,
              ExitsFindAClosedQueue
<1>4. DownInOrder'
  BY <1>1 DEF IInv, TypeOK, CloseQueue, load, DownInOrder
<1>5. \A j \in Shutdowns : Position(j)'
  BY <1>1 DEF IInv, TypeOK, CloseQueue, Waits, Position
<1> QED
  BY <1>2, <1>3, <1>4, <1>5 DEF IInv

LEMMA CacheQuitKeeps ==
  ASSUME IInv, exit = "no", NEW k \in Shutdowns, CacheQuit(k)
  PROVE  IInv'
<1> USE DEF CacheQuit, Waits, services, load
<1>1. TypeOK'
  BY TimesAreOrdered DEF IInv, TypeOK
<1>2. StartedAtOnce' /\ RunsUntilShutdown' /\ DownInOrder' /\ ExitsFindAClosedQueue'
  BY DEF IInv, TypeOK, StartedAtOnce, RunsUntilShutdown, DownInOrder,
         ExitsFindAClosedQueue
<1>3. \A j \in Shutdowns : Position(j)'
  BY DEF IInv, TypeOK, Position
<1> QED
  BY <1>1, <1>2, <1>3 DEF IInv

(***************************************************************************)
(* The force timer of a shutdown that still waits for connections or jobs  *)
(* has time left, so an exit is that of a shutdown past both waits.        *)
(***************************************************************************)
LEMMA ExitKeeps ==
  ASSUME IInv, exit = "no", NEW k \in Shutdowns,
         TracingFlushed(k) \/ TracingGivenUp(k) \/ ForceExit(k)
  PROVE  IInv'
<1> USE DEF Exits, services, shutdown, load
<1>1. pc[k] \in {"cache", "tracing"}
  <2>1. timer[k] \in Nat /\ QueueDrain \in Nat /\ Position(k)
    BY TimesAreOrdered DEF IInv, TypeOK
  <2> QED
    BY <2>1 DEF IInv, TypeOK, Position, TracingFlushed, TracingGivenUp, ForceExit
<1>2. /\ exit' \in {"done", "forced"}
      /\ UNCHANGED <<started, cache, queue, scheduler, websocket, server, app,
                     isShuttingDown, pc, timer, force, overran, jobs, requests, sockets,
                     late>>
  BY DEF TracingFlushed, TracingGivenUp, ForceExit
<1>3. TypeOK'
  BY <1>2 DEF IInv, TypeOK
<1>4. StartedAtOnce' /\ RunsUntilShutdown' /\ DownInOrder'
  BY <1>2 DEF IInv, StartedAtOnce, RunsUntilShutdown, DownInOrder
<1>5. \A j \in Shutdowns : Position(j)'
  BY <1>2 DEF IInv, Position
<1>6. started /\ ~late => queue = "closed" /\ scheduler = "closed"
  BY <1>1 DEF IInv, Position, DownInOrder
<1>7. ExitsFindAClosedQueue'
  BY <1>2, <1>6 DEF ExitsFindAClosedQueue
<1> QED
  BY <1>3, <1>4, <1>5, <1>7 DEF IInv

-----------------------------------------------------------------------------
LEMMA Inductive == IInv /\ [Next]_vars => IInv'
<1> SUFFICES ASSUME IInv, [Next]_vars PROVE IInv'
  OBVIOUS
<1>1. CASE Next
  <2>1. exit = "no"
    BY <1>1 DEF Next
  <2>2. CASE StartServer
    BY <2>1, <2>2, StartKeeps
  <2>3. CASE Serves \/ CacheLinkChanges
    BY <2>1, <2>3, ServingKeeps
  <2>4. CASE Tick
    BY <2>1, <2>4, TickKeeps
  <2>5. ASSUME NEW k \in Shutdowns, ShutdownStep(k) PROVE IInv'
    <3>1. CASE Shutdown(k)
      BY <2>1, <3>1, ShutdownKeeps
    <3>2. CASE HttpClosed(k)
      BY <2>1, <3>2, HttpClosedKeeps
    <3>3. CASE CloseQueue(k)
      BY <2>1, <3>3, CloseQueueKeeps
    <3>4. CASE CacheQuit(k)
      BY <2>1, <3>4, CacheQuitKeeps
    <3>5. CASE TracingFlushed(k) \/ TracingGivenUp(k) \/ ForceExit(k)
      BY <2>1, <3>5, ExitKeeps
    <3> QED
      BY <2>5, <3>1, <3>2, <3>3, <3>4, <3>5 DEF ShutdownStep, Signal, Exception
  <2> QED
    BY <1>1, <2>2, <2>3, <2>4, <2>5 DEF Next
<1>2. CASE UNCHANGED vars
  <2> USE <1>2 DEF vars, services, shutdown, load
  <2>1. TypeOK' /\ StartedAtOnce' /\ DownInOrder' /\ ExitsFindAClosedQueue'
    BY DEF IInv, TypeOK, StartedAtOnce, DownInOrder, ExitsFindAClosedQueue
  <2>2. RunsUntilShutdown' /\ \A k \in Shutdowns : Position(k)'
    BY DEF IInv, RunsUntilShutdown, Position
  <2> QED
    BY <2>1, <2>2 DEF IInv
<1> QED
  BY <1>1, <1>2

LEMMA Invariant == Spec => []IInv
  BY InitialState, Inductive, PTL DEF Spec

(***************************************************************************)
(* services/index.js:139-174: whatever the number of shutdowns, and        *)
(* wherever they overtake each other, services go down after their users.  *)
(***************************************************************************)
THEOREM ServicesGoDownInOrder == Spec => []ServicesOutliveTheirUsers
<1>1. IInv => ServicesOutliveTheirUsers
  BY DEF IInv, TypeOK, DownInOrder, ServicesOutliveTheirUsers
<1> QED
  BY <1>1, Invariant, PTL

(***************************************************************************)
(* server.js:101-159: for all limits with 2 + QueueDrain < ShutdownTimeout *)
(* the exit of a server that was up, forced or not, finds its queue        *)
(* closed.                                                                 *)
(***************************************************************************)
THEOREM QueueIsClosedAtExit == Spec => []ExitsFindAClosedQueue
<1>1. IInv => ExitsFindAClosedQueue
  BY DEF IInv
<1> QED
  BY <1>1, Invariant, PTL

(***************************************************************************)
(* routes/index.js:220-253: an instance that calls itself ready serves.    *)
(***************************************************************************)
THEOREM ReadinessIsTruthful == Spec => []ReadyMeansServing
<1>1. IInv => ReadyMeansServing
  BY DEF IInv, StartedAtOnce, RunsUntilShutdown, Ready, ReadyMeansServing
<1> QED
  BY <1>1, Invariant, PTL
=============================================================================
