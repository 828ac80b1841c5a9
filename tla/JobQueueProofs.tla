--------------------------- MODULE JobQueueProofs ---------------------------
(***************************************************************************)
(* Proofs about JobQueue for every value of its constants: the safety      *)
(* invariants follow from the inductive invariant IndInv.  The heart of    *)
(* the argument is ProcessKeepsConsistent: whatever a handler leaves       *)
(* behind, as long as it is Consistent, the drain loop that ends the       *)
(* handler keeps it so and leaves no slot idle.                            *)
(***************************************************************************)
EXTENDS JobQueue, FiniteSetTheorems, TLAPS

-----------------------------------------------------------------------------
(* The inductive invariant.  Its parts are stated of arbitrary job maps,   *)
(* queues and slots, so that they can be applied to the intermediate       *)
(* values inside an action as well as to the variables.                    *)

JobMap(js, n) ==
  /\ DOMAIN js \subseteq 1..(n - 1)
  /\ js = [id \in DOMAIN js |-> js[id]]
  /\ \A id \in DOMAIN js : js[id] \in Job

Ordered(js, q) ==
  /\ q \in Seq(JobIds)
  /\ InQueue(q) \subseteq InStatus(js, "queued")
  /\ \A i, j \in 1..Len(q) : i # j => q[i] # q[j]

Placed(js, q, tm) ==
  /\ InStatus(js, "queued") \subseteq InQueue(q) \cup tm
  /\ InQueue(q) \cap tm = {}

Slots(js, exec, active, n) ==
  /\ exec \subseteq 1..(n - 1)
  /\ active = Cardinality(exec)
  /\ active <= JobConcurrency
  /\ InStatus(js, "running") = exec \cap DOMAIN js

Consistent(js, q, exec, active, tm, n) ==
  /\ n \in 1..(MaxJobs + 1)
  /\ JobMap(js, n) /\ WithinAttempts(js)
  /\ Ordered(js, q) /\ Placed(js, q, tm)
  /\ Slots(js, exec, active, n)

PhaseInv ==
  /\ phase \in {"down", "up", "closing", "closed", "reclosing"}
  /\ phase # "up" => ~ isProcessing
  /\ isProcessing => handlers = Handled
  /\ phase \notin {"closed", "reclosing"} => executing \subseteq DOMAIN jobs
  /\ phase \in {"closed", "reclosing"} => jobs = NoJobs
  /\ phase = "down" => /\ executing = {} /\ activeCount = 0 /\ timers = {}
                       /\ jobs = NoJobs /\ queuedJobs = << >>

FileInv ==
  /\ file = [jobs |-> file.jobs, queueOrder |-> file.queueOrder]
  /\ JobMap(file.jobs, nextId) /\ WithinAttempts(file.jobs)
  /\ Ordered(file.jobs, file.queueOrder)

BasicTypes ==
  /\ isProcessing \in BOOLEAN /\ persistTimer \in BOOLEAN /\ persistFailed \in BOOLEAN
  /\ handlers \subseteq Handled
  /\ timers \subseteq 1..(nextId - 1)
  /\ notDue \subseteq 1..(nextId - 1)

IndInv ==
  /\ Consistent(jobs, queuedJobs, executing, activeCount, timers, nextId)
  /\ BasicTypes /\ PhaseInv /\ FileInv /\ NoIdleSlot

-----------------------------------------------------------------------------
(* Sequences *)

LEMMA InsertAtFacts ==
  ASSUME NEW S, NEW q \in Seq(S), NEW id \in S, NEW i \in 1..(Len(q) + 1)
  PROVE  /\ InsertAt(q, i, id) \in Seq(S)
         /\ Len(InsertAt(q, i, id)) = Len(q) + 1
         /\ \A j \in 1..(Len(q) + 1) :
              InsertAt(q, i, id)[j] = IF j < i THEN q[j] ELSE IF j = i THEN id ELSE q[j - 1]
<1> DEFINE front == SubSeq(q, 1, i - 1)
           back == SubSeq(q, i, Len(q))
<1>1. /\ front \in Seq(S) /\ Len(front) = i - 1
      /\ \A j \in 1..(i - 1) : front[j] = q[j]
  BY SMT
<1>2. /\ back \in Seq(S) /\ Len(back) = Len(q) - i + 1
      /\ \A j \in 1..(Len(q) - i + 1) : back[j] = q[j + i - 1]
  BY SMT
<1> HIDE DEF front, back
<1>3. /\ front \o <<id>> \in Seq(S) /\ Len(front \o <<id>>) = i
      /\ \A j \in 1..i : (front \o <<id>>)[j] = IF j < i THEN q[j] ELSE id
  BY <1>1, SMT
<1>4. InsertAt(q, i, id) = (front \o <<id>>) \o back
  BY DEF InsertAt, front, back
<1> DEFINE start == front \o <<id>>
<1> HIDE DEF start
<1>5. /\ start \in Seq(S) /\ Len(start) = i
      /\ \A j \in 1..i : start[j] = IF j < i THEN q[j] ELSE id
  BY <1>3 DEF start
<1>6. /\ start \o back \in Seq(S) /\ Len(start \o back) = Len(q) + 1
      /\ \A j \in 1..(Len(q) + 1) :
           (start \o back)[j] = IF j <= i THEN start[j] ELSE back[j - i]
  BY <1>2, <1>5, SMT
<1>7. \A j \in 1..(Len(q) + 1) :
        (start \o back)[j] = IF j < i THEN q[j] ELSE IF j = i THEN id ELSE q[j - 1]
  BY <1>2, <1>5, <1>6, SMT
<1> QED BY <1>4, <1>6, <1>7 DEF start

LEMMA RemoveAtFacts ==
  ASSUME NEW S, NEW q \in Seq(S), NEW k \in 1..Len(q)
  PROVE  /\ RemoveAt(q, k) \in Seq(S)
         /\ Len(RemoveAt(q, k)) = Len(q) - 1
         /\ \A j \in 1..(Len(q) - 1) :
              RemoveAt(q, k)[j] = IF j < k THEN q[j] ELSE q[j + 1]
<1> DEFINE front == SubSeq(q, 1, k - 1)
           back == SubSeq(q, k + 1, Len(q))
<1>1. /\ front \in Seq(S) /\ Len(front) = k - 1
      /\ \A j \in 1..(k - 1) : front[j] = q[j]
  BY SMT
<1>2. /\ back \in Seq(S) /\ Len(back) = Len(q) - k
      /\ \A j \in 1..(Len(q) - k) : back[j] = q[j + k]
  BY SMT
<1> HIDE DEF front, back
<1>3. /\ front \o back \in Seq(S) /\ Len(front \o back) = Len(q) - 1
      /\ \A j \in 1..(Len(q) - 1) :
           (front \o back)[j] = IF j <= k - 1 THEN front[j] ELSE back[j - (k - 1)]
  <2>1. front \in Seq(S) /\ back \in Seq(S)
    BY <1>1, <1>2
  <2>2. /\ front \o back \in Seq(S)
        /\ Len(front \o back) = Len(front) + Len(back)
        /\ \A j \in 1..(Len(front) + Len(back)) :
             (front \o back)[j] = IF j <= Len(front) THEN front[j] ELSE back[j - Len(front)]
    BY ONLY <2>1, SMT
  <2> QED BY <1>1, <1>2, <2>2
<1>4. ASSUME NEW j \in 1..(Len(q) - 1)
      PROVE  (front \o back)[j] = IF j < k THEN q[j] ELSE q[j + 1]
  <2>1. CASE j < k
    <3>1. j \in 1..(k - 1) /\ j <= k - 1
      BY <2>1
    <3> QED BY <1>1, <1>3, <2>1, <3>1
  <2>2. CASE ~ j < k
    <3>1. /\ j - (k - 1) \in 1..(Len(q) - k) /\ ~ j <= k - 1
          /\ (j - (k - 1)) + k = j + 1
      BY <2>2
    <3>2. back[j - (k - 1)] = q[j + 1]
      BY <1>2, <3>1
    <3> QED BY <1>3, <2>2, <3>1, <3>2
  <2> QED BY <2>1, <2>2
<1> QED BY <1>3, <1>4 DEF RemoveAt, front, back

LEMMA SuffixFacts ==
  ASSUME NEW S, NEW q \in Seq(S), NEW n \in 0..Len(q)
  PROVE  /\ SubSeq(q, n + 1, Len(q)) \in Seq(S)
         /\ Len(SubSeq(q, n + 1, Len(q))) = Len(q) - n
         /\ \A j \in 1..(Len(q) - n) : SubSeq(q, n + 1, Len(q))[j] = q[j + n]
BY SMT

-----------------------------------------------------------------------------
(* The drain loop *)

LEMMA JobIdsFinite ==
  ASSUME NEW n \in 1..(MaxJobs + 1), NEW T \in SUBSET (1..(n - 1))
  PROVE  IsFiniteSet(T) /\ Cardinality(T) \in Nat
<1>1. n - 1 \in Int
  BY JobQueueAssumption
<1>2. IsFiniteSet(1..(n - 1))
  BY <1>1, FS_Interval
<1> QED BY <1>2, FS_Subset, FS_CardinalityType

(* One more shift starts at most one more job. *)
LEMMA StartableGrowsByOne ==
  ASSUME NEW js, NEW n \in 1..(MaxJobs + 1), DOMAIN js \subseteq 1..(n - 1),
         NEW q \in Seq(JobIds), NEW m \in 1..Len(q)
  PROVE  Cardinality(Startable(js, q, m)) <= Cardinality(Startable(js, q, m - 1)) + 1
<1> DEFINE A == Startable(js, q, m)
           B == Startable(js, q, m - 1)
<1>1. A \subseteq B \cup {q[m]}
  BY SMT DEF Startable, InStatus
<1>2. B \in SUBSET (1..(n - 1))
  BY DEF Startable, InStatus
<1>3. IsFiniteSet(B) /\ Cardinality(B) \in Nat
  BY <1>2, JobIdsFinite
<1> HIDE DEF A, B
<1>4. /\ IsFiniteSet(B \cup {q[m]})
      /\ Cardinality(B \cup {q[m]}) <= Cardinality(B) + 1
  <2>1. /\ IsFiniteSet(B \cup {q[m]})
        /\ Cardinality(B \cup {q[m]}) = IF q[m] \in B THEN Cardinality(B)
                                        ELSE Cardinality(B) + 1
    BY ONLY <1>3, FS_AddElement
  <2> QED BY <1>3, <2>1
<1>5. Cardinality(A) <= Cardinality(B \cup {q[m]})
  BY <1>1, <1>4, FS_Subset
<1>6. Cardinality(A) \in Nat /\ Cardinality(B \cup {q[m]}) \in Nat
  BY <1>1, <1>4, FS_Subset, FS_CardinalityType
<1>7. Cardinality(A) <= Cardinality(B) + 1
  BY <1>3, <1>4, <1>5, <1>6
<1> QED BY <1>7 DEF A, B

LEMMA ProcessKeepsConsistent ==
  ASSUME NEW js, NEW q, NEW exec, NEW active, NEW tm, NEW n,
         NEW processing, NEW armed,
         Consistent(js, q, exec, active, tm, n),
         processing = TRUE => handlers = Handled,
         Process(js, q, exec, active, processing, armed)
  PROVE  /\ Consistent(jobs', queuedJobs', exec \cup (executing' \ exec), activeCount', tm, n)
         /\ executing' = exec \cup (executing' \ exec)
         /\ DOMAIN jobs' = DOMAIN js
         /\ executing' \ exec \subseteq DOMAIN js
         /\ processing = TRUE => queuedJobs' = << >> \/ activeCount' >= JobConcurrency
<1> USE JobQueueAssumption
<1>1. PICK k \in 0..Len(q) :
        /\ IF processing THEN DrainStops(js, q, active, k) ELSE k = 0
        /\ jobs' = WithStatus(WithStatus(js, Startable(js, q, k), "running"),
                              Unhandled(js, q, k), "failed")
        /\ queuedJobs' = SubSeq(q, k + 1, Len(q))
        /\ executing' = exec \cup Startable(js, q, k)
        /\ activeCount' = active + Cardinality(Startable(js, q, k))
  BY DEF Process
<1> DEFINE started == Startable(js, q, k)
           orphans == Unhandled(js, q, k)
<1>2. /\ q \in Seq(JobIds) /\ Len(q) \in Nat
      /\ \A i, j \in 1..Len(q) : i # j => q[i] # q[j]
      /\ \A i \in 1..Len(q) : q[i] \in InStatus(js, "queued")
  BY DEF Consistent, Ordered, InQueue
<1>3. /\ started \subseteq InStatus(js, "queued") /\ orphans \subseteq InStatus(js, "queued")
      /\ started \cap orphans = {}
      /\ \A id \in InStatus(js, "queued") :
           id \in started \cup orphans <=> \E i \in 1..k : q[i] = id
      /\ \A id \in orphans : js[id].type \notin handlers
  BY DEF Startable, Unhandled
<1>4. ~ processing => started = {} /\ orphans = {}
  BY <1>1 DEF Startable, Unhandled
<1> HIDE DEF started, orphans
<1>5. /\ DOMAIN jobs' = DOMAIN js
      /\ jobs' = [id \in DOMAIN jobs' |-> jobs'[id]]
      /\ \A id \in DOMAIN js :
           jobs'[id] = IF id \in orphans THEN [js[id] EXCEPT !.status = "failed"]
                       ELSE IF id \in started THEN [js[id] EXCEPT !.status = "running"]
                       ELSE js[id]
  BY <1>1, <1>3 DEF WithStatus, started, orphans, InStatus
<1>6. \A id \in DOMAIN js : js[id] \in Job
  BY DEF Consistent, JobMap
<1>7. \A id \in DOMAIN js :
        /\ jobs'[id] \in Job
        /\ jobs'[id].type = js[id].type /\ jobs'[id].attempts = js[id].attempts
        /\ jobs'[id].status = IF id \in orphans THEN "failed"
                              ELSE IF id \in started THEN "running" ELSE js[id].status
  BY <1>5, <1>6, SMT DEF Job, Status, Terminal
<1>8. n \in 1..(MaxJobs + 1) /\ JobMap(jobs', n)
  BY <1>5, <1>7 DEF Consistent, JobMap
<1>9. WithinAttempts(jobs')
  <2> SUFFICES ASSUME NEW id \in DOMAIN js
               PROVE  /\ jobs'[id].status \in {"queued", "running"}
                           => jobs'[id].attempts < JobRetryAttempts
                      /\ jobs'[id].status = "failed" /\ jobs'[id].type \in Handled
                           => jobs'[id].attempts = JobRetryAttempts
    BY <1>5 DEF WithinAttempts
  <2>1. id \in started \cup orphans => js[id].attempts < JobRetryAttempts
    BY <1>3 DEF Consistent, WithinAttempts, InStatus
  <2>2. id \in orphans => js[id].type \notin Handled
    BY <1>3, <1>4
  <2> QED BY <1>7, <2>1, <2>2 DEF Consistent, WithinAttempts
<1>10. /\ InStatus(jobs', "queued") = InStatus(js, "queued") \ (started \cup orphans)
       /\ InStatus(jobs', "running") = InStatus(js, "running") \cup started
  <2>1. \A id \in InStatus(jobs', "queued") \cup InStatus(jobs', "running")
                    \cup InStatus(js, "queued") \cup InStatus(js, "running")
                    \cup started \cup orphans :
          /\ id \in DOMAIN js /\ id \in DOMAIN jobs'
          /\ id \in started \cup orphans => js[id].status = "queued"
    BY <1>3, <1>5 DEF InStatus
  <2>2. \A id \in DOMAIN js :
          jobs'[id].status = "queued" <=> js[id].status = "queued" /\ id \notin started \cup orphans
    BY <1>7
  <2>3. \A id \in DOMAIN js :
          jobs'[id].status = "running" <=>
            id \notin orphans /\ (js[id].status = "running" \/ id \in started)
    BY <1>7
  <2>4. InStatus(jobs', "queued") = InStatus(js, "queued") \ (started \cup orphans)
    BY <2>1, <2>2 DEF InStatus
  <2>5. InStatus(jobs', "running") = InStatus(js, "running") \cup started
    BY <1>3, <2>1, <2>3 DEF InStatus
  <2> QED BY <2>4, <2>5
<1>11. /\ queuedJobs' \in Seq(JobIds)
       /\ Len(queuedJobs') = Len(q) - k
       /\ \A j \in 1..(Len(q) - k) : queuedJobs'[j] = q[j + k]
  BY <1>1, <1>2, SuffixFacts
<1>12. Ordered(jobs', queuedJobs')
  <2>1. ASSUME NEW i \in 1..Len(queuedJobs'), NEW j \in 1..Len(queuedJobs'), i # j
        PROVE  queuedJobs'[i] # queuedJobs'[j]
    <3>1. /\ i \in 1..(Len(q) - k) /\ j \in 1..(Len(q) - k)
          /\ i + k \in 1..Len(q) /\ j + k \in 1..Len(q) /\ i + k # j + k
      BY <1>2, <1>11, <2>1
    <3>2. q[i + k] # q[j + k]
      BY <1>2, <3>1
    <3> QED BY <1>11, <3>1, <3>2
  <2>2. ASSUME NEW j \in 1..Len(queuedJobs')
        PROVE  queuedJobs'[j] \in InStatus(jobs', "queued")
    <3>1. j + k \in 1..Len(q) /\ \A i \in 1..k : i \in 1..Len(q) /\ i # j + k
      BY <1>2, <1>11
    <3>2. q[j + k] \in InStatus(js, "queued") /\ \A i \in 1..k : q[i] # q[j + k]
      BY <1>2, <3>1
    <3> QED BY <1>3, <1>10, <1>11, <3>2
  <2> QED BY <1>11, <2>1, <2>2 DEF Ordered, InQueue
<1>13. Placed(jobs', queuedJobs', tm)
  <2>1. InQueue(queuedJobs') \subseteq InQueue(q)
    BY <1>2, <1>11 DEF InQueue
  <2>2. ASSUME NEW id \in InStatus(jobs', "queued"), id \notin tm
        PROVE  id \in InQueue(queuedJobs')
    <3>1. id \in InStatus(js, "queued") /\ id \in InQueue(q)
      BY <1>10, <2>2 DEF Consistent, Placed
    <3>2. PICK i \in 1..Len(q) : q[i] = id
      BY <3>1 DEF InQueue
    <3>3. i > k
      BY <1>2, <1>3, <1>10, <3>1, <3>2
    <3>4. i - k \in 1..(Len(q) - k) /\ queuedJobs'[i - k] = id
      BY <1>2, <1>11, <3>2, <3>3
    <3> QED BY <1>11, <3>4 DEF InQueue
  <2> QED BY <2>1, <2>2 DEF Consistent, Placed
<1>14. /\ started \in SUBSET (1..(n - 1)) /\ exec \in SUBSET (1..(n - 1))
       /\ n \in 1..(MaxJobs + 1) /\ active = Cardinality(exec) /\ active <= JobConcurrency
       /\ InStatus(js, "running") = exec \cap DOMAIN js
       /\ DOMAIN js \subseteq 1..(n - 1)
  BY <1>3 DEF Consistent, Slots, JobMap, InStatus
<1>15. /\ IsFiniteSet(started) /\ Cardinality(started) \in Nat
       /\ IsFiniteSet(exec) /\ Cardinality(exec) \in Nat
  BY <1>14, JobIdsFinite
<1>16. exec \cap started = {}
  BY <1>3, <1>14 DEF InStatus
<1>17. Cardinality(exec \cup started) = Cardinality(exec) + Cardinality(started)
  <2>1. Cardinality(exec \cup started)
          = Cardinality(exec) + Cardinality(started) - Cardinality(exec \cap started)
    BY <1>15, FS_Union
  <2>2. Cardinality(exec \cap started) = 0
    BY <1>16, FS_EmptySet
  <2> QED BY <1>15, <2>1, <2>2
<1>18. active + Cardinality(started) <= JobConcurrency
  <2>1. CASE k = 0
    <3>1. started = {}
      BY <2>1 DEF started, Startable
    <3> QED BY <1>14, <1>15, <3>1, FS_EmptySet
  <2>2. CASE k # 0
    <3>1. processing /\ DrainStops(js, q, active, k)
      BY <1>1, <2>2
    <3>2. k \in 1..Len(q) /\ k - 1 \in 0..(k - 1)
      BY <1>2, <2>2
    <3>3. active + Cardinality(Startable(js, q, k - 1)) < JobConcurrency
      BY <3>1, <3>2 DEF DrainStops
    <3>4. Cardinality(started) <= Cardinality(Startable(js, q, k - 1)) + 1
      BY <1>2, <1>14, <3>2, StartableGrowsByOne DEF started
    <3>5. Cardinality(Startable(js, q, k - 1)) \in Nat
      <4>1. Startable(js, q, k - 1) \in SUBSET (1..(n - 1))
        BY <1>14 DEF Startable, InStatus
      <4> QED BY <1>14, <4>1, JobIdsFinite
    <3> QED BY <1>14, <1>15, <3>3, <3>4, <3>5
  <2> QED BY <2>1, <2>2
<1>19. /\ executing' = exec \cup started /\ executing' = exec \cup (executing' \ exec)
       /\ activeCount' = active + Cardinality(started)
       /\ executing' \ exec \subseteq DOMAIN js
  BY <1>1, <1>3 DEF started, InStatus
<1>20. Slots(jobs', executing', activeCount', n)
  <2>1. InStatus(jobs', "running") = executing' \cap DOMAIN jobs'
    BY <1>3, <1>5, <1>10, <1>14, <1>19 DEF InStatus
  <2> QED BY <1>14, <1>17, <1>18, <1>19, <2>1 DEF Slots
<1>21. processing => queuedJobs' = << >> \/ activeCount' >= JobConcurrency
  <2> SUFFICES ASSUME processing, activeCount' < JobConcurrency
               PROVE  queuedJobs' = << >>
    BY <1>14, <1>15, <1>19
  <2>1. k = Len(q)
    BY <1>1, <1>14, <1>15, <1>19 DEF DrainStops, started
  <2> QED BY <1>2, <1>11, <2>1
<1> QED
  BY <1>5, <1>8, <1>9, <1>12, <1>13, <1>19, <1>20, <1>21 DEF Consistent

-----------------------------------------------------------------------------
(* The pieces of the actions *)

LEMMA EvictFacts ==
  ASSUME NEW js
  PROVE  /\ DOMAIN Evict(js) \subseteq DOMAIN js
         /\ Evict(js) = [id \in DOMAIN Evict(js) |-> Evict(js)[id]]
         /\ \A id \in DOMAIN Evict(js) : Evict(js)[id] = js[id]
         /\ \A id \in DOMAIN js : js[id].status \notin Terminal => id \in DOMAIN Evict(js)
BY DEF Evict, TerminalJobs

(* Evicting ended jobs disturbs neither the queue nor the slots. *)
LEMMA EvictKeepsConsistent ==
  ASSUME NEW js, NEW q, NEW exec, NEW active, NEW tm, NEW n,
         Consistent(js, q, exec, active, tm, n)
  PROVE  /\ Consistent(Evict(js), q, exec, active, tm, n)
         /\ exec \subseteq DOMAIN js => exec \subseteq DOMAIN Evict(js)
<1>1. InStatus(Evict(js), "queued") = InStatus(js, "queued")
  BY EvictFacts DEF InStatus, Terminal
<1>2. InStatus(Evict(js), "running") = InStatus(js, "running")
  BY EvictFacts DEF InStatus, Terminal
<1>3. JobMap(Evict(js), n)
  BY EvictFacts DEF Consistent, JobMap
<1>4. WithinAttempts(Evict(js))
  BY EvictFacts DEF Consistent, WithinAttempts
<1>5. exec \cap DOMAIN Evict(js) = exec \cap DOMAIN js
  BY <1>2, EvictFacts DEF Consistent, Slots, InStatus
<1> QED
  BY <1>1, <1>2, <1>3, <1>4, <1>5 DEF Consistent, Ordered, Placed, Slots

(* A job that waits for a timer goes to any place of the queue. *)
LEMMA InsertKeepsConsistent ==
  ASSUME NEW js, NEW q, NEW exec, NEW active, NEW tm, NEW n,
         Consistent(js, q, exec, active, tm, n),
         NEW id \in tm, id \in InStatus(js, "queued"), NEW i \in 1..(Len(q) + 1)
  PROVE  Consistent(js, InsertAt(q, i, id), exec, active, tm \ {id}, n)
<1> DEFINE new == InsertAt(q, i, id)
<1>1. q \in Seq(JobIds) /\ id \in JobIds /\ id \notin InQueue(q)
  BY JobQueueAssumption DEF Consistent, Ordered, Placed, JobMap, JobIds, InStatus
<1>2. /\ new \in Seq(JobIds) /\ Len(new) = Len(q) + 1
      /\ \A j \in 1..(Len(q) + 1) :
           new[j] = IF j < i THEN q[j] ELSE IF j = i THEN id ELSE q[j - 1]
  <2>1. /\ InsertAt(q, i, id) \in Seq(JobIds) /\ Len(InsertAt(q, i, id)) = Len(q) + 1
        /\ \A j \in 1..(Len(q) + 1) :
             InsertAt(q, i, id)[j] = IF j < i THEN q[j] ELSE IF j = i THEN id ELSE q[j - 1]
    BY ONLY <1>1, i \in 1..(Len(q) + 1), InsertAtFacts
  <2> QED BY <2>1
<1> HIDE DEF new
<1>3. \A j \in 1..Len(q) : new[IF j < i THEN j ELSE j + 1] = q[j]
  BY <1>1, <1>2
<1>4. InQueue(new) = InQueue(q) \cup {id}
  <2>1. InQueue(new) \subseteq InQueue(q) \cup {id}
    BY <1>1, <1>2 DEF InQueue
  <2>2. InQueue(q) \subseteq InQueue(new)
    <3> SUFFICES ASSUME NEW j \in 1..Len(q) PROVE q[j] \in InQueue(new)
      BY DEF InQueue
    <3>1. CASE j < i
      BY <1>1, <1>2, <3>1 DEF InQueue
    <3>2. CASE ~ (j < i)
      <4>1. j + 1 \in 1..Len(new) /\ new[j + 1] = q[j]
        BY <1>1, <1>2, <3>2
      <4> QED BY <4>1 DEF InQueue
    <3> QED BY <3>1, <3>2
  <2>3. id \in InQueue(new)
    BY <1>1, <1>2 DEF InQueue
  <2> QED BY <2>1, <2>2, <2>3
<1>5. \A j, k \in 1..Len(new) : j # k => new[j] # new[k]
  <2>1. \A j \in 1..Len(q) : q[j] # id
    BY <1>1 DEF InQueue
  <2>2. \A j, k \in 1..Len(q) : j # k => q[j] # q[k]
    BY DEF Consistent, Ordered
  <2> SUFFICES ASSUME NEW j \in 1..Len(new), NEW k \in 1..Len(new), j < k
               PROVE  new[j] # new[k]
    BY <1>2
  <2> DEFINE old(m) == IF m < i THEN m ELSE m - 1
  <2>3. \A m \in 1..Len(new) : m # i => old(m) \in 1..Len(q) /\ new[m] = q[old(m)]
    BY <1>1, <1>2
  <2>4. j # i /\ k # i => old(j) # old(k)
    BY <1>1, <1>2
  <2>5. new[i] = id
    BY <1>1, <1>2
  <2> HIDE DEF old
  <2> QED BY <2>1, <2>2, <2>3, <2>4, <2>5
<1> QED BY <1>2, <1>4, <1>5 DEF Consistent, Ordered, Placed, new

(* A job that leaves "queued" leaves the queue too. *)
LEMMA CancelKeepsConsistent ==
  ASSUME NEW js, NEW q, NEW exec, NEW active, NEW tm, NEW n,
         Consistent(js, q, exec, active, tm, n),
         NEW id \in DOMAIN js, js[id].status # "running",
         NEW new,
         \/ id \notin InQueue(q) /\ new = q
         \/ \E k \in 1..Len(q) : q[k] = id /\ new = RemoveAt(q, k)
  PROVE  Consistent(WithStatus(js, {id}, "cancelled"), new, exec, active, tm, n)
<1> DEFINE cancelled == WithStatus(js, {id}, "cancelled")
<1>1. /\ DOMAIN cancelled = DOMAIN js /\ cancelled = [j \in DOMAIN cancelled |-> cancelled[j]]
      /\ \A j \in DOMAIN js : cancelled[j] = IF j = id THEN [js[j] EXCEPT !.status = "cancelled"]
                                             ELSE js[j]
  BY DEF WithStatus
<1>2. \A j \in DOMAIN js : js[j] \in Job
  BY DEF Consistent, JobMap
<1> HIDE DEF cancelled
<1>3. \A j \in DOMAIN js :
        /\ cancelled[j] \in Job
        /\ cancelled[j].type = js[j].type /\ cancelled[j].attempts = js[j].attempts
        /\ cancelled[j].status = IF j = id THEN "cancelled" ELSE js[j].status
  BY <1>1, <1>2, SMT DEF Job, Status, Terminal
<1>4. JobMap(cancelled, n)
  BY <1>1, <1>3 DEF Consistent, JobMap
<1>5. WithinAttempts(cancelled)
  BY <1>1, <1>3 DEF Consistent, WithinAttempts
<1>6. /\ InStatus(cancelled, "queued") = InStatus(js, "queued") \ {id}
      /\ InStatus(cancelled, "running") = InStatus(js, "running")
  BY <1>1, <1>3 DEF InStatus
<1>7. q \in Seq(JobIds) /\ \A i, j \in 1..Len(q) : i # j => q[i] # q[j]
  BY DEF Consistent, Ordered
<1>8. /\ new \in Seq(JobIds) /\ InQueue(new) = InQueue(q) \ {id}
      /\ \A i, j \in 1..Len(new) : i # j => new[i] # new[j]
  <2>1. CASE id \notin InQueue(q) /\ new = q
    BY <1>7, <2>1
  <2>2. ASSUME NEW k \in 1..Len(q), q[k] = id, new = RemoveAt(q, k)
        PROVE  /\ new \in Seq(JobIds) /\ InQueue(new) = InQueue(q) \ {id}
               /\ \A i, j \in 1..Len(new) : i # j => new[i] # new[j]
    <3>1. /\ new \in Seq(JobIds) /\ Len(new) = Len(q) - 1
          /\ \A j \in 1..(Len(q) - 1) : new[j] = IF j < k THEN q[j] ELSE q[j + 1]
      BY ONLY <1>7, k \in 1..Len(q), new = RemoveAt(q, k), RemoveAtFacts
    <3> DEFINE old(j) == IF j < k THEN j ELSE j + 1
    <3>2. \A j \in 1..Len(new) :
            old(j) \in 1..Len(q) /\ old(j) # k /\ new[j] = q[old(j)]
      BY <1>7, <3>1
    <3>3. \A i, j \in 1..Len(new) : i # j => old(i) # old(j)
      BY <1>7, <3>1
    <3>4. \A j \in 1..Len(q) : j # k => \E i \in 1..Len(new) : new[i] = q[j]
      <4> SUFFICES ASSUME NEW j \in 1..Len(q), j # k
                   PROVE  \E i \in 1..Len(new) : new[i] = q[j]
        OBVIOUS
      <4>1. CASE j < k
        <5>1. j \in 1..Len(new) /\ new[j] = q[j]
          BY <1>7, <3>1, <4>1
        <5> QED BY <5>1
      <4>2. CASE j > k
        <5>1. j - 1 \in 1..Len(new) /\ new[j - 1] = q[j]
          BY <1>7, <3>1, <4>2
        <5> QED BY <5>1
      <4> QED BY <1>7, <4>1, <4>2
    <3> HIDE DEF old
    <3>5. \A i, j \in 1..Len(new) : i # j => new[i] # new[j]
      BY <1>7, <3>2, <3>3
    <3>6. InQueue(new) = InQueue(q) \ {id}
      <4>1. \A j \in 1..Len(new) : new[j] # id
        BY <1>7, <2>2, <3>2
      <4>2. InQueue(new) \subseteq InQueue(q) \ {id}
        BY <3>2, <4>1 DEF InQueue
      <4>3. InQueue(q) \ {id} \subseteq InQueue(new)
        BY <2>2, <3>4 DEF InQueue
      <4> QED BY <4>2, <4>3
    <3> QED BY <3>1, <3>5, <3>6
  <2> QED BY <2>1, <2>2
<1> QED
  BY <1>1, <1>4, <1>5, <1>6, <1>8 DEF Consistent, Ordered, Placed, Slots, cancelled

(* add(): the new job waits for a timer of its own, or is about to be       *)
(* enqueued, which Consistent does not tell apart from waiting.            *)
LEMMA AddedIsConsistent ==
  ASSUME NEW type \in Types, NEW priority \in Priorities, nextId <= MaxJobs,
         Consistent(jobs, queuedJobs, executing, activeCount, timers, nextId)
  PROVE  /\ Consistent(Added(type, priority), queuedJobs, executing, activeCount,
                       timers \cup {nextId}, nextId + 1)
         /\ DOMAIN Added(type, priority) = DOMAIN jobs \cup {nextId}
         /\ nextId \in InStatus(Added(type, priority), "queued")
<1> DEFINE js == Added(type, priority)
<1> USE JobQueueAssumption
<1>1. /\ nextId \in 1..MaxJobs /\ nextId + 1 \in 1..(MaxJobs + 1)
      /\ DOMAIN jobs \subseteq 1..(nextId - 1) /\ nextId \notin DOMAIN jobs
      /\ \A id \in DOMAIN jobs : jobs[id] \in Job
  BY DEF Consistent, JobMap
<1>2. /\ DOMAIN js = DOMAIN jobs \cup {nextId} /\ js = [id \in DOMAIN js |-> js[id]]
      /\ \A id \in DOMAIN jobs : js[id] = jobs[id]
      /\ js[nextId] = [type |-> type, priority |-> priority, status |-> "queued",
                       attempts |-> 0]
  BY <1>1 DEF Added
<1> HIDE DEF js
<1>3. js[nextId] \in Job
  BY <1>2, SMT DEF Job, Status
<1>4. JobMap(js, nextId + 1)
  <2>1. DOMAIN js \subseteq 1..nextId
    BY <1>1, <1>2
  <2> QED BY <1>1, <1>2, <1>3, <2>1 DEF JobMap
<1>5. WithinAttempts(js)
  BY <1>1, <1>2 DEF Consistent, WithinAttempts
<1>6. /\ InStatus(js, "queued") = InStatus(jobs, "queued") \cup {nextId}
      /\ InStatus(js, "running") = InStatus(jobs, "running")
  BY <1>1, <1>2 DEF InStatus
<1>7. nextId \notin InQueue(queuedJobs)
  BY <1>1 DEF Consistent, Ordered, InStatus
<1>8. Ordered(js, queuedJobs) /\ Placed(js, queuedJobs, timers \cup {nextId})
  BY <1>6, <1>7 DEF Consistent, Ordered, Placed
<1>9. Slots(js, executing, activeCount, nextId + 1)
  <2>1. executing \subseteq 1..(nextId - 1)
    BY DEF Consistent, Slots
  <2>2. executing \subseteq 1..nextId /\ nextId \notin executing
    BY <1>1, <2>1
  <2>3. nextId + 1 - 1 = nextId
    BY <1>1
  <2> QED BY <1>2, <1>6, <2>2, <2>3 DEF Consistent, Slots
<1> QED BY <1>1, <1>2, <1>4, <1>5, <1>6, <1>8, <1>9 DEF Consistent, js

(* The end of an attempt: the slot is free, and the job is done or waits    *)
(* for its backoff timer with an attempt left.                             *)
LEMMA AttemptEndIsConsistent ==
  ASSUME NEW id \in executing \cap DOMAIN jobs, NEW js,
         Consistent(jobs, queuedJobs, executing, activeCount, timers, nextId),
         DOMAIN js = DOMAIN jobs, js = [j \in DOMAIN js |-> js[j]],
         \A j \in DOMAIN jobs : j # id => js[j] = jobs[j],
         js[id] \in Job, js[id].status \in {"completed", "failed", "queued"},
         js[id].status = "queued" => js[id].attempts < JobRetryAttempts,
         js[id].status = "failed" => js[id].attempts = JobRetryAttempts,
         NEW tm,
         tm = IF js[id].status = "queued" THEN timers \cup {id} ELSE timers
  PROVE  Consistent(js, queuedJobs, executing \ {id}, activeCount - 1, tm, nextId)
<1>1. jobs[id].status = "running"
  BY DEF Consistent, Slots, InStatus
<1>2. JobMap(js, nextId)
  BY DEF Consistent, JobMap
<1>3. WithinAttempts(js)
  BY DEF Consistent, WithinAttempts
<1>4. /\ InStatus(js, "running") = InStatus(jobs, "running") \ {id}
      /\ InStatus(js, "queued") = IF js[id].status = "queued"
                                  THEN InStatus(jobs, "queued") \cup {id}
                                  ELSE InStatus(jobs, "queued")
  BY <1>1 DEF InStatus
<1>5. id \notin InQueue(queuedJobs)
  BY <1>1 DEF Consistent, Ordered, InStatus
<1>6. Ordered(js, queuedJobs) /\ Placed(js, queuedJobs, tm)
  BY <1>4, <1>5 DEF Consistent, Ordered, Placed
<1>7. /\ executing \ {id} \subseteq 1..(nextId - 1)
      /\ activeCount - 1 = Cardinality(executing \ {id})
      /\ activeCount - 1 <= JobConcurrency
  <2>1. executing \in SUBSET (1..(nextId - 1)) /\ nextId \in 1..(MaxJobs + 1)
    BY DEF Consistent, Slots
  <2>2. IsFiniteSet(executing) /\ Cardinality(executing) \in Nat
    BY <2>1, JobIdsFinite
  <2>3. Cardinality(executing \ {id}) = Cardinality(executing) - 1
    BY <2>2, FS_RemoveElement
  <2> QED BY <2>1, <2>2, <2>3, JobQueueAssumption DEF Consistent, Slots
<1> QED BY <1>2, <1>3, <1>4, <1>6, <1>7 DEF Consistent, Slots

(* _enqueue() of a job that waits for a timer, or of one that no longer     *)
(* exists or waits, which it ignores.                                      *)
LEMMA EnqueueKeepsConsistent ==
  ASSUME NEW js, NEW tm, NEW n, NEW id \in tm, NEW armed \in BOOLEAN,
         Consistent(js, queuedJobs, executing, activeCount, tm, n),
         isProcessing \in BOOLEAN, isProcessing => handlers = Handled, NoIdleSlot,
         Enqueue(js, id, armed)
  PROVE  /\ Consistent(jobs', queuedJobs', executing', activeCount', tm \ {id}, n)
         /\ DOMAIN jobs' = DOMAIN js
         /\ executing' \ executing \subseteq DOMAIN js
         /\ persistTimer' \in BOOLEAN
         /\ isProcessing => queuedJobs' = << >> \/ activeCount' >= JobConcurrency
<1>1. CASE id \in InStatus(js, "queued")
  <2>1. PICK i \in 1..(Len(queuedJobs) + 1) :
          Process(js, InsertAt(queuedJobs, i, id), executing, activeCount,
                  isProcessing, armed)
    BY <1>1 DEF Enqueue
  <2>2. Consistent(js, InsertAt(queuedJobs, i, id), executing, activeCount, tm \ {id}, n)
    BY <1>1, InsertKeepsConsistent
  <2>3. persistTimer' \in BOOLEAN
    BY <2>1 DEF Process
  <2> DEFINE new == InsertAt(queuedJobs, i, id)
             rest == tm \ {id}
  <2> HIDE DEF new, rest
  <2>4. /\ Process(js, new, executing, activeCount, isProcessing, armed)
        /\ Consistent(js, new, executing, activeCount, rest, n)
        /\ isProcessing = TRUE => handlers = Handled
    BY <2>1, <2>2 DEF new, rest
  <2>5. /\ Consistent(jobs', queuedJobs', executing \cup (executing' \ executing),
                      activeCount', rest, n)
        /\ executing' = executing \cup (executing' \ executing)
        /\ DOMAIN jobs' = DOMAIN js
        /\ executing' \ executing \subseteq DOMAIN js
        /\ isProcessing = TRUE => queuedJobs' = << >> \/ activeCount' >= JobConcurrency
    BY ONLY <2>4, ProcessKeepsConsistent
  <2> QED BY <2>3, <2>5 DEF rest
<1>2. CASE id \notin InStatus(js, "queued")
  <2>1. /\ jobs' = js /\ queuedJobs' = queuedJobs /\ executing' = executing
        /\ activeCount' = activeCount /\ persistTimer' = armed
    BY <1>2 DEF Enqueue
  <2>2. Consistent(js, queuedJobs, executing, activeCount, tm \ {id}, n)
    BY <1>2 DEF Consistent, Placed
  <2> QED BY <2>1, <2>2 DEF NoIdleSlot
<1> QED BY <1>1, <1>2

-----------------------------------------------------------------------------
(* One lemma per action: each keeps the inductive invariant.               *)

LEMMA NextIdGrows ==
  ASSUME NEW n \in Nat, NEW m \in Nat, n <= m
  PROVE  1..(n - 1) \subseteq 1..(m - 1)
OBVIOUS

LEMMA SupersededType ==
  ASSUME OnlyChangesSupersede
  PROVE  persistFailed' \in BOOLEAN
BY DEF OnlyChangesSupersede

LEMMA JobsStaySuperseded ==
  ASSUME OnlyChangesSupersede, jobs' = jobs, persistFailed \in BOOLEAN
  PROVE  persistFailed' = persistFailed
<1>1. Recovered(jobs') = Recovered(jobs)
  OBVIOUS
<1> QED BY <1>1 DEF OnlyChangesSupersede

LEMMA AddKeepsIndInv ==
  ASSUME IndInv, NEW type \in Types, NEW priority \in Priorities, Add(type, priority)
  PROVE  IndInv'
<1>1. /\ phase \in {"up", "closing"} /\ nextId <= MaxJobs /\ nextId' = nextId + 1
      /\ UNCHANGED <<phase, isProcessing, handlers, file, timers, notDue>>
      /\ persistFailed' \in BOOLEAN
      /\ Enqueue(Added(type, priority), nextId, Persistent)
  BY SupersededType DEF Add, CanAdd
<1>2. Consistent(jobs, queuedJobs, executing, activeCount, timers, nextId)
      /\ BasicTypes /\ PhaseInv /\ FileInv /\ NoIdleSlot
  BY DEF IndInv
<1>3. /\ Consistent(Added(type, priority), queuedJobs, executing, activeCount,
                    timers \cup {nextId}, nextId + 1)
      /\ DOMAIN Added(type, priority) = DOMAIN jobs \cup {nextId}
  BY <1>1, <1>2, AddedIsConsistent
<1>4. /\ Consistent(jobs', queuedJobs', executing', activeCount',
                    (timers \cup {nextId}) \ {nextId}, nextId + 1)
      /\ DOMAIN jobs' = DOMAIN jobs \cup {nextId}
      /\ executing' \ executing \subseteq DOMAIN jobs \cup {nextId}
      /\ persistTimer' \in BOOLEAN
      /\ isProcessing => queuedJobs' = << >> \/ activeCount' >= JobConcurrency
  <2>1. /\ isProcessing \in BOOLEAN /\ (isProcessing => handlers = Handled) /\ NoIdleSlot
        /\ Persistent \in BOOLEAN /\ nextId \in timers \cup {nextId}
    BY <1>2, JobQueueAssumption DEF BasicTypes, PhaseInv
  <2>2. Enqueue(Added(type, priority), nextId, Persistent)
    BY <1>1
  <2> QED BY ONLY <1>3, <2>1, <2>2, EnqueueKeepsConsistent, Zenon
<1>5. nextId \in Nat /\ 1..(nextId - 1) \subseteq 1..(nextId' - 1) /\ nextId \notin timers
  <2>1. nextId \in Nat /\ nextId' \in Nat /\ nextId <= nextId'
    BY <1>1, <1>2, JobQueueAssumption DEF Consistent
  <2>2. nextId \notin 1..(nextId - 1)
    BY <2>1
  <2> QED BY <1>2, <2>1, <2>2, NextIdGrows DEF BasicTypes
<1>6. Consistent(jobs', queuedJobs', executing', activeCount', timers', nextId')
  <2>1. (timers \cup {nextId}) \ {nextId} = timers'
    BY <1>1, <1>5
  <2> QED BY <1>1, <1>4, <2>1
<1>7. BasicTypes'
  BY <1>1, <1>2, <1>4, <1>5 DEF BasicTypes
<1>8. PhaseInv'
  BY <1>1, <1>2, <1>4 DEF PhaseInv
<1>9. FileInv'
  BY <1>1, <1>2, <1>5 DEF FileInv, JobMap
<1> QED BY <1>1, <1>4, <1>6, <1>7, <1>8, <1>9 DEF IndInv, NoIdleSlot

LEMMA AddDelayedKeepsIndInv ==
  ASSUME IndInv, NEW type \in Types, NEW priority \in Priorities, AddDelayed(type, priority)
  PROVE  IndInv'
<1>1. /\ phase \in {"up", "closing"} /\ nextId <= MaxJobs /\ nextId' = nextId + 1
      /\ UNCHANGED <<phase, isProcessing, handlers, file, queuedJobs,
                     activeCount, executing>>
      /\ jobs' = Added(type, priority) /\ timers' = timers \cup {nextId}
      /\ notDue' = notDue \cup {nextId} /\ persistTimer' = Persistent
      /\ persistFailed' \in BOOLEAN
  BY SupersededType DEF AddDelayed, CanAdd
<1>2. Consistent(jobs, queuedJobs, executing, activeCount, timers, nextId)
      /\ BasicTypes /\ PhaseInv /\ FileInv /\ NoIdleSlot
  BY DEF IndInv
<1>3. /\ Consistent(jobs', queuedJobs', executing', activeCount', timers', nextId')
      /\ DOMAIN jobs' = DOMAIN jobs \cup {nextId}
  BY <1>1, <1>2, AddedIsConsistent
<1>4. /\ nextId \in 1..(nextId' - 1) /\ 1..(nextId - 1) \subseteq 1..(nextId' - 1)
  <2>1. nextId \in Nat /\ nextId >= 1 /\ nextId' = nextId + 1
    BY <1>1, <1>2, JobQueueAssumption DEF Consistent
  <2>2. nextId \in 1..(nextId' - 1)
    BY <2>1
  <2> QED BY <2>1, <2>2, NextIdGrows
<1>5. BasicTypes'
  BY <1>1, <1>2, <1>4, JobQueueAssumption DEF BasicTypes
<1>6. PhaseInv'
  BY <1>1, <1>2, <1>3 DEF PhaseInv
<1>7. FileInv'
  BY <1>1, <1>2, <1>4 DEF FileInv, JobMap
<1> QED BY <1>1, <1>2, <1>3, <1>5, <1>6, <1>7 DEF IndInv, NoIdleSlot

LEMMA CancelKeepsIndInv ==
  ASSUME IndInv, NEW id \in JobIds, Cancel(id)
  PROVE  IndInv'
<1>1. /\ phase # "down" /\ id \in DOMAIN jobs /\ jobs[id].status # "running"
      /\ jobs' = WithStatus(jobs, {id}, "cancelled")
      /\ UNCHANGED <<phase, activeCount, isProcessing, handlers, executing, timers,
                     file, notDue, nextId>>
      /\ persistTimer' = Persistent
      /\ persistFailed' \in BOOLEAN
  BY SupersededType DEF Cancel, Alive
<1>2. \/ id \notin InQueue(queuedJobs) /\ queuedJobs' = queuedJobs
      \/ \E k \in 1..Len(queuedJobs) :
           queuedJobs[k] = id /\ queuedJobs' = RemoveAt(queuedJobs, k)
  BY DEF Cancel, InQueue
<1>3. Consistent(jobs, queuedJobs, executing, activeCount, timers, nextId)
      /\ BasicTypes /\ PhaseInv /\ FileInv /\ NoIdleSlot
  BY DEF IndInv
<1>4. Consistent(jobs', queuedJobs', executing', activeCount', timers', nextId')
  BY <1>1, <1>2, <1>3, CancelKeepsConsistent
<1>5. BasicTypes'
  BY <1>1, <1>3, JobQueueAssumption DEF BasicTypes
<1>6. PhaseInv'
  <2>1. DOMAIN jobs' = DOMAIN jobs
    BY <1>1 DEF WithStatus
  <2>2. phase \notin {"closed", "reclosing"}
    BY <1>1, <1>3 DEF PhaseInv, NoJobs
  <2> QED BY <1>1, <1>3, <2>1, <2>2 DEF PhaseInv
<1>7. FileInv'
  BY <1>1, <1>3 DEF FileInv
<1>8. NoIdleSlot'
  <2> SUFFICES ASSUME isProcessing, queuedJobs = << >> PROVE queuedJobs' = << >>
    BY <1>1, <1>3 DEF NoIdleSlot
  <2> QED BY <1>2
<1> QED BY <1>4, <1>5, <1>6, <1>7, <1>8 DEF IndInv

LEMMA TimerFiresKeepsIndInv ==
  ASSUME IndInv, NEW id \in JobIds, TimerFires(id)
  PROVE  IndInv'
<1>1. /\ phase # "down" /\ id \in timers
      /\ timers' = timers \ {id} /\ notDue' = notDue \ {id}
      /\ UNCHANGED <<phase, isProcessing, handlers, file, nextId>>
      /\ persistFailed' \in BOOLEAN
  BY SupersededType DEF TimerFires, Alive
<1>2. Enqueue(jobs, id, persistTimer)
  BY DEF TimerFires
<1>3. Consistent(jobs, queuedJobs, executing, activeCount, timers, nextId)
      /\ BasicTypes /\ PhaseInv /\ FileInv /\ NoIdleSlot
  BY DEF IndInv
<1>4. /\ Consistent(jobs', queuedJobs', executing', activeCount', timers \ {id}, nextId)
      /\ DOMAIN jobs' = DOMAIN jobs
      /\ executing' \ executing \subseteq DOMAIN jobs
      /\ persistTimer' \in BOOLEAN
      /\ isProcessing => queuedJobs' = << >> \/ activeCount' >= JobConcurrency
  <2>1. /\ isProcessing \in BOOLEAN /\ (isProcessing => handlers = Handled) /\ NoIdleSlot
        /\ persistTimer \in BOOLEAN /\ id \in timers
    BY <1>1, <1>3 DEF BasicTypes, PhaseInv
  <2>2. Consistent(jobs, queuedJobs, executing, activeCount, timers, nextId)
    BY <1>3
  <2> QED BY ONLY <1>2, <2>1, <2>2, EnqueueKeepsConsistent, Zenon
<1>5. BasicTypes'
  BY <1>1, <1>3, <1>4 DEF BasicTypes
<1>6. PhaseInv'
  <2>1. phase \in {"closed", "reclosing"} => jobs' = NoJobs
    <3> SUFFICES ASSUME phase \in {"closed", "reclosing"} PROVE jobs' = NoJobs
      OBVIOUS
    <3>1. jobs = NoJobs /\ id \notin InStatus(jobs, "queued")
      BY <1>3 DEF PhaseInv, NoJobs, InStatus
    <3> QED BY <1>2, <3>1 DEF Enqueue
  <2> QED BY <1>1, <1>3, <1>4, <2>1 DEF PhaseInv
<1>7. FileInv'
  BY <1>1, <1>3 DEF FileInv
<1> QED BY <1>1, <1>4, <1>5, <1>6, <1>7 DEF IndInv, NoIdleSlot

(* The continuation of an attempt, once its outcome js is Consistent.       *)
LEMMA SettleKeepsIndInv ==
  ASSUME IndInv, NEW id \in executing \cap DOMAIN jobs, NEW js,
         Consistent(js, queuedJobs, executing \ {id}, activeCount - 1, timers', nextId),
         executing \ {id} \subseteq DOMAIN js, timers' \subseteq timers \cup {id},
         Settle(id, js)
  PROVE  IndInv'
<1>1. Process(js, queuedJobs, executing \ {id}, activeCount - 1, isProcessing, Persistent)
  BY DEF Settle
<1>2. /\ UNCHANGED <<phase, isProcessing, handlers, file, notDue, nextId>>
      /\ persistFailed' \in BOOLEAN
  BY SupersededType DEF Settle
<1>3. BasicTypes /\ PhaseInv /\ FileInv
  BY DEF IndInv
<1> DEFINE rest == executing \ {id}
           free == activeCount - 1
           tm == timers'
<1>4. /\ Process(js, queuedJobs, rest, free, isProcessing, Persistent)
      /\ Consistent(js, queuedJobs, rest, free, tm, nextId)
      /\ isProcessing = TRUE => handlers = Handled
  BY <1>1, <1>3 DEF PhaseInv
<1> HIDE DEF rest, free, tm
<1>5. /\ Consistent(jobs', queuedJobs', rest \cup (executing' \ rest), activeCount', tm, nextId)
      /\ executing' = rest \cup (executing' \ rest)
      /\ DOMAIN jobs' = DOMAIN js
      /\ executing' \ rest \subseteq DOMAIN js
      /\ isProcessing = TRUE => queuedJobs' = << >> \/ activeCount' >= JobConcurrency
  BY ONLY <1>4, ProcessKeepsConsistent
<1>6. Consistent(jobs', queuedJobs', executing', activeCount', timers', nextId')
  BY <1>2, <1>5 DEF tm
<1>7. persistTimer' \in BOOLEAN
  BY <1>1 DEF Process
<1>8. timers' \subseteq 1..(nextId - 1)
  BY <1>3 DEF BasicTypes, IndInv, Consistent, Slots
<1>9. BasicTypes'
  BY <1>2, <1>3, <1>7, <1>8 DEF BasicTypes
<1>10. PhaseInv'
  <2>1. phase \notin {"down", "closed", "reclosing"}
    BY <1>3 DEF PhaseInv, NoJobs
  <2>2. executing' \subseteq DOMAIN jobs'
    BY <1>5 DEF rest
  <2> QED BY <1>2, <1>3, <2>1, <2>2 DEF PhaseInv
<1>11. FileInv'
  BY <1>2, <1>3 DEF FileInv
<1> QED BY <1>2, <1>3, <1>5, <1>6, <1>9, <1>10, <1>11 DEF IndInv, NoIdleSlot, BasicTypes

LEMMA CompleteKeepsIndInv ==
  ASSUME IndInv, NEW id \in JobIds, Complete(id)
  PROVE  IndInv'
<1> DEFINE js == WithStatus(jobs, {id}, "completed")
<1>1. /\ id \in executing \cap DOMAIN jobs /\ Settle(id, Evict(js)) /\ timers' = timers
  BY DEF Complete
<1>2. Consistent(jobs, queuedJobs, executing, activeCount, timers, nextId)
      /\ \A j \in DOMAIN jobs : jobs[j] \in Job
  BY DEF IndInv, Consistent, JobMap
<1>3. /\ DOMAIN js = DOMAIN jobs /\ js = [j \in DOMAIN js |-> js[j]]
      /\ \A j \in DOMAIN jobs : j # id => js[j] = jobs[j]
      /\ js[id] = [jobs[id] EXCEPT !.status = "completed"]
  BY <1>1 DEF WithStatus
<1> HIDE DEF js
<1>4. js[id] \in Job /\ js[id].status = "completed"
  BY <1>1, <1>2, <1>3, SMT DEF Job, Status, Terminal
<1>5. Consistent(js, queuedJobs, executing \ {id}, activeCount - 1, timers, nextId)
  <2> DEFINE tm == timers
  <2>1. tm = IF js[id].status = "queued" THEN timers \cup {id} ELSE timers
    BY <1>4
  <2> HIDE DEF tm
  <2>2. Consistent(js, queuedJobs, executing \ {id}, activeCount - 1, tm, nextId)
    BY <1>1, <1>2, <1>3, <1>4, <2>1, AttemptEndIsConsistent
  <2> QED BY <2>2 DEF tm
<1>6. executing \ {id} \subseteq DOMAIN js
  BY <1>1, <1>3 DEF IndInv, PhaseInv, NoJobs
<1>7. /\ Consistent(Evict(js), queuedJobs, executing \ {id}, activeCount - 1, timers, nextId)
      /\ executing \ {id} \subseteq DOMAIN Evict(js)
  BY <1>5, <1>6, EvictKeepsConsistent
<1>8. Consistent(Evict(js), queuedJobs, executing \ {id}, activeCount - 1, timers', nextId)
  BY <1>1, <1>7
<1> QED BY <1>1, <1>7, <1>8, SettleKeepsIndInv

LEMMA FailAttemptKeepsIndInv ==
  ASSUME IndInv, NEW id \in JobIds, FailAttempt(id)
  PROVE  IndInv'
<1> USE JobQueueAssumption
<1>1. id \in executing \cap DOMAIN jobs
  BY DEF FailAttempt
<1>2. /\ Consistent(jobs, queuedJobs, executing, activeCount, timers, nextId)
      /\ jobs[id] \in Job /\ jobs[id].attempts < JobRetryAttempts
  BY <1>1 DEF IndInv, Consistent, JobMap, Slots, InStatus, WithinAttempts
<1>3. jobs[id].attempts \in Nat /\ jobs[id].attempts + 1 \in 0..JobRetryAttempts
  BY <1>2 DEF Job
<1>4. ASSUME NEW status \in {"queued", "failed"}
      PROVE  LET js == Attempted(id, status)
             IN  /\ DOMAIN js = DOMAIN jobs /\ js = [j \in DOMAIN js |-> js[j]]
                 /\ \A j \in DOMAIN jobs : j # id => js[j] = jobs[j]
                 /\ js[id] \in Job /\ js[id].status = status
                 /\ js[id].attempts = jobs[id].attempts + 1
  <2> DEFINE js == Attempted(id, status)
  <2>1. jobs = [j \in DOMAIN jobs |-> jobs[j]]
    BY DEF IndInv, Consistent, JobMap
  <2>2. /\ DOMAIN js = DOMAIN jobs /\ js = [j \in DOMAIN js |-> js[j]]
        /\ \A j \in DOMAIN jobs : j # id => js[j] = jobs[j]
        /\ js[id] = [jobs[id] EXCEPT !.attempts = @ + 1, !.status = status]
    BY <1>1, <2>1 DEF Attempted
  <2> HIDE DEF js
  <2>3. js[id] \in Job /\ js[id].status = status /\ js[id].attempts = jobs[id].attempts + 1
    <3> DEFINE before == jobs[id]
               after == js[id]
    <3>1. /\ before \in Job /\ before.attempts \in Nat
          /\ before.attempts + 1 \in 0..JobRetryAttempts
          /\ after = [before EXCEPT !.attempts = @ + 1, !.status = status]
      BY <1>2, <1>3, <2>2
    <3> HIDE DEF before, after
    <3>2. after \in Job /\ after.status = status /\ after.attempts = before.attempts + 1
      BY ONLY <3>1, status \in {"queued", "failed"} DEF Job, Status, Terminal
    <3> QED BY <3>2 DEF before, after
  <2> QED BY <2>2, <2>3 DEF js
<1>5. executing \ {id} \subseteq DOMAIN jobs
  BY <1>1 DEF IndInv, PhaseInv, NoJobs
<1>6. CASE /\ jobs[id].attempts + 1 < JobRetryAttempts
           /\ Settle(id, Attempted(id, "queued")) /\ timers' = timers \cup {id}
  <2> DEFINE js == Attempted(id, "queued")
             tm == timers'
  <2>1. /\ DOMAIN js = DOMAIN jobs /\ js = [j \in DOMAIN js |-> js[j]]
        /\ \A j \in DOMAIN jobs : j # id => js[j] = jobs[j]
        /\ js[id] \in Job /\ js[id].status = "queued"
        /\ js[id].attempts < JobRetryAttempts
        /\ tm = IF js[id].status = "queued" THEN timers \cup {id} ELSE timers
    BY <1>4, <1>6
  <2>2. Settle(id, js)
    BY <1>6
  <2> HIDE DEF js, tm
  <2>3. Consistent(js, queuedJobs, executing \ {id}, activeCount - 1, tm, nextId)
    BY <1>1, <1>2, <2>1, AttemptEndIsConsistent
  <2> QED BY <1>1, <1>5, <1>6, <2>1, <2>2, <2>3, SettleKeepsIndInv DEF tm
<1>7. CASE /\ jobs[id].attempts + 1 >= JobRetryAttempts
           /\ Settle(id, Evict(Attempted(id, "failed"))) /\ timers' = timers
  <2> DEFINE js == Attempted(id, "failed")
             tm == timers'
  <2>1. /\ DOMAIN js = DOMAIN jobs /\ js = [j \in DOMAIN js |-> js[j]]
        /\ \A j \in DOMAIN jobs : j # id => js[j] = jobs[j]
        /\ js[id] \in Job /\ js[id].status = "failed"
        /\ js[id].attempts = JobRetryAttempts
        /\ tm = IF js[id].status = "queued" THEN timers \cup {id} ELSE timers
    BY <1>3, <1>4, <1>7
  <2>2. Settle(id, Evict(js))
    BY <1>7
  <2> HIDE DEF js, tm
  <2>3. Consistent(js, queuedJobs, executing \ {id}, activeCount - 1, tm, nextId)
    BY <1>1, <1>2, <2>1, AttemptEndIsConsistent
  <2>4. /\ Consistent(Evict(js), queuedJobs, executing \ {id}, activeCount - 1, tm, nextId)
        /\ executing \ {id} \subseteq DOMAIN Evict(js)
    BY <1>5, <2>1, <2>3, EvictKeepsConsistent
  <2> QED BY <1>1, <1>7, <2>2, <2>4, SettleKeepsIndInv DEF tm
<1> QED BY <1>6, <1>7 DEF FailAttempt

LEMMA SettleAfterCloseKeepsIndInv ==
  ASSUME IndInv, NEW id \in JobIds, SettleAfterClose(id)
  PROVE  IndInv'
<1>1. /\ id \in executing \ DOMAIN jobs
      /\ timers' = timers \/ timers' = timers \cup {id}
      /\ executing' = executing \ {id} /\ activeCount' = activeCount - 1
      /\ persistTimer' = Persistent
      /\ UNCHANGED <<phase, jobs, queuedJobs, isProcessing, handlers, persistFailed,
                     file, notDue, nextId>>
  BY DEF SettleAfterClose
<1>2. Consistent(jobs, queuedJobs, executing, activeCount, timers, nextId)
      /\ BasicTypes /\ PhaseInv /\ FileInv /\ NoIdleSlot
  BY DEF IndInv
<1>3. phase \in {"closed", "reclosing"} /\ jobs = NoJobs
  BY <1>1, <1>2 DEF PhaseInv
<1>4. InStatus(jobs, "queued") = {} /\ InStatus(jobs, "running") = {}
  BY <1>3 DEF InStatus, NoJobs
<1>5. executing \in SUBSET (1..(nextId - 1)) /\ nextId \in 1..(MaxJobs + 1)
  BY <1>2 DEF Consistent, Slots
<1>6. IsFiniteSet(executing) /\ Cardinality(executing) \in Nat
  BY <1>5, JobIdsFinite
<1>7. Cardinality(executing \ {id}) = Cardinality(executing) - 1
  BY <1>1, <1>6, FS_RemoveElement
<1>8. Slots(jobs', executing', activeCount', nextId')
  BY <1>1, <1>2, <1>3, <1>4, <1>5, <1>6, <1>7, JobQueueAssumption
     DEF Consistent, Slots, NoJobs
<1>9. Placed(jobs', queuedJobs', timers')
  BY <1>1, <1>2, <1>4 DEF Consistent, Ordered, Placed
<1>10. Consistent(jobs', queuedJobs', executing', activeCount', timers', nextId')
  BY <1>1, <1>2, <1>8, <1>9 DEF Consistent
<1>11. BasicTypes'
  BY <1>1, <1>2, <1>5, JobQueueAssumption DEF BasicTypes
<1>12. PhaseInv' /\ NoIdleSlot'
  BY <1>1, <1>2, <1>3 DEF PhaseInv, NoIdleSlot
<1>13. FileInv'
  BY <1>1, <1>2 DEF FileInv
<1> QED BY <1>10, <1>11, <1>12, <1>13 DEF IndInv

LEMMA PersistFlushKeepsIndInv ==
  ASSUME IndInv, PersistFlush
  PROVE  IndInv'
<1>1. /\ persistTimer' = FALSE
      /\ UNCHANGED <<phase, jobs, queuedJobs, activeCount, isProcessing, handlers,
                     executing, timers, notDue, nextId>>
      /\ file' = Snapshot \/ file' = file
      /\ persistFailed' \in BOOLEAN
  BY DEF PersistFlush, PersistNow, IndInv, BasicTypes
<1>2. FileInv'
  BY <1>1 DEF FileInv, Snapshot, IndInv, Consistent
<1> QED BY <1>1, <1>2 DEF IndInv, BasicTypes, PhaseInv, NoIdleSlot

LEMMA StartKeepsIndInv ==
  ASSUME IndInv, Start
  PROVE  IndInv'
<1>1. /\ phase = "up" /\ handlers = Handled /\ isProcessing' = TRUE
      /\ UNCHANGED <<phase, handlers, timers, file, notDue, nextId>>
      /\ persistFailed' \in BOOLEAN
  BY SupersededType DEF Start
<1>2. Consistent(jobs, queuedJobs, executing, activeCount, timers, nextId)
      /\ BasicTypes /\ PhaseInv /\ FileInv
  BY DEF IndInv
<1>3. Process(jobs, queuedJobs, executing, activeCount, TRUE, persistTimer)
  BY DEF Start
<1>4. /\ Consistent(jobs', queuedJobs', executing \cup (executing' \ executing),
                    activeCount', timers, nextId)
      /\ executing' = executing \cup (executing' \ executing)
      /\ DOMAIN jobs' = DOMAIN jobs
      /\ executing' \ executing \subseteq DOMAIN jobs
      /\ TRUE = TRUE => queuedJobs' = << >> \/ activeCount' >= JobConcurrency
  <2>1. /\ Consistent(jobs, queuedJobs, executing, activeCount, timers, nextId)
        /\ TRUE = TRUE => handlers = Handled
    BY <1>1, <1>2
  <2> QED BY ONLY <1>3, <2>1, ProcessKeepsConsistent
<1>5. persistTimer' \in BOOLEAN
  BY <1>2, <1>3 DEF Process, BasicTypes
<1>6. Consistent(jobs', queuedJobs', executing', activeCount', timers', nextId')
  BY <1>1, <1>4
<1>7. BasicTypes'
  BY <1>1, <1>2, <1>5 DEF BasicTypes
<1>8. PhaseInv'
  BY <1>1, <1>2, <1>4 DEF PhaseInv
<1>9. FileInv'
  BY <1>1, <1>2 DEF FileInv
<1> QED BY <1>1, <1>4, <1>6, <1>7, <1>8, <1>9 DEF IndInv, NoIdleSlot

LEMMA SwitchKeepsIndInv ==
  ASSUME IndInv, RegisterHandlers \/ Stop \/ CloseBegin
  PROVE  IndInv'
<1>1. /\ UNCHANGED <<jobs, queuedJobs, activeCount, executing, timers, persistTimer,
                     persistFailed, file, notDue, nextId>>
      /\ isProcessing' = isProcessing \/ isProcessing' = FALSE
      /\ handlers' = handlers \/ handlers' = Handled
  BY DEF RegisterHandlers, Stop, CloseBegin
<1>2. Consistent(jobs, queuedJobs, executing, activeCount, timers, nextId)' /\ FileInv'
  BY <1>1 DEF IndInv, FileInv
<1>3. BasicTypes' /\ NoIdleSlot'
  <2>1. BasicTypes'
    BY <1>1 DEF IndInv, BasicTypes
  <2>2. CASE isProcessing' = isProcessing
    BY <1>1, <2>1, <2>2 DEF IndInv, NoIdleSlot
  <2>3. CASE isProcessing' = FALSE
    BY <2>1, <2>3 DEF NoIdleSlot
  <2> QED BY <1>1, <2>1, <2>2, <2>3
<1>4. PhaseInv'
  BY DEF RegisterHandlers, Stop, CloseBegin, IndInv, PhaseInv
<1> QED BY <1>2, <1>3, <1>4 DEF IndInv

(* An empty job map: what close() and the death of the process leave.      *)
LEMMA EmptyIsConsistent ==
  ASSUME NEW exec, NEW active, NEW tm, NEW n \in 1..(MaxJobs + 1),
         exec \subseteq 1..(n - 1), active = Cardinality(exec), active <= JobConcurrency
  PROVE  Consistent(NoJobs, << >>, exec, active, tm, n)
<1>1. /\ DOMAIN NoJobs = {} /\ NoJobs = [id \in DOMAIN NoJobs |-> NoJobs[id]]
      /\ InStatus(NoJobs, "queued") = {} /\ InStatus(NoJobs, "running") = {}
  BY DEF NoJobs, InStatus
<1>2. << >> \in Seq(JobIds) /\ Len(<< >>) = 0 /\ InQueue(<< >>) = {}
  BY SMT DEF InQueue
<1>3. JobMap(NoJobs, n) /\ WithinAttempts(NoJobs)
  BY <1>1 DEF JobMap, WithinAttempts
<1>4. Ordered(NoJobs, << >>)
  BY <1>1, <1>2 DEF Ordered
<1>5. Placed(NoJobs, << >>, tm)
  BY <1>1, <1>2 DEF Placed
<1> QED BY <1>1, <1>3, <1>4, <1>5 DEF Consistent, Slots

LEMMA CloseFinishKeepsIndInv ==
  ASSUME IndInv, CloseFinish
  PROVE  IndInv'
<1>1. /\ phase \in {"closing", "reclosing"} /\ phase' = "closed"
      /\ jobs' = NoJobs /\ queuedJobs' = << >> /\ handlers' = {} /\ persistTimer' = FALSE
      /\ UNCHANGED <<activeCount, isProcessing, executing, timers, notDue, nextId>>
      /\ file' = Snapshot \/ file' = file
      /\ persistFailed' \in BOOLEAN
  BY DEF CloseFinish, PersistNow, IndInv, BasicTypes
<1>2. ~ isProcessing
  BY <1>1 DEF IndInv, PhaseInv
<1>3. FileInv'
  BY <1>1 DEF FileInv, Snapshot, IndInv, Consistent
<1>4. Consistent(jobs', queuedJobs', executing', activeCount', timers', nextId')
  BY <1>1, EmptyIsConsistent DEF IndInv, Consistent, Slots
<1>5. BasicTypes' /\ PhaseInv' /\ NoIdleSlot'
  BY <1>1, <1>2 DEF IndInv, BasicTypes, PhaseInv, NoIdleSlot
<1> QED BY <1>3, <1>4, <1>5 DEF IndInv

LEMMA DieKeepsIndInv ==
  ASSUME IndInv, Die
  PROVE  IndInv'
<1>1. /\ phase' = "down" /\ jobs' = NoJobs /\ queuedJobs' = << >>
      /\ activeCount' = 0 /\ isProcessing' = FALSE
      /\ handlers' = {} /\ executing' = {} /\ timers' = {}
      /\ persistTimer' = FALSE /\ persistFailed' = FALSE
      /\ UNCHANGED <<file, notDue, nextId>>
  BY DEF Die
<1>2. nextId \in 1..(MaxJobs + 1) /\ BasicTypes /\ FileInv
  BY DEF IndInv, Consistent
<1>3. Consistent(jobs', queuedJobs', executing', activeCount', timers', nextId')
  <2>1. Cardinality({}) = 0 /\ {} \subseteq 1..(nextId - 1)
    BY FS_EmptySet
  <2>2. Consistent(NoJobs, << >>, {}, 0, {}, nextId)
    BY <1>2, <2>1, EmptyIsConsistent, JobQueueAssumption
  <2> QED BY <1>1, <2>2
<1>4. BasicTypes' /\ PhaseInv' /\ NoIdleSlot'
  BY <1>1, <1>2 DEF BasicTypes, PhaseInv, NoIdleSlot
<1>5. FileInv'
  BY <1>1, <1>2 DEF FileInv
<1> QED BY <1>3, <1>4, <1>5 DEF IndInv

(* What the constructor finds on the disk, a FileInv snapshot, becomes a    *)
(* Consistent queue: kept places first, then the jobs the order misses.     *)
LEMMA EnumerationFacts ==
  ASSUME NEW S \in SUBSET Int, NEW e \in InOrder(S), IsFiniteSet(S)
  PROVE  /\ e \in Seq(S) /\ Len(e) = Cardinality(S) /\ Cardinality(S) \in Nat
         /\ InQueue(e) = S
         /\ \A i, j \in 1..Len(e) : i # j => e[i] # e[j]
<1>1. Cardinality(S) \in Nat
  BY FS_CardinalityType
<1>2. /\ e \in [1..Cardinality(S) -> S]
      /\ \A i, j \in 1..Cardinality(S) : i < j => e[i] < e[j]
      /\ \A x \in S : \E i \in 1..Cardinality(S) : e[i] = x
  BY DEF InOrder
<1>3. e \in Seq(S) /\ Len(e) = Cardinality(S)
  BY <1>1, <1>2, SMT
<1>4. InQueue(e) = S
  BY <1>2, <1>3 DEF InQueue
<1>5. ASSUME NEW i \in 1..Len(e), NEW j \in 1..Len(e), i # j PROVE e[i] # e[j]
  <2>1. e[i] \in Int /\ e[j] \in Int /\ i \in Int /\ j \in Int
    <3>1. e[i] \in S /\ e[j] \in S
      BY <1>2, <1>3
    <3>2. e[i] \in Int /\ e[j] \in Int
      BY <3>1
    <3>3. i \in Int /\ j \in Int
      OBVIOUS
    <3> QED BY <3>2, <3>3
  <2>2. i < j \/ j < i
    BY <1>5, <2>1
  <2>3. e[i] < e[j] \/ e[j] < e[i]
    BY <1>2, <1>3, <2>2
  <2> QED BY <2>1, <2>3
<1> QED BY <1>1, <1>3, <1>4, <1>5

LEMMA WiderSeq ==
  ASSUME NEW S, NEW T, S \subseteq T, NEW e \in Seq(S)
  PROVE  e \in Seq(T)
BY SMT

LEMMA ConcatKeepsDistinct ==
  ASSUME NEW p \in Seq(JobIds), NEW q \in Seq(JobIds),
         \A i, j \in 1..Len(p) : i # j => p[i] # p[j],
         \A i, j \in 1..Len(q) : i # j => q[i] # q[j],
         InQueue(p) \cap InQueue(q) = {}
  PROVE  /\ p \o q \in Seq(JobIds) /\ InQueue(p \o q) = InQueue(p) \cup InQueue(q)
         /\ \A i, j \in 1..Len(p \o q) : i # j => (p \o q)[i] # (p \o q)[j]
<1> DEFINE r == p \o q
<1>1. /\ r \in Seq(JobIds) /\ Len(r) = Len(p) + Len(q)
      /\ \A i \in 1..(Len(p) + Len(q)) : r[i] = IF i <= Len(p) THEN p[i] ELSE q[i - Len(p)]
  BY SMT
<1>2. Len(p) \in Nat /\ Len(q) \in Nat
  BY SMT
<1> HIDE DEF r
<1>3. \A i \in 1..Len(p) : i \in 1..Len(r) /\ r[i] = p[i]
  BY <1>1, <1>2
<1>4. ASSUME NEW i \in 1..Len(q) PROVE Len(p) + i \in 1..Len(r) /\ r[Len(p) + i] = q[i]
  <2>1. /\ Len(p) + i \in 1..(Len(p) + Len(q)) /\ ~ (Len(p) + i <= Len(p))
        /\ (Len(p) + i) - Len(p) = i
    BY <1>2
  <2> QED BY <1>1, <2>1
<1>5. ASSUME NEW i \in 1..Len(r)
      PROVE  \/ i \in 1..Len(p) /\ r[i] = p[i]
             \/ i - Len(p) \in 1..Len(q) /\ r[i] = q[i - Len(p)] /\ i > Len(p)
  BY <1>1, <1>2
<1>6. InQueue(r) \subseteq InQueue(p) \cup InQueue(q)
  BY <1>5 DEF InQueue
<1>7. InQueue(p) \subseteq InQueue(r)
  BY <1>3 DEF InQueue
<1>8. InQueue(q) \subseteq InQueue(r)
  BY <1>4 DEF InQueue
<1>9. \A i \in 1..Len(p), j \in 1..Len(q) : p[i] # q[j]
  BY DEF InQueue
<1>10. ASSUME NEW i \in 1..Len(r), NEW j \in 1..Len(r), i # j PROVE r[i] # r[j]
  <2>1. CASE i \in 1..Len(p) /\ j \in 1..Len(p)
    BY <1>3, <1>10, <2>1
  <2>2. CASE i \in 1..Len(p) /\ j \notin 1..Len(p)
    BY <1>3, <1>5, <1>9, <2>2
  <2>3. CASE i \notin 1..Len(p) /\ j \in 1..Len(p)
    BY <1>3, <1>5, <1>9, <2>3
  <2>4. CASE i \notin 1..Len(p) /\ j \notin 1..Len(p)
    <3>1. i - Len(p) \in 1..Len(q) /\ j - Len(p) \in 1..Len(q)
          /\ r[i] = q[i - Len(p)] /\ r[j] = q[j - Len(p)]
      BY <1>5, <2>4
    <3>2. i - Len(p) # j - Len(p)
      BY <1>2, <1>10
    <3> QED BY <3>1, <3>2
  <2> QED BY <2>1, <2>2, <2>3, <2>4
<1> QED BY <1>1, <1>6, <1>7, <1>8, <1>10 DEF r

LEMMA LoadKeepsIndInv ==
  ASSUME IndInv, Load
  PROVE  IndInv'
<1> USE JobQueueAssumption
<1>1. /\ phase = "down" /\ phase' = "up" /\ jobs' = Recovered(file.jobs)
      /\ notDue' \subseteq notDue /\ timers' = Unlisted(jobs') \cap notDue'
      /\ UNCHANGED <<activeCount, isProcessing, handlers, executing, persistTimer,
                     persistFailed, file, nextId>>
  BY DEF Load
<1>2. PICK kept \in InOrder(KeptPlaces(jobs')), late \in InOrder(Unlisted(jobs') \ notDue') :
        queuedJobs' = [i \in DOMAIN kept |-> file.queueOrder[kept[i]]] \o late
  BY DEF Load
<1>3. /\ BasicTypes /\ PhaseInv /\ FileInv /\ executing = {} /\ activeCount = 0
      /\ nextId \in 1..(MaxJobs + 1) /\ ~ isProcessing
  BY <1>1 DEF IndInv, PhaseInv, Consistent
<1> DEFINE js == file.jobs
           order == file.queueOrder
<1>4. /\ JobMap(js, nextId) /\ WithinAttempts(js) /\ Ordered(js, order)
      /\ \A id \in DOMAIN js : js[id] \in Job
  BY <1>3 DEF FileInv, JobMap
<1>5. /\ DOMAIN jobs' = DOMAIN js /\ jobs' = [id \in DOMAIN jobs' |-> jobs'[id]]
      /\ \A id \in DOMAIN js : jobs'[id] = IF js[id].status = "running"
                                          THEN [js[id] EXCEPT !.status = "queued"] ELSE js[id]
  BY <1>1 DEF Recovered, WithStatus, InStatus
<1> HIDE DEF js
<1>6. \A id \in DOMAIN js :
        /\ jobs'[id] \in Job
        /\ jobs'[id].type = js[id].type /\ jobs'[id].attempts = js[id].attempts
        /\ jobs'[id].status = IF js[id].status = "running" THEN "queued" ELSE js[id].status
  BY <1>4, <1>5, SMT DEF Job, Status, Terminal
<1>7. JobMap(jobs', nextId)
  BY <1>4, <1>5, <1>6 DEF JobMap
<1>8. WithinAttempts(jobs')
  BY <1>4, <1>5, <1>6 DEF WithinAttempts
<1>9. /\ InStatus(jobs', "running") = {}
      /\ InStatus(js, "queued") \subseteq InStatus(jobs', "queued")
  BY <1>5, <1>6 DEF InStatus
<1>10. /\ order \in Seq(JobIds) /\ Len(order) \in Nat
       /\ \A i, j \in 1..Len(order) : i # j => order[i] # order[j]
       /\ \A i \in 1..Len(order) : order[i] \in InStatus(jobs', "queued")
  BY <1>4, <1>9 DEF Ordered, InQueue
<1> DEFINE first == [i \in DOMAIN kept |-> order[kept[i]]]
           overdue == Unlisted(jobs') \ notDue'
<1>11. KeptPlaces(jobs') = 1..Len(order)
  BY <1>1, <1>10 DEF KeptPlaces
<1>12. Unlisted(jobs') = InStatus(jobs', "queued") \ InQueue(order)
  BY <1>1, <1>11 DEF Unlisted, InQueue
<1> HIDE DEF order
<1>13. /\ kept \in Seq(1..Len(order)) /\ Len(kept) \in Nat /\ InQueue(kept) = 1..Len(order)
       /\ \A i, j \in 1..Len(kept) : i # j => kept[i] # kept[j]
  <2>1. IsFiniteSet(1..Len(order)) /\ 1..Len(order) \in SUBSET Int
    BY <1>10, FS_Interval
  <2>2. kept \in InOrder(1..Len(order))
    BY <1>2, <1>11
  <2> HIDE DEF InOrder
  <2> QED BY <2>1, <2>2, EnumerationFacts, FS_CardinalityType
<1>14. /\ first \in Seq(JobIds) /\ Len(first) = Len(kept)
       /\ \A i \in 1..Len(kept) : first[i] = order[kept[i]]
  <2>1. \A i \in 1..Len(kept) : kept[i] \in 1..Len(order) /\ order[kept[i]] \in JobIds
    BY <1>10, <1>13
  <2>2. DOMAIN kept = 1..Len(kept)
    BY <1>13
  <2> QED BY <1>13, <2>1, <2>2
<1> HIDE DEF first
<1>15. InQueue(first) = InQueue(order)
  BY <1>13, <1>14 DEF InQueue
<1>16. \A i, j \in 1..Len(first) : i # j => first[i] # first[j]
  <2>1. \A i \in 1..Len(kept) : kept[i] \in 1..Len(order)
    BY <1>13
  <2> QED BY <1>10, <1>13, <1>14, <2>1
<1>17. /\ overdue \subseteq InStatus(jobs', "queued") /\ overdue \cap InQueue(order) = {}
       /\ overdue \subseteq JobIds /\ overdue \in SUBSET (1..(nextId - 1))
       /\ overdue \in SUBSET Int
  <2>1. overdue \subseteq InStatus(jobs', "queued") /\ overdue \cap InQueue(order) = {}
    BY <1>12
  <2>2. overdue \in SUBSET (1..(nextId - 1))
    BY <1>7, <2>1 DEF JobMap, InStatus
  <2> QED BY <1>3, <2>1, <2>2 DEF JobIds
<1>18. /\ late \in Seq(overdue) /\ InQueue(late) = overdue
       /\ \A i, j \in 1..Len(late) : i # j => late[i] # late[j]
  <2>1. IsFiniteSet(overdue)
    BY <1>3, <1>17, JobIdsFinite
  <2>2. late \in InOrder(overdue)
    BY <1>2
  <2> HIDE DEF overdue
  <2> QED BY <1>17, <2>1, <2>2, EnumerationFacts
<1> HIDE DEF overdue
<1>19. late \in Seq(JobIds)
  BY <1>17, <1>18, WiderSeq
<1>20. queuedJobs' = first \o late
  BY <1>2 DEF first, order
<1>21. /\ queuedJobs' \in Seq(JobIds) /\ InQueue(queuedJobs') = InQueue(order) \cup overdue
       /\ \A i, j \in 1..Len(queuedJobs') : i # j => queuedJobs'[i] # queuedJobs'[j]
  <2>1. InQueue(first) \cap InQueue(late) = {}
    BY <1>15, <1>17, <1>18
  <2>2. /\ first \o late \in Seq(JobIds)
        /\ InQueue(first \o late) = InQueue(first) \cup InQueue(late)
        /\ \A i, j \in 1..Len(first \o late) : i # j => (first \o late)[i] # (first \o late)[j]
    BY ONLY <1>14, <1>16, <1>18, <1>19, <2>1, ConcatKeepsDistinct
  <2> QED BY <1>15, <1>18, <1>20, <2>2
<1>22. InQueue(order) \subseteq InStatus(jobs', "queued")
  BY <1>10 DEF InQueue
<1>23. Ordered(jobs', queuedJobs')
  BY <1>17, <1>21, <1>22 DEF Ordered
<1>24. Placed(jobs', queuedJobs', timers')
  <2>1. timers' = (InStatus(jobs', "queued") \ InQueue(order)) \cap notDue'
        /\ overdue = (InStatus(jobs', "queued") \ InQueue(order)) \ notDue'
    BY <1>1, <1>12 DEF overdue
  <2> QED BY <1>21, <2>1 DEF Placed
<1>25. Slots(jobs', executing', activeCount', nextId')
  BY <1>1, <1>3, <1>9, FS_EmptySet DEF Slots
<1>26. Consistent(jobs', queuedJobs', executing', activeCount', timers', nextId')
  BY <1>1, <1>3, <1>7, <1>8, <1>23, <1>24, <1>25 DEF Consistent
<1>27. BasicTypes'
  <2>1. timers' \subseteq notDue
    BY <1>1
  <2> QED BY <1>1, <1>3, <2>1 DEF BasicTypes
<1>28. PhaseInv' /\ NoIdleSlot'
  BY <1>1, <1>3 DEF PhaseInv, NoIdleSlot
<1>29. FileInv'
  BY <1>1, <1>3 DEF FileInv
<1> QED BY <1>26, <1>27, <1>28, <1>29 DEF IndInv

-----------------------------------------------------------------------------
(* The theorems *)

LEMMA InitIndInv == Init => IndInv
<1> SUFFICES ASSUME Init PROVE IndInv
  OBVIOUS
<1>1. 1 \in 1..(MaxJobs + 1) /\ Cardinality({}) = 0 /\ {} \subseteq 1..(1 - 1)
  BY FS_EmptySet, JobQueueAssumption
<1>2. Consistent(NoJobs, << >>, {}, 0, {}, 1)
  BY <1>1, EmptyIsConsistent, JobQueueAssumption
<1>3. Consistent(jobs, queuedJobs, executing, activeCount, timers, nextId)
  BY <1>2 DEF Init
<1>4. FileInv
  BY <1>2 DEF Init, EmptySnapshot, FileInv, Consistent
<1>5. BasicTypes /\ PhaseInv /\ NoIdleSlot
  BY DEF Init, BasicTypes, PhaseInv, NoIdleSlot
<1> QED BY <1>3, <1>4, <1>5 DEF IndInv

LEMMA NextKeepsIndInv == IndInv /\ [Next]_vars => IndInv'
<1> SUFFICES ASSUME IndInv, [Next]_vars PROVE IndInv'
  OBVIOUS
<1>1. CASE UNCHANGED vars
  BY <1>1 DEF vars, memory, IndInv, BasicTypes, PhaseInv, FileInv, NoIdleSlot
<1>2. CASE \E type \in Types, priority \in Priorities :
             Add(type, priority) \/ AddDelayed(type, priority)
  BY <1>2, AddKeepsIndInv, AddDelayedKeepsIndInv
<1>3. ASSUME NEW id \in JobIds, JobStep(id) PROVE IndInv'
  BY <1>3, CancelKeepsIndInv, TimerFiresKeepsIndInv, CompleteKeepsIndInv,
     FailAttemptKeepsIndInv, SettleAfterCloseKeepsIndInv DEF JobStep, Reject, Timeout
<1>4. CASE PersistFlush
  BY <1>4, PersistFlushKeepsIndInv
<1>5. CASE RegisterHandlers \/ Stop \/ CloseBegin
  BY <1>5, SwitchKeepsIndInv
<1>6. CASE Start
  BY <1>6, StartKeepsIndInv
<1>7. CASE CloseFinish
  BY <1>7, CloseFinishKeepsIndInv
<1>8. CASE Die
  BY <1>8, DieKeepsIndInv
<1>9. CASE Load
  BY <1>9, LoadKeepsIndInv
<1> QED BY <1>1, <1>2, <1>3, <1>4, <1>5, <1>6, <1>7, <1>8, <1>9 DEF Next

THEOREM IndInvHolds == Spec => []IndInv
BY InitIndInv, NextKeepsIndInv, PTL DEF Spec

(* Every variable stays within the values the code can give it, for any     *)
(* number of jobs, slots and retries.                                      *)
THEOREM TypesAreKept == Spec => []TypeOK
<1>1. IndInv => TypeOK
  <2> SUFFICES ASSUME IndInv PROVE TypeOK
    OBVIOUS
  <2>1. /\ Consistent(jobs, queuedJobs, executing, activeCount, timers, nextId)
        /\ BasicTypes /\ PhaseInv /\ FileInv
    BY DEF IndInv
  <2>2. activeCount \in Nat
    BY <2>1, JobIdsFinite DEF Consistent, Slots
  <2>3. IsJobMap(jobs) /\ IsJobMap(file.jobs)
    BY <2>1 DEF Consistent, FileInv, JobMap, IsJobMap
  <2> QED BY <2>1, <2>2, <2>3
          DEF TypeOK, Consistent, BasicTypes, PhaseInv, FileInv, Ordered, Slots
<1> QED BY <1>1, IndInvHolds, PTL

(* No queued job is forgotten and none is scheduled twice.                  *)
THEOREM NoJobIsForgotten == Spec => []EveryQueuedJobIsScheduled
<1>1. IndInv => EveryQueuedJobIsScheduled
  BY DEF IndInv, Consistent, Ordered, Placed, EveryQueuedJobIsScheduled
<1> QED BY <1>1, IndInvHolds, PTL

(* The slot counter is exact, never exceeds JobConcurrency, and the running *)
(* jobs are those with a continuation.                                     *)
THEOREM ConcurrencyIsBounded == Spec => []SlotsAreAccountedFor
<1>1. IndInv => SlotsAreAccountedFor
  BY DEF IndInv, Consistent, Slots, PhaseInv, SlotsAreAccountedFor
<1> QED BY <1>1, IndInvHolds, PTL

(* While the queue processes, a free slot means that nothing waits.         *)
THEOREM SlotsAreUsed == Spec => []NoIdleSlot
<1>1. IndInv => NoIdleSlot
  BY DEF IndInv
<1> QED BY <1>1, IndInvHolds, PTL

(* No job runs more than JobRetryAttempts times, across retries, timeouts   *)
(* and restarts, and none gives up earlier.                                *)
THEOREM RetriesAreBounded == Spec => []AttemptsAreBounded
<1>1. IndInv => AttemptsAreBounded
  BY DEF IndInv, Consistent, AttemptsAreBounded
<1> QED BY <1>1, IndInvHolds, PTL

(* Whenever the process dies, the snapshot on disk is one that recovery can *)
(* use.                                                                    *)
THEOREM SnapshotIsUsable == Spec => []SnapshotIsConsistent
<1>1. IndInv => SnapshotIsConsistent
  BY DEF IndInv, FileInv, Ordered, SnapshotIsConsistent
<1> QED BY <1>1, IndInvHolds, PTL

-----------------------------------------------------------------------------
(* Staleness of the snapshot *)

(* What a step of a live process does about the snapshot when it leaves the *)
(* snapshot alone: it arms the debounce timer, or has nothing to save.     *)
Armed ==
  /\ file' = file
  /\ Persistent => \/ persistTimer' = TRUE
                   \/ UNCHANGED <<jobs, persistTimer, persistFailed>>

(* The drain loop arms the timer whenever it changes a job. *)
LEMMA ProcessArms ==
  ASSUME NEW js, NEW q, NEW exec, NEW active, NEW processing, NEW armed \in BOOLEAN,
         js = [id \in DOMAIN js |-> js[id]],
         Process(js, q, exec, active, processing, armed), Persistent
  PROVE  persistTimer' = TRUE \/ (jobs' = js /\ persistTimer' = armed)
<1>1. PICK n \in 0..Len(q) :
        LET started == Startable(js, q, n)
            orphans == Unhandled(js, q, n)
        IN  /\ jobs' = WithStatus(WithStatus(js, started, "running"), orphans, "failed")
            /\ persistTimer' = (armed \/ (Persistent /\ started \cup orphans # {}))
  BY DEF Process
<1> DEFINE started == Startable(js, q, n)
           orphans == Unhandled(js, q, n)
<1>2. /\ jobs' = WithStatus(WithStatus(js, started, "running"), orphans, "failed")
      /\ persistTimer' = (armed \/ (Persistent /\ started \cup orphans # {}))
  BY <1>1
<1> HIDE DEF started, orphans
<1>3. CASE started \cup orphans = {}
  <2>1. started = {} /\ orphans = {}
    BY <1>3
  <2>2. jobs' = js
    BY <1>2, <2>1, Zenon DEF WithStatus
  <2> QED BY <1>2, <1>3, <2>2
<1>4. CASE started \cup orphans # {}
  BY <1>2, <1>4
<1> QED BY <1>3, <1>4

(* So does _enqueue(). *)
LEMMA EnqueueArms ==
  ASSUME NEW js, NEW id, NEW armed \in BOOLEAN, js = [j \in DOMAIN js |-> js[j]],
         Enqueue(js, id, armed), Persistent
  PROVE  persistTimer' = TRUE \/ (jobs' = js /\ persistTimer' = armed)
<1>1. CASE id \in InStatus(js, "queued")
  <2>1. PICK i \in 1..(Len(queuedJobs) + 1) :
          Process(js, InsertAt(queuedJobs, i, id), executing, activeCount,
                  isProcessing, armed)
    BY <1>1 DEF Enqueue
  <2> DEFINE new == InsertAt(queuedJobs, i, id)
  <2> HIDE DEF new
  <2>2. Process(js, new, executing, activeCount, isProcessing, armed)
    BY <2>1 DEF new
  <2> QED BY ONLY <2>2, js = [j \in DOMAIN js |-> js[j]], armed \in BOOLEAN, Persistent,
                  ProcessArms
<1>2. CASE id \notin InStatus(js, "queued")
  BY <1>2 DEF Enqueue
<1> QED BY <1>1, <1>2

LEMMA JobStepArms ==
  ASSUME IndInv, NEW id \in JobIds, JobStep(id)
  PROVE  Armed
<1>1. /\ persistTimer \in BOOLEAN /\ persistFailed \in BOOLEAN /\ Persistent \in BOOLEAN
      /\ jobs = [j \in DOMAIN jobs |-> jobs[j]]
  BY JobQueueAssumption DEF IndInv, BasicTypes, Consistent, JobMap
<1>2. CASE Cancel(id) \/ SettleAfterClose(id)
  BY <1>2 DEF Cancel, SettleAfterClose, Armed
<1>3. CASE TimerFires(id)
  <2>1. Enqueue(jobs, id, persistTimer) /\ OnlyChangesSupersede /\ file' = file
    BY <1>3 DEF TimerFires
  <2> QED BY <1>1, <2>1, EnqueueArms, JobsStaySuperseded DEF Armed
<1>4. ASSUME NEW js, Settle(id, js) PROVE Armed
  <2>1. persistTimer' = (Persistent \/ (Persistent /\ persistTimer'))
    BY <1>1, <1>4 DEF Settle, Process
  <2> QED BY <1>1, <1>4, <2>1 DEF Settle, Armed
<1>5. CASE Complete(id) \/ FailAttempt(id)
  BY <1>4, <1>5 DEF Complete, FailAttempt
<1> QED BY <1>2, <1>3, <1>5 DEF JobStep, Reject, Timeout

LEMMA AddArms ==
  ASSUME IndInv, NEW type \in Types, NEW priority \in Priorities,
         Add(type, priority) \/ AddDelayed(type, priority)
  PROVE  Armed
<1>1. CASE AddDelayed(type, priority)
  BY <1>1 DEF AddDelayed, CanAdd, Armed
<1>2. CASE Add(type, priority)
  <2>1. Enqueue(Added(type, priority), nextId, Persistent) /\ file' = file
    BY <1>2 DEF Add, CanAdd
  <2> DEFINE js == Added(type, priority)
             new == nextId
  <2>2. js = [j \in DOMAIN js |-> js[j]]
    BY DEF Added
  <2>3. Enqueue(js, new, Persistent)
    BY <2>1
  <2> HIDE DEF js, new
  <2>4. Persistent => persistTimer' = TRUE
    BY <2>2, <2>3, EnqueueArms, JobQueueAssumption
  <2> QED BY <2>1, <2>4 DEF Armed
<1> QED BY <1>1, <1>2

(* Recovery of what was recovered changes nothing. *)
LEMMA RecoveredTwice ==
  ASSUME NEW js, NEW n, JobMap(js, n)
  PROVE  Recovered(Recovered(js)) = Recovered(js)
<1> DEFINE rs == Recovered(js)
<1>1. /\ DOMAIN rs = DOMAIN js /\ rs = [id \in DOMAIN rs |-> rs[id]]
      /\ \A id \in DOMAIN js : rs[id] = IF js[id].status = "running"
                                        THEN [js[id] EXCEPT !.status = "queued"] ELSE js[id]
  BY DEF Recovered, WithStatus, InStatus
<1>2. \A id \in DOMAIN js : rs[id].status # "running"
  BY <1>1 DEF JobMap, Job
<1> HIDE DEF rs
<1>3. InStatus(rs, "running") = {}
  BY <1>1, <1>2 DEF InStatus
<1>4. Recovered(rs) = rs
  BY <1>1, <1>3, Zenon DEF Recovered, WithStatus
<1> QED BY <1>4 DEF rs

(* Every state of the jobs is handed to a write of the snapshot: when the   *)
(* file lags behind the memory, a flush is pending, or the last write was   *)
(* given just these jobs and failed.  (It is then not tried again before    *)
(* the next change: see RunningJobsAreSaved.)                              *)
THEOREM StalenessIsKnown == Spec => []StaleSnapshotIsPending
<1>1. Init => StaleSnapshotIsPending
  BY DEF Init, StaleSnapshotIsPending
<1>2. ASSUME IndInv, StaleSnapshotIsPending, [Next]_vars
      PROVE  StaleSnapshotIsPending'
  <2>1. ASSUME Armed, phase' \in {"up", "closing"} => phase \in {"up", "closing"}
        PROVE  StaleSnapshotIsPending'
    BY <1>2, <2>1 DEF Armed, StaleSnapshotIsPending
  <2>2. CASE UNCHANGED vars
    BY <1>2, <2>2 DEF vars, memory, StaleSnapshotIsPending
  <2>3. CASE \E type \in Types, priority \in Priorities :
               Add(type, priority) \/ AddDelayed(type, priority)
    <3>1. phase' = phase
      BY <2>3 DEF Add, AddDelayed, CanAdd
    <3> QED BY <1>2, <2>1, <2>3, <3>1, AddArms
  <2>4. ASSUME NEW id \in JobIds, JobStep(id) PROVE StaleSnapshotIsPending'
    <3>1. phase' = phase
      BY <2>4 DEF JobStep, Cancel, TimerFires, Complete, Reject, Timeout, FailAttempt, Settle,
                  SettleAfterClose
    <3> QED BY <1>2, <2>1, <2>4, <3>1, JobStepArms
  <2>5. CASE PersistFlush
    <3>1. jobs' = jobs /\ (Persistent => (file' = Snapshot \/ persistFailed' = TRUE))
      BY <2>5 DEF PersistFlush, PersistNow
    <3> QED BY <3>1 DEF StaleSnapshotIsPending, Snapshot
  <2>6. CASE RegisterHandlers \/ Stop \/ CloseBegin
    BY <1>2, <2>6 DEF RegisterHandlers, Stop, CloseBegin, StaleSnapshotIsPending
  <2>7. CASE Start
    <3>1. /\ Process(jobs, queuedJobs, executing, activeCount, TRUE, persistTimer)
          /\ UNCHANGED <<phase, file>> /\ OnlyChangesSupersede
      BY <2>7 DEF Start
    <3>2. /\ jobs = [j \in DOMAIN jobs |-> jobs[j]]
          /\ persistTimer \in BOOLEAN /\ persistFailed \in BOOLEAN
      BY <1>2 DEF IndInv, Consistent, JobMap, BasicTypes
    <3>3. Armed
      BY <3>1, <3>2, ProcessArms, JobsStaySuperseded DEF Armed
    <3> QED BY <2>1, <3>1, <3>3
  <2>8. CASE CloseFinish \/ Die
    BY <2>8 DEF CloseFinish, Die, StaleSnapshotIsPending
  <2>9. CASE Load
    <3>1. jobs' = Recovered(file.jobs) /\ file' = file
      BY <2>9 DEF Load
    <3>2. Recovered(jobs') = Recovered(file.jobs)
      BY <1>2, <3>1, RecoveredTwice DEF IndInv, FileInv
    <3> QED BY <3>1, <3>2 DEF StaleSnapshotIsPending
  <2> QED BY <1>2, <2>2, <2>3, <2>4, <2>5, <2>6, <2>7, <2>8, <2>9 DEF Next
<1> QED BY <1>1, <1>2, IndInvHolds, PTL DEF Spec

-----------------------------------------------------------------------------
(* The order of the queue.  Only _enqueue() adds to it, and no step changes *)
(* the priority of a job.                                                  *)

LEMMA SortedBySamePriorities ==
  ASSUME NEW js, NEW ks, NEW q, InOrderOfPriority(js, q),
         \A i \in 1..Len(q) : ks[q[i]].priority = js[q[i]].priority
  PROVE  InOrderOfPriority(ks, q)
BY DEF InOrderOfPriority

LEMMA StatusKeepsPriority ==
  ASSUME NEW js, NEW S, NEW s, NEW id \in DOMAIN js, js[id] \in Job
  PROVE  WithStatus(js, S, s)[id].priority = js[id].priority
<1> DEFINE job == js[id]
           new == WithStatus(js, S, s)[id]
<1>1. new = [job EXCEPT !.status = s] \/ new = job
  BY DEF WithStatus
<1> HIDE DEF job, new
<1>2. job \in Job => new.priority = job.priority
  BY ONLY <1>1 DEF Job
<1> QED BY <1>2 DEF job, new

(* What the drain loop leaves of a sorted queue is sorted. *)
LEMMA ProcessKeepsOrder ==
  ASSUME NEW js, NEW q, NEW exec, NEW active, NEW processing, NEW armed, NEW n,
         JobMap(js, n), Ordered(js, q), InOrderOfPriority(js, q),
         Process(js, q, exec, active, processing, armed)
  PROVE  InOrderOfPriority(jobs', queuedJobs')
<1>1. PICK k \in 0..Len(q) :
        /\ jobs' = WithStatus(WithStatus(js, Startable(js, q, k), "running"),
                              Unhandled(js, q, k), "failed")
        /\ queuedJobs' = SubSeq(q, k + 1, Len(q))
  BY DEF Process
<1> DEFINE started == Startable(js, q, k)
           orphans == Unhandled(js, q, k)
<1>2. jobs' = WithStatus(WithStatus(js, started, "running"), orphans, "failed")
  BY <1>1
<1> HIDE DEF started, orphans
<1>3. /\ q \in Seq(JobIds) /\ Len(q) \in Nat
      /\ Len(queuedJobs') = Len(q) - k
      /\ \A j \in 1..(Len(q) - k) : queuedJobs'[j] = q[j + k]
  BY <1>1, SuffixFacts DEF Ordered
<1>4. \A i \in 1..Len(q) : q[i] \in DOMAIN js /\ js[q[i]] \in Job
  BY DEF Ordered, InQueue, InStatus, JobMap
<1>5. ASSUME NEW id \in DOMAIN js, js[id] \in Job
      PROVE  jobs'[id].priority = js[id].priority
  <2> DEFINE mid == WithStatus(js, started, "running")
             a == js[id]
             b == mid[id]
             c == jobs'[id]
  <2>1. id \in DOMAIN mid
    BY DEF WithStatus
  <2>2. b = a \/ b = [a EXCEPT !.status = "running"]
    BY DEF WithStatus
  <2>3. c = b \/ c = [b EXCEPT !.status = "failed"]
    BY <1>2, <2>1 DEF WithStatus
  <2>4. a \in Job
    BY <1>5
  <2> HIDE DEF a, b, c
  <2>5. c.priority = a.priority
    BY ONLY <2>2, <2>3, <2>4 DEF Job
  <2> QED BY <2>5 DEF a, c
<1>6. InOrderOfPriority(jobs', q)
  BY <1>4, <1>5, SortedBySamePriorities
<1>7. ASSUME NEW i \in 1..Len(queuedJobs'), NEW j \in 1..Len(queuedJobs'), i < j
      PROVE  jobs'[queuedJobs'[i]].priority >= jobs'[queuedJobs'[j]].priority
  <2>1. /\ i \in 1..(Len(q) - k) /\ j \in 1..(Len(q) - k)
        /\ i + k \in 1..Len(q) /\ j + k \in 1..Len(q) /\ i + k < j + k
    BY <1>3, <1>7
  <2>2. jobs'[q[i + k]].priority >= jobs'[q[j + k]].priority
    BY <1>6, <2>1 DEF InOrderOfPriority
  <2> QED BY <1>3, <2>1, <2>2
<1> QED BY <1>7 DEF InOrderOfPriority

(* A job goes before the first it outranks: behind none of lower priority. *)
LEMMA InsertKeepsOrder ==
  ASSUME NEW js, NEW q, NEW n, JobMap(js, n), Ordered(js, q), InOrderOfPriority(js, q),
         NEW id \in JobIds, id \in DOMAIN js,
         NEW i \in 1..(Len(q) + 1), InsertionPoint(js, q, id, i)
  PROVE  InOrderOfPriority(js, InsertAt(q, i, id))
<1> DEFINE new == InsertAt(q, i, id)
           rank(k) == js[q[k]].priority
           own == js[id].priority
<1>1. q \in Seq(JobIds) /\ Len(q) \in Nat
  BY DEF Ordered
<1>2. /\ Len(new) = Len(q) + 1
      /\ \A j \in 1..(Len(q) + 1) :
           new[j] = IF j < i THEN q[j] ELSE IF j = i THEN id ELSE q[j - 1]
  BY ONLY <1>1, id \in JobIds, i \in 1..(Len(q) + 1), InsertAtFacts
<1> HIDE DEF new
<1>3. /\ own \in Int
      /\ \A k \in 1..Len(q) : q[k] \in DOMAIN js /\ rank(k) \in Int
  BY JobQueueAssumption DEF JobMap, Job, Ordered, InQueue, InStatus
<1>4. \A k, m \in 1..Len(q) : k < m => rank(k) >= rank(m)
  BY DEF InOrderOfPriority
<1>5. /\ \A k \in 1..(i - 1) : ~ own > rank(k)
      /\ i <= Len(q) => own > rank(i)
  BY <1>1, <1>3 DEF InsertionPoint, Outranks
<1> HIDE DEF rank, own
<1>6. \A k \in 1..Len(q) : /\ k < i => rank(k) >= own
                           /\ k >= i => own >= rank(k)
  BY <1>1, <1>3, <1>4, <1>5
<1> SUFFICES ASSUME NEW j \in 1..Len(new), NEW k \in 1..Len(new), j < k
             PROVE  js[new[j]].priority >= js[new[k]].priority
  BY DEF InOrderOfPriority, new
<1> DEFINE old(m) == IF m < i THEN m ELSE m - 1
<1>7. \A m \in 1..Len(new) : m # i => /\ old(m) \in 1..Len(q) /\ new[m] = q[old(m)]
                                      /\ js[new[m]].priority = rank(old(m))
  BY <1>1, <1>2 DEF rank
<1>8. js[new[i]].priority = own
  BY <1>1, <1>2 DEF own
<1>9. CASE j # i /\ k # i
  <2>1. old(j) < old(k)
    BY <1>1, <1>2, <1>9
  <2> HIDE DEF old
  <2> QED BY <1>4, <1>7, <1>9, <2>1
<1>10. CASE j = i
  <2>1. old(k) >= i
    BY <1>1, <1>2, <1>10
  <2> HIDE DEF old
  <2> QED BY <1>6, <1>7, <1>8, <1>10, <2>1
<1>11. CASE k = i
  <2>1. old(j) < i
    BY <1>1, <1>2, <1>11
  <2> HIDE DEF old
  <2> QED BY <1>6, <1>7, <1>8, <1>11, <2>1
<1> QED BY <1>9, <1>10, <1>11

LEMMA EnqueueKeepsOrder ==
  ASSUME NEW js, NEW tm, NEW n, NEW id \in tm, NEW armed,
         Consistent(js, queuedJobs, executing, activeCount, tm, n),
         InOrderOfPriority(js, queuedJobs), Enqueue(js, id, armed)
  PROVE  InOrderOfPriority(jobs', queuedJobs')
<1>1. CASE id \in InStatus(js, "queued")
  <2>1. PICK i \in 1..(Len(queuedJobs) + 1) :
          /\ InsertionPoint(js, queuedJobs, id, i)
          /\ Process(js, InsertAt(queuedJobs, i, id), executing, activeCount,
                     isProcessing, armed)
    BY <1>1 DEF Enqueue
  <2>2. Consistent(js, InsertAt(queuedJobs, i, id), executing, activeCount, tm \ {id}, n)
    BY <1>1, InsertKeepsConsistent
  <2>3. id \in DOMAIN js /\ id \in JobIds
    BY <1>1, JobQueueAssumption DEF InStatus, Consistent, JobMap, JobIds
  <2>4. InOrderOfPriority(js, InsertAt(queuedJobs, i, id))
    BY <2>1, <2>3, InsertKeepsOrder DEF Consistent
  <2> DEFINE new == InsertAt(queuedJobs, i, id)
  <2> HIDE DEF new
  <2>5. /\ Process(js, new, executing, activeCount, isProcessing, armed)
        /\ JobMap(js, n) /\ Ordered(js, new) /\ InOrderOfPriority(js, new)
    BY <2>1, <2>2, <2>4 DEF Consistent, new
  <2> QED BY ONLY <2>5, ProcessKeepsOrder
<1>2. CASE id \notin InStatus(js, "queued")
  BY <1>2 DEF Enqueue
<1> QED BY <1>1, <1>2

(* A job that leaves the queue leaves the order of the others. *)
LEMMA CancelKeepsOrder ==
  ASSUME IndInv, NEW id \in JobIds, Cancel(id), InOrderOfPriority(jobs, queuedJobs)
  PROVE  InOrderOfPriority(jobs', queuedJobs')
<1>1. /\ queuedJobs \in Seq(JobIds) /\ Len(queuedJobs) \in Nat
      /\ \A i \in 1..Len(queuedJobs) :
           queuedJobs[i] \in DOMAIN jobs /\ jobs[queuedJobs[i]] \in Job
  BY DEF IndInv, Consistent, Ordered, InQueue, InStatus, JobMap
<1>2. jobs' = WithStatus(jobs, {id}, "cancelled")
  BY DEF Cancel
<1>3. InOrderOfPriority(jobs', queuedJobs)
  BY <1>1, <1>2, StatusKeepsPriority, SortedBySamePriorities
<1>4. CASE queuedJobs' = queuedJobs
  BY <1>3, <1>4
<1>5. ASSUME NEW k \in 1..Len(queuedJobs), queuedJobs' = RemoveAt(queuedJobs, k)
      PROVE  InOrderOfPriority(jobs', queuedJobs')
  <2> DEFINE old(m) == IF m < k THEN m ELSE m + 1
  <2>1. /\ Len(queuedJobs') = Len(queuedJobs) - 1
        /\ \A j \in 1..(Len(queuedJobs) - 1) :
             queuedJobs'[j] = IF j < k THEN queuedJobs[j] ELSE queuedJobs[j + 1]
    BY <1>1, <1>5, RemoveAtFacts
  <2>2. \A m \in 1..Len(queuedJobs') :
          old(m) \in 1..Len(queuedJobs) /\ queuedJobs'[m] = queuedJobs[old(m)]
    BY <1>1, <2>1
  <2>3. \A i, j \in 1..Len(queuedJobs') : i < j => old(i) < old(j)
    BY <1>1, <2>1
  <2> HIDE DEF old
  <2> QED BY <1>3, <2>2, <2>3 DEF InOrderOfPriority
<1> QED BY <1>4, <1>5 DEF Cancel

(* The jobs that wait are not the one that settles, and are not evicted. *)
LEMMA SettleKeepsOrder ==
  ASSUME IndInv, NEW id \in executing \cap DOMAIN jobs, NEW after, NEW js,
         DOMAIN after = DOMAIN jobs, after = [j \in DOMAIN after |-> after[j]],
         \A j \in DOMAIN jobs : j # id => after[j] = jobs[j], after[id] \in Job,
         js = after \/ js = Evict(after),
         InOrderOfPriority(jobs, queuedJobs), Settle(id, js)
  PROVE  InOrderOfPriority(jobs', queuedJobs')
<1>1. /\ JobMap(jobs, nextId) /\ Ordered(jobs, queuedJobs)
      /\ jobs[id].status = "running"
  BY DEF IndInv, Consistent, Slots, InStatus
<1>2. \A i \in 1..Len(queuedJobs) :
        /\ queuedJobs[i] \in DOMAIN jobs /\ queuedJobs[i] # id
        /\ after[queuedJobs[i]] = jobs[queuedJobs[i]]
        /\ after[queuedJobs[i]].status = "queued"
  BY <1>1 DEF Ordered, InQueue, InStatus
<1>3. \A i \in 1..Len(queuedJobs) :
        queuedJobs[i] \in DOMAIN js /\ js[queuedJobs[i]] = jobs[queuedJobs[i]]
  BY <1>2, EvictFacts DEF Terminal
<1>4. InOrderOfPriority(js, queuedJobs)
  BY <1>3 DEF InOrderOfPriority
<1>5. JobMap(after, nextId)
  BY <1>1 DEF JobMap
<1>6. JobMap(js, nextId)
  BY <1>5, EvictFacts DEF JobMap
<1>7. Ordered(js, queuedJobs)
  BY <1>1, <1>2, <1>3 DEF Ordered, InQueue, InStatus
<1> DEFINE rest == executing \ {id}
           free == activeCount - 1
<1>8. Process(js, queuedJobs, rest, free, isProcessing, Persistent)
  BY DEF Settle
<1> HIDE DEF rest, free
<1> QED BY ONLY <1>4, <1>6, <1>7, <1>8, ProcessKeepsOrder

LEMMA CompleteKeepsOrder ==
  ASSUME IndInv, NEW id \in JobIds, Complete(id), InOrderOfPriority(jobs, queuedJobs)
  PROVE  InOrderOfPriority(jobs', queuedJobs')
<1> DEFINE after == WithStatus(jobs, {id}, "completed")
           job == jobs[id]
<1>1. id \in executing \cap DOMAIN jobs /\ Settle(id, Evict(after)) /\ job \in Job
  BY DEF Complete, IndInv, Consistent, JobMap
<1>2. /\ DOMAIN after = DOMAIN jobs /\ after = [j \in DOMAIN after |-> after[j]]
      /\ \A j \in DOMAIN jobs : j # id => after[j] = jobs[j]
      /\ after[id] = [job EXCEPT !.status = "completed"]
  BY <1>1 DEF WithStatus
<1> HIDE DEF after, job
<1>3. after[id] \in Job
  BY <1>1, <1>2 DEF Job, Status, Terminal
<1> QED BY <1>1, <1>2, <1>3, SettleKeepsOrder

LEMMA FailAttemptKeepsOrder ==
  ASSUME IndInv, NEW id \in JobIds, FailAttempt(id), InOrderOfPriority(jobs, queuedJobs)
  PROVE  InOrderOfPriority(jobs', queuedJobs')
<1>1. PICK status \in {"queued", "failed"} :
        \/ Settle(id, Attempted(id, status))
        \/ Settle(id, Evict(Attempted(id, status)))
  BY DEF FailAttempt
<1> DEFINE after == Attempted(id, status)
           job == jobs[id]
<1>2. /\ id \in executing \cap DOMAIN jobs /\ job \in Job
      /\ job.attempts \in Nat /\ job.attempts + 1 \in 0..JobRetryAttempts
      /\ jobs = [j \in DOMAIN jobs |-> jobs[j]]
  <2>1. /\ id \in executing \cap DOMAIN jobs /\ job \in Job
        /\ jobs = [j \in DOMAIN jobs |-> jobs[j]] /\ job.attempts < JobRetryAttempts
    BY DEF FailAttempt, IndInv, Consistent, JobMap, Slots, InStatus, WithinAttempts
  <2> HIDE DEF job
  <2> QED BY <2>1, JobQueueAssumption DEF Job
<1>3. /\ DOMAIN after = DOMAIN jobs /\ after = [j \in DOMAIN after |-> after[j]]
      /\ \A j \in DOMAIN jobs : j # id => after[j] = jobs[j]
      /\ after[id] = [job EXCEPT !.attempts = @ + 1, !.status = status]
  BY <1>2 DEF Attempted
<1>4. Settle(id, after) \/ Settle(id, Evict(after))
  BY <1>1
<1> HIDE DEF after, job
<1>5. after[id] \in Job
  BY <1>2, <1>3 DEF Job, Status, Terminal
<1> QED BY <1>2, <1>3, <1>4, <1>5, SettleKeepsOrder

(* A job is never put behind one of lower priority. *)
THEOREM OrderIsKept == Spec => SortedQueuesStaySorted
<1>1. ASSUME IndInv, [Next]_vars, phase # "down", InOrderOfPriority(jobs, queuedJobs)
      PROVE  InOrderOfPriority(jobs', queuedJobs')
  <2>1. /\ Consistent(jobs, queuedJobs, executing, activeCount, timers, nextId)
        /\ JobMap(jobs, nextId) /\ Ordered(jobs, queuedJobs)
    BY <1>1 DEF IndInv, Consistent
  <2>2. CASE UNCHANGED <<jobs, queuedJobs>>
    BY <1>1, <2>2
  <2>3. CASE queuedJobs' = << >>
    BY <2>3 DEF InOrderOfPriority
  <2>4. ASSUME NEW type \in Types, NEW priority \in Priorities,
               Add(type, priority) \/ AddDelayed(type, priority)
        PROVE  InOrderOfPriority(jobs', queuedJobs')
    <3> DEFINE js == Added(type, priority)
               new == nextId
               tm == timers \cup {nextId}
               next == nextId + 1
    <3>1. Consistent(js, queuedJobs, executing, activeCount, tm, next)
      BY <2>1, <2>4, AddedIsConsistent DEF Add, AddDelayed, CanAdd
    <3>2. \A i \in 1..Len(queuedJobs) : js[queuedJobs[i]] = jobs[queuedJobs[i]]
      <4>1. nextId \notin DOMAIN jobs
        BY <2>1 DEF JobMap, Consistent
      <4> QED BY <2>1, <4>1 DEF Added, Ordered, InQueue, InStatus
    <3>3. InOrderOfPriority(js, queuedJobs)
      BY <1>1, <3>2 DEF InOrderOfPriority
    <3>4. CASE AddDelayed(type, priority)
      BY <3>3, <3>4 DEF AddDelayed
    <3>5. CASE Add(type, priority)
      <4>1. Enqueue(js, new, Persistent) /\ new \in tm
        BY <3>5 DEF Add
      <4> HIDE DEF js, new, tm, next
      <4> QED BY <3>1, <3>3, <4>1, EnqueueKeepsOrder
    <3> QED BY <2>4, <3>4, <3>5
  <2>5. ASSUME NEW id \in JobIds, JobStep(id)
        PROVE  InOrderOfPriority(jobs', queuedJobs')
    <3>1. CASE TimerFires(id)
      <4>1. Enqueue(jobs, id, persistTimer) /\ id \in timers
        BY <3>1 DEF TimerFires
      <4> QED BY <1>1, <2>1, <4>1, EnqueueKeepsOrder
    <3>2. CASE SettleAfterClose(id)
      BY <2>2, <3>2 DEF SettleAfterClose
    <3> QED BY <1>1, <2>5, <3>1, <3>2, CancelKeepsOrder, CompleteKeepsOrder,
               FailAttemptKeepsOrder DEF JobStep, Reject, Timeout
  <2>6. CASE Start
    <3>1. Process(jobs, queuedJobs, executing, activeCount, TRUE, persistTimer)
      BY <2>6 DEF Start
    <3> QED BY <1>1, <2>1, <3>1, ProcessKeepsOrder
  <2>7. CASE PersistFlush \/ RegisterHandlers \/ Stop \/ CloseBegin
    BY <2>2, <2>7 DEF PersistFlush, RegisterHandlers, Stop, CloseBegin
  <2>8. CASE CloseFinish \/ Die
    BY <2>3, <2>8 DEF CloseFinish, Die
  <2>9. ~ Load
    BY <1>1 DEF Load
  <2>10. CASE UNCHANGED vars
    BY <2>2, <2>10 DEF vars, memory
  <2> QED BY <1>1, <2>4, <2>5, <2>6, <2>7, <2>8, <2>9, <2>10 DEF Next
<1>2. IndInv /\ [Next]_vars
        => [phase # "down" /\ InOrderOfPriority(jobs, queuedJobs)
              => InOrderOfPriority(jobs', queuedJobs')]_vars
  BY <1>1
<1> QED BY <1>2, IndInvHolds, PTL DEF Spec, SortedQueuesStaySorted

-----------------------------------------------------------------------------
(* The abstract specification.  A handler does several things to several    *)
(* jobs at once (it settles one, evicts others, starts the next); the proof *)
(* that the queue implements the lifecycle of jobs, which JobLifecycle      *)
(* promises, looks at what each job goes through in the whole step.         *)

(* What a step may do to a job that is held before and after it. *)
Goes(a, b) ==
  \/ b.status = a.status /\ b.attempts = a.attempts
  \/ /\ a.status = "queued" /\ b.attempts = a.attempts
     /\ b.status \in {"running", "cancelled", "failed"}
  \/ a.status = "running" /\ b.status = "completed" /\ b.attempts = a.attempts
  \/ /\ a.status = "running" /\ b.attempts = a.attempts + 1
     /\ b.status = IF b.attempts < JobRetryAttempts THEN "queued" ELSE "failed"
  \/ a.status \in Terminal /\ b.status = "cancelled" /\ b.attempts = a.attempts

(* What it may do to any job. *)
GoesOn(id) ==
  \/ id \notin DOMAIN jobs /\ id \notin DOMAIN jobs' /\ (id < nextId <=> id < nextId')
  \/ /\ id = nextId /\ id < nextId' /\ id \in DOMAIN jobs' /\ jobs'[id].attempts = 0
     /\ jobs'[id].status \in {"queued", "running", "failed"}
  \/ id \in DOMAIN jobs \cap DOMAIN jobs' /\ Goes(jobs[id], jobs'[id])
  \/ /\ id \in DOMAIN jobs \ DOMAIN jobs' /\ id < nextId'
     /\ jobs[id].status \in Terminal \cup {"running"}

-----------------------------------------------------------------------------
(* The mapping *)

HeldJobs ==
  /\ nextId \in Nat /\ nextId <= MaxJobs + 1
  /\ DOMAIN jobs \subseteq JobIds /\ DOMAIN file.jobs \subseteq JobIds
  /\ \A id \in DOMAIN jobs : id < nextId /\ jobs[id] \in Job
  /\ \A id \in DOMAIN file.jobs : id < nextId /\ file.jobs[id] \in Job

LEMMA JobsAreHeld == IndInv => HeldJobs
<1> SUFFICES ASSUME IndInv PROVE HeldJobs
  OBVIOUS
<1>1. /\ nextId \in 1..(MaxJobs + 1) /\ JobMap(jobs, nextId) /\ JobMap(file.jobs, nextId)
  BY DEF IndInv, Consistent, FileInv
<1> QED BY <1>1, JobQueueAssumption DEF HeldJobs, JobMap, JobIds

LEMMA LifeIsTyped == IndInv => LifeInMemory \in [JobIds -> Lifecycle!Life]
<1> SUFFICES ASSUME IndInv PROVE LifeInMemory \in [JobIds -> Lifecycle!Life]
  OBVIOUS
<1>1. 0 \in 0..JobRetryAttempts
  BY JobQueueAssumption
<1>2. \A job \in Job : Seen(job) \in Lifecycle!Life
  BY DEF Seen, Job, Status, Terminal, Lifecycle!Life, Lifecycle!Ended
<1>3. Unseen("gone") \in Lifecycle!Life /\ Unseen("new") \in Lifecycle!Life
  BY <1>1 DEF Unseen, Lifecycle!Life, Lifecycle!Ended
<1> QED BY <1>2, <1>3, JobsAreHeld DEF HeldJobs, LifeInMemory

LEMMA FewRun ==
  IndInv => Cardinality({id \in JobIds : LifeInMemory[id].status = "running"}) <= JobConcurrency
<1> SUFFICES ASSUME IndInv
             PROVE  Cardinality({id \in JobIds : LifeInMemory[id].status = "running"})
                      <= JobConcurrency
  OBVIOUS
<1> DEFINE run == {id \in JobIds : LifeInMemory[id].status = "running"}
<1>1. executing \in SUBSET (1..(nextId - 1)) /\ nextId \in 1..(MaxJobs + 1)
      /\ activeCount = Cardinality(executing) /\ activeCount <= JobConcurrency
      /\ InStatus(jobs, "running") = executing \cap DOMAIN jobs
  BY DEF IndInv, Consistent, Slots
<1>2. run \in SUBSET executing
  BY <1>1 DEF LifeInMemory, Seen, Unseen, InStatus
<1>3. IsFiniteSet(executing) /\ Cardinality(executing) \in Nat
  BY <1>1, JobIdsFinite
<1>4. IsFiniteSet(run) /\ Cardinality(run) <= Cardinality(executing)
  BY <1>2, <1>3, FS_Subset
<1>5. Cardinality(run) \in Nat
  BY <1>4, FS_CardinalityType
<1> QED BY <1>1, <1>3, <1>4, <1>5, JobQueueAssumption

(* When every job goes on in one of these ways, the whole is a Step. *)
LEMMA StepsImplement ==
  ASSUME IndInv, IndInv', file' = file, \A id \in JobIds : GoesOn(id)
  PROVE  Lifecycle!Step
<1>1. (IndInv => LifeInMemory \in [JobIds -> Lifecycle!Life])'
  BY LifeIsTyped, PTL
<1>2. (IndInv => Cardinality({id \in JobIds : LifeInMemory[id].status = "running"})
                   <= JobConcurrency)'
  BY FewRun, PTL
<1>3. LifeOnDisk' = LifeOnDisk
  BY DEF LifeOnDisk
<1>4. \A S : Lifecycle!Cardinality(S) = Cardinality(S)
  BY DEF Cardinality, Lifecycle!Cardinality
<1>5. HeldJobs /\ (IndInv => HeldJobs)'
  BY JobsAreHeld, PTL
<1>6. ASSUME NEW id \in JobIds
      PROVE  Lifecycle!Moves(LifeInMemory[id], LifeInMemory'[id])
  <2>1. /\ nextId \in Nat /\ nextId' \in Nat /\ id \in Nat
        /\ id \in DOMAIN jobs => id < nextId /\ jobs[id] \in Job
        /\ id \in DOMAIN jobs' => id < nextId' /\ jobs'[id] \in Job
    BY <1>5, JobQueueAssumption DEF HeldJobs, JobIds
  <2> DEFINE a == LifeInMemory[id]
             b == LifeInMemory'[id]
  <2>2. /\ a = IF id \in DOMAIN jobs THEN Seen(jobs[id])
               ELSE IF id < nextId THEN Unseen("gone") ELSE Unseen("new")
        /\ b = IF id \in DOMAIN jobs' THEN Seen(jobs'[id])
               ELSE IF id < nextId' THEN Unseen("gone") ELSE Unseen("new")
    BY DEF LifeInMemory
  <2> HIDE DEF a, b
  <2> SUFFICES Lifecycle!Moves(a, b)
    BY DEF a, b
  <2>3. GoesOn(id)
    OBVIOUS
  <2>4. CASE id \notin DOMAIN jobs /\ id \notin DOMAIN jobs' /\ (id < nextId <=> id < nextId')
    BY <2>2, <2>4 DEF Lifecycle!Moves
  <2>5. CASE /\ id = nextId /\ id < nextId' /\ id \in DOMAIN jobs' /\ jobs'[id].attempts = 0
             /\ jobs'[id].status \in {"queued", "running", "failed"}
    BY <2>1, <2>2, <2>5 DEF Lifecycle!Moves, Lifecycle!New, Seen, Unseen
  <2>6. CASE id \in DOMAIN jobs \cap DOMAIN jobs' /\ Goes(jobs[id], jobs'[id])
    BY <2>1, <2>2, <2>6
       DEF Lifecycle!Moves, Lifecycle!Ended, Goes, Seen, Job, Status, Terminal
  <2>7. CASE /\ id \in DOMAIN jobs \ DOMAIN jobs' /\ id < nextId'
             /\ jobs[id].status \in Terminal \cup {"running"}
    BY <2>1, <2>2, <2>7
       DEF Lifecycle!Moves, Lifecycle!Ended, Lifecycle!Gone, Seen, Unseen, Terminal
  <2> QED BY <2>3, <2>4, <2>5, <2>6, <2>7 DEF GoesOn
<1> QED BY <1>1, <1>2, <1>3, <1>4, <1>6 DEF Lifecycle!Step

-----------------------------------------------------------------------------
(* The drain loop *)

(* It starts queued jobs, or fails them for want of a handler; all others   *)
(* stay as they are.                                                       *)
LEMMA ProcessMoves ==
  ASSUME NEW js, NEW q, NEW exec, NEW active, NEW processing, NEW armed,
         \A j \in DOMAIN js : js[j] \in Job, Len(q) \in Nat,
         Process(js, q, exec, active, processing, armed)
  PROVE  /\ DOMAIN jobs' = DOMAIN js
         /\ \A j \in DOMAIN js :
              /\ jobs'[j].attempts = js[j].attempts
              /\ \/ jobs'[j].status = js[j].status
                 \/ /\ js[j].status = "queued" /\ j \in InQueue(q)
                    /\ jobs'[j].status \in {"running", "failed"}
<1>1. PICK n \in 0..Len(q) :
        jobs' = WithStatus(WithStatus(js, Startable(js, q, n), "running"),
                           Unhandled(js, q, n), "failed")
  BY DEF Process
<1> DEFINE started == Startable(js, q, n)
           orphans == Unhandled(js, q, n)
<1>2. \A j \in started \cup orphans :
        j \in DOMAIN js /\ js[j].status = "queued" /\ j \in InQueue(q)
  BY DEF Startable, Unhandled, InStatus, InQueue
<1> HIDE DEF started, orphans
<1>3. DOMAIN jobs' = DOMAIN js
  BY <1>1 DEF WithStatus
<1>4. ASSUME NEW j \in DOMAIN js
      PROVE  /\ jobs'[j].attempts = js[j].attempts
             /\ \/ j \in started \cup orphans /\ jobs'[j].status \in {"running", "failed"}
                \/ jobs'[j].status = js[j].status
  <2> DEFINE first == WithStatus(js, started, "running")[j]
  <2>1. /\ first = IF j \in started THEN [js[j] EXCEPT !.status = "running"] ELSE js[j]
        /\ jobs'[j] = IF j \in orphans THEN [first EXCEPT !.status = "failed"] ELSE first
    BY <1>1 DEF WithStatus, started, orphans
  <2> DEFINE job == js[j]
             last == jobs'[j]
  <2>2. job \in Job
    OBVIOUS
  <2> HIDE DEF first, job, last
  <2>3. /\ first \in Job /\ first.attempts = job.attempts
        /\ first.status = IF j \in started THEN "running" ELSE job.status
    BY <2>1, <2>2 DEF job, Job, Status
  <2> QED BY <2>1, <2>3 DEF job, last, Job
<1> QED BY <1>2, <1>3, <1>4
LEMMA EnqueueMoves ==
  ASSUME IndInv, NEW js, NEW id \in JobIds, NEW armed,
         \A j \in DOMAIN js : js[j] \in Job,
         Enqueue(js, id, armed)
  PROVE  /\ DOMAIN jobs' = DOMAIN js
         /\ \A j \in DOMAIN js :
              /\ jobs'[j].attempts = js[j].attempts
              /\ \/ jobs'[j].status = js[j].status
                 \/ js[j].status = "queued" /\ jobs'[j].status \in {"running", "failed"}
<1>1. CASE id \in InStatus(js, "queued")
  <2>1. PICK i \in 1..(Len(queuedJobs) + 1) :
          Process(js, InsertAt(queuedJobs, i, id), executing, activeCount,
                  isProcessing, armed)
    BY <1>1 DEF Enqueue
  <2>2. queuedJobs \in Seq(JobIds)
    BY DEF IndInv, Consistent, Ordered
  <2>3. Len(InsertAt(queuedJobs, i, id)) = Len(queuedJobs) + 1 /\ Len(queuedJobs) \in Nat
    BY <2>2, InsertAtFacts
  <2> QED BY <2>1, <2>3, ProcessMoves
<1>2. CASE id \notin InStatus(js, "queued")
  BY <1>2 DEF Enqueue
<1> QED BY <1>1, <1>2

-----------------------------------------------------------------------------
(* The steps in which jobs go on *)

LEMMA AddGoesOn ==
  ASSUME IndInv, NEW type \in Types, NEW priority \in Priorities,
         Add(type, priority) \/ AddDelayed(type, priority)
  PROVE  file' = file /\ \A id \in JobIds : GoesOn(id)
<1> DEFINE js == Added(type, priority)
<1>1. /\ nextId <= MaxJobs /\ nextId' = nextId + 1 /\ file' = file
      /\ Enqueue(js, nextId, Persistent) \/ jobs' = js
  BY DEF Add, AddDelayed, CanAdd
<1>2. HeldJobs /\ nextId \in JobIds
  BY <1>1, JobsAreHeld, JobQueueAssumption DEF HeldJobs, JobIds, IndInv, Consistent
<1>3. /\ DOMAIN js = DOMAIN jobs \cup {nextId} /\ nextId \notin DOMAIN jobs
      /\ \A id \in DOMAIN jobs : js[id] = jobs[id]
      /\ js[nextId] = [type |-> type, priority |-> priority, status |-> "queued",
                       attempts |-> 0]
  BY <1>2 DEF Added, HeldJobs
<1>4. \A id \in DOMAIN js : js[id] \in Job
  BY <1>2, <1>3, JobQueueAssumption DEF HeldJobs, Job, Status
<1> HIDE DEF js
<1>5. /\ DOMAIN jobs' = DOMAIN js
      /\ \A id \in DOMAIN js :
           /\ jobs'[id].attempts = js[id].attempts
           /\ \/ jobs'[id].status = js[id].status
              \/ js[id].status = "queued" /\ jobs'[id].status \in {"running", "failed"}
  BY <1>1, <1>2, <1>4, EnqueueMoves
<1>6. ASSUME NEW id \in JobIds PROVE GoesOn(id)
  <2>1. id \in Nat /\ nextId \in Nat
    BY <1>2, JobQueueAssumption DEF HeldJobs, JobIds
  <2>2. CASE id \in DOMAIN jobs
    BY <1>3, <1>5, <2>2 DEF GoesOn, Goes
  <2>3. CASE id = nextId
    BY <1>1, <1>3, <1>5, <2>1, <2>3 DEF GoesOn
  <2>4. CASE id \notin DOMAIN jobs /\ id # nextId
    BY <1>1, <1>3, <1>5, <2>1, <2>4 DEF GoesOn
  <2> QED BY <2>2, <2>3, <2>4
<1> QED BY <1>1, <1>6

LEMMA CancelGoesOn ==
  ASSUME IndInv, NEW id \in JobIds, Cancel(id)
  PROVE  file' = file /\ \A j \in JobIds : GoesOn(j)
<1>1. /\ id \in DOMAIN jobs /\ jobs[id].status # "running"
      /\ jobs' = WithStatus(jobs, {id}, "cancelled") /\ nextId' = nextId /\ file' = file
  BY DEF Cancel
<1>2. HeldJobs
  BY JobsAreHeld
<1>3. DOMAIN jobs' = DOMAIN jobs /\ \A j \in DOMAIN jobs : j # id => jobs'[j] = jobs[j]
  BY <1>1 DEF WithStatus
<1>4. Goes(jobs[id], jobs'[id])
  <2> DEFINE a == jobs[id]
             b == jobs'[id]
  <2>1. a \in Job /\ a.status # "running" /\ b = [a EXCEPT !.status = "cancelled"]
    BY <1>1, <1>2 DEF WithStatus, HeldJobs
  <2> HIDE DEF a, b
  <2>2. b.status = "cancelled" /\ b.attempts = a.attempts
        /\ a.status \in {"queued"} \cup Terminal
    BY <2>1 DEF Job, Status
  <2> QED BY <2>2 DEF a, b, Goes
<1> QED BY <1>1, <1>3, <1>4 DEF GoesOn, Goes

LEMMA TimerFiresGoesOn ==
  ASSUME IndInv, NEW id \in JobIds, TimerFires(id)
  PROVE  file' = file /\ \A j \in JobIds : GoesOn(j)
<1>1. Enqueue(jobs, id, persistTimer) /\ nextId' = nextId /\ file' = file
  BY DEF TimerFires
<1>2. HeldJobs
  BY JobsAreHeld
<1>3. /\ DOMAIN jobs' = DOMAIN jobs
      /\ \A j \in DOMAIN jobs :
           /\ jobs'[j].attempts = jobs[j].attempts
           /\ \/ jobs'[j].status = jobs[j].status
              \/ jobs[j].status = "queued" /\ jobs'[j].status \in {"running", "failed"}
  BY <1>1, <1>2, EnqueueMoves DEF HeldJobs
<1> QED BY <1>1, <1>3 DEF GoesOn, Goes

LEMMA StartGoesOn ==
  ASSUME IndInv, Start
  PROVE  file' = file /\ \A j \in JobIds : GoesOn(j)
<1>1. /\ Process(jobs, queuedJobs, executing, activeCount, TRUE, persistTimer)
      /\ nextId' = nextId /\ file' = file
  BY DEF Start
<1>2. HeldJobs /\ Len(queuedJobs) \in Nat
  BY JobsAreHeld DEF IndInv, Consistent, Ordered
<1>3. /\ DOMAIN jobs' = DOMAIN jobs
      /\ \A j \in DOMAIN jobs :
           /\ jobs'[j].attempts = jobs[j].attempts
           /\ \/ jobs'[j].status = jobs[j].status
              \/ jobs[j].status = "queued" /\ jobs'[j].status \in {"running", "failed"}
  BY <1>1, <1>2, ProcessMoves DEF HeldJobs
<1> QED BY <1>1, <1>3 DEF GoesOn, Goes

(* The end of an attempt: its job goes on, others may be evicted, and the   *)
(* drain loop starts others still, never the job that just ended.          *)
LEMMA SettleGoesOn ==
  ASSUME IndInv, NEW id \in executing \cap DOMAIN jobs, NEW after, NEW js,
         DOMAIN after = DOMAIN jobs, \A j \in DOMAIN jobs : j # id => after[j] = jobs[j],
         after[id] \in Job, Goes(jobs[id], after[id]),
         js = after \/ js = Evict(after),
         Settle(id, js)
  PROVE  file' = file /\ \A j \in JobIds : GoesOn(j)
<1>1. /\ Process(js, queuedJobs, executing \ {id}, activeCount - 1, isProcessing, Persistent)
      /\ nextId' = nextId /\ file' = file
  BY DEF Settle
<1>2. HeldJobs /\ Len(queuedJobs) \in Nat
  BY JobsAreHeld DEF IndInv, Consistent, Ordered
<1>3. jobs[id].status = "running" /\ id \notin InQueue(queuedJobs)
  BY DEF IndInv, Consistent, Slots, Ordered, InStatus
<1>4. /\ DOMAIN js \subseteq DOMAIN jobs /\ \A j \in DOMAIN js : js[j] = after[j]
      /\ \A j \in DOMAIN jobs \ DOMAIN js : after[j].status \in Terminal
  BY EvictFacts
<1>5. \A j \in DOMAIN js : js[j] \in Job
  BY <1>2, <1>4 DEF HeldJobs
<1>6. /\ DOMAIN jobs' = DOMAIN js
      /\ \A j \in DOMAIN js :
           /\ jobs'[j].attempts = js[j].attempts
           /\ \/ jobs'[j].status = js[j].status
              \/ /\ js[j].status = "queued" /\ j \in InQueue(queuedJobs)
                 /\ jobs'[j].status \in {"running", "failed"}
  BY <1>1, <1>2, <1>5, ProcessMoves
<1>7. ASSUME NEW j \in JobIds PROVE GoesOn(j)
  <2>1. CASE j \notin DOMAIN jobs
    BY <1>1, <1>4, <1>6, <2>1 DEF GoesOn
  <2>2. CASE j \in DOMAIN jobs \ DOMAIN js
    <3>1. j < nextId' /\ jobs[j].status \in Terminal \cup {"running"}
      BY <1>1, <1>2, <1>3, <1>4, <2>2 DEF HeldJobs
    <3> QED BY <1>6, <2>2, <3>1 DEF GoesOn
  <2>3. CASE j \in DOMAIN js /\ j # id
    BY <1>4, <1>6, <2>3 DEF GoesOn, Goes
  <2>4. CASE j \in DOMAIN js /\ j = id
    <3>1. jobs'[id].attempts = after[id].attempts /\ jobs'[id].status = after[id].status
      BY <1>3, <1>4, <1>6, <2>4
    <3>2. Goes(jobs[id], jobs'[id])
      BY <3>1 DEF Goes
    <3> QED BY <1>6, <2>4, <3>2 DEF GoesOn
  <2> QED BY <2>1, <2>2, <2>3, <2>4
<1> QED BY <1>1, <1>7

LEMMA CompleteGoesOn ==
  ASSUME IndInv, NEW id \in JobIds, Complete(id)
  PROVE  file' = file /\ \A j \in JobIds : GoesOn(j)
<1> DEFINE after == WithStatus(jobs, {id}, "completed")
           js == Evict(after)
<1>1. id \in executing \cap DOMAIN jobs /\ Settle(id, js)
  BY DEF Complete
<1>2. jobs[id] \in Job /\ jobs[id].status = "running"
  BY <1>1, JobsAreHeld DEF HeldJobs, IndInv, Consistent, Slots, InStatus
<1>3. /\ DOMAIN after = DOMAIN jobs /\ \A j \in DOMAIN jobs : j # id => after[j] = jobs[j]
      /\ after[id] = [jobs[id] EXCEPT !.status = "completed"]
  BY <1>1 DEF WithStatus
<1> HIDE DEF after
<1>4. after[id] \in Job /\ after[id].status = "completed"
      /\ after[id].attempts = jobs[id].attempts
  <2> DEFINE a == jobs[id]
             b == after[id]
  <2>1. a \in Job /\ b = [a EXCEPT !.status = "completed"]
    BY <1>2, <1>3
  <2> HIDE DEF a, b
  <2>2. b \in Job /\ b.status = "completed" /\ b.attempts = a.attempts
    BY <2>1 DEF Job, Status, Terminal
  <2> QED BY <2>2 DEF a, b
<1>5. Goes(jobs[id], after[id])
  BY <1>2, <1>4 DEF Goes
<1> HIDE DEF js
<1>6. js = Evict(after)
  BY DEF js
<1> QED BY <1>1, <1>3, <1>4, <1>5, <1>6, SettleGoesOn

LEMMA FailAttemptGoesOn ==
  ASSUME IndInv, NEW id \in JobIds, FailAttempt(id)
  PROVE  file' = file /\ \A j \in JobIds : GoesOn(j)
<1>1. id \in executing \cap DOMAIN jobs
  BY DEF FailAttempt
<1>2. /\ jobs[id] \in Job /\ jobs[id].status = "running"
      /\ jobs[id].attempts < JobRetryAttempts
  BY <1>1, JobsAreHeld DEF HeldJobs, IndInv, Consistent, Slots, InStatus, WithinAttempts
<1>3. ASSUME NEW status \in {"queued", "failed"}
      PROVE  LET after == Attempted(id, status)
             IN  /\ DOMAIN after = DOMAIN jobs
                 /\ \A j \in DOMAIN jobs : j # id => after[j] = jobs[j]
                 /\ after[id] \in Job /\ after[id].status = status
                 /\ after[id].attempts = jobs[id].attempts + 1
  <2> DEFINE after == Attempted(id, status)
  <2>1. /\ DOMAIN after = DOMAIN jobs
        /\ \A j \in DOMAIN jobs : j # id => after[j] = jobs[j]
        /\ after[id] = [jobs[id] EXCEPT !.attempts = @ + 1, !.status = status]
    <3>1. jobs = [j \in DOMAIN jobs |-> jobs[j]]
      BY DEF IndInv, Consistent, JobMap
    <3> QED BY <1>1, <3>1 DEF Attempted
  <2> DEFINE a == jobs[id]
             b == after[id]
  <2>2. /\ a \in Job /\ a.attempts < JobRetryAttempts
        /\ b = [a EXCEPT !.attempts = @ + 1, !.status = status]
    BY <1>2, <2>1
  <2> HIDE DEF a, b, after
  <2>3. a.attempts \in Nat /\ a.attempts + 1 \in 0..JobRetryAttempts
    BY <2>2, JobQueueAssumption DEF Job
  <2>4. b \in Job /\ b.status = status /\ b.attempts = a.attempts + 1
    BY <2>2, <2>3, status \in {"queued", "failed"} DEF Job, Status, Terminal
  <2> QED BY <2>1, <2>4 DEF a, b, after
<1>4. CASE /\ jobs[id].attempts + 1 < JobRetryAttempts /\ Settle(id, Attempted(id, "queued"))
  <2> DEFINE after == Attempted(id, "queued")
  <2>1. /\ DOMAIN after = DOMAIN jobs /\ \A j \in DOMAIN jobs : j # id => after[j] = jobs[j]
        /\ after[id] \in Job /\ after[id].status = "queued"
        /\ after[id].attempts = jobs[id].attempts + 1 /\ Settle(id, after)
    BY <1>3, <1>4
  <2> HIDE DEF after
  <2>2. Goes(jobs[id], after[id])
    BY <1>2, <1>4, <2>1 DEF Goes
  <2> QED BY <1>1, <2>1, <2>2, SettleGoesOn
<1>5. CASE /\ jobs[id].attempts + 1 >= JobRetryAttempts
           /\ Settle(id, Evict(Attempted(id, "failed")))
  <2> DEFINE after == Attempted(id, "failed")
             js == Evict(after)
  <2>1. /\ DOMAIN after = DOMAIN jobs /\ \A j \in DOMAIN jobs : j # id => after[j] = jobs[j]
        /\ after[id] \in Job /\ after[id].status = "failed"
        /\ after[id].attempts = jobs[id].attempts + 1 /\ Settle(id, js)
    BY <1>3, <1>5
  <2> HIDE DEF after
  <2>2. Goes(jobs[id], after[id])
    <3>1. jobs[id].attempts \in Nat
      BY <1>2 DEF Job
    <3>2. ~ (after[id].attempts < JobRetryAttempts)
      BY <1>5, <2>1, <3>1, JobQueueAssumption
    <3> QED BY <1>2, <2>1, <3>2 DEF Goes
  <2>3. js = Evict(after)
    OBVIOUS
  <2> HIDE DEF js
  <2> QED BY <1>1, <2>1, <2>2, <2>3, SettleGoesOn
<1> QED BY <1>4, <1>5 DEF FailAttempt

-----------------------------------------------------------------------------
(* The snapshot, the end of a process and its restart *)

(* What the snapshot shows after it was taken of the memory. *)
LEMMA SnapshotIsHeld ==
  ASSUME IndInv, file' = Snapshot
  PROVE  LifeOnDisk' = Lifecycle!Held
<1>1. HeldJobs
  BY JobsAreHeld
<1>2. \A id \in DOMAIN jobs : Seen(jobs[id]) # Lifecycle!New
  BY <1>1 DEF HeldJobs, Seen, Job, Status, Terminal, Lifecycle!New
<1>3. /\ LifeOnDisk' \in [JobIds -> {LifeOnDisk'[id] : id \in JobIds}]
      /\ \A id \in JobIds : LifeOnDisk'[id] = IF id \in DOMAIN jobs THEN Seen(jobs[id])
                                              ELSE Unseen("gone")
  BY DEF LifeOnDisk, Snapshot
<1>4. \A id \in JobIds : Lifecycle!Held[id] = LifeOnDisk'[id]
  BY <1>2, <1>3 DEF Lifecycle!Held, LifeInMemory, Lifecycle!New, Lifecycle!Gone, Unseen
<1> QED BY <1>3, <1>4 DEF Lifecycle!Held, LifeOnDisk

LEMMA PersistFlushSaves ==
  ASSUME IndInv, PersistFlush
  PROVE  Lifecycle!Save \/ UNCHANGED <<LifeInMemory, LifeOnDisk>>
<1>1. UNCHANGED <<jobs, nextId>> /\ (file' = Snapshot \/ file' = file)
  BY DEF PersistFlush, PersistNow
<1>2. LifeInMemory' = LifeInMemory
  BY <1>1 DEF LifeInMemory
<1>3. CASE file' = Snapshot
  BY <1>2, <1>3, SnapshotIsHeld DEF Lifecycle!Save
<1>4. CASE file' = file
  BY <1>2, <1>4 DEF LifeOnDisk
<1> QED BY <1>1, <1>3, <1>4

LEMMA EndForgets ==
  ASSUME IndInv, CloseFinish \/ Die
  PROVE  Lifecycle!Forget
<1>1. jobs' = NoJobs /\ nextId' = nextId /\ (file' = Snapshot \/ file' = file)
  BY DEF CloseFinish, Die, PersistNow
<1>2. HeldJobs
  BY JobsAreHeld
<1>3. LifeOnDisk' \in {LifeOnDisk, Lifecycle!Held}
  BY <1>1, SnapshotIsHeld DEF LifeOnDisk
<1>4. \A id \in DOMAIN jobs : Seen(jobs[id]) # Lifecycle!New
  BY <1>2 DEF HeldJobs, Seen, Job, Status, Terminal, Lifecycle!New
<1>5. LifeInMemory' = [id \in JobIds |-> IF LifeInMemory[id] = Lifecycle!New THEN Lifecycle!New
                                         ELSE Lifecycle!Gone]
  <2>1. LifeInMemory' = [id \in JobIds |-> IF id < nextId THEN Unseen("gone") ELSE Unseen("new")]
    BY <1>1 DEF LifeInMemory, NoJobs
  <2>2. \A id \in JobIds : LifeInMemory[id] = Lifecycle!New <=> ~ (id < nextId)
    BY <1>2, <1>4 DEF HeldJobs, LifeInMemory, Unseen, Lifecycle!New
  <2> QED BY <2>1, <2>2 DEF Unseen, Lifecycle!New, Lifecycle!Gone
<1> QED BY <1>3, <1>5 DEF Lifecycle!Forget

LEMMA LoadRestarts ==
  ASSUME IndInv, Load
  PROVE  Lifecycle!Restart
<1>1. /\ phase = "down" /\ jobs' = Recovered(file.jobs)
      /\ nextId' = nextId /\ file' = file
  BY DEF Load
<1>2. jobs = NoJobs /\ HeldJobs
  BY <1>1, JobsAreHeld DEF IndInv, PhaseInv
<1>3. LifeOnDisk' = LifeOnDisk
  BY <1>1 DEF LifeOnDisk
<1>4. \A id \in JobIds : LifeInMemory[id] \in {Lifecycle!New, Lifecycle!Gone}
  BY <1>2 DEF LifeInMemory, NoJobs, Unseen, Lifecycle!New, Lifecycle!Gone
<1>5. DOMAIN jobs' = DOMAIN file.jobs
  BY <1>1 DEF Recovered, WithStatus
<1>6. ASSUME NEW id \in DOMAIN file.jobs
      PROVE  /\ Seen(jobs'[id]) = Lifecycle!Resumed(LifeOnDisk[id])
             /\ LifeOnDisk[id] # Lifecycle!Gone
  <2> DEFINE a == file.jobs[id]
             b == jobs'[id]
  <2>1. a \in Job /\ id \in JobIds
    BY <1>2 DEF HeldJobs
  <2>2. b = IF a.status = "running" THEN [a EXCEPT !.status = "queued"] ELSE a
    BY <1>1 DEF Recovered, WithStatus, InStatus
  <2>3. LifeOnDisk[id] = Seen(a)
    BY <2>1 DEF LifeOnDisk
  <2> HIDE DEF a, b
  <2>4. Seen(b) = Lifecycle!Resumed(Seen(a))
    BY <2>1, <2>2 DEF Seen, Job, Lifecycle!Resumed
  <2>5. Seen(a) # Lifecycle!Gone
    BY <2>1 DEF Seen, Job, Status, Terminal, Lifecycle!Gone
  <2> QED BY <2>3, <2>4, <2>5 DEF b
<1>7. ASSUME NEW id \in JobIds \ DOMAIN file.jobs
      PROVE  LifeInMemory'[id] = LifeInMemory[id] /\ LifeOnDisk[id] = Lifecycle!Gone
  BY <1>1, <1>2, <1>5 DEF LifeInMemory, LifeOnDisk, NoJobs, Unseen, Lifecycle!Gone
<1>8. LifeInMemory' = [id \in JobIds |-> IF LifeOnDisk[id] = Lifecycle!Gone THEN LifeInMemory[id]
                                         ELSE Lifecycle!Resumed(LifeOnDisk[id])]
  <2>1. \A id \in DOMAIN file.jobs : id \in JobIds /\ LifeInMemory'[id] = Seen(jobs'[id])
    BY <1>2, <1>5 DEF HeldJobs, LifeInMemory
  <2>2. \A id \in JobIds :
          LifeInMemory'[id] = IF LifeOnDisk[id] = Lifecycle!Gone THEN LifeInMemory[id]
                              ELSE Lifecycle!Resumed(LifeOnDisk[id])
    BY <1>6, <1>7, <2>1
  <2> QED BY <2>2 DEF LifeInMemory
<1> QED BY <1>3, <1>4, <1>8 DEF Lifecycle!Restart

-----------------------------------------------------------------------------
(* The theorem *)

LEMMA InitImplements == Init => Lifecycle!Init
BY JobQueueAssumption
   DEF Init, NoJobs, EmptySnapshot, JobIds, LifeInMemory, LifeOnDisk, Unseen, Lifecycle!Init,
       Lifecycle!New, Lifecycle!Gone

LEMMA NextImplements ==
  IndInv /\ IndInv' /\ [Next]_vars => [Lifecycle!Next]_<<LifeInMemory, LifeOnDisk>>
<1> SUFFICES ASSUME IndInv, IndInv', [Next]_vars
             PROVE  Lifecycle!Next \/ UNCHANGED <<LifeInMemory, LifeOnDisk>>
  OBVIOUS
<1>1. ASSUME file' = file, \A id \in JobIds : GoesOn(id)
      PROVE  Lifecycle!Next
  BY <1>1, StepsImplement DEF Lifecycle!Next
<1>2. ASSUME UNCHANGED <<jobs, file, nextId>>
      PROVE  UNCHANGED <<LifeInMemory, LifeOnDisk>>
  BY <1>2 DEF LifeInMemory, LifeOnDisk
<1>3. CASE UNCHANGED vars
  BY <1>2, <1>3 DEF vars, memory
<1>4. CASE \E type \in Types, priority \in Priorities :
             Add(type, priority) \/ AddDelayed(type, priority)
  BY <1>1, <1>4, AddGoesOn
<1>5. ASSUME NEW id \in JobIds, JobStep(id)
      PROVE  Lifecycle!Next \/ UNCHANGED <<LifeInMemory, LifeOnDisk>>
  <2>1. CASE SettleAfterClose(id)
    BY <1>2, <2>1 DEF SettleAfterClose
  <2>2. CASE ~ SettleAfterClose(id)
    BY <1>1, <1>5, <2>2, CancelGoesOn, TimerFiresGoesOn, CompleteGoesOn, FailAttemptGoesOn
       DEF JobStep, Reject, Timeout
  <2> QED BY <2>1, <2>2
<1>6. CASE Start
  BY <1>1, <1>6, StartGoesOn
<1>7. CASE RegisterHandlers \/ Stop \/ CloseBegin
  BY <1>2, <1>7 DEF RegisterHandlers, Stop, CloseBegin
<1>8. CASE PersistFlush
  BY <1>8, PersistFlushSaves DEF Lifecycle!Next
<1>9. CASE CloseFinish \/ Die
  BY <1>9, EndForgets DEF Lifecycle!Next
<1>10. CASE Load
  BY <1>10, LoadRestarts DEF Lifecycle!Next
<1> QED BY <1>3, <1>4, <1>5, <1>6, <1>7, <1>8, <1>9, <1>10 DEF Next

(* Whatever happens to the queue and to its process, each job goes through  *)
(* the life that JobLifecycle allows.                                      *)
THEOREM QueueKeepsItsPromise == Spec => ImplementsLifecycle
<1>1. Init => Lifecycle!Init
  BY InitImplements
<1>2. IndInv /\ IndInv' /\ [Next]_vars => [Lifecycle!Next]_<<LifeInMemory, LifeOnDisk>>
  BY NextImplements
<1> QED BY <1>1, <1>2, IndInvHolds, PTL DEF Spec, ImplementsLifecycle, Lifecycle!Spec

(* A job that may still run leaves the queue only through its own handler,  *)
(* through close() or with the process: eviction never takes one.          *)
THEOREM LiveJobsStay == Spec => LiveJobsAreKept
<1>1. ASSUME IndInv, IndInv', [Next]_vars, phase' \in {"up", "closing"},
             NEW id \in DOMAIN jobs
      PROVE  id \in DOMAIN jobs' \/ jobs[id].status \in Terminal \/ id \in executing \ executing'
  <2>1. id \in JobIds /\ (jobs[id].status = "running" => id \in executing)
    BY <1>1, JobsAreHeld DEF HeldJobs, IndInv, Consistent, Slots, InStatus
  <2>2. executing' \subseteq DOMAIN jobs'
    BY <1>1 DEF IndInv, PhaseInv
  <2>3. ASSUME GoesOn(id)
        PROVE  \/ id \in DOMAIN jobs' \/ jobs[id].status \in Terminal
               \/ id \in executing \ executing'
    BY <2>1, <2>2, <2>3 DEF GoesOn
  <2>4. CASE UNCHANGED jobs
    BY <2>4
  <2>5. CASE \E type \in Types, priority \in Priorities :
               Add(type, priority) \/ AddDelayed(type, priority)
    BY <1>1, <2>1, <2>3, <2>5, AddGoesOn
  <2>6. ASSUME NEW j \in JobIds, JobStep(j)
        PROVE  \/ id \in DOMAIN jobs' \/ jobs[id].status \in Terminal
               \/ id \in executing \ executing'
    <3>1. CASE SettleAfterClose(j)
      BY <2>4, <3>1 DEF SettleAfterClose
    <3>2. CASE ~ SettleAfterClose(j)
      BY <1>1, <2>1, <2>3, <2>6, <3>2, CancelGoesOn, TimerFiresGoesOn, CompleteGoesOn,
         FailAttemptGoesOn DEF JobStep, Reject, Timeout
    <3> QED BY <3>1, <3>2
  <2>7. CASE Start
    BY <1>1, <2>1, <2>3, <2>7, StartGoesOn
  <2>8. CASE PersistFlush \/ RegisterHandlers \/ Stop \/ CloseBegin
    BY <2>4, <2>8 DEF PersistFlush, RegisterHandlers, Stop, CloseBegin
  <2>9. ~ CloseFinish /\ ~ Die
    BY <1>1 DEF CloseFinish, Die
  <2>10. ~ Load
    BY <1>1 DEF Load, IndInv, PhaseInv, NoJobs
  <2>11. CASE UNCHANGED vars
    BY <2>4, <2>11 DEF vars, memory
  <2> QED BY <1>1, <2>5, <2>6, <2>7, <2>8, <2>9, <2>10, <2>11 DEF Next
<1>2. IndInv /\ IndInv' /\ [Next]_vars
        => [phase' \in {"up", "closing"} =>
              \A id \in DOMAIN jobs : id \in DOMAIN jobs' \/ jobs[id].status \in Terminal
                                      \/ id \in executing \ executing']_vars
  BY <1>1
<1> QED BY <1>2, IndInvHolds, PTL DEF Spec, LiveJobsAreKept
=============================================================================
