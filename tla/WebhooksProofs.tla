--------------------------- MODULE WebhooksProofs ---------------------------
(***************************************************************************)
(* Proofs about Webhooks for every value of its constants: however answers, *)
(* timeouts, cancellations, pauses, deletions, writes of the snapshot and   *)
(* restarts from any that was written interleave, the                       *)
(* receiver sees a bounded number of attempts, the queue waits for one      *)
(* that is on the wire, and a log is the latest window of the answers.      *)
(***************************************************************************)
EXTENDS Webhooks, SequenceTheorems, TLAPS

-----------------------------------------------------------------------------
(* The inductive invariant *)

RepositoryTypes ==
  /\ nextId \in 1..(MaxHooks + 1) /\ boots \in 0..MaxBoots
  /\ DOMAIN hooks \subseteq 1..(nextId - 1)
  /\ \A id \in DOMAIN hooks : hooks[id] \in Hook
  /\ \A id \in DOMAIN logs : logs[id] \in Seq(Entry) /\ Len(logs[id]) \in 1..MaxLogs

DeliveryTypes ==
  /\ jobs \in Seq(Job) /\ Len(jobs) <= MaxJobs
  /\ sent \in Seq(Nat) /\ Len(sent) = Len(jobs)
  /\ exchanges \subseteq [job : 1..Len(jobs), nr : 1..MaxAttempts]

(* What a delivery has left: a waiting one has an attempt to spend, and     *)
(* what the receiver saw beyond the attempts counted was cut off or taken   *)
(* back by a restart, or is the attempt that runs.                         *)
WithinBudget(j) ==
  /\ jobs[j].status = "queued"  => /\ jobs[j].attempts < MaxAttempts
                                   /\ sent[j] <= jobs[j].attempts + Repeats(j)
  /\ jobs[j].status = "running" => /\ jobs[j].attempts < MaxAttempts
                                   /\ sent[j] <= jobs[j].attempts + 1 + Repeats(j)
  /\ sent[j] <= MaxAttempts + Repeats(j)

(* The exchanges of a delivery: earlier attempts, and the one that runs. *)
OnTheWire(j) ==
  /\ jobs[j].status = "running" => Exchange(j, jobs[j].attempts + 1) \in exchanges
  /\ \A x \in exchanges : x.job = j =>
       \/ x.nr <= jobs[j].attempts
       \/ jobs[j].status = "running" /\ x.nr = jobs[j].attempts + 1

Deliveries == \A j \in DOMAIN jobs : WithinBudget(j) /\ OnTheWire(j)

(* The snapshot is an earlier state of the deliveries, and in it, too, one  *)
(* that waits has an attempt to spend.                                     *)
Snapshot ==
  /\ file \in Seq(Job) /\ Len(file) <= Len(jobs)
  /\ \A j \in DOMAIN file :
       file[j].status \in {"queued", "running"} => file[j].attempts < MaxAttempts
  /\ rolledBack \subseteq 1..Len(jobs) /\ older \in 0..Len(jobs)

EndOf(log, all) ==
  /\ Len(log) <= Len(all)
  /\ \A i \in 1..Len(log) : log[i] = all[Len(all) - Len(log) + i]

LatestWindow(log, all) ==
  /\ EndOf(log, all)
  /\ Len(log) = IF Len(all) > MaxLogs THEN MaxLogs ELSE Len(all)

(* Before a restart an id is given once, so that the first answer logged    *)
(* under it is the first of its webhook.                                   *)
Logging ==
  /\ DOMAIN answers = DOMAIN hooks
  /\ \A id \in DOMAIN answers : answers[id] \in Seq(Entry)
  /\ boots = 0 =>
       /\ \A j \in DOMAIN jobs : jobs[j].hook < nextId
       /\ \A id \in DOMAIN logs : id \in Int /\ id < nextId
       /\ \A id \in DOMAIN hooks : LatestWindow(LogOf(id), answers[id])

IndInv == RepositoryTypes /\ DeliveryTypes /\ Deliveries /\ Snapshot /\ Logging

-----------------------------------------------------------------------------
(* Functions and sequences *)

(* One more entry moves the window by one. *)
LEMMA LoggedFacts ==
  ASSUME NEW log \in Seq(Entry), Len(log) <= MaxLogs, NEW entry \in Entry
  PROVE  /\ Logged(log, entry) \in Seq(Entry)
         /\ Len(Logged(log, entry)) \in 1..MaxLogs
         /\ \A all \in Seq(Entry) : LatestWindow(log, all) =>
              LatestWindow(Logged(log, entry), Append(all, entry))
<1> DEFINE more == Append(log, entry)
<1>0. MaxLogs \in Nat \ {0}
  BY WebhooksAssumption
<1>1. /\ more \in Seq(Entry) /\ Len(more) = Len(log) + 1 /\ more # << >>
      /\ \A i \in 1..Len(log) : more[i] = log[i]
      /\ more[Len(log) + 1] = entry
  OBVIOUS
<1>2. \A all \in Seq(Entry) : EndOf(log, all) => EndOf(more, Append(all, entry))
  <2> SUFFICES ASSUME NEW all \in Seq(Entry), EndOf(log, all)
               PROVE  EndOf(more, Append(all, entry))
    OBVIOUS
  <2> DEFINE grown == Append(all, entry)
  <2>1. /\ Len(grown) = Len(all) + 1
        /\ \A i \in 1..Len(all) : grown[i] = all[i]
        /\ grown[Len(all) + 1] = entry
    OBVIOUS
  <2>2. Len(log) \in Nat /\ Len(all) \in Nat /\ Len(log) <= Len(all)
    BY DEF EndOf
  <2> HIDE DEF more, grown
  <2>3. ASSUME NEW i \in 1..Len(more)
        PROVE  more[i] = grown[Len(grown) - Len(more) + i]
    <3>1. Len(grown) - Len(more) + i = Len(all) - Len(log) + i
      BY <1>1, <2>1, <2>2
    <3>2. CASE i \in 1..Len(log)
      <4>1. Len(all) - Len(log) + i \in 1..Len(all)
        BY <2>2, <3>2
      <4> QED BY <1>1, <2>1, <3>1, <3>2, <4>1 DEF EndOf
    <3>3. CASE i = Len(log) + 1
      <4>1. Len(all) - Len(log) + i = Len(all) + 1
        BY <2>2, <3>3
      <4> QED BY <1>1, <2>1, <3>1, <3>3, <4>1
    <3> QED BY <1>1, <2>2, <3>2, <3>3
  <2>4. EndOf(more, grown)
    BY <1>1, <2>1, <2>2, <2>3 DEF EndOf
  <2> QED BY <2>4 DEF grown
<1>3. CASE Len(more) <= MaxLogs
  <2>1. Logged(log, entry) = more
    BY <1>0, <1>1, <1>3 DEF Logged
  <2> HIDE DEF more
  <2>2. ASSUME NEW all \in Seq(Entry), LatestWindow(log, all)
        PROVE  LatestWindow(more, Append(all, entry))
    <3>1. Len(Append(all, entry)) = Len(all) + 1 /\ Len(all) \in Nat /\ Len(log) \in Nat
      OBVIOUS
    <3> QED BY <1>0, <1>1, <1>2, <1>3, <2>2, <3>1 DEF LatestWindow
  <2> QED BY <1>0, <1>1, <1>3, <2>1, <2>2
<1>4. CASE Len(more) > MaxLogs
  <2>1. Logged(log, entry) = Tail(more)
    BY <1>0, <1>1, <1>4 DEF Logged
  <2>2. /\ Tail(more) \in Seq(Entry) /\ Len(Tail(more)) = Len(more) - 1
        /\ \A i \in 1..Len(Tail(more)) : Tail(more)[i] = more[i + 1]
    <3> HIDE DEF more
    <3> QED BY <1>1, HeadTailProperties
  <2>3. Len(log) \in Nat
    OBVIOUS
  <2>4. Len(Tail(more)) \in 1..MaxLogs
    <3> HIDE DEF more
    <3> QED BY <1>0, <1>1, <1>4, <2>2, <2>3
  <2>5. ASSUME NEW whole \in Seq(Entry), EndOf(more, whole)
        PROVE  EndOf(Tail(more), whole)
    <3> DEFINE fewer == Tail(more)
    <3>1. Len(whole) \in Nat
      OBVIOUS
    <3>2. /\ Len(fewer) = Len(more) - 1 /\ Len(more) \in Nat
          /\ \A i \in 1..Len(fewer) : fewer[i] = more[i + 1]
      <4> HIDE DEF more
      <4> QED BY <1>1, <2>2, <2>3
    <3> HIDE DEF more, fewer
    <3>3. Len(more) <= Len(whole)
      BY <2>5 DEF EndOf
    <3>4. ASSUME NEW i \in 1..Len(fewer)
          PROVE  fewer[i] = whole[Len(whole) - Len(fewer) + i]
      <4>1. i + 1 \in 1..Len(more) /\ fewer[i] = more[i + 1]
        BY <3>2
      <4>2. more[i + 1] = whole[Len(whole) - Len(more) + (i + 1)]
        BY <2>5, <4>1 DEF EndOf
      <4>3. Len(whole) - Len(more) + (i + 1) = Len(whole) - Len(fewer) + i
        BY <3>1, <3>2
      <4> QED BY <4>1, <4>2, <4>3
    <3>5. EndOf(fewer, whole)
      BY <3>1, <3>2, <3>3, <3>4 DEF EndOf
    <3> QED BY <3>5 DEF fewer
  <2>6. \A all \in Seq(Entry) : Append(all, entry) \in Seq(Entry)
    OBVIOUS
  <2>7. ASSUME NEW all \in Seq(Entry), LatestWindow(log, all)
        PROVE  LatestWindow(Tail(more), Append(all, entry))
    <3>1. Len(Append(all, entry)) = Len(all) + 1 /\ Len(all) \in Nat
      OBVIOUS
    <3> HIDE DEF more
    <3>2. EndOf(Tail(more), Append(all, entry))
      BY <1>2, <2>5, <2>6, <2>7 DEF LatestWindow
    <3>3. Len(Tail(more)) = MaxLogs /\ Len(Append(all, entry)) > MaxLogs
      BY <1>0, <1>1, <1>4, <2>2, <2>3, <2>7, <3>1 DEF LatestWindow, EndOf
    <3> QED BY <3>2, <3>3 DEF LatestWindow
  <2> HIDE DEF more
  <2> QED BY <2>1, <2>2, <2>4, <2>7
<1>5. Len(more) \in Nat
  BY <1>1
<1> QED BY <1>0, <1>3, <1>4, <1>5

LEMMA EndIsASubSeq ==
  ASSUME NEW log \in Seq(Entry), NEW all \in Seq(Entry), EndOf(log, all)
  PROVE  log = SubSeq(all, Len(all) - Len(log) + 1, Len(all))
<1> DEFINE from == Len(all) - Len(log) + 1
           part == SubSeq(all, from, Len(all))
<1>1. Len(log) \in Nat /\ Len(all) \in Nat /\ Len(log) <= Len(all) /\ from \in Int
  BY DEF EndOf
<1>2. \A i \in from..Len(all) : all[i] \in Entry
  BY <1>1
<1>3. /\ part \in Seq(Entry)
      /\ Len(part) = IF from <= Len(all) THEN Len(all) - from + 1 ELSE 0
      /\ \A i \in 1..(Len(all) - from + 1) : part[i] = all[from + i - 1]
  <2> HIDE DEF from
  <2> QED BY <1>1, <1>2, SubSeqProperties
<1>4. Len(part) = Len(log)
  <2> HIDE DEF part
  <2> QED BY <1>1, <1>3
<1>5. ASSUME NEW i \in 1..Len(log) PROVE log[i] = part[i]
  <2>1. part[i] = all[from + i - 1]
    <3> HIDE DEF part
    <3> QED BY <1>1, <1>3
  <2>2. from + i - 1 = Len(all) - Len(log) + i
    BY <1>1
  <2> HIDE DEF from, part
  <2> QED BY <2>1, <2>2 DEF EndOf
<1> HIDE DEF part
<1>6. log = part
  BY <1>3, <1>4, <1>5, SeqEqual
<1> QED BY <1>6 DEF part

LEMMA WindowIsASubSeq ==
  ASSUME NEW log \in Seq(Entry), NEW all \in Seq(Entry), LatestWindow(log, all)
  PROVE  log = SubSeq(all, IF Len(all) > MaxLogs THEN Len(all) - MaxLogs + 1 ELSE 1, Len(all))
<1>1. Len(log) \in Nat /\ Len(all) \in Nat /\ MaxLogs \in Nat
  BY WebhooksAssumption
<1>2. log = SubSeq(all, Len(all) - Len(log) + 1, Len(all))
  BY EndIsASubSeq DEF LatestWindow
<1>3. Len(all) - Len(log) + 1 = IF Len(all) > MaxLogs THEN Len(all) - MaxLogs + 1 ELSE 1
  BY <1>1 DEF LatestWindow
<1> QED BY <1>2, <1>3

-----------------------------------------------------------------------------
(* What one step does to the deliveries *)

LEMMA JobFacts ==
  ASSUME DeliveryTypes
  PROVE  /\ DOMAIN jobs = 1..Len(jobs) /\ Len(jobs) \in Nat /\ DOMAIN sent = DOMAIN jobs
         /\ \A j \in DOMAIN jobs :
              /\ jobs[j] \in Job /\ jobs[j].hook \in Int /\ jobs[j].url \in Urls
              /\ jobs[j].attempts \in 0..MaxAttempts
              /\ jobs[j].status \in {"queued", "running", "gone"} \cup Ended
              /\ sent[j] \in Nat
<1>1. DOMAIN jobs = 1..Len(jobs) /\ Len(jobs) \in Nat /\ DOMAIN sent = DOMAIN jobs
  BY DEF DeliveryTypes
<1>2. \A j \in DOMAIN jobs : jobs[j] \in Job /\ sent[j] \in Nat
  BY <1>1 DEF DeliveryTypes
<1> QED BY <1>1, <1>2 DEF Job

(* A delivery gets a new status, and perhaps a new count of attempts. *)
Becomes(j, attempts, status) ==
  [jobs EXCEPT ![j].attempts = attempts, ![j].status = status]

LEMMA BecomesFacts ==
  ASSUME DeliveryTypes, NEW j \in DOMAIN jobs, NEW a \in 0..MaxAttempts,
         NEW s \in {"queued", "running", "gone"} \cup Ended
  PROVE  /\ Becomes(j, a, s) \in Seq(Job)
         /\ Len(Becomes(j, a, s)) = Len(jobs)
         /\ DOMAIN Becomes(j, a, s) = DOMAIN jobs
         /\ \A i \in DOMAIN jobs :
              /\ Becomes(j, a, s)[i].hook = jobs[i].hook
              /\ Becomes(j, a, s)[i].url = jobs[i].url
              /\ i # j => Becomes(j, a, s)[i] = jobs[i]
         /\ Becomes(j, a, s)[j].attempts = a
         /\ Becomes(j, a, s)[j].status = s
<1>1. jobs \in Seq(Job) /\ DOMAIN jobs = 1..Len(jobs) /\ jobs[j] \in Job
  BY DEF DeliveryTypes
<1> DEFINE new == [jobs[j] EXCEPT !.attempts = a, !.status = s]
<1>2. /\ new \in Job /\ new.attempts = a /\ new.status = s
      /\ new.hook = jobs[j].hook /\ new.url = jobs[j].url
  BY <1>1 DEF Job
<1>3. Becomes(j, a, s) = [jobs EXCEPT ![j] = new]
  BY <1>1 DEF Becomes, Job
<1> HIDE DEF new
<1>4. /\ Becomes(j, a, s) \in Seq(Job) /\ Len(Becomes(j, a, s)) = Len(jobs)
      /\ \A i \in 1..Len(jobs) : Becomes(j, a, s)[i] = IF i = j THEN new ELSE jobs[i]
  BY <1>1, <1>2, <1>3, ExceptSeq
<1> QED BY <1>1, <1>2, <1>4

(* An attempt is over, or a waiting delivery is: exchanges may end with it, *)
(* but none of another delivery.                                           *)
LEMMA SettlingKeepsDeliveries ==
  ASSUME DeliveryTypes, Deliveries, boots \in Nat,
         NEW j \in DOMAIN jobs, NEW a \in 0..MaxAttempts, NEW s \in {"queued"} \cup Ended,
         jobs' = Becomes(j, a, s), sent' = sent, boots' = boots, rolledBack' = rolledBack,
         exchanges' \subseteq exchanges,
         \A x \in exchanges \ exchanges' : x.job = j,
         \A x \in exchanges' : x.job = j => x.nr <= a,
         s = "queued" => a < MaxAttempts /\ sent[j] <= a + Repeats(j)
  PROVE  /\ DeliveryTypes' /\ Deliveries'
         /\ DOMAIN jobs' = DOMAIN jobs
         /\ \A i \in DOMAIN jobs : jobs'[i].hook = jobs[i].hook
<1> SUFFICES /\ DeliveryTypes' /\ Deliveries'
             /\ DOMAIN jobs' = DOMAIN jobs
             /\ \A i \in DOMAIN jobs : jobs'[i].hook = jobs[i].hook
  OBVIOUS
<1>0. \A i : Repeats(i)' = Repeats(i)
  BY DEF Repeats
<1>1. /\ jobs' \in Seq(Job) /\ Len(jobs') = Len(jobs) /\ DOMAIN jobs' = DOMAIN jobs
      /\ \A i \in DOMAIN jobs :
           jobs'[i].hook = jobs[i].hook /\ (i # j => jobs'[i] = jobs[i])
      /\ jobs'[j].attempts = a /\ jobs'[j].status = s /\ s # "running"
  BY BecomesFacts DEF Ended
<1>2. DeliveryTypes'
  BY <1>1 DEF DeliveryTypes
<1>3. ASSUME NEW i \in DOMAIN jobs', i # j PROVE WithinBudget(i)' /\ OnTheWire(i)'
  <2>1. i \in DOMAIN jobs /\ jobs'[i] = jobs[i] /\ WithinBudget(i) /\ OnTheWire(i)
    BY <1>1, <1>3 DEF Deliveries
  <2>2. jobs[i].status = "running" => Exchange(i, jobs[i].attempts + 1) \in exchanges'
    BY <1>3, <2>1 DEF OnTheWire, Exchange
  <2> QED BY <1>0, <2>1, <2>2 DEF WithinBudget, OnTheWire
<1>4. WithinBudget(j)'
  <2>1. sent[j] <= MaxAttempts + Repeats(j)
    BY DEF Deliveries, WithinBudget
  <2> QED BY <1>0, <1>1, <2>1 DEF WithinBudget
<1>5. OnTheWire(j)'
  BY <1>1 DEF OnTheWire
<1> QED BY <1>1, <1>2, <1>3, <1>4, <1>5 DEF Deliveries

(* Nothing of the repository moves, and no delivery gets another webhook. *)
LEMMA RepositoryStays ==
  ASSUME RepositoryTypes, Logging, UNCHANGED <<registry, logs, boots, answers>>,
         DOMAIN jobs' = DOMAIN jobs, \A i \in DOMAIN jobs : jobs'[i].hook = jobs[i].hook
  PROVE  RepositoryTypes' /\ Logging'
<1>1. RepositoryTypes'
  BY DEF RepositoryTypes, registry
<1>2. Logging'
  BY DEF Logging, registry, LogOf
<1> QED BY <1>1, <1>2

LEMMA DeliveriesStay ==
  ASSUME DeliveryTypes, Deliveries, UNCHANGED <<jobs, exchanges, boots, sent, rolledBack>>
  PROVE  DeliveryTypes' /\ Deliveries'
<1>1. DeliveryTypes'
  BY DEF DeliveryTypes
<1>2. Deliveries'
  BY DEF Deliveries, WithinBudget, Repeats, OnTheWire
<1> QED BY <1>1, <1>2

LEMMA SnapshotStays ==
  ASSUME Snapshot, DeliveryTypes, DeliveryTypes', UNCHANGED <<file, past>>,
         Len(jobs') \in {Len(jobs), Len(jobs) + 1}
  PROVE  Snapshot'
<1>1. Len(jobs) \in Nat /\ Len(jobs') \in Nat /\ Len(file) \in Nat
  BY DEF DeliveryTypes, Snapshot
<1> QED BY <1>1 DEF Snapshot, past

LEMMA SettledSnapshot ==
  ASSUME Snapshot, DeliveryTypes, DeliveryTypes', UNCHANGED <<file, past>>,
         DOMAIN jobs' = DOMAIN jobs
  PROVE  Snapshot'
<1>1. /\ DOMAIN jobs = 1..Len(jobs) /\ DOMAIN jobs' = 1..Len(jobs')
      /\ Len(jobs) \in Nat /\ Len(jobs') \in Nat
  BY DEF DeliveryTypes
<1>2. Len(jobs') = Len(jobs)
  BY <1>1
<1> QED BY <1>2, SnapshotStays

-----------------------------------------------------------------------------
(* One lemma per action *)

LEMMA RegisterKeeps ==
  ASSUME IndInv, NEW url \in Urls, NEW event \in Events, Register(url, event)
  PROVE  IndInv'
<1> USE DEF IndInv
<1> DEFINE hook == [url |-> url, event |-> event, status |-> "active"]
<1>1. DeliveryTypes' /\ Deliveries'
  BY DeliveriesStay DEF Register, past
<1>2. /\ hooks' = With(hooks, nextId, hook) /\ answers' = With(answers, nextId, << >>)
      /\ nextId' = nextId + 1 /\ logs' = logs /\ boots' = boots /\ jobs' = jobs
      /\ nextId \in 1..MaxHooks /\ MaxHooks \in Nat
  BY WebhooksAssumption DEF Register, RepositoryTypes
<1>3. hook \in Hook
  BY DEF Hook
<1> HIDE DEF hook
<1>4. /\ DOMAIN hooks' = DOMAIN hooks \cup {nextId} /\ hooks'[nextId] = hook
      /\ \A id \in DOMAIN hooks : id # nextId => hooks'[id] = hooks[id]
      /\ DOMAIN answers' = DOMAIN answers \cup {nextId} /\ answers'[nextId] = << >>
      /\ \A id \in DOMAIN answers : id # nextId => answers'[id] = answers[id]
  BY <1>2 DEF With
<1>5. RepositoryTypes'
  <2>1. nextId' \in 1..(MaxHooks + 1) /\ DOMAIN hooks' \subseteq 1..(nextId' - 1)
    BY <1>2, <1>4 DEF RepositoryTypes
  <2> QED BY <1>2, <1>3, <1>4, <2>1 DEF RepositoryTypes
<1>6. Logging'
  <2>1. DOMAIN answers' = DOMAIN hooks'
    BY <1>4 DEF Logging
  <2>2. \A id \in DOMAIN answers' : answers'[id] \in Seq(Entry)
    <3>1. << >> \in Seq(Entry)
      OBVIOUS
    <3> QED BY <1>4, <3>1 DEF Logging
  <2>3. ASSUME boots' = 0
        PROVE  /\ \A j \in DOMAIN jobs' : jobs'[j].hook < nextId'
               /\ \A id \in DOMAIN logs' : id \in Int /\ id < nextId'
               /\ \A id \in DOMAIN hooks' : LatestWindow(LogOf(id)', answers'[id])
    <3>1. \A j \in DOMAIN jobs' : jobs'[j].hook < nextId'
      <4>1. ASSUME NEW j \in DOMAIN jobs PROVE jobs[j].hook \in Int
        BY JobFacts
      <4>2. \A j \in DOMAIN jobs : jobs[j].hook < nextId
        BY <1>2, <2>3 DEF Logging
      <4> QED BY <1>2, <4>1, <4>2
    <3>2. \A id \in DOMAIN logs' : id \in Int /\ id < nextId'
      BY <1>2, <2>3 DEF Logging
    <3>3. \A id \in DOMAIN hooks : LatestWindow(LogOf(id)', answers'[id])
      <4> SUFFICES ASSUME NEW id \in DOMAIN hooks PROVE LatestWindow(LogOf(id)', answers'[id])
        OBVIOUS
      <4>1. id # nextId
        BY DEF RepositoryTypes
      <4>2. answers'[id] = answers[id] /\ LogOf(id)' = LogOf(id)
        BY <1>2, <1>4, <4>1 DEF Logging, LogOf
      <4> QED BY <1>2, <2>3, <4>2 DEF Logging
    <3>4. ASSUME NEW id, id = nextId PROVE LatestWindow(LogOf(id)', answers'[id])
      <4>1. id \notin DOMAIN logs
        BY <1>2, <2>3, <3>4 DEF Logging
      <4>2. logs' = logs /\ answers'[id] = << >>
        BY <1>2, <1>4, <3>4
      <4>3. Len(<< >>) = 0 /\ MaxLogs \in Nat
        BY WebhooksAssumption
      <4> QED BY <4>1, <4>2, <4>3 DEF LogOf, LatestWindow, EndOf
    <3> QED BY <1>4, <3>1, <3>2, <3>3, <3>4
  <2> QED BY <2>1, <2>2, <2>3 DEF Logging
<1>9. Snapshot'
  BY <1>1, SnapshotStays DEF Register
<1> QED BY <1>1, <1>5, <1>6, <1>9

LEMMA PatchKeeps ==
  ASSUME IndInv, NEW id \in 1..MaxHooks, NEW event \in Events,
         NEW status \in {"active", "inactive"}, Patch(id, event, status)
  PROVE  IndInv'
<1> USE DEF IndInv
<1>1. DeliveryTypes' /\ Deliveries'
  BY DeliveriesStay DEF Patch, past
<1>2. id \in DOMAIN hooks /\ hooks[id] \in Hook
  BY DEF Patch, RepositoryTypes
<1> DEFINE hook == [hooks[id] EXCEPT !.event = event, !.status = status]
<1>3. hooks' = [hooks EXCEPT ![id] = hook] /\ hook \in Hook
  BY <1>2 DEF Patch, Hook
<1> HIDE DEF hook
<1>4. /\ DOMAIN hooks' = DOMAIN hooks
      /\ \A i \in DOMAIN hooks : hooks'[i] \in Hook
  BY <1>2, <1>3 DEF RepositoryTypes
<1>5. nextId' = nextId /\ logs' = logs /\ answers' = answers /\ boots' = boots /\ jobs' = jobs
  BY DEF Patch
<1>6. RepositoryTypes'
  BY <1>4, <1>5 DEF RepositoryTypes
<1>7. Logging'
  BY <1>4, <1>5 DEF Logging, LogOf
<1>9. Snapshot'
  BY <1>1, SnapshotStays DEF Patch
<1> QED BY <1>1, <1>6, <1>7, <1>9

LEMMA DeleteKeeps ==
  ASSUME IndInv, NEW id \in 1..MaxHooks, Delete(id)
  PROVE  IndInv'
<1> USE DEF IndInv
<1>1. DeliveryTypes' /\ Deliveries'
  BY DeliveriesStay DEF Delete, past
<1>2. /\ DOMAIN hooks' = DOMAIN hooks \ {id} /\ DOMAIN logs' = DOMAIN logs \ {id}
      /\ DOMAIN answers' = DOMAIN answers \ {id}
      /\ \A i \in DOMAIN hooks \ {id} : hooks'[i] = hooks[i]
      /\ \A i \in DOMAIN logs \ {id} : logs'[i] = logs[i]
      /\ \A i \in DOMAIN answers \ {id} : answers'[i] = answers[i]
  BY DEF Delete, Without
<1>3. nextId' = nextId /\ boots' = boots /\ jobs' = jobs
  BY DEF Delete
<1>4. RepositoryTypes'
  BY <1>2, <1>3 DEF RepositoryTypes
<1>5. \A i \in DOMAIN hooks \ {id} : LogOf(i)' = LogOf(i)
  BY <1>2 DEF LogOf
<1>6. Logging'
  BY <1>2, <1>3, <1>5 DEF Logging
<1>9. Snapshot'
  BY <1>1, SnapshotStays DEF Delete
<1> QED BY <1>1, <1>4, <1>6, <1>9

LEMMA DeliverKeeps ==
  ASSUME IndInv, NEW hook \in Int, NEW url \in Urls, Deliver(hook, url), hook < nextId
  PROVE  IndInv'
<1> USE DEF IndInv
<1> DEFINE job == [hook |-> hook, url |-> url, attempts |-> 0, status |-> "queued"]
           n == Len(jobs)
<1>0. MaxAttempts \in Nat \ {0} /\ MaxJobs \in Nat
  BY WebhooksAssumption
<1>1. job \in Job
  BY <1>0 DEF Job
<1>2. /\ jobs \in Seq(Job) /\ sent \in Seq(Nat) /\ n \in Nat /\ Len(sent) = n /\ n < MaxJobs
      /\ jobs' = Append(jobs, job) /\ sent' = Append(sent, 0)
  BY DEF DeliveryTypes, Deliver
<1> HIDE DEF job
<1>3. /\ jobs' \in Seq(Job) /\ Len(jobs') = n + 1 /\ DOMAIN jobs' = 1..(n + 1)
      /\ DOMAIN jobs = 1..n
      /\ \A j \in 1..n : jobs'[j] = jobs[j] /\ sent'[j] = sent[j]
      /\ jobs'[n + 1] = job /\ sent'[n + 1] = 0
      /\ sent' \in Seq(Nat) /\ Len(sent') = n + 1
  BY <1>1, <1>2
<1> HIDE DEF n
<1>4. /\ nextId' = nextId /\ boots' = boots /\ logs' = logs /\ answers' = answers
      /\ hooks' = hooks /\ exchanges' = exchanges /\ rolledBack' = rolledBack
      /\ UNCHANGED <<file, past>>
  BY DEF Deliver, registry, past
<1>5. exchanges \subseteq [job : 1..n, nr : 1..MaxAttempts]
  BY DEF DeliveryTypes, n
<1>6. boots \in Nat
  BY WebhooksAssumption DEF RepositoryTypes
<1>7. DeliveryTypes'
  <2>1. exchanges \subseteq [job : 1..(n + 1), nr : 1..MaxAttempts]
    BY <1>2, <1>5
  <2> QED BY <1>0, <1>2, <1>3, <1>4, <2>1 DEF DeliveryTypes
<1>8. Deliveries'
  <2>0. \A j : Repeats(j)' = Repeats(j)
    BY <1>4 DEF Repeats
  <2>00. ASSUME NEW j PROVE Repeats(j) \in Nat
    <3>1. MaxAttempts * boots \in Nat
      BY <1>0, <1>6
    <3> QED BY <1>6, <3>1 DEF Repeats
  <2>1. ASSUME NEW j \in 1..n PROVE WithinBudget(j)' /\ OnTheWire(j)'
    <3>1. WithinBudget(j) /\ OnTheWire(j) /\ jobs'[j] = jobs[j] /\ sent'[j] = sent[j]
      BY <1>3 DEF Deliveries
    <3> QED BY <2>0, <3>1, <1>4 DEF WithinBudget, OnTheWire
  <2>2. ASSUME NEW j, j = n + 1 PROVE WithinBudget(j)' /\ OnTheWire(j)'
    <3>1. jobs'[j].attempts = 0 /\ jobs'[j].status = "queued" /\ sent'[j] = 0
      BY <1>3, <2>2 DEF job
    <3>2. WithinBudget(j)'
      BY <2>0, <2>00, <3>1, <1>0 DEF WithinBudget
    <3>3. \A x \in exchanges : x.job # j
      BY <1>2, <1>5, <2>2
    <3> QED BY <3>1, <3>2, <3>3, <1>4 DEF OnTheWire
  <2>3. DOMAIN jobs' = 1..n \cup {n + 1}
    BY <1>2, <1>3
  <2> QED BY <2>1, <2>2, <2>3 DEF Deliveries
<1>9. RepositoryTypes'
  BY <1>4 DEF RepositoryTypes
<1>10. Logging'
  <2>1. boots = 0 => \A j \in DOMAIN jobs' : jobs'[j].hook < nextId
    <3>1. jobs'[n + 1].hook = hook
      BY <1>3 DEF job
    <3>2. boots = 0 => \A j \in 1..n : jobs[j].hook < nextId
      BY <1>3 DEF Logging
    <3>3. \A j \in DOMAIN jobs' : j \in 1..n \/ j = n + 1
      BY <1>2, <1>3
    <3> QED BY <1>3, <3>1, <3>2, <3>3
  <2> QED BY <1>4, <2>1 DEF Logging, LogOf
<1>11. Snapshot'
  <2>1. Len(jobs') \in {Len(jobs), Len(jobs) + 1}
    BY <1>3 DEF n
  <2> QED BY <1>4, <1>7, <2>1, SnapshotStays
<1> QED BY <1>7, <1>8, <1>9, <1>10, <1>11

LEMMA CancelKeeps ==
  ASSUME IndInv, NEW j, Cancel(j)
  PROVE  IndInv'
<1> USE DEF IndInv
<1>1. j \in DOMAIN jobs /\ jobs[j].status # "running" /\ jobs[j].attempts \in 0..MaxAttempts
  BY JobFacts DEF Cancel
<1>2. jobs' = Becomes(j, jobs[j].attempts, "cancelled")
  <2>1. jobs[j] \in Job /\ jobs \in Seq(Job)
    BY <1>1, JobFacts DEF DeliveryTypes
  <2> QED BY <1>1, <2>1 DEF Cancel, Becomes, Job
<1>3. UNCHANGED <<registry, logs, exchanges, file, boots, answers, sent, past>>
  BY DEF Cancel
<1>4. boots \in Nat
  BY WebhooksAssumption DEF RepositoryTypes
<1>5. \A x \in exchanges : x.job = j => x.nr <= jobs[j].attempts
  BY <1>1 DEF Deliveries, OnTheWire
<1>6. /\ DeliveryTypes' /\ Deliveries'
      /\ DOMAIN jobs' = DOMAIN jobs
      /\ \A i \in DOMAIN jobs : jobs'[i].hook = jobs[i].hook
  BY <1>1, <1>2, <1>3, <1>4, <1>5, SettlingKeepsDeliveries DEF Ended, past
<1>7. RepositoryTypes' /\ Logging'
  BY <1>3, <1>6, RepositoryStays
<1>8. Snapshot'
  BY <1>3, <1>6, SettledSnapshot
<1> QED BY <1>6, <1>7, <1>8

(* What the queue makes of a failed attempt of a running delivery. *)
LEMMA FailureFacts ==
  ASSUME DeliveryTypes, Deliveries, boots \in Nat,
         NEW j \in DOMAIN jobs, jobs[j].status = "running"
  PROVE  \E s \in {"queued", "failed"} :
           /\ jobs[j].attempts + 1 \in 0..MaxAttempts
           /\ FailedAttempt(j) = Becomes(j, jobs[j].attempts + 1, s)
           /\ s = "queued" => /\ jobs[j].attempts + 1 < MaxAttempts
                              /\ sent[j] <= jobs[j].attempts + 1 + Repeats(j)
           /\ \A x \in exchanges : x.job = j => x.nr <= jobs[j].attempts + 1
<1> DEFINE s == IF jobs[j].attempts + 1 < MaxAttempts THEN "queued" ELSE "failed"
<1>1. jobs[j] \in Job /\ jobs \in Seq(Job) /\ jobs[j].attempts \in 0..MaxAttempts
  BY JobFacts DEF DeliveryTypes
<1>2. MaxAttempts \in Nat
  BY WebhooksAssumption
<1>3. WithinBudget(j) /\ OnTheWire(j)
  BY DEF Deliveries
<1>0. boots \in Nat /\ MaxAttempts * boots \in Nat /\ Repeats(j) \in Nat
  <2>1. MaxAttempts * boots \in Nat
    BY <1>2
  <2> QED BY <2>1 DEF Repeats
<1>4. /\ jobs[j].attempts + 1 \in 0..MaxAttempts
      /\ sent[j] <= jobs[j].attempts + 1 + Repeats(j)
  BY <1>0, <1>1, <1>2, <1>3 DEF WithinBudget
<1>5. \A x \in exchanges : x.job = j => x.nr <= jobs[j].attempts + 1
  <2> SUFFICES ASSUME NEW x \in exchanges, x.job = j PROVE x.nr <= jobs[j].attempts + 1
    OBVIOUS
  <2>1. x.nr \in Nat
    BY DEF DeliveryTypes
  <2> QED BY <1>1, <1>3, <2>1 DEF OnTheWire
<1>6. FailedAttempt(j) = Becomes(j, jobs[j].attempts + 1, s)
  BY <1>1 DEF FailedAttempt, Becomes, Job
<1>7. s \in {"queued", "failed"} /\ (s = "queued" => jobs[j].attempts + 1 < MaxAttempts)
  OBVIOUS
<1> HIDE DEF s
<1> QED BY <1>4, <1>5, <1>6, <1>7

LEMMA TimeoutKeeps ==
  ASSUME IndInv, NEW j, Timeout(j)
  PROVE  IndInv'
<1> USE DEF IndInv
<1>1. j \in DOMAIN jobs /\ jobs[j].status = "running" /\ jobs' = FailedAttempt(j)
  BY DEF Timeout
<1>2. UNCHANGED <<registry, logs, exchanges, file, boots, answers, sent, past>>
  BY DEF Timeout
<1>3. boots \in Nat
  BY WebhooksAssumption DEF RepositoryTypes
<1>4. PICK s \in {"queued", "failed"} :
           /\ jobs[j].attempts + 1 \in 0..MaxAttempts
           /\ FailedAttempt(j) = Becomes(j, jobs[j].attempts + 1, s)
           /\ s = "queued" => /\ jobs[j].attempts + 1 < MaxAttempts
                              /\ sent[j] <= jobs[j].attempts + 1 + Repeats(j)
           /\ \A x \in exchanges : x.job = j => x.nr <= jobs[j].attempts + 1
  BY <1>1, <1>3, FailureFacts
<1>5. PICK a \in 0..MaxAttempts : a = jobs[j].attempts + 1
  BY <1>4
<1>6. s \in {"queued"} \cup Ended
  BY DEF Ended
<1>7. /\ DeliveryTypes' /\ Deliveries'
      /\ DOMAIN jobs' = DOMAIN jobs
      /\ \A i \in DOMAIN jobs : jobs'[i].hook = jobs[i].hook
  BY <1>1, <1>2, <1>3, <1>4, <1>5, <1>6, SettlingKeepsDeliveries DEF past
<1>8. RepositoryTypes' /\ Logging'
  BY <1>2, <1>7, RepositoryStays
<1>9. Snapshot'
  BY <1>2, <1>7, SettledSnapshot
<1> QED BY <1>7, <1>8, <1>9

(* An exchange ends: the delivery that waits for it moves on, and one that  *)
(* does not wait for it stays as it is.                                    *)
LEMMA EndingKeepsDeliveries ==
  ASSUME IndInv, NEW x \in exchanges, exchanges' = exchanges \ {x}, sent' = sent, boots' = boots,
         rolledBack' = rolledBack,
         \/ jobs' = jobs /\ ~ Awaited(x)
         \/ jobs' = FailedAttempt(x.job) /\ Awaited(x)
         \/ jobs' = [jobs EXCEPT ![x.job].status = "completed"] /\ Awaited(x)
  PROVE  /\ DeliveryTypes' /\ Deliveries'
         /\ DOMAIN jobs' = DOMAIN jobs
         /\ \A i \in DOMAIN jobs : jobs'[i].hook = jobs[i].hook
<1> USE DEF IndInv
<1> DEFINE j == x.job
<1>1. /\ DOMAIN jobs = 1..Len(jobs) /\ j \in DOMAIN jobs /\ x.nr \in 1..MaxAttempts
      /\ x = Exchange(j, x.nr) /\ MaxAttempts \in Nat
  BY JobFacts, WebhooksAssumption DEF DeliveryTypes, Exchange
<1>2. boots \in Nat
  BY WebhooksAssumption DEF RepositoryTypes
<1>3. \A y \in exchanges \ exchanges' : y.job = j
  OBVIOUS
<1>4. jobs[j] \in Job /\ jobs \in Seq(Job) /\ jobs[j].attempts \in 0..MaxAttempts
  BY <1>1, JobFacts DEF DeliveryTypes
<1>5. CASE jobs' = jobs /\ ~ Awaited(x)
  <2>1. DeliveryTypes'
    BY <1>5 DEF DeliveryTypes
  <2>2. ASSUME NEW i \in DOMAIN jobs PROVE WithinBudget(i)' /\ OnTheWire(i)'
    <3>1. WithinBudget(i) /\ OnTheWire(i)
      BY DEF Deliveries
    <3>2. jobs[i].status = "running" => Exchange(i, jobs[i].attempts + 1) # x
      BY <1>5 DEF Awaited, Exchange
    <3> HIDE DEF j
    <3>3. OnTheWire(i)'
      BY <1>5, <3>1, <3>2 DEF OnTheWire
    <3>4. Repeats(i)' = Repeats(i)
      BY DEF Repeats
    <3> QED BY <1>5, <3>1, <3>3, <3>4 DEF WithinBudget
  <2> QED BY <1>5, <2>1, <2>2 DEF Deliveries
<1>6. CASE jobs' = FailedAttempt(x.job) /\ Awaited(x)
  <2>1. jobs[j].status = "running"
    BY <1>6 DEF Awaited
  <2> HIDE DEF j
  <2>2. PICK s \in {"queued", "failed"} :
           /\ jobs[j].attempts + 1 \in 0..MaxAttempts
           /\ FailedAttempt(j) = Becomes(j, jobs[j].attempts + 1, s)
           /\ s = "queued" => /\ jobs[j].attempts + 1 < MaxAttempts
                              /\ sent[j] <= jobs[j].attempts + 1 + Repeats(j)
           /\ \A y \in exchanges : y.job = j => y.nr <= jobs[j].attempts + 1
    BY <1>1, <1>2, <2>1, FailureFacts
  <2>3. PICK a \in 0..MaxAttempts : a = jobs[j].attempts + 1
    BY <2>2
  <2>4. s \in {"queued"} \cup Ended
    BY DEF Ended
  <2>5. jobs' = Becomes(j, a, s)
    BY <1>6, <2>2, <2>3 DEF j
  <2> QED BY <1>1, <1>2, <1>3, <2>2, <2>3, <2>4, <2>5, SettlingKeepsDeliveries
<1>7. CASE jobs' = [jobs EXCEPT ![x.job].status = "completed"] /\ Awaited(x)
  <2>1. jobs[j].status = "running" /\ x.nr = jobs[j].attempts + 1
    BY <1>7 DEF Awaited
  <2>2. jobs' = Becomes(j, jobs[j].attempts, "completed")
    BY <1>1, <1>4, <1>7 DEF Becomes, Job
  <2>3. ASSUME NEW y \in exchanges', y.job = j PROVE y.nr <= jobs[j].attempts
    <3>1. y \in exchanges /\ y # x /\ y = Exchange(j, y.nr)
      BY <2>3 DEF DeliveryTypes, Exchange
    <3>2. y.nr # x.nr
      BY <1>1, <3>1
    <3> HIDE DEF j
    <3> QED BY <1>1, <2>1, <2>3, <3>1, <3>2 DEF Deliveries, OnTheWire
  <2>4. PICK a \in 0..MaxAttempts : a = jobs[j].attempts
    BY <1>4
  <2> HIDE DEF j
  <2> QED BY <1>1, <1>2, <1>3, <2>2, <2>3, <2>4, SettlingKeepsDeliveries DEF Ended
<1> QED BY <1>5, <1>6, <1>7

LEMMA NoAnswerKeeps ==
  ASSUME IndInv, NEW x, NoAnswer(x)
  PROVE  IndInv'
<1>1. /\ x \in exchanges /\ exchanges' = exchanges \ {x} /\ sent' = sent /\ boots' = boots
      /\ rolledBack' = rolledBack /\ UNCHANGED <<file, past>>
  BY DEF NoAnswer, past
<1>2. \/ jobs' = jobs /\ ~ Awaited(x)
      \/ jobs' = FailedAttempt(x.job) /\ Awaited(x)
  BY DEF NoAnswer
<1>3. /\ DeliveryTypes' /\ Deliveries'
      /\ DOMAIN jobs' = DOMAIN jobs
      /\ \A i \in DOMAIN jobs : jobs'[i].hook = jobs[i].hook
  BY <1>1, <1>2, EndingKeepsDeliveries
<1>4. UNCHANGED <<registry, logs, boots, answers>>
  BY DEF NoAnswer
<1>5. RepositoryTypes' /\ Logging'
  BY <1>3, <1>4, RepositoryStays DEF IndInv
<1>6. Snapshot'
  BY <1>1, <1>3, SettledSnapshot DEF IndInv
<1> QED BY <1>3, <1>5, <1>6 DEF IndInv

LEMMA AnswerKeeps ==
  ASSUME IndInv, NEW x, NEW ok \in BOOLEAN, Answer(x, ok)
  PROVE  IndInv'
<1> DEFINE id == jobs[x.job].hook
           entry == [url |-> jobs[x.job].url, ok |-> ok]
<1>1. /\ x \in exchanges /\ exchanges' = exchanges \ {x} /\ sent' = sent /\ boots' = boots
      /\ hooks' = hooks /\ nextId' = nextId
      /\ rolledBack' = rolledBack /\ UNCHANGED <<file, past>>
  BY DEF Answer, registry, past
<1>2. \/ jobs' = jobs /\ ~ Awaited(x)
      \/ jobs' = FailedAttempt(x.job) /\ Awaited(x)
      \/ jobs' = [jobs EXCEPT ![x.job].status = "completed"] /\ Awaited(x)
  BY DEF Answer
<1>3. /\ DeliveryTypes' /\ Deliveries'
      /\ DOMAIN jobs' = DOMAIN jobs
      /\ \A i \in DOMAIN jobs : jobs'[i].hook = jobs[i].hook
  BY <1>1, <1>2, EndingKeepsDeliveries
<1>4. x.job \in DOMAIN jobs /\ entry \in Entry /\ id \in Int
  <2>1. x.job \in DOMAIN jobs
    BY <1>1, JobFacts DEF IndInv, DeliveryTypes
  <2> QED BY <2>1, JobFacts DEF IndInv, Entry
<1>5. /\ logs' = With(logs, id, Logged(LogOf(id), entry))
      /\ answers' = IF id \in DOMAIN answers
                    THEN [answers EXCEPT ![id] = Append(@, entry)] ELSE answers
  BY DEF Answer
<1>6. boots = 0 => id < nextId
  BY <1>4 DEF IndInv, Logging
<1> HIDE DEF id, entry
<1> DEFINE log == LogOf(id)
           new == Logged(log, entry)
<1>7. log \in Seq(Entry) /\ Len(log) <= MaxLogs
  <2>1. << >> \in Seq(Entry) /\ Len(<< >>) = 0 /\ MaxLogs \in Nat
    BY WebhooksAssumption
  <2> QED BY <2>1 DEF IndInv, RepositoryTypes, LogOf
<1> HIDE DEF log
<1>8. /\ new \in Seq(Entry) /\ Len(new) \in 1..MaxLogs
      /\ \A all \in Seq(Entry) : LatestWindow(log, all) =>
           LatestWindow(new, Append(all, entry))
  BY <1>4, <1>7, LoggedFacts
<1>9. /\ DOMAIN logs' = DOMAIN logs \cup {id} /\ logs'[id] = new
      /\ \A i \in DOMAIN logs : i # id => logs'[i] = logs[i]
  BY <1>5 DEF With, log
<1> HIDE DEF new
<1>10. RepositoryTypes'
  BY <1>1, <1>8, <1>9 DEF IndInv, RepositoryTypes
<1>11. Logging'
  <2>1. /\ DOMAIN answers' = DOMAIN answers
        /\ \A i \in DOMAIN answers :
             answers'[i] = IF i = id THEN Append(answers[i], entry) ELSE answers[i]
    BY <1>5
  <2>2. ASSUME NEW i \in DOMAIN answers
        PROVE  answers[i] \in Seq(Entry) /\ Append(answers[i], entry) \in Seq(Entry)
    BY <1>4 DEF IndInv, Logging
  <2>3. ASSUME NEW i \in DOMAIN hooks, boots = 0
        PROVE  LatestWindow(LogOf(i)', answers'[i])
    <3>1. LatestWindow(LogOf(i), answers[i]) /\ i \in DOMAIN answers
      BY <2>3 DEF IndInv, Logging
    <3>2. CASE i = id
      <4>1. LogOf(i)' = new /\ LogOf(i) = log
        BY <1>9, <3>2 DEF LogOf, log
      <4> QED BY <1>8, <2>1, <2>2, <3>1, <3>2, <4>1
    <3>3. CASE i # id
      <4>1. LogOf(i)' = LogOf(i)
        BY <1>9, <3>3 DEF LogOf
      <4> QED BY <2>1, <3>1, <3>3, <4>1
    <3> QED BY <3>2, <3>3
  <2>4. boots = 0 => \A j \in DOMAIN jobs' : jobs'[j].hook < nextId
    BY <1>3 DEF IndInv, Logging
  <2>5. boots = 0 => \A i \in DOMAIN logs' : i \in Int /\ i < nextId
    BY <1>4, <1>6, <1>9 DEF IndInv, Logging
  <2>6. DOMAIN answers = DOMAIN hooks
    BY DEF IndInv, Logging
  <2> QED BY <1>1, <2>1, <2>2, <2>3, <2>4, <2>5, <2>6 DEF Logging
<1>12. Snapshot'
  BY <1>1, <1>3, SettledSnapshot DEF IndInv
<1> QED BY <1>3, <1>10, <1>11, <1>12 DEF IndInv

LEMMA AttemptKeeps ==
  ASSUME IndInv, NEW j, Attempt(j)
  PROVE  IndInv'
<1> USE DEF IndInv
<1>1. j \in DOMAIN jobs /\ jobs[j].status = "queued"
  BY DEF Attempt
<1>2. UNCHANGED <<registry, logs, file, boots, answers, past>> /\ rolledBack' = rolledBack
  BY DEF Attempt, past
<1>3. boots \in Nat /\ MaxAttempts \in Nat
  BY WebhooksAssumption DEF RepositoryTypes
<1>33. (\A i : Repeats(i)' = Repeats(i)) /\ Repeats(j) \in Nat
  <2>1. MaxAttempts * boots \in Nat
    BY <1>3
  <2> QED BY <1>2, <1>3, <2>1 DEF Repeats
<1>4. /\ jobs[j] \in Job /\ jobs \in Seq(Job) /\ jobs[j].attempts \in 0..MaxAttempts
      /\ DOMAIN jobs = 1..Len(jobs) /\ sent[j] \in Nat
      /\ sent \in Seq(Nat) /\ DOMAIN sent = DOMAIN jobs /\ Len(sent) = Len(jobs)
  BY <1>1, JobFacts DEF DeliveryTypes
<1>5. PICK a \in 0..MaxAttempts : a = jobs[j].attempts
  BY <1>4
<1>6. /\ a < MaxAttempts /\ sent[j] <= a + Repeats(j)
      /\ \A x \in exchanges : x.job = j => x.nr <= a
  BY <1>1, <1>5 DEF Deliveries, WithinBudget, OnTheWire
<1>7. CASE Paused(jobs[j].hook)
  <2>1. jobs' = Becomes(j, a, "completed") /\ exchanges' = exchanges /\ sent' = sent
    BY <1>1, <1>4, <1>5, <1>7 DEF Attempt, Becomes, Job
  <2>2. /\ DeliveryTypes' /\ Deliveries'
        /\ DOMAIN jobs' = DOMAIN jobs
        /\ \A i \in DOMAIN jobs : jobs'[i].hook = jobs[i].hook
    BY <1>1, <1>2, <1>3, <1>6, <2>1, SettlingKeepsDeliveries DEF Ended
  <2>3. RepositoryTypes' /\ Logging'
    BY <1>2, <2>2, RepositoryStays
  <2>4. Snapshot'
    BY <1>2, <2>2, SettledSnapshot
  <2> QED BY <2>2, <2>3, <2>4
<1>8. CASE ~ Paused(jobs[j].hook)
  <2>1. /\ jobs' = Becomes(j, a, "running")
        /\ exchanges' = exchanges \cup {Exchange(j, a + 1)}
        /\ sent' = [sent EXCEPT ![j] = @ + 1]
    BY <1>1, <1>4, <1>5, <1>8 DEF Attempt, Becomes, Job, Exchange
  <2>2. /\ jobs' \in Seq(Job) /\ Len(jobs') = Len(jobs) /\ DOMAIN jobs' = DOMAIN jobs
        /\ \A i \in DOMAIN jobs :
             jobs'[i].hook = jobs[i].hook /\ (i # j => jobs'[i] = jobs[i])
        /\ jobs'[j].attempts = a /\ jobs'[j].status = "running"
    BY <1>1, <2>1, BecomesFacts
  <2>3. /\ sent' \in Seq(Nat) /\ Len(sent') = Len(sent)
        /\ \A i \in DOMAIN jobs : sent'[i] = IF i = j THEN sent[i] + 1 ELSE sent[i]
    <3>1. sent[j] + 1 \in Nat
      BY <1>4
    <3> QED BY <1>1, <1>4, <2>1, <3>1, ExceptSeq
  <2>4. Exchange(j, a + 1) \in [job : 1..Len(jobs), nr : 1..MaxAttempts]
    BY <1>1, <1>3, <1>4, <1>6 DEF Exchange
  <2>5. DeliveryTypes'
    <3>1. exchanges' \subseteq [job : 1..Len(jobs), nr : 1..MaxAttempts]
      BY <2>1, <2>4 DEF DeliveryTypes
    <3> QED BY <2>2, <2>3, <3>1 DEF DeliveryTypes
  <2>6. ASSUME NEW i \in DOMAIN jobs, i # j PROVE WithinBudget(i)' /\ OnTheWire(i)'
    <3>1. /\ jobs'[i] = jobs[i] /\ sent'[i] = sent[i] /\ boots' = boots
          /\ WithinBudget(i) /\ OnTheWire(i)
      BY <1>2, <2>2, <2>3, <2>6 DEF Deliveries
    <3>2. \A x \in exchanges' : x.job = i => x \in exchanges
      BY <2>1, <2>6 DEF Exchange
    <3> QED BY <1>33, <2>1, <3>1, <3>2 DEF WithinBudget, OnTheWire
  <2>7. WithinBudget(j)'
    <3>1. sent'[j] = sent[j] + 1 /\ boots' = boots
      BY <1>1, <1>2, <2>3
    <3> QED BY <1>3, <1>33, <1>4, <1>6, <2>2, <3>1 DEF WithinBudget
  <2>8. OnTheWire(j)'
    <3>1. \A x \in exchanges' : x \in exchanges \/ x.nr = a + 1
      BY <2>1 DEF Exchange
    <3> QED BY <1>6, <2>1, <2>2, <3>1 DEF OnTheWire
  <2>9. Deliveries'
    BY <2>2, <2>6, <2>7, <2>8 DEF Deliveries
  <2>10. RepositoryTypes' /\ Logging'
    BY <1>2, <2>2, RepositoryStays
  <2>11. Snapshot'
    BY <1>2, <2>2, <2>5, SnapshotStays
  <2> QED BY <2>5, <2>9, <2>10, <2>11
<1> QED BY <1>7, <1>8

(* A write takes the deliveries as they are. *)
LEMMA SaveKeeps ==
  ASSUME IndInv, Save
  PROVE  IndInv'
<1>1. /\ file' = jobs /\ UNCHANGED <<registry, logs, boots, answers>>
      /\ UNCHANGED <<jobs, exchanges, boots, sent, rolledBack>> /\ older' = older
  BY DEF Save, past
<1>2. DeliveryTypes' /\ Deliveries'
  BY <1>1, DeliveriesStay DEF IndInv
<1>3. RepositoryTypes' /\ Logging'
  BY <1>1, RepositoryStays DEF IndInv
<1>4. Snapshot'
  <2>1. jobs \in Seq(Job) /\ Len(jobs) <= Len(jobs)
    BY JobFacts DEF IndInv, DeliveryTypes
  <2>2. \A j \in DOMAIN jobs :
          jobs[j].status \in {"queued", "running"} => jobs[j].attempts < MaxAttempts
    BY DEF IndInv, Deliveries, WithinBudget
  <2> QED BY <1>1, <2>1, <2>2 DEF IndInv, Snapshot
<1> QED BY <1>2, <1>3, <1>4 DEF IndInv

(* A delivery that comes back as it was has the attempt uncounted that was  *)
(* cut off; for one that comes back in an earlier state, the account        *)
(* allows all its attempts once more.  The exchanges are gone.              *)
LEMMA RestartKeeps ==
  ASSUME IndInv, Restart
  PROVE  IndInv'
<1> USE DEF IndInv
<1>1. /\ boots \in Nat /\ boots < MaxBoots /\ boots' = boots + 1 /\ MaxBoots \in Nat
      /\ nextId' = 1 /\ exchanges' = {} /\ sent' = sent /\ file' = file /\ older' = Len(jobs)
      /\ DOMAIN hooks' = {} /\ DOMAIN logs' = {} /\ DOMAIN answers' = {}
  BY WebhooksAssumption DEF Restart, RepositoryTypes
<1>2. DOMAIN jobs = 1..Len(jobs) /\ Len(jobs) \in Nat /\ DOMAIN file = 1..Len(file)
  BY JobFacts DEF Snapshot
<1>3. /\ jobs' = [j \in 1..Len(jobs) |-> Recovered(j)]
      /\ rolledBack' = rolledBack
           \cup {j \in 1..Len(jobs) : j \notin DOMAIN file \/ file[j] # jobs[j]}
  BY <1>2 DEF Restart
<1>4. ASSUME NEW j \in 1..Len(jobs)
      PROVE  jobs'[j] \in Job /\ WithinBudget(j)' /\ OnTheWire(j)'
  <2>1. /\ jobs[j] \in Job /\ jobs[j].attempts \in 0..MaxAttempts /\ sent[j] \in Nat
        /\ jobs[j].status \in {"queued", "running", "gone"} \cup Ended
        /\ WithinBudget(j) /\ OnTheWire(j)
    BY <1>2, JobFacts DEF Deliveries
  <2>2. MaxAttempts \in Nat \ {0} /\ MaxAttempts * boots \in Nat
    BY <1>1, WebhooksAssumption
  <2>3. /\ jobs'[j] \in Job /\ jobs'[j].attempts \in 0..MaxAttempts
        /\ jobs'[j].status # "running"
        /\ jobs'[j].status = "queued" => jobs'[j].attempts < MaxAttempts
    <3>1. CASE j \notin DOMAIN file
      BY <1>3, <2>1, <3>1 DEF Recovered, Job
    <3>2. CASE j \in DOMAIN file
      <4>1. /\ file[j] \in Job
            /\ file[j].status \in {"queued", "running"} => file[j].attempts < MaxAttempts
        BY <1>2, <3>2 DEF Snapshot
      <4>2. jobs'[j] = IF file[j].status = "running" THEN [file[j] EXCEPT !.status = "queued"]
                       ELSE file[j]
        BY <1>3, <3>2 DEF Recovered
      <4> QED BY <4>1, <4>2 DEF Job
    <3> QED BY <3>1, <3>2
  <2>4. CASE j \in rolledBack'
    <3>1. Repeats(j)' = MaxAttempts * boots + MaxAttempts
      <4>1. MaxAttempts * (boots + 1) = MaxAttempts * boots + MaxAttempts
        BY <1>1, <2>2
      <4> QED BY <1>1, <2>4, <4>1 DEF Repeats
    <3>2. Repeats(j) \in Nat /\ Repeats(j) <= MaxAttempts * boots
      <4>1. boots <= MaxAttempts * boots
        BY <1>1, <2>2
      <4> QED BY <1>1, <2>2, <4>1 DEF Repeats
    <3>3. sent'[j] <= Repeats(j)'
      BY <1>1, <2>1, <2>2, <3>1, <3>2 DEF WithinBudget
    <3>4. Repeats(j)' \in Nat /\ sent'[j] \in Nat
      BY <1>1, <2>1, <2>2, <3>1
    <3>5. WithinBudget(j)'
      BY <2>2, <2>3, <3>3, <3>4 DEF WithinBudget
    <3> QED BY <1>1, <2>3, <3>5 DEF OnTheWire
  <2>5. CASE j \notin rolledBack'
    <3>1. j \notin rolledBack /\ j \in DOMAIN file /\ file[j] = jobs[j]
      BY <1>3, <2>5
    <3>2. jobs'[j] = IF jobs[j].status = "running" THEN [jobs[j] EXCEPT !.status = "queued"]
                     ELSE jobs[j]
      BY <1>3, <3>1 DEF Recovered
    <3>3. /\ jobs'[j].attempts = jobs[j].attempts
          /\ jobs'[j].status = "queued" => jobs[j].status \in {"queued", "running"}
      BY <2>1, <3>2 DEF Job
    <3>4. Repeats(j) = boots /\ Repeats(j)' = boots + 1
      BY <1>1, <2>5, <3>1 DEF Repeats
    <3>5. WithinBudget(j)'
      BY <1>1, <2>1, <2>2, <2>3, <3>3, <3>4 DEF WithinBudget
    <3> QED BY <1>1, <2>3, <3>5 DEF OnTheWire
  <2> QED BY <2>3, <2>4, <2>5
<1>5. jobs' \in Seq(Job) /\ Len(jobs') = Len(jobs) /\ DOMAIN jobs' = 1..Len(jobs)
  <2>1. jobs' \in [1..Len(jobs) -> Job]
    <3>1. jobs' = [j \in 1..Len(jobs) |-> jobs'[j]]
      BY <1>3
    <3> QED BY <1>4, <3>1
  <2> QED BY <1>2, <2>1
<1>6. DeliveryTypes'
  BY <1>1, <1>5 DEF DeliveryTypes
<1>7. Deliveries'
  BY <1>4, <1>5 DEF Deliveries
<1>8. RepositoryTypes' /\ Logging'
  <2>1. nextId' \in 1..(MaxHooks + 1)
    BY <1>1, WebhooksAssumption
  <2>2. boots' # 0 /\ boots' \in 0..MaxBoots
    BY <1>1
  <2> QED BY <1>1, <2>1, <2>2 DEF RepositoryTypes, Logging
<1>9. Snapshot'
  <2>1. /\ file' \in Seq(Job) /\ Len(file') <= Len(jobs')
        /\ \A j \in DOMAIN file' :
             file'[j].status \in {"queued", "running"} => file'[j].attempts < MaxAttempts
    BY <1>1, <1>5 DEF Snapshot
  <2>2. rolledBack' \subseteq 1..Len(jobs')
    <3>1. rolledBack \subseteq 1..Len(jobs)
      BY DEF Snapshot
    <3> QED BY <1>3, <1>5, <3>1
  <2>3. older' \in 0..Len(jobs')
    BY <1>1, <1>2, <1>5
  <2> QED BY <2>1, <2>2, <2>3 DEF Snapshot
<1> QED BY <1>6, <1>7, <1>8, <1>9

-----------------------------------------------------------------------------
(* The theorems *)

LEMMA InitialState == Init => IndInv
<1> SUFFICES ASSUME Init PROVE IndInv
  OBVIOUS
<1>1. RepositoryTypes
  BY WebhooksAssumption DEF Init, RepositoryTypes
<1>2. DeliveryTypes
  BY WebhooksAssumption DEF Init, DeliveryTypes
<1>3. Deliveries
  BY DEF Init, Deliveries
<1>4. Logging
  BY DEF Init, Logging
<1>5. Snapshot
  BY DEF Init, Snapshot
<1> QED BY <1>1, <1>2, <1>3, <1>4, <1>5 DEF IndInv

LEMMA AdHocIsNobodys ==
  ASSUME IndInv, NEW url \in Urls, DeliverAdHoc(url)
  PROVE  IndInv'
<1>1. PICK hook \in Int : hook = AdHoc(Len(jobs) + 1) /\ hook < nextId
  <2>1. Len(jobs) \in Nat /\ nextId \in Nat
    BY JobFacts, WebhooksAssumption DEF IndInv, RepositoryTypes
  <2> QED BY <2>1 DEF AdHoc
<1>2. Deliver(hook, url)
  BY <1>1 DEF DeliverAdHoc
<1> QED BY <1>1, <1>2, DeliverKeeps

LEMMA RegisteredIsKnown ==
  ASSUME IndInv, DeliverRegistered
  PROVE  IndInv'
<1>1. PICK id \in DOMAIN hooks, url \in Urls : Deliver(id, url)
  BY DEF DeliverRegistered
<1>2. id \in Int /\ id < nextId
  BY WebhooksAssumption DEF IndInv, RepositoryTypes
<1> QED BY <1>1, <1>2, DeliverKeeps

LEMMA StepKeeps == IndInv /\ [Next]_vars => IndInv'
<1> SUFFICES ASSUME IndInv, [Next]_vars PROVE IndInv'
  OBVIOUS
<1>1. CASE \E url \in Urls : DeliverAdHoc(url) \/ \E event \in Events : Register(url, event)
  BY <1>1, AdHocIsNobodys, RegisterKeeps
<1>2. CASE \E id \in 1..MaxHooks :
             Delete(id) \/ \E event \in Events, s \in {"active", "inactive"} : Patch(id, event, s)
  BY <1>2, DeleteKeeps, PatchKeeps
<1>3. CASE DeliverRegistered
  BY <1>3, RegisteredIsKnown
<1>4. CASE Save \/ Restart
  BY <1>4, SaveKeeps, RestartKeeps
<1>5. CASE \E j \in 1..MaxJobs : Cancel(j) \/ Attempt(j) \/ Timeout(j)
  BY <1>5, CancelKeeps, AttemptKeeps, TimeoutKeeps
<1>6. CASE \E j \in 1..MaxJobs : \E nr \in 1..MaxAttempts : Ends(j, nr)
  BY <1>6, AnswerKeeps, NoAnswerKeeps DEF Ends
<1>7. CASE UNCHANGED vars
  <2>1. DeliveryTypes' /\ Deliveries'
    BY <1>7, DeliveriesStay DEF IndInv, vars, past
  <2>2. RepositoryTypes' /\ Logging'
    BY <1>7, RepositoryStays DEF IndInv, vars
  <2>3. Snapshot'
    BY <1>7, <2>1, SnapshotStays DEF IndInv, vars
  <2> QED BY <2>1, <2>2, <2>3 DEF IndInv
<1> QED BY <1>1, <1>2, <1>3, <1>4, <1>5, <1>6, <1>7 DEF Next

(* The inductive invariant holds in every reachable state, through any      *)
(* number of restarts (services/webhook.js, jobs/webhookRetry.job.js).      *)
THEOREM DeliveriesStayInOrder == Spec => []IndInv
BY InitialState, StepKeeps, PTL DEF Spec

(* Every variable stays within the values the code can give it. *)
THEOREM TypesAreKept == Spec => []TypeOK
<1>1. IndInv => TypeOK
  <2> SUFFICES ASSUME IndInv PROVE TypeOK
    OBVIOUS
  <2>1. \A x \in exchanges : x.job \in DOMAIN jobs /\ x.nr \in 1..MaxAttempts
    BY JobFacts DEF IndInv, DeliveryTypes
  <2> QED BY <2>1, JobFacts DEF IndInv, RepositoryTypes, DeliveryTypes, Snapshot, TypeOK
<1> QED BY <1>1, DeliveriesStayInOrder, PTL

(* In each life of the process a receiver sees a delivery at most           *)
(* maxAttempts times, and a restart that finds it as it was adds one: an    *)
(* answer that comes after its attempt was given up buys no retry, and a    *)
(* lost write of the snapshot costs one ladder more (webhookRetry.job.js    *)
(* over the queue).                                                        *)
THEOREM AttemptsAreBounded == Spec => []ReceiversSeeBoundedAttempts
<1>1. IndInv => ReceiversSeeBoundedAttempts
  BY DEF IndInv, Deliveries, WithinBudget, ReceiversSeeBoundedAttempts
<1> QED BY <1>1, DeliveriesStayInOrder, PTL

(* The attempt that the queue waits for is on the wire, and all other       *)
(* exchanges of the delivery are of earlier attempts.                      *)
THEOREM AwaitedAttemptsAreSent == Spec => []AwaitedAttemptsAreOnTheWire
<1>1. IndInv => AwaitedAttemptsAreOnTheWire
  BY DEF IndInv, Deliveries, OnTheWire, AwaitedAttemptsAreOnTheWire
<1> QED BY <1>1, DeliveriesStayInOrder, PTL

(* The log of a webhook is the latest window of the answers that came in    *)
(* under its id, in the order they came (logDelivery()), as long as the     *)
(* ids belong to one process.                                              *)
THEOREM LogsKeepTheLatest == Spec => []LogsAreTheLatestAnswers
<1>1. IndInv => LogsAreTheLatestAnswers
  <2> SUFFICES ASSUME IndInv, boots = 0, NEW id \in DOMAIN hooks
               PROVE  LogOf(id) = SubSeq(answers[id],
                        IF Len(answers[id]) > MaxLogs THEN Len(answers[id]) - MaxLogs + 1 ELSE 1,
                        Len(answers[id]))
    BY DEF LogsAreTheLatestAnswers
  <2>1. answers[id] \in Seq(Entry) /\ LatestWindow(LogOf(id), answers[id])
    BY DEF IndInv, Logging
  <2>2. LogOf(id) \in Seq(Entry)
    BY DEF IndInv, RepositoryTypes, LogOf
  <2> QED BY <2>1, <2>2, WindowIsASubSeq
<1> QED BY <1>1, DeliveriesStayInOrder, PTL

(* Only Attempt sends a request, and it looks the webhook up first: a       *)
(* paused webhook gets none, whenever its deliveries were queued.          *)
THEOREM PausesHold == Spec => PausedHooksStayQuiet
<1> DEFINE Quiet ==
      \A id \in DOMAIN hooks \cap DOMAIN hooks' :
        hooks[id].status = "inactive" /\ hooks'[id].status = "inactive" =>
          \A x \in exchanges' \ exchanges : jobs[x.job].hook # id
<1>1. ASSUME NEW j, Attempt(j) PROVE Quiet
  <2> SUFFICES ASSUME NEW id \in DOMAIN hooks, hooks[id].status = "inactive",
                      NEW x \in exchanges' \ exchanges
               PROVE  jobs[x.job].hook # id
    OBVIOUS
  <2>1. ~ Paused(jobs[j].hook) /\ x.job = j
    BY <1>1 DEF Attempt
  <2> QED BY <2>1 DEF Paused
<1>2. Next => Quiet
  <2> SUFFICES ASSUME Next, ~ \E j : Attempt(j) PROVE exchanges' \subseteq exchanges
    BY <1>1
  <2> QED BY DEF Next, DeliverAdHoc, DeliverRegistered, Deliver, Register, Delete, Patch,
                 Save, Restart, Cancel, Timeout, Ends, Answer, NoAnswer
<1>3. UNCHANGED vars => Quiet
  BY DEF vars
<1>4. [Next]_vars => [Quiet]_vars
  BY <1>2, <1>3
<1> HIDE DEF Quiet
<1>5. Spec => [][Quiet]_vars
  BY <1>4, PTL DEF Spec
<1> QED BY <1>5 DEF Quiet, PausedHooksStayQuiet
=============================================================================
