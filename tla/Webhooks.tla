------------------------------ MODULE Webhooks ------------------------------
(***************************************************************************)
(* Webhooks: their registration (src/src/routes/admin/webhooks.js over      *)
(* repositories/WebhookRepository.js), deliveries as jobs of the queue      *)
(* (services/webhook.js) and the handler that sends them                    *)
(* (jobs/webhookRetry.job.js).                                             *)
(*                                                                         *)
(* The queue is taken by what JobQueue shows of it: an attempt of a queued  *)
(* job starts, succeeds, fails or runs out of time, and is retried up to    *)
(* maxAttempts.  An attempt whose time ran out is abandoned by the queue    *)
(* only: its HTTP exchange goes on beside the next attempt.  The            *)
(* repository is in memory and is empty after a restart; the jobs come      *)
(* back as the last snapshot has them that was written, which may be any    *)
(* earlier state of theirs, since writes are debounced and may fail.        *)
(***************************************************************************)
EXTENDS Integers, Sequences, SequencesExt

CONSTANTS
  Urls, Events,
  MaxAttempts,  \* maxAttempts of a delivery
  MaxLogs,      \* MAX_DELIVERY_LOGS_PER_WEBHOOK
  MaxHooks,     \* bound: webhooks registered in the life of a process
  MaxJobs,      \* bound: deliveries
  MaxBoots      \* bound: restarts

ASSUME WebhooksAssumption ==
  /\ MaxAttempts \in Nat \ {0} /\ MaxLogs \in Nat \ {0}
  /\ MaxHooks \in Nat /\ MaxJobs \in Nat /\ MaxBoots \in Nat

VARIABLES
  hooks,      \* the repository: id -> webhook
  nextId,     \* _nextId
  logs,       \* _deliveryLogs: id -> entries
  jobs,       \* the deliveries, in the order of deliver()
  exchanges,  \* requests sent and not answered, abandoned ones too
  file,       \* the snapshot of jobs that was written last
  boots,      \* restarts so far
  answers,    \* history: the entries of each id since it was given
  sent,       \* history: requests sent for each delivery
  rolledBack, \* history: deliveries that a restart took back to an earlier state
  older       \* history: how many deliveries earlier processes were asked for

registry == <<hooks, nextId>>
past == <<rolledBack, older>>
vars == <<registry, logs, jobs, exchanges, file, boots, answers, sent, past>>

Hook == [url : Urls, event : Events, status : {"active", "inactive"}]
Entry == [url : Urls, ok : BOOLEAN]
Ended == {"completed", "failed", "cancelled"}

(* A delivery without a registered webhook gets an id of its own, which no  *)
(* record has.                                                             *)
AdHoc(job) == -job

(* A delivery that the snapshot had not seen is gone after a restart. *)
Job == [hook : Int, url : Urls, attempts : 0..MaxAttempts,
        status : {"queued", "running", "gone"} \cup Ended]

Without(f, k) == [x \in DOMAIN f \ {k} |-> f[x]]
With(f, k, v) == [x \in DOMAIN f \cup {k} |-> IF x = k THEN v ELSE f[x]]

-----------------------------------------------------------------------------
(* Registration *)

(* findByUrl(): the first record with the url, in the order of the ids. *)
FirstOf(url, id) ==
  /\ id \in DOMAIN hooks /\ hooks[id].url = url
  /\ \A i \in DOMAIN hooks : hooks[i].url = url => id <= i

(* POST: 409 when that record has the event and is not inactive. *)
Register(url, event) ==
  /\ nextId <= MaxHooks
  /\ ~ \E id \in DOMAIN hooks :
         FirstOf(url, id) /\ hooks[id].event = event /\ hooks[id].status # "inactive"
  /\ hooks' = With(hooks, nextId, [url |-> url, event |-> event, status |-> "active"])
  /\ answers' = With(answers, nextId, << >>)
  /\ nextId' = nextId + 1
  /\ UNCHANGED <<logs, jobs, exchanges, file, boots, sent, past>>

(* PATCH: event and status; the url and the secret stay. *)
Patch(id, event, status) ==
  /\ id \in DOMAIN hooks
  /\ hooks' = [hooks EXCEPT ![id].event = event, ![id].status = status]
  /\ UNCHANGED <<nextId, logs, jobs, exchanges, file, boots, answers, sent, past>>

(* DELETE: the record and its log. *)
Delete(id) ==
  /\ id \in DOMAIN hooks
  /\ hooks' = Without(hooks, id) /\ logs' = Without(logs, id)
  /\ answers' = Without(answers, id)
  /\ UNCHANGED <<nextId, jobs, exchanges, file, boots, sent, past>>

-----------------------------------------------------------------------------
(* Deliveries *)

Deliver(hook, url) ==
  /\ Len(jobs) < MaxJobs
  /\ jobs' = Append(jobs, [hook |-> hook, url |-> url, attempts |-> 0, status |-> "queued"])
  /\ sent' = Append(sent, 0)
  /\ UNCHANGED <<registry, logs, exchanges, file, boots, answers, past>>

(* deliver() for a registered webhook, whatever its status and to any url,  *)
(* or to a url alone.                                                      *)
DeliverRegistered == \E id \in DOMAIN hooks, url \in Urls : Deliver(id, url)
DeliverAdHoc(url) == Deliver(AdHoc(Len(jobs) + 1), url)

Cancel(j) ==
  /\ j \in DOMAIN jobs /\ jobs[j].status \notin {"running", "gone"}
  /\ jobs' = [jobs EXCEPT ![j].status = "cancelled"]
  /\ UNCHANGED <<registry, logs, exchanges, file, boots, answers, sent, past>>

Paused(id) == id \in DOMAIN hooks /\ hooks[id].status = "inactive"

(* Mutant of Attempt: the pause is looked for when a delivery is new only. *)
AttemptRetriesPaused(j) ==
  /\ j \in DOMAIN jobs /\ jobs[j].status = "queued"
  /\ IF Paused(jobs[j].hook) /\ jobs[j].attempts = 0
     THEN jobs' = [jobs EXCEPT ![j].status = "completed"] /\ UNCHANGED <<exchanges, sent>>
     ELSE /\ jobs' = [jobs EXCEPT ![j].status = "running"]
          /\ exchanges' = exchanges \cup {[job |-> j, nr |-> jobs[j].attempts + 1]}
          /\ sent' = [sent EXCEPT ![j] = @ + 1]
  /\ UNCHANGED <<registry, logs, file, boots, answers, past>>

(* The queue starts the handler, which looks the webhook up and skips a     *)
(* paused one; for all others it sends the request.                        *)
Attempt(j) ==
  /\ j \in DOMAIN jobs /\ jobs[j].status = "queued"
  /\ IF Paused(jobs[j].hook)
     THEN jobs' = [jobs EXCEPT ![j].status = "completed"] /\ UNCHANGED <<exchanges, sent>>
     ELSE /\ jobs' = [jobs EXCEPT ![j].status = "running"]
          /\ exchanges' = exchanges \cup {[job |-> j, nr |-> jobs[j].attempts + 1]}
          /\ sent' = [sent EXCEPT ![j] = @ + 1]
  /\ UNCHANGED <<registry, logs, file, boots, answers, past>>

(* Mutant of Awaited: the answer of an abandoned attempt counts as well. *)
AwaitedByJob(x) == jobs[x.job].status \in {"queued", "running"}

(* The queue still waits for the attempt of exchange x. *)
Awaited(x) == jobs[x.job].status = "running" /\ x.nr = jobs[x.job].attempts + 1

(* Mutant of FailedAttempt: one retry too many. *)
FailedAttemptOffByOne(j) ==
  [jobs EXCEPT ![j].attempts = @ + 1,
               ![j].status = IF jobs[j].attempts < MaxAttempts THEN "queued" ELSE "failed"]

(* jobs after an attempt of j failed: back off, or give up. *)
FailedAttempt(j) ==
  [jobs EXCEPT ![j].attempts = @ + 1,
               ![j].status = IF jobs[j].attempts + 1 < MaxAttempts THEN "queued" ELSE "failed"]

(* Mutant of Logged: once full, the log keeps its oldest entries. *)
LoggedOldest(log, entry) == IF Len(log) = MaxLogs THEN log ELSE Append(log, entry)

(* logDelivery(): append, then drop the oldest entry over the cap. *)
Logged(log, entry) ==
  LET all == Append(log, entry)
  IN  IF Len(all) > MaxLogs THEN Tail(all) ELSE all

LogOf(id) == IF id \in DOMAIN logs THEN logs[id] ELSE << >>

(* The receiver answers: the answer is logged under the webhook's id; one   *)
(* that is not 2xx fails the attempt.                                      *)
Answer(x, ok) ==
  /\ x \in exchanges /\ exchanges' = exchanges \ {x}
  /\ LET id == jobs[x.job].hook
         entry == [url |-> jobs[x.job].url, ok |-> ok]
     IN  /\ logs' = With(logs, id, Logged(LogOf(id), entry))
         /\ answers' = IF id \in DOMAIN answers
                       THEN [answers EXCEPT ![id] = Append(@, entry)] ELSE answers
  /\ jobs' = IF ~ Awaited(x) THEN jobs
             ELSE IF ok THEN [jobs EXCEPT ![x.job].status = "completed"]
             ELSE FailedAttempt(x.job)
  /\ UNCHANGED <<registry, file, boots, sent, past>>

(* Mutant of NoAnswer: errors of the request are not listened to. *)
NoAnswerHangs(x) ==
  /\ x \in exchanges /\ exchanges' = exchanges \ {x}
  /\ UNCHANGED <<registry, logs, jobs, file, boots, answers, sent, past>>

(* A network error, a refused host, an answer that is too slow or too long. *)
NoAnswer(x) ==
  /\ x \in exchanges /\ exchanges' = exchanges \ {x}
  /\ jobs' = IF Awaited(x) THEN FailedAttempt(x.job) ELSE jobs
  /\ UNCHANGED <<registry, logs, file, boots, answers, sent, past>>

(* The queue's time budget runs out; the handler does not look at the signal. *)
Timeout(j) ==
  /\ j \in DOMAIN jobs /\ jobs[j].status = "running"
  /\ jobs' = FailedAttempt(j)
  /\ UNCHANGED <<registry, logs, exchanges, file, boots, answers, sent, past>>

(* The debounced write of the snapshot; when it failed, it did not happen.  *)
(* Bound: those after the last restart are left out, nothing reads them.   *)
Save ==
  /\ boots < MaxBoots /\ file' = jobs
  /\ UNCHANGED <<registry, logs, jobs, exchanges, boots, answers, sent, past>>

(* Mutant of Recovered: what ran is left as running, as nobody's attempt. *)
RecoveredRunning(j) ==
  IF j \in DOMAIN file THEN file[j] ELSE [jobs[j] EXCEPT !.status = "gone"]

(* Mutant of Recovered: an attempt that was cut off starts the ladder anew. *)
RecoveredAnew(j) ==
  IF j \notin DOMAIN file THEN [jobs[j] EXCEPT !.status = "gone"]
  ELSE IF file[j].status = "running"
       THEN [file[j] EXCEPT !.status = "queued", !.attempts = 0]
  ELSE file[j]

(* A delivery as the snapshot has it: what ran is queued again, and what    *)
(* came after the last write is gone.                                      *)
Recovered(j) ==
  IF j \notin DOMAIN file THEN [jobs[j] EXCEPT !.status = "gone"]
  ELSE IF file[j].status = "running" THEN [file[j] EXCEPT !.status = "queued"]
  ELSE file[j]

(* The process stops and starts again (before it stops in order, it saves); *)
(* when no snapshot has been written, every delivery is gone.              *)
Restart ==
  /\ boots < MaxBoots /\ boots' = boots + 1
  /\ hooks' = [i \in {} |-> i] /\ nextId' = 1 /\ logs' = [i \in {} |-> i]
  /\ exchanges' = {} /\ answers' = [i \in {} |-> i]
  /\ jobs' = [j \in DOMAIN jobs |-> Recovered(j)]
  /\ rolledBack' = rolledBack \cup {j \in DOMAIN jobs : j \notin DOMAIN file \/ file[j] # jobs[j]}
  /\ older' = Len(jobs)
  /\ UNCHANGED <<file, sent>>

-----------------------------------------------------------------------------
Init ==
  /\ hooks = [i \in {} |-> i] /\ nextId = 1 /\ logs = [i \in {} |-> i]
  /\ jobs = << >> /\ exchanges = {} /\ file = << >> /\ boots = 0
  /\ answers = [i \in {} |-> i] /\ sent = << >>
  /\ rolledBack = {} /\ older = 0

Exchange(j, nr) == [job |-> j, nr |-> nr]
Ends(j, nr) == NoAnswer(Exchange(j, nr)) \/ \E ok \in BOOLEAN : Answer(Exchange(j, nr), ok)

Next ==
  \/ \E url \in Urls : DeliverAdHoc(url) \/ \E event \in Events : Register(url, event)
  \/ \E id \in 1..MaxHooks :
       Delete(id) \/ \E event \in Events, s \in {"active", "inactive"} : Patch(id, event, s)
  \/ DeliverRegistered \/ Save \/ Restart
  \/ \E j \in 1..MaxJobs : Cancel(j) \/ Attempt(j) \/ Timeout(j)
                           \/ \E nr \in 1..MaxAttempts : Ends(j, nr)

Spec == Init /\ [][Next]_vars

(* The queue starts what waits (JobQueue: NoIdleSlot, EveryJobEnds), and an *)
(* exchange ends: a silent one after 10 seconds, one that talks at 64 KB or *)
(* after three redirects.  The time budget of a job may be off.            *)
Fairness ==
  \A j \in 1..MaxJobs :
    WF_vars(Attempt(j)) /\ \A nr \in 1..MaxAttempts : WF_vars(Ends(j, nr))

LiveSpec == Spec /\ Fairness

-----------------------------------------------------------------------------
(* Properties *)

(* Every variable stays within the values the code can give it. *)
TypeOK ==
  /\ DOMAIN hooks \subseteq 1..(nextId - 1) /\ nextId \in 1..(MaxHooks + 1)
  /\ \A id \in DOMAIN hooks : hooks[id] \in Hook
  /\ \A id \in DOMAIN logs : logs[id] \in Seq(Entry) /\ Len(logs[id]) \in 1..MaxLogs
  /\ jobs \in Seq(Job) /\ Len(jobs) <= MaxJobs
  /\ \A x \in exchanges : x.job \in DOMAIN jobs /\ x.nr \in 1..MaxAttempts
  /\ file \in Seq(Job) /\ Len(file) <= Len(jobs)
  /\ rolledBack \subseteq DOMAIN jobs /\ older \in 0..Len(jobs)
  /\ boots \in 0..MaxBoots

(* "Once full, the oldest entry is dropped for every new one": the log of a *)
(* webhook is the latest window of all the answers it got, as many of them  *)
(* as it has room for, whatever attempts they belong to and in whatever     *)
(* order they come in.  (Until a restart: see LogsAreOfTheirWebhook.)       *)
LogsAreTheLatestAnswers ==
  boots = 0 => \A id \in DOMAIN hooks :
    LET n == Len(answers[id])
    IN  LogOf(id) = SubSeq(answers[id], IF n > MaxLogs THEN n - MaxLogs + 1 ELSE 1, n)

(* What a restart can repeat: the attempt that it cut off, or all of them   *)
(* when it finds the delivery in an earlier state.                         *)
Repeats(j) == IF j \in rolledBack THEN MaxAttempts * boots ELSE boots

(* In one life of the process the receiver sees a delivery at most          *)
(* maxAttempts times; late answers of abandoned attempts buy no retry.  A   *)
(* restart that finds the delivery as it was adds one at most, whatever     *)
(* else it has lost.                                                       *)
ReceiversSeeBoundedAttempts == \A j \in DOMAIN jobs : sent[j] <= MaxAttempts + Repeats(j)

(* A delivery completes by its own answer: while an attempt is awaited its  *)
(* exchange is on the wire, and beside it only abandoned, earlier ones.     *)
AwaitedAttemptsAreOnTheWire ==
  \A j \in DOMAIN jobs :
    /\ jobs[j].status = "running" => Exchange(j, jobs[j].attempts + 1) \in exchanges
    /\ \A x \in exchanges : x.job = j => x.nr <= jobs[j].attempts \/ jobs[j].status = "running"

(* A paused webhook is left alone: while it stays inactive no request       *)
(* starts for it, of deliveries and retries queued before the pause too.   *)
PausedHooksStayQuiet ==
  [][\A id \in DOMAIN hooks \cap DOMAIN hooks' :
       hooks[id].status = "inactive" /\ hooks'[id].status = "inactive" =>
         \A x \in exchanges' \ exchanges : jobs[x.job].hook # id]_vars

(* Every delivery comes to an end, though the receiver never answers, or is *)
(* lost with the process.                                                  *)
EveryDeliveryEnds ==
  \A j \in 1..MaxJobs :
    j \in DOMAIN jobs ~> j \in DOMAIN jobs /\ jobs[j].status \in Ended \cup {"gone"}

(* What webhookRetry.job.js:231 intends, to "record the delivery against    *)
(* the registered webhook": a delivery asked for in an earlier life of the  *)
(* process is not recorded as one of a webhook with another url.  The code  *)
(* does not keep it: ids start again with every process, while the jobs     *)
(* that carry them survive in the snapshot.                                *)
LogsAreOfTheirWebhook ==
  [][\A x \in exchanges \ exchanges' :
       (logs' # logs /\ x.job <= older /\ jobs[x.job].hook \in DOMAIN hooks)
         => jobs[x.job].url = hooks[jobs[x.job].hook].url]_vars
=============================================================================
