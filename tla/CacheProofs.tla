---------------------------- MODULE CacheProofs ----------------------------
(***************************************************************************)
(* Proofs about Cache for every value of its constants: however calls,     *)
(* loads, answers, outages and reconnects interleave, a key is loaded once *)
(* at a time, a caller that missed late shares the load it just missed,    *)
(* and the fallback store keeps to its cap.                                *)
(***************************************************************************)
EXTENDS Cache, FiniteSetTheorems, WellFoundedInduction, TLAPS

-----------------------------------------------------------------------------
(* The inductive invariant *)

Waiters == Callers \cup {Nobody}
Tasks == [step : {"checked", "loaded", "stored", "scanned", "logged"}, who : Waiters,
          result : {"hit", "absent", "failed", "value", "nothing"}, keys : SUBSET Keys]
Commands == [op : {"get", "set", "del", "scan", "quit"}, keys : SUBSET Keys, who : Waiters]
Shape ==
  /\ tasks \in Seq(Tasks) /\ wire \in Seq(Commands)
  /\ pc \in [Callers -> {"idle", "reading", "joined", "loading", "storing"}]
  /\ wants \in [Callers -> LoadKeys \cup {Nobody}]
  /\ \A c \in Callers : pc[c] # "idle" => wants[c] \in LoadKeys

(* What a continuation and a command say of the caller that awaits them. *)
TaskFits(t) ==
  /\ t.step \in {"checked", "loaded", "stored"} => t.who \in Callers
  /\ t.step = "checked" => pc[t.who] = "reading"
  /\ t.step = "loaded" => pc[t.who] = "loading"
  /\ t.step = "stored" => pc[t.who] = "storing"
  /\ t.step \in {"scanned", "logged"} => t.who = Nobody
  /\ t.result = "absent" => t.step = "checked"
CommandFits(w) ==
  /\ w.op = "get" => w.who \in Callers /\ pc[w.who] = "reading" /\ w.keys = {wants[w.who]}
  /\ w.op = "set" /\ w.who # Nobody =>
       w.who \in Callers /\ pc[w.who] = "storing" /\ w.keys = {wants[w.who]}
  /\ w.op \in {"del", "scan", "quit"} => w.who = Nobody

(* Everything that is under way is somebody's, and each caller waits for    *)
(* one command or one continuation at most.                                *)
Fits ==
  /\ \A i \in DOMAIN tasks : TaskFits(tasks[i])
  /\ \A i \in DOMAIN wire : CommandFits(wire[i])
Single ==
  /\ \A i, j \in DOMAIN tasks : tasks[i].who = tasks[j].who => i = j \/ tasks[i].who = Nobody
  /\ \A i, j \in DOMAIN wire : wire[i].who = wire[j].who => i = j \/ wire[i].who = Nobody
  /\ \A i \in DOMAIN wire, j \in DOMAIN tasks : wire[i].who = tasks[j].who => wire[i].who = Nobody

(* k is where the next caller will find it, as a load left it. *)
Cached(k) ==
  IF useMemory THEN k \in DOMAIN memory /\ memory[k].writer = "load"
  ELSE k \in DOMAIN redis /\ redis[k] = "load"

(* A miss that is older than the value is before the end of the load. *)
StoredLater(i, k) ==
  \E j \in DOMAIN tasks : j > i /\ tasks[j].step = "stored" /\ wants[tasks[j].who] = k
MissesAreEarly ==
  \A i \in DOMAIN tasks : tasks[i].result = "absent" /\ Cached(wants[tasks[i].who]) =>
     StoredLater(i, wants[tasks[i].who])

(* Of the entries of a fallback store, each knows the ones before it. *)
Entries(S) == [writer : {"load", "set"}, expired : BOOLEAN, older : SUBSET S]
Ordered(m) ==
  /\ IsFiniteSet(DOMAIN m) /\ DOMAIN m \subseteq Keys
  /\ \A k \in DOMAIN m : m[k] \in Entries(DOMAIN m) /\ k \notin m[k].older
  /\ \A k \in DOMAIN m : \A j \in m[k].older : m[j].older \subseteq m[k].older

(* The memory serves only while there is no connection. *)
ConnectedMeansRedis == client \in {"connect", "ready"} => ~ useMemory
MemoryInv == Ordered(memory) /\ MemoryIsBounded

FlowInv == Shape /\ Fits /\ Single /\ OneLoadPerKey

-----------------------------------------------------------------------------
(* Sequences *)

LEMMA TailFacts ==
  ASSUME NEW S, NEW s \in Seq(S), s # << >>
  PROVE  /\ Tail(s) \in Seq(S) /\ Len(Tail(s)) = Len(s) - 1
         /\ 1 \in DOMAIN s /\ Head(s) = s[1] /\ Head(s) \in S
         /\ \A i \in DOMAIN Tail(s) : i \in Nat /\ i + 1 \in DOMAIN s /\ i + 1 # 1 /\ Tail(s)[i] = s[i + 1]
  OBVIOUS

LEMMA AppendFacts ==
  ASSUME NEW S, NEW s \in Seq(S), NEW e \in S
  PROVE  /\ Append(s, e) \in Seq(S) /\ DOMAIN Append(s, e) = DOMAIN s \cup {Len(s) + 1}
         /\ \A i \in DOMAIN s : i \in Nat /\ i # Len(s) + 1 /\ Append(s, e)[i] = s[i]
         /\ Append(s, e)[Len(s) + 1] = e
  OBVIOUS

-----------------------------------------------------------------------------
(* Callers, commands and continuations *)

LEMMA FlowStarts == ASSUME Init PROVE FlowInv
  BY CacheAssumption DEF Init, FlowInv, Shape, Fits, Single, OneLoadPerKey, CacheAssumption, Flying

(* A caller that is idle or has joined has nothing under way. *)
LEMMA OnlyWaitersHaveTokens ==
  ASSUME FlowInv, NEW c \in Callers
  PROVE  /\ pc[c] \in {"idle", "joined"} =>
              /\ \A i \in DOMAIN tasks : tasks[i].who # c
              /\ \A i \in DOMAIN wire : wire[i].who # c
         /\ pc[c] = "loading" => \A i \in DOMAIN wire : wire[i].who # c
<1>1. \A i \in DOMAIN tasks : tasks[i] \in Tasks /\ TaskFits(tasks[i])
  BY DEF FlowInv, Shape, Fits
<1>2. \A i \in DOMAIN wire : wire[i] \in Commands /\ CommandFits(wire[i])
  BY DEF FlowInv, Shape, Fits
<1> QED BY CacheAssumption, <1>1, <1>2 DEF Tasks, Commands, TaskFits, CommandFits, CacheAssumption

LEMMA TokenTypes ==
  ASSUME NEW who \in Waiters, NEW S \in SUBSET Keys
  PROVE  /\ \A step \in {"checked", "loaded", "stored", "scanned", "logged"},
               result \in {"hit", "absent", "failed", "value", "nothing"} :
              /\ Task(step, who, result, S) \in Tasks
              /\ Task(step, who, result, S).step = step /\ Task(step, who, result, S).who = who
              /\ Task(step, who, result, S).result = result
              /\ Task(step, who, result, S).keys = S
         /\ \A op \in {"get", "set", "del", "scan", "quit"} :
              /\ Command(op, S, who) \in Commands
              /\ Command(op, S, who).op = op /\ Command(op, S, who).who = who
              /\ Command(op, S, who).keys = S
  BY DEF Task, Command, Tasks, Commands

(* Every step of a caller keeps what is under way in order. *)
LEMMA CheckedKeepsFlow ==
  ASSUME FlowInv, Checked PROVE FlowInv'
<1> DEFINE c == tasks[1].who
<1>1. /\ tasks # << >> /\ Head(tasks) = tasks[1] /\ tasks[1].step = "checked"
      /\ tasks' = Tail(tasks) /\ wire' = wire
  BY TailFacts DEF Checked, Now, FlowInv, Shape
<1>2. /\ c \in Callers /\ pc[c] = "reading" /\ wants[c] \in LoadKeys
      /\ \A i \in DOMAIN tasks : i # 1 => tasks[i].who # c
      /\ \A i \in DOMAIN wire : wire[i].who # c
  BY CacheAssumption, <1>1, TailFacts DEF FlowInv, Shape, Fits, Single, TaskFits, CacheAssumption
<1>3. PICK p \in {"idle", "joined", "loading"}, w \in LoadKeys \cup {Nobody} :
        /\ pc' = [pc EXCEPT ![c] = p] /\ wants' = [wants EXCEPT ![c] = w]
        /\ p # "idle" => w = wants[c]
  <2>1. AnsweredAlone(c) \/ Goes(c, "joined") \/ Goes(c, "loading")
    BY <1>1 DEF Checked
  <2>2. wants = [wants EXCEPT ![c] = wants[c]]
    BY DEF FlowInv, Shape
  <2> QED BY <1>2, <2>1, <2>2 DEF AnsweredAlone, Goes
<1>4. Shape'
  BY <1>1, <1>2, <1>3, TailFacts DEF FlowInv, Shape
<1>5. Fits'
  BY <1>1, <1>2, <1>3, TailFacts DEF FlowInv, Shape, Fits, TaskFits, CommandFits, Tasks, Commands
<1>6. Single'
  BY <1>1, <1>2, <1>3, TailFacts DEF FlowInv, Shape, Single
<1>7. OneLoadPerKey'
  BY <1>1, <1>2, <1>3 DEF FlowInv, Shape, OneLoadPerKey, Flying, Checked, AnsweredAlone, Goes, Remember
<1> QED BY <1>4, <1>5, <1>6, <1>7 DEF FlowInv

LEMMA LoadIsOver ==
  ASSUME FlowInv, tasks # << >>, Head(tasks).step \in {"loaded", "stored"},
         tasks' = Tail(tasks), wire' = wire,
         Answered(Head(tasks).who), inFlight' = Forget(wants[Head(tasks).who])
  PROVE  FlowInv'
<1> DEFINE c == tasks[1].who
           done == {c} \cup {d \in Callers : pc[d] = "joined" /\ wants[d] = wants[c]}
<1>1. Head(tasks) = tasks[1] /\ tasks[1].step \in {"loaded", "stored"}
  BY TailFacts DEF FlowInv, Shape
<1>2. /\ c \in Callers /\ pc[c] \in Flying /\ wants[c] \in LoadKeys
      /\ \A i \in DOMAIN tasks : i # 1 => tasks[i].who # c
      /\ \A i \in DOMAIN wire : wire[i].who # c
  BY CacheAssumption, <1>1, TailFacts DEF FlowInv, Shape, Fits, Single, TaskFits, CacheAssumption, Flying
<1>3. /\ pc' = [d \in Callers |-> IF d \in done THEN "idle" ELSE pc[d]]
      /\ wants' = [d \in Callers |-> IF d \in done THEN Nobody ELSE wants[d]]
  BY <1>1 DEF Answered
<1>4. /\ \A i \in DOMAIN tasks : i # 1 => tasks[i].who \notin done
      /\ \A i \in DOMAIN wire : wire[i].who \notin done
  BY <1>2, OnlyWaitersHaveTokens
<1> HIDE DEF done
<1>5. Shape'
  BY <1>1, <1>2, <1>3, TailFacts DEF FlowInv, Shape
<1>6. Fits'
  BY <1>1, <1>3, <1>4, TailFacts DEF FlowInv, Shape, Fits, TaskFits, CommandFits
<1>7. Single'
  BY <1>1, TailFacts DEF FlowInv, Shape, Single
<1>8. OneLoadPerKey'
  <2>1. c \in done
    BY DEF done
  <2> QED BY <1>1, <1>2, <1>3, <2>1 DEF FlowInv, Shape, OneLoadPerKey, Flying, Forget
<1> QED BY <1>5, <1>6, <1>7, <1>8 DEF FlowInv

(* The head of the continuations makes way for the next thing its caller waits for. *)
LEMMA LoadIsStored ==
  ASSUME FlowInv, Now("loaded"), UNCHANGED inFlight,
         Goes(Head(tasks).who, "storing"),
         \/ tasks' = Append(Tail(tasks), Task("stored", Head(tasks).who, "value", {})) /\ wire' = wire
         \/ /\ wire' = Append(wire, Command("set", {wants[Head(tasks).who]}, Head(tasks).who))
            /\ tasks' = Tail(tasks)
  PROVE  FlowInv'
<1> DEFINE c == tasks[1].who
           t == Task("stored", c, "value", {})
           w == Command("set", {wants[c]}, c)
<1>1. Head(tasks) = tasks[1] /\ tasks[1].step = "loaded"
  BY TailFacts DEF FlowInv, Shape, Now
<1>2. /\ c \in Callers /\ pc[c] = "loading" /\ wants[c] \in LoadKeys
      /\ \A i \in DOMAIN tasks : i # 1 => tasks[i].who # c
      /\ \A i \in DOMAIN wire : wire[i].who # c
  BY CacheAssumption, <1>1, TailFacts DEF FlowInv, Shape, Fits, Single, TaskFits, CacheAssumption, Now
<1>3. pc' = [pc EXCEPT ![c] = "storing"] /\ wants' = wants
  BY <1>1 DEF Goes
<1>4. /\ t \in Tasks /\ t.step = "stored" /\ t.who = c /\ t.result = "value"
      /\ w \in Commands /\ w.op = "set" /\ w.who = c /\ w.keys = {wants[c]}
  BY <1>2 DEF Task, Command, Tasks, Commands, Waiters, Keys
<1>5. /\ Tail(tasks) \in Seq(Tasks)
      /\ \A i \in DOMAIN Tail(tasks) : Tail(tasks)[i].who # c /\ i + 1 \in DOMAIN tasks /\ Tail(tasks)[i] = tasks[i + 1]
  BY <1>2, TailFacts DEF FlowInv, Shape, Now
<1>6. OneLoadPerKey'
  BY <1>2, <1>3 DEF FlowInv, Shape, OneLoadPerKey, Flying
<1>7. CASE tasks' = Append(Tail(tasks), t) /\ wire' = wire
  <2> HIDE DEF t, w
  <2>1. Shape'
    BY <1>7, <1>2, <1>3, <1>4, <1>5, AppendFacts DEF FlowInv, Shape
  <2>2. Fits'
    BY <1>7, <1>2, <1>3, <1>4, <1>5, AppendFacts DEF FlowInv, Shape, Fits, TaskFits, CommandFits
  <2>3. Single'
    <3>1. /\ DOMAIN tasks' = DOMAIN Tail(tasks) \cup {Len(Tail(tasks)) + 1}
          /\ \A i \in DOMAIN Tail(tasks) : tasks'[i] = Tail(tasks)[i] /\ i \in Int
          /\ tasks'[Len(Tail(tasks)) + 1].who = c
      BY <1>7, <1>4, <1>5, AppendFacts
    <3>2. \A i, j \in DOMAIN Tail(tasks) : Tail(tasks)[i].who = Tail(tasks)[j].who => i = j \/ Tail(tasks)[i].who = Nobody
      <4> TAKE i, j \in DOMAIN Tail(tasks)
      <4>1. i \in Int /\ j \in Int
        BY <3>1
      <4>2. i + 1 \in DOMAIN tasks /\ j + 1 \in DOMAIN tasks
        BY <1>5
      <4>3. tasks[i + 1].who = tasks[j + 1].who => i + 1 = j + 1 \/ tasks[i + 1].who = Nobody
        BY <4>2 DEF FlowInv, Single
      <4> QED BY <1>5, <4>1, <4>3
    <3>3. \A i \in DOMAIN wire, j \in DOMAIN Tail(tasks) : wire[i].who = Tail(tasks)[j].who => wire[i].who = Nobody
      BY <1>5 DEF FlowInv, Single
    <3> QED BY <1>2, <1>7, <1>5, <3>1, <3>2, <3>3 DEF FlowInv, Single
  <2> QED BY <2>1, <2>2, <2>3, <1>6 DEF FlowInv
<1>8. CASE wire' = Append(wire, w) /\ tasks' = Tail(tasks)
  <2> HIDE DEF t, w
  <2>1. Shape'
    BY <1>8, <1>2, <1>3, <1>4, <1>5, AppendFacts DEF FlowInv, Shape
  <2>2. Fits'
    BY <1>8, <1>2, <1>3, <1>4, <1>5, AppendFacts DEF FlowInv, Shape, Fits, TaskFits, CommandFits
  <2>3. Single'
    BY <1>8, <1>2, <1>4, <1>5, AppendFacts DEF FlowInv, Shape, Single
  <2> QED BY <2>1, <2>2, <2>3, <1>6 DEF FlowInv
<1> QED BY <1>1, <1>7, <1>8

(* A continuation or a command comes in for a caller that waits for none. *)
LEMMA TokenIsAdded ==
  ASSUME FlowInv, Shape', OneLoadPerKey', NEW c \in Callers,
         \A i \in DOMAIN tasks : tasks[i].who # c,
         \A i \in DOMAIN wire : wire[i].who # c,
         \A d \in Callers : d # c => pc'[d] = pc[d] /\ wants'[d] = wants[d],
         \/ \E t \in Tasks : t.who = c /\ TaskFits(t)' /\ tasks' = Append(tasks, t) /\ wire' = wire
         \/ \E w \in Commands : w.who = c /\ CommandFits(w)' /\ wire' = Append(wire, w) /\ tasks' = tasks
  PROVE  FlowInv'
<1>1. ASSUME NEW t \in Tasks, t.who = c, TaskFits(t)', tasks' = Append(tasks, t), wire' = wire
      PROVE  FlowInv'
  <2>1. Fits'
    BY <1>1, AppendFacts DEF FlowInv, Shape, Fits, TaskFits, CommandFits
  <2>2. Single'
    BY <1>1, AppendFacts DEF FlowInv, Shape, Single
  <2> QED BY <2>1, <2>2 DEF FlowInv
<1>2. ASSUME NEW w \in Commands, w.who = c, CommandFits(w)', wire' = Append(wire, w), tasks' = tasks
      PROVE  FlowInv'
  <2>1. Fits'
    BY <1>2, AppendFacts DEF FlowInv, Shape, Fits, TaskFits, CommandFits
  <2>2. Single'
    BY <1>2, AppendFacts DEF FlowInv, Shape, Single
  <2> QED BY <2>1, <2>2 DEF FlowInv
<1> QED BY <1>1, <1>2

LEMMA GetOrSetKeepsFlow ==
  ASSUME FlowInv, NEW k \in LoadKeys, NEW c \in Callers, GetOrSet(c, k)
  PROVE  FlowInv'
<1>1. /\ pc[c] = "idle" /\ pc' = [pc EXCEPT ![c] = "reading"] /\ wants' = [wants EXCEPT ![c] = k]
      /\ inFlight' = inFlight
  BY DEF GetOrSet
<1>2. /\ \A i \in DOMAIN tasks : tasks[i].who # c
      /\ \A i \in DOMAIN wire : wire[i].who # c
  BY <1>1, OnlyWaitersHaveTokens
<1> DEFINE t(result) == Task("checked", c, result, {})
           w == Command("get", {k}, c)
<1>3. \A r \in {"hit", "absent", "failed"} :
        /\ t(r) \in Tasks /\ t(r).step = "checked" /\ t(r).who = c
  BY DEF Task, Tasks, Waiters
<1>4. w \in Commands /\ w.op = "get" /\ w.who = c /\ w.keys = {k}
  BY DEF Command, Commands, Waiters, Keys
<1>5. \/ \E r \in {"hit", "absent", "failed"} : tasks' = Append(tasks, t(r)) /\ wire' = wire
      \/ wire' = Append(wire, w) /\ tasks' = tasks
  BY DEF GetOrSet
<1> HIDE DEF t, w
<1>6. Shape'
  <2>1. tasks' \in Seq(Tasks) /\ wire' \in Seq(Commands)
    <3>1. CASE wire' = Append(wire, w) /\ tasks' = tasks
      BY <1>4, <3>1, AppendFacts DEF FlowInv, Shape
    <3>2. ASSUME NEW r \in {"hit", "absent", "failed"}, tasks' = Append(tasks, t(r)), wire' = wire
          PROVE  tasks' \in Seq(Tasks) /\ wire' \in Seq(Commands)
      <4>1. t(r) \in Tasks /\ tasks \in Seq(Tasks) /\ wire \in Seq(Commands)
        BY <1>3 DEF FlowInv, Shape
      <4> QED BY <3>2, <4>1, AppendFacts
    <3> QED BY <1>5, <3>1, <3>2
  <2> QED BY <2>1, <1>1 DEF FlowInv, Shape
<1>7. OneLoadPerKey'
  BY <1>1 DEF FlowInv, Shape, OneLoadPerKey, Flying
<1>8. pc'[c] = "reading" /\ wants'[c] = k /\ \A d \in Callers : d # c => pc'[d] = pc[d] /\ wants'[d] = wants[d]
  BY <1>1 DEF FlowInv, Shape
<1>9. /\ \A r \in {"hit", "absent", "failed"} : TaskFits(t(r))'
      /\ CommandFits(w)'
  BY <1>3, <1>4, <1>8 DEF TaskFits, CommandFits, t, w
<1> QED BY <1>2, <1>3, <1>4, <1>5, <1>6, <1>7, <1>8, <1>9, TokenIsAdded

LEMMA LoadSettlesKeepsFlow ==
  ASSUME FlowInv, NEW c \in Callers, LoadSettles(c)
  PROVE  FlowInv'
<1>1. pc[c] = "loading" /\ UNCHANGED <<pc, wants, inFlight, wire>>
  BY DEF LoadSettles, callers
<1>2. PICK r \in {"value", "nothing"} : tasks' = Append(tasks, Task("loaded", c, r, {}))
  BY DEF LoadSettles
<1> DEFINE t == Task("loaded", c, r, {})
<1>3. t \in Tasks /\ t.step = "loaded" /\ t.who = c /\ t.result = r
  BY DEF Task, Tasks, Waiters
<1>4. TaskFits(t)'
  BY <1>1, <1>2, <1>3 DEF TaskFits
<1>5. /\ \A i \in DOMAIN tasks : tasks[i].who # c
      /\ \A i \in DOMAIN wire : wire[i].who # c
  BY <1>1, OnlyWaitersHaveTokens DEF LoadSettles
<1> HIDE DEF t
<1>6. tasks' = Append(tasks, t)
  BY <1>2 DEF t
<1>7. Shape' /\ OneLoadPerKey'
  BY <1>1, <1>3, <1>6, AppendFacts DEF FlowInv, Shape, OneLoadPerKey
<1> QED BY <1>1, <1>3, <1>4, <1>5, <1>6, <1>7, TokenIsAdded

LEMMA LoadedKeepsFlow ==
  ASSUME FlowInv, Loaded
  PROVE  FlowInv'
<1> DEFINE c == Head(tasks).who
           cmd == Command("set", {wants[c]}, c)
<1>1. c \in Callers
  BY TailFacts DEF Loaded, Now, FlowInv, Shape, Fits, TaskFits
<1>2. cmd.op = "set" /\ cmd.who = c /\ c # Nobody
  BY CacheAssumption, <1>1 DEF Command, CacheAssumption
<1>3. Rejection(cmd) = Task("stored", c, "value", {})
  BY <1>2 DEF Rejection
<1>4. \/ /\ Goes(c, "storing") /\ UNCHANGED inFlight
         /\ \/ tasks' = Append(Tail(tasks), Task("stored", c, "value", {})) /\ wire' = wire
            \/ wire' = Append(wire, cmd) /\ tasks' = Tail(tasks)
      \/ /\ tasks' = Tail(tasks) /\ wire' = wire
         /\ Answered(c) /\ inFlight' = Forget(wants[c])
  BY <1>3 DEF Loaded, Send
<1>5. Now("loaded") /\ tasks # << >> /\ Head(tasks).step = "loaded"
  BY DEF Loaded, Now
<1> QED BY <1>4, <1>5, LoadIsStored, LoadIsOver

LEMMA StoredKeepsFlow ==
  ASSUME FlowInv, Stored
  PROVE  FlowInv'
  BY LoadIsOver DEF Stored, Now

(* Commands that nobody awaits, and the continuations they leave. *)
LEMMA PlainCommandKeepsFlow ==
  ASSUME FlowInv, UNCHANGED <<callers, tasks>>,
         NEW op \in {"set", "del", "scan", "quit"}, NEW S \in SUBSET Keys,
         wire' = Append(wire, Command(op, S, Nobody))
  PROVE  FlowInv'
<1> DEFINE w == Command(op, S, Nobody)
<1>1. w \in Commands /\ w.who = Nobody /\ CommandFits(w)'
  BY DEF Command, Commands, Waiters, CommandFits
<1>2. wire' = Append(wire, w) /\ UNCHANGED <<pc, wants, inFlight, tasks>>
  BY DEF callers
<1> HIDE DEF w
<1>3. Shape' /\ OneLoadPerKey'
  BY <1>1, <1>2, AppendFacts DEF FlowInv, Shape, OneLoadPerKey
<1>4. Fits'
  BY <1>1, <1>2, AppendFacts DEF FlowInv, Shape, Fits, TaskFits, CommandFits
<1>5. Single'
  BY <1>1, <1>2, AppendFacts DEF FlowInv, Shape, Single
<1> QED BY <1>3, <1>4, <1>5 DEF FlowInv

LEMMA HeadIsDropped ==
  ASSUME FlowInv, tasks # << >>, tasks' = Tail(tasks), UNCHANGED <<wire, callers>>
  PROVE  FlowInv'
<1>1. UNCHANGED <<pc, wants, inFlight, wire>>
  BY DEF callers
<1>2. Shape' /\ OneLoadPerKey'
  BY <1>1, TailFacts DEF FlowInv, Shape, OneLoadPerKey
<1>3. Fits'
  BY <1>1, TailFacts DEF FlowInv, Shape, Fits, TaskFits, CommandFits
<1>4. Single'
  BY <1>1, TailFacts DEF FlowInv, Shape, Single
<1> QED BY <1>2, <1>3, <1>4 DEF FlowInv

LEMMA ScannedKeepsFlow ==
  ASSUME FlowInv, Scanned
  PROVE  FlowInv'
<1> DEFINE S == Head(tasks).keys
           rest == Tail(tasks)
           w == Command("del", S, Nobody)
           t == Task("logged", Nobody, "value", {})
<1>1. tasks # << >> /\ UNCHANGED <<pc, wants, inFlight>>
  BY DEF Scanned, Now, callers
<1>2. S \in SUBSET Keys
  <2>1. Head(tasks) \in Tasks
    BY <1>1, TailFacts DEF FlowInv, Shape
  <2> QED BY <2>1 DEF Tasks
<1>3. Rejection(w) = t
  BY DEF Rejection, Command
<1>4. t \in Tasks /\ t.step = "logged" /\ t.result = "value" /\ t.who = Nobody
  BY DEF Task, Tasks, Waiters
<1>5. w \in Commands /\ w.op = "del" /\ w.who = Nobody
  BY <1>2 DEF Command, Commands, Waiters
<1>6. \/ tasks' = rest /\ wire' = wire
      \/ tasks' = rest /\ wire' = Append(wire, w)
      \/ tasks' = Append(rest, t) /\ wire' = wire
  BY <1>3 DEF Scanned, Send
<1>7. /\ rest \in Seq(Tasks) /\ wire \in Seq(Commands)
      /\ \A i, j \in DOMAIN rest : rest[i].who = rest[j].who => i = j \/ rest[i].who = Nobody
      /\ \A i, j \in DOMAIN wire : wire[i].who = wire[j].who => i = j \/ wire[i].who = Nobody
      /\ \A i \in DOMAIN wire, j \in DOMAIN rest : wire[i].who = rest[j].who => wire[i].who = Nobody
  BY <1>1, TailFacts DEF FlowInv, Shape, Single
<1>8. \A x \in DOMAIN rest : TaskFits(rest[x])
  BY <1>1, TailFacts DEF FlowInv, Shape, Fits
<1>9. \A x \in DOMAIN wire : CommandFits(wire[x])
  BY DEF FlowInv, Fits
<1> HIDE DEF rest, w, t
<1>10. CASE tasks' = rest /\ wire' = wire
  BY <1>1, <1>7, <1>8, <1>9, <1>10
     DEF FlowInv, Shape, OneLoadPerKey, Single, Fits, TaskFits, CommandFits
<1>11. CASE tasks' = rest /\ wire' = Append(wire, w)
  <2>1. Shape' /\ OneLoadPerKey'
    BY <1>1, <1>5, <1>7, <1>11, AppendFacts DEF FlowInv, Shape, OneLoadPerKey
  <2>2. Fits'
    BY <1>1, <1>5, <1>7, <1>8, <1>9, <1>11, AppendFacts DEF Fits, TaskFits, CommandFits
  <2>3. Single'
    BY <1>5, <1>7, <1>11, AppendFacts DEF Single
  <2> QED BY <2>1, <2>2, <2>3 DEF FlowInv
<1>12. CASE tasks' = Append(rest, t) /\ wire' = wire
  <2>1. Shape' /\ OneLoadPerKey'
    BY <1>1, <1>4, <1>7, <1>12, AppendFacts DEF FlowInv, Shape, OneLoadPerKey
  <2>2. Fits'
    BY <1>1, <1>4, <1>7, <1>8, <1>9, <1>12, AppendFacts DEF Fits, TaskFits, CommandFits
  <2>3. Single'
    BY <1>4, <1>7, <1>12, AppendFacts DEF Single
  <2> QED BY <2>1, <2>2, <2>3 DEF FlowInv
<1> QED BY <1>6, <1>10, <1>11, <1>12

(* The client gives up: every command that waits for it fails. *)
LEMMA RejectionsKeepFlow ==
  ASSUME FlowInv, tasks = << >>, UNCHANGED callers,
         wire' = << >>, tasks' = Rejections(wire)
  PROVE  FlowInv'
<1>1. ASSUME NEW w \in Commands
      PROVE  /\ Rejection(w) \in Tasks /\ Rejection(w).result # "absent"
             /\ \/ w.op = "get" /\ Rejection(w).step = "checked" /\ Rejection(w).who = w.who
                \/ /\ w.op = "set" /\ w.who # Nobody
                   /\ Rejection(w).step = "stored" /\ Rejection(w).who = w.who
                \/ /\ w.op # "get" /\ (w.op # "set" \/ w.who = Nobody)
                   /\ Rejection(w).step = "logged" /\ Rejection(w).who = Nobody
  BY DEF Rejection, Task, Tasks, Commands, Waiters
<1>2. /\ DOMAIN tasks' = DOMAIN wire /\ Len(wire) \in Nat /\ DOMAIN wire = 1..Len(wire)
      /\ \A i \in DOMAIN wire : wire[i] \in Commands /\ tasks'[i] = Rejection(wire[i])
  BY DEF Rejections, FlowInv, Shape
<1>3. tasks' \in Seq(Tasks)
  <2>1. \A i \in 1..Len(wire) : Rejection(wire[i]) \in Tasks
    BY <1>1, <1>2
  <2>2. [i \in 1..Len(wire) |-> Rejection(wire[i])] \in Seq(Tasks)
    BY <2>1, <1>2
  <2> QED BY <2>2, <1>2 DEF Rejections
<1>4. UNCHANGED <<pc, wants, inFlight>>
  BY DEF callers
<1>5. Shape' /\ OneLoadPerKey'
  BY <1>3, <1>4 DEF FlowInv, Shape, OneLoadPerKey
<1>6. Fits'
  <2>1. ASSUME NEW i \in DOMAIN tasks', NEW t, t = tasks'[i] PROVE TaskFits(t)'
    <3>1. wire[i] \in Commands /\ CommandFits(wire[i]) /\ t = Rejection(wire[i])
      BY <1>2, <2>1 DEF FlowInv, Fits
    <3> QED BY <3>1, <1>1, <1>4 DEF TaskFits, CommandFits
  <2> QED BY <2>1 DEF Fits
<1>7. Single'
  <2>1. ASSUME NEW i \in DOMAIN tasks', NEW j \in DOMAIN tasks', tasks'[i].who = tasks'[j].who
        PROVE  i = j \/ tasks'[i].who = Nobody
    BY <2>1, <1>1, <1>2 DEF FlowInv, Single
  <2> QED BY <2>1 DEF Single
<1> QED BY <1>5, <1>6, <1>7 DEF FlowInv

LEMMA ConcatFacts ==
  ASSUME NEW S, NEW s \in Seq(S), NEW e \in S
  PROVE  s \o <<e>> = Append(s, e) /\ s \o << >> = s
  OBVIOUS

(* A command is answered: its caller, if any, waits for the continuation. *)
LEMMA ReplyKeepsFlow ==
  ASSUME FlowInv, Reply
  PROVE  FlowInv'
<1> DEFINE w == wire[1]
           rest == Tail(wire)
<1>1. /\ wire # << >> /\ wire' = rest /\ UNCHANGED <<pc, wants, inFlight>>
      /\ tasks' = tasks \o Answer(w) /\ w \in Commands /\ CommandFits(w)
  <2>1. wire # << >> /\ wire' = rest /\ UNCHANGED <<pc, wants, inFlight>>
        /\ tasks' = tasks \o Answer(Head(wire))
    BY DEF Reply, callers
  <2>2. Head(wire) = wire[1] /\ Head(wire) \in Commands /\ 1 \in DOMAIN wire
    BY <2>1, TailFacts DEF FlowInv, Shape
  <2> QED BY <2>1, <2>2 DEF FlowInv, Fits
<1>2. PICK t : /\ Answer(w) = << >> \/ Answer(w) = <<t>>
               /\ t \in Tasks /\ TaskFits(t) /\ t.who \in {w.who, Nobody}
  <2>1. CASE w.op = "get"
    <3> DEFINE u == Task("checked", w.who, IF w.keys \subseteq DOMAIN redis THEN "hit" ELSE "absent", {})
    <3>1. Answer(w) = <<u>>
      BY <2>1 DEF Answer
    <3>2. u \in Tasks /\ TaskFits(u) /\ u.who = w.who
      BY <1>1, <2>1 DEF Task, Tasks, Waiters, TaskFits, CommandFits
    <3> QED BY <3>1, <3>2
  <2>2. CASE w.op = "set" /\ w.who # Nobody
    <3> DEFINE u == Task("stored", w.who, "value", {})
    <3>1. Answer(w) = <<u>>
      BY <2>2 DEF Answer
    <3>2. u \in Tasks /\ TaskFits(u) /\ u.who = w.who
      BY <1>1, <2>2 DEF Task, Tasks, Waiters, TaskFits, CommandFits
    <3> QED BY <3>1, <3>2
  <2>3. CASE w.op = "scan"
    <3> DEFINE u == Task("scanned", Nobody, "value", w.keys \cap DOMAIN redis)
    <3>1. Answer(w) = <<u>>
      BY <2>3 DEF Answer
    <3>2. w.keys \cap DOMAIN redis \in SUBSET Keys
      BY <1>1 DEF Commands
    <3>3. u \in Tasks /\ TaskFits(u) /\ u.who = Nobody
      BY <3>2 DEF Task, Tasks, Waiters, TaskFits
    <3> QED BY <3>1, <3>3
  <2>4. CASE w.op # "get" /\ ~ (w.op = "set" /\ w.who # Nobody) /\ w.op # "scan"
    <3> DEFINE u == Task("logged", Nobody, "value", {})
    <3>1. Answer(w) = << >>
      BY <2>4 DEF Answer
    <3>2. u \in Tasks /\ TaskFits(u) /\ u.who = Nobody
      BY DEF Task, Tasks, Waiters, TaskFits
    <3> QED BY <3>1, <3>2
  <2> QED BY <2>1, <2>2, <2>3, <2>4
<1>3. tasks' = tasks \/ tasks' = Append(tasks, t)
  <2>1. tasks \in Seq(Tasks)
    BY DEF FlowInv, Shape
  <2>2. CASE Answer(w) = << >>
    BY <1>1, <1>2, <2>1, <2>2, ConcatFacts
  <2>3. CASE Answer(w) = <<t>>
    BY <1>1, <1>2, <2>1, <2>3, ConcatFacts
  <2> QED BY <1>2, <2>2, <2>3
<1>4. /\ \A i \in DOMAIN rest : i \in Int /\ i + 1 \in DOMAIN wire /\ rest[i] = wire[i + 1]
      /\ rest \in Seq(Commands) /\ tasks \in Seq(Tasks)
  BY <1>1, TailFacts DEF FlowInv, Shape
<1>5. /\ \A i, j \in DOMAIN rest : rest[i].who = rest[j].who => i = j \/ rest[i].who = Nobody
      /\ \A i \in DOMAIN rest : rest[i].who = t.who => t.who = Nobody
      /\ \A i \in DOMAIN rest, j \in DOMAIN tasks : rest[i].who = tasks[j].who => rest[i].who = Nobody
      /\ \A j \in DOMAIN tasks : tasks[j].who = t.who => t.who = Nobody
  BY <1>1, <1>2, TailFacts DEF FlowInv, Shape, Single
<1>6. /\ \A i, j \in DOMAIN tasks : tasks[i].who = tasks[j].who => i = j \/ tasks[i].who = Nobody
      /\ \A i \in DOMAIN tasks : TaskFits(tasks[i])
      /\ \A i \in DOMAIN rest : CommandFits(rest[i])
  BY <1>4 DEF FlowInv, Single, Fits
<1> HIDE DEF rest
<1>7. tasks' \in Seq(Tasks)
  <2>1. CASE tasks' = tasks
    BY <1>4, <2>1
  <2>2. CASE tasks' = Append(tasks, t)
    BY <1>2, <1>4, <2>2, AppendFacts
  <2> QED BY <1>3, <2>1, <2>2
<1>8. Shape' /\ OneLoadPerKey'
  BY <1>1, <1>4, <1>7 DEF FlowInv, Shape, OneLoadPerKey
<1>9. Fits'
  BY <1>1, <1>2, <1>3, <1>4, <1>6, AppendFacts DEF Fits, TaskFits, CommandFits
<1>10. Single'
  <2>1. CASE tasks' = tasks
    BY <1>1, <1>5, <1>6, <2>1 DEF Single
  <2>2. CASE tasks' = Append(tasks, t)
    <3>1. /\ wire' = rest
          /\ DOMAIN tasks' = DOMAIN tasks \cup {Len(tasks) + 1}
          /\ \A i \in DOMAIN tasks : tasks'[i] = tasks[i]
          /\ tasks'[Len(tasks) + 1] = t
      BY <1>1, <1>2, <1>4, <2>2, AppendFacts
    <3> DEFINE n == Len(tasks) + 1
    <3> HIDE DEF n
    <3>2. \A i \in DOMAIN tasks' : (i \in DOMAIN tasks /\ tasks'[i] = tasks[i]) \/ (i = n /\ tasks'[i] = t)
      BY <3>1 DEF n
    <3>3. \A i, j \in DOMAIN tasks' : tasks'[i].who = tasks'[j].who => i = j \/ tasks'[i].who = Nobody
      BY <1>5, <1>6, <3>2
    <3>4. \A i, j \in DOMAIN wire' : wire'[i].who = wire'[j].who => i = j \/ wire'[i].who = Nobody
      BY <1>5, <3>1
    <3>5. \A i \in DOMAIN wire', j \in DOMAIN tasks' : wire'[i].who = tasks'[j].who => wire'[i].who = Nobody
      BY <1>5, <3>1, <3>2
    <3> QED BY <3>3, <3>4, <3>5 DEF Single
  <2> QED BY <1>3, <2>1, <2>2
<1> QED BY <1>8, <1>9, <1>10 DEF FlowInv

LEMMA NothingFlows ==
  ASSUME FlowInv, UNCHANGED <<tasks, wire, callers>>
  PROVE  FlowInv'
  BY DEF FlowInv, Shape, Fits, TaskFits, CommandFits, Single, OneLoadPerKey, callers

LEMMA FlowIsKept ==
  ASSUME FlowInv, [Next]_vars
  PROVE  FlowInv'
<1>1. ASSUME NEW k \in LoadKeys, NEW c \in Callers, GetOrSet(c, k) PROVE FlowInv'
  BY <1>1, GetOrSetKeepsFlow
<1>2. ASSUME NEW k \in PlainKeys, Set(k) PROVE FlowInv'
  BY <1>2, PlainCommandKeepsFlow, NothingFlows DEF Set, Keys
<1>3. ASSUME NEW k \in Keys, Expire(k) PROVE FlowInv'
  BY <1>3, NothingFlows DEF Expire
<1>4. ASSUME NEW S \in SUBSET Keys, Del(S) \/ DelPattern(S) PROVE FlowInv'
  BY <1>4, PlainCommandKeepsFlow, NothingFlows DEF Del, DelPattern
<1>5. ASSUME NEW c \in Callers, LoadSettles(c) PROVE FlowInv'
  BY <1>5, LoadSettlesKeepsFlow
<1>6. CASE Run
  <2>1. CASE Logged
    BY <2>1, HeadIsDropped DEF Logged, Now
  <2> QED BY <1>6, <2>1, CheckedKeepsFlow, LoadedKeepsFlow, StoredKeepsFlow, ScannedKeepsFlow DEF Run
<1>7. CASE Reply
  BY <1>7, ReplyKeepsFlow
<1>8. CASE Connect \/ Connected \/ Ready
  BY <1>8, NothingFlows DEF Connect, Connected, Ready
<1>9. CASE ConnectFails \/ ConnectionLost \/ QuitDone
  BY <1>9, NothingFlows, RejectionsKeepFlow DEF ConnectFails, ConnectionLost, Retry, QuitDone, Event
<1>10. CASE Quit
  BY <1>10, PlainCommandKeepsFlow DEF Quit
<1>11. CASE UNCHANGED vars
  BY <1>11, NothingFlows DEF vars
<1> QED BY <1>1, <1>2, <1>3, <1>4, <1>5, <1>6, <1>7, <1>8, <1>9, <1>10, <1>11 DEF Next

(* At no time are there two loads of a key, and who loads it is the one     *)
(* whose promise later callers are given.                                  *)
THEOREM StampedesArePrevented == Spec => []OneLoadPerKey
<1>1. Init => FlowInv
  BY FlowStarts
<1>2. FlowInv /\ [Next]_vars => FlowInv'
  BY FlowIsKept
<1>3. FlowInv => OneLoadPerKey
  BY DEF FlowInv
<1> QED BY <1>1, <1>2, <1>3, PTL DEF Spec

-----------------------------------------------------------------------------
(* The fallback store *)

(* Of some entries one is the oldest: none of them came in before it. *)
LEMMA OldestIsOneOfThem ==
  ASSUME NEW m, Ordered(m), NEW S \in SUBSET DOMAIN m, S # {}
  PROVE  Oldest(m, S) \in S
<1> DEFINE Olders == {m[k].older : k \in S}
<1>1. \A k \in DOMAIN m : m[k].older \in SUBSET DOMAIN m
  BY DEF Ordered, Entries
<1>2. Olders \subseteq FiniteSubsetsOf(DOMAIN m) /\ Olders # {}
  <2>1. \A k \in S : m[k].older \in FiniteSubsetsOf(DOMAIN m)
    BY <1>1, FS_Subset DEF FiniteSubsetsOf, Ordered
  <2> QED BY <2>1
<1>3. IsWellFoundedOn(StrictSubsetOrdering(DOMAIN m), FiniteSubsetsOf(DOMAIN m))
  BY FS_StrictSubsetOrderingWellFounded
<1>4. PICK O \in Olders : \A P \in Olders : ~ (<<P, O>> \in StrictSubsetOrdering(DOMAIN m))
  BY <1>2, <1>3, WFMin
<1>5. PICK k \in S : O = m[k].older
  BY <1>4
<1>6. ASSUME NEW j \in m[k].older, j \in S PROVE FALSE
  <2>1. m[j].older \subseteq m[k].older /\ j \notin m[j].older
    BY <1>6 DEF Ordered
  <2>2. <<m[j].older, O>> \in StrictSubsetOrdering(DOMAIN m)
    BY <1>1, <1>5, <1>6, <2>1 DEF StrictSubsetOrdering
  <2> QED BY <1>4, <1>6, <2>2
<1>7. m[k].older \cap S = {}
  BY <1>6
<1> QED BY <1>7 DEF Oldest

LEMMA WithoutKeepsOrder ==
  ASSUME NEW m, Ordered(m), NEW S
  PROVE  Ordered(Without(m, S)) /\ DOMAIN Without(m, S) = DOMAIN m \ S
<1> DEFINE n == Without(m, S)
<1>1. DOMAIN n = DOMAIN m \ S
  BY DEF Without
<1>2. \A k \in DOMAIN n : /\ m[k] \in Entries(DOMAIN m)
                          /\ n[k] = [m[k] EXCEPT !.older = m[k].older \ S]
  BY DEF Without, Ordered
<1>3. \A k \in DOMAIN n : n[k] \in Entries(DOMAIN n) /\ n[k].older = m[k].older \ S
  BY <1>1, <1>2 DEF Entries
<1>4. IsFiniteSet(DOMAIN n)
  BY <1>1, FS_Subset DEF Ordered
<1>5. \A k \in DOMAIN n : k \notin n[k].older
  BY <1>1, <1>3 DEF Ordered
<1>6. ASSUME NEW k \in DOMAIN n, NEW j \in n[k].older PROVE n[j].older \subseteq n[k].older
  <2>1. k \in DOMAIN m /\ j \in m[k].older /\ j \in DOMAIN n
    BY <1>1, <1>3, <1>6 DEF Entries
  <2>2. m[j].older \subseteq m[k].older
    BY <2>1 DEF Ordered
  <2> QED BY <1>3, <2>1, <2>2
<1> HIDE DEF n
<1>7. Ordered(n)
  BY <1>1, <1>3, <1>4, <1>5, <1>6 DEF Ordered
<1> QED BY <1>1, <1>7 DEF n

LEMMA EvictedMakesRoom ==
  ASSUME NEW m, Ordered(m), Cardinality(DOMAIN m) <= MaxEntries, NEW k
  PROVE  /\ Ordered(Evicted(m, k))
         /\ IF k \in DOMAIN m THEN Evicted(m, k) = m
            ELSE /\ DOMAIN Evicted(m, k) \subseteq DOMAIN m
                 /\ Cardinality(DOMAIN Evicted(m, k)) < MaxEntries
<1>1. Cardinality(DOMAIN m) \in Nat /\ MaxEntries \in Nat /\ MaxEntries > 0
  BY CacheAssumption, FS_CardinalityType DEF Ordered, CacheAssumption
<1>2. CASE Cardinality(DOMAIN m) < MaxEntries \/ k \in DOMAIN m
  BY <1>2 DEF Evicted
<1>3. CASE ~ (Cardinality(DOMAIN m) < MaxEntries \/ k \in DOMAIN m)
  <2> DEFINE old == {q \in DOMAIN m : m[q].expired}
             S == IF old = {} THEN DOMAIN m ELSE old
             first == Oldest(m, S)
  <2>1. Evicted(m, k) = Without(m, {first})
    BY <1>3 DEF Evicted
  <2>2. DOMAIN m # {}
    BY <1>1, <1>3, FS_EmptySet
  <2>3. S \in SUBSET DOMAIN m /\ S # {}
    BY <2>2
  <2> HIDE DEF S
  <2>4. first \in DOMAIN m
    BY <2>3, OldestIsOneOfThem
  <2> HIDE DEF first
  <2>5. Cardinality(DOMAIN m \ {first}) = Cardinality(DOMAIN m) - 1
    BY <2>4, FS_RemoveElement DEF Ordered
  <2>6. Ordered(Without(m, {first})) /\ DOMAIN Without(m, {first}) = DOMAIN m \ {first}
    BY WithoutKeepsOrder
  <2>7. Cardinality(DOMAIN m) - 1 < MaxEntries
    BY <1>1
  <2>8. Cardinality(DOMAIN Evicted(m, k)) < MaxEntries
    BY <2>1, <2>5, <2>6, <2>7
  <2>9. Ordered(Evicted(m, k)) /\ DOMAIN Evicted(m, k) \subseteq DOMAIN m
    BY <2>1, <2>6
  <2> QED BY <1>3, <2>8, <2>9
<1> QED BY <1>2, <1>3

LEMMA MemorySetKeepsBound ==
  ASSUME NEW m, Ordered(m), Cardinality(DOMAIN m) <= MaxEntries,
         NEW k \in Keys, NEW writer \in {"load", "set"}
  PROVE  /\ Ordered(MemorySet(m, k, writer))
         /\ Cardinality(DOMAIN MemorySet(m, k, writer)) <= MaxEntries
<1> DEFINE room == Evicted(m, k)
           older == IF k \in DOMAIN m THEN m[k].older ELSE DOMAIN room
           e == [writer |-> writer, expired |-> FALSE, older |-> older]
           n == MemorySet(m, k, writer)
<1>1. /\ Ordered(room)
      /\ k \in DOMAIN m => room = m
      /\ k \notin DOMAIN m => k \notin DOMAIN room /\ Cardinality(DOMAIN room) < MaxEntries
  BY EvictedMakesRoom
<1>2. /\ DOMAIN n = DOMAIN room \cup {k}
      /\ n[k] = e /\ \A q \in DOMAIN room : q # k => n[q] = room[q]
  BY DEF MemorySet
<1>3. /\ \A q \in DOMAIN room : room[q].older \subseteq DOMAIN room /\ room[q] \in Entries(DOMAIN room)
      /\ IsFiniteSet(DOMAIN room)
  BY <1>1 DEF Ordered, Entries
<1>4. older \subseteq DOMAIN room /\ k \notin older
  BY <1>1, <1>3 DEF Ordered
<1>5. k \in DOMAIN room => older = room[k].older
  BY <1>1
<1>6. k \notin DOMAIN room => older = DOMAIN room
  BY <1>1
<1>7. e.older = older /\ e \in Entries(DOMAIN n)
  BY <1>2, <1>4 DEF Entries
<1>8. \A q \in DOMAIN room : room[q] \in Entries(DOMAIN n)
  BY <1>2, <1>3 DEF Entries
<1> HIDE DEF n, e, older, room
<1>9. IsFiniteSet(DOMAIN n)
  BY <1>2, <1>3, FS_AddElement
<1>10. \A q \in DOMAIN n : n[q] \in Entries(DOMAIN n) /\ q \notin n[q].older
  BY <1>1, <1>2, <1>4, <1>7, <1>8 DEF Ordered
<1>11. \A q \in DOMAIN n : n[q].older = IF q = k THEN older ELSE room[q].older
  BY <1>2, <1>7
<1>12. ASSUME NEW q \in DOMAIN n, NEW j \in n[q].older PROVE n[j].older \subseteq n[q].older
  <2>1. j \in DOMAIN room /\ (j = k => k \in DOMAIN room)
    BY <1>2, <1>3, <1>4, <1>11, <1>12
  <2>2. n[j].older = room[j].older
    BY <1>2, <1>5, <1>11, <2>1
  <2>3. CASE q \in DOMAIN room
    BY <1>1, <1>5, <1>11, <1>12, <2>2, <2>3 DEF Ordered
  <2>4. CASE q \notin DOMAIN room
    BY <1>2, <1>3, <1>6, <1>11, <2>1, <2>2, <2>4
  <2> QED BY <2>3, <2>4
<1>13. Ordered(n)
  BY <1>1, <1>2, <1>9, <1>10, <1>12 DEF Ordered
<1>14. Cardinality(DOMAIN n) <= MaxEntries
  <2>1. CASE k \in DOMAIN room
    <3>1. DOMAIN n = DOMAIN m
      BY <1>1, <1>2, <2>1
    <3> QED BY <3>1
  <2>2. CASE k \notin DOMAIN room
    <3>1. Cardinality(DOMAIN n) = Cardinality(DOMAIN room) + 1
      BY <1>2, <1>3, <2>2, FS_AddElement
    <3>2. Cardinality(DOMAIN room) < MaxEntries
      BY <1>1, <2>2
    <3>3. Cardinality(DOMAIN room) \in Nat /\ MaxEntries \in Nat
      BY CacheAssumption, <1>3, FS_CardinalityType DEF CacheAssumption
    <3> QED BY <3>1, <3>2, <3>3
  <2> QED BY <2>1, <2>2
<1> QED BY <1>13, <1>14 DEF n

LEMMA MemoryIsKept ==
  ASSUME FlowInv, MemoryInv, [Next]_vars
  PROVE  MemoryInv'
<1>1. ASSUME memory' = memory PROVE MemoryInv'
  BY <1>1 DEF MemoryInv, MemoryIsBounded
<1>2. ASSUME NEW S \in SUBSET Keys, memory' = Without(memory, S) PROVE MemoryInv'
  <2>1. Ordered(memory') /\ DOMAIN memory' \subseteq DOMAIN memory
    BY <1>2, WithoutKeepsOrder DEF MemoryInv
  <2>2. Cardinality(DOMAIN memory') <= Cardinality(DOMAIN memory)
    BY <2>1, FS_Subset DEF MemoryInv, Ordered
  <2>3. /\ Cardinality(DOMAIN memory') \in Nat /\ Cardinality(DOMAIN memory) \in Nat
        /\ MaxEntries \in Nat
    BY CacheAssumption, <2>1, FS_CardinalityType DEF MemoryInv, Ordered, CacheAssumption
  <2> QED BY <2>1, <2>2, <2>3 DEF MemoryInv, MemoryIsBounded
<1>3. ASSUME NEW k \in Keys, NEW writer \in {"load", "set"}, memory' = MemorySet(memory, k, writer)
      PROVE  MemoryInv'
  BY <1>3, MemorySetKeepsBound DEF MemoryInv, MemoryIsBounded
<1>4. ASSUME NEW k \in LoadKeys, NEW c \in Callers, GetOrSet(c, k) PROVE MemoryInv'
  <2>1. memory' = memory \/ memory' = Without(memory, {k})
    BY <1>4 DEF GetOrSet
  <2>2. {k} \in SUBSET Keys
    BY DEF Keys
  <2> QED BY <2>1, <2>2, <1>1, <1>2
<1>5. ASSUME NEW k \in PlainKeys, Set(k) PROVE MemoryInv'
  BY <1>5, <1>1, <1>3 DEF Set, Keys
<1>6. ASSUME NEW k \in Keys, Expire(k) PROVE MemoryInv'
  <2>1. CASE memory' = memory
    BY <1>1, <2>1
  <2>2. CASE k \in DOMAIN memory /\ memory' = [memory EXCEPT ![k].expired = TRUE]
    <3>1. /\ DOMAIN memory' = DOMAIN memory
          /\ \A q \in DOMAIN memory : memory'[q] = IF q = k THEN [memory[k] EXCEPT !.expired = TRUE] ELSE memory[q]
      BY <2>2
    <3>2. \A q \in DOMAIN memory : memory[q] \in Entries(DOMAIN memory)
      BY DEF MemoryInv, Ordered
    <3>3. \A q \in DOMAIN memory : memory'[q] \in Entries(DOMAIN memory) /\ memory'[q].older = memory[q].older
      BY <2>2, <3>1, <3>2 DEF Entries
    <3>4. Ordered(memory')
      BY <3>1, <3>3 DEF MemoryInv, Ordered, Entries
    <3> QED BY <3>1, <3>4 DEF MemoryInv, MemoryIsBounded
  <2> QED BY <1>6, <2>1, <2>2 DEF Expire
<1>7. ASSUME NEW S \in SUBSET Keys, Del(S) \/ DelPattern(S) PROVE MemoryInv'
  BY <1>7, <1>1, <1>2 DEF Del, DelPattern
<1>8. CASE Loaded
  <2>1. memory' = memory \/ memory' = MemorySet(memory, wants[Head(tasks).who], "load")
    BY <1>8 DEF Loaded
  <2>2. Head(tasks).who \in Callers /\ pc[Head(tasks).who] = "loading"
    BY <1>8, TailFacts DEF Loaded, Now, FlowInv, Shape, Fits, TaskFits
  <2>3. wants[Head(tasks).who] \in Keys
    BY <2>2 DEF FlowInv, Shape, Keys
  <2> QED BY <2>1, <2>3, <1>1, <1>3
<1>9. ASSUME NEW c \in Callers, LoadSettles(c) PROVE MemoryInv'
  BY <1>9, <1>1 DEF LoadSettles
<1>10. CASE Checked \/ Stored \/ Scanned \/ Logged \/ Reply
  BY <1>10, <1>1 DEF Checked, Stored, Scanned, Logged, Reply
<1>11. CASE Connect \/ Connected \/ Ready \/ ConnectFails \/ ConnectionLost \/ Quit \/ QuitDone
  BY <1>11, <1>1 DEF Connect, Connected, Ready, ConnectFails, ConnectionLost, Retry, Quit, QuitDone
<1>12. CASE UNCHANGED vars
  BY <1>12, <1>1 DEF vars
<1> QED BY <1>4, <1>5, <1>6, <1>7, <1>8, <1>9, <1>10, <1>11, <1>12 DEF Next, Run

LEMMA MemoryStarts == ASSUME Init PROVE MemoryInv
<1>1. DOMAIN memory = {}
  BY DEF Init, NoKeys
<1> QED BY CacheAssumption, <1>1, FS_EmptySet DEF MemoryInv, Ordered, MemoryIsBounded, CacheAssumption

(* The fallback store never grows beyond its cap, for any cap. *)
THEOREM FallbackIsBounded == Spec => []MemoryIsBounded
<1>1. Init => FlowInv /\ MemoryInv
  BY FlowStarts, MemoryStarts
<1>2. FlowInv /\ MemoryInv /\ [Next]_vars => FlowInv' /\ MemoryInv'
  BY FlowIsKept, MemoryIsKept
<1>3. MemoryInv => MemoryIsBounded
  BY DEF MemoryInv
<1> QED BY <1>1, <1>2, <1>3, PTL DEF Spec

-----------------------------------------------------------------------------
(* Misses *)

LEMMA ConnectedMeansRedisIsKept ==
  ASSUME ConnectedMeansRedis, [Next]_vars
  PROVE  ConnectedMeansRedis'
<1>1. ASSUME UNCHANGED <<client, useMemory>> PROVE ConnectedMeansRedis'
  BY <1>1 DEF ConnectedMeansRedis
<1>2. ASSUME NEW k, NEW c, NEW S, GetOrSet(c, k) \/ Set(k) \/ Expire(k) \/ Del(S) \/ DelPattern(S) \/ LoadSettles(c)
      PROVE  ConnectedMeansRedis'
  BY <1>1, <1>2 DEF GetOrSet, Set, Expire, Del, DelPattern, LoadSettles, link
<1>3. CASE Checked \/ Loaded \/ Stored \/ Scanned \/ Logged \/ Reply
  BY <1>1, <1>3 DEF Checked, Loaded, Stored, Scanned, Logged, Reply, link
<1>4. CASE Connect \/ Connected \/ Ready \/ ConnectFails \/ ConnectionLost \/ Quit \/ QuitDone
  BY <1>4 DEF Connect, Connected, Ready, ConnectFails, ConnectionLost, Quit, QuitDone, Retry,
              link, ConnectedMeansRedis
<1>5. CASE UNCHANGED vars
  BY <1>5, <1>1 DEF vars, link
<1> QED BY <1>2, <1>3, <1>4, <1>5 DEF Next, Run

(* The step that puts a value of key k where the next caller finds it has   *)
(* the end of the load follow every miss that is under way.                *)
LEMMA MissesStayEarly ==
  ASSUME FlowInv, MissesAreEarly,
         NEW rest, rest = tasks \/ (tasks # << >> /\ rest = Tail(tasks)),
         \A i \in DOMAIN rest : rest[i].step \in {"checked", "stored"} =>
           wants'[rest[i].who] = wants[rest[i].who],
         NEW t \in Tasks, tasks' = rest \/ tasks' = Append(rest, t),
         t.result = "absent" => ~ Cached(wants[t.who])',
         \A k : Cached(k)' /\ ~ Cached(k) =>
           tasks' = Append(rest, t) /\ t.step = "stored" /\ wants'[t.who] = k
  PROVE  MissesAreEarly'
<1>1. /\ rest \in Seq(Tasks) /\ tasks \in Seq(Tasks)
      /\ \A i \in DOMAIN tasks : tasks[i].result = "absent" => tasks[i].step = "checked"
  <2>1. tasks \in Seq(Tasks) /\ rest \in Seq(Tasks)
    BY TailFacts DEF FlowInv, Shape
  <2> QED BY <2>1 DEF FlowInv, Fits, TaskFits
<1>2. PICK d \in {0, 1} :
        /\ \A i \in DOMAIN rest : i \in Nat /\ i + d \in DOMAIN tasks /\ rest[i] = tasks[i + d]
        /\ \A j \in DOMAIN tasks : j - d > 0 => j - d \in DOMAIN rest
  <2>1. CASE rest = tasks
    BY <1>1, <2>1
  <2>2. CASE tasks # << >> /\ rest = Tail(tasks)
    <3>1. /\ \A i \in DOMAIN rest : i \in Nat /\ i + 1 \in DOMAIN tasks /\ rest[i] = tasks[i + 1]
          /\ \A j \in DOMAIN tasks : j - 1 > 0 => j - 1 \in DOMAIN rest
      BY <1>1, <2>2, TailFacts
    <3> QED BY <3>1
  <2> QED BY <2>1, <2>2
<1>3. /\ \A i \in DOMAIN rest : i \in DOMAIN tasks' /\ tasks'[i] = rest[i] /\ i < Len(rest) + 1
      /\ DOMAIN tasks' \subseteq DOMAIN rest \cup {Len(rest) + 1}
      /\ tasks' = Append(rest, t) => Len(rest) + 1 \in DOMAIN tasks' /\ tasks'[Len(rest) + 1] = t
      /\ Len(rest) + 1 \in DOMAIN tasks' => tasks'[Len(rest) + 1] = t
  BY <1>1, AppendFacts
<1>4. ASSUME NEW i \in DOMAIN tasks', tasks'[i].result = "absent", NEW k, k = wants'[tasks'[i].who],
             Cached(k)'
      PROVE  \E j \in DOMAIN tasks' : j > i /\ tasks'[j].step = "stored" /\ wants'[tasks'[j].who] = k
  <2>1. i \in DOMAIN rest /\ tasks'[i] = rest[i]
    <3>1. CASE i \notin DOMAIN rest
      <4>1. i = Len(rest) + 1 /\ tasks'[i] = t
        BY <1>3, <3>1
      <4>2. t.result = "absent" /\ k = wants'[t.who]
        BY <1>4, <4>1
      <4>3. ~ Cached(k)'
        BY <4>2 DEF Cached
      <4> QED BY <4>3, <1>4
    <3> QED BY <3>1, <1>3
  <2>2. i + d \in DOMAIN tasks /\ rest[i] = tasks[i + d] /\ i \in Nat /\ d \in Int
    BY <1>2, <2>1
  <2>3. tasks[i + d].result = "absent" /\ k = wants[tasks[i + d].who]
    BY <1>1, <1>4, <2>1, <2>2
  <2>4. CASE ~ Cached(k)
    <3>1. tasks' = Append(rest, t) /\ t.step = "stored" /\ wants'[t.who] = k
      BY <1>4, <2>4
    <3> QED BY <1>3, <2>1, <3>1
  <2>5. CASE Cached(k)
    <3>1. PICK j \in DOMAIN tasks : j > i + d /\ tasks[j].step = "stored" /\ wants[tasks[j].who] = k
      BY <2>2, <2>3, <2>5 DEF MissesAreEarly, StoredLater
    <3>2. j - d \in DOMAIN rest /\ j - d > i /\ (j - d) + d = j
      BY <1>1, <1>2, <2>2, <3>1
    <3>3. rest[j - d] = tasks[j]
      BY <1>2, <3>2
    <3>4. wants'[rest[j - d].who] = k
      BY <3>1, <3>2, <3>3
    <3> QED BY <1>3, <3>1, <3>2, <3>3, <3>4
  <2> QED BY <2>4, <2>5
<1> QED BY <1>4 DEF MissesAreEarly, StoredLater

LEMMA WithoutKeepsWriters ==
  ASSUME NEW m, Ordered(m), NEW S
  PROVE  \A q \in DOMAIN Without(m, S) : q \in DOMAIN m /\ q \notin S /\ Without(m, S)[q].writer = m[q].writer
<1>1. \A q \in DOMAIN m : m[q] \in Entries(DOMAIN m)
  BY DEF Ordered
<1>2. \A q \in DOMAIN m \ S : Without(m, S)[q] = [m[q] EXCEPT !.older = m[q].older \ S]
  BY DEF Without
<1>3. \A r \in Entries(DOMAIN m) : \A O : [r EXCEPT !.older = O].writer = r.writer
  BY DEF Entries
<1>4. DOMAIN Without(m, S) = DOMAIN m \ S
  BY DEF Without
<1> QED BY <1>1, <1>2, <1>3, <1>4

LEMMA MemorySetKeepsWriters ==
  ASSUME NEW m, Ordered(m), NEW k, NEW writer
  PROVE  LET n == MemorySet(m, k, writer)
         IN  \A q \in DOMAIN n :
               IF q = k THEN n[q].writer = writer ELSE q \in DOMAIN m /\ n[q].writer = m[q].writer
<1> DEFINE room == Evicted(m, k)
<1>1. \A q \in DOMAIN room : q \in DOMAIN m /\ room[q].writer = m[q].writer
  <2>1. room = m \/ \E S : room = Without(m, S)
    BY DEF Evicted
  <2> QED BY <2>1, WithoutKeepsWriters
<1> QED BY <1>1 DEF MemorySet

(* A step after which no more is cached than before, and no task is added. *)
LEMMA NothingIsCached ==
  ASSUME FlowInv, MissesAreEarly,
         tasks' = tasks \/ (tasks # << >> /\ tasks' = Tail(tasks)),
         \A i \in DOMAIN tasks' : tasks'[i].step \in {"checked", "stored"} =>
           wants'[tasks'[i].who] = wants[tasks'[i].who],
         \A k : Cached(k)' => Cached(k)
  PROVE  MissesAreEarly'
<1> DEFINE t == Task("logged", Nobody, "value", {})
<1>1. t \in Tasks /\ t.result # "absent"
  BY DEF Task, Tasks, Waiters
<1> HIDE DEF t
<1>2. PICK u : u = t
  OBVIOUS
<1>3. PICK rest : rest = tasks'
  OBVIOUS
<1> QED BY <1>1, <1>2, <1>3, MissesStayEarly

LEMMA NoMissNothingIsCached ==
  ASSUME FlowInv, MissesAreEarly, NEW t \in Tasks, t.result # "absent",
         NEW rest, rest = tasks \/ (tasks # << >> /\ rest = Tail(tasks)),
         tasks' = Append(rest, t), wants' = wants,
         \A k : Cached(k)' => Cached(k)
  PROVE  MissesAreEarly'
  BY MissesStayEarly

(* The head of the continuations is gone, and with it all that its caller waits for. *)
LEMMA WaitersOfTheRest ==
  ASSUME FlowInv, tasks # << >>, Head(tasks).who \in Callers
  PROVE  \A i \in DOMAIN Tail(tasks) :
           /\ Tail(tasks)[i].who # Head(tasks).who
           /\ Tail(tasks)[i].step \in {"checked", "stored"} =>
                /\ Tail(tasks)[i].who \in Callers
                /\ pc[Tail(tasks)[i].who] \in {"reading", "storing"}
  BY TailFacts, CacheAssumption DEF FlowInv, Shape, Fits, Single, TaskFits, CacheAssumption

LEMMA CheckedKeepsMisses ==
  ASSUME FlowInv, MissesAreEarly, Checked PROVE MissesAreEarly'
<1> DEFINE c == Head(tasks).who
<1>1. /\ tasks # << >> /\ tasks' = Tail(tasks) /\ UNCHANGED <<useMemory, memory, redis>>
      /\ wants' = wants \/ wants' = [wants EXCEPT ![c] = Nobody]
  BY DEF Checked, Now, link, AnsweredAlone, Goes
<1>2. c \in Callers
  BY <1>1, TailFacts DEF Checked, Now, FlowInv, Shape, Fits, TaskFits
<1>3. \A d \in Callers : d # c => wants'[d] = wants[d]
  BY <1>1 DEF FlowInv, Shape
<1>4. \A k : Cached(k)' => Cached(k)
  BY <1>1 DEF Cached
<1> QED BY <1>1, <1>2, <1>3, <1>4, WaitersOfTheRest, NothingIsCached

LEMMA AnsweredKeepsMisses ==
  ASSUME FlowInv, MissesAreEarly, tasks # << >>, Head(tasks).step \in {"loaded", "stored"},
         tasks' = Tail(tasks), Answered(Head(tasks).who), UNCHANGED <<useMemory, memory, redis>>
  PROVE  MissesAreEarly'
<1> DEFINE c == Head(tasks).who
<1>1. c \in Callers
  BY TailFacts DEF FlowInv, Shape, Fits, TaskFits
<1>2. \A d \in Callers : d # c /\ pc[d] # "joined" => wants'[d] = wants[d]
  BY DEF Answered
<1>3. \A k : Cached(k)' => Cached(k)
  BY DEF Cached
<1> QED BY <1>1, <1>2, <1>3, WaitersOfTheRest, NothingIsCached

LEMMA LoadedKeepsMisses ==
  ASSUME FlowInv, MemoryInv, MissesAreEarly, Loaded PROVE MissesAreEarly'
<1>1. PICK c : c = Head(tasks).who
  OBVIOUS
<1>2. PICK rest : rest = Tail(tasks)
  OBVIOUS
<1>3. tasks # << >> /\ Head(tasks).step = "loaded" /\ UNCHANGED <<useMemory, redis>>
  BY DEF Loaded, Now, link
<1>4. c \in Callers
  BY <1>1, <1>3, TailFacts DEF FlowInv, Shape, Fits, TaskFits
<1>5. PICK t : t = Task("stored", c, "value", {})
  OBVIOUS
<1>6. t \in Tasks /\ t.step = "stored" /\ t.who = c /\ t.result = "value"
  BY <1>4, <1>5 DEF Task, Tasks, Waiters
<1>7. CASE useMemory /\ memory' = MemorySet(memory, wants[c], "load") /\ tasks' = Append(rest, t) /\ wants' = wants
  <2>1. \A k : Cached(k)' /\ ~ Cached(k) => k = wants[c]
    BY <1>3, <1>7, MemorySetKeepsWriters DEF Cached, MemoryInv
  <2> QED BY <1>2, <1>3, <1>6, <1>7, <2>1, MissesStayEarly
<1>8. CASE memory' = memory /\ wants' = wants /\ (tasks' = rest \/ tasks' = Append(rest, t))
  <2>1. \A k : Cached(k)' => Cached(k)
    BY <1>3, <1>8 DEF Cached
  <2> QED BY <1>2, <1>3, <1>6, <1>8, <2>1, NoMissNothingIsCached, NothingIsCached
<1>9. CASE memory' = memory /\ tasks' = rest /\ Answered(c)
  BY <1>1, <1>2, <1>3, <1>9, AnsweredKeepsMisses
<1>10. \/ useMemory /\ memory' = MemorySet(memory, wants[c], "load") /\ tasks' = Append(rest, t) /\ wants' = wants
       \/ memory' = memory /\ wants' = wants /\ (tasks' = rest \/ tasks' = Append(rest, t))
       \/ memory' = memory /\ tasks' = rest /\ Answered(c)
  <2> DEFINE cmd == Command("set", {wants[c]}, c)
  <2>1. cmd.op = "set" /\ cmd.who = c /\ c # Nobody
    BY <1>4, CacheAssumption DEF Command, CacheAssumption
  <2>2. Rejection(cmd) = t
    BY <1>5, <2>1 DEF Rejection
  <2> QED BY <1>1, <1>2, <1>5, <2>2 DEF Loaded, Send, Goes
<1> QED BY <1>7, <1>8, <1>9, <1>10

LEMMA GetOrSetKeepsMisses ==
  ASSUME FlowInv, MemoryInv, MissesAreEarly, NEW k \in LoadKeys, NEW c \in Callers, GetOrSet(c, k)
  PROVE  MissesAreEarly'
<1>1. /\ pc[c] = "idle" /\ UNCHANGED <<useMemory, redis>>
      /\ wants'[c] = k /\ \A d \in Callers : d # c => wants'[d] = wants[d]
  BY DEF GetOrSet, link, FlowInv, Shape
<1>2. \A i \in DOMAIN tasks : tasks[i].step \in {"checked", "stored"} => wants'[tasks[i].who] = wants[tasks[i].who]
  BY <1>1, OnlyWaitersHaveTokens DEF FlowInv, Fits, TaskFits
<1>3. \A q : Cached(q)' => Cached(q)
  <2>1. memory' = memory \/ memory' = Without(memory, {k})
    BY DEF GetOrSet
  <2> QED BY <1>1, <2>1, WithoutKeepsWriters DEF Cached, MemoryInv
<1>4. CASE tasks' = tasks
  BY <1>2, <1>3, <1>4, NothingIsCached
<1>5. ASSUME NEW r \in {"hit", "absent", "failed"}, tasks' = Append(tasks, Task("checked", c, r, {})),
             r = "absent" => ~ Cached(k)'
      PROVE  MissesAreEarly'
  <2>1. PICK t : t = Task("checked", c, r, {})
    OBVIOUS
  <2>2. t \in Tasks /\ t.who = c /\ t.result = r
    BY <2>1 DEF Task, Tasks, Waiters
  <2>3. t.result = "absent" => ~ Cached(wants[t.who])'
    BY <1>1, <1>5, <2>2 DEF Cached
  <2> QED BY <1>2, <1>3, <1>5, <2>1, <2>2, <2>3, MissesStayEarly
<1>6. \/ tasks' = tasks
      \/ \E r \in {"hit", "absent", "failed"} :
           tasks' = Append(tasks, Task("checked", c, r, {})) /\ (r = "absent" => ~ Cached(k)')
  <2>1. CASE useMemory
    <3> DEFINE hit == k \in DOMAIN memory /\ ~ memory[k].expired
    <3>1. /\ memory' = IF hit THEN memory ELSE Without(memory, {k})
          /\ tasks' = Append(tasks, Task("checked", c, IF hit THEN "hit" ELSE "absent", {}))
      BY <2>1 DEF GetOrSet
    <3>2. ~ hit => ~ Cached(k)'
      BY <1>1, <2>1, <3>1, WithoutKeepsWriters DEF Cached, MemoryInv
    <3> QED BY <3>1, <3>2
  <2>2. CASE ~ useMemory
    BY <2>2 DEF GetOrSet
  <2> QED BY <2>1, <2>2
<1> QED BY <1>4, <1>5, <1>6

LEMMA ReplyKeepsMisses ==
  ASSUME FlowInv, MissesAreEarly, ConnectedMeansRedis, Reply
  PROVE  MissesAreEarly'
<1>1. PICK w : w = Head(wire)
  OBVIOUS
<1>2. /\ w \in Commands /\ CommandFits(w) /\ ~ useMemory /\ tasks \in Seq(Tasks)
      /\ redis' = Executed(redis, w) /\ tasks' = tasks \o Answer(w)
      /\ wants' = wants /\ useMemory' = useMemory
  <2>1. wire # << >>
    BY DEF Reply
  <2>2. Head(wire) = wire[1] /\ Head(wire) \in Commands /\ 1 \in DOMAIN wire
    BY <2>1, TailFacts DEF FlowInv, Shape
  <2> QED BY <1>1, <2>2 DEF Reply, FlowInv, Shape, Fits, ConnectedMeansRedis, callers, link
<1>3. CASE w.op = "get"
  <2>1. PICK t : t = Task("checked", w.who, IF w.keys \subseteq DOMAIN redis THEN "hit" ELSE "absent", {})
    OBVIOUS
  <2>2. /\ t \in Tasks /\ t.who = w.who
        /\ t.result = "absent" => ~ (w.keys \subseteq DOMAIN redis)
    BY <1>2, <1>3, <2>1 DEF Task, Tasks, Waiters, CommandFits
  <2>3. tasks' = Append(tasks, t) /\ redis' = redis
    BY <1>2, <1>3, <2>1, <2>2, ConcatFacts DEF Answer, Executed
  <2>4. w.keys = {wants[w.who]}
    BY <1>2, <1>3 DEF CommandFits
  <2>5. t.result = "absent" => ~ Cached(wants[t.who])'
    BY <1>2, <2>2, <2>3, <2>4 DEF Cached
  <2>6. \A q : Cached(q)' => Cached(q)
    BY <1>2, <2>3 DEF Cached
  <2> QED BY <1>2, <2>2, <2>3, <2>5, <2>6, MissesStayEarly
<1>4. CASE w.op = "set" /\ w.who # Nobody
  <2>1. PICK t : t = Task("stored", w.who, "value", {})
    OBVIOUS
  <2>2. t \in Tasks /\ t.who = w.who /\ t.result = "value" /\ t.step = "stored"
    BY <1>2, <1>4, <2>1 DEF Task, Tasks, Waiters, CommandFits
  <2>3. tasks' = Append(tasks, t)
    BY <1>2, <1>4, <2>1, <2>2, ConcatFacts DEF Answer
  <2>4. w.keys = {wants[w.who]}
    BY <1>2, <1>4 DEF CommandFits
  <2>5. \A q : Cached(q)' /\ ~ Cached(q) => q = wants[w.who]
    BY <1>2, <1>4, <2>4 DEF Cached, Executed
  <2> QED BY <1>2, <2>2, <2>3, <2>5, MissesStayEarly
<1>5. CASE w.op # "get" /\ ~ (w.op = "set" /\ w.who # Nobody)
  <2>1. \A q : Cached(q)' => Cached(q)
    BY <1>2, <1>5 DEF Cached, Executed, Writer
  <2>2. CASE w.op = "scan"
    <3>1. PICK t : t = Task("scanned", Nobody, "value", w.keys \cap DOMAIN redis)
      OBVIOUS
    <3>2. t \in Tasks /\ t.result = "value"
      BY <1>2, <3>1 DEF Task, Tasks, Waiters, Commands
    <3>3. tasks' = Append(tasks, t)
      BY <1>2, <2>2, <3>1, <3>2, ConcatFacts DEF Answer
    <3> QED BY <1>2, <2>1, <3>2, <3>3, NoMissNothingIsCached
  <2>3. CASE w.op # "scan"
    <3>1. Answer(w) = << >>
      BY <1>5, <2>3 DEF Answer
    <3>2. tasks' = tasks
      BY <1>2, <3>1
    <3> QED BY <1>2, <2>1, <3>2, NothingIsCached
  <2> QED BY <2>2, <2>3
<1> QED BY <1>3, <1>4, <1>5

LEMMA MissesStayEarlyAlways ==
  ASSUME FlowInv, MemoryInv, MissesAreEarly, ConnectedMeansRedis, [Next]_vars
  PROVE  MissesAreEarly'
<1>1. ASSUME UNCHANGED <<tasks, wants>>, \A k : Cached(k)' => Cached(k) PROVE MissesAreEarly'
  BY <1>1, NothingIsCached
<1>2. ASSUME UNCHANGED <<useMemory, memory, redis>> PROVE \A k : Cached(k)' => Cached(k)
  BY <1>2 DEF Cached
<1>3. ASSUME NEW k \in LoadKeys, NEW c \in Callers, GetOrSet(c, k) PROVE MissesAreEarly'
  BY <1>3, GetOrSetKeepsMisses
<1>4. ASSUME NEW k \in PlainKeys, Set(k) PROVE MissesAreEarly'
  <2>1. UNCHANGED <<useMemory, redis, tasks, wants>> /\ (memory' = memory \/ memory' = MemorySet(memory, k, "set"))
    BY <1>4 DEF Set, link, callers
  <2>2. \A q : Cached(q)' => Cached(q)
    BY <2>1, MemorySetKeepsWriters DEF Cached, MemoryInv
  <2> QED BY <1>1, <2>1, <2>2
<1>5. ASSUME NEW S \in SUBSET Keys, Del(S) \/ DelPattern(S) PROVE MissesAreEarly'
  <2>1. UNCHANGED <<useMemory, redis, tasks, wants>> /\ (memory' = memory \/ memory' = Without(memory, S))
    BY <1>5 DEF Del, DelPattern, link, callers
  <2>2. \A q : Cached(q)' => Cached(q)
    BY <2>1, WithoutKeepsWriters DEF Cached, MemoryInv
  <2> QED BY <1>1, <2>1, <2>2
<1>6. ASSUME NEW k \in Keys, Expire(k) PROVE MissesAreEarly'
  <2>1. UNCHANGED <<useMemory, tasks, wants>>
    BY <1>6 DEF Expire, link, callers
  <2>2. CASE redis' = [q \in DOMAIN redis \ {k} |-> redis[q]] /\ memory' = memory
    BY <1>1, <2>1, <2>2 DEF Cached
  <2>3. CASE k \in DOMAIN memory /\ memory' = [memory EXCEPT ![k].expired = TRUE] /\ redis' = redis
    <3>1. \A q \in DOMAIN memory : memory[q] \in Entries(DOMAIN memory)
      BY DEF MemoryInv, Ordered
    <3>2. \A r \in Entries(DOMAIN memory) : [r EXCEPT !.expired = TRUE].writer = r.writer
      BY DEF Entries
    <3>3. /\ DOMAIN memory' = DOMAIN memory
          /\ \A q \in DOMAIN memory : memory'[q] = IF q = k THEN [memory[k] EXCEPT !.expired = TRUE] ELSE memory[q]
      BY <2>3
    <3>4. \A q \in DOMAIN memory : memory'[q].writer = memory[q].writer
      BY <3>1, <3>2, <3>3
    <3> QED BY <1>1, <2>1, <2>3, <3>3, <3>4 DEF Cached
  <2> QED BY <1>6, <2>2, <2>3 DEF Expire
<1>7. ASSUME NEW c \in Callers, LoadSettles(c) PROVE MissesAreEarly'
  <2>1. PICK r \in {"value", "nothing"} : tasks' = Append(tasks, Task("loaded", c, r, {}))
    BY <1>7 DEF LoadSettles
  <2>2. PICK t : t = Task("loaded", c, r, {})
    OBVIOUS
  <2>3. t \in Tasks /\ t.result # "absent"
    BY <2>2 DEF Task, Tasks, Waiters
  <2>4. UNCHANGED <<useMemory, memory, redis, wants>>
    BY <1>7 DEF LoadSettles, link, callers
  <2> QED BY <1>2, <2>1, <2>2, <2>3, <2>4, NoMissNothingIsCached
<1>8. CASE Checked \/ Loaded \/ Reply
  BY <1>8, CheckedKeepsMisses, LoadedKeepsMisses, ReplyKeepsMisses
<1>9. CASE Stored
  BY <1>9, AnsweredKeepsMisses DEF Stored, Now, link
<1>10. CASE Scanned \/ Logged
  <2>1. PICK t : t = Task("logged", Nobody, "value", {})
    OBVIOUS
  <2>2. t \in Tasks /\ t.result # "absent"
    BY <2>1 DEF Task, Tasks, Waiters
  <2>3. Rejection(Command("del", Head(tasks).keys, Nobody)) = t
    BY <2>1 DEF Rejection, Command
  <2>4. PICK rest : rest = Tail(tasks)
    OBVIOUS
  <2>5. /\ tasks # << >> /\ UNCHANGED <<useMemory, memory, redis, wants>>
        /\ tasks' = rest \/ tasks' = Append(rest, t)
    BY <1>10, <2>3, <2>4 DEF Scanned, Logged, Send, Now, link, callers
  <2> QED BY <1>2, <2>2, <2>4, <2>5, NothingIsCached, NoMissNothingIsCached
<1>11. CASE Connect \/ Connected \/ Ready
  BY <1>11 DEF Connect, Connected, Ready, Event, MissesAreEarly
<1>12. CASE ConnectFails \/ ConnectionLost \/ QuitDone
  <2>1. tasks' = << >> \/ tasks' = Rejections(wire)
    BY <1>12 DEF ConnectFails, ConnectionLost, Retry, QuitDone, Event
  <2>2. \A w \in Commands : Rejection(w).result # "absent"
    BY DEF Rejection, Task
  <2>3. \A i \in DOMAIN tasks' : tasks'[i].result # "absent"
    BY <2>1, <2>2 DEF Rejections, FlowInv, Shape
  <2> QED BY <2>3 DEF MissesAreEarly
<1>13. CASE Quit \/ UNCHANGED vars
  BY <1>1, <1>2, <1>13 DEF Quit, vars, link, callers
<1> QED BY <1>3, <1>4, <1>5, <1>6, <1>7, <1>8, <1>9, <1>10, <1>11, <1>12, <1>13 DEF Next, Run

(* A caller that missed just before a loaded value was stored finds the     *)
(* promise of that load still there, when it goes on.                      *)
THEOREM LateMissesShare == Spec => []LateMissesJoin
<1>1. Init => FlowInv /\ MemoryInv /\ ConnectedMeansRedis /\ MissesAreEarly
  <2> SUFFICES ASSUME Init PROVE ConnectedMeansRedis /\ MissesAreEarly
    BY FlowStarts, MemoryStarts
  <2> QED BY DEF Init, ConnectedMeansRedis, MissesAreEarly
<1>2. FlowInv /\ MemoryInv /\ ConnectedMeansRedis /\ MissesAreEarly /\ [Next]_vars
      => FlowInv' /\ MemoryInv' /\ ConnectedMeansRedis' /\ MissesAreEarly'
  BY FlowIsKept, MemoryIsKept, ConnectedMeansRedisIsKept, MissesStayEarlyAlways
<1>3. FlowInv /\ MissesAreEarly => LateMissesJoin
  <2> SUFFICES ASSUME FlowInv, MissesAreEarly, NEW i \in DOMAIN tasks, tasks[i].result = "absent",
                      Cached(wants[tasks[i].who])
               PROVE  wants[tasks[i].who] \in DOMAIN inFlight
    BY DEF LateMissesJoin, Cached
  <2>1. PICK j \in DOMAIN tasks : tasks[j].step = "stored" /\ wants[tasks[j].who] = wants[tasks[i].who]
    BY DEF MissesAreEarly, StoredLater
  <2>2. tasks[j].who \in Callers /\ pc[tasks[j].who] = "storing"
    BY <2>1 DEF FlowInv, Fits, TaskFits
  <2> QED BY <2>1, <2>2 DEF FlowInv, OneLoadPerKey, Flying
<1> QED BY <1>1, <1>2, <1>3, PTL DEF Spec
=============================================================================
