------------------------------- MODULE Cache -------------------------------
(***************************************************************************)
(* The cache service: src/src/services/cache.js (class CacheService), its   *)
(* in-memory fallback store and the stampede protection of getOrSet().     *)
(*                                                                         *)
(* Two orders matter, and both are kept.  The Redis client has one         *)
(* connection, on which replies come in the order of the commands: wire.   *)
(* A settled promise puts a continuation at the end of the microtasks,     *)
(* which Node.js runs to the last before it takes another event: tasks.    *)
(*                                                                         *)
(* Of a cached value the model keeps who wrote it, getOrSet() or a plain    *)
(* set(); of time, that the TTL of an entry may run out.  _enabled is true  *)
(* for the service's singleton and is left out.  The Redis client itself    *)
(* (ioredis, with the options that connect() gives it) and Redis are        *)
(* modelled by what the service sees of them.  Above all: the commands on   *)
(* a connection that breaks stay unanswered and are sent again when the     *)
(* client is ready again (autoResendUnfulfilledCommands, which is on unless *)
(* it is turned off); they fail when the client gives up.                  *)
(***************************************************************************)
EXTENDS Integers, Sequences, FiniteSets, SequencesExt

CONSTANTS
  LoadKeys,     \* keys that getOrSet() is called for
  PlainKeys,    \* keys that set() is called for
  Callers,      \* concurrent callers of getOrSet()
  Nobody,       \* no caller: awaits a plain command, runs a settled promise
  MaxEntries,   \* MEMORY_STORE_MAX_ENTRIES
  MaxRetries,   \* retryStrategy(): reconnects in a row before the client gives up
  MaxWire       \* bound: a plain command is sent only with fewer commands and tasks pending

ASSUME CacheAssumption ==
  /\ Nobody \notin Callers
  /\ MaxEntries \in Nat \ {0} /\ MaxRetries \in Nat /\ MaxWire \in Nat

VARIABLES
  client,      \* this._client: "none", "retrying", "connect", "ready" or "end"
  retries,     \* connections lost or failed since the client was last ready
  detached,    \* a connection since the loss has given the client a new command queue
  connected,   \* this._connected
  useMemory,   \* this._useMemory
  memory,      \* memoryStore: key -> its entry; an entry's older keys came in before it
  redis,       \* what Redis holds: key -> who wrote it
  wire,        \* commands sent and not answered yet, kept while there is no connection
  tasks,       \* continuations ready to run
  inFlight,    \* inFlightGets: key -> caller whose load() its promise is of
  pc,          \* where each caller is in getOrSet()
  wants        \* the key each caller asks for

link == <<client, retries, detached, connected, useMemory>>
callers == <<inFlight, pc, wants>>
vars == <<link, memory, redis, wire, tasks, callers>>

Keys == LoadKeys \cup PlainKeys
NoKeys == [k \in {} |-> k]

-----------------------------------------------------------------------------
(* The fallback store *)

Without(m, S) == [k \in DOMAIN m \ S |-> [m[k] EXCEPT !.older = @ \ S]]
Oldest(m, S) == CHOOSE k \in S : m[k].older \cap S = {}

(* Mutant of Evicted: off by one. *)
EvictedLate(m, k) ==
  IF Cardinality(DOMAIN m) <= MaxEntries \/ k \in DOMAIN m THEN m
  ELSE Without(m, {Oldest(m, DOMAIN m)})

(* memoryStoreSet() makes room for k: an expired entry goes first, then the *)
(* oldest.  The store is never more than full, so one entry is enough.     *)
Evicted(m, k) ==
  IF Cardinality(DOMAIN m) < MaxEntries \/ k \in DOMAIN m THEN m
  ELSE LET old == {q \in DOMAIN m : m[q].expired}
       IN  Without(m, {Oldest(m, IF old = {} THEN DOMAIN m ELSE old)})

(* Map.set(): a key that is present keeps its place, a new one comes last. *)
MemorySet(m, k, writer) ==
  LET room == Evicted(m, k)
      older == IF k \in DOMAIN m THEN m[k].older ELSE DOMAIN room
  IN  [q \in DOMAIN room \cup {k} |->
         IF q = k THEN [writer |-> writer, expired |-> FALSE, older |-> older] ELSE room[q]]

-----------------------------------------------------------------------------
(* Commands and continuations *)

Command(op, S, who) == [op |-> op, keys |-> S, who |-> who]
Task(step, who, result, S) == [step |-> step, who |-> who, result |-> result, keys |-> S]

Writer(who) == IF who = Nobody THEN "set" ELSE "load"

(* What Redis holds after a command; a get or a scan changes nothing. *)
Executed(r, cmd) ==
  CASE cmd.op = "set" -> [k \in DOMAIN r \cup cmd.keys |->
                            IF k \in cmd.keys THEN Writer(cmd.who) ELSE r[k]]
    [] cmd.op = "del" -> [k \in DOMAIN r \ cmd.keys |-> r[k]]
    [] OTHER          -> r

(* The continuations of an answered command, and of one that failed: get() *)
(* turns an error into null, set() and the others only log it.             *)
Answer(cmd) ==
  CASE cmd.op = "get" ->
         <<Task("checked", cmd.who, IF cmd.keys \subseteq DOMAIN redis THEN "hit" ELSE "absent", {})>>
    [] cmd.op = "set" /\ cmd.who # Nobody -> <<Task("stored", cmd.who, "value", {})>>
    [] cmd.op = "scan" -> <<Task("scanned", Nobody, "value", cmd.keys \cap DOMAIN redis)>>
    [] OTHER -> << >>
Rejection(cmd) ==
  CASE cmd.op = "get" -> Task("checked", cmd.who, "failed", {})
    [] cmd.op = "set" /\ cmd.who # Nobody -> Task("stored", cmd.who, "value", {})
    [] OTHER -> Task("logged", Nobody, "value", {})
Rejections(cmds) == [i \in DOMAIN cmds |-> Rejection(cmds[i])]

(* A command sent by caller who: without a connection it fails at once      *)
(* (enableOfflineQueue is off), without a client there is nothing to send. *)
Send(cmd) ==
  IF client = "ready" THEN wire' = Append(wire, cmd) /\ tasks' = Tail(tasks)
  ELSE wire' = wire /\ tasks' = Append(Tail(tasks), Rejection(cmd))

-----------------------------------------------------------------------------
(* getOrSet() *)

(* A caller comes in: get(), up to its answer. *)
GetOrSet(c, k) ==
  /\ pc[c] = "idle"
  /\ pc' = [pc EXCEPT ![c] = "reading"] /\ wants' = [wants EXCEPT ![c] = k]
  /\ \/ /\ useMemory
        /\ LET hit == k \in DOMAIN memory /\ ~ memory[k].expired
           IN  /\ memory' = IF hit THEN memory ELSE Without(memory, {k})
               /\ tasks' = Append(tasks, Task("checked", c, IF hit THEN "hit" ELSE "absent", {}))
        /\ UNCHANGED wire
     \/ /\ ~ useMemory /\ client = "ready"
        /\ wire' = Append(wire, Command("get", {k}, c))
        /\ UNCHANGED <<memory, tasks>>
     \/ /\ ~ useMemory /\ client # "ready"
        /\ tasks' = Append(tasks, Task("checked", c, "failed", {}))
        /\ UNCHANGED <<memory, wire>>
  /\ UNCHANGED <<link, redis, inFlight>>

Now(step) == tasks # << >> /\ Head(tasks).step = step

(* c has its answer, and so has every caller that was given its promise. *)
Answered(c) ==
  LET done == {c} \cup {d \in Callers : pc[d] = "joined" /\ wants[d] = wants[c]}
  IN  /\ pc' = [d \in Callers |-> IF d \in done THEN "idle" ELSE pc[d]]
      /\ wants' = [d \in Callers |-> IF d \in done THEN Nobody ELSE wants[d]]
AnsweredAlone(c) == pc' = [pc EXCEPT ![c] = "idle"] /\ wants' = [wants EXCEPT ![c] = Nobody]
Goes(c, step) == pc' = [pc EXCEPT ![c] = step] /\ UNCHANGED wants
Forget(k) == [q \in DOMAIN inFlight \ {k} |-> inFlight[q]]
Remember(k, c) == [q \in DOMAIN inFlight \cup {k} |-> IF q = k THEN c ELSE inFlight[q]]

(* Mutant of Checked: the promise of another caller is not looked for. *)
CheckedAlone ==
  /\ Now("checked") /\ tasks' = Tail(tasks)
  /\ LET c == Head(tasks).who
     IN  IF Head(tasks).result = "hit" THEN AnsweredAlone(c) /\ UNCHANGED inFlight
         ELSE Goes(c, "loading") /\ inFlight' = Remember(wants[c], c)
  /\ UNCHANGED <<link, memory, redis, wire>>

(* After `await this.get(key)`: a hit; or the promise of the load that is   *)
(* in flight; or a load of its own.  The function that calls load() runs    *)
(* at once up to its first await: when load() throws before that, its       *)
(* finally clause comes before inFlightGets.set().                         *)
Checked ==
  /\ Now("checked") /\ tasks' = Tail(tasks)
  /\ LET c == Head(tasks).who
         k == wants[c]
         hit == Head(tasks).result = "hit"
     IN  \/ /\ hit \/ (k \in DOMAIN inFlight /\ inFlight[k] = Nobody)
            /\ AnsweredAlone(c) /\ UNCHANGED inFlight
         \/ /\ ~ hit /\ k \in DOMAIN inFlight /\ inFlight[k] # Nobody
            /\ Goes(c, "joined") /\ UNCHANGED inFlight
         \/ /\ ~ hit /\ k \notin DOMAIN inFlight
            /\ Goes(c, "loading") /\ inFlight' = Remember(k, c)
         \/ /\ ~ hit /\ k \notin DOMAIN inFlight
            /\ AnsweredAlone(c) /\ inFlight' = Remember(k, Nobody)
  /\ UNCHANGED <<link, memory, redis, wire>>

(* The promise of load() settles: with a value, with null, or rejected. *)
LoadSettles(c) ==
  /\ pc[c] = "loading"
  /\ \A i \in DOMAIN tasks : tasks[i].who # c
  /\ \E result \in {"value", "nothing"} : tasks' = Append(tasks, Task("loaded", c, result, {}))
  /\ UNCHANGED <<link, memory, redis, wire, callers>>

(* Mutant of Loaded: the promise is forgotten before the value is stored. *)
LoadedForgets ==
  /\ Now("loaded") /\ Head(tasks).result = "value" /\ useMemory
  /\ LET c == Head(tasks).who
     IN  /\ memory' = MemorySet(memory, wants[c], "load")
         /\ tasks' = Append(Tail(tasks), Task("stored", c, "value", {}))
         /\ Goes(c, "storing") /\ inFlight' = Forget(wants[c])
  /\ UNCHANGED <<link, wire, redis>>

(* After `await load()`: a value is stored first, anything else is not. *)
Loaded ==
  /\ Now("loaded")
  /\ LET c == Head(tasks).who
         value == Head(tasks).result = "value"
     IN  \/ /\ value /\ useMemory
            /\ memory' = MemorySet(memory, wants[c], "load")
            /\ tasks' = Append(Tail(tasks), Task("stored", c, "value", {}))
            /\ Goes(c, "storing") /\ UNCHANGED <<wire, inFlight>>
         \/ /\ value /\ ~ useMemory
            /\ Send(Command("set", {wants[c]}, c))
            /\ Goes(c, "storing") /\ UNCHANGED <<memory, inFlight>>
         \/ /\ ~ value
            /\ tasks' = Tail(tasks)
            /\ Answered(c) /\ inFlight' = Forget(wants[c])
            /\ UNCHANGED <<memory, wire>>
  /\ UNCHANGED <<link, redis>>

(* After `await this.set(...)`, or its failure: everybody has the value. *)
Stored ==
  /\ Now("stored") /\ tasks' = Tail(tasks)
  /\ LET c == Head(tasks).who
     IN  Answered(c) /\ inFlight' = Forget(wants[c])
  /\ UNCHANGED <<link, memory, redis, wire>>

-----------------------------------------------------------------------------
(* The other operations, called by the routes, the middleware and the jobs *)

CanSend == ~ useMemory /\ client = "ready" /\ Len(wire) + Len(tasks) < MaxWire

(* A plain set().  (Without a connection nothing happens: no step.) *)
Set(k) ==
  /\ \/ /\ useMemory /\ memory' = MemorySet(memory, k, "set") /\ UNCHANGED wire
     \/ /\ CanSend /\ wire' = Append(wire, Command("set", {k}, Nobody)) /\ UNCHANGED memory
  /\ UNCHANGED <<link, redis, tasks, callers>>

(* del() of one key, flush() of them all. *)
Del(S) ==
  /\ \/ /\ useMemory /\ memory' = Without(memory, S) /\ UNCHANGED wire
     \/ /\ CanSend /\ wire' = Append(wire, Command("del", S, Nobody)) /\ UNCHANGED memory
  /\ UNCHANGED <<link, redis, tasks, callers>>

(* delPattern(), S the keys that match: on Redis, a SCAN (of one page), and *)
(* a DEL of what it found.                                                 *)
DelPattern(S) ==
  /\ CanSend /\ wire' = Append(wire, Command("scan", S, Nobody))
  /\ UNCHANGED <<link, memory, redis, tasks, callers>>
Scanned ==
  /\ Now("scanned")
  /\ LET found == Head(tasks).keys
     IN  IF found = {} THEN tasks' = Tail(tasks) /\ UNCHANGED wire
         ELSE Send(Command("del", found, Nobody))
  /\ UNCHANGED <<link, memory, redis, callers>>

(* A failed command that no caller's answer waits for is only logged. *)
Logged ==
  /\ Now("logged") /\ tasks' = Tail(tasks)
  /\ UNCHANGED <<link, memory, redis, wire, callers>>

-----------------------------------------------------------------------------
(* Redis, its client, and the listeners of connect() *)

(* The oldest command is executed and answered. *)
Reply ==
  /\ client = "ready" /\ wire # << >> /\ Head(wire).op # "quit"
  /\ redis' = Executed(redis, Head(wire))
  /\ tasks' = tasks \o Answer(Head(wire))
  /\ wire' = Tail(wire)
  /\ UNCHANGED <<link, memory, callers>>

(* Nothing else runs before the microtasks are done. *)
Event == tasks = << >>

(* connect(): the client is made, and tries to connect. *)
Connect ==
  /\ Event /\ client = "none"
  /\ client' = "retrying" /\ retries' = 0
  /\ UNCHANGED <<detached, connected, useMemory, memory, redis, wire, tasks, callers>>

(* A connection gives the client a new command queue; what waits in the old *)
(* one is sent again, in its order and before anything new, when the client *)
(* is ready.                                                               *)
Connected ==
  /\ Event /\ client = "retrying"
  /\ client' = "connect" /\ connected' = TRUE /\ useMemory' = FALSE
  /\ detached' = (wire # << >>)
  /\ UNCHANGED <<retries, memory, redis, wire, tasks, callers>>

(* Mutant of Ready: what was under way at the loss is forgotten. *)
ReadyForgets ==
  /\ Event /\ client = "connect"
  /\ client' = "ready" /\ retries' = 0 /\ detached' = FALSE /\ wire' = << >>
  /\ UNCHANGED <<connected, useMemory, memory, redis, tasks, callers>>

Ready ==
  /\ Event /\ client = "connect"
  /\ client' = "ready" /\ retries' = 0 /\ detached' = FALSE
  /\ UNCHANGED <<connected, useMemory, memory, redis, wire, tasks, callers>>

(* A connection is lost or cannot be made: an 'error' event, surely in the *)
(* second case, and a 'close' event; then another attempt, or the end.  At *)
(* the end the client rejects the commands of its queue; those of an older *)
(* queue it has forgotten, and they are never answered.                    *)
Retry ==
  LET over == retries' > MaxRetries \/ \E i \in DOMAIN wire : wire[i].op = "quit"
  IN  /\ retries' = retries + 1 /\ connected' = FALSE
      /\ client' = IF over THEN "end" ELSE "retrying"
      /\ IF over /\ ~ detached THEN wire' = << >> /\ tasks' = Rejections(wire)
         ELSE UNCHANGED <<wire, tasks>>
  /\ UNCHANGED <<detached, memory, callers>>
ConnectFails ==
  /\ Event /\ client = "retrying" /\ Retry
  /\ useMemory' = TRUE
  /\ UNCHANGED redis

(* The commands without an answer wait; Redis may have executed some of     *)
(* them, if they had been sent on this connection.                         *)
ConnectionLost ==
  /\ Event /\ client \in {"connect", "ready"} /\ Retry
  /\ useMemory' \in {useMemory, TRUE}
  /\ \E n \in 0..(IF client = "ready" THEN Len(wire) ELSE 0) :
       redis' = FoldLeft(Executed, redis, SubSeq(wire, 1, n))

(* quit(): QUIT is answered after the commands before it, and ends the      *)
(* connection; a client that is not connected fails, and is kept.          *)
Quit ==
  /\ client = "ready" /\ \A i \in DOMAIN wire : wire[i].op # "quit"
  /\ wire' = Append(wire, Command("quit", {}, Nobody))
  /\ UNCHANGED <<link, memory, redis, tasks, callers>>
QuitDone ==
  /\ Event /\ client = "ready" /\ wire # << >> /\ Head(wire).op = "quit"
  /\ client' = "none" /\ connected' = FALSE
  /\ wire' = << >> /\ tasks' = Rejections(wire)
  /\ UNCHANGED <<retries, detached, useMemory, memory, redis, callers>>

(* A TTL runs out: Redis drops the entry, the memory store keeps it. *)
Expire(k) ==
  /\ Event
  /\ \/ /\ k \in DOMAIN redis /\ redis' = [q \in DOMAIN redis \ {k} |-> redis[q]]
        /\ UNCHANGED memory
     \/ /\ k \in DOMAIN memory /\ ~ memory[k].expired
        /\ memory' = [memory EXCEPT ![k].expired = TRUE]
        /\ UNCHANGED redis
  /\ UNCHANGED <<link, wire, tasks, callers>>

-----------------------------------------------------------------------------
Init ==
  /\ client = "none" /\ retries = 0 /\ detached = FALSE /\ connected = FALSE /\ useMemory = FALSE
  /\ memory = NoKeys /\ redis = NoKeys /\ wire = << >> /\ tasks = << >>
  /\ inFlight = NoKeys
  /\ pc = [c \in Callers |-> "idle"]
  /\ wants = [c \in Callers |-> Nobody]

Run == Checked \/ Loaded \/ Stored \/ Scanned \/ Logged

Next ==
  \/ \E k \in LoadKeys, c \in Callers : GetOrSet(c, k)
  \/ \E k \in PlainKeys : Set(k)
  \/ \E k \in Keys : Expire(k) \/ Del({k})
  \/ Del(Keys) \/ DelPattern(Keys)
  \/ \E c \in Callers : LoadSettles(c)
  \/ Run \/ Reply
  \/ Connect \/ Connected \/ Ready \/ ConnectFails \/ ConnectionLost \/ Quit \/ QuitDone

Spec == Init /\ [][Next]_vars

(* Node.js runs what is ready, loads settle, and an attempt to connect ends *)
(* one way or the other (it is bounded in time by connectTimeout).  Redis   *)
(* need not come back; but a connection that comes back again and again is  *)
(* not lost every time before it has answered a single command.            *)
Attempt == Connected \/ ConnectFails \/ Ready \/ (client = "connect" /\ ConnectionLost)
Fairness ==
  /\ WF_vars(Run) /\ SF_vars(Reply) /\ WF_vars(QuitDone) /\ SF_vars(Attempt)
  /\ \A c \in Callers : WF_vars(LoadSettles(c))

LiveSpec == Spec /\ Fairness

-----------------------------------------------------------------------------
(* Properties *)

Flying == {"loading", "storing"}

(* Every variable stays within the values the code can give it. *)
TypeOK ==
  /\ client \in {"none", "retrying", "connect", "ready", "end"}
  /\ retries \in 0..(MaxRetries + 1)
  /\ detached \in BOOLEAN /\ connected \in BOOLEAN /\ useMemory \in BOOLEAN
  /\ DOMAIN memory \subseteq Keys
  /\ \A k \in DOMAIN memory :
       memory[k] \in [writer : {"load", "set"}, expired : BOOLEAN, older : SUBSET DOMAIN memory]
  /\ DOMAIN redis \subseteq Keys /\ \A k \in DOMAIN redis : redis[k] \in {"load", "set"}
  /\ wire \in Seq([op : {"get", "set", "del", "scan", "quit"}, keys : SUBSET Keys,
                   who : Callers \cup {Nobody}])
  /\ tasks \in Seq([step : {"checked", "loaded", "stored", "scanned", "logged"},
                    who : Callers \cup {Nobody}, keys : SUBSET Keys,
                    result : {"hit", "absent", "failed", "value", "nothing"}])
  /\ DOMAIN inFlight \subseteq Keys
  /\ \A k \in DOMAIN inFlight : inFlight[k] \in Callers \cup {Nobody}
  /\ pc \in [Callers -> {"idle", "reading", "joined"} \cup Flying]
  /\ \A c \in Callers : IF pc[c] = "idle" THEN wants[c] = Nobody ELSE wants[c] \in LoadKeys

(* No stampede: however calls, answers, outages and switches to memory and  *)
(* back interleave, a key is being loaded at most once at any time, and who *)
(* loads it is the one later callers are given the promise of.             *)
OneLoadPerKey ==
  \A c \in Callers : pc[c] \in Flying =>
    /\ wants[c] \in DOMAIN inFlight /\ inFlight[wants[c]] = c

(* No second load at the edge of the first: a caller that looked before the *)
(* loaded value was stored finds the promise still there when it goes on.   *)
LateMissesJoin ==
  \A i \in DOMAIN tasks : tasks[i].result = "absent" =>
    LET k == wants[tasks[i].who]
        stored == IF useMemory
                  THEN k \in DOMAIN memory /\ memory[k].writer = "load"
                  ELSE k \in DOMAIN redis /\ redis[k] = "load"
    IN  stored => k \in DOMAIN inFlight

(* The fallback store never holds more than its cap, whatever is stored,     *)
(* loaded, expired and deleted.                                            *)
MemoryIsBounded == Cardinality(DOMAIN memory) <= MaxEntries

(* A caller is not left hanging by an outage, a reconnect, a shutdown or by *)
(* another caller's load: every getOrSet() settles if the loads do, unless  *)
(* the client gives up after a connection that never became ready: it has  *)
(* then forgotten the commands it was to send again.                       *)
Forgotten == client = "end" /\ wire # << >>
CallersAreAnswered == \A c \in Callers : pc[c] # "idle" ~> pc[c] = "idle" \/ Forgotten

(* What connect() says of enableOfflineQueue: "Fail fast per command while  *)
(* reconnecting", so that nobody hangs on a Redis blip "instead of falling  *)
(* through to the memory fallback": no call waits for Redis while there is  *)
(* no connection.  It does not hold of the commands under way at the loss. *)
CommandsFailFast ==
  client \in {"retrying", "end"} => \A i \in DOMAIN wire : wire[i].who \notin Callers
=============================================================================
